--------------------------- MODULE LinearizableRead ---------------------------
(***************************************************************************)
(* The batched linearizable read of src/etcd/linearizable-read-demo: any   *)
(* number of readers, each waiting on the notifier of its batch, one loop   *)
(* that confirms a read index per batch and waits until the state machine   *)
(* has been applied that far, and one apply goroutine that wakes the loop.  *)
(*                                                                         *)
(* A batch is numbered by the round of the loop that serves it, so the      *)
(* notifier a reader holds is a natural number and "close(n.c)" adds the    *)
(* number to the set notified.  A map entry of applyWait.m is its deadline; *)
(* its channel is open exactly as long as the entry is in the map.          *)
(***************************************************************************)
EXTENDS Naturals, FiniteSets

CONSTANTS Reader,      \* the goroutines that call linearizableReadNotify
          Confirmed,   \* confirmedIndex, line 123
          MaxApplied   \* the last index the apply goroutine stores, line 152

ASSUME ConstantsAssumption == /\ Confirmed \in Nat
                              /\ MaxApplied \in Nat
                              /\ Confirmed <= MaxApplied

VARIABLES readNotifier, \* number of the batch that newly arriving readers join
          notified,     \* batches whose notifier was closed
          readwaitc,    \* TRUE iff the one-slot channel holds a token
          stopping,     \* TRUE iff the channel stopping is closed
          appliedIndex, \* the atomic the apply goroutine stores
          last,         \* applyWait.last
          m,            \* deadlines with an open channel in applyWait.m
          apply,        \* "store" or "trigger": where the apply goroutine is
          loop,         \* where linearizableReadLoop is
          pc,           \* pc[r]: where reader r is
          nc            \* nc[r]: the batch whose notifier r took

serverVars == <<readNotifier, notified, readwaitc, stopping>>
applyVars  == <<appliedIndex, last, m, apply>>
vars == <<serverVars, applyVars, loop, pc, nc>>

Returned == {"ok", "timeout", "stopped"}

TypeOK == /\ readNotifier \in Nat
          /\ notified \in SUBSET Nat
          /\ readwaitc \in BOOLEAN
          /\ stopping \in BOOLEAN
          /\ appliedIndex \in 0..MaxApplied
          /\ last \in 0..MaxApplied
          /\ m \in SUBSET {Confirmed}
          /\ apply \in {"store", "trigger"}
          /\ loop \in {"receive", "swap", "index", "wait", "parked",
                       "notify", "stopped"}
          /\ pc \in [Reader -> {"start", "signal", "waiting"} \cup Returned]
          /\ nc \in [Reader -> Nat]

Init == /\ readNotifier = 0
        /\ notified = {}
        /\ readwaitc = FALSE
        /\ stopping = FALSE
        /\ appliedIndex = 0
        /\ last = 0
        /\ m = {}
        /\ apply = "store"
        /\ loop = "receive"
        /\ pc = [r \in Reader |-> "start"]
        /\ nc = [r \in Reader |-> 0]

(* The loop is serving the batch it swapped out. *)
Serving == loop \in {"index", "wait", "parked", "notify"}

-------------------------------------------------------------------------------
(* linearizableReadNotify *)

ReaderGoesTo(r, from, to) == /\ pc[r] = from
                             /\ pc' = [pc EXCEPT ![r] = to]

(* Mutant: readers still join the batch being served (a late swap). *)
TakeServedNotifier(r) ==
    /\ ReaderGoesTo(r, "start", "signal")
    /\ nc' = [nc EXCEPT ![r] = IF Serving THEN readNotifier - 1 ELSE readNotifier]
    /\ UNCHANGED <<serverVars, applyVars, loop>>

(* The notifier is read under the read lock, and used after it. *)
TakeNotifier(r) == /\ ReaderGoesTo(r, "start", "signal")
                   /\ nc' = [nc EXCEPT ![r] = readNotifier]
                   /\ UNCHANGED <<serverVars, applyVars, loop>>

(* Mutant: readwaitc without its buffer of one. *)
SignalUnbuffered(r) ==
    /\ ReaderGoesTo(r, "signal", "waiting")
    /\ readwaitc' = (readwaitc \/ loop = "receive")
    /\ UNCHANGED <<readNotifier, notified, stopping, applyVars, loop, nc>>

(* The non-blocking send: a full channel drops the token. *)
Signal(r) == /\ ReaderGoesTo(r, "signal", "waiting")
             /\ readwaitc' = TRUE
             /\ UNCHANGED <<readNotifier, notified, stopping, applyVars, loop, nc>>

Released(r) == /\ ReaderGoesTo(r, "waiting", "ok")
               /\ nc[r] \in notified
               /\ UNCHANGED <<serverVars, applyVars, loop, nc>>

ReaderStops(r) == /\ ReaderGoesTo(r, "waiting", "stopped")
                  /\ stopping
                  /\ UNCHANGED <<serverVars, applyVars, loop, nc>>

(* The context's deadline may pass at any moment of the wait. *)
Timeout(r) == /\ ReaderGoesTo(r, "waiting", "timeout")
              /\ UNCHANGED <<serverVars, applyVars, loop, nc>>

-------------------------------------------------------------------------------
(* linearizableReadLoop *)

LoopGoesTo(from, to) == loop = from /\ loop' = to

LoopReceives == /\ LoopGoesTo("receive", "swap")
                /\ readwaitc
                /\ readwaitc' = FALSE
                /\ UNCHANGED <<readNotifier, notified, stopping, applyVars, pc, nc>>

SwapNotifier == /\ LoopGoesTo("swap", "index")
                /\ readNotifier' = readNotifier + 1
                /\ UNCHANGED <<notified, readwaitc, stopping, applyVars, pc, nc>>

(* Mutant: the fast path notifies on its own before the common notify. *)
ConfirmIndexAndNotify ==
    /\ \/ /\ appliedIndex < Confirmed
          /\ LoopGoesTo("index", "wait")
          /\ UNCHANGED notified
       \/ /\ appliedIndex >= Confirmed
          /\ LoopGoesTo("index", "notify")
          /\ notified' = notified \cup {readNotifier - 1}
    /\ UNCHANGED <<readNotifier, readwaitc, stopping, applyVars, pc, nc>>

(* The index is confirmed after the swap; appliedIndex is loaded with it. *)
ConfirmIndex == /\ \/ /\ appliedIndex < Confirmed
                      /\ LoopGoesTo("index", "wait")
                   \/ /\ appliedIndex >= Confirmed
                      /\ LoopGoesTo("index", "notify")
                /\ UNCHANGED <<serverVars, applyVars, pc, nc>>

(* Mutant: Wait registers without looking at the last trigger. *)
CallWaitUnchecked ==
    /\ LoopGoesTo("wait", "parked")
    /\ m' = m \cup {Confirmed}
    /\ UNCHANGED <<serverVars, appliedIndex, last, apply, pc, nc>>

(* applyWait.Wait(confirmedIndex): an already closed channel if the trigger *)
(* has passed, otherwise an entry of the map.                               *)
CallWait == /\ LoopGoesTo("wait", "parked")
            /\ m' = IF last >= Confirmed THEN m ELSE m \cup {Confirmed}
            /\ UNCHANGED <<serverVars, appliedIndex, last, apply, pc, nc>>

WaitReturns == /\ LoopGoesTo("parked", "notify")
               /\ Confirmed \notin m
               /\ UNCHANGED <<serverVars, applyVars, pc, nc>>

(* Mutant: the notifier that was just installed is closed. *)
NotifyCurrent ==
    /\ LoopGoesTo("notify", "receive")
    /\ notified' = notified \cup {readNotifier}
    /\ UNCHANGED <<readNotifier, readwaitc, stopping, applyVars, pc, nc>>

(* notify(nil) on the notifier taken at the swap, the one before the current. *)
Notify == /\ LoopGoesTo("notify", "receive")
          /\ notified' = notified \cup {readNotifier - 1}
          /\ UNCHANGED <<readNotifier, readwaitc, stopping, applyVars, pc, nc>>

(* Both selects of the loop return on stopping, the second one without      *)
(* notifying the batch it had taken.                                        *)
LoopStops == /\ stopping
             /\ LoopGoesTo("receive", "stopped") \/ LoopGoesTo("parked", "stopped")
             /\ UNCHANGED <<serverVars, applyVars, pc, nc>>

LoopStep == \/ LoopReceives \/ SwapNotifier \/ ConfirmIndex \/ CallWait
            \/ WaitReturns \/ Notify \/ LoopStops

-------------------------------------------------------------------------------
(* The apply goroutine of main, and the end of main *)

(* Mutant: the apply loop runs once too often. *)
StoreAppliedOffByOne ==
    /\ apply = "store"
    /\ appliedIndex <= MaxApplied
    /\ appliedIndex' = appliedIndex + 1
    /\ apply' = "trigger"
    /\ UNCHANGED <<serverVars, last, m, loop, pc, nc>>

StoreApplied == /\ apply = "store"
                /\ appliedIndex < MaxApplied
                /\ appliedIndex' = appliedIndex + 1
                /\ apply' = "trigger"
                /\ UNCHANGED <<serverVars, last, m, loop, pc, nc>>

Trigger == /\ apply = "trigger"
           /\ last' = appliedIndex
           /\ m' = {d \in m : d > appliedIndex}
           /\ apply' = "store"
           /\ UNCHANGED <<serverVars, appliedIndex, loop, pc, nc>>

Stop == /\ ~stopping
        /\ stopping' = TRUE
        /\ UNCHANGED <<readNotifier, notified, readwaitc, applyVars, loop, pc, nc>>

(* Every goroutine has returned. *)
Finished == /\ loop = "stopped"
            /\ appliedIndex = MaxApplied /\ apply = "store"
            /\ \A r \in Reader : pc[r] \in Returned
            /\ UNCHANGED vars

ReaderStep(r) == TakeNotifier(r) \/ Signal(r) \/ Released(r) \/ ReaderStops(r)

Next == \/ \E r \in Reader : ReaderStep(r) \/ Timeout(r)
        \/ LoopStep
        \/ StoreApplied \/ Trigger
        \/ Stop
        \/ Finished

Spec == Init /\ [][Next]_vars

(* Goroutines that can run do run.  A deadline or the end of main is never  *)
(* relied upon.                                                             *)
Fairness == /\ \A r \in Reader : WF_vars(ReaderStep(r))
            /\ WF_vars(LoopStep)
            /\ WF_vars(StoreApplied \/ Trigger)

FairSpec == Spec /\ Fairness

-------------------------------------------------------------------------------
(* What makes the barrier correct *)

(* Batches for which the loop has obtained a read index. *)
ConfirmedBatches == {b \in Nat : /\ b < readNotifier
                                 /\ (loop = "index" => b # readNotifier - 1)}

(* A reader waiting on the current batch is never forgotten: its token is in *)
(* the channel or in the hands of the loop, which is about to swap that      *)
(* batch out (line 89-92 against 110-119), unless the server stopped.        *)
NoLostSignal ==
    \A r \in Reader : pc[r] = "waiting" /\ nc[r] = readNotifier =>
                         readwaitc \/ loop \in {"swap", "stopped"}

(* Every batch swapped out before the one being served has been notified, so *)
(* a reader never holds a batch the loop has dropped, except on stopping.    *)
NoDroppedBatch ==
    \A r \in Reader : nc[r] < readNotifier /\ nc[r] \notin notified =>
        /\ loop \in {"index", "wait", "parked", "notify", "stopped"}
        /\ nc[r] = readNotifier - 1

(* The store of appliedIndex and the trigger are two steps, as are the load  *)
(* and the wait: a deadline registered in between is still ahead of the      *)
(* last trigger, so the trigger that wakes the loop is always to come.       *)
NoLostWakeup == \A d \in m : last < d

(* A batch is notified only when the state machine has been applied up to    *)
(* the confirmed index (lines 127-137).                                      *)
ReleasedAfterApply == notified # {} => appliedIndex >= Confirmed

(* Two rounds never notify the same notifier: close of a closed channel      *)
(* would panic (line 22).                                                    *)
NoDoubleClose == [][loop = "notify" /\ loop' = "receive" =>
                        notified' # notified]_vars

(* Every reader returns, with no help from its deadline. *)
EveryReaderReturns == \A r \in Reader : pc[r] = "waiting" ~> pc[r] \in Returned

-------------------------------------------------------------------------------
(* Implementation of the barrier's promise *)

(* What the caller of read r can tell, and whether an index was confirmed    *)
(* for r's batch.                                                            *)
CallerState(r) == IF pc[r] = "start" THEN "idle"
                  ELSE IF pc[r] \in {"signal", "waiting"} THEN "pending"
                  ELSE IF pc[r] = "ok" THEN "ok" ELSE "failed"
CallerFresh(r) == pc[r] # "start" /\ nc[r] \in ConfirmedBatches

Barrier == INSTANCE ReadBarrier WITH
    state   <- [r \in Reader |-> CallerState(r)],
    fresh   <- [r \in Reader |-> CallerFresh(r)],
    applied <- appliedIndex

(* Every behaviour of the demo is one of the barrier: a read that returns    *)
(* nil was confirmed after it arrived and applied before it returned.        *)
BarrierSpec == Barrier!Spec
================================================================================
