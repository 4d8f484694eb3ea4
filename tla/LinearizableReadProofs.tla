------------------------ MODULE LinearizableReadProofs ------------------------
(***************************************************************************)
(* Proofs about LinearizableRead for any set of readers, any confirmed      *)
(* index and any number of applied entries.                                 *)
(***************************************************************************)
EXTENDS LinearizableRead, TLAPS

(* What the loop has notified, by where it is: all batches before the one    *)
(* being served, and the served one only after the notify.                   *)
Batches ==
    /\ \A b \in notified : b < readNotifier
    /\ \A b \in Nat : b + 1 < readNotifier => b \in notified
    /\ Serving => readNotifier > 0 /\ readNotifier - 1 \notin notified
    /\ loop \in {"receive", "swap"} /\ readNotifier > 0 =>
          readNotifier - 1 \in notified

(* Readers hold the notifier of a batch that exists, and return "ok" only    *)
(* after it was closed.                                                      *)
Held == \A r \in Reader : /\ nc[r] <= readNotifier
                          /\ pc[r] = "ok" => nc[r] \in notified

(* The apply goroutine triggers what it stored, one step later; the loop     *)
(* goes past the wait only when the trigger has.                             *)
Applied ==
    /\ last <= appliedIndex
    /\ apply = "store" => last = appliedIndex
    /\ loop = "parked" /\ Confirmed \notin m => last >= Confirmed
    /\ loop = "notify" => appliedIndex >= Confirmed

(* The inductive invariant: the checked invariants alone are not inductive,  *)
(* because they do not say which batches the loop has still to notify.       *)
IInv == /\ TypeOK
        /\ Batches
        /\ Held
        /\ Applied
        /\ NoLostSignal
        /\ NoLostWakeup
        /\ ReleasedAfterApply

-------------------------------------------------------------------------------
USE DEF ConstantsAssumption, serverVars, applyVars, Returned, Serving

(* The invariant holds before the first request.                             *)
LEMMA InitIInv == Init => IInv
  <1> SUFFICES ASSUME Init PROVE IInv
    OBVIOUS
  <1> USE ConstantsAssumption DEF Init
  <1>1. TypeOK
    <2>1. readwaitc \in BOOLEAN /\ stopping \in BOOLEAN
      OBVIOUS
    <2> QED
      BY <2>1 DEF TypeOK
  <1>2. Batches
    BY DEF Batches
  <1>3. Held
    BY DEF Held
  <1>4. Applied
    BY DEF Applied
  <1>5. NoLostSignal /\ NoLostWakeup /\ ReleasedAfterApply
    BY DEF NoLostSignal, NoLostWakeup, ReleasedAfterApply
  <1> QED
    BY <1>1, <1>2, <1>3, <1>4, <1>5 DEF IInv

(* A reader only moves its own program counter, and takes the current        *)
(* notifier or raises the token.                                             *)
LEMMA ReaderIInv ==
  ASSUME IInv, NEW r \in Reader, ReaderStep(r) \/ Timeout(r)
  PROVE  IInv'
  <1> USE DEF IInv, TypeOK, Batches, Held, Applied, NoLostSignal, NoLostWakeup,
              ReleasedAfterApply, ReaderGoesTo
  <1>1. CASE TakeNotifier(r)
    BY <1>1 DEF TakeNotifier
  <1>2. CASE Signal(r)
    BY <1>2 DEF Signal
  <1>3. CASE Released(r)
    BY <1>3 DEF Released
  <1>4. CASE ReaderStops(r)
    BY <1>4 DEF ReaderStops
  <1>5. CASE Timeout(r)
    BY <1>5 DEF Timeout
  <1> QED
    BY <1>1, <1>2, <1>3, <1>4, <1>5 DEF ReaderStep

(* The steps of the read loop keep it.                                       *)
LEMMA LoopIInv ==
  ASSUME IInv, LoopStep
  PROVE  IInv'
  <1> USE DEF IInv, TypeOK, Batches, Held, Applied, NoLostSignal, NoLostWakeup,
              ReleasedAfterApply, LoopGoesTo
  <1>1. CASE LoopReceives
    BY <1>1 DEF LoopReceives
  <1>2. CASE SwapNotifier
    BY <1>2 DEF SwapNotifier
  <1>3. CASE ConfirmIndex
    BY <1>3, ConstantsAssumption DEF ConfirmIndex
  <1>4. CASE CallWait
    BY <1>4, ConstantsAssumption DEF CallWait
  <1>5. CASE WaitReturns
    <2>1. appliedIndex >= Confirmed
      BY <1>5, ConstantsAssumption DEF WaitReturns
    <2>2. TypeOK' /\ Batches' /\ Held'
      BY <1>5 DEF WaitReturns
    <2>3. Applied' /\ NoLostSignal' /\ NoLostWakeup' /\ ReleasedAfterApply'
      BY <1>5, <2>1 DEF WaitReturns
    <2> QED
      BY <2>2, <2>3
  <1>6. CASE Notify
    BY <1>6 DEF Notify
  <1>7. CASE LoopStops
    BY <1>7 DEF LoopStops
  <1> QED
    BY <1>1, <1>2, <1>3, <1>4, <1>5, <1>6, <1>7 DEF LoopStep

(* So do the steps of the applier, of the triggers and of stopping.          *)
LEMMA ApplyIInv ==
  ASSUME IInv, StoreApplied \/ Trigger
  PROVE  IInv'
  <1> USE ConstantsAssumption
      DEF IInv, TypeOK, Batches, Held, Applied, NoLostSignal, NoLostWakeup,
          ReleasedAfterApply
  <1>1. CASE StoreApplied
    BY <1>1 DEF StoreApplied
  <1>2. CASE Trigger
    <2>1. m' \subseteq m /\ \A d \in m' : last' < d
      BY <1>2 DEF Trigger
    <2>2. Confirmed \in m /\ Confirmed \notin m' => last' >= Confirmed
      BY <1>2 DEF Trigger
    <2>3. TypeOK' /\ Batches' /\ Held' /\ NoLostSignal'
      BY <1>2, <2>1 DEF Trigger
    <2>4. Applied'
      BY <1>2, <2>1, <2>2 DEF Trigger
    <2>5. NoLostWakeup' /\ ReleasedAfterApply'
      BY <1>2, <2>1 DEF Trigger
    <2> QED
      BY <2>3, <2>4, <2>5
  <1> QED
    BY <1>1, <1>2

(* Every step keeps it.                                                      *)
LEMMA NextIInv == IInv /\ [Next]_vars => IInv'
  <1> SUFFICES ASSUME IInv, [Next]_vars
               PROVE  IInv'
    OBVIOUS
  <1> USE DEF IInv, TypeOK, Batches, Held, Applied, NoLostSignal, NoLostWakeup,
              ReleasedAfterApply
  <1>1. CASE Stop
    BY <1>1 DEF Stop
  <1>2. CASE UNCHANGED vars
    BY <1>2 DEF vars
  <1> QED
    BY <1>1, <1>2, ReaderIInv, LoopIInv, ApplyIInv DEF Next, Finished

(* The inductive invariant holds in every behaviour: who waits for which     *)
(* batch, and what was confirmed by then.                                    *)
THEOREM Invariance == Spec => []IInv
  BY InitIInv, NextIInv, PTL DEF Spec

(* The variables keep their types.                                           *)
THEOREM TypeCorrect == Spec => []TypeOK
  <1>1. IInv => TypeOK
    BY DEF IInv
  <1> QED
    BY <1>1, Invariance, PTL

(* For any number of readers: the token of a waiting reader is never lost,   *)
(* neither in the non-blocking send of lines 89-92 nor in the swap.          *)
THEOREM SignalNeverLost == Spec => []NoLostSignal
  <1>1. IInv => NoLostSignal
    BY DEF IInv
  <1> QED
    BY <1>1, Invariance, PTL

(* For any number of readers: a batch the loop has moved past was notified.  *)
THEOREM BatchNeverDropped == Spec => []NoDroppedBatch
  <1>1. IInv => NoDroppedBatch
    BY DEF IInv, TypeOK, Batches, Held, NoDroppedBatch
  <1> QED
    BY <1>1, Invariance, PTL

(* The loop parks only on a deadline whose trigger is still to come.         *)
THEOREM WakeupNeverLost == Spec => []NoLostWakeup
  <1>1. IInv => NoLostWakeup
    BY DEF IInv
  <1> QED
    BY <1>1, Invariance, PTL

(* A notifier is closed at most once (line 22 would panic otherwise).        *)
THEOREM ClosedOnce == Spec => NoDoubleClose
  <1>1. IInv /\ [Next]_vars =>
          [loop = "notify" /\ loop' = "receive" => notified' # notified]_vars
    <2> SUFFICES ASSUME IInv, Next, loop = "notify", loop' = "receive"
                 PROVE  notified' # notified
      BY DEF vars
    <2>1. Notify
      BY DEF Next, ReaderStep, ReaderGoesTo, TakeNotifier, Signal, Released,
             ReaderStops, Timeout, LoopStep, LoopGoesTo, LoopReceives,
             SwapNotifier, ConfirmIndex, CallWait, WaitReturns, LoopStops,
             StoreApplied, Trigger, Stop, Finished, vars
    <2> QED
      BY <2>1 DEF Notify, IInv, TypeOK, Batches
  <1> QED
    BY <1>1, Invariance, PTL DEF NoDoubleClose, Spec
-------------------------------------------------------------------------------
(* LinearizableRead implements ReadBarrier.                                  *)

(* A batch that was notified had its index confirmed before.                 *)
LEMMA NotifiedIsConfirmed == IInv => notified \subseteq ConfirmedBatches
  BY DEF IInv, TypeOK, Batches, ConfirmedBatches

(* The first state is one of the read barrier.                               *)
LEMMA BarrierInit == Init => Barrier!Init
  BY DEF Init, Barrier!Init, CallerState, CallerFresh

(* A step that changes neither readers nor confirmed batches nor the applied *)
(* index stutters.                                                           *)
LEMMA BarrierStutter ==
  ASSUME UNCHANGED <<pc, nc, appliedIndex>>, ConfirmedBatches' = ConfirmedBatches
  PROVE  UNCHANGED Barrier!bvars
  BY DEF Barrier!bvars, CallerState, CallerFresh

(* Steps of a reader are arrivals, returns or stutters of the read barrier.  *)
LEMMA BarrierReader ==
  ASSUME IInv, NEW r \in Reader, ReaderStep(r) \/ Timeout(r)
  PROVE  [Barrier!Next]_(Barrier!bvars)
  <1> USE DEF IInv, TypeOK, ReaderGoesTo, CallerState, CallerFresh
  <1>0. ConfirmedBatches' = ConfirmedBatches
    BY DEF ConfirmedBatches, ReaderStep, TakeNotifier, Signal, Released,
           ReaderStops, Timeout
  <1>1. CASE TakeNotifier(r)
    <2>1. readNotifier \notin ConfirmedBatches
      BY DEF ConfirmedBatches
    <2>2. Barrier!Arrive(r)
      BY <1>0, <1>1, <2>1 DEF TakeNotifier, Barrier!Arrive
    <2> QED
      BY <2>2 DEF Barrier!Next
  <1>2. CASE Signal(r)
    BY <1>0, <1>2 DEF Signal, Barrier!bvars
  <1>3. CASE Released(r)
    <2>1. nc[r] \in ConfirmedBatches /\ appliedIndex >= Confirmed
      BY <1>3, NotifiedIsConfirmed DEF Released, ReleasedAfterApply
    <2>2. Barrier!Return(r)
      BY <1>0, <1>3, <2>1 DEF Released, Barrier!Return
    <2> QED
      BY <2>2 DEF Barrier!Next
  <1>4. CASE ReaderStops(r) \/ Timeout(r)
    <2>1. Barrier!Fail(r)
      BY <1>0, <1>4 DEF ReaderStops, Timeout, Barrier!Fail
    <2> QED
      BY <2>1 DEF Barrier!Next
  <1> QED
    BY <1>1, <1>2, <1>3, <1>4 DEF ReaderStep

(* Of the loop's steps only the confirmation is visible: it serves the       *)
(* readers of the batch that was swapped out.                                *)
LEMMA BarrierLoop ==
  ASSUME IInv, LoopStep
  PROVE  [Barrier!Next]_(Barrier!bvars)
  <1> USE DEF IInv, TypeOK, LoopGoesTo
  <1>1. CASE ConfirmIndex
    <2> DEFINE S == {r \in Reader : pc[r] # "start" /\ nc[r] = readNotifier - 1}
    <2>1. ConfirmedBatches' = ConfirmedBatches \cup {readNotifier - 1}
      BY <1>1 DEF ConfirmIndex, ConfirmedBatches, Batches
    <2>2. Barrier!Confirm(S)
      BY <1>1, <2>1 DEF ConfirmIndex, Barrier!Confirm, CallerState, CallerFresh
    <2> QED
      BY <2>2 DEF Barrier!Next
  <1>2. CASE SwapNotifier
    <2>1. ConfirmedBatches' = ConfirmedBatches
      BY <1>2 DEF SwapNotifier, ConfirmedBatches
    <2> QED
      BY <1>2, <2>1, BarrierStutter DEF SwapNotifier
  <1>3. CASE LoopReceives \/ CallWait \/ WaitReturns \/ Notify \/ LoopStops
    <2>1. ConfirmedBatches' = ConfirmedBatches
      BY <1>3 DEF LoopReceives, CallWait, WaitReturns, Notify, LoopStops,
                  ConfirmedBatches
    <2> QED
      BY <1>3, <2>1, BarrierStutter
         DEF LoopReceives, CallWait, WaitReturns, Notify, LoopStops
  <1> QED
    BY <1>1, <1>2, <1>3 DEF LoopStep

(* Applying an entry is Apply of the read barrier, and the rest is a         *)
(* stutter.                                                                  *)
LEMMA BarrierApply ==
  ASSUME IInv, StoreApplied \/ Trigger \/ Stop \/ UNCHANGED vars
  PROVE  [Barrier!Next]_(Barrier!bvars)
  <1>1. ConfirmedBatches' = ConfirmedBatches
    BY DEF StoreApplied, Trigger, Stop, vars, ConfirmedBatches
  <1>2. CASE StoreApplied
    <2>1. Barrier!Apply
      BY <1>1, <1>2 DEF StoreApplied, Barrier!Apply, CallerState, CallerFresh
    <2> QED
      BY <2>1 DEF Barrier!Next
  <1>3. CASE Trigger \/ Stop \/ UNCHANGED vars
    BY <1>1, <1>3, BarrierStutter DEF Trigger, Stop, vars
  <1> QED
    BY <1>2, <1>3

(* A read that returns nil saw an index confirmed after it arrived and a     *)
(* state machine applied up to it, for any number of readers and batches.    *)
THEOREM Implementation == Spec => BarrierSpec
  <1>1. IInv /\ [Next]_vars => [Barrier!Next]_(Barrier!bvars)
    BY BarrierReader, BarrierLoop, BarrierApply DEF Next, Finished
  <1> QED
    BY <1>1, BarrierInit, Invariance, PTL DEF Spec, BarrierSpec, Barrier!Spec
================================================================================
