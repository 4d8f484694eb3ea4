---------------------------- MODULE ConfigMapWatch ----------------------------
(***************************************************************************)
(* src/client-go/informer-410-gone-real: list and watch ConfigMaps from a   *)
(* resourceVersion that may have expired, by hand or through an informer.   *)
(*                                                                         *)
(* The API server is external: history[r] is the write that made revision   *)
(* r, a watch delivers the writes after its revision one by one, and what   *)
(* has been compacted is answered with 410 Gone, on opening or later.  The  *)
(* Reflector of client-go is external too, but the ListFunc and WatchFunc   *)
(* it calls are the program's.  Other clients write the same ConfigMaps.    *)
(***************************************************************************)
EXTENDS Integers, SequencesExt, FiniteSetsExt

CONSTANTS Name,        \* ConfigMaps with the demo's label
          Churned,     \* Churned[i]: the ConfigMap of the i-th churn operation
          Recovered,   \* "informer-after-recover"
          MaxForeign   \* bound on the writes of other clients

VARIABLES mode, provided,   \* options: --mode, and --resource-version was given
          cleanup,          \* options: --cleanup
          history, foreign, \* external: all writes, and how many were foreign
          compacted,        \* external: revisions up to here are gone
          pc,               \* where main is
          i, got,           \* churn index; the revision Get returned, 0 if none
          staleRV,
          reflector,        \* "off", "list", "open" or "watching"
          opened,           \* a watch was opened since the start of the informer
          view,             \* what list and events told the program, per name
          position,         \* the revision up to which it was told
          listed,           \* revision of the list view began with, 0 before
          doomed            \* ConfigMaps DeleteCollection found and has not deleted

server == <<history, foreign, compacted>>
options == <<mode, provided, cleanup>>
main == <<pc, i, got, staleRV, doomed>>
informer == <<reflector, opened>>
told == <<view, position, listed>>
vars == <<options, server, main, informer, told>>

Rev == Len(history)
StateAt(r) ==
    [n \in Name |-> LET writes == {k \in 1..r : history[k].name = n}
                    IN IF writes # {} /\ history[Max(writes)].live
                       THEN Max(writes) ELSE 0]
objects == StateAt(Rev)

Ended == pc \in {"exited", "fatal"}
(* What is there at first, the churn with its deletions, the ConfigMap of the *)
(* recovery, the cleanup and the other clients.                              *)
MaxRev == 2 + Len(Churned) + Len(Churned) \div 2 + Cardinality(Name) + MaxForeign


TypeOK == /\ mode \in {"manual", "informer"} /\ {provided, cleanup} \subseteq BOOLEAN
          /\ doomed \subseteq Name
          /\ history \in Seq([name : Name, live : BOOLEAN])
          /\ Rev <= MaxRev
          /\ foreign \in 0..MaxForeign
          /\ compacted \in 0..(Rev - 1)
          /\ pc \in {"capture", "churnGet", "churnPut", "churnDelete", "watch1", "events1",
                     "relist", "watch2", "events2", "start", "sync", "recoverGet",
                     "recoverPut", "run", "returned", "cleanup", "exited", "fatal"}
          /\ i \in 1..(Len(Churned) + 1)
          /\ got \in 0..Rev /\ staleRV \in 0..Rev
          /\ reflector \in {"off", "list", "open", "watching"}
          /\ opened \in BOOLEAN
          /\ view \in [Name -> 0..Rev]
          /\ position \in 0..Rev /\ listed \in 0..Rev

(* One ConfigMap of an earlier run may still be there.                       *)
Init == /\ mode \in {"manual", "informer"} /\ provided \in BOOLEAN
        /\ history \in {<<[name |-> n, live |-> TRUE]>> : n \in Name}
        /\ foreign = 0 /\ compacted = 0
        /\ cleanup \in BOOLEAN /\ doomed = {}
        /\ pc = "capture"
        /\ i = 1 /\ got = 0 /\ staleRV = 0
        /\ reflector = "off" /\ opened = FALSE
        /\ view = [n \in Name |-> 0] /\ position = 0 /\ listed = 0

-------------------------------------------------------------------------------
(* The API server and its other clients (external) *)

Written(n, live) == history' = Append(history, [name |-> n, live |-> live])

ForeignWrite == /\ foreign < MaxForeign
                /\ foreign' = foreign + 1
                /\ \E n \in Name, live \in BOOLEAN :
                     /\ live \/ objects[n] # 0
                     /\ Written(n, live)
                /\ UNCHANGED <<options, compacted, main, informer, told>>

Compact == /\ compacted < Rev - 1
           /\ compacted' = Rev - 1
           /\ UNCHANGED <<options, history, foreign, main, informer, told>>

Gone(r) == r < compacted

(* Lists are answered with the current objects.                              *)
List == view' = objects /\ position' = Rev /\ listed' = Rev

Event == /\ ~Gone(position) /\ position < Rev
         /\ position' = position + 1
         /\ LET w == history[position']
            IN view' = [view EXCEPT ![w.name] = IF w.live THEN position' ELSE 0]
         /\ UNCHANGED listed

-------------------------------------------------------------------------------
(* main: staleResourceVersion and the churn *)

Goes(from, to) == pc = from /\ pc' = to

AfterStale == IF mode = "manual" THEN "watch1" ELSE "start"

(* A revision given on the command line is used as it is, without a churn.    *)
UseProvided == /\ provided
               /\ Goes("capture", AfterStale)
               /\ staleRV' = 1
               /\ UNCHANGED <<options, server, i, got, doomed, informer, told>>

Capture == /\ ~provided
           /\ Goes("capture", IF Churned = <<>> THEN AfterStale ELSE "churnGet")
           /\ staleRV' = Rev
           /\ UNCHANGED <<options, server, i, got, doomed, informer, told>>

(* createOrUpdateConfigMap reads, and writes what it read some time later.   *)
Get(n, from, to) == /\ Goes(from, to)
                    /\ got' = objects[n]
                    /\ UNCHANGED <<options, server, i, staleRV, doomed, informer, told>>

(* Create fails if the object exists now, Update if its revision moved on.   *)
Put(n, from, to) ==
    /\ pc = from
    /\ IF got = objects[n] THEN pc' = to /\ Written(n, TRUE)
                           ELSE pc' = "fatal" /\ UNCHANGED history
    /\ UNCHANGED <<options, foreign, compacted, got, staleRV, doomed, informer, told>>

ChurnGet == Get(Churned[i], "churnGet", "churnPut")

NextChurn == IF i = Len(Churned) THEN AfterStale ELSE "churnGet"

ChurnPut == /\ Put(Churned[i], "churnPut", IF i % 2 = 0 THEN "churnDelete" ELSE NextChurn)
            /\ i' = IF i % 2 = 0 THEN i ELSE i + 1


(* Every second one is deleted again; that it is gone already is no error.   *)
ChurnDelete == /\ Goes("churnDelete", NextChurn)
               /\ IF objects[Churned[i]] # 0 THEN Written(Churned[i], FALSE)
                                             ELSE UNCHANGED history
               /\ i' = i + 1
               /\ UNCHANGED <<options, foreign, compacted, got, staleRV, doomed, informer, told>>

-------------------------------------------------------------------------------
(* runManual *)

(* watchOnce: a revision that is gone is reported, anything else ends it.     *)
OpenWatch1 == /\ Goes("watch1", IF Gone(staleRV) THEN "relist" ELSE "events1")
              /\ position' = staleRV
              /\ UNCHANGED <<options, server, i, got, staleRV, doomed, informer, view, listed>>

WatchEvent == /\ pc \in {"events1", "events2"}
              /\ Event
              /\ UNCHANGED <<options, server, main, informer>>

GoneEvent1 == /\ Goes("events1", "relist")
              /\ Gone(position)
              /\ UNCHANGED <<options, server, i, got, staleRV, doomed, informer, told>>

Relist == /\ Goes("relist", "watch2")
          /\ List
          /\ UNCHANGED <<options, server, i, got, staleRV, doomed, informer>>

(* Mutant: the second watch names no revision and starts at the latest. *)
RewatchLatest == /\ Goes("watch2", "events2")
                 /\ position' = Rev
                 /\ UNCHANGED <<options, server, i, got, staleRV, doomed, informer, view, listed>>

OpenWatch2 == /\ ~Gone(listed)
              /\ Goes("watch2", "events2")
              /\ position' = listed
              /\ UNCHANGED <<options, server, i, got, staleRV, doomed, informer, view, listed>>

(* The channel is closed after the watch timeout.  The second watch ends the *)
(* run whether its revision is gone or not.                                  *)
WatchCloses == /\ \/ Goes("events1", "returned")
                  \/ Goes("events2", "returned")
                  \/ Gone(listed) /\ Goes("watch2", "returned")
               /\ UNCHANGED <<options, server, i, got, staleRV, doomed, informer, told>>

-------------------------------------------------------------------------------
(* runInformer *)

(* go informer.Run *)
StartInformer == /\ Goes("start", "sync")
                 /\ reflector' = "list"
                 /\ UNCHANGED <<options, server, i, got, staleRV, doomed, opened, told>>

(* The informer runs until the context of runInformer is cancelled.          *)
ReflectorGoes(from, to) == /\ pc \in {"sync", "recoverGet", "recoverPut", "run"}
                           /\ reflector = from /\ reflector' = to
                           /\ UNCHANGED <<options, server, main>>

ReflectorList == /\ ReflectorGoes("list", "open")
                 /\ List
                 /\ UNCHANGED opened

OpenFrom(from) == /\ ReflectorGoes("open", IF Gone(from) THEN "list" ELSE "watching")
                  /\ opened' = TRUE
                  /\ position' = IF Gone(from) THEN position ELSE from
                  /\ UNCHANGED <<view, listed>>

(* Mutant: every watch is opened from the stale revision. *)
OpenStale == OpenFrom(staleRV)

(* Mutant: only the first watch names a revision. *)
OpenLatest == OpenFrom(IF opened THEN Rev ELSE staleRV)

(* WatchFunc: the first call asks for the stale revision, whatever was listed. *)
ReflectorOpen == OpenFrom(IF opened THEN position ELSE staleRV)

ReflectorEvent == /\ ReflectorGoes("watching", "watching")
                  /\ Event
                  /\ UNCHANGED opened

ReflectorExpired == /\ ReflectorGoes("watching", "list")
                    /\ Gone(position)
                    /\ UNCHANGED <<opened, told>>

(* The watch timeout, or a lost connection.                                  *)
ReflectorLoses == /\ ReflectorGoes("watching", "open")
                  /\ UNCHANGED <<opened, told>>

Synced == /\ Goes("sync", "recoverGet")
          /\ listed # 0
          /\ UNCHANGED <<options, server, i, got, staleRV, doomed, informer, told>>

RecoverGet == Get(Recovered, "recoverGet", "recoverPut")
RecoverPut == Put(Recovered, "recoverPut", "run") /\ UNCHANGED i

(* informer-run-for is over.                                                 *)
RunEnds == /\ Goes("run", "returned")
           /\ UNCHANGED <<options, server, i, got, staleRV, doomed, informer, told>>

-------------------------------------------------------------------------------
(* The end of main *)

(* The deferred cleanupDemoConfigMaps: DeleteCollection lists, then deletes. *)
CleanupList == /\ Goes("returned", IF cleanup THEN "cleanup" ELSE "exited")
               /\ doomed' = IF cleanup THEN {n \in Name : objects[n] # 0} ELSE {}
               /\ UNCHANGED <<options, server, i, got, staleRV, informer, told>>

CleanupOne == /\ pc = "cleanup"
              /\ \E n \in doomed :
                   /\ doomed' = doomed \ {n}
                   /\ IF objects[n] # 0 THEN Written(n, FALSE) ELSE UNCHANGED history
              /\ UNCHANGED <<options, foreign, compacted, pc, i, got, staleRV, informer, told>>

CleanupDone == /\ Goes("cleanup", "exited")
               /\ doomed = {}
               /\ UNCHANGED <<options, server, i, got, staleRV, doomed, informer, told>>

(* The overall timeout, or an error of a request: log.Fatalf, and no defers.  *)
Fatal == /\ pc \notin {"run", "returned", "cleanup"} /\ ~Ended
         /\ pc' = "fatal"
         /\ UNCHANGED <<options, server, i, got, staleRV, doomed, informer, told>>

-------------------------------------------------------------------------------
Main == \/ UseProvided \/ Capture \/ ChurnGet \/ ChurnPut \/ ChurnDelete
        \/ OpenWatch1 \/ WatchEvent \/ GoneEvent1 \/ Relist \/ OpenWatch2
        \/ StartInformer \/ Synced \/ RecoverGet \/ RecoverPut
        \/ CleanupList \/ CleanupOne \/ CleanupDone

Reflector == ReflectorList \/ ReflectorOpen \/ ReflectorExpired

Next == \/ /\ ~Ended
           /\ \/ ForeignWrite \/ Compact
              \/ Main \/ WatchCloses \/ RunEnds \/ Fatal
              \/ Reflector \/ ReflectorEvent \/ ReflectorLoses
        \/ Ended /\ UNCHANGED vars

Spec == Init /\ [][Next]_vars

-------------------------------------------------------------------------------
(* What the informer's cache holds, or what the manual listing and its watch *)
(* have printed, is the state of the server at the revision they have come   *)
(* to: no write is missing and none is seen twice.  While the first watch of   *)
(* the informer, opened at the stale revision on purpose, comes back to the   *)
(* revision of the list, a name has what the replayed events say of it, or    *)
(* still what the list said.                                                *)
ViewIsConsistent ==
    listed # 0 => \A n \in Name : \/ view[n] = StateAt(position)[n]
                                  \/ position < listed /\ view[n] = StateAt(listed)[n]

(* The detour over the stale revision is made once: afterwards no step of the *)
(* informer, a lost or an expired watch and its list included, takes the      *)
(* cache back to an older revision.                                          *)
NeverBack == opened => position' >= position
================================================================================
