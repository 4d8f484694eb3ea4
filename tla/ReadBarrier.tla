------------------------------ MODULE ReadBarrier ------------------------------
(***************************************************************************)
(* What a linearizable read promises its caller, independently of batches,  *)
(* notifiers and channels: a read that returns without an error saw a read  *)
(* index confirmed after the read had arrived, and the state machine had    *)
(* been applied up to that index before the read returned.                  *)
(*                                                                         *)
(* The demo in src/etcd/linearizable-read-demo promises this in its README; *)
(* LinearizableRead implements it.                                          *)
(***************************************************************************)
EXTENDS Naturals

CONSTANTS Reader,     \* the read requests
          Confirmed   \* the index every confirmation returns (10 in the demo)

VARIABLES state,      \* state[r]: what the caller of read r sees
          fresh,      \* fresh[r]: an index was confirmed after r arrived
          applied     \* the index the state machine has been applied to

bvars == <<state, fresh, applied>>

Init == /\ state = [r \in Reader |-> "idle"]
        /\ fresh = [r \in Reader |-> FALSE]
        /\ applied = 0

(* A read request arrives; nothing confirmed so far counts for it. *)
Arrive(r) == /\ state[r] = "idle"
             /\ state' = [state EXCEPT ![r] = "pending"]
             /\ UNCHANGED <<fresh, applied>>

(* The leader confirms its index on behalf of some of the pending reads. *)
Confirm(S) == /\ \A r \in S : state[r] # "idle"
              /\ fresh' = [r \in Reader |-> fresh[r] \/ r \in S]
              /\ UNCHANGED <<state, applied>>

Apply == /\ applied' = applied + 1
         /\ UNCHANGED <<state, fresh>>

(* The read returns without an error. *)
Return(r) == /\ state[r] = "pending"
             /\ fresh[r]
             /\ applied >= Confirmed
             /\ state' = [state EXCEPT ![r] = "ok"]
             /\ UNCHANGED <<fresh, applied>>

(* The caller's deadline passes, or the server stops. *)
Fail(r) == /\ state[r] = "pending"
           /\ state' = [state EXCEPT ![r] = "failed"]
           /\ UNCHANGED <<fresh, applied>>

Next == \/ \E r \in Reader : Arrive(r) \/ Return(r) \/ Fail(r)
        \/ \E S \in SUBSET Reader : Confirm(S)
        \/ Apply

Spec == Init /\ [][Next]_bvars
================================================================================
