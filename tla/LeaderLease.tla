------------------------------- MODULE LeaderLease -------------------------------
(***************************************************************************)
(* Processes of src/lease/main.go that elect a leader by a Lease object: the  *)
(* configuration of the election, its callbacks and the handler of signals.   *)
(* The election itself is client-go's and external.  Time passes in units of  *)
(* RenewDeadline, 15 seconds; a timer that is due fires before time goes on.  *)
(***************************************************************************)
EXTENDS Naturals

CONSTANTS Proc, Nobody, MaxVersion  \* bound on the updates of the Lease

LeaseDuration == 4                  \* 60 seconds
RenewDeadline == 1                  \* 15 seconds; RetryPeriod is less than a unit

VARIABLES lease,   \* the object: who holds it, and its version
          saw,     \* the version a process has seen last
          age,     \* how long ago that was
          renewed, \* how long ago a leader renewed last
          proc,    \* what a process is
          ch       \* a signal is in the channel

vars == <<lease, saw, age, renewed, proc, ch>>

TypeOK == /\ lease.holder \in Proc \cup {Nobody} /\ lease.version \in 0..MaxVersion
          /\ saw \in [Proc -> 0..MaxVersion]
          /\ age \in [Proc -> 0..LeaseDuration] /\ renewed \in [Proc -> 0..RenewDeadline]
          /\ proc \in [Proc -> {"candidate", "leading", "cancelled", "exited"}]
          /\ ch \in [Proc -> BOOLEAN]

Init == /\ lease = [holder |-> Nobody, version |-> 0]
        /\ saw = [p \in Proc |-> 0] /\ age = [p \in Proc |-> 0] /\ renewed = [p \in Proc |-> 0]
        /\ proc = [p \in Proc |-> "candidate"]
        /\ ch = [p \in Proc |-> FALSE]

Written(p, holder) == /\ lease.version < MaxVersion
                      /\ lease' = [holder |-> holder, version |-> lease.version + 1]
                      /\ saw' = [saw EXCEPT ![p] = lease.version + 1]
                      /\ age' = [age EXCEPT ![p] = 0]

(* External: a candidate looks at the Lease; it takes it when nobody has it   *)
(* or when it has not changed for LeaseDuration.                              *)
Observe(p) == /\ proc[p] = "candidate" /\ saw[p] # lease.version
              /\ saw' = [saw EXCEPT ![p] = lease.version]
              /\ age' = [age EXCEPT ![p] = 0]
              /\ UNCHANGED <<lease, renewed, proc, ch>>

Acquire(p) == /\ proc[p] = "candidate"
              /\ saw[p] = lease.version
              /\ lease.holder = Nobody \/ age[p] >= LeaseDuration
              /\ Written(p, p)
              /\ renewed' = [renewed EXCEPT ![p] = 0]
              /\ proc' = [proc EXCEPT ![p] = "leading"]
              /\ UNCHANGED ch

Renew(p) == /\ proc[p] = "leading" /\ lease.holder = p
            /\ Written(p, p)
            /\ renewed' = [renewed EXCEPT ![p] = 0]
            /\ UNCHANGED <<proc, ch>>

(* No renewal has got through until the deadline.                            *)
DeadlineExceeded(p) == /\ proc[p] = "leading" /\ renewed[p] >= RenewDeadline
                       /\ proc' = [proc EXCEPT ![p] = "cancelled"]
                       /\ UNCHANGED <<lease, saw, age, renewed, ch>>

Signal(p) == /\ proc[p] # "exited" /\ ~ch[p]
             /\ ch' = [ch EXCEPT ![p] = TRUE]
             /\ UNCHANGED <<lease, saw, age, renewed, proc>>

(* The handler cancels the context: what leads and what waits both end.       *)
Cancel(p) == /\ ch[p] /\ proc[p] \in {"candidate", "leading"}
             /\ proc' = [proc EXCEPT ![p] = "cancelled"]
             /\ UNCHANGED <<lease, saw, age, renewed, ch>>

(* ReleaseOnCancel: the holder gives the Lease up, if the request gets       *)
(* through; then OnStoppedLeading ends the process.                          *)
Release(p) == /\ proc[p] = "cancelled"
              /\ lease.holder = p
              /\ Written(p, Nobody)
              /\ UNCHANGED <<renewed, proc, ch>>

OnStoppedLeading(p) == /\ proc[p] = "cancelled"
                       /\ proc' = [proc EXCEPT ![p] = "exited"]
                       /\ UNCHANGED <<lease, saw, age, renewed, ch>>

Tick == /\ \A p \in Proc : proc[p] = "leading" => renewed[p] < RenewDeadline
        /\ \E p \in Proc : proc[p] # "exited"
        /\ age' = [p \in Proc |-> IF age[p] < LeaseDuration THEN age[p] + 1 ELSE age[p]]
        /\ renewed' = [p \in Proc |-> IF proc[p] = "leading" THEN renewed[p] + 1 ELSE 0]
        /\ UNCHANGED <<lease, saw, proc, ch>>

Step(p) == \/ Observe(p) \/ Acquire(p) \/ Renew(p) \/ DeadlineExceeded(p)
           \/ Cancel(p) \/ Release(p) \/ OnStoppedLeading(p)
Next == (\E p \in Proc : Step(p) \/ Signal(p)) \/ Tick

Spec == Init /\ [][Next]_vars

-------------------------------------------------------------------------------
(* At most one process leads (run, lines 85-90, under its context), also when *)
(* a leader that has not reached the API server does not know that another    *)
(* one may soon take over.                                                   *)
OneLeader == \A p, q \in Proc : proc[p] = "leading" /\ proc[q] = "leading" => p = q
================================================================================
