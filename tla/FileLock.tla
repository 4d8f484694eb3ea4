-------------------------------- MODULE FileLock --------------------------------
(***************************************************************************)
(* The three goroutines of src/flock/flock.go that lock one file, each with  *)
(* an open file of its own: the first waits for the lock, the others try it  *)
(* and wait for it only if it was taken.  flock is external.                 *)
(***************************************************************************)
EXTENDS Naturals

CONSTANT MaxFailures  \* bound on the calls of the system that fail

Locker == 1..3
VARIABLES at,     \* where each goroutine is
          holder, \* the goroutine whose file has the lock; 0: none
          exists, \* test.lock is in the directory
          main,   \* main waits or has ended
          failures

vars == <<at, holder, exists, main, failures>>

TypeOK == /\ at \in [Locker -> {"start", "try", "lock", "locked", "close", "done"}]
          /\ holder \in 0..3 /\ exists \in BOOLEAN
          /\ main \in {"waiting", "ended"} /\ failures \in 0..MaxFailures

Init == /\ at = [g \in Locker |-> "start"]
        /\ holder = 0 /\ exists = FALSE
        /\ main = "waiting" /\ failures = 0

Goes(g, from, to) == at[g] = from /\ at' = [at EXCEPT ![g] = to]

(* NewFileLocker *)
Open(g) == /\ Goes(g, "start", IF g = 1 THEN "lock" ELSE "try")
           /\ exists' = TRUE
           /\ UNCHANGED <<holder, main, failures>>

(* Mutant: an error of the attempt is taken for the lock. *)
TryLockIgnored(g) == /\ Goes(g, "try", "locked")
                     /\ holder' = IF holder = 0 THEN g ELSE holder
                     /\ UNCHANGED <<exists, main, failures>>

TryLock(g) == /\ Goes(g, "try", IF holder = 0 THEN "locked" ELSE "lock")
              /\ holder' = IF holder = 0 THEN g ELSE holder
              /\ UNCHANGED <<exists, main, failures>>

Lock(g) == /\ Goes(g, "lock", "locked")
           /\ holder = 0
           /\ holder' = g
           /\ UNCHANGED <<exists, main, failures>>

Unlock(g) == /\ Goes(g, "locked", "close")
             /\ holder' = 0
             /\ UNCHANGED <<exists, main, failures>>

(* Opening or locking fails: the goroutine returns.                          *)
Fails(g) == /\ failures < MaxFailures
            /\ \/ Goes(g, "start", "done")
               \/ Goes(g, "try", "close") \/ Goes(g, "lock", "close")
            /\ failures' = failures + 1
            /\ UNCHANGED <<holder, exists, main>>

(* The deferred Close, which would release the lock, and the deferred Done.   *)
Close(g) == /\ Goes(g, "close", "done")
            /\ holder' = IF holder = g THEN 0 ELSE holder
            /\ UNCHANGED <<exists, main, failures>>

Wait == /\ main = "waiting" /\ \A g \in Locker : at[g] = "done"
        /\ main' = "ended" /\ exists' = FALSE
        /\ UNCHANGED <<at, holder, failures>>

Step(g) == Open(g) \/ TryLock(g) \/ Lock(g) \/ Unlock(g) \/ Close(g)
Next == (\E g \in Locker : Step(g) \/ Fails(g)) \/ Wait

Spec == Init /\ [][Next]_vars

-------------------------------------------------------------------------------
(* Whoever works under the lock (lines 75-78, 97-109) is alone and has it, and *)
(* the file that carries it is removed after all of them.                    *)
OneLocker == \A g \in Locker : at[g] = "locked" => holder = g /\ exists

(* Everybody gets through: the kernel hands the lock to one that waits.       *)
LockersEnd == <>(main = "ended")
================================================================================
