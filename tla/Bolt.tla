---------------------------------- MODULE Bolt ----------------------------------
(***************************************************************************)
(* The programs over a bbolt file: src/etcd/bbolt/main.go, which stores and   *)
(* reads users, in runs one after the other on the same file (it is never     *)
(* removed), and the experiments of tx-verify and tx-no-mmap, where a         *)
(* transaction of main meets one of another goroutine.  bbolt is external:    *)
(* one writer at a time, readers of the last committed state, and a growing   *)
(* commit that waits for the readers to let go of the mapping.               *)
(***************************************************************************)
EXTENDS Integers, Sequences, FiniteSets, Functions

CONSTANTS Mains,   \* a subset of {"users", "read-write", "write-read", "no-mmap"}
          MaxRuns  \* bound on the runs of users on one file

VARIABLES kv,       \* what is committed in the bucket
          main,     \* which main runs
          pc,       \* users: its next statement; the experiments: where main is
          other,    \* where the other goroutine of an experiment is
          ready,    \* readerReady or writerReady is closed
          rwlock,   \* who is in a write transaction
          mapped,   \* who has the mapping locked for reading
          grows,    \* whether the commit of the write transaction needs more file
          seen,     \* the records that a read transaction of main has seen
          got,      \* users: what getUser returned in this run
          runs, completed

vars == <<kv, main, pc, other, ready, rwlock, mapped, grows, seen, got, runs, completed>>
idle == <<other, ready, rwlock, mapped, grows, seen>>

(* A user, or a value that is no JSON.                                       *)
User(id, score) == [id |-> id, score |-> score]
NotJSON == [id |-> 0, score |-> 0]
NotFound == <<>>
Stored(f, k, v) == [x \in DOMAIN f \cup {k} |-> IF x = k THEN v ELSE f[x]]

(* The statements of main, lines 136-228.  Key 0 stands for the hundred users *)
(* of the loop, the negative keys for those of the index.                    *)
UserScript == << <<"put", 1001, User(1001, 88)>>, <<"put", 1002, User(1002, 76)>>,
                 <<"put", 1003, User(1003, 93)>>, <<"print">>, <<"get", 1002>>,
                 <<"put", 1002, User(1002, 84)>>, <<"get", 1002>>, <<"delete", 1001>>,
                 <<"get", 1001>>, <<"print">>, <<"put", 0, User(0, 100)>>,
                 <<"put", 1130, User(1130, 100)>>, <<"get", 1002>>,
                 <<"put", -1, NotJSON>>, <<"put", -2, NotJSON>>, <<"put", -3, NotJSON>> >>

(* prepareReusablePages: keys 11 to 13 and the hot key 1 are put, most of     *)
(* them deleted, and a warm-up is put.                                       *)
Prepared == Stored(Restrict([k \in {1, 11, 12, 13} |-> NotJSON], {1, 13}), 20, NotJSON)

TypeOK == /\ main \in Mains
          /\ \A k \in DOMAIN kv : kv[k] = NotJSON \/ kv[k].id = k
          /\ rwlock \in {"free", "main", "other"} /\ mapped \subseteq {"main", "other"}
          /\ completed <= runs /\ runs <= MaxRuns

Init == /\ \E m \in Mains : main = m
        /\ kv = IF main = "no-mmap" THEN Prepared ELSE <<>>
        /\ pc = IF main = "users" THEN 1 ELSE 0
        /\ other = "start" /\ ready = FALSE /\ rwlock = "free" /\ mapped = {}
        /\ grows \in (IF main = "users" THEN {FALSE} ELSE BOOLEAN)
        /\ seen = NotFound
        /\ got = <<>> /\ runs = 1 /\ completed = 0

Statement(kind) == main = "users" /\ pc \in DOMAIN UserScript /\ UserScript[pc][1] = kind

(* upsertUser and the transactions of the index keys *)
UpsertUser == /\ Statement("put")
              /\ kv' = Stored(kv, UserScript[pc][2], UserScript[pc][3])
              /\ pc' = pc + 1
              /\ UNCHANGED <<main, idle, got, runs, completed>>

DeleteUser == /\ Statement("delete")
              /\ kv' = Restrict(kv, DOMAIN kv \ {UserScript[pc][2]})
              /\ pc' = pc + 1
              /\ UNCHANGED <<main, idle, got, runs, completed>>

(* getUser goes on to the next id and reads that over the first.             *)
UserRead(f, id) == IF {id, id + 1} \subseteq DOMAIN f THEN f[id + 1] ELSE NotFound

GetUser == /\ Statement("get")
           /\ got' = Append(got, UserRead(kv, UserScript[pc][2]))
           /\ pc' = pc + 1
           /\ UNCHANGED <<main, kv, idle, runs, completed>>

(* printAllUsers: the first value that is no JSON ends main.                 *)
PrintAllUsers == /\ Statement("print")
                 /\ pc' = IF \E k \in DOMAIN kv : kv[k] = NotJSON THEN -1 ELSE pc + 1
                 /\ UNCHANGED <<main, kv, idle, got, runs, completed>>

(* The process ends at the end of main, in a fatal error or by a crash; a     *)
(* transaction is committed or has never been.                               *)
RunAgain == /\ main = "users" /\ runs < MaxRuns
            /\ runs' = runs + 1
            /\ completed' = completed + (IF pc > Len(UserScript) THEN 1 ELSE 0)
            /\ pc' = 1 /\ got' = <<>>
            /\ UNCHANGED <<main, kv, idle>>

Users == UpsertUser \/ DeleteUser \/ GetUser \/ PrintAllUsers \/ RunAgain

(* The experiments.  The other goroutine reads in read-write and no-mmap and  *)
(* writes in write-read; it sleeps inside of its transaction.                *)
OtherReads == main \in {"read-write", "no-mmap"}
Same == UNCHANGED <<main, got, runs, completed>>

BeginRead(who) == /\ who \notin mapped /\ mapped' = mapped \cup {who}
                  /\ UNCHANGED <<kv, rwlock, grows>>
(* Mutant: the lock of the mapping stays with the transaction that has ended. *)
EndReadAndKeep(who) == UNCHANGED <<kv, rwlock, mapped, grows>>

EndRead(who) == /\ mapped' = mapped \ {who}
                /\ UNCHANGED <<kv, rwlock, grows>>
BeginWrite(who) == /\ rwlock = "free" /\ rwlock' = who
                   /\ UNCHANGED <<kv, mapped, grows>>

Commit(who, k) == /\ rwlock = who
                  /\ grows => mapped = {}
                  /\ kv' = Stored(kv, k, NotJSON)
                  /\ rwlock' = "free"
                  /\ UNCHANGED <<mapped, grows>>

OtherBegins == /\ main # "users" /\ other = "start"
               /\ IF OtherReads THEN BeginRead("other") ELSE BeginWrite("other")
               /\ other' = "in"
               /\ UNCHANGED <<pc, ready, seen>> /\ Same

CloseReady == /\ other = "in"
              /\ ready' = TRUE /\ other' = "asleep"
              /\ UNCHANGED <<kv, rwlock, mapped, grows, pc, seen>> /\ Same

OtherEnds == /\ other = "asleep"
             /\ IF OtherReads THEN EndRead("other") ELSE Commit("other", 2)
             /\ other' = "done"
             /\ UNCHANGED <<pc, ready, seen>> /\ Same

MainBegins == /\ main # "users" /\ pc = 0
              /\ ready
              /\ IF OtherReads THEN BeginWrite("main") ELSE BeginRead("main")
              /\ pc' = 1
              /\ seen' = IF OtherReads THEN seen ELSE DOMAIN kv
              /\ UNCHANGED <<other, ready>> /\ Same

MainEnds == /\ main # "users" /\ pc = 1
            /\ IF OtherReads THEN Commit("main", 1) ELSE EndRead("main")
            /\ pc' = 2
            /\ UNCHANGED <<other, ready, seen>> /\ Same

(* The channels written in the callbacks are buffered; main waits for the    *)
(* other goroutine last.                                                     *)
TakeDone == /\ main # "users" /\ pc = 2
            /\ other = "done"
            /\ pc' = 3
            /\ UNCHANGED <<kv, idle>> /\ Same

Experiment == OtherBegins \/ CloseReady \/ OtherEnds \/ MainBegins \/ MainEnds \/ TakeDone

Next == Users \/ Experiment

Spec == Init /\ [][Next]_vars

-------------------------------------------------------------------------------
(* What an earlier run has left is not always what this one can read: the       *)
(* values of the index (main.go:205-228) are no JSON for printAllUsers, so no   *)
(* run on a file that an earlier one has got through completes.               *)
CompletesOnce == completed <= 1

(* getUser answers with the user after the one it was asked for, as it was put  *)
(* last, and with none when the first of the two has been deleted (lines 68-84): *)
(* main prints 1003 for 1002, where its README (line 58) shows 1002.  A run that  *)
(* an earlier one was cut short before, at any statement, answers the same.     *)
NextUsers == <<User(1003, 93), User(1003, 93), NotFound, User(1003, 93)>>
AnswersNextUser == main = "users" => \A n \in DOMAIN got : got[n] = NextUsers[n]

(* An experiment ends whether or not its file grows: the reader sleeps, but   *)
(* nobody waits for main in a transaction.                                   *)
ExperimentEnds == main # "users" => <>(pc = 3)
================================================================================
