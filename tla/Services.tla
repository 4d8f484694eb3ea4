--------------------------------- MODULE Services ---------------------------------
(***************************************************************************)
(* The programs that meet others in a file, a store or a service: the log of  *)
(* src/wal, the lock of src/flock, the bbolt programs, the scripts over etcd,   *)
(* the leader election, the watch of ConfigMaps, the short URLs behind a cache   *)
(* and the asynchronous server.                                              *)
(* They have nothing to do with each other, so a behaviour is one of a single  *)
(* program: the cells hold its variables, in the order of its module.          *)
(***************************************************************************)
EXTENDS Integers, Sequences

CONSTANTS Programs,                              \* the programs to run
          Key, Plain, Blank, None, MaxPuts, MaxDeaths,      \* Wal
          Scripts, MorePuts, MaxOthers,                     \* EtcdMvcc
          Mains, MaxRuns,                                   \* Bolt
          MaxFailures,                                      \* FileLock
          Proc, Nobody, MaxVersion,                         \* LeaderLease
          Name, Churned, Recovered, MaxForeign,             \* ConfigMapWatch
          MaxTicks,                                         \* AsyncStart
          Caller, Url, ShortKey, Nothing, Placeholder, MaxCalls  \* CacheAside

ASSUME ServicesAssumption ==
    /\ Programs \subseteq {"wal", "etcd", "bolt", "flock", "lease", "watch", "async", "cache"}
    /\ None \notin Plain \cup Blank /\ {MaxPuts, MaxDeaths} \subseteq Nat
    /\ Scripts \subseteq {"mvcc", "txn", "basic"} /\ {MorePuts, MaxOthers} \subseteq Nat
    /\ Mains \subseteq {"users", "read-write", "write-read", "no-mmap"} /\ MaxRuns \in Nat
    /\ Nobody \notin Proc /\ {MaxFailures, MaxVersion, MaxForeign, MaxTicks} \subseteq Nat
    /\ Churned \in Seq(Name) /\ Recovered \in Name
    /\ Nothing \notin Url \cup ShortKey /\ Placeholder \notin Url \cup {Nothing} /\ MaxCalls \in Nat

VARIABLES program, v1, v2, v3, v4, v5, v6, v7, v8, v9, v10, v11, v12, v13, v14, v15, v16
vars == <<program, v1, v2, v3, v4, v5, v6, v7, v8, v9, v10, v11, v12, v13, v14, v15, v16>>

Wal == INSTANCE Wal WITH
    file <- v1, synced <- v2, store <- v3, writer <- v4, puts <- v5, deaths <- v6, acked <- v7, tried <- v8
Etcd == INSTANCE EtcdMvcc WITH
    db <- v1, script <- v2, pc <- v3, puts <- v4, got <- v5, swapped <- v6, foreign <- v7
Bolt == INSTANCE Bolt WITH
    kv <- v1, main <- v2, pc <- v3, other <- v4, ready <- v5, rwlock <- v6, mapped <- v7,
    grows <- v8, seen <- v9, got <- v10, runs <- v11, completed <- v12
Flock == INSTANCE FileLock WITH
    at <- v1, holder <- v2, exists <- v3, main <- v4, failures <- v5
Lease == INSTANCE LeaderLease WITH
    lease <- v1, saw <- v2, age <- v3, renewed <- v4, proc <- v5, ch <- v6
Watch == INSTANCE ConfigMapWatch WITH
    mode <- v1, provided <- v2, cleanup <- v3, history <- v4, foreign <- v5, compacted <- v6,
    pc <- v7, i <- v8, got <- v9, staleRV <- v10, doomed <- v11, reflector <- v12, opened <- v13,
    view <- v14, position <- v15, listed <- v16
Async == INSTANCE AsyncStart WITH
    FailStartup <- v1, cancelled <- v2, readyCh <- v3, stopCh <- v4, errChClosed <- v5,
    errCh <- v6, server <- v7, err <- v8, ticks <- v9, sigCh <- v10, handler <- v11, main <- v12
Cache == INSTANCE CacheAside WITH
    hash <- v1, rows <- v2, cached <- v3, call <- v4, calls <- v5, answered <- v6

(* The cells a program does not use.                                         *)
From13 == <<v13, v14, v15, v16>>
From9 == <<v9, v10, v11, v12, From13>>
From8 == <<v8, From9>>
From7 == <<v7, From8>>
From6 == <<v6, From7>>
Empty13 == v13 = 0 /\ v14 = 0 /\ v15 = 0 /\ v16 = 0
Empty9 == v9 = 0 /\ v10 = 0 /\ v11 = 0 /\ v12 = 0 /\ Empty13
Empty8 == v8 = 0 /\ Empty9
Empty7 == v7 = 0 /\ Empty8
Empty6 == v6 = 0 /\ Empty7

Init == /\ program \in Programs
        /\ \/ program = "wal"   /\ Wal!Init   /\ Empty9
           \/ program = "etcd"  /\ Etcd!Init  /\ Empty8
           \/ program = "bolt"  /\ Bolt!Init  /\ Empty13
           \/ program = "flock" /\ Flock!Init /\ Empty6
           \/ program = "lease" /\ Lease!Init /\ Empty7
           \/ program = "watch" /\ Watch!Init
           \/ program = "async" /\ Async!Init /\ Empty13
           \/ program = "cache" /\ Cache!Init /\ Empty7

Next == \/ program = "wal"   /\ Wal!Next   /\ UNCHANGED <<program, From9>>
        \/ program = "etcd"  /\ Etcd!Next  /\ UNCHANGED <<program, From8>>
        \/ program = "bolt"  /\ Bolt!Next  /\ UNCHANGED <<program, From13>>
        \/ program = "flock" /\ Flock!Next /\ UNCHANGED <<program, From6>>
        \/ program = "lease" /\ Lease!Next /\ UNCHANGED <<program, From7>>
        \/ program = "watch" /\ Watch!Next /\ UNCHANGED program
        \/ program = "async" /\ Async!Next /\ UNCHANGED <<program, From13>>
        \/ program = "cache" /\ Cache!Next /\ UNCHANGED <<program, From7>>

(* The fairness of the programs of which something is asked in the end; their   *)
(* modules say why.  The cells a program does not use never change.            *)
Fairness ==
    /\ WF_vars(program = "bolt" /\ Bolt!Experiment /\ UNCHANGED <<program, From13>>)
    /\ \A g \in 1..3 : SF_vars(program = "flock" /\ Flock!Step(g) /\ UNCHANGED <<program, From6>>)
    /\ WF_vars(program = "flock" /\ Flock!Wait /\ UNCHANGED <<program, From6>>)
    /\ WF_vars(program = "watch" /\ Watch!Main /\ UNCHANGED program)
    /\ WF_vars(program = "watch" /\ Watch!Reflector /\ UNCHANGED program)
    /\ SF_vars(program = "watch" /\ Watch!ReflectorEvent /\ UNCHANGED program)
    /\ WF_vars(program = "async" /\ Async!Main /\ UNCHANGED <<program, From13>>)
    /\ WF_vars(program = "async" /\ Async!StartTimer /\ UNCHANGED <<program, From13>>)
    /\ WF_vars(program = "async" /\ Async!StartEnds /\ UNCHANGED <<program, From13>>)
    /\ WF_vars(program = "async" /\ Async!RunEnds /\ UNCHANGED <<program, From13>>)
    /\ WF_vars(program = "async" /\ Async!Finish /\ UNCHANGED <<program, From13>>)

Spec == Init /\ [][Next]_vars /\ Fairness

-------------------------------------------------------------------------------
(* What is read back, and what is not: the log recovers the last Put that          *)
(* returned and that one line can give back (wal/main.go:69-98), the reads of mvcc  *)
(* at an old revision and the snapshot of txn-rev-main-sub give the writes of those  *)
(* revisions, getUser of bbolt the user after the one asked for, and a second run    *)
(* stops at what the first has left (main.go:62-118), and a short key never leads    *)
(* to another URL (shorturlmodel_gen.go:64-88).                                 *)
ReadsBack ==
    /\ program = "wal"  => Wal!RecoveredIsAcknowledged
    /\ program = "etcd" => Etcd!ReadsAtRevision /\ Etcd!TxnIsWhole
    /\ program = "bolt" => Bolt!AnswersNextUser /\ Bolt!CompletesOnce
    /\ program = "cache" => Cache!KeysKeepTheirUrl

(* Never two in the critical section: under the lock of the file (flock.go:75,   *)
(* 97), or leading by the Lease (lease/main.go:85).                            *)
OneHolder ==
    /\ program = "flock" => Flock!OneLocker
    /\ program = "lease" => Lease!OneLeader

(* The compare-and-swap of mvcc overwrites the record it has read, and the       *)
(* stale one writes nothing (etcd/mvcc/main.go:63-88).                          *)
SwapOverwritesWhatWasRead == [][program = "etcd" => Etcd!SwapOverwrites]_vars

(* AsyncStart: who learns of the stop can learn its reason, and nothing is       *)
(* served after it (etcd/async-start/main.go:77-103).                           *)
ErrorBeforeStop == program = "async" => Async!ErrorBeforeStop
QuietAfterStop == [][program = "async" => Async!Quiet]_vars

(* ConfigMapWatch: what the program was told is a state of the server, the       *)
(* informer goes back once only, and comes to what the server holds (main.go:    *)
(* 130-220).                                                                  *)
ViewIsConsistent == program = "watch" => Watch!ViewIsConsistent
NeverBackAgain == [][program = "watch" => Watch!NeverBack]_vars
Converges == <>[](program = "watch" => v7 = "run") => <>[](program = "watch" => v14 = Watch!objects)

(* Everybody gets through: main of flock outlives its three goroutines, an       *)
(* experiment of bbolt ends whether or not its file grows, and the caller of     *)
(* the asynchronous server returns.                                          *)
Ended == CASE program = "flock" -> v4 = "ended"
           [] program = "bolt"  -> v2 = "users" \/ v3 = 3
           [] program = "async" -> v12 \in Async!Reports
           [] OTHER             -> TRUE
ProgramsEnd == <>Ended
================================================================================
