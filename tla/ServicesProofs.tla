------------------------------ MODULE ServicesProofs ------------------------------
(***************************************************************************)
(* What holds for every number of processes and failures, and every bound:   *)
(* the lock of the file and the Lease have one holder, the asynchronous       *)
(* server leaves its error before it closes stopCh, a short key keeps its URL, *)
(* the informer shows what the server has held and does not go back, the log    *)
(* gives back what it has acknowledged, the reads of etcd at a revision are     *)
(* those of that revision, the swap overwrites what was read, and main of bbolt *)
(* completes once only.                                                     *)
(*                                                                         *)
(* One inductive invariant per program: Inv (flock, lease, async, cache),      *)
(* WatchInv, BoltInv, WalInv, EtcdInv; the theorems follow at the end of each.  *)
(***************************************************************************)
EXTENDS Services, DataInduction

(* flock: OneLocker does not say why the file is still there; it is because it  *)
(* stays until every goroutine is done.                                      *)
FlockInv ==
    /\ v1 \in [1..3 -> {"start", "try", "lock", "locked", "close", "done"}]
    /\ \A g \in 1..3 : /\ v1[g] = "locked" => v2 = g
                       /\ v1[g] \in {"try", "lock", "locked", "close"} => v3 = TRUE

(* lease: a leader has the Lease, and nobody has seen its last version longer   *)
(* ago than it was written: it gives up before anybody may take the Lease.     *)
LeaseTypes == /\ v1 \in [holder : Proc \cup {Nobody}, version : Nat]
              /\ v2 \in [Proc -> Nat] /\ \A p \in Proc : v2[p] <= v1.version
              /\ v3 \in [Proc -> Nat] /\ v4 \in [Proc -> Nat]
              /\ v5 \in [Proc -> {"candidate", "leading", "cancelled", "exited"}]
LeaderHolds == \A p \in Proc : v5[p] = "leading" =>
                   /\ v1.holder = p /\ v4[p] <= 1
                   /\ \A q \in Proc : v2[q] = v1.version => v3[q] <= v4[p]
LeaseInv == LeaseTypes /\ LeaderHolds

(* async: where the server is says what it has done already.                  *)
AsyncInv == /\ v4 => v7 \in {"closeErr", "done"}
            /\ v8 = "error" => v7 \in {"send", "closeStop", "closeErr", "done"}
            /\ v8 = "error" /\ v7 # "send" => v6 = "error" \/ v12 = "error"

(* cache: a row never changes, and what a call or the cache knows of a key is   *)
(* its row or less.                                                          *)
CacheTypes ==
    /\ v1 \in [Url -> ShortKey] /\ v2 \in [ShortKey -> Url \cup {Nothing}]
    /\ v3 \in [ShortKey -> Url \cup {Nothing, Placeholder}]
    /\ v4 \in [Caller -> [step : {"idle", "insert", "delete", "find", "query", "keep"},
                          key : ShortKey \cup {Nothing}, url : Url \cup {Nothing}]]
    /\ v6 \in [ShortKey -> Url \cup {Nothing}]
CallsKnow == \A c \in Caller :
    /\ v4[c].step # "idle" => v4[c].key \in ShortKey
    /\ v4[c].step = "insert" => v4[c].url \in Url /\ v1[v4[c].url] = v4[c].key
    /\ v4[c].step = "delete" => v4[c].url \in Url /\ v2[v4[c].key] = v4[c].url
    /\ v4[c].step = "keep" /\ v4[c].url # Nothing => v2[v4[c].key] = v4[c].url
KeysKnow == \A k \in ShortKey :
    /\ v2[k] # Nothing => v1[v2[k]] = k
    /\ v3[k] \in Url => v3[k] = v2[k]
    /\ v6[k] # Nothing => v6[k] = v2[k]
CacheInv == CacheTypes /\ CallsKnow /\ KeysKnow

Inv == /\ program = "flock" => FlockInv
       /\ program = "lease" => LeaseInv
       /\ program = "async" => AsyncInv
       /\ program = "cache" => CacheInv

USE DEF ServicesAssumption

(* The invariants of the services hold at the start.                         *)
LEMMA InitInv == Init => Inv
  <1> SUFFICES ASSUME Init PROVE Inv
    OBVIOUS
  <1>1. ASSUME program = "flock" PROVE FlockInv
    <2>1. Flock!Init
      BY <1>1 DEF Init
    <2> QED
      BY <2>1 DEF Flock!Init, Flock!Locker, FlockInv
  <1>2. ASSUME program = "lease" PROVE LeaseInv
    <2>1. Lease!Init
      BY <1>2 DEF Init
    <2> QED
      BY <2>1 DEF Lease!Init, LeaseInv, LeaseTypes, LeaderHolds
  <1>3. ASSUME program = "async" PROVE AsyncInv
    <2>1. Async!Init
      BY <1>3 DEF Init
    <2> QED
      BY <2>1 DEF Async!Init, AsyncInv
  <1>4. ASSUME program = "cache" PROVE CacheInv
    <2>1. Cache!Init
      BY <1>4 DEF Init
    <2> QED
      BY <2>1, ServicesAssumption DEF Cache!Init, Cache!Idle, CacheInv, CacheTypes, CallsKnow, KeysKnow
  <1> QED
    BY <1>1, <1>2, <1>3, <1>4 DEF Inv

(* The steps of the file lock keep its invariant.                            *)
LEMMA FlockStep == FlockInv /\ Flock!Next => FlockInv'
  <1> SUFFICES ASSUME FlockInv, Flock!Next PROVE FlockInv'
    OBVIOUS
  <1> USE DEF FlockInv, Flock!Goes, Flock!Locker
  <1>1. ASSUME NEW g \in 1..3, Flock!Open(g) PROVE FlockInv'
    BY <1>1 DEF Flock!Open
  <1>2. ASSUME NEW g \in 1..3, Flock!TryLock(g) PROVE FlockInv'
    BY <1>2 DEF Flock!TryLock
  <1>3. ASSUME NEW g \in 1..3, Flock!Lock(g) PROVE FlockInv'
    BY <1>3 DEF Flock!Lock
  <1>4. ASSUME NEW g \in 1..3, Flock!Unlock(g) PROVE FlockInv'
    BY <1>4 DEF Flock!Unlock
  <1>5. ASSUME NEW g \in 1..3, Flock!Fails(g) PROVE FlockInv'
    BY <1>5 DEF Flock!Fails
  <1>6. ASSUME NEW g \in 1..3, Flock!Close(g) PROVE FlockInv'
    BY <1>6 DEF Flock!Close
  <1>7. ASSUME Flock!Wait PROVE FlockInv'
    BY <1>7 DEF Flock!Wait
  <1> QED
    BY <1>1, <1>2, <1>3, <1>4, <1>5, <1>6, <1>7 DEF Flock!Next, Flock!Step

(* The steps of the asynchronous server keep its invariant.                  *)
LEMMA AsyncStep == AsyncInv /\ Async!Next => AsyncInv'
  <1> SUFFICES ASSUME AsyncInv, Async!Next PROVE AsyncInv'
    OBVIOUS
  <1> USE DEF AsyncInv, Async!ServerGoes, Async!channels
  <1>1. CASE Async!Serve
    BY <1>1 DEF Async!Serve, Async!CancelledAtStart, Async!StartTimer, Async!Fail, Async!Ready,
       Async!Tick, Async!RunEnds, Async!SendError, Async!CloseStop, Async!CloseErr
  <1>2. CASE Async!Interrupt \/ Async!TakeSignal \/ Async!Close
    BY <1>2 DEF Async!Interrupt, Async!TakeSignal, Async!Close
  <1>3. CASE Async!Main
    BY <1>3 DEF Async!Main, Async!WaitReady, Async!ReceiveErr, Async!ReceiveStop
  <1>4. CASE Async!Exited
    BY <1>4 DEF Async!Exited, Async!vars
  <1> QED
    BY <1>1, <1>2, <1>3, <1>4 DEF Async!Next

(* The steps of the leader election keep its invariant.                      *)
LEMMA LeaseStep == LeaseInv /\ Lease!Next => LeaseInv'
  <1> SUFFICES ASSUME LeaseInv, Lease!Next PROVE LeaseInv'
    OBVIOUS
  <1> USE DEF LeaseInv
  <1>1. ASSUME NEW p \in Proc, Lease!Observe(p) PROVE LeaseInv'
    <2>1. LeaseTypes'
      BY <1>1 DEF LeaseTypes, Lease!Observe
    <2>2. LeaderHolds'
      BY <1>1 DEF LeaseTypes, LeaderHolds, Lease!Observe
    <2> QED
      BY <2>1, <2>2
  <1>2. ASSUME NEW p \in Proc, Lease!Acquire(p) PROVE LeaseInv'
    <2>1. LeaseTypes'
      BY <1>2 DEF LeaseTypes, Lease!Acquire, Lease!Written
    <2>2. \A q \in Proc : v5[q] # "leading"
      BY <1>2, ServicesAssumption DEF LeaseTypes, LeaderHolds, Lease!Acquire, Lease!LeaseDuration
    <2>3. LeaderHolds'
      BY <1>2, <2>2 DEF LeaseTypes, LeaderHolds, Lease!Acquire, Lease!Written
    <2> QED
      BY <2>1, <2>3
  <1>3. ASSUME NEW p \in Proc, Lease!Renew(p) PROVE LeaseInv'
    <2>1. LeaseTypes'
      BY <1>3 DEF LeaseTypes, Lease!Renew, Lease!Written
    <2>2. \A q \in Proc : v5[q] = "leading" => q = p
      BY <1>3 DEF LeaderHolds, Lease!Renew
    <2>3. LeaderHolds'
      BY <1>3, <2>2 DEF LeaseTypes, LeaderHolds, Lease!Renew, Lease!Written
    <2> QED
      BY <2>1, <2>3
  <1>4. ASSUME NEW p \in Proc,
               Lease!DeadlineExceeded(p) \/ Lease!Signal(p) \/ Lease!Cancel(p)
               \/ Lease!OnStoppedLeading(p)
        PROVE  LeaseInv'
    <2>1. LeaseTypes'
      BY <1>4 DEF LeaseTypes, Lease!DeadlineExceeded, Lease!Signal, Lease!Cancel,
         Lease!OnStoppedLeading
    <2>2. LeaderHolds'
      BY <1>4 DEF LeaseTypes, LeaderHolds, Lease!DeadlineExceeded, Lease!Signal, Lease!Cancel,
         Lease!OnStoppedLeading
    <2> QED
      BY <2>1, <2>2
  <1>5. ASSUME NEW p \in Proc, Lease!Release(p) PROVE LeaseInv'
    <2>1. LeaseTypes'
      BY <1>5 DEF LeaseTypes, Lease!Release, Lease!Written
    <2>2. \A q \in Proc : v5[q] # "leading"
      BY <1>5 DEF LeaderHolds, Lease!Release
    <2>3. LeaderHolds'
      BY <1>5, <2>2 DEF LeaderHolds, Lease!Release
    <2> QED
      BY <2>1, <2>3
  <1>6. ASSUME Lease!Tick PROVE LeaseInv'
    <2>1. LeaseTypes'
      BY <1>6 DEF LeaseTypes, Lease!Tick, Lease!LeaseDuration
    <2>2. LeaderHolds'
      BY <1>6 DEF LeaseTypes, LeaderHolds, Lease!Tick, Lease!LeaseDuration, Lease!RenewDeadline
    <2> QED
      BY <2>1, <2>2
  <1> QED
    BY <1>1, <1>2, <1>3, <1>4, <1>5, <1>6 DEF Lease!Next, Lease!Step

(* The steps of the cache keep its invariant.                                *)
LEMMA CacheStep == CacheInv /\ Cache!Next => CacheInv'
  <1> SUFFICES ASSUME CacheInv, Cache!Next PROVE CacheInv'
    OBVIOUS
  <1> USE ServicesAssumption
      DEF CacheInv, Cache!At, Cache!Goes, Cache!Now, Cache!Returns, Cache!Idle
  <1>1. ASSUME NEW c \in Caller, NEW u \in Url, Cache!Shorten(c, u) PROVE CacheInv'
    <2>1. CacheTypes'
      BY <1>1 DEF CacheTypes, CallsKnow, Cache!Shorten, Cache!Begins
    <2>2. CallsKnow'
      BY <1>1 DEF CacheTypes, CallsKnow, Cache!Shorten, Cache!Begins
    <2>3. KeysKnow'
      BY <1>1 DEF CacheTypes, CallsKnow, KeysKnow, Cache!Shorten, Cache!Begins
    <2> QED
      BY <2>1, <2>2, <2>3
  <1>2. ASSUME NEW c \in Caller, NEW k \in ShortKey, Cache!Expand(c, k) PROVE CacheInv'
    <2>1. CacheTypes'
      BY <1>2 DEF CacheTypes, CallsKnow, Cache!Expand, Cache!Begins
    <2>2. CallsKnow'
      BY <1>2 DEF CacheTypes, CallsKnow, Cache!Expand, Cache!Begins
    <2>3. KeysKnow'
      BY <1>2 DEF CacheTypes, CallsKnow, KeysKnow, Cache!Expand, Cache!Begins
    <2> QED
      BY <2>1, <2>2, <2>3
  <1>3. ASSUME NEW c \in Caller, Cache!Insert(c) PROVE CacheInv'
    <2>1. CacheTypes'
      BY <1>3 DEF CacheTypes, CallsKnow, Cache!Insert
    <2>2. CallsKnow'
      BY <1>3 DEF CacheTypes, CallsKnow, Cache!Insert
    <2>3. KeysKnow'
      BY <1>3 DEF CacheTypes, CallsKnow, KeysKnow, Cache!Insert
    <2> QED
      BY <2>1, <2>2, <2>3
  <1>4. ASSUME NEW c \in Caller, Cache!DeleteCached(c) PROVE CacheInv'
    <2>1. CacheTypes'
      BY <1>4 DEF CacheTypes, CallsKnow, Cache!DeleteCached
    <2>2. CallsKnow'
      BY <1>4 DEF CacheTypes, CallsKnow, Cache!DeleteCached
    <2>3. KeysKnow'
      BY <1>4 DEF CacheTypes, CallsKnow, KeysKnow, Cache!DeleteCached
    <2> QED
      BY <2>1, <2>2, <2>3
  <1>5. ASSUME NEW c \in Caller, Cache!FindOne(c) PROVE CacheInv'
    <2>1. CacheTypes'
      BY <1>5 DEF CacheTypes, CallsKnow, Cache!FindOne
    <2>2. CallsKnow'
      BY <1>5 DEF CacheTypes, CallsKnow, Cache!FindOne
    <2>3. KeysKnow'
      BY <1>5 DEF CacheTypes, CallsKnow, KeysKnow, Cache!FindOne
    <2> QED
      BY <2>1, <2>2, <2>3
  <1>6. ASSUME NEW c \in Caller, Cache!Query(c) PROVE CacheInv'
    <2>1. CacheTypes'
      BY <1>6 DEF CacheTypes, CallsKnow, Cache!Query
    <2>2. CallsKnow'
      BY <1>6 DEF CacheTypes, CallsKnow, Cache!Query
    <2>3. KeysKnow'
      BY <1>6 DEF CacheTypes, CallsKnow, KeysKnow, Cache!Query
    <2> QED
      BY <2>1, <2>2, <2>3
  <1>7. ASSUME NEW c \in Caller, Cache!Keep(c) PROVE CacheInv'
    <2>1. CacheTypes'
      BY <1>7 DEF CacheTypes, CallsKnow, Cache!Keep
    <2>2. CallsKnow'
      BY <1>7 DEF CacheTypes, CallsKnow, Cache!Keep
    <2>3. KeysKnow'
      BY <1>7 DEF CacheTypes, CallsKnow, KeysKnow, Cache!Keep
    <2> QED
      BY <2>1, <2>2, <2>3
  <1>8. ASSUME NEW c \in Caller, Cache!Fails(c) PROVE CacheInv'
    <2>1. CacheTypes'
      BY <1>8 DEF CacheTypes, CallsKnow, Cache!Fails
    <2>2. CallsKnow'
      BY <1>8 DEF CacheTypes, CallsKnow, Cache!Fails
    <2>3. KeysKnow'
      BY <1>8 DEF CacheTypes, CallsKnow, KeysKnow, Cache!Fails
    <2> QED
      BY <2>1, <2>2, <2>3
  <1>9. ASSUME NEW k \in ShortKey, Cache!Expire(k) PROVE CacheInv'
    <2>1. CacheTypes'
      BY <1>9 DEF CacheTypes, CallsKnow, Cache!Expire
    <2>2. CallsKnow'
      BY <1>9 DEF CacheTypes, CallsKnow, Cache!Expire
    <2>3. KeysKnow'
      BY <1>9 DEF CacheTypes, CallsKnow, KeysKnow, Cache!Expire
    <2> QED
      BY <2>1, <2>2, <2>3
  <1> QED
    BY <1>1, <1>2, <1>3, <1>4, <1>5, <1>6, <1>7, <1>8, <1>9 DEF Cache!Next, Cache!Serve

(* A step of one service leaves the others alone and keeps its own           *)
(* invariant.                                                                *)
LEMMA Step == Inv /\ [Next]_vars => Inv'
  <1> SUFFICES ASSUME Inv, [Next]_vars PROVE Inv'
    OBVIOUS
  <1>1. CASE UNCHANGED vars
    BY <1>1 DEF vars, Inv, FlockInv, LeaseInv, LeaseTypes, LeaderHolds, AsyncInv,
       CacheInv, CacheTypes, CallsKnow, KeysKnow
  <1>2. CASE Next
    <2>1. program' = program
      BY <1>2 DEF Next
    <2>2. CASE program = "flock"
      BY <1>2, <2>1, <2>2, FlockStep DEF Next, Inv
    <2>3. CASE program = "lease"
      BY <1>2, <2>1, <2>3, LeaseStep DEF Next, Inv
    <2>4. CASE program = "async"
      BY <1>2, <2>1, <2>4, AsyncStep DEF Next, Inv
    <2>5. CASE program = "cache"
      BY <1>2, <2>1, <2>5, CacheStep DEF Next, Inv
    <2> QED
      BY <2>1, <2>2, <2>3, <2>4, <2>5 DEF Inv
  <1> QED
    BY <1>1, <1>2

(* The invariants of the services hold in every behaviour.                   *)
LEMMA Invariance == Spec => []Inv
  BY InitInv, Step, PTL DEF Spec

(* One goroutine at a time works under the file lock (flock.go:75-109), and one *)
(* process at a time leads (lease/main.go:121-145), for every number of        *)
(* processes and versions of the Lease, and of failing calls.                *)
THEOREM OneHolderAlways == Spec => []OneHolder
  <1>1. Inv => OneHolder
    BY DEF Inv, OneHolder, FlockInv, LeaseInv, LeaderHolds, Flock!OneLocker, Flock!Locker,
       Lease!OneLeader
  <1> QED
    BY <1>1, Invariance, PTL

(* Who sees stopCh closed after a failed start finds the error in errCh or has   *)
(* had it (async-start/main.go:95-103).                                        *)
THEOREM ReasonBeforeStop == Spec => []ErrorBeforeStop
  <1>1. Inv => ErrorBeforeStop
    BY DEF Inv, AsyncInv, ErrorBeforeStop, Async!ErrorBeforeStop
  <1> QED
    BY <1>1, Invariance, PTL

(* The server does nothing more once it has closed stopCh, but for handing over  *)
(* its error (async-start/main.go:100-103).                                    *)
THEOREM QuietFromThenOn == Spec => QuietAfterStop
  <1>1. ASSUME Inv, Next, program = "async" PROVE Async!Quiet
    <2>1. Async!Next /\ AsyncInv
      BY <1>1 DEF Next, Inv
    <2> QED
      BY <2>1 DEF AsyncInv, Async!Quiet, Async!Next, Async!Serve, Async!CancelledAtStart,
         Async!StartTimer, Async!Fail, Async!Ready, Async!Tick, Async!RunEnds, Async!SendError,
         Async!CloseStop, Async!CloseErr, Async!Interrupt, Async!TakeSignal, Async!Close,
         Async!Main, Async!WaitReady, Async!ReceiveErr, Async!ReceiveStop, Async!Exited,
         Async!ServerGoes, Async!channels, Async!vars
  <1>2. Inv /\ [Next]_vars => [program = "async" => Async!Quiet]_vars
    BY <1>1
  <1> QED
    BY <1>2, Invariance, PTL DEF Spec, QuietAfterStop

(* Whatever crosses whatever, a key given out for a URL leads to that URL or is  *)
(* not found (shortenlogic.go:28-40, shorturlmodel_gen.go:64-88).              *)
THEOREM KeysAreKept == Spec => [](program = "cache" => Cache!KeysKeepTheirUrl)
  <1>1. Inv => (program = "cache" => Cache!KeysKeepTheirUrl)
    BY DEF Inv, CacheInv, CacheTypes, KeysKnow, Cache!KeysKeepTheirUrl
  <1> QED
    BY <1>1, Invariance, PTL

-------------------------------------------------------------------------------
(* The history of a ConfigMap *)

(* What Watch!StateAt says of one name, of any history.                       *)
WritesOf(h, n, r) == {k \in 1..r : h[k].name = n}
Alive(h, n, r) == IF WritesOf(h, n, r) # {} /\ h[Max(WritesOf(h, n, r))].live
                  THEN Max(WritesOf(h, n, r)) ELSE 0

(* Max is what the name says.                                                *)
LEMMA MaxIsGreatest ==
    ASSUME NEW r \in Nat, NEW T \in SUBSET (1..r), T # {}
    PROVE  Max(T) \in T /\ \A y \in T : Max(T) >= y
  <1>1. T \subseteq 0..r
    OBVIOUS
  <1>2. \E x \in T : \A y \in T : x >= y
    BY <1>1, GreatestNumber
  <1> QED BY <1>2 DEF Max

(* The state at a revision, name by name.                                     *)
LEMMA StateIsAlive ==
    ASSUME NEW r
    PROVE  Watch!StateAt(r) = [n \in Name |-> Alive(v4, n, r)]
  <1>1. \A T : Watch!Max(T) = Max(T)
    BY DEF Watch!Max, Max
  <1> QED BY <1>1, Zenon DEF Watch!StateAt, Alive, WritesOf

(* The state is found where it was, whatever is written later.                *)
LEMMA AliveStays ==
    ASSUME NEW E, NEW h \in Seq(E), NEW w \in E, NEW r \in 0..Len(h), NEW n
    PROVE  Alive(Append(h, w), n, r) = Alive(h, n, r)
  <1> DEFINE g == Append(h, w)
             T == WritesOf(h, n, r)
  <1>1. \A k \in 1..r : g[k] = h[k]
    OBVIOUS
  <1> HIDE DEF g
  <1>2. WritesOf(g, n, r) = T
    BY <1>1 DEF WritesOf
  <1>3. T # {} => Max(T) \in 1..r
    <2>1. r \in Nat /\ T \in SUBSET (1..r)
      BY DEF WritesOf
    <2> HIDE DEF T
    <2> QED BY <2>1, MaxIsGreatest
  <1> HIDE DEF T
  <1> QED BY <1>1, <1>2, <1>3 DEF Alive, g, T

(* The next write decides for its name and for no other.                      *)
LEMMA AliveNext ==
    ASSUME NEW h, NEW r \in Nat, NEW n
    PROVE  Alive(h, n, r + 1) = IF h[r + 1].name = n
                                THEN IF h[r + 1].live THEN r + 1 ELSE 0
                                ELSE Alive(h, n, r)
  <1> DEFINE T == WritesOf(h, n, r + 1)
  <1>1. CASE h[r + 1].name = n
    <2>1. r + 1 \in T /\ T \in SUBSET (1..r + 1)
      BY <1>1 DEF WritesOf
    <2>2. r + 1 \in Nat /\ \A y \in 1..r + 1 : y <= r + 1
      OBVIOUS
    <2> HIDE DEF T
    <2>3. Max(T) \in T /\ Max(T) >= r + 1
      BY <2>1, <2>2, MaxIsGreatest
    <2>4. Max(T) = r + 1
      <3>1. Max(T) \in 1..r + 1
        BY <2>1, <2>3
      <3> QED BY <2>2, <2>3, <3>1
    <2> QED BY <1>1, <2>1, <2>4 DEF Alive, T
  <1>2. CASE h[r + 1].name # n
    <2>1. \A k \in 1..r + 1 : k \in 1..r \/ k = r + 1
      OBVIOUS
    <2>2. T = WritesOf(h, n, r)
      BY <1>2, <2>1 DEF WritesOf
    <2> QED BY <1>2, <2>2 DEF Alive
  <1> QED BY <1>1, <1>2

(* A live object has the revision of one of the writes.                          *)
LEMMA AliveType ==
    ASSUME NEW h, NEW r \in Nat, NEW n
    PROVE  Alive(h, n, r) \in 0..r
  <1> DEFINE T == WritesOf(h, n, r)
  <1>1. T \in SUBSET (1..r)
    BY DEF WritesOf
  <1> HIDE DEF T
  <1>2. T # {} => Max(T) \in 1..r
    BY <1>1, MaxIsGreatest
  <1> QED BY <1>2 DEF Alive, T

-------------------------------------------------------------------------------
(* Watching ConfigMaps *)

WatchTypes ==
    /\ v1 \in {"manual", "informer"}
    /\ v4 \in Seq([name : Name, live : BOOLEAN]) /\ Len(v4) >= 1
    /\ v8 \in 1..Len(Churned) + 1
    /\ v7 = "capture" => v8 = 1
    /\ v7 \in {"churnGet", "churnPut", "churnDelete"} => v8 <= Len(Churned)
    /\ v10 \in 0..Len(v4) /\ v11 \subseteq Name
    /\ v13 \in BOOLEAN /\ v14 \in [Name -> Nat]
    /\ v15 \in 0..Len(v4) /\ v16 \in 0..Len(v4)

(* The informer runs and has opened a watch only after its start; a list comes  *)
(* after the capture of the stale revision, and the first watch after a list.   *)
Informing == {"sync", "recoverGet", "recoverPut", "run", "returned", "cleanup", "exited", "fatal"}
BeforeList == {"capture", "churnGet", "churnPut", "churnDelete", "watch1", "events1", "relist", "start"}
WatchPhases ==
    /\ v12 # "off" \/ v13 => v7 \in Informing
    /\ v16 # 0 => v7 \notin BeforeList /\ v10 <= v16
    /\ v7 \in {"watch2", "events2"} => v16 # 0
    /\ v7 = "watch2" => v15 = v16
    /\ v12 = "open" /\ ~v13 => v15 = v16 /\ v16 # 0
    /\ v12 = "watching" => v13

(* On the way back from the stale revision a name has what it had then, or      *)
(* still what the list said of it.                                           *)
WatchView ==
    v16 # 0 => \A n \in Name : \/ v14[n] = Alive(v4, n, v15)
                               \/ v15 < v16 /\ v14[n] = Alive(v4, n, v16)

WatchInv == WatchTypes /\ WatchPhases /\ WatchView

(* A write of anybody, the rest of the step aside.                            *)
LEMMA WrittenKeepsView ==
    ASSUME WatchInv, NEW n \in Name, NEW live \in BOOLEAN, Watch!Written(n, live),
           UNCHANGED <<v14, v15, v16>>
    PROVE  WatchView'
  <1> DEFINE w == [name |-> n, live |-> live]
             E == [name : Name, live : BOOLEAN]
  <1>1. w \in E /\ v4 \in Seq(E) /\ v4' = Append(v4, w)
    BY DEF Watch!Written, WatchInv, WatchTypes
  <1>2. v15 \in 0..Len(v4) /\ v16 \in 0..Len(v4)
    BY DEF WatchInv, WatchTypes
  <1> HIDE DEF w, E
  <1>3. \A m \in Name : Alive(v4', m, v15) = Alive(v4, m, v15) /\ Alive(v4', m, v16) = Alive(v4, m, v16)
    BY <1>1, <1>2, AliveStays
  <1> QED BY <1>3, Zenon DEF WatchInv, WatchView

(* An event brings the next write.                                           *)
LEMMA EventKeepsView ==
    ASSUME WatchInv, Watch!Event, v4' = v4
    PROVE  /\ WatchView' /\ v14' \in [Name -> Nat] /\ v15' \in 0..Len(v4) /\ v15' = v15 + 1
           /\ v16' = v16
  <1>1. /\ v15 \in Nat /\ v15 < Len(v4) /\ v15' = v15 + 1 /\ v16' = v16 /\ v16 \in Nat /\ Len(v4) \in Nat
        /\ v14 \in [Name -> Nat]
    BY DEF WatchInv, WatchTypes, Watch!Event, Watch!Rev
  <1>2. v14' = [v14 EXCEPT ![v4[v15 + 1].name] = IF v4[v15 + 1].live THEN v15 + 1 ELSE 0]
    BY <1>1 DEF Watch!Event
  <1>3. v14' \in [Name -> Nat] /\ v15' \in 0..Len(v4)
    <2> DEFINE x == IF v4[v15 + 1].live THEN v15 + 1 ELSE 0
               m == v4[v15 + 1].name
    <2>1. x \in Nat /\ v15' \in 0..Len(v4)
      BY <1>1
    <2>2. v14' = [v14 EXCEPT ![m] = x]
      BY <1>2
    <2> HIDE DEF x, m
    <2> QED BY <1>1, <2>1, <2>2
  <1>4. ASSUME NEW n \in Name, v16 # 0
        PROVE  \/ v14'[n] = Alive(v4, n, v15 + 1)
               \/ v15 + 1 < v16 /\ v14'[n] = Alive(v4, n, v16)
    <2>1. Alive(v4, n, v15 + 1) = IF v4[v15 + 1].name = n
                                  THEN IF v4[v15 + 1].live THEN v15 + 1 ELSE 0
                                  ELSE Alive(v4, n, v15)
      BY <1>1, AliveNext
    <2>2. CASE v4[v15 + 1].name = n
      BY <1>1, <1>2, <2>1, <2>2
    <2>3. CASE v4[v15 + 1].name # n
      <3>1. v14'[n] = v14[n] /\ Alive(v4, n, v15 + 1) = Alive(v4, n, v15)
        BY <1>1, <1>2, <2>1, <2>3
      <3>2. \/ v14[n] = Alive(v4, n, v15)
            \/ v15 < v16 /\ v14[n] = Alive(v4, n, v16)
        BY <1>4 DEF WatchInv, WatchView
      <3>3. v15 < v16 => v15 + 1 < v16 \/ v15 + 1 = v16
        BY <1>1
      <3> QED BY <3>1, <3>2, <3>3
    <2> QED BY <2>2, <2>3
  <1> QED BY <1>1, <1>3, <1>4 DEF WatchView

(* A list brings everything.                                                 *)
LEMMA ListKeepsView ==
    ASSUME WatchInv, Watch!List, v4' = v4
    PROVE  /\ WatchView' /\ v14' \in [Name -> Nat] /\ v15' = Len(v4) /\ v16' = Len(v4)
           /\ Len(v4) # 0 /\ v10 <= Len(v4)
  <1>1. v14' = [n \in Name |-> Alive(v4, n, Len(v4))] /\ v15' = Len(v4) /\ v16' = Len(v4)
    BY StateIsAlive DEF Watch!List, Watch!objects, Watch!Rev
  <1>2. Len(v4) \in Nat /\ Len(v4) # 0 /\ v10 <= Len(v4)
    BY DEF WatchInv, WatchTypes
  <1>3. \A n \in Name : Alive(v4, n, Len(v4)) \in Nat
    BY <1>2, AliveType
  <1> QED BY <1>1, <1>2, <1>3 DEF WatchView

(* What does not touch what was told keeps it.                                *)
LEMMA SameTold ==
    ASSUME WatchInv, UNCHANGED <<v4, v14, v15, v16>>
    PROVE  WatchView'
  BY Zenon DEF WatchInv, WatchView

(* A write adds to the history.                                               *)
LEMMA WrittenTyped ==
    ASSUME WatchInv, NEW n \in Name, NEW live \in BOOLEAN, Watch!Written(n, live)
    PROVE  /\ v4' \in Seq([name : Name, live : BOOLEAN]) /\ Len(v4') = Len(v4) + 1
           /\ Len(v4) \in Nat /\ Len(v4) >= 1
  BY DEF WatchInv, WatchTypes, Watch!Written

(* main, before it has asked for anything (main.go:33-101).                      *)
LEMMA InitWatch == Watch!Init => WatchInv
  <1> SUFFICES ASSUME Watch!Init PROVE WatchInv
    OBVIOUS
  <1>1. PICK n \in Name : v4 = <<[name |-> n, live |-> TRUE]>>
    BY DEF Watch!Init
  <1>2. v4 \in Seq([name : Name, live : BOOLEAN]) /\ Len(v4) = 1
    BY <1>1
  <1>3. Len(Churned) \in Nat
    BY ServicesAssumption
  <1>6. v14 \in [Name -> Nat] /\ v13 \in BOOLEAN /\ v11 \subseteq Name
    BY DEF Watch!Init
  <1>7. v7 = "capture" /\ v8 = 1 /\ v10 = 0 /\ v15 = 0 /\ v16 = 0 /\ v1 \in {"manual", "informer"}
    BY DEF Watch!Init
  <1>4. WatchTypes
    BY <1>2, <1>3, <1>6, <1>7 DEF WatchTypes
  <1>5. WatchPhases /\ WatchView
    BY DEF WatchPhases, WatchView, Informing, BeforeList, Watch!Init
  <1> QED BY <1>4, <1>5 DEF WatchInv

(* The API server and its other clients.                                      *)
LEMMA WatchServerStep ==
    ASSUME WatchInv, Watch!ForeignWrite \/ Watch!Compact
    PROVE  WatchInv'
  <1> USE DEF Watch!options, Watch!server, Watch!main, Watch!informer, Watch!told
  <1>1. CASE Watch!ForeignWrite
    <2>1. PICK n \in Name, live \in BOOLEAN : Watch!Written(n, live)
      BY <1>1 DEF Watch!ForeignWrite
    <2>2. UNCHANGED <<v1, v2, v3, v7, v8, v10, v11, v12, v13, v14, v15, v16>>
      BY <1>1 DEF Watch!ForeignWrite
    <2>3. WatchTypes'
      BY <2>1, <2>2, WrittenTyped DEF WatchInv, WatchTypes
    <2>4. WatchPhases'
      BY <2>2 DEF WatchInv, WatchPhases
    <2>5. WatchView'
      BY <2>1, <2>2, WrittenKeepsView
    <2> QED BY <2>3, <2>4, <2>5 DEF WatchInv
  <1>2. CASE Watch!Compact
    <2>1. UNCHANGED <<v1, v4, v7, v8, v10, v11, v12, v13, v14, v15, v16>>
      BY <1>2 DEF Watch!Compact
    <2>2. WatchTypes' /\ WatchPhases'
      BY <2>1 DEF WatchInv, WatchTypes, WatchPhases
    <2> QED BY <2>1, <2>2, SameTold DEF WatchInv
  <1> QED BY <1>1, <1>2

(* The churn, of a name that may have been written meanwhile.                  *)
LEMMA WatchPutStep ==
    ASSUME WatchInv, NEW n \in Name, NEW from, NEW to, Watch!Put(n, from, to),
           WatchPhases', v8' \in 1..Len(Churned) + 1,
           to \in {"churnGet", "churnPut", "churnDelete"} => v8' <= Len(Churned), to # "capture"
    PROVE  WatchInv'
  <1> USE DEF Watch!options, Watch!server, Watch!main, Watch!informer, Watch!told
  <1>1. UNCHANGED <<v1, v2, v3, v10, v11, v12, v13, v14, v15, v16>>
    BY DEF Watch!Put
  <1>2. CASE v9 = Watch!objects[n]
    <2>1. v7' = to /\ Watch!Written(n, TRUE)
      BY <1>2 DEF Watch!Put
    <2>2. /\ v4' \in Seq([name : Name, live : BOOLEAN]) /\ Len(v4') = Len(v4) + 1
          /\ Len(v4) \in Nat /\ Len(v4) >= 1
      BY <2>1, WrittenTyped
    <2>5. v10' \in 0..Len(v4') /\ v15' \in 0..Len(v4') /\ v16' \in 0..Len(v4')
      BY <1>1, <2>2 DEF WatchInv, WatchTypes
    <2>4. WatchTypes'
      BY <1>1, <2>1, <2>2, <2>5 DEF WatchInv, WatchTypes
    <2>3. WatchView'
      BY <1>1, <2>1, WrittenKeepsView
    <2> QED BY <2>3, <2>4 DEF WatchInv
  <1>3. CASE v9 # Watch!objects[n]
    <2>1. v7' = "fatal" /\ v4' = v4
      BY <1>3 DEF Watch!Put
    <2>2. WatchTypes'
      BY <1>1, <2>1 DEF WatchInv, WatchTypes
    <2> QED BY <1>1, <2>1, <2>2, SameTold DEF WatchInv
  <1> QED BY <1>2, <1>3

(* churnConfigMaps, and the revision captured before it (main.go:230-303).         *)
LEMMA WatchChurnStep ==
    ASSUME WatchInv,
           Watch!UseProvided \/ Watch!Capture \/ Watch!ChurnGet \/ Watch!ChurnPut \/ Watch!ChurnDelete
    PROVE  WatchInv'
  <1> USE DEF Watch!options, Watch!server, Watch!main, Watch!informer, Watch!told, Watch!Goes,
              Watch!AfterStale, Informing, BeforeList
  <1>0. Len(Churned) \in Nat /\ Churned \in Seq(Name)
    BY ServicesAssumption
  <1>1. CASE Watch!UseProvided
    <2>1. WatchTypes'
      BY <1>0, <1>1 DEF WatchInv, WatchTypes, Watch!UseProvided
    <2>2. WatchPhases'
      BY <1>1 DEF WatchInv, WatchPhases, Watch!UseProvided
    <2>3. WatchView'
      BY <1>1, SameTold DEF Watch!UseProvided
    <2> QED BY <2>1, <2>2, <2>3 DEF WatchInv
  <1>2. CASE Watch!Capture
    <2>1. v10' = Len(v4) /\ UNCHANGED <<v1, v4, v8, v11, v12, v13, v14, v15, v16>>
      BY <1>2 DEF Watch!Capture, Watch!Rev
    <2>2. v7 = "capture" /\ v7' = IF Churned = <<>> THEN Watch!AfterStale ELSE "churnGet"
      BY <1>2 DEF Watch!Capture
    <2>3. v8 \in 1..Len(Churned) + 1 /\ v12 = "off" /\ v13 = FALSE /\ v16 = 0
      BY <2>2 DEF WatchInv, WatchTypes, WatchPhases
    <2>4. WatchPhases'
      BY <2>1, <2>2, <2>3 DEF WatchInv, WatchPhases
    <2>5. v8 = 1 /\ v7' # "capture" /\ (v7' \in {"churnGet", "churnPut", "churnDelete"} => v8 <= Len(Churned))
      <3>1. v8 = 1 /\ (Churned # <<>> => Len(Churned) >= 1)
        BY <1>0, <2>2 DEF WatchInv, WatchTypes
      <3> QED BY <1>0, <2>2, <3>1 DEF Watch!AfterStale
    <2>6. WatchTypes'
      BY <1>0, <2>1, <2>5 DEF WatchInv, WatchTypes
    <2>7. WatchView'
      BY <2>1, SameTold
    <2> QED BY <2>4, <2>6, <2>7 DEF WatchInv
  <1>3. CASE Watch!ChurnGet
    <2>1. WatchTypes'
      BY <1>0, <1>3 DEF WatchInv, WatchTypes, Watch!ChurnGet, Watch!Get
    <2>2. WatchPhases'
      BY <1>3 DEF WatchInv, WatchPhases, Watch!ChurnGet, Watch!Get
    <2>3. WatchView'
      BY <1>3, SameTold DEF Watch!ChurnGet, Watch!Get
    <2> QED BY <2>1, <2>2, <2>3 DEF WatchInv
  <1>4. CASE Watch!ChurnPut
    <2> DEFINE to == IF v8 % 2 = 0 THEN "churnDelete" ELSE Watch!NextChurn
    <2>1. Watch!Put(Churned[v8], "churnPut", to) /\ v8' = IF v8 % 2 = 0 THEN v8 ELSE v8 + 1
      BY <1>4 DEF Watch!ChurnPut
    <2>2. v8 \in 1..Len(Churned) /\ Churned[v8] \in Name
      BY <1>0, <2>1 DEF WatchInv, WatchTypes, Watch!Put
    <2>3. v8' \in 1..Len(Churned) + 1
      BY <1>0, <2>1, <2>2
    <2>4. to \in {"churnGet", "churnPut", "churnDelete"} => v8' <= Len(Churned)
      BY <1>0, <2>1, <2>2 DEF Watch!NextChurn
    <2>5. v7 = "churnPut" /\ v7' \in {"churnDelete", "churnGet", "watch1", "start", "fatal"}
      BY <2>1 DEF Watch!Put, Watch!NextChurn
    <2>6. WatchPhases'
      <3>1. UNCHANGED <<v10, v12, v13, v15, v16>>
        BY <2>1 DEF Watch!Put
      <3> QED BY <2>5, <3>1 DEF WatchInv, WatchPhases
    <2>7. to # "capture"
      BY DEF Watch!NextChurn
    <2> HIDE DEF to
    <2> QED BY <2>1, <2>2, <2>3, <2>4, <2>6, <2>7, WatchPutStep
  <1>5. CASE Watch!ChurnDelete
    <2>1. v7 = "churnDelete" /\ v7' \in {"churnGet", "watch1", "start"} /\ v8' = v8 + 1
          /\ UNCHANGED <<v1, v10, v11, v12, v13, v14, v15, v16>>
      BY <1>5 DEF Watch!ChurnDelete, Watch!NextChurn
    <2>2. v8 \in 1..Len(Churned) /\ Churned[v8] \in Name
      BY <1>0, <2>1 DEF WatchInv, WatchTypes
    <2>3. v7' = "churnGet" => v8' <= Len(Churned)
      BY <1>0, <1>5, <2>1, <2>2 DEF Watch!ChurnDelete, Watch!NextChurn
    <2>4. WatchPhases'
      BY <2>1 DEF WatchInv, WatchPhases
    <2>5. Watch!Written(Churned[v8], FALSE) \/ v4' = v4
      BY <1>5 DEF Watch!ChurnDelete
    <2>6. CASE Watch!Written(Churned[v8], FALSE)
      <3>0. /\ v4' \in Seq([name : Name, live : BOOLEAN]) /\ Len(v4') = Len(v4) + 1
            /\ Len(v4) \in Nat /\ Len(v4) >= 1
        BY <2>2, <2>6, WrittenTyped
      <3>5. v8' \in 1..Len(Churned) + 1
        BY <1>0, <2>1, <2>2
      <3>4. v10 \in 0..Len(v4) /\ v15 \in 0..Len(v4) /\ v16 \in 0..Len(v4)
        BY <1>0 DEF WatchInv, WatchTypes
      <3>3. v8' \in 1..Len(Churned) + 1 /\ v15' \in 0..Len(v4') /\ v16' \in 0..Len(v4') /\ v10' \in 0..Len(v4')
        BY <2>1, <3>0, <3>4, <3>5
      <3>1. WatchTypes'
        BY <2>1, <2>3, <3>0, <3>3 DEF WatchInv, WatchTypes
      <3>2. WatchView'
        BY <2>1, <2>2, <2>6, WrittenKeepsView
      <3> QED BY <2>4, <3>1, <3>2 DEF WatchInv
    <2>7. CASE v4' = v4
      <3>1. WatchTypes'
        BY <1>0, <2>1, <2>2, <2>3, <2>7 DEF WatchInv, WatchTypes
      <3> QED BY <2>1, <2>4, <2>7, <3>1, SameTold DEF WatchInv
    <2> QED BY <2>5, <2>6, <2>7
  <1> QED BY <1>1, <1>2, <1>3, <1>4, <1>5

(* runManual.  A first watch is opened before there is anything to be right     *)
(* about, the second one at the revision of the list.                        *)
LEMMA WatchManualStep ==
    ASSUME WatchInv,
           \/ Watch!OpenWatch1 \/ Watch!WatchEvent \/ Watch!GoneEvent1
           \/ Watch!Relist \/ Watch!OpenWatch2 \/ Watch!WatchCloses
    PROVE  WatchInv'
  <1> USE DEF Watch!options, Watch!server, Watch!main, Watch!informer, Watch!told, Watch!Goes,
              Informing, BeforeList
  <1>1. CASE Watch!OpenWatch1
    <2>1. WatchTypes'
      BY <1>1 DEF WatchInv, WatchTypes, Watch!OpenWatch1
    <2>2. WatchPhases'
      BY <1>1 DEF WatchInv, WatchPhases, Watch!OpenWatch1
    <2>3. v16' = 0
      BY <1>1 DEF WatchInv, WatchPhases, Watch!OpenWatch1
    <2> QED BY <2>1, <2>2, <2>3 DEF WatchInv, WatchView
  <1>2. CASE Watch!WatchEvent
    <2>1. Watch!Event /\ v4' = v4
      BY <1>2 DEF Watch!WatchEvent
    <2>2. /\ WatchView' /\ v14' \in [Name -> Nat] /\ v15' \in 0..Len(v4) /\ v15' = v15 + 1
          /\ v16' = v16
      BY <2>1, EventKeepsView
    <2>3. WatchTypes'
      BY <1>2, <2>2 DEF WatchInv, WatchTypes, Watch!WatchEvent
    <2>4. WatchPhases'
      BY <1>2, <2>2 DEF WatchInv, WatchPhases, Watch!WatchEvent
    <2> QED BY <2>2, <2>3, <2>4 DEF WatchInv
  <1>3. CASE Watch!GoneEvent1
    <2>1. WatchTypes'
      BY <1>3 DEF WatchInv, WatchTypes, Watch!GoneEvent1
    <2>2. WatchPhases'
      BY <1>3 DEF WatchInv, WatchPhases, Watch!GoneEvent1
    <2>3. WatchView'
      BY <1>3, SameTold DEF Watch!GoneEvent1
    <2> QED BY <2>1, <2>2, <2>3 DEF WatchInv
  <1>4. CASE Watch!Relist
    <2>1. Watch!List /\ v4' = v4
      BY <1>4 DEF Watch!Relist
    <2>2. /\ WatchView' /\ v14' \in [Name -> Nat] /\ v15' = Len(v4) /\ v16' = Len(v4)
          /\ Len(v4) # 0 /\ v10 <= Len(v4)
      BY <2>1, ListKeepsView
    <2>3. WatchTypes'
      BY <1>4, <2>2 DEF WatchInv, WatchTypes, Watch!Relist
    <2>4. WatchPhases'
      BY <1>4, <2>2 DEF WatchInv, WatchPhases, Watch!Relist
    <2> QED BY <2>2, <2>3, <2>4 DEF WatchInv
  <1>5. CASE Watch!OpenWatch2
    <2>1. v15' = v15 /\ UNCHANGED <<v4, v14, v16>>
      BY <1>5 DEF WatchInv, WatchPhases, Watch!OpenWatch2
    <2>2. WatchTypes'
      BY <1>5, <2>1 DEF WatchInv, WatchTypes, Watch!OpenWatch2
    <2>3. WatchPhases'
      BY <1>5, <2>1 DEF WatchInv, WatchPhases, Watch!OpenWatch2
    <2> QED BY <2>1, <2>2, <2>3, SameTold DEF WatchInv
  <1>6. CASE Watch!WatchCloses
    <2>1. WatchTypes'
      BY <1>6 DEF WatchInv, WatchTypes, Watch!WatchCloses
    <2>2. WatchPhases'
      BY <1>6 DEF WatchInv, WatchPhases, Watch!WatchCloses
    <2>3. WatchView'
      BY <1>6, SameTold DEF Watch!WatchCloses
    <2> QED BY <2>1, <2>2, <2>3 DEF WatchInv
  <1> QED BY <1>1, <1>2, <1>3, <1>4, <1>5, <1>6

(* runInformer.  The first watch goes back to the stale revision, with the list  *)
(* in the cache; every later one goes on where the last one ended.            *)
LEMMA WatchInformerStep ==
    ASSUME WatchInv,
           \/ Watch!StartInformer \/ Watch!ReflectorList \/ Watch!ReflectorOpen
           \/ Watch!ReflectorEvent \/ Watch!ReflectorExpired \/ Watch!ReflectorLoses
           \/ Watch!Synced \/ Watch!RecoverGet \/ Watch!RecoverPut \/ Watch!RunEnds
    PROVE  WatchInv'
  <1> USE DEF Watch!options, Watch!server, Watch!main, Watch!informer, Watch!told, Watch!Goes, Watch!ReflectorGoes,
              Informing, BeforeList
  <1>1. CASE Watch!StartInformer
    <2>1. WatchTypes'
      BY <1>1 DEF WatchInv, WatchTypes, Watch!StartInformer
    <2>2. WatchPhases'
      BY <1>1 DEF WatchInv, WatchPhases, Watch!StartInformer
    <2>3. WatchView'
      BY <1>1, SameTold DEF Watch!StartInformer
    <2> QED BY <2>1, <2>2, <2>3 DEF WatchInv
  <1>2. CASE Watch!ReflectorList
    <2>1. Watch!List /\ v4' = v4
      BY <1>2 DEF Watch!ReflectorList
    <2>2. /\ WatchView' /\ v14' \in [Name -> Nat] /\ v15' = Len(v4) /\ v16' = Len(v4)
          /\ Len(v4) # 0 /\ v10 <= Len(v4)
      BY <2>1, ListKeepsView
    <2>3. WatchTypes'
      BY <1>2, <2>2 DEF WatchInv, WatchTypes, Watch!ReflectorList
    <2>4. WatchPhases'
      BY <1>2, <2>2 DEF WatchInv, WatchPhases, Watch!ReflectorList
    <2> QED BY <2>2, <2>3, <2>4 DEF WatchInv
  <1>3. CASE Watch!ReflectorOpen
    <2> DEFINE from == IF v13 THEN v15 ELSE v10
    <2>1. /\ v13' = TRUE /\ v15' = IF Watch!Gone(from) THEN v15 ELSE from
          /\ v12 = "open" /\ v12' \in {"list", "watching"}
          /\ UNCHANGED <<v1, v4, v7, v8, v10, v11, v14, v16>>
      BY <1>3 DEF Watch!ReflectorOpen, Watch!OpenFrom
    <2>2. WatchTypes'
      BY <2>1 DEF WatchInv, WatchTypes
    <2>3. WatchPhases'
      BY <2>1 DEF WatchInv, WatchPhases
    <2>4. WatchView'
      <3>1. CASE v15' = v15
        BY <2>1, <3>1, SameTold
      <3>2. CASE v15' # v15
        <4>1. v15' = v10 /\ v15 = v16 /\ v16 # 0 /\ v10 <= v16
          BY <2>1, <3>2 DEF WatchInv, WatchPhases
        <4>2. v15' < v16
          BY <3>2, <4>1 DEF WatchInv, WatchTypes
        <4>3. \A n \in Name : v14[n] = Alive(v4, n, v16)
          BY <4>1 DEF WatchInv, WatchView
        <4> QED BY <2>1, <4>2, <4>3, Zenon DEF WatchView
      <3> QED BY <3>1, <3>2
    <2> QED BY <2>2, <2>3, <2>4 DEF WatchInv
  <1>4. CASE Watch!ReflectorEvent
    <2>1. Watch!Event /\ v4' = v4
      BY <1>4 DEF Watch!ReflectorEvent
    <2>2. /\ WatchView' /\ v14' \in [Name -> Nat] /\ v15' \in 0..Len(v4) /\ v15' = v15 + 1
          /\ v16' = v16
      BY <2>1, EventKeepsView
    <2>3. WatchTypes'
      BY <1>4, <2>2 DEF WatchInv, WatchTypes, Watch!ReflectorEvent
    <2>4. WatchPhases'
      BY <1>4, <2>2 DEF WatchInv, WatchPhases, Watch!ReflectorEvent
    <2> QED BY <2>2, <2>3, <2>4 DEF WatchInv
  <1>5. CASE Watch!ReflectorExpired
    <2>1. WatchTypes'
      BY <1>5 DEF WatchInv, WatchTypes, Watch!ReflectorExpired
    <2>2. WatchPhases'
      BY <1>5 DEF WatchInv, WatchPhases, Watch!ReflectorExpired
    <2>3. WatchView'
      BY <1>5, SameTold DEF Watch!ReflectorExpired
    <2> QED BY <2>1, <2>2, <2>3 DEF WatchInv
  <1>6. CASE Watch!ReflectorLoses
    <2>1. WatchTypes'
      BY <1>6 DEF WatchInv, WatchTypes, Watch!ReflectorLoses
    <2>2. WatchPhases'
      BY <1>6 DEF WatchInv, WatchPhases, Watch!ReflectorLoses
    <2>3. WatchView'
      BY <1>6, SameTold DEF Watch!ReflectorLoses
    <2> QED BY <2>1, <2>2, <2>3 DEF WatchInv
  <1>7. CASE Watch!Synced
    <2>1. WatchTypes'
      BY <1>7 DEF WatchInv, WatchTypes, Watch!Synced
    <2>2. WatchPhases'
      BY <1>7 DEF WatchInv, WatchPhases, Watch!Synced
    <2>3. WatchView'
      BY <1>7, SameTold DEF Watch!Synced
    <2> QED BY <2>1, <2>2, <2>3 DEF WatchInv
  <1>8. CASE Watch!RecoverGet
    <2>1. WatchTypes'
      BY <1>8 DEF WatchInv, WatchTypes, Watch!RecoverGet, Watch!Get
    <2>2. WatchPhases'
      BY <1>8 DEF WatchInv, WatchPhases, Watch!RecoverGet, Watch!Get
    <2>3. WatchView'
      BY <1>8, SameTold DEF Watch!RecoverGet, Watch!Get
    <2> QED BY <2>1, <2>2, <2>3 DEF WatchInv
  <1>9. CASE Watch!RecoverPut
    <2>1. Watch!Put(Recovered, "recoverPut", "run") /\ v8' = v8 /\ Recovered \in Name
      BY <1>9, ServicesAssumption DEF Watch!RecoverPut
    <2>2. v7' \in {"run", "fatal"} /\ v8' \in 1..Len(Churned) + 1
          /\ UNCHANGED <<v10, v12, v13, v15, v16>>
      BY <2>1 DEF Watch!Put, WatchInv, WatchTypes
    <2>3. WatchPhases'
      BY <2>1, <2>2 DEF WatchInv, WatchPhases, Watch!Put
    <2> QED BY <2>1, <2>2, <2>3, WatchPutStep
  <1>10. CASE Watch!RunEnds
    <2>1. WatchTypes'
      BY <1>10 DEF WatchInv, WatchTypes, Watch!RunEnds
    <2>2. WatchPhases'
      BY <1>10 DEF WatchInv, WatchPhases, Watch!RunEnds
    <2>3. WatchView'
      BY <1>10, SameTold DEF Watch!RunEnds
    <2> QED BY <2>1, <2>2, <2>3 DEF WatchInv
  <1> QED BY <1>1, <1>2, <1>3, <1>4, <1>5, <1>6, <1>7, <1>8, <1>9, <1>10

(* The cleanup, and the end.                                                  *)
LEMMA WatchEndStep ==
    ASSUME WatchInv,
           Watch!CleanupList \/ Watch!CleanupOne \/ Watch!CleanupDone \/ Watch!Fatal
    PROVE  WatchInv'
  <1> USE DEF Watch!options, Watch!server, Watch!main, Watch!informer, Watch!told, Watch!Goes,
              Informing, BeforeList
  <1>1. CASE Watch!CleanupList
    <2>1. WatchTypes'
      BY <1>1 DEF WatchInv, WatchTypes, Watch!CleanupList
    <2>2. WatchPhases'
      BY <1>1 DEF WatchInv, WatchPhases, Watch!CleanupList
    <2>3. WatchView'
      BY <1>1, SameTold DEF Watch!CleanupList
    <2> QED BY <2>1, <2>2, <2>3 DEF WatchInv
  <1>2. CASE Watch!CleanupOne
    <2>1. PICK n \in v11 : /\ v11' = v11 \ {n}
                           /\ Watch!Written(n, FALSE) \/ v4' = v4
      BY <1>2 DEF Watch!CleanupOne
    <2>2. n \in Name
      BY <2>1 DEF WatchInv, WatchTypes
    <2>3. UNCHANGED <<v1, v7, v8, v10, v12, v13, v14, v15, v16>>
      BY <1>2 DEF Watch!CleanupOne
    <2>4. WatchPhases'
      BY <2>3 DEF WatchInv, WatchPhases
    <2>5. CASE Watch!Written(n, FALSE)
      <3>1. /\ v4' \in Seq([name : Name, live : BOOLEAN]) /\ Len(v4') = Len(v4) + 1
            /\ Len(v4) \in Nat /\ Len(v4) >= 1
        BY <2>2, <2>5, WrittenTyped
      <3>2. WatchTypes'
        BY <2>1, <2>3, <3>1 DEF WatchInv, WatchTypes
      <3>3. WatchView'
        BY <2>2, <2>3, <2>5, WrittenKeepsView
      <3> QED BY <2>4, <3>2, <3>3 DEF WatchInv
    <2>6. CASE v4' = v4
      <3>1. WatchTypes'
        BY <2>1, <2>3, <2>6 DEF WatchInv, WatchTypes
      <3> QED BY <2>3, <2>4, <2>6, <3>1, SameTold DEF WatchInv
    <2> QED BY <2>1, <2>5, <2>6
  <1>3. CASE Watch!CleanupDone
    <2>1. WatchTypes'
      BY <1>3 DEF WatchInv, WatchTypes, Watch!CleanupDone
    <2>2. WatchPhases'
      BY <1>3 DEF WatchInv, WatchPhases, Watch!CleanupDone
    <2>3. WatchView'
      BY <1>3, SameTold DEF Watch!CleanupDone
    <2> QED BY <2>1, <2>2, <2>3 DEF WatchInv
  <1>4. CASE Watch!Fatal
    <2>1. WatchTypes'
      BY <1>4 DEF WatchInv, WatchTypes, Watch!Fatal
    <2>2. WatchPhases'
      BY <1>4 DEF WatchInv, WatchPhases, Watch!Fatal
    <2>3. WatchView'
      BY <1>4, SameTold DEF Watch!Fatal
    <2> QED BY <2>1, <2>2, <2>3 DEF WatchInv
  <1> QED BY <1>1, <1>2, <1>3, <1>4

(* Every step of main, of the reflector and of the server.                        *)
LEMMA WatchStep == WatchInv /\ Watch!Next => WatchInv'
  <1> SUFFICES ASSUME WatchInv, Watch!Next PROVE WatchInv'
    OBVIOUS
  <1>1. CASE Watch!Ended /\ UNCHANGED Watch!vars
    <2>1. UNCHANGED <<v1, v4, v7, v8, v10, v11, v12, v13, v14, v15, v16>>
      BY <1>1 DEF Watch!vars, Watch!options, Watch!server, Watch!main, Watch!informer, Watch!told
    <2>2. WatchTypes' /\ WatchPhases'
      BY <2>1 DEF WatchInv, WatchTypes, WatchPhases
    <2> QED BY <2>1, <2>2, SameTold DEF WatchInv
  <1>2. CASE \/ Watch!ForeignWrite \/ Watch!Compact \/ Watch!Main \/ Watch!WatchCloses
             \/ Watch!RunEnds \/ Watch!Fatal
             \/ Watch!Reflector \/ Watch!ReflectorEvent \/ Watch!ReflectorLoses
    BY <1>2, WatchServerStep, WatchChurnStep, WatchManualStep, WatchInformerStep, WatchEndStep
       DEF Watch!Main, Watch!Reflector
  <1> QED BY <1>1, <1>2 DEF Watch!Next

(* What was told stays what the server has held.                                *)
LEMMA WatchInvariance == Spec => [](program = "watch" => WatchInv)
  <1>1. Init => (program = "watch" => WatchInv)
    BY InitWatch DEF Init
  <1>2. (program = "watch" => WatchInv) /\ [Next]_vars => (program = "watch" => WatchInv)'
    <2> SUFFICES ASSUME program = "watch" => WatchInv, [Next]_vars, program' = "watch"
                 PROVE  WatchInv'
      OBVIOUS
    <2>1. CASE UNCHANGED vars
      <3>1. WatchInv /\ UNCHANGED <<v1, v4, v7, v8, v10, v11, v12, v13, v14, v15, v16>>
        BY <2>1 DEF vars
      <3>2. WatchTypes' /\ WatchPhases'
        BY <3>1 DEF WatchInv, WatchTypes, WatchPhases
      <3> QED BY <3>1, <3>2, SameTold DEF WatchInv
    <2>2. CASE Next
      <3>1. program = "watch" /\ Watch!Next
        BY <2>2 DEF Next
      <3> QED BY <3>1, WatchStep
    <2> QED BY <2>1, <2>2
  <1> QED BY <1>1, <1>2, PTL DEF Spec

(* What the informer's cache holds, or what the manual listing has printed, is   *)
(* a state the server has been in, whatever is compacted, lost or written by      *)
(* others; on the detour of the first watch every name has the state of the list   *)
(* or that of the events replayed to it (main.go:152-220).                      *)
THEOREM ViewStaysConsistent == Spec => []ViewIsConsistent
  <1>1. (program = "watch" => WatchInv) => ViewIsConsistent
    <2> SUFFICES ASSUME WatchInv, v16 # 0, NEW n \in Name
                 PROVE  \/ v14[n] = Watch!StateAt(v15)[n]
                        \/ v15 < v16 /\ v14[n] = Watch!StateAt(v16)[n]
      BY DEF ViewIsConsistent, Watch!ViewIsConsistent
    <2>1. \/ v14[n] = Alive(v4, n, v15)
          \/ v15 < v16 /\ v14[n] = Alive(v4, n, v16)
      BY DEF WatchInv, WatchView
    <2>2. Watch!StateAt(v15)[n] = Alive(v4, n, v15) /\ Watch!StateAt(v16)[n] = Alive(v4, n, v16)
      BY StateIsAlive
    <2> QED BY <2>1, <2>2
  <1> QED BY <1>1, WatchInvariance, PTL

(* No lost connection, expired watch or new list takes the informer back to an   *)
(* older revision once its first watch has been opened (main.go:165-175).       *)
THEOREM NeverGoesBackAgain == Spec => NeverBackAgain
  <1>1. ASSUME WatchInv, Watch!Next, v13 PROVE v15' >= v15
    <2> USE DEF Watch!options, Watch!server, Watch!main, Watch!informer, Watch!told, Watch!Goes,
                Watch!ReflectorGoes
    <2>0. v15 \in 0..Len(v4) /\ Len(v4) \in Nat
      BY <1>1 DEF WatchInv, WatchTypes
    <2>1. v7 \in Informing
      BY <1>1 DEF WatchInv, WatchPhases
    <2>2. v7 \notin {"capture", "watch1", "relist", "watch2", "events1", "events2"}
      BY <2>1 DEF Informing
    <2>3. v15' = v15 \/ Watch!Event \/ Watch!List \/ Watch!ReflectorOpen
      BY <1>1, <2>2 DEF Watch!Next, Watch!Main, Watch!Reflector, Watch!vars, Watch!ForeignWrite,
         Watch!Compact, Watch!UseProvided, Watch!Capture, Watch!ChurnGet, Watch!ChurnPut,
         Watch!ChurnDelete, Watch!OpenWatch1, Watch!WatchEvent, Watch!GoneEvent1, Watch!Relist,
         Watch!OpenWatch2, Watch!WatchCloses, Watch!StartInformer, Watch!ReflectorList,
         Watch!ReflectorEvent, Watch!ReflectorExpired, Watch!ReflectorLoses, Watch!Synced,
         Watch!RecoverGet, Watch!RecoverPut, Watch!RunEnds, Watch!CleanupList, Watch!CleanupOne,
         Watch!CleanupDone, Watch!Fatal, Watch!Get, Watch!Put
    <2>4. CASE Watch!ReflectorOpen
      BY <1>1, <2>0, <2>4 DEF Watch!ReflectorOpen, Watch!OpenFrom
    <2>5. CASE Watch!List
      BY <2>0, <2>5 DEF Watch!List, Watch!Rev
    <2>6. CASE Watch!Event
      BY <2>0, <2>6 DEF Watch!Event
    <2> QED BY <2>0, <2>3, <2>4, <2>5, <2>6
  <1>2. (program = "watch" => WatchInv) /\ [Next]_vars => [program = "watch" => Watch!NeverBack]_vars
    BY <1>1 DEF Next, Watch!NeverBack
  <1> QED BY <1>2, WatchInvariance, PTL DEF Spec, NeverBackAgain

-------------------------------------------------------------------------------
(* The file of bbolt *)

(* The users: who has got through once has left a value of the index, and no    *)
(* later run gets past the first printAllUsers.                              *)
IndexLeft == -1 \in DOMAIN v1 /\ v1[-1] = Bolt!NotJSON
RunsOnce ==
    /\ v12 \in {0, 1}
    /\ v2 # "users" => v12 = 0
    /\ v2 = "users" => v3 \in {-1} \cup 1..17 /\ v4 = "start"
    /\ v2 = "users" /\ (v12 = 1 \/ v3 > 14) => IndexLeft
    /\ v12 = 1 => v3 <= 4

(* What the bucket holds once main has put the three users, and what getUser has *)
(* answered at each statement.                                               *)
Cindy == Bolt!User(1003, 93)
Users == /\ v3 > 2 => 1002 \in DOMAIN v1
         /\ v3 > 3 => {1002, 1003} \subseteq DOMAIN v1 /\ v1[1003] = Cindy
         /\ v3 > 8 => 1001 \notin DOMAIN v1
Answer == {Cindy, Bolt!NotFound}
Answers == /\ v10 \in Seq(Answer)
           /\ Len(v10) <= 4
           /\ v3 \in 1..5 => Len(v10) = 0
           /\ v3 \in 6..7 => Len(v10) = 1
           /\ v3 \in 8..9 => Len(v10) = 2
           /\ v3 \in 10..13 => Len(v10) = 3
           /\ \A n \in 1..Len(v10) : v10[n] = IF n = 3 THEN Bolt!NotFound ELSE Cindy
BoltInv == RunsOnce /\ (v2 = "users" => Users /\ Answers)

(* What main of bbolt does in which order (bbolt/main.go:120-231).                *)
LEMMA UserScriptFacts ==
    /\ Len(Bolt!UserScript) = 16 /\ DOMAIN Bolt!UserScript = 1..16
    /\ Bolt!UserScript[4][1] = "print" /\ Bolt!UserScript[14] = <<"put", -1, Bolt!NotJSON>>
    /\ Bolt!UserScript[2][2] = 1002 /\ Bolt!UserScript[3] = <<"put", 1003, Cindy>>
    /\ Bolt!UserScript[8] = <<"delete", 1001>>
    /\ \A p \in 1..16 :
         /\ Bolt!UserScript[p][1] = "put" =>
               /\ Bolt!UserScript[p][2] = -1 => Bolt!UserScript[p][3] = Bolt!NotJSON
               /\ Bolt!UserScript[p][2] = 1003 => Bolt!UserScript[p][3] = Cindy
               /\ Bolt!UserScript[p][2] = 1001 => p = 1
               /\ p \notin {4, 5, 7, 8, 9, 10, 13}
         /\ Bolt!UserScript[p][1] = "delete" => p = 8
         /\ Bolt!UserScript[p][1] = "print" => p \in {4, 10}
         /\ Bolt!UserScript[p][1] = "get" => \/ p \in {5, 7, 13} /\ Bolt!UserScript[p][2] = 1002
                                             \/ p = 9 /\ Bolt!UserScript[p][2] = 1001
  <1>1. Len(Bolt!UserScript) = 16 /\ DOMAIN Bolt!UserScript = 1..16
    BY DEF Bolt!UserScript
  <1>2. /\ Bolt!UserScript[4] = <<"print">> /\ Bolt!UserScript[14] = <<"put", -1, Bolt!NotJSON>>
        /\ Bolt!UserScript[2][2] = 1002 /\ Bolt!UserScript[3] = <<"put", 1003, Cindy>>
        /\ Bolt!UserScript[8] = <<"delete", 1001>>
    BY DEF Bolt!UserScript, Cindy
  <1>3. ASSUME NEW p \in 1..16
        PROVE  /\ Bolt!UserScript[p][1] = "put" =>
                    /\ Bolt!UserScript[p][2] = -1 => Bolt!UserScript[p][3] = Bolt!NotJSON
                    /\ Bolt!UserScript[p][2] = 1003 => Bolt!UserScript[p][3] = Cindy
                    /\ Bolt!UserScript[p][2] = 1001 => p = 1
                    /\ p \notin {4, 5, 7, 8, 9, 10, 13}
               /\ Bolt!UserScript[p][1] = "delete" => p = 8
               /\ Bolt!UserScript[p][1] = "print" => p \in {4, 10}
               /\ Bolt!UserScript[p][1] = "get" => \/ p \in {5, 7, 13} /\ Bolt!UserScript[p][2] = 1002
                                                   \/ p = 9 /\ Bolt!UserScript[p][2] = 1001
    <2>1. \/ p = 1 \/ p = 2 \/ p = 3 \/ p = 4 \/ p = 5 \/ p = 6 \/ p = 7 \/ p = 8 \/ p = 9
          \/ p = 10 \/ p = 11 \/ p = 12 \/ p = 13 \/ p = 14 \/ p = 15 \/ p = 16
      OBVIOUS
    <2> QED BY <2>1 DEF Bolt!UserScript, Cindy
  <1> QED BY <1>1, <1>2, <1>3

(* The first run, on an empty file.                                            *)
LEMMA InitBolt == Bolt!Init => BoltInv
  BY DEF Bolt!Init, BoltInv, RunsOnce, Users, Answers

(* Every statement of the users, and of the other programs over bbolt.              *)
LEMMA RunsOnceStep == RunsOnce /\ Bolt!Next => RunsOnce'
  <1> SUFFICES ASSUME RunsOnce, Bolt!Next PROVE RunsOnce'
    OBVIOUS
  <1>1. CASE Bolt!UpsertUser
    <2> DEFINE k == Bolt!UserScript[v3][2]
               x == Bolt!UserScript[v3][3]
    <2>1. /\ v2 = "users" /\ v3 \in 1..16 /\ Bolt!UserScript[v3][1] = "put"
          /\ v1' = Bolt!Stored(v1, k, x) /\ v3' = v3 + 1 /\ v2' = v2 /\ v12' = v12 /\ v4' = v4
      BY <1>1, UserScriptFacts DEF Bolt!UpsertUser, Bolt!Statement, Bolt!idle
    <2>2. k = -1 => x = Bolt!NotJSON
      BY <2>1, UserScriptFacts
    <2>3. v3 = 14 => k = -1
      BY UserScriptFacts
    <2>4. v3 # 4
      BY <2>1, UserScriptFacts
    <2> HIDE DEF k, x
    <2>5. IndexLeft \/ k = -1 => IndexLeft'
      BY <2>1, <2>2 DEF IndexLeft, Bolt!Stored, Bolt!NotJSON
    <2> QED BY <2>1, <2>3, <2>4, <2>5 DEF RunsOnce
  <1>2. CASE Bolt!DeleteUser
    <2> DEFINE k == Bolt!UserScript[v3][2]
    <2>1. /\ v2 = "users" /\ v3 \in 1..16 /\ Bolt!UserScript[v3][1] = "delete"
          /\ v1' = Bolt!Restrict(v1, DOMAIN v1 \ {k}) /\ v3' = v3 + 1 /\ v2' = v2 /\ v12' = v12 /\ v4' = v4
      BY <1>2, UserScriptFacts DEF Bolt!DeleteUser, Bolt!Statement, Bolt!idle
    <2>2. k # -1
      BY <2>1, UserScriptFacts
    <2>3. v3 # 4 /\ v3 # 14
      BY <2>1, UserScriptFacts
    <2> HIDE DEF k
    <2>4. IndexLeft => IndexLeft'
      BY <2>1, <2>2 DEF IndexLeft, Bolt!Restrict, Bolt!NotJSON
    <2> QED BY <2>1, <2>3, <2>4 DEF RunsOnce
  <1>3. CASE Bolt!GetUser
    <2>1. /\ v2 = "users" /\ v3 \in 1..16 /\ Bolt!UserScript[v3][1] = "get"
          /\ v1' = v1 /\ v3' = v3 + 1 /\ v2' = v2 /\ v12' = v12 /\ v4' = v4
      BY <1>3, UserScriptFacts DEF Bolt!GetUser, Bolt!Statement, Bolt!idle
    <2>2. v3 # 4 /\ v3 # 14
      BY <2>1, UserScriptFacts
    <2> QED BY <2>1, <2>2 DEF RunsOnce, IndexLeft
  <1>4. CASE Bolt!PrintAllUsers
    <2>1. /\ v2 = "users" /\ v3 \in 1..16 /\ Bolt!UserScript[v3][1] = "print"
          /\ v3' = IF \E k \in DOMAIN v1 : v1[k] = Bolt!NotJSON THEN -1 ELSE v3 + 1
          /\ v1' = v1 /\ v2' = v2 /\ v12' = v12 /\ v4' = v4
      BY <1>4, UserScriptFacts DEF Bolt!PrintAllUsers, Bolt!Statement, Bolt!idle
    <2>2. v3 # 14
      BY <2>1, UserScriptFacts
    <2>3. IndexLeft => v3' = -1
      BY <2>1 DEF IndexLeft
    <2>4. v3' \in {-1} \cup 1..17 /\ (v3' > 14 => v3 > 14)
      BY <2>1, <2>2
    <2> QED BY <2>1, <2>3, <2>4 DEF RunsOnce, IndexLeft
  <1>5. CASE Bolt!RunAgain
    <2>1. /\ v2 = "users" /\ v12' = v12 + (IF v3 > 16 THEN 1 ELSE 0)
          /\ v3' = 1 /\ v1' = v1 /\ v2' = v2 /\ v4' = v4
      BY <1>5, UserScriptFacts DEF Bolt!RunAgain, Bolt!idle
    <2> QED BY <2>1 DEF RunsOnce, IndexLeft
  <1>6. CASE Bolt!Experiment
    <2>1. CASE v2 = "users"
      <3>1. v4 = "start"
        BY <2>1 DEF RunsOnce
      <3>2. FALSE
        BY <1>6, <2>1, <3>1 DEF Bolt!Experiment, Bolt!OtherBegins, Bolt!CloseReady, Bolt!OtherEnds,
           Bolt!MainBegins, Bolt!MainEnds, Bolt!TakeDone, RunsOnce
      <3> QED BY <3>2
    <2>2. CASE v2 # "users"
      <3>1. v2' = v2 /\ v12' = v12
        BY <1>6 DEF Bolt!Experiment, Bolt!OtherBegins, Bolt!CloseReady, Bolt!OtherEnds, Bolt!MainBegins,
           Bolt!MainEnds, Bolt!TakeDone, Bolt!Same
      <3> QED BY <2>2, <3>1 DEF RunsOnce
    <2> QED BY <2>1, <2>2
  <1> QED BY <1>1, <1>2, <1>3, <1>4, <1>5, <1>6 DEF Bolt!Next, Bolt!Users

(* The users in the bucket and the answers, statement by statement.              *)
LEMMA UsersStep ==
    ASSUME BoltInv, v2 = "users", Bolt!Next
    PROVE  v2' = "users" /\ Users' /\ Answers'
  <1>0. RunsOnce /\ Users /\ Answers /\ v3 \in {-1} \cup 1..17 /\ v4 = "start"
    BY DEF BoltInv, RunsOnce
  <1>1. CASE Bolt!UpsertUser
    <2> DEFINE k == Bolt!UserScript[v3][2]
               x == Bolt!UserScript[v3][3]
    <2>1. /\ v3 \in 1..16 /\ Bolt!UserScript[v3][1] = "put"
          /\ v1' = Bolt!Stored(v1, k, x) /\ v3' = v3 + 1 /\ v2' = v2 /\ v10' = v10
      BY <1>1, UserScriptFacts DEF Bolt!UpsertUser, Bolt!Statement
    <2>2. /\ k = 1003 => x = Cindy
          /\ k = 1001 => v3 = 1
          /\ v3 = 2 => k = 1002
          /\ v3 = 3 => k = 1003
          /\ v3 \notin {4, 5, 7, 8, 9, 10, 13}
      BY <2>1, UserScriptFacts
    <2> HIDE DEF k, x
    <2>3. Answers'
      BY <1>0, <2>1, <2>2 DEF Answers
    <2>4. DOMAIN v1' = DOMAIN v1 \cup {k} /\ (k = 1003 => v1'[1003] = x)
          /\ (k # 1003 /\ 1003 \in DOMAIN v1 => v1'[1003] = v1[1003])
      BY <2>1 DEF Bolt!Stored
    <2> QED BY <1>0, <2>1, <2>2, <2>3, <2>4 DEF Users
  <1>2. CASE Bolt!DeleteUser
    <2>0. /\ v3 \in 1..16 /\ Bolt!UserScript[v3][1] = "delete"
          /\ v1' = Bolt!Restrict(v1, DOMAIN v1 \ {Bolt!UserScript[v3][2]}) /\ v3' = v3 + 1 /\ v2' = v2
          /\ v10' = v10
      BY <1>2, UserScriptFacts DEF Bolt!DeleteUser, Bolt!Statement
    <2>a. v3 = 8
      BY <2>0, UserScriptFacts
    <2>b. Bolt!UserScript[8][2] = 1001
      BY ONLY UserScriptFacts
    <2>1. v3 = 8 /\ v1' = Bolt!Restrict(v1, DOMAIN v1 \ {1001}) /\ v3' = v3 + 1 /\ v2' = v2
          /\ v10' = v10
      BY ONLY <2>0, <2>a, <2>b
    <2>2. DOMAIN v1' = DOMAIN v1 \ {1001} /\ \A q \in DOMAIN v1 \ {1001} : v1'[q] = v1[q]
      BY <2>1 DEF Bolt!Restrict
    <2>3. Answers'
      BY <1>0, <2>1 DEF Answers
    <2> QED BY <1>0, <2>1, <2>2, <2>3 DEF Users
  <1>3. CASE Bolt!GetUser
    <2>1. /\ v3 \in 1..16 /\ Bolt!UserScript[v3][1] = "get"
          /\ v10' = Append(v10, Bolt!UserRead(v1, Bolt!UserScript[v3][2]))
          /\ v1' = v1 /\ v3' = v3 + 1 /\ v2' = v2
      BY <1>3, UserScriptFacts DEF Bolt!GetUser, Bolt!Statement
    <2>2. Users'
      BY <1>0, <2>1, UserScriptFacts DEF Users
    <2>3. ASSUME NEW a \in Answer, v10' = Append(v10, a), v3 \in {5, 7, 13} => a = Cindy,
                 v3 = 9 => a = Bolt!NotFound, v3 \in {5, 7, 9, 13}
          PROVE  Answers'
      <3>1. v10 \in Seq(Answer) /\ Len(v10) \in Nat
        BY ONLY <1>0, LenProperties DEF Answers
      <3>2. /\ v10' \in Seq(Answer) /\ Len(v10') = Len(v10) + 1
            /\ \A n \in 1..Len(v10) : v10'[n] = v10[n]
            /\ v10'[Len(v10) + 1] = a
        BY ONLY <2>3, <3>1, AppendProperties
      <3>3. v3' = v3 + 1
        BY <2>1
      <3>4. Len(v10) + 1 = 3 <=> v3 = 9
        BY ONLY <1>0, <2>3 DEF Answers
      <3>5. ASSUME NEW n \in 1..Len(v10') PROVE v10'[n] = IF n = 3 THEN Bolt!NotFound ELSE Cindy
        <4>1. CASE n \in 1..Len(v10)
          BY ONLY <1>0, <3>2, <4>1 DEF Answers
        <4>2. CASE n = Len(v10) + 1
          BY ONLY <2>3, <3>2, <3>4, <4>2
        <4> QED BY <3>1, <3>2, <4>1, <4>2
      <3> QED BY ONLY <1>0, <2>3, <3>1, <3>2, <3>3, <3>5 DEF Answers
    <2>4. ASSUME v3 \in {5, 7, 13} /\ Bolt!UserScript[v3][2] = 1002 PROVE Answers'
      <3>1. Bolt!UserRead(v1, 1002) = Cindy
        <4>1. {1002, 1003} \subseteq DOMAIN v1 /\ v1[1003] = Cindy
          BY <1>0, <2>4 DEF Users
        <4>2. {1002, 1002 + 1} \subseteq DOMAIN v1 /\ v1[1002 + 1] = Cindy
          BY ONLY <4>1
        <4> QED BY ONLY <4>2 DEF Bolt!UserRead
      <3>2. v10' = Append(v10, Cindy)
        BY <2>1, <2>4, <3>1
      <3>3. Cindy \in Answer
        BY DEF Answer
      <3>4. v3 \in {5, 7, 9, 13} /\ v3 # 9
        BY ONLY <2>4
      <3> HIDE DEF Cindy
      <3> QED BY ONLY <2>3, <3>2, <3>3, <3>4
    <2>5. ASSUME v3 = 9 /\ Bolt!UserScript[v3][2] = 1001 PROVE Answers'
      <3>1. Bolt!UserRead(v1, 1001) = Bolt!NotFound
        BY <1>0, <2>5 DEF Users, Bolt!UserRead
      <3>2. v10' = Append(v10, Bolt!NotFound)
        BY <2>1, <2>5, <3>1
      <3>3. Bolt!NotFound \in Answer
        BY DEF Answer
      <3>4. v3 \in {5, 7, 9, 13} /\ v3 \notin {5, 7, 13}
        BY ONLY <2>5
      <3> QED BY ONLY <2>3, <3>2, <3>3, <3>4
    <2>6. \/ v3 \in {5, 7, 13} /\ Bolt!UserScript[v3][2] = 1002
          \/ v3 = 9 /\ Bolt!UserScript[v3][2] = 1001
      <3>1. \A p \in 1..16 : Bolt!UserScript[p][1] = "get" =>
                \/ p \in {5, 7, 13} /\ Bolt!UserScript[p][2] = 1002
                \/ p = 9 /\ Bolt!UserScript[p][2] = 1001
        BY ONLY UserScriptFacts
      <3>2. v3 \in 1..16 /\ Bolt!UserScript[v3][1] = "get"
        BY ONLY <2>1
      <3> QED BY ONLY <3>1, <3>2
    <2>7. v2' = "users" /\ Answers'
      BY ONLY <2>1, <2>4, <2>5, <2>6, v2 = "users"
    <2> QED BY ONLY <2>2, <2>7
  <1>4. CASE Bolt!PrintAllUsers
    <2>1. /\ v3 \in {4, 10} /\ v3' \in {-1, v3 + 1} /\ v1' = v1 /\ v2' = v2 /\ v10' = v10
      BY <1>4, UserScriptFacts DEF Bolt!PrintAllUsers, Bolt!Statement
    <2> QED BY <1>0, <2>1 DEF Users, Answers
  <1>5. CASE Bolt!RunAgain
    BY <1>0, <1>5 DEF Bolt!RunAgain, Users, Answers
  <1>6. ~Bolt!Experiment
    BY <1>0 DEF Bolt!Experiment, Bolt!OtherBegins, Bolt!CloseReady, Bolt!OtherEnds,
       Bolt!MainBegins, Bolt!MainEnds, Bolt!TakeDone
  <1> QED BY <1>1, <1>2, <1>3, <1>4, <1>5, <1>6 DEF Bolt!Next, Bolt!Users

(* A run of one program over bbolt stays one of that program.                    *)
LEMMA BoltStep == BoltInv /\ Bolt!Next => BoltInv'
  <1> SUFFICES ASSUME BoltInv, Bolt!Next PROVE BoltInv'
    OBVIOUS
  <1>1. RunsOnce'
    BY RunsOnceStep DEF BoltInv
  <1>2. CASE v2 = "users"
    BY <1>1, <1>2, UsersStep DEF BoltInv
  <1>3. CASE v2 # "users"
    <2>1. v2' = v2
      BY <1>3 DEF Bolt!Next, Bolt!Users, Bolt!UpsertUser, Bolt!DeleteUser, Bolt!GetUser, Bolt!PrintAllUsers,
         Bolt!Statement, Bolt!RunAgain, Bolt!Experiment, Bolt!OtherBegins, Bolt!CloseReady,
         Bolt!OtherEnds, Bolt!MainBegins, Bolt!MainEnds, Bolt!TakeDone, Bolt!Same
    <2> QED BY <1>1, <1>3, <2>1 DEF BoltInv
  <1> QED BY <1>2, <1>3

-------------------------------------------------------------------------------
(* The log *)

(* A piece of a line, and what it can give back.                              *)
WalPiece == [key : Key \cup {None}, value : Wal!Value \cup {None},
             part : {"op", "key", "value", "unended", "whole", "end"}]
WalGiven == Wal!Value \cup {Wal!Cut(v) : v \in Wal!Value} \cup {None}
WalGives(v) == {v, Wal!Cut(v)}

WalTypes ==
    /\ v1 \in Seq(WalPiece) /\ v2 \in 0..Len(v1)
    /\ v4 \in [at : {"idle", "write", "sync"}, key : Key \cup {None}, value : Wal!Value \cup {None}]
    /\ v7 \in [Key -> Plain \cup {None}]
    /\ v8 \in [Key -> SUBSET WalGiven]
    /\ \A j \in 1..Len(v1) : v1[j].part # "end" => v1[j].key \in Key /\ v1[j].value \in Wal!Value

(* Who holds the mutex has been announced, and has written last once it syncs. *)
WalWriter ==
    /\ v4.at # "idle" => v4.key \in Key /\ v4.value \in Wal!Value /\ WalGives(v4.value) \subseteq v8[v4.key]
    /\ v4.at = "sync" => Len(v1) # 0 /\ v1[Len(v1)] = Wal!Piece(v4.key, v4.value, "whole")

(* Piece p of a file is a whole Put of k, in a line of its own with one word.    *)
LegibleAt(f, p, k, a) == /\ p # 0 /\ f[p] = Wal!Piece(k, a, "whole")
                         /\ a \notin Blank /\ (p = 1 \/ Wal!EndsLine(f[p - 1]))

(* From piece p on a file holds a for the key k, or what has been tried of it.  *)
HoldsFrom(f, p, k, a, t) ==
    /\ (p = 0 /\ a = None) \/ LegibleAt(f, p, k, a)
    /\ \A j \in p + 1..Len(f) : f[j].key = k /\ f[j].part # "end" => WalGives(f[j].value) \subseteq t

(* What was acknowledged and can be read is in the part of the file that no death *)
(* takes away, and only pieces of what was tried follow it.                   *)
WalHolds == \A k \in Key : \E p \in 0..v2 : HoldsFrom(v1, p, k, v7[k], v8[k])

WalInv == WalTypes /\ WalWriter /\ WalHolds

-------------------------------------------------------------------------------
(* Recovery, piece by piece *)

RecoverStep(h, pieces) ==
    /\ h[0] = Wal!Empty
    /\ \A n \in 1..Len(pieces) :
         h[n] = IF ~Wal!Readable(pieces, n) THEN h[n - 1]
                ELSE [h[n - 1] EXCEPT ![Wal!Scanned(pieces[n])[1]] = Wal!Scanned(pieces[n])[2]]

(* What can be read of a piece is its key and its value, whole or cut.         *)
LEMMA ScannedIs ==
    ASSUME NEW x \in WalPiece, Wal!Scanned(x) # <<>>
    PROVE  /\ x.part # "end" /\ Wal!Scanned(x)[1] = x.key
           /\ Wal!Scanned(x)[2] \in WalGives(x.value)
  <1>1. x.part \in {"op", "key", "value", "unended", "whole", "end"}
    BY DEF WalPiece
  <1>2. CASE x.part \in {"op", "key", "end"}
    BY <1>2 DEF Wal!Scanned
  <1>3. CASE x.part = "value"
    BY <1>3 DEF Wal!Scanned, WalGives
  <1>4. CASE x.part \in {"whole", "unended"}
    BY <1>4 DEF Wal!Scanned, WalGives
  <1> QED BY <1>1, <1>2, <1>3, <1>4

(* Recover reads the pieces in their order (wal/main.go:69-98).                    *)
LEMMA RecoverSteps ==
    ASSUME NEW pieces \in Seq(WalPiece),
           \A j \in 1..Len(pieces) : pieces[j].part # "end" =>
               pieces[j].key \in Key /\ pieces[j].value \in Wal!Value
    PROVE  \E h \in [0..Len(pieces) -> [Key -> WalGiven]] :
               RecoverStep(h, pieces) /\ Wal!Recover(pieces) = h[Len(pieces)]
  <1> DEFINE E == [Key -> WalGiven]
             n == Len(pieces)
             indexes == [j \in DOMAIN pieces |-> j]
             D == DOMAIN indexes
             Give(m, x) == IF ~Wal!Readable(pieces, indexes[x]) THEN m
                           ELSE [m EXCEPT ![Wal!Scanned(pieces[indexes[x]])[1]] = Wal!Scanned(pieces[indexes[x]])[2]]
             O == [m \in E |-> [x \in 1..n |-> Give(m, x)]]
             Eq(g) == g = [T \in SUBSET D |->
                             IF T = {} THEN Wal!Empty ELSE Give(g[T \ {Wal!Max(T)}], Wal!Max(T))]
  <1>0. \A T : Wal!Max(T) = Max(T)
    BY DEF Wal!Max, Max
  <1>1. n \in Nat /\ D = 1..n /\ Wal!Empty \in E /\ \A x \in 1..n : indexes[x] = x
    BY DEF Wal!Empty, WalGiven
  <1>2. ASSUME NEW m \in E, NEW x \in 1..n PROVE Give(m, x) \in E
    <2>1. CASE ~Wal!Readable(pieces, x)
      BY <1>1, <2>1
    <2>2. CASE Wal!Readable(pieces, x)
      <3> DEFINE s == Wal!Scanned(pieces[x])
      <3>1. pieces[x] \in WalPiece /\ s # <<>>
        BY <2>2 DEF Wal!Readable
      <3>2. pieces[x].part # "end" /\ s[1] = pieces[x].key /\ s[2] \in WalGives(pieces[x].value)
        <4> HIDE DEF s
        <4> QED BY <3>1, ScannedIs DEF s
      <3> HIDE DEF s
      <3>3. pieces[x].key \in Key /\ pieces[x].value \in Wal!Value
        BY <3>2
      <3>4. s[1] \in Key /\ s[2] \in WalGiven
        BY <3>2, <3>3 DEF WalGives, WalGiven
      <3>5. [m EXCEPT ![s[1]] = s[2]] \in E
        BY <3>4
      <3> QED BY <1>1, <2>2, <3>5 DEF s
    <2> QED BY <2>1, <2>2
  <1>3. O \in [E -> [1..n -> E]]
    <2> HIDE DEF Give, E
    <2> QED BY <1>2
  <1>4. PICK g \in [SUBSET (1..n) -> E] : IsFold(g, Wal!Empty, O, FromEnd(n), 1..n)
    <2> HIDE DEF O, E
    <2> QED BY <1>1, <1>3, FromEndChooses, FoldExists, Zenon
  <1> HIDE DEF E
  <1>5. Eq(g)
    <2>1. ASSUME NEW T \in SUBSET D
          PROVE  g[T] = IF T = {} THEN Wal!Empty ELSE Give(g[T \ {Wal!Max(T)}], Wal!Max(T))
      <3>1. CASE T = {}
        BY <1>1, <1>4, <3>1 DEF IsFold
      <3>2. CASE T # {}
        <4>1. FromEnd(n)[T] = Max(T) /\ Max(T) \in 1..n /\ T \ {Max(T)} \in SUBSET (1..n)
          BY <1>1, <3>2, FromEndChooses DEF FromEnd, Chooses
        <4>2. g[T] = O[g[T \ {Max(T)}]][Max(T)]
          <5> HIDE DEF O
          <5> QED BY <1>1, <1>4, <3>2, <4>1 DEF IsFold
        <4>3. g[T \ {Max(T)}] \in E
          BY <4>1
        <4>4. O[g[T \ {Max(T)}]][Max(T)] = Give(g[T \ {Max(T)}], Max(T))
          <5> HIDE DEF Give
          <5> QED BY <4>1, <4>3
        <4> HIDE DEF O, Give
        <4> QED BY <1>0, <3>2, <4>2, <4>4
      <3> QED BY <3>1, <3>2
    <2>2. g = [T \in SUBSET D |-> g[T]]
      BY <1>1
    <2> HIDE DEF D, Give
    <2> QED BY <2>1, <2>2, Zenon
  <1> DEFINE f == CHOOSE iter : Eq(iter)
  <1>6. Eq(f)
    <2> HIDE DEF Eq
    <2> QED BY <1>5, Zenon
  <1>7. Wal!Recover(pieces) = f[D]
    BY Zenon DEF Wal!Recover, Wal!FoldLeft, Wal!MapThenFoldSet
  <1> HIDE DEF f
  <1>8. \A T \in SUBSET D : f[T] = IF T = {} THEN Wal!Empty ELSE Give(f[T \ {Max(T)}], Max(T))
    <2> HIDE DEF D, Give
    <2> QED BY <1>0, <1>6, Zenon
  <1> DEFINE h == [k \in 0..n |-> f[1..k]]
  <1>9. h[0] = Wal!Empty
    <2>1. {} \in SUBSET D /\ 1..0 = {} /\ 0 \in 0..n
      BY <1>1
    <2>2. f[{}] = Wal!Empty
      <3> HIDE DEF D, Give
      <3> QED BY <1>8, <2>1, Zenon
    <2> HIDE DEF D, Give
    <2> QED BY <2>1, <2>2
  <1>10. ASSUME NEW k \in 1..n PROVE h[k] = Give(h[k - 1], k)
    <2>1. 1..k \in SUBSET D /\ 1..k # {} /\ k - 1 \in 0..n /\ k \in 0..n
      <3> HIDE DEF n, D, Give
      <3> QED BY <1>1, Intervals
    <2>2. Max(1..k) = k /\ (1..k) \ {k} = 1..k - 1
      BY FromEndChooses
    <2>3. f[1..k] = Give(f[1..k - 1], k)
      <3> HIDE DEF D, Give
      <3> QED BY <1>8, <2>1, <2>2, Zenon
    <2> HIDE DEF Give
    <2> QED BY <2>1, <2>3
  <1>11. \A k \in 0..n : h[k] \in E
    <2> DEFINE N == {k \in 0..n : h[k] \in E}
    <2>1. 0 \in N
      <3>1. h[0] \in E
        <4> HIDE DEF h, Give
        <4> QED BY <1>1, <1>9
      <3>2. 0 \in 0..n
        OBVIOUS
      <3> HIDE DEF h
      <3> QED BY <3>1, <3>2
    <2>2. ASSUME NEW k \in 0..n - 1, k \in N PROVE k + 1 \in N
      <3>1. k + 1 \in 1..n /\ k + 1 \in 0..n /\ (k + 1) - 1 = k /\ h[k] \in E
        BY <2>2
      <3>2. h[k + 1] = Give(h[k], k + 1)
        <4> HIDE DEF h, Give, N
        <4> QED BY <1>10, <3>1
      <3>3. h[k + 1] \in E
        <4> HIDE DEF h, N, Give
        <4> QED BY <1>2, <3>1, <3>2
      <3> QED BY <3>1, <3>3
    <2>3. 0..n \subseteq N
      <3> HIDE DEF N
      <3> QED BY <1>1, <2>1, <2>2, BoundedInduction
    <2> QED BY <2>3
  <1>12. h \in [0..n -> E]
    <2> HIDE DEF h
    <2>1. h = [k \in 0..n |-> h[k]]
      BY DEF h
    <2> QED BY <1>11, <2>1
  <1>13. RecoverStep(h, pieces)
    <2>1. ASSUME NEW k \in 1..n
          PROVE  h[k] = IF ~Wal!Readable(pieces, k) THEN h[k - 1]
                        ELSE [h[k - 1] EXCEPT ![Wal!Scanned(pieces[k])[1]] = Wal!Scanned(pieces[k])[2]]
      <3>1. indexes[k] = k
        BY <1>1
      <3> HIDE DEF h, indexes
      <3> QED BY <1>10, <3>1
    <2> HIDE DEF h
    <2> QED BY <1>9, <2>1 DEF RecoverStep
  <1>14. Wal!Recover(pieces) = h[n]
    BY <1>1, <1>7
  <1> HIDE DEF h
  <1> QED BY <1>12, <1>13, <1>14 DEF E

(* Recovery gives back what the file holds from piece p on: that piece can be     *)
(* read, and of the later ones of the key that can be read the last counts.     *)
LEMMA RecoverGives ==
    ASSUME NEW f \in Seq(WalPiece),
           \A j \in 1..Len(f) : f[j].part # "end" => f[j].key \in Key /\ f[j].value \in Wal!Value,
           NEW k \in Key, NEW a, NEW t, NEW p \in 0..Len(f),
           HoldsFrom(f, p, k, a, t)
    PROVE  Wal!Recover(f)[k] \in {a} \cup t
  <1> DEFINE n == Len(f)
  <1>1. n \in Nat /\ p \in Nat /\ p <= n
    OBVIOUS
  <1>2. PICK h \in [0..n -> [Key -> WalGiven]] : RecoverStep(h, f) /\ Wal!Recover(f) = h[n]
    BY RecoverSteps
  <1>3. h[p][k] = a
    <2>1. CASE p = 0
      <3>1. a = None /\ h[0] = Wal!Empty
        BY <1>2, <2>1 DEF HoldsFrom, LegibleAt, RecoverStep
      <3> QED BY <2>1, <3>1 DEF Wal!Empty
    <2>2. CASE p # 0
      <3>1. p \in 1..n /\ p - 1 \in 0..n
        BY <1>1, <2>2
      <3>2. /\ f[p] = Wal!Piece(k, a, "whole") /\ a \notin Blank
            /\ p = 1 \/ Wal!EndsLine(f[p - 1])
        BY <2>2 DEF HoldsFrom, LegibleAt
      <3>3. f[p].part = "whole" /\ f[p].key = k /\ f[p].value = a
        BY <3>2 DEF Wal!Piece
      <3>4. Wal!Scanned(f[p]) = <<k, a>>
        BY <3>2, <3>3 DEF Wal!Scanned
      <3>5. Wal!Alone(f, p)
        <4>1. Wal!EndsLine(f[p])
          BY <3>3 DEF Wal!EndsLine
        <4> QED BY <3>2, <4>1 DEF Wal!Alone
      <3>6. Wal!Readable(f, p)
        BY <3>4, <3>5 DEF Wal!Readable
      <3>7. h[p] = [h[p - 1] EXCEPT ![k] = a]
        <4>1. h[p] = [h[p - 1] EXCEPT ![Wal!Scanned(f[p])[1]] = Wal!Scanned(f[p])[2]]
          <5> HIDE DEF n
          <5> QED BY <1>2, <3>1, <3>6 DEF RecoverStep, n
        <4> QED BY <3>4, <4>1
      <3>8. h[p - 1] \in [Key -> WalGiven]
        BY <3>1
      <3> QED BY <3>7, <3>8
    <2> QED BY <2>1, <2>2
  <1> DEFINE J == {j \in 0..n - p : h[p + j][k] \in {a} \cup t}
  <1>4. 0 \in J
    <2>1. p + 0 = p /\ 0 \in 0..n - p
      BY <1>1
    <2> QED BY <1>3, <2>1
  <1>5. ASSUME NEW j \in 0..n - p - 1, j \in J PROVE j + 1 \in J
    <2> DEFINE i == p + (j + 1)
    <2>1. i \in p + 1..n /\ i \in 1..n /\ i - 1 = p + j /\ i - 1 \in 0..n /\ j + 1 \in 0..n - p
      BY <1>1
    <2>2. h[i - 1][k] \in {a} \cup t
      BY <1>5, <2>1
    <2> HIDE DEF i, J
    <2>3. h[i][k] \in {a} \cup t
      <3>1. CASE ~Wal!Readable(f, i)
        <4>1. h[i] = h[i - 1]
          BY <1>2, <2>1, <3>1 DEF RecoverStep
        <4> QED BY <2>2, <4>1
      <3>2. CASE Wal!Readable(f, i)
        <4> DEFINE s == Wal!Scanned(f[i])
        <4>1. f[i] \in WalPiece /\ s # <<>>
          BY <2>1, <3>2 DEF Wal!Readable
        <4>2. f[i].part # "end" /\ s[1] = f[i].key /\ s[2] \in WalGives(f[i].value)
          BY <4>1, ScannedIs
        <4>3. h[i] = [h[i - 1] EXCEPT ![s[1]] = s[2]]
          BY <1>2, <2>1, <3>2 DEF RecoverStep
        <4>4. h[i - 1] \in [Key -> WalGiven]
          BY <2>1
        <4> HIDE DEF s
        <4>5. CASE s[1] = k
          <5>1. h[i][k] = s[2]
            BY <4>3, <4>4, <4>5
          <5>2. WalGives(f[i].value) \subseteq t
            BY <2>1, <4>2, <4>5 DEF HoldsFrom
          <5> QED BY <4>2, <5>1, <5>2
        <4>6. CASE s[1] # k
          <5>1. h[i][k] = h[i - 1][k]
            BY <4>3, <4>4, <4>6
          <5> QED BY <2>2, <5>1
        <4> QED BY <4>5, <4>6
      <3> QED BY <3>1, <3>2
    <2> QED BY <2>1, <2>3 DEF i, J
  <1>6. 0..n - p \subseteq J
    <2> HIDE DEF J
    <2>1. n - p \in Nat
      BY <1>1
    <2> QED BY <1>4, <1>5, <2>1, BoundedInduction
  <1>7. n - p \in 0..n - p /\ p + (n - p) = n
    BY <1>1
  <1>8. h[n][k] \in {a} \cup t
    BY <1>6, <1>7
  <1> QED BY <1>2, <1>8

-------------------------------------------------------------------------------
(* The steps of the log *)

(* NewWAL over an empty file.                                                  *)
LEMMA InitWal == Wal!Init => WalInv
  <1> SUFFICES ASSUME Wal!Init PROVE WalInv
    OBVIOUS
  <1>1. v1 = <<>> /\ v1 \in Seq(WalPiece) /\ Len(v1) = 0
    BY DEF Wal!Init
  <1>2. WalTypes
    BY <1>1 DEF WalTypes, Wal!Init, Wal!Idle, Wal!Empty
  <1>3. WalWriter
    BY DEF WalWriter, Wal!Init, Wal!Idle
  <1>4. \A k \in Key : HoldsFrom(v1, 0, k, v7[k], v8[k])
    BY <1>1 DEF HoldsFrom, Wal!Init, Wal!Empty
  <1>5. 0 \in 0..v2
    BY DEF Wal!Init
  <1> QED BY <1>2, <1>3, <1>4, <1>5 DEF WalInv, WalHolds

(* A file that grows, or loses what was not synchronised, by pieces of Puts that *)
(* have been announced, holds what it held.                                  *)
LEMMA HoldsStays ==
    ASSUME NEW f \in Seq(WalPiece), NEW g \in Seq(WalPiece), NEW p \in 0..Len(f), p <= Len(g),
           NEW k, NEW a, NEW t, NEW u, t \subseteq u,
           HoldsFrom(f, p, k, a, t),
           \A j \in 1..Len(g) : \/ j <= Len(f) /\ g[j] = f[j]
                                \/ /\ j > p
                                   /\ g[j].key = k /\ g[j].part # "end" => WalGives(g[j].value) \subseteq u
    PROVE  HoldsFrom(g, p, k, a, u)
  <1>1. /\ p # 0 => p \in 1..Len(g) /\ g[p] = f[p]
        /\ p # 0 /\ p # 1 => p - 1 \in 1..Len(g) /\ g[p - 1] = f[p - 1]
    OBVIOUS
  <1>2. ASSUME NEW j \in p + 1..Len(g), g[j].key = k, g[j].part # "end"
        PROVE  WalGives(g[j].value) \subseteq u
    <2>1. j \in 1..Len(g)
      OBVIOUS
    <2>2. CASE j <= Len(f) /\ g[j] = f[j]
      <3>1. j \in p + 1..Len(f)
        BY <2>1, <2>2
      <3> QED BY <1>2, <2>2, <3>1 DEF HoldsFrom
    <2> QED BY <1>2, <2>1, <2>2
  <1> QED BY <1>1, <1>2 DEF HoldsFrom, LegibleAt

(* Put. *)
LEMMA WalPutStep ==
    ASSUME WalInv,
           \/ \E k \in Key, v \in Wal!Value : Wal!Lock(k, v)
           \/ Wal!Write \/ Wal!WriteFails \/ Wal!SyncFails \/ Wal!Sync
    PROVE  WalInv'
  <1>0. v1 \in Seq(WalPiece) /\ Len(v1) \in Nat /\ v2 \in 0..Len(v1)
    BY DEF WalInv, WalTypes
  <1>1. ASSUME NEW k \in Key, NEW v \in Wal!Value, Wal!Lock(k, v) PROVE WalInv'
    <2>1. /\ v4' = [at |-> "write", key |-> k, value |-> v]
          /\ v8' = [v8 EXCEPT ![k] = @ \cup WalGives(v)]
          /\ UNCHANGED <<v1, v2, v7>>
      BY <1>1 DEF Wal!Lock, WalGives
    <2>2. v8 \in [Key -> SUBSET WalGiven] /\ WalGives(v) \subseteq WalGiven
      BY DEF WalInv, WalTypes, WalGives, WalGiven
    <2>3. v8' \in [Key -> SUBSET WalGiven] /\ WalGives(v) \subseteq v8'[k] /\ \A q \in Key : v8[q] \subseteq v8'[q]
      BY <2>1, <2>2
    <2>4. WalTypes'
      BY <2>1, <2>3 DEF WalInv, WalTypes
    <2>5. WalWriter'
      BY <2>1, <2>3 DEF WalWriter
    <2>6. WalHolds'
      <3>1. ASSUME NEW q \in Key, NEW p \in 0..v2, HoldsFrom(v1, p, q, v7[q], v8[q])
            PROVE  HoldsFrom(v1', p, q, v7'[q], v8'[q])
        BY <2>1, <2>3, <3>1 DEF HoldsFrom
      <3> QED BY <2>1, <3>1 DEF WalInv, WalHolds
    <2> QED BY <2>4, <2>5, <2>6 DEF WalInv
  <1>2. ASSUME Wal!Write \/ Wal!WriteFails PROVE WalInv'
    <2>1. /\ v4.at = "write" /\ v4.key \in Key /\ v4.value \in Wal!Value
          /\ WalGives(v4.value) \subseteq v8[v4.key] /\ UNCHANGED <<v2, v7, v8>>
      BY <1>2 DEF WalInv, WalWriter, Wal!Write, Wal!WriteFails
    <2>2. \/ v1' = v1 /\ v4' = Wal!Idle
          \/ \E part \in {"op", "key", "value", "unended", "whole"} :
               /\ v1' = Append(v1, Wal!Piece(v4.key, v4.value, part))
               /\ v4' = Wal!Idle \/ (part = "whole" /\ v4' = [v4 EXCEPT !.at = "sync"])
      BY <1>2 DEF Wal!Write, Wal!WriteFails, Wal!Cuts
    <2>3. CASE v1' = v1 /\ v4' = Wal!Idle
      <3>1. WalTypes'
        BY <2>1, <2>3 DEF WalInv, WalTypes, Wal!Idle
      <3>2. WalWriter'
        BY <2>3 DEF WalWriter, Wal!Idle
      <3>3. WalHolds'
        BY <2>1, <2>3 DEF WalInv, WalHolds
      <3> QED BY <3>1, <3>2, <3>3 DEF WalInv
    <2>4. ASSUME NEW part \in {"op", "key", "value", "unended", "whole"},
                 v1' = Append(v1, Wal!Piece(v4.key, v4.value, part)),
                 v4' = Wal!Idle \/ (part = "whole" /\ v4' = [v4 EXCEPT !.at = "sync"])
          PROVE  WalInv'
      <3> DEFINE x == Wal!Piece(v4.key, v4.value, part)
                 n == Len(v1)
      <3>1. x \in WalPiece /\ x.key = v4.key /\ x.value = v4.value /\ x.part = part
        BY <2>1 DEF Wal!Piece, WalPiece
      <3> HIDE DEF x
      <3>2. /\ v1' \in Seq(WalPiece) /\ Len(v1') = n + 1 /\ v1'[n + 1] = x
            /\ \A j \in 1..n : v1'[j] = v1[j]
        BY <1>0, <2>4, <3>1 DEF x
      <3>3. v4 \in [at : {"idle", "write", "sync"}, key : Key \cup {None}, value : Wal!Value \cup {None}]
        BY DEF WalInv, WalTypes
      <3>4. /\ v4' \in [at : {"idle", "write", "sync"}, key : Key \cup {None}, value : Wal!Value \cup {None}]
            /\ v4'.at # "idle" => /\ v4'.at = "sync" /\ v4'.key = v4.key /\ v4'.value = v4.value
                                  /\ part = "whole"
        BY <2>4, <3>3 DEF Wal!Idle
      <3>5. \A j \in 1..n + 1 : v1'[j].part # "end" => v1'[j].key \in Key /\ v1'[j].value \in Wal!Value
        <4>1. \A j \in 1..n + 1 : j \in 1..n \/ j = n + 1
          BY <1>0
        <4> QED BY <2>1, <3>1, <3>2, <4>1 DEF WalInv, WalTypes
      <3>6. WalTypes'
        <4>1. v2' \in 0..Len(v1')
          BY <1>0, <2>1, <3>2
        <4> QED BY <2>1, <3>2, <3>4, <3>5, <4>1 DEF WalInv, WalTypes
      <3>7. WalWriter'
        <4>1. Len(v1') # 0 /\ v1'[Len(v1')] = x
          BY <1>0, <3>2
        <4> QED BY <2>1, <3>4, <4>1 DEF WalWriter, x
      <3>8. WalHolds'
        <4>1. ASSUME NEW q \in Key, NEW p \in 0..v2, HoldsFrom(v1, p, q, v7[q], v8[q])
              PROVE  HoldsFrom(v1', p, q, v7'[q], v8'[q])
          <5>1. p \in 0..Len(v1) /\ p <= Len(v1') /\ p < n + 1
            BY <1>0, <3>2
          <5>2. ASSUME NEW j \in 1..Len(v1')
                PROVE  \/ j <= Len(v1) /\ v1'[j] = v1[j]
                       \/ /\ j > p
                          /\ v1'[j].key = q /\ v1'[j].part # "end" => WalGives(v1'[j].value) \subseteq v8[q]
            <6>1. j \in 1..n \/ j = n + 1
              BY <1>0, <3>2
            <6>2. CASE j \in 1..n
              BY <3>2, <6>2
            <6>3. CASE j = n + 1
              BY <2>1, <3>1, <3>2, <5>1, <6>3
            <6> QED BY <6>1, <6>2, <6>3
          <5>3. HoldsFrom(v1', p, q, v7[q], v8[q])
            <6> HIDE DEF n
            <6> QED BY <1>0, <3>2, <4>1, <5>1, <5>2, HoldsStays
          <5> QED BY <2>1, <5>3
        <4> QED BY <2>1, <4>1 DEF WalInv, WalHolds
      <3> QED BY <3>6, <3>7, <3>8 DEF WalInv
    <2> QED BY <2>2, <2>3, <2>4
  <1>3. ASSUME Wal!SyncFails PROVE WalInv'
    <2>1. v4' = Wal!Idle /\ UNCHANGED <<v1, v2, v7, v8>>
      BY <1>3 DEF Wal!SyncFails
    <2>2. WalTypes'
      BY <2>1 DEF WalInv, WalTypes, Wal!Idle
    <2>3. WalWriter'
      BY <2>1 DEF WalWriter, Wal!Idle
    <2>4. WalHolds'
      BY <2>1 DEF WalInv, WalHolds
    <2> QED BY <2>2, <2>3, <2>4 DEF WalInv
  <1>4. ASSUME Wal!Sync PROVE WalInv'
    <2> DEFINE k == v4.key
               n == Len(v1)
    <2>1. /\ k \in Key /\ v4.value \in Wal!Value /\ n # 0 /\ v1[n] = Wal!Piece(k, v4.value, "whole")
      BY <1>4 DEF WalInv, WalWriter, Wal!Sync
    <2>2. v4' = Wal!Idle /\ v2' = n /\ v1' = v1
      BY <1>4 DEF Wal!Sync
    <2>3. v7 \in [Key -> Plain \cup {None}] /\ v8 \in [Key -> SUBSET WalGiven]
      BY DEF WalInv, WalTypes
    <2>4. WalWriter'
      BY <2>2 DEF WalWriter, Wal!Idle
    <2>5. v2' \in 0..Len(v1') /\ \A p \in 0..v2 : p \in 0..v2'
      BY <1>0, <2>2
    <2>6. CASE ~Wal!Readable(v1, n)
      <3>1. v7' = v7 /\ v8' = v8
        BY <1>4, <2>6 DEF Wal!Sync
      <3>2. WalTypes'
        BY <2>2, <2>3, <2>5, <3>1 DEF WalInv, WalTypes, Wal!Idle
      <3>3. WalHolds'
        BY <2>2, <2>5, <3>1 DEF WalInv, WalHolds
      <3> QED BY <2>4, <3>2, <3>3 DEF WalInv
    <2>7. CASE Wal!Readable(v1, n)
      <3>1. v7' = [v7 EXCEPT ![k] = v4.value] /\ v8' = [v8 EXCEPT ![k] = {}]
        BY <1>4, <2>7 DEF Wal!Sync
      <3>2. v4.value \in Plain /\ v4.value \notin Blank /\ (n = 1 \/ Wal!EndsLine(v1[n - 1]))
        <4>1. v1[n].part = "whole" /\ v1[n].value = v4.value
          BY <2>1 DEF Wal!Piece
        <4>2. Wal!Scanned(v1[n]) # <<>> /\ Wal!Alone(v1, n)
          BY <2>7 DEF Wal!Readable
        <4>3. v4.value \notin Blank
          BY <4>1, <4>2 DEF Wal!Scanned
        <4> QED BY <2>1, <4>2, <4>3 DEF Wal!Value, Wal!Alone
      <3> HIDE DEF k
      <3>3. v7' \in [Key -> Plain \cup {None}] /\ v8' \in [Key -> SUBSET WalGiven]
        BY <2>1, <2>3, <3>1, <3>2
      <3>4. WalTypes'
        BY <2>2, <2>5, <3>3 DEF WalInv, WalTypes, Wal!Idle
      <3>5. ASSUME NEW q \in Key PROVE \E p \in 0..v2' : HoldsFrom(v1', p, q, v7'[q], v8'[q])
        <4>1. CASE q = k
          <5>1. v7'[q] = v4.value /\ v8'[q] = {} /\ n \in 0..v2' /\ n + 1..Len(v1') = {}
            BY <1>0, <2>1, <2>2, <2>3, <3>1, <4>1
          <5>2. HoldsFrom(v1', n, q, v7'[q], v8'[q])
            BY <2>1, <2>2, <3>2, <4>1, <5>1 DEF HoldsFrom, LegibleAt
          <5> QED BY <5>1, <5>2
        <4>2. CASE q # k
          <5>1. v7'[q] = v7[q] /\ v8'[q] = v8[q]
            BY <2>1, <2>3, <3>1, <4>2
          <5>2. PICK p \in 0..v2 : HoldsFrom(v1, p, q, v7[q], v8[q])
            BY DEF WalInv, WalHolds
          <5> QED BY <2>2, <2>5, <5>1, <5>2
        <4> QED BY <4>1, <4>2
      <3> QED BY <2>4, <3>4, <3>5 DEF WalInv, WalHolds
    <2> QED BY <2>6, <2>7
  <1> QED BY <1>1, <1>2, <1>3, <1>4

(* The pieces of Puts have a key and a value.                                *)
OfPuts(f) == \A j \in 1..Len(f) : f[j].part # "end" => f[j].key \in Key /\ f[j].value \in Wal!Value

(* What a death leaves: the first n pieces, and some of the next.              *)
LEMMA CutHolds ==
    ASSUME NEW f \in Seq(WalPiece), OfPuts(f), NEW n \in 0..Len(f), NEW g,
           \/ g = SubSeq(f, 1, n)
           \/ /\ n < Len(f) /\ f[n + 1].part = "whole"
              /\ \E part \in Wal!Cuts : g = Append(SubSeq(f, 1, n), [f[n + 1] EXCEPT !.part = part])
    PROVE  /\ g \in Seq(WalPiece) /\ OfPuts(g) /\ n <= Len(g)
           /\ \A p \in 0..n, k \in Key : \A a, t : HoldsFrom(f, p, k, a, t) => HoldsFrom(g, p, k, a, t)
  <1>1. n \in Nat /\ Len(f) \in Nat
    OBVIOUS
  <1> DEFINE s == SubSeq(f, 1, n)
  <1>2. s \in Seq(WalPiece) /\ Len(s) = n /\ \A j \in 1..n : s[j] = f[j]
    BY <1>1
  <1> HIDE DEF s
  <1>3. CASE g = s
    <2>1. g \in Seq(WalPiece) /\ OfPuts(g) /\ n <= Len(g)
      BY <1>1, <1>2, <1>3 DEF OfPuts
    <2>2. ASSUME NEW p \in 0..n, NEW k \in Key, NEW a, NEW t, HoldsFrom(f, p, k, a, t)
          PROVE  HoldsFrom(g, p, k, a, t)
      <3>1. p \in 0..Len(f) /\ p <= Len(g) /\ \A j \in 1..Len(g) : j <= Len(f) /\ g[j] = f[j]
        BY <1>1, <1>2, <1>3
      <3> QED BY <2>1, <2>2, <3>1, HoldsStays
    <2> QED BY <2>1, <2>2
  <1>4. ASSUME n < Len(f), f[n + 1].part = "whole",
               NEW part \in Wal!Cuts, g = Append(s, [f[n + 1] EXCEPT !.part = part])
        PROVE  /\ g \in Seq(WalPiece) /\ OfPuts(g) /\ n <= Len(g)
               /\ \A p \in 0..n, k \in Key : \A a, t : HoldsFrom(f, p, k, a, t) => HoldsFrom(g, p, k, a, t)
    <2> DEFINE x == [f[n + 1] EXCEPT !.part = part]
    <2>1. n + 1 \in 1..Len(f) /\ f[n + 1] \in WalPiece
      BY <1>1, <1>4
    <2>2. x \in WalPiece /\ x.key = f[n + 1].key /\ x.value = f[n + 1].value /\ x.part # "end"
      BY <1>4, <2>1 DEF WalPiece, Wal!Cuts
    <2>3. g = Append(s, x)
      BY <1>4
    <2> HIDE DEF x
    <2>4. /\ g \in Seq(WalPiece) /\ Len(g) = n + 1 /\ g[n + 1] = x
          /\ \A j \in 1..n : g[j] = f[j]
      BY <1>1, <1>2, <2>2, <2>3
    <2>5. \A j \in 1..n + 1 : j \in 1..n \/ j = n + 1
      BY <1>1
    <2>6. f[n + 1].key \in Key /\ f[n + 1].value \in Wal!Value
      BY <1>4, <2>1 DEF OfPuts
    <2>7. OfPuts(g)
      BY <1>1, <2>2, <2>4, <2>5, <2>6 DEF OfPuts
    <2>8. ASSUME NEW p \in 0..n, NEW k \in Key, NEW a, NEW t, HoldsFrom(f, p, k, a, t)
          PROVE  HoldsFrom(g, p, k, a, t)
      <3>1. p \in 0..Len(f) /\ p <= Len(g) /\ n + 1 \in p + 1..Len(f) /\ n + 1 > p
        BY <1>1, <1>4, <2>4
      <3>2. x.key = k => WalGives(x.value) \subseteq t
        BY <1>4, <2>2, <2>8, <3>1 DEF HoldsFrom
      <3>3. ASSUME NEW j \in 1..Len(g)
            PROVE  \/ j <= Len(f) /\ g[j] = f[j]
                   \/ /\ j > p
                      /\ g[j].key = k /\ g[j].part # "end" => WalGives(g[j].value) \subseteq t
        <4>1. CASE j \in 1..n
          BY <1>1, <2>4, <4>1
        <4>2. CASE j = n + 1
          BY <2>4, <3>1, <3>2, <4>2
        <4> QED BY <2>4, <2>5, <4>1, <4>2
      <3> QED BY <2>4, <2>8, <3>1, <3>3, HoldsStays
    <2>9. n <= Len(g)
      BY <1>1, <2>4
    <2> QED BY <2>4, <2>7, <2>8, <2>9
  <1> QED BY <1>3, <1>4 DEF s

(* The process or the machine dies.                                            *)
LEMMA WalDieStep ==
    ASSUME WalInv, Wal!Die
    PROVE  WalInv'
  <1> DEFINE written == IF v4.at = "write" THEN Append(v1, Wal!Piece(v4.key, v4.value, "whole")) ELSE v1
  <1>0. v1 \in Seq(WalPiece) /\ Len(v1) \in Nat /\ v2 \in 0..Len(v1) /\ OfPuts(v1)
    BY DEF WalInv, WalTypes, OfPuts
  <1>1. /\ written \in Seq(WalPiece) /\ OfPuts(written) /\ Len(v1) <= Len(written)
        /\ \A p \in 0..v2, k \in Key : HoldsFrom(v1, p, k, v7[k], v8[k]) => HoldsFrom(written, p, k, v7[k], v8[k])
    <2>1. CASE v4.at # "write"
      <3>1. written = v1
        BY <2>1
      <3> HIDE DEF written
      <3> QED BY <1>0, <3>1
    <2>2. CASE v4.at = "write"
      <3> DEFINE x == Wal!Piece(v4.key, v4.value, "whole")
                 n == Len(v1)
      <3>1. /\ v4.key \in Key /\ v4.value \in Wal!Value /\ WalGives(v4.value) \subseteq v8[v4.key]
        BY <2>2 DEF WalInv, WalWriter
      <3>2. x \in WalPiece /\ x.key = v4.key /\ x.value = v4.value
        BY <3>1 DEF Wal!Piece, WalPiece
      <3>3. written = Append(v1, x)
        BY <2>2
      <3> HIDE DEF x, written
      <3>4. /\ written \in Seq(WalPiece) /\ Len(written) = n + 1 /\ written[n + 1] = x
            /\ \A j \in 1..n : written[j] = v1[j]
        BY <1>0, <3>2, <3>3
      <3>5. \A j \in 1..n + 1 : j \in 1..n \/ j = n + 1
        BY <1>0
      <3>6. OfPuts(written)
        BY <1>0, <3>1, <3>2, <3>4, <3>5 DEF OfPuts
      <3>7. ASSUME NEW p \in 0..v2, NEW q \in Key, HoldsFrom(v1, p, q, v7[q], v8[q])
            PROVE  HoldsFrom(written, p, q, v7[q], v8[q])
        <4>1. p \in 0..Len(v1) /\ p <= Len(written) /\ p < n + 1
          BY <1>0, <3>4
        <4>2. ASSUME NEW j \in 1..Len(written)
              PROVE  \/ j <= Len(v1) /\ written[j] = v1[j]
                     \/ /\ j > p
                        /\ written[j].key = q /\ written[j].part # "end" => WalGives(written[j].value) \subseteq v8[q]
          <5>1. CASE j \in 1..n
            BY <3>4, <5>1
          <5>2. CASE j = n + 1
            BY <3>1, <3>2, <3>4, <4>1, <5>2
          <5> QED BY <3>4, <3>5, <5>1, <5>2
        <4> HIDE DEF n
        <4> QED BY <1>0, <3>4, <3>7, <4>1, <4>2, HoldsStays
      <3> QED BY <1>0, <3>4, <3>6, <3>7
    <2> QED BY <2>1, <2>2
  <1>2. PICK n \in v2..Len(written) :
               \/ v1' = SubSeq(written, 1, n)
               \/ /\ n < Len(written) /\ written[n + 1].part = "whole"
                  /\ \E part \in Wal!Cuts :
                        v1' = Append(SubSeq(written, 1, n), [written[n + 1] EXCEPT !.part = part])
    BY DEF Wal!Die
  <1>3. v2' = Len(v1') /\ v4' = Wal!Idle /\ UNCHANGED <<v7, v8>>
    BY DEF Wal!Die
  <1> HIDE DEF written
  <1>4. n \in 0..Len(written)
    BY <1>0, <1>1
  <1>5. /\ v1' \in Seq(WalPiece) /\ OfPuts(v1') /\ n <= Len(v1')
        /\ \A p \in 0..n, k \in Key : \A a, t : HoldsFrom(written, p, k, a, t) => HoldsFrom(v1', p, k, a, t)
    BY <1>1, <1>2, <1>4, CutHolds
  <1>6. WalTypes'
    BY <1>3, <1>5 DEF WalInv, WalTypes, OfPuts, Wal!Idle
  <1>7. WalWriter'
    BY <1>3 DEF WalWriter, Wal!Idle
  <1>8. WalHolds'
    <2>1. ASSUME NEW q \in Key PROVE \E p \in 0..v2' : HoldsFrom(v1', p, q, v7[q], v8[q])
      <3>1. PICK p \in 0..v2 : HoldsFrom(v1, p, q, v7[q], v8[q])
        BY DEF WalInv, WalHolds
      <3>2. p \in 0..n /\ p \in 0..v2'
        BY <1>0, <1>2, <1>3, <1>4, <1>5
      <3>3. HoldsFrom(v1', p, q, v7[q], v8[q])
        BY <1>1, <1>5, <3>1, <3>2
      <3> QED BY <3>2, <3>3
    <2> QED BY <1>3, <2>1 DEF WalHolds
  <1> QED BY <1>6, <1>7, <1>8 DEF WalInv

(* Close, and the next instance.                                             *)
LEMMA WalCloseStep ==
    ASSUME WalInv, Wal!Close \/ Wal!NewWAL
    PROVE  WalInv'
  <1>0. v1 \in Seq(WalPiece) /\ Len(v1) \in Nat /\ v2 \in 0..Len(v1) /\ OfPuts(v1)
    BY DEF WalInv, WalTypes, OfPuts
  <1>1. CASE Wal!NewWAL
    <2>1. UNCHANGED <<v1, v2, v4, v7, v8>>
      BY <1>1 DEF Wal!NewWAL
    <2> QED BY <2>1 DEF WalInv, WalTypes, WalWriter, WalHolds
  <1>2. CASE Wal!Close
    <2>1. v2' = Len(v1') /\ v4 = Wal!Idle /\ UNCHANGED <<v4, v7, v8>>
      BY <1>2 DEF Wal!Close
    <2>2. v1' = v1 \/ v1' = Append(v1, Wal!Piece(None, None, "end"))
      BY <1>2 DEF Wal!Close
    <2>3. /\ v1' \in Seq(WalPiece) /\ OfPuts(v1') /\ Len(v1) <= Len(v1')
          /\ \A j \in 1..Len(v1') : (j <= Len(v1) /\ v1'[j] = v1[j]) \/ (j > Len(v1) /\ v1'[j].part = "end")
      <3>1. CASE v1' = v1
        BY <1>0, <3>1
      <3>2. CASE v1' # v1
        <4> DEFINE x == Wal!Piece(None, None, "end")
        <4>1. x \in WalPiece /\ x.part = "end" /\ v1' = Append(v1, x)
          BY <2>2, <3>2 DEF Wal!Piece, WalPiece
        <4> HIDE DEF x
        <4>2. /\ v1' \in Seq(WalPiece) /\ Len(v1') = Len(v1) + 1 /\ v1'[Len(v1) + 1] = x
              /\ \A j \in 1..Len(v1) : v1'[j] = v1[j]
          BY <1>0, <4>1
        <4>3. \A j \in 1..Len(v1) + 1 : j \in 1..Len(v1) \/ j = Len(v1) + 1
          BY <1>0
        <4>4. OfPuts(v1')
          BY <1>0, <4>1, <4>2, <4>3 DEF OfPuts
        <4> QED BY <1>0, <4>1, <4>2, <4>3, <4>4
      <3> QED BY <3>1, <3>2
    <2>4. WalTypes'
      BY <2>1, <2>3 DEF WalInv, WalTypes, OfPuts, Wal!Idle
    <2>5. WalWriter'
      BY <2>1 DEF WalWriter, Wal!Idle
    <2>6. ASSUME NEW q \in Key PROVE \E p \in 0..v2' : HoldsFrom(v1', p, q, v7[q], v8[q])
      <3>1. PICK p \in 0..v2 : HoldsFrom(v1, p, q, v7[q], v8[q])
        BY DEF WalInv, WalHolds
      <3>2. p \in 0..Len(v1) /\ p <= Len(v1') /\ p \in 0..v2'
        BY <1>0, <2>1, <2>3
      <3>3. ASSUME NEW j \in 1..Len(v1')
            PROVE  \/ j <= Len(v1) /\ v1'[j] = v1[j]
                   \/ /\ j > p
                      /\ v1'[j].key = q /\ v1'[j].part # "end" => WalGives(v1'[j].value) \subseteq v8[q]
        BY <1>0, <2>3, <3>2
      <3>4. HoldsFrom(v1', p, q, v7[q], v8[q])
        BY <1>0, <2>3, <3>1, <3>2, <3>3, HoldsStays
      <3> QED BY <3>2, <3>4
    <2>7. WalHolds'
      BY <2>1, <2>6 DEF WalHolds
    <2> QED BY <2>4, <2>5, <2>7 DEF WalInv
  <1> QED BY <1>1, <1>2

(* Every step of the log.                                                      *)
LEMMA WalStep == WalInv /\ Wal!Next => WalInv'
  BY WalPutStep, WalDieStep, WalCloseStep DEF Wal!Next

(* The file gives back the last acknowledged value of a key that can be read.   *)
LEMMA WalGivesBack == WalInv => Wal!RecoveredIsAcknowledged
  <1> SUFFICES ASSUME WalInv, NEW k \in Key
               PROVE  Wal!Recover(v1)[k] \in {v7[k]} \cup v8[k]
    BY DEF Wal!RecoveredIsAcknowledged
  <1>1. PICK p \in 0..v2 : HoldsFrom(v1, p, k, v7[k], v8[k])
    BY DEF WalInv, WalHolds
  <1>2. v1 \in Seq(WalPiece) /\ p \in 0..Len(v1)
    BY DEF WalInv, WalTypes
  <1>3. \A j \in 1..Len(v1) : v1[j].part # "end" => v1[j].key \in Key /\ v1[j].value \in Wal!Value
    BY DEF WalInv, WalTypes
  <1> QED BY <1>1, <1>2, <1>3, RecoverGives

-------------------------------------------------------------------------------
(* The revisioned store *)

EtcdText == {"order", "a", "b", "guard", "to-delete", "old", "foreign", "v1", "v2", "v3", "vi", "v4",
             "should-not-write", "v5", "seed", "A1", "B1", Etcd!Gone}
EtcdRecord == [main : Nat, sub : Nat, key : EtcdText, val : EtcdText]
(* A read returns a record; a watch, and the snapshot, a set or a row of them.   *)
EtcdGot == EtcdRecord \cup SUBSET EtcdRecord

EtcdStore(d) ==
    /\ d \in [rev : Nat, compacted : Nat, recs : SUBSET EtcdRecord]
    /\ \A r \in d.recs : r.main \in 1..d.rev

(* mvcc: the three puts of the history are found at their revisions until       *)
(* they are compacted, ...                                                  *)
HistoryValue == <<"v1", "v2", "v3">>
HistoryRecord(d, rev, n) == /\ rev \in 2..d.rev
                            /\ rev >= d.compacted =>
                                 [main |-> rev, sub |-> 0, key |-> "order", val |-> HistoryValue[n]] \in d.recs
(* ... a revision has one record, and that of the first put is not the latest,    *)
(* nor has the record that was read before the swap changed.                  *)
HistoryStore(d, puts, got) ==
    /\ d.rev >= 1
    /\ \A r \in d.recs : r.key = "order"
    /\ \A r, q \in d.recs : r.main = q.main => r = q
    /\ \A n \in 1..3 : n <= Len(puts) => HistoryRecord(d, puts[n], n)
    /\ Len(puts) >= 2 => \A r \in d.recs : r.main = puts[1] => \E q \in d.recs : q.main > r.main
    /\ Len(got) >= 1 => /\ got[1] \in EtcdRecord /\ got[1].main \in 1..d.rev
                        /\ \A r \in d.recs : r.main = got[1].main => r = got[1]
AfterPuts == {"more", "h1", "h2", "h3", "cas", "after", "stale", "watch", "event", "compact", "old", "done"}
AfterReads == {"cas", "after", "stale", "watch", "event", "compact", "old", "done"}
AfterSwap == {"after", "stale", "watch", "event", "compact", "old", "done", "fatal"}
HistoryPhases ==
    /\ v3 \in {"start", "put1", "put2", "put3"} \cup AfterPuts \cup {"fatal"}
    /\ v3 \in {"start", "put1"} => Len(v4) = 0
    /\ v3 = "put2" => Len(v4) = 1
    /\ v3 = "put3" => Len(v4) = 2
    /\ v3 \in AfterPuts => Len(v4) >= 3
    /\ v3 \in {"start", "put1", "put2", "put3", "more"} => Len(v5) = 0
    /\ v3 = "h1" => Len(v5) = 1
    /\ v3 = "h2" => Len(v5) = 2
    /\ v3 = "h3" => Len(v5) = 3
    /\ v3 \in AfterReads => Len(v5) >= 4
    /\ v3 \notin AfterSwap => v6 = <<>>
HistoryReads == \A n \in 2..4 : n <= Len(v5) =>
                    v5[n].main = v4[n - 1] /\ v5[n].val = HistoryValue[n - 1]
HistoryInv ==
    /\ EtcdStore(v1) /\ v4 \in Seq(Nat) /\ v5 \in Seq(EtcdGot) /\ v6 \in Seq(BOOLEAN)
    /\ Len(v5) >= 2 => Len(v4) >= 3
    /\ HistoryStore(v1, v4, v5) /\ HistoryPhases /\ HistoryReads

(* txn: its four writes have one revision, and nothing else has it.             *)
TxnWrites == << <<"guard", "v2">>, <<"a", "A1">>, <<"b", "B1">>, <<"to-delete", Etcd!Gone>> >>
TxnRecord(rev, n) == [main |-> rev, sub |-> n - 1, key |-> TxnWrites[n][1], val |-> TxnWrites[n][2]]
TxnStore(d, rev) ==
    /\ rev \in 1..d.rev
    /\ \A r \in d.recs : r.main = rev => \E n \in 1..4 : r = TxnRecord(rev, n)
    /\ d.compacted < rev => \A n \in 1..4 : TxnRecord(rev, n) \in d.recs
TxnInv ==
    /\ EtcdStore(v1) /\ v4 \in Seq(Nat)
    /\ v3 \in {"start", "seed", "txn", "api", "done", "fatal"}
    /\ v3 \in {"start", "seed"} => Len(v4) = 0
    /\ v3 = "txn" => Len(v4) = 1
    /\ v3 = "api" => Len(v4) = 2 /\ TxnStore(v1, v4[2])
    /\ v3 # "done" => v5 = <<>>
    /\ Etcd!TxnIsWhole

EtcdInv == /\ v2 = "mvcc" => HistoryInv
           /\ v2 = "txn" => TxnInv

-------------------------------------------------------------------------------
(* The operations of the store *)

(* The latest record of a key is one of its records, and a later one than any.   *)
LEMMA LatestIs ==
    ASSUME NEW d, EtcdStore(d), NEW k, NEW at
    PROVE  \/ /\ Etcd!Latest(d, k, at) = Etcd!NoRecord
              /\ \A r \in d.recs : ~(r.key = k /\ r.main <= at)
           \/ /\ Etcd!Latest(d, k, at) \in d.recs
              /\ Etcd!Latest(d, k, at).key = k /\ Etcd!Latest(d, k, at).main <= at
              /\ \A r \in d.recs : r.key = k /\ r.main <= at => r.main <= Etcd!Latest(d, k, at).main
  <1> DEFINE of == {r \in d.recs : r.key = k /\ r.main <= at}
             best == CHOOSE r \in of : \A q \in of : q.main <= r.main
  <1>1. Etcd!Latest(d, k, at) = IF of = {} THEN Etcd!NoRecord ELSE best
    BY DEF Etcd!Latest
  <1>2. CASE of = {}
    BY <1>1, <1>2
  <1>3. CASE of # {}
    <2> DEFINE mains == {r.main : r \in of}
    <2>1. mains \subseteq 0..d.rev /\ mains # {} /\ d.rev \in Nat
      BY <1>3 DEF EtcdStore
    <2>2. PICK m \in mains : \A n \in mains : m >= n
      <3> HIDE DEF mains
      <3> QED BY <2>1, GreatestNumber
    <2>3. PICK r \in of : r.main = m
      OBVIOUS
    <2>4. \A q \in of : q.main <= r.main
      <3>1. \A q \in of : q.main \in mains
        OBVIOUS
      <3>2. \A q \in of : r.main >= q.main /\ q.main \in Nat /\ r.main \in Nat
        BY <2>2, <2>3, <3>1 DEF EtcdStore
      <3> HIDE DEF of
      <3> QED BY <3>2
    <2>5. best \in of /\ \A q \in of : q.main <= best.main
      <3> HIDE DEF of
      <3> QED BY <2>3, <2>4, Zenon
    <2> HIDE DEF best
    <2> QED BY <1>1, <1>3, <2>5
  <1> QED BY <1>2, <1>3

(* A read returns the latest record, if it is not a tombstone.                  *)
LEMMA ReadIs ==
    ASSUME NEW d, EtcdStore(d), NEW k, NEW at, Etcd!Read(d, k, at) # Etcd!NoRecord
    PROVE  /\ Etcd!Read(d, k, at) = Etcd!Latest(d, k, at)
           /\ Etcd!Read(d, k, at) \in d.recs /\ Etcd!Read(d, k, at) \in EtcdRecord
           /\ Etcd!Read(d, k, at).key = k /\ Etcd!Read(d, k, at).main <= at
           /\ Etcd!Read(d, k, at).main \in 1..d.rev
           /\ \A r \in d.recs : r.key = k /\ r.main <= at => r.main <= Etcd!Read(d, k, at).main
  <1> DEFINE x == Etcd!Latest(d, k, at)
  <1>1. Etcd!Read(d, k, at) = IF x.val = Etcd!Gone THEN Etcd!NoRecord ELSE x
    BY DEF Etcd!Read
  <1>2. Etcd!Read(d, k, at) = x /\ x # Etcd!NoRecord
    BY <1>1
  <1> HIDE DEF x
  <1>3. /\ x \in d.recs /\ x.key = k /\ x.main <= at
        /\ \A r \in d.recs : r.key = k /\ r.main <= at => r.main <= x.main
    BY <1>2, LatestIs DEF x
  <1> QED BY <1>2, <1>3 DEF EtcdStore, x

(* The answer when there is none.                                              *)
LEMMA NoRecordIs == Etcd!NoRecord \in EtcdRecord /\ Etcd!NoRecord.main = 0 /\ Etcd!NoRecord.val = Etcd!Gone
  <1>1. Etcd!Gone \in EtcdText
    BY DEF EtcdText
  <1> QED BY <1>1 DEF Etcd!NoRecord, EtcdRecord

(* A read returns a record, or the answer when there is none.                     *)
LEMMA ReadType ==
    ASSUME NEW d, EtcdStore(d), NEW k, NEW at
    PROVE  Etcd!Read(d, k, at) \in EtcdRecord
  BY ReadIs, NoRecordIs

(* The record of a revision is read at it.                                    *)
LEMMA ReadAt ==
    ASSUME NEW d, EtcdStore(d), \A r, q \in d.recs : r.main = q.main => r = q,
           NEW x \in d.recs, x.val # Etcd!Gone
    PROVE  Etcd!Read(d, x.key, x.main) = x
  <1> DEFINE y == Etcd!Latest(d, x.key, x.main)
  <1>1. x.main \in Nat
    BY DEF EtcdStore
  <1>2. /\ y \in d.recs /\ y.main <= x.main
        /\ \A r \in d.recs : r.key = x.key /\ r.main <= x.main => r.main <= y.main
    BY <1>1, LatestIs
  <1> HIDE DEF y
  <1>3. x.main <= y.main /\ y.main \in Nat
    BY <1>1, <1>2 DEF EtcdStore
  <1>4. y = x
    BY <1>1, <1>2, <1>3
  <1> QED BY <1>4 DEF Etcd!Read, y

(* Compaction keeps what is later, and the latest record of each key before.    *)
LEMMA CompactedStore ==
    ASSUME NEW d, EtcdStore(d), NEW at \in Nat
    PROVE  /\ EtcdStore(Etcd!Compacted(d, at)) /\ Etcd!Compacted(d, at).rev = d.rev
           /\ Etcd!Compacted(d, at).compacted = at
           /\ Etcd!Compacted(d, at).recs = {r \in d.recs : r.main > at \/ r = Etcd!Read(d, r.key, at)}
  BY DEF EtcdStore, Etcd!Compacted

(* The count of the model is the one of the library.                             *)
LEMMA CountsAlike == \A S : Etcd!Cardinality(S) = Cardinality(S)
  BY Zenon DEF Etcd!Cardinality, Cardinality

(* The operations of a request that write, and the record of each               *)
Writing(d, ops) == {i \in DOMAIN ops : ops[i][2] # Etcd!Gone \/ Etcd!Exists(d, ops[i][1])}
RecordOf(d, ops, i) == [main |-> d.rev + 1, sub |-> Cardinality({j \in Writing(d, ops) : j < i}),
                        key |-> ops[i][1], val |-> ops[i][2]]
RecordsOf(d, ops) == {RecordOf(d, ops, i) : i \in Writing(d, ops)}

(* A request adds the record of each operation that writes.                        *)
LEMMA AppliedIs ==
    ASSUME NEW d, NEW ops
    PROVE  Etcd!Applied(d, ops) = IF Writing(d, ops) = {} THEN d
                                  ELSE [d EXCEPT !.rev = @ + 1, !.recs = @ \cup RecordsOf(d, ops)]
  <1> DEFINE now == Writing(d, ops)
             N == RecordsOf(d, ops)
             M == {[main |-> d.rev + 1, sub |-> Cardinality({j \in now : j < i}),
                    key |-> ops[i][1], val |-> ops[i][2]] : i \in now}
             L == {[main |-> d.rev + 1, sub |-> Etcd!Cardinality({j \in now : j < i}),
                    key |-> ops[i][1], val |-> ops[i][2]] : i \in now}
  <1>1. N = M
    BY Zenon DEF RecordsOf, RecordOf
  <1>2. Etcd!Applied(d, ops) = IF now = {} THEN d ELSE [d EXCEPT !.rev = @ + 1, !.recs = @ \cup L]
    BY Zenon DEF Etcd!Applied, Writing
  <1>3. L = M
    <2>1. \A i : Etcd!Cardinality({j \in now : j < i}) = Cardinality({j \in now : j < i})
      BY CountsAlike, Zenon
    <2> HIDE DEF now
    <2> QED BY <2>1, Zenon
  <1> HIDE DEF now, N, M, L
  <1>4. Etcd!Applied(d, ops) = IF now = {} THEN d ELSE [d EXCEPT !.rev = @ + 1, !.recs = @ \cup N]
    BY <1>1, <1>2, <1>3
  <1> QED BY <1>4 DEF now, N

(* The writes of a request have the next revision.                             *)
LEMMA AppliedStore ==
    ASSUME NEW d, EtcdStore(d), NEW ops \in Seq(EtcdText \X EtcdText)
    PROVE  /\ EtcdStore(Etcd!Applied(d, ops)) /\ Etcd!Applied(d, ops).compacted = d.compacted
           /\ \/ Etcd!Applied(d, ops) = d
              \/ /\ Etcd!Applied(d, ops).rev = d.rev + 1
                 /\ Etcd!Applied(d, ops).recs = d.recs \cup RecordsOf(d, ops)
                 /\ \A r \in RecordsOf(d, ops) : r.main = d.rev + 1
  <1> DEFINE now == Writing(d, ops)
             N == RecordsOf(d, ops)
             e == Etcd!Applied(d, ops)
  <1>1. now \subseteq 1..Len(ops) /\ Len(ops) \in Nat
    BY DEF Writing
  <1>2. ASSUME NEW i \in now PROVE RecordOf(d, ops, i) \in EtcdRecord /\ RecordOf(d, ops, i).main = d.rev + 1
    <2>1. IsFiniteSet(1..Len(ops))
      BY <1>1, FS_Interval
    <2>2. IsFiniteSet({j \in now : j < i})
      <3>1. {j \in now : j < i} \subseteq 1..Len(ops)
        BY <1>1
      <3> HIDE DEF now
      <3> QED BY <2>1, <3>1, FS_Subset
    <2>3. Cardinality({j \in now : j < i}) \in Nat
      BY <2>2, FS_CardinalityType
    <2>4. ops[i] \in EtcdText \X EtcdText
      BY <1>1
    <2>5. d.rev + 1 \in Nat
      BY DEF EtcdStore
    <2> QED BY <2>3, <2>4, <2>5 DEF EtcdRecord, RecordOf
  <1>3. /\ d \in [rev : Nat, compacted : Nat, recs : SUBSET EtcdRecord]
        /\ \A r \in d.recs : r.main \in 1..d.rev
    BY DEF EtcdStore
  <1>4. N \subseteq EtcdRecord /\ \A r \in N : r.main = d.rev + 1
    <2> HIDE DEF now
    <2> QED BY <1>2 DEF RecordsOf, now
  <1>5. e = IF now = {} THEN d ELSE [d EXCEPT !.rev = @ + 1, !.recs = @ \cup N]
    BY AppliedIs
  <1> HIDE DEF now, N, e
  <1>6. CASE now = {}
    <2>1. e = d
      BY <1>5, <1>6
    <2> QED BY <2>1 DEF e
  <1>7. CASE now # {}
    <2>1. e = [d EXCEPT !.rev = @ + 1, !.recs = @ \cup N]
      BY <1>5, <1>7
    <2>2. e.rev = d.rev + 1 /\ e.compacted = d.compacted /\ e.recs = d.recs \cup N
      BY <1>3, <2>1
    <2>3. e \in [rev : Nat, compacted : Nat, recs : SUBSET EtcdRecord]
      <3> DEFINE n == d.rev + 1
                 R == d.recs \cup N
      <3>1. n \in Nat /\ R \in SUBSET EtcdRecord
        BY <1>3, <1>4
      <3>2. e = [d EXCEPT !.rev = n, !.recs = R]
        BY <2>1
      <3> HIDE DEF n, R
      <3> QED BY <1>3, <3>1, <3>2
    <2>4. \A r \in e.recs : r.main \in 1..e.rev
      BY <1>3, <1>4, <2>2
    <2> QED BY <1>4, <2>2, <2>3, <2>4 DEF EtcdStore, e, N
  <1> QED BY <1>6, <1>7

(* A single write is one record, unless it deletes what is not there.           *)
LEMMA AppliedOne ==
    ASSUME NEW d, EtcdStore(d), NEW k \in EtcdText, NEW v \in EtcdText
    PROVE  \/ Etcd!Applied(d, << <<k, v>> >>) = d /\ v = Etcd!Gone
           \/ /\ Etcd!Applied(d, << <<k, v>> >>).rev = d.rev + 1
              /\ Etcd!Applied(d, << <<k, v>> >>).recs =
                     d.recs \cup {[main |-> d.rev + 1, sub |-> 0, key |-> k, val |-> v]}
  <1> DEFINE ops == << <<k, v>> >>
             now == Writing(d, ops)
             N == RecordsOf(d, ops)
             x == [main |-> d.rev + 1, sub |-> 0, key |-> k, val |-> v]
  <1>1. DOMAIN ops = {1} /\ ops[1][1] = k /\ ops[1][2] = v
    OBVIOUS
  <1>2. Etcd!Applied(d, ops) = IF now = {} THEN d ELSE [d EXCEPT !.rev = @ + 1, !.recs = @ \cup N]
    BY AppliedIs, Zenon
  <1>3. CASE now = {}
    <2>1. v = Etcd!Gone
      BY <1>1, <1>3 DEF Writing
    <2>2. Etcd!Applied(d, ops) = d
      BY <1>2, <1>3
    <2> QED BY <2>1, <2>2
  <1>4. CASE now # {}
    <2>1. now = {1}
      BY <1>1, <1>4 DEF Writing
    <2>2. {j \in now : j < 1} = {} /\ Cardinality({}) = 0
      BY <2>1, FS_EmptySet
    <2>3. RecordOf(d, ops, 1) = x
      BY <1>1, <2>2 DEF RecordOf
    <2>4. N = {x}
      BY <2>1, <2>3 DEF RecordsOf
    <2> HIDE DEF now, N, x
    <2>5. Etcd!Applied(d, ops) = [d EXCEPT !.rev = @ + 1, !.recs = @ \cup {x}]
      BY <1>2, <1>4, <2>4
    <2> QED BY <2>5 DEF EtcdStore, x
  <1> QED BY <1>3, <1>4

(* Whatever is written to it, the history stays, ...                            *)
LEMMA HistoryGrows ==
    ASSUME NEW d, EtcdStore(d), NEW e, EtcdStore(e), NEW puts \in Seq(Nat), NEW got,
           HistoryStore(d, puts, got), e.compacted = d.compacted, e.rev = d.rev + 1,
           NEW x \in EtcdRecord, x.key = "order", x.main = d.rev + 1, e.recs = d.recs \cup {x}
    PROVE  HistoryStore(e, puts, got)
  <1>1. d.rev \in Nat /\ \A r \in d.recs : r.main \in 1..d.rev
    BY DEF EtcdStore
  <1>2. \A r \in e.recs : r.key = "order"
    BY DEF HistoryStore
  <1>3. \A r, q \in e.recs : r.main = q.main => r = q
    BY <1>1 DEF HistoryStore
  <1>4. ASSUME NEW n \in 1..3, n <= Len(puts) PROVE HistoryRecord(e, puts[n], n)
    <2>1. HistoryRecord(d, puts[n], n)
      BY <1>4 DEF HistoryStore
    <2> QED BY <1>1, <2>1 DEF HistoryRecord
  <1>5. ASSUME Len(puts) >= 2, NEW r \in e.recs, r.main = puts[1] PROVE \E q \in e.recs : q.main > r.main
    <2>1. puts[1] \in 2..d.rev
      BY <1>5 DEF HistoryStore, HistoryRecord
    <2>2. r \in d.recs
      BY <1>1, <1>5, <2>1
    <2> QED BY <1>5, <2>2 DEF HistoryStore
  <1>6. ASSUME Len(got) >= 1
        PROVE  /\ got[1] \in EtcdRecord /\ got[1].main \in 1..e.rev
               /\ \A r \in e.recs : r.main = got[1].main => r = got[1]
    BY <1>1, <1>6 DEF HistoryStore
  <1> QED BY <1>1, <1>2, <1>3, <1>4, <1>5, <1>6 DEF HistoryStore

(* ... a put adds itself to it, ...                                           *)
LEMMA HistoryPuts ==
    ASSUME NEW d, EtcdStore(d), NEW e, EtcdStore(e), NEW puts \in Seq(Nat), NEW got,
           HistoryStore(d, puts, got), e.compacted = d.compacted, e.rev = d.rev + 1,
           NEW v \in EtcdText, NEW x, x = [main |-> d.rev + 1, sub |-> 0, key |-> "order", val |-> v],
           e.recs = d.recs \cup {x}, Len(puts) < 3 => v = HistoryValue[Len(puts) + 1]
    PROVE  HistoryStore(e, Append(puts, e.rev), got)
  <1> DEFINE more == Append(puts, e.rev)
  <1>1. d.rev \in Nat /\ \A r \in d.recs : r.main \in 1..d.rev
    BY DEF EtcdStore
  <1>2. x \in EtcdRecord /\ x.key = "order" /\ x.main = d.rev + 1
    BY <1>1 DEF EtcdRecord, EtcdText
  <1>3. HistoryStore(e, puts, got)
    BY <1>2, HistoryGrows
  <1>4. /\ Len(more) = Len(puts) + 1 /\ Len(puts) \in Nat /\ more[Len(puts) + 1] = d.rev + 1
        /\ \A n \in 1..Len(puts) : more[n] = puts[n]
    BY <1>1
  <1> HIDE DEF more
  <1>5. ASSUME NEW n \in 1..3, n <= Len(more) PROVE HistoryRecord(e, more[n], n)
    <2>1. CASE n <= Len(puts)
      BY <1>3, <1>4, <2>1 DEF HistoryStore
    <2>2. CASE n > Len(puts)
      <3>1. n = Len(puts) + 1
        BY <1>4, <1>5, <2>2
      <3>2. more[n] = d.rev + 1 /\ v = HistoryValue[n] /\ d.rev >= 1
        BY <1>4, <3>1 DEF HistoryStore
      <3>3. x \in e.recs /\ more[n] \in 2..e.rev
        BY <1>1, <3>2
      <3> QED BY <3>2, <3>3 DEF HistoryRecord
    <2> QED BY <1>4, <2>1, <2>2
  <1>6. ASSUME Len(more) >= 2, NEW r \in e.recs, r.main = more[1] PROVE \E q \in e.recs : q.main > r.main
    <2>1. more[1] = puts[1] /\ Len(puts) >= 1
      BY <1>4, <1>6
    <2>2. puts[1] \in 2..d.rev
      BY <1>4, <2>1 DEF HistoryStore, HistoryRecord
    <2> QED BY <1>1, <1>2, <1>6, <2>1, <2>2
  <1> QED BY <1>3, <1>5, <1>6 DEF HistoryStore, more

(* ... and compaction removes from it what it has passed.                      *)
LEMMA HistoryCompacts ==
    ASSUME NEW d, EtcdStore(d), NEW puts \in Seq(Nat), NEW got, HistoryStore(d, puts, got),
           NEW at \in Nat, at > d.compacted
    PROVE  HistoryStore(Etcd!Compacted(d, at), puts, got)
  <1> DEFINE e == Etcd!Compacted(d, at)
  <1>1. /\ e.rev = d.rev /\ e.compacted = at
        /\ e.recs = {r \in d.recs : r.main > at \/ r = Etcd!Read(d, r.key, at)}
    BY DEF EtcdStore, Etcd!Compacted
  <1> HIDE DEF e
  <1>2. d.rev \in Nat /\ d.compacted \in Nat /\ \A r \in d.recs : r.main \in 1..d.rev
    BY DEF EtcdStore
  <1>3. \A r \in d.recs : r.key = "order"
    BY DEF HistoryStore
  <1>4. ASSUME NEW n \in 1..3, n <= Len(puts) PROVE HistoryRecord(e, puts[n], n)
    <2>1. puts[n] \in 2..e.rev
      BY <1>1, <1>4 DEF HistoryStore, HistoryRecord
    <2>2. ASSUME puts[n] >= at
          PROVE  [main |-> puts[n], sub |-> 0, key |-> "order", val |-> HistoryValue[n]] \in e.recs
      <3> DEFINE x == [main |-> puts[n], sub |-> 0, key |-> "order", val |-> HistoryValue[n]]
      <3>1. x \in d.recs
        <4>1. HistoryRecord(d, puts[n], n)
          BY <1>4 DEF HistoryStore
        <4>2. puts[n] >= d.compacted
          BY <1>2, <2>1, <2>2
        <4> QED BY <4>1, <4>2 DEF HistoryRecord
      <3>2. CASE puts[n] > at
        BY <1>1, <3>1, <3>2
      <3>3. CASE puts[n] = at
        <4>1. x.val # Etcd!Gone /\ x.key = "order" /\ x.main = at
          BY <3>3 DEF HistoryValue, Etcd!Gone
        <4>2. \A r, q \in d.recs : r.main = q.main => r = q
          BY DEF HistoryStore
        <4> HIDE DEF x
        <4>3. Etcd!Read(d, "order", at) = x
          BY <3>1, <4>1, <4>2, ReadAt
        <4>4. x \in e.recs
          BY <1>1, <3>1, <4>1, <4>3
        <4> QED BY <4>4 DEF x
      <3> QED BY <1>2, <2>1, <2>2, <3>2, <3>3
    <2> QED BY <1>1, <2>1, <2>2 DEF HistoryRecord
  <1>5. ASSUME Len(puts) >= 2, NEW r \in e.recs, r.main = puts[1] PROVE \E q \in e.recs : q.main > r.main
    <2>1. PICK q \in d.recs : q.main > r.main
      BY <1>1, <1>5 DEF HistoryStore
    <2>2. CASE r.main > at
      BY <1>1, <1>2, <2>1, <2>2
    <2>3. CASE ~(r.main > at)
      <3>1. r = Etcd!Read(d, "order", at) /\ r \in d.recs
        BY <1>1, <1>3, <2>3
      <3>2. r # Etcd!NoRecord
        BY <1>2, <3>1, NoRecordIs
      <3>3. \A y \in d.recs : y.key = "order" /\ y.main <= at => y.main <= r.main
        BY <3>1, <3>2, ReadIs
      <3>4. q.main > at
        BY <1>2, <1>3, <2>1, <3>1, <3>3
      <3> QED BY <1>1, <2>1, <3>4
    <2> QED BY <2>2, <2>3
  <1>6. ASSUME Len(got) >= 1
        PROVE  /\ got[1] \in EtcdRecord /\ got[1].main \in 1..e.rev
               /\ \A r \in e.recs : r.main = got[1].main => r = got[1]
    BY <1>1, <1>6 DEF HistoryStore
  <1>7. e.rev >= 1 /\ (\A r \in e.recs : r.key = "order") /\ \A r, q \in e.recs : r.main = q.main => r = q
    BY <1>1 DEF HistoryStore
  <1> QED BY <1>4, <1>5, <1>6, <1>7 DEF HistoryStore, e

(* What is found at the revision of a put is that put.                         *)
LEMMA HistoryFound ==
    ASSUME NEW d, EtcdStore(d), NEW puts \in Seq(Nat), NEW got, HistoryStore(d, puts, got),
           NEW n \in 1..3, n <= Len(puts), puts[n] >= d.compacted
    PROVE  /\ Etcd!Read(d, "order", puts[n]).main = puts[n]
           /\ Etcd!Read(d, "order", puts[n]).val = HistoryValue[n]
  <1> DEFINE x == [main |-> puts[n], sub |-> 0, key |-> "order", val |-> HistoryValue[n]]
  <1>1. x \in d.recs
    BY DEF HistoryStore, HistoryRecord
  <1>2. x.val # Etcd!Gone /\ x.key = "order" /\ x.main = puts[n] /\ x.val = HistoryValue[n]
    BY DEF HistoryValue, Etcd!Gone
  <1>3. \A r, q \in d.recs : r.main = q.main => r = q
    BY DEF HistoryStore
  <1> HIDE DEF x
  <1> QED BY <1>1, <1>2, <1>3, ReadAt

(* A read, or the row of an event, is added to what the script has.               *)
LEMMA HistoryGot ==
    ASSUME NEW d, NEW puts, NEW got \in Seq(EtcdGot), NEW x \in EtcdGot,
           HistoryStore(d, puts, got), Len(got) >= 1
    PROVE  /\ HistoryStore(d, puts, Append(got, x)) /\ Append(got, x) \in Seq(EtcdGot)
           /\ Len(Append(got, x)) = Len(got) + 1 /\ Append(got, x)[Len(got) + 1] = x
           /\ \A n \in 1..Len(got) : Append(got, x)[n] = got[n]
  <1> DEFINE more == Append(got, x)
  <1>1. /\ more \in Seq(EtcdGot) /\ Len(more) = Len(got) + 1 /\ more[Len(got) + 1] = x
        /\ \A n \in 1..Len(got) : more[n] = got[n]
    OBVIOUS
  <1>2. more[1] = got[1] /\ Len(more) >= 1
    BY <1>1
  <1> HIDE DEF more
  <1> QED BY <1>1, <1>2 DEF HistoryStore, more

(* The first read returns the latest record.                                   *)
LEMMA HistoryFirst ==
    ASSUME NEW d, EtcdStore(d), NEW puts, NEW got \in Seq(EtcdGot), HistoryStore(d, puts, got),
           Len(got) = 0, NEW at, Etcd!Read(d, "order", at) # Etcd!NoRecord
    PROVE  /\ HistoryStore(d, puts, Append(got, Etcd!Read(d, "order", at)))
           /\ Append(got, Etcd!Read(d, "order", at)) \in Seq(EtcdGot)
           /\ Len(Append(got, Etcd!Read(d, "order", at))) = 1
  <1> DEFINE x == Etcd!Read(d, "order", at)
             more == Append(got, x)
  <1>1. x \in d.recs /\ x \in EtcdRecord /\ x.main \in 1..d.rev
    BY ReadIs
  <1> HIDE DEF x
  <1>2. more \in Seq(EtcdGot) /\ Len(more) = 1 /\ more[1] = x
    BY <1>1 DEF EtcdGot
  <1> HIDE DEF more
  <1>3. HistoryStore(d, puts, more)
    BY <1>1, <1>2 DEF HistoryStore
  <1> QED BY <1>2, <1>3 DEF more, x

(* mustPut of mvcc (lines 35-43, 77)                                            *)
LEMMA HistoryPutStep ==
    ASSUME HistoryInv, NEW from, NEW to, NEW v \in EtcdText, v # Etcd!Gone,
           Len(v4) < 3 => v = HistoryValue[Len(v4) + 1], Etcd!Put("mvcc", from, to, "order", v)
    PROVE  /\ EtcdStore(v1') /\ v4' \in Seq(Nat) /\ Len(v4') = Len(v4) + 1 /\ Len(v4) \in Nat
           /\ HistoryStore(v1', v4', v5') /\ HistoryReads'
           /\ v3 = from /\ v3' = to /\ v5' = v5 /\ v6' = v6
  <1>1. /\ EtcdStore(v1) /\ v4 \in Seq(Nat) /\ HistoryStore(v1, v4, v5)
        /\ Len(v5) >= 2 => Len(v4) >= 3
    BY DEF HistoryInv
  <1>2. /\ v3 = from /\ v3' = to /\ v1' = Etcd!Applied(v1, << <<"order", v>> >>)
        /\ v4' = Append(v4, v1'.rev) /\ v5' = v5 /\ v6' = v6
    BY DEF Etcd!Put, Etcd!Goes
  <1>3. "order" \in EtcdText
    BY DEF EtcdText
  <1>4. EtcdStore(v1') /\ v1'.compacted = v1.compacted
    <2>1. << <<"order", v>> >> \in Seq(EtcdText \X EtcdText)
      BY <1>3
    <2> QED BY <1>1, <1>2, <2>1, AppliedStore
  <1>5. /\ v1'.rev = v1.rev + 1
        /\ v1'.recs = v1.recs \cup {[main |-> v1.rev + 1, sub |-> 0, key |-> "order", val |-> v]}
    BY <1>1, <1>2, <1>3, AppliedOne
  <1>6. HistoryStore(v1', v4', v5)
    BY <1>1, <1>2, <1>4, <1>5, HistoryPuts
  <1>7. /\ v4' \in Seq(Nat) /\ Len(v4') = Len(v4) + 1 /\ Len(v4) \in Nat
        /\ \A n \in 1..Len(v4) : v4'[n] = v4[n]
    <2>1. v1'.rev \in Nat
      BY <1>4 DEF EtcdStore
    <2> QED BY <1>1, <1>2, <2>1
  <1>8. HistoryReads'
    <2>1. HistoryReads
      BY DEF HistoryInv
    <2>2. \A n \in 2..4 : n <= Len(v5) => v4'[n - 1] = v4[n - 1]
      <3>1. v5 \in Seq(EtcdGot)
        BY DEF HistoryInv
      <3>2. Len(v5) \in Nat
        BY <3>1
      <3>3. ASSUME NEW n \in 2..4, n <= Len(v5) PROVE n - 1 \in 1..Len(v4)
        BY <1>1, <1>7, <3>2, <3>3
      <3> QED BY <1>7, <3>3
    <2> QED BY <1>2, <2>1, <2>2 DEF HistoryReads
  <1> QED BY <1>2, <1>4, <1>6, <1>7, <1>8

(* Another write of the key, by a swap, a deletion or another client            *)
LEMMA HistoryWritten ==
    ASSUME NEW d, EtcdStore(d), NEW puts \in Seq(Nat), NEW got, HistoryStore(d, puts, got),
           NEW v \in EtcdText
    PROVE  /\ EtcdStore(Etcd!Applied(d, << <<"order", v>> >>))
           /\ HistoryStore(Etcd!Applied(d, << <<"order", v>> >>), puts, got)
  <1> DEFINE e == Etcd!Applied(d, << <<"order", v>> >>)
             x == [main |-> d.rev + 1, sub |-> 0, key |-> "order", val |-> v]
  <1>1. "order" \in EtcdText
    BY DEF EtcdText
  <1>2. << <<"order", v>> >> \in Seq(EtcdText \X EtcdText)
    BY <1>1
  <1>3. EtcdStore(e) /\ e.compacted = d.compacted
    BY <1>2, AppliedStore
  <1>4. e = d \/ (e.rev = d.rev + 1 /\ e.recs = d.recs \cup {x})
    BY <1>1, AppliedOne
  <1>5. x \in EtcdRecord /\ x.key = "order" /\ x.main = d.rev + 1
    BY <1>1 DEF EtcdStore, EtcdRecord
  <1> HIDE DEF e, x
  <1>6. CASE e = d
    BY <1>3, <1>6 DEF e
  <1>7. CASE e.rev = d.rev + 1 /\ e.recs = d.recs \cup {x}
    <2>1. HistoryStore(e, puts, got)
      BY <1>3, <1>5, <1>7, HistoryGrows
    <2> QED BY <1>3, <2>1 DEF e
  <1> QED BY <1>4, <1>6, <1>7

(* What is read after the latest record is what the history says.               *)
LEMMA HistoryGotStep ==
    ASSUME HistoryInv, NEW x \in EtcdGot, Len(v5) >= 1, v5' = Append(v5, x), v1' = v1, v4' = v4,
           Len(v5) <= 3 => x.main = v4[Len(v5)] /\ x.val = HistoryValue[Len(v5)]
    PROVE  /\ HistoryStore(v1', v4', v5') /\ HistoryReads'
           /\ v5' \in Seq(EtcdGot) /\ Len(v5') = Len(v5) + 1 /\ Len(v5) \in Nat
  <1>1. v5 \in Seq(EtcdGot) /\ HistoryStore(v1, v4, v5)
    BY DEF HistoryInv
  <1>2. /\ HistoryStore(v1, v4, v5') /\ v5' \in Seq(EtcdGot)
        /\ Len(v5') = Len(v5) + 1 /\ v5'[Len(v5) + 1] = x
        /\ \A n \in 1..Len(v5) : v5'[n] = v5[n]
    BY <1>1, HistoryGot
  <1>3. Len(v5) \in Nat
    BY <1>1
  <1>4. HistoryReads'
    <2>1. HistoryReads
      BY DEF HistoryInv
    <2>2. ASSUME NEW n \in 2..4, n <= Len(v5')
          PROVE  v5'[n].main = v4[n - 1] /\ v5'[n].val = HistoryValue[n - 1]
      <3>1. CASE n <= Len(v5)
        BY <1>2, <1>3, <2>1, <3>1 DEF HistoryReads
      <3>2. CASE n > Len(v5)
        <4>1. n = Len(v5) + 1 /\ Len(v5) = n - 1
          BY <1>2, <1>3, <2>2, <3>2
        <4> QED BY <1>2, <4>1
      <3>3. n <= Len(v5) \/ n > Len(v5)
        BY <1>3
      <3> QED BY <3>1, <3>2, <3>3, Zenon
    <2> QED BY <2>2 DEF HistoryReads
  <1> QED BY <1>2, <1>3, <1>4

(* mustGetSingleAtRev of mvcc (lines 54-56)                                    *)
LEMMA HistoryReadStep ==
    ASSUME HistoryInv, NEW from, NEW to, NEW n \in 1..3, Len(v5) = n, Len(v4) >= 3,
           Etcd!MustGet("mvcc", from, to, "order", v4[n])
    PROVE  /\ v3 = from /\ v3' = to /\ v1' = v1 /\ v4' = v4 /\ v6' = v6
           /\ HistoryStore(v1', v4', v5') /\ HistoryReads' /\ v5' \in Seq(EtcdGot) /\ Len(v5') = n + 1
  <1> DEFINE x == Etcd!Read(v1, "order", v4[n])
  <1>1. /\ v3 = from /\ v3' = to /\ v1' = v1 /\ v4' = v4 /\ v6' = v6
        /\ v5' = Append(v5, x) /\ v4[n] >= v1.compacted
    BY DEF Etcd!MustGet, Etcd!Goes
  <1>2. EtcdStore(v1) /\ v4 \in Seq(Nat) /\ HistoryStore(v1, v4, v5)
    BY DEF HistoryInv
  <1>3. x.main = v4[n] /\ x.val = HistoryValue[n]
    <2>1. n <= Len(v4)
      BY <1>2
    <2> QED BY <1>1, <1>2, <2>1, HistoryFound
  <1>4. x \in EtcdGot
    BY <1>2, ReadType DEF EtcdGot
  <1> HIDE DEF x
  <1> QED BY <1>1, <1>3, <1>4, HistoryGotStep

(* Txn If ModRevision Then Put (lines 63-67, 86-88)                             *)
LEMMA HistorySwapStep ==
    ASSUME HistoryInv, NEW from, NEW to, NEW mod, NEW v \in EtcdText,
           Etcd!Swap("mvcc", from, to, "order", mod, v)
    PROVE  /\ v3 = from /\ v3' = to /\ v4' = v4 /\ v5' = v5 /\ v6' \in Seq(BOOLEAN)
           /\ EtcdStore(v1') /\ HistoryStore(v1', v4', v5')
  <1>1. /\ v3 = from /\ v3' = to /\ v4' = v4 /\ v5' = v5
        /\ v6' = Append(v6, Etcd!Read(v1, "order", v1.rev).main = mod)
        /\ v1' = v1 \/ v1' = Etcd!Applied(v1, << <<"order", v>> >>)
    <2>1. /\ v3 = from /\ v3' = to /\ v4' = v4 /\ v5' = v5
          /\ v6' = Append(v6, Etcd!Read(v1, "order", v1.rev).main = mod)
          /\ v1' = IF Etcd!Last(v6') THEN Etcd!Applied(v1, << <<"order", v>> >>) ELSE v1
      BY DEF Etcd!Swap, Etcd!Goes
    <2> QED BY <2>1
  <1>2. EtcdStore(v1) /\ v4 \in Seq(Nat) /\ HistoryStore(v1, v4, v5) /\ v6 \in Seq(BOOLEAN)
    BY DEF HistoryInv
  <1>3. v6' \in Seq(BOOLEAN)
    <2> DEFINE b == (Etcd!Read(v1, "order", v1.rev).main = mod)
    <2>1. b \in BOOLEAN
      OBVIOUS
    <2> HIDE DEF b
    <2>2. Append(v6, b) \in Seq(BOOLEAN)
      BY <1>2, <2>1
    <2> QED BY <1>1, <2>2 DEF b
  <1>4. EtcdStore(v1') /\ HistoryStore(v1', v4, v5)
    BY <1>1, <1>2, HistoryWritten
  <1> QED BY <1>1, <1>3, <1>4

(* Every step of mvcc and of the other clients.                                   *)
LEMMA HistoryStep ==
    ASSUME HistoryInv, v2 = "mvcc", Etcd!Next
    PROVE  HistoryInv'
  <1>1. /\ EtcdStore(v1) /\ v4 \in Seq(Nat) /\ v5 \in Seq(EtcdGot) /\ v6 \in Seq(BOOLEAN)
        /\ Len(v5) >= 2 => Len(v4) >= 3
        /\ HistoryStore(v1, v4, v5) /\ HistoryPhases /\ HistoryReads
        /\ Len(v4) \in Nat /\ Len(v5) \in Nat
    BY DEF HistoryInv
  <1>2. ASSUME Etcd!Delete("mvcc", "start", "put1", <<"order">>) PROVE HistoryInv'
    <2>1. /\ v3 = "start" /\ v3' = "put1" /\ v4' = v4 /\ v5' = v5 /\ v6' = v6
          /\ v1' = Etcd!Applied(v1, [i \in DOMAIN <<"order">> |-> << <<"order">>[i], Etcd!Gone>>])
      BY <1>2 DEF Etcd!Delete, Etcd!Goes
    <2>2. [i \in DOMAIN <<"order">> |-> << <<"order">>[i], Etcd!Gone>>] = << <<"order", Etcd!Gone>> >>
      OBVIOUS
    <2>3. Etcd!Gone \in EtcdText
      BY DEF EtcdText
    <2>4. EtcdStore(v1') /\ HistoryStore(v1', v4, v5)
      BY <1>1, <2>1, <2>2, <2>3, HistoryWritten
    <2>5. HistoryReads'
      BY <1>1, <2>1 DEF HistoryReads
    <2> QED BY <1>1, <2>1, <2>4, <2>5 DEF HistoryInv, HistoryPhases, AfterPuts, AfterReads, AfterSwap
  <1>3. ASSUME Etcd!Put("mvcc", "put1", "put2", "order", "v1") PROVE HistoryInv'
    <2>1. Len(v4) < 3 => "v1" = HistoryValue[Len(v4) + 1]
      <3>1. v3 = "put1"
        BY <1>3 DEF Etcd!Put, Etcd!Goes
      <3>2. Len(v4) = 0
        BY <1>1, <3>1 DEF HistoryPhases
      <3> QED BY <3>2 DEF HistoryValue
    <2>2. "v1" \in EtcdText /\ "v1" # Etcd!Gone
      BY DEF EtcdText, Etcd!Gone
    <2>3. /\ EtcdStore(v1') /\ v4' \in Seq(Nat) /\ Len(v4') = Len(v4) + 1
          /\ HistoryStore(v1', v4', v5') /\ HistoryReads'
          /\ v3 = "put1" /\ v3' = "put2" /\ v5' = v5 /\ v6' = v6
      BY <1>3, <2>1, <2>2, HistoryPutStep
    <2>4. Len(v4) = 0 /\ Len(v5) = 0 /\ v6 = <<>>
      BY <1>1, <2>3 DEF HistoryPhases, AfterSwap
    <2>5. HistoryPhases'
      BY <2>3, <2>4 DEF HistoryPhases, AfterPuts, AfterReads, AfterSwap
    <2> QED BY <1>1, <2>3, <2>4, <2>5 DEF HistoryInv
  <1>4. ASSUME Etcd!Put("mvcc", "put2", "put3", "order", "v2") PROVE HistoryInv'
    <2>1. Len(v4) < 3 => "v2" = HistoryValue[Len(v4) + 1]
      <3>1. v3 = "put2"
        BY <1>4 DEF Etcd!Put, Etcd!Goes
      <3>2. Len(v4) = 1
        BY <1>1, <3>1 DEF HistoryPhases
      <3> QED BY <3>2 DEF HistoryValue
    <2>2. "v2" \in EtcdText /\ "v2" # Etcd!Gone
      BY DEF EtcdText, Etcd!Gone
    <2>3. /\ EtcdStore(v1') /\ v4' \in Seq(Nat) /\ Len(v4') = Len(v4) + 1
          /\ HistoryStore(v1', v4', v5') /\ HistoryReads'
          /\ v3 = "put2" /\ v3' = "put3" /\ v5' = v5 /\ v6' = v6
      BY <1>4, <2>1, <2>2, HistoryPutStep
    <2>4. Len(v4) = 1 /\ Len(v5) = 0 /\ v6 = <<>>
      BY <1>1, <2>3 DEF HistoryPhases, AfterSwap
    <2>5. HistoryPhases'
      BY <2>3, <2>4 DEF HistoryPhases, AfterPuts, AfterReads, AfterSwap
    <2> QED BY <1>1, <2>3, <2>4, <2>5 DEF HistoryInv
  <1>5. ASSUME Etcd!Put("mvcc", "put3", "more", "order", "v3") PROVE HistoryInv'
    <2>1. Len(v4) < 3 => "v3" = HistoryValue[Len(v4) + 1]
      <3>1. v3 = "put3"
        BY <1>5 DEF Etcd!Put, Etcd!Goes
      <3>2. Len(v4) = 2
        BY <1>1, <3>1 DEF HistoryPhases
      <3> QED BY <3>2 DEF HistoryValue
    <2>2. "v3" \in EtcdText /\ "v3" # Etcd!Gone
      BY DEF EtcdText, Etcd!Gone
    <2>3. /\ EtcdStore(v1') /\ v4' \in Seq(Nat) /\ Len(v4') = Len(v4) + 1
          /\ HistoryStore(v1', v4', v5') /\ HistoryReads'
          /\ v3 = "put3" /\ v3' = "more" /\ v5' = v5 /\ v6' = v6
      BY <1>5, <2>1, <2>2, HistoryPutStep
    <2>4. Len(v4) = 2 /\ Len(v5) = 0 /\ v6 = <<>>
      BY <1>1, <2>3 DEF HistoryPhases, AfterSwap
    <2>5. HistoryPhases'
      BY <2>3, <2>4 DEF HistoryPhases, AfterPuts, AfterReads, AfterSwap
    <2> QED BY <1>1, <2>3, <2>4, <2>5 DEF HistoryInv
  <1>6. ASSUME Etcd!Put("mvcc", "more", "more", "order", "vi") PROVE HistoryInv'
    <2>1. Len(v4) < 3 => "vi" = HistoryValue[Len(v4) + 1]
      <3>1. v3 = "more"
        BY <1>6 DEF Etcd!Put, Etcd!Goes
      <3> QED BY <1>1, <3>1 DEF HistoryPhases, AfterPuts, HistoryValue
    <2>2. "vi" \in EtcdText /\ "vi" # Etcd!Gone
      BY DEF EtcdText, Etcd!Gone
    <2>3. /\ EtcdStore(v1') /\ v4' \in Seq(Nat) /\ Len(v4') = Len(v4) + 1
          /\ HistoryStore(v1', v4', v5') /\ HistoryReads'
          /\ v3 = "more" /\ v3' = "more" /\ v5' = v5 /\ v6' = v6
      BY <1>6, <2>1, <2>2, HistoryPutStep
    <2> QED BY <1>1, <2>3 DEF HistoryInv, HistoryPhases, AfterPuts, AfterReads, AfterSwap
  <1>7. ASSUME Etcd!MustGet("mvcc", "more", "h1", "order", v1.rev) PROVE HistoryInv'
    <2>1. /\ v3 = "more" /\ v3' = "h1" /\ v1' = v1 /\ v4' = v4 /\ v6' = v6
          /\ v5' = Append(v5, Etcd!Read(v1, "order", v1.rev))
          /\ Etcd!Read(v1, "order", v1.rev) # Etcd!NoRecord
      BY <1>7 DEF Etcd!MustGet, Etcd!Goes
    <2>2. Len(v5) = 0
      BY <1>1, <2>1 DEF HistoryPhases
    <2>3. HistoryStore(v1, v4, v5') /\ v5' \in Seq(EtcdGot) /\ Len(v5') = 1
      BY <1>1, <2>1, <2>2, HistoryFirst
    <2>4. HistoryReads'
      BY <2>3 DEF HistoryReads
    <2> QED BY <1>1, <2>1, <2>3, <2>4 DEF HistoryInv, HistoryPhases, AfterPuts, AfterReads, AfterSwap
  <1>8. ASSUME Etcd!MustGet("mvcc", "h1", "h2", "order", v4[1]) PROVE HistoryInv'
    <2>1. v3 = "h1"
      BY <1>8 DEF Etcd!MustGet, Etcd!Goes
    <2>2. Len(v5) = 1 /\ Len(v4) >= 3
      BY <1>1, <2>1 DEF HistoryPhases, AfterPuts
    <2>3. /\ v3' = "h2" /\ v1' = v1 /\ v4' = v4 /\ v6' = v6
          /\ HistoryStore(v1', v4', v5') /\ HistoryReads' /\ v5' \in Seq(EtcdGot) /\ Len(v5') = 1 + 1
      BY <1>8, <2>2, HistoryReadStep
    <2> QED BY <1>1, <2>1, <2>2, <2>3 DEF HistoryInv, HistoryPhases, AfterPuts, AfterReads, AfterSwap
  <1>9. ASSUME Etcd!MustGet("mvcc", "h2", "h3", "order", v4[2]) PROVE HistoryInv'
    <2>1. v3 = "h2"
      BY <1>9 DEF Etcd!MustGet, Etcd!Goes
    <2>2. Len(v5) = 2 /\ Len(v4) >= 3
      BY <1>1, <2>1 DEF HistoryPhases, AfterPuts
    <2>3. /\ v3' = "h3" /\ v1' = v1 /\ v4' = v4 /\ v6' = v6
          /\ HistoryStore(v1', v4', v5') /\ HistoryReads' /\ v5' \in Seq(EtcdGot) /\ Len(v5') = 2 + 1
      BY <1>9, <2>2, HistoryReadStep
    <2> QED BY <1>1, <2>1, <2>2, <2>3 DEF HistoryInv, HistoryPhases, AfterPuts, AfterReads, AfterSwap
  <1>10. ASSUME Etcd!MustGet("mvcc", "h3", "cas", "order", v4[3]) PROVE HistoryInv'
    <2>1. v3 = "h3"
      BY <1>10 DEF Etcd!MustGet, Etcd!Goes
    <2>2. Len(v5) = 3 /\ Len(v4) >= 3
      BY <1>1, <2>1 DEF HistoryPhases, AfterPuts
    <2>3. /\ v3' = "cas" /\ v1' = v1 /\ v4' = v4 /\ v6' = v6
          /\ HistoryStore(v1', v4', v5') /\ HistoryReads' /\ v5' \in Seq(EtcdGot) /\ Len(v5') = 3 + 1
      BY <1>10, <2>2, HistoryReadStep
    <2> QED BY <1>1, <2>1, <2>2, <2>3 DEF HistoryInv, HistoryPhases, AfterPuts, AfterReads, AfterSwap
  <1>11. ASSUME Etcd!Swap("mvcc", "cas", "after", "order", v5[1].main, "v4") PROVE HistoryInv'
    <2>1. "v4" \in EtcdText
      BY DEF EtcdText
    <2>2. /\ v3 = "cas" /\ v3' = "after" /\ v4' = v4 /\ v5' = v5 /\ v6' \in Seq(BOOLEAN)
          /\ EtcdStore(v1') /\ HistoryStore(v1', v4', v5')
      BY <1>11, <2>1, HistorySwapStep
    <2>3. HistoryReads'
      BY <1>1, <2>2 DEF HistoryReads
    <2> QED BY <1>1, <2>2, <2>3 DEF HistoryInv, HistoryPhases, AfterPuts, AfterReads, AfterSwap
  <1>12. ASSUME Etcd!Swap("mvcc", "stale", "watch", "order", v4[1], "should-not-write") PROVE HistoryInv'
    <2>1. "should-not-write" \in EtcdText
      BY DEF EtcdText
    <2>2. /\ v3 = "stale" /\ v3' = "watch" /\ v4' = v4 /\ v5' = v5 /\ v6' \in Seq(BOOLEAN)
          /\ EtcdStore(v1') /\ HistoryStore(v1', v4', v5')
      BY <1>12, <2>1, HistorySwapStep
    <2>3. HistoryReads'
      BY <1>1, <2>2 DEF HistoryReads
    <2> QED BY <1>1, <2>2, <2>3 DEF HistoryInv, HistoryPhases, AfterPuts, AfterReads, AfterSwap
  <1>13. ASSUME Etcd!MustGet("mvcc", "after", "stale", "order", v1.rev) PROVE HistoryInv'
    <2>1. /\ v3 = "after" /\ v3' = "stale" /\ v1' = v1 /\ v4' = v4 /\ v6' = v6
          /\ v5' = Append(v5, Etcd!Read(v1, "order", v1.rev))
      BY <1>13 DEF Etcd!MustGet, Etcd!Goes
    <2>2. Len(v5) >= 4
      BY <1>1, <2>1 DEF HistoryPhases, AfterReads
    <2>3. Etcd!Read(v1, "order", v1.rev) \in EtcdGot
      BY <1>1, ReadType DEF EtcdGot
    <2>4. /\ HistoryStore(v1', v4', v5') /\ HistoryReads'
          /\ v5' \in Seq(EtcdGot) /\ Len(v5') = Len(v5) + 1
      BY <1>1, <2>1, <2>2, <2>3, HistoryGotStep
    <2> QED BY <1>1, <2>1, <2>2, <2>4 DEF HistoryInv, HistoryPhases, AfterPuts, AfterReads, AfterSwap
  <1>14. ASSUME Etcd!Goes("mvcc", "after", "stale"), UNCHANGED <<v2, v1, v4, v5, v6, v7>> PROVE HistoryInv'
    <2>1. v3 = "after" /\ v3' = "stale" /\ v1' = v1 /\ v4' = v4 /\ v5' = v5 /\ v6' = v6
      BY <1>14 DEF Etcd!Goes
    <2> QED BY <1>1, <2>1 DEF HistoryInv, HistoryPhases, HistoryReads, AfterPuts, AfterReads, AfterSwap
  <1>15. ASSUME Etcd!Put("mvcc", "watch", "event", "order", "v5") PROVE HistoryInv'
    <2>1. Len(v4) < 3 => "v5" = HistoryValue[Len(v4) + 1]
      <3>1. v3 = "watch"
        BY <1>15 DEF Etcd!Put, Etcd!Goes
      <3> QED BY <1>1, <3>1 DEF HistoryPhases, AfterPuts, HistoryValue
    <2>2. "v5" \in EtcdText /\ "v5" # Etcd!Gone
      BY DEF EtcdText, Etcd!Gone
    <2>3. /\ EtcdStore(v1') /\ v4' \in Seq(Nat) /\ Len(v4') = Len(v4) + 1
          /\ HistoryStore(v1', v4', v5') /\ HistoryReads'
          /\ v3 = "watch" /\ v3' = "event" /\ v5' = v5 /\ v6' = v6
      BY <1>15, <2>1, <2>2, HistoryPutStep
    <2> QED BY <1>1, <2>3 DEF HistoryInv, HistoryPhases, AfterPuts, AfterReads, AfterSwap
  <1>16. ASSUME Etcd!WatchEvent PROVE HistoryInv'
    <2>1. PICK last : v5' = Append(v5, {r \in v1.recs : v4[2] < r.main /\ r.main <= last})
      BY <1>16 DEF Etcd!WatchEvent
    <2> DEFINE x == {r \in v1.recs : v4[2] < r.main /\ r.main <= last}
    <2>2. v3 = "event" /\ v3' = "compact" /\ v1' = v1 /\ v4' = v4 /\ v6' = v6
      BY <1>16 DEF Etcd!WatchEvent, Etcd!Goes
    <2>3. x \in EtcdGot
      BY <1>1 DEF EtcdGot, EtcdStore
    <2>4. Len(v5) >= 4
      BY <1>1, <2>2 DEF HistoryPhases, AfterReads
    <2> HIDE DEF x
    <2>5. v5' = Append(v5, x)
      BY <2>1 DEF x
    <2>6. /\ HistoryStore(v1', v4', v5') /\ HistoryReads'
          /\ v5' \in Seq(EtcdGot) /\ Len(v5') = Len(v5) + 1
      BY <1>1, <2>2, <2>3, <2>4, <2>5, HistoryGotStep
    <2> QED BY <1>1, <2>2, <2>4, <2>6 DEF HistoryInv, HistoryPhases, AfterPuts, AfterReads, AfterSwap
  <1>17. ASSUME Etcd!CompactOld PROVE HistoryInv'
    <2>1. /\ v3 = "compact" /\ v3' = "old" /\ v4' = v4 /\ v5' = v5 /\ v6' = v6
          /\ v4[2] > v1.compacted /\ v1' = Etcd!Compacted(v1, v4[2])
      BY <1>17 DEF Etcd!CompactOld, Etcd!Goes
    <2>2. Len(v4) >= 3
      BY <1>1, <2>1 DEF HistoryPhases, AfterPuts
    <2>3. v4[2] \in Nat
      BY <1>1, <2>2
    <2>4. EtcdStore(v1') /\ HistoryStore(v1', v4, v5)
      BY <1>1, <2>1, <2>3, CompactedStore, HistoryCompacts
    <2> QED BY <1>1, <2>1, <2>4 DEF HistoryInv, HistoryPhases, HistoryReads, AfterPuts, AfterReads, AfterSwap
  <1>18. ASSUME Etcd!ReadOld PROVE HistoryInv'
    <2>1. /\ v3 = "old" /\ v3' = "done" /\ v1' = v1 /\ v4' = v4 /\ v6' = v6
          /\ v5' = v5 \/ v5' = Append(v5, Etcd!Read(v1, "order", v4[1]))
      BY <1>18 DEF Etcd!ReadOld, Etcd!Goes
    <2>2. Len(v5) >= 4
      BY <1>1, <2>1 DEF HistoryPhases, AfterReads
    <2>3. Etcd!Read(v1, "order", v4[1]) \in EtcdGot
      BY <1>1, ReadType DEF EtcdGot
    <2>4. /\ HistoryStore(v1', v4', v5') /\ HistoryReads'
          /\ v5' \in Seq(EtcdGot) /\ Len(v5') >= 4 /\ Len(v5') \in Nat
      <3>1. CASE v5' = v5
        BY <1>1, <2>1, <2>2, <3>1 DEF HistoryReads
      <3>2. CASE v5' = Append(v5, Etcd!Read(v1, "order", v4[1]))
        BY <1>1, <2>1, <2>2, <2>3, <3>2, HistoryGotStep
      <3> QED BY <2>1, <3>1, <3>2
    <2> QED BY <1>1, <2>1, <2>4 DEF HistoryInv, HistoryPhases, AfterPuts, AfterReads, AfterSwap
  <1>19. ASSUME Etcd!Fails PROVE HistoryInv'
    <2>1. v3' = "fatal" /\ v1' = v1 /\ v4' = v4 /\ v5' = v5 /\ v6' = v6
      BY <1>19 DEF Etcd!Fails, Etcd!Fatal, Etcd!Goes
    <2> QED BY <1>1, <2>1 DEF HistoryInv, HistoryPhases, HistoryReads, AfterPuts, AfterReads, AfterSwap
  <1>20. ASSUME Etcd!Foreign PROVE HistoryInv'
    <2>1. /\ v3' = v3 /\ v4' = v4 /\ v5' = v5 /\ v6' = v6
          /\ \/ \E i \in DOMAIN Etcd!KeysOf(v2), v \in {"foreign", Etcd!Gone} :
                   v1' = Etcd!Applied(v1, << <<Etcd!KeysOf(v2)[i], v>> >>)
             \/ \E at \in v1.compacted + 1..v1.rev : v1' = Etcd!Compacted(v1, at)
      BY <1>20 DEF Etcd!Foreign
    <2>2. Etcd!KeysOf(v2) = <<"order">>
      BY v2 = "mvcc" DEF Etcd!KeysOf
    <2>3. EtcdStore(v1') /\ HistoryStore(v1', v4, v5)
      <3>1. ASSUME NEW i \in DOMAIN Etcd!KeysOf(v2), NEW v \in {"foreign", Etcd!Gone},
                   v1' = Etcd!Applied(v1, << <<Etcd!KeysOf(v2)[i], v>> >>)
            PROVE  EtcdStore(v1') /\ HistoryStore(v1', v4, v5)
        <4>1. Etcd!KeysOf(v2)[i] = "order"
          BY <2>2
        <4>2. v \in EtcdText
          BY DEF EtcdText
        <4> QED BY <1>1, <3>1, <4>1, <4>2, HistoryWritten
      <3>2. ASSUME NEW at \in v1.compacted + 1..v1.rev, v1' = Etcd!Compacted(v1, at)
            PROVE  EtcdStore(v1') /\ HistoryStore(v1', v4, v5)
        <4>1. at \in Nat /\ at > v1.compacted
          BY <1>1 DEF EtcdStore
        <4> QED BY <1>1, <3>2, <4>1, CompactedStore, HistoryCompacts
      <3> QED BY <2>1, <3>1, <3>2
    <2> QED BY <1>1, <2>1, <2>3 DEF HistoryInv, HistoryPhases, HistoryReads, AfterPuts, AfterReads, AfterSwap
  <1>21. ~Etcd!MainSub /\ ~Etcd!Basic
    BY v2 = "mvcc" DEF Etcd!MainSub, Etcd!Basic, Etcd!Delete, Etcd!Put, Etcd!Txn, Etcd!ReadBackend, Etcd!Get, Etcd!Goes
  <1>22. ASSUME Etcd!History PROVE HistoryInv'
    BY <1>2, <1>3, <1>4, <1>5, <1>6, <1>7, <1>8, <1>9, <1>10, <1>11, <1>12, <1>13, <1>14, <1>15, <1>22
       DEF Etcd!History
  <1> QED BY <1>16, <1>17, <1>18, <1>19, <1>20, <1>21, <1>22 DEF Etcd!Next

(* The old revisions read are the ones of the puts (lines 54-56).                *)
LEMMA HistoryReadsAt == ASSUME HistoryInv PROVE Etcd!ReadsAtRevision
  <1>1. HistoryReads
    BY DEF HistoryInv
  <1> QED BY <1>1 DEF HistoryReads, HistoryValue, Etcd!ReadsAtRevision

(* The first swap finds what was read before it, and the other a later record     *)
(* (lines 63-88).                                                             *)
LEMMA HistorySwaps ==
    ASSUME HistoryInv, v2 = "mvcc", Etcd!Next
    PROVE  Etcd!SwapOverwrites
  <1> DEFINE now == Etcd!Read(v1, "order", v1.rev)
  <1>1. /\ EtcdStore(v1) /\ v4 \in Seq(Nat) /\ v5 \in Seq(EtcdGot) /\ v6 \in Seq(BOOLEAN)
        /\ HistoryStore(v1, v4, v5) /\ HistoryPhases
    BY DEF HistoryInv
  <1>2. SUFFICES ASSUME Len(v6') > Len(v6), Etcd!Last(v6')
                 PROVE  Len(v6') = 1 /\ Etcd!Latest(v1, "order", v1.rev) = v5[1]
    BY DEF Etcd!SwapOverwrites
  <1>3. v6' # v6
    BY <1>1, <1>2
  <1>4. \/ Etcd!Swap("mvcc", "cas", "after", "order", v5[1].main, "v4")
        \/ Etcd!Swap("mvcc", "stale", "watch", "order", v4[1], "should-not-write")
    BY <1>3, v2 = "mvcc"
       DEF Etcd!Next, Etcd!History, Etcd!WatchEvent, Etcd!CompactOld, Etcd!ReadOld, Etcd!MainSub, Etcd!Basic,
           Etcd!Fails, Etcd!Foreign, Etcd!Fatal, Etcd!Delete, Etcd!Put, Etcd!MustGet, Etcd!Txn,
           Etcd!ReadBackend, Etcd!Get, Etcd!Goes
  <1>5. ASSUME NEW r, r = now, r.main >= 1
        PROVE  /\ r = Etcd!Latest(v1, "order", v1.rev) /\ r \in v1.recs
               /\ \A q \in v1.recs : q.main <= r.main
    <2>1. r # Etcd!NoRecord
      BY <1>5, NoRecordIs
    <2>2. \A q \in v1.recs : q.key = "order" /\ q.main <= v1.rev
      BY <1>1 DEF EtcdStore, HistoryStore
    <2> QED BY <1>1, <1>5, <2>1, <2>2, ReadIs
  <1>6. CASE Etcd!Swap("mvcc", "cas", "after", "order", v5[1].main, "v4")
    <2>1. v3 = "cas" /\ v6' = Append(v6, now.main = v5[1].main)
      BY <1>6 DEF Etcd!Swap, Etcd!Goes
    <2>2. v6 = <<>> /\ Len(v5) >= 1
      BY <1>1, <2>1 DEF HistoryPhases, AfterSwap, AfterReads
    <2>3. Len(v6') = 1 /\ now.main = v5[1].main
      <3> DEFINE b == (now.main = v5[1].main)
      <3>1. b \in BOOLEAN
        OBVIOUS
      <3> HIDE DEF b
      <3>2. Etcd!Last(Append(<<>>, b)) = b /\ Len(Append(<<>>, b)) = 1
        BY <3>1 DEF Etcd!Last
      <3>3. b /\ Len(v6') = 1
        BY <1>2, <2>1, <2>2, <3>2 DEF b
      <3> QED BY <3>3 DEF b
    <2>4. v5[1].main \in 1..v1.rev /\ \A r \in v1.recs : r.main = v5[1].main => r = v5[1]
      BY <1>1, <2>2 DEF HistoryStore
    <2>5. now.main >= 1
      BY <1>1, <2>3, <2>4 DEF EtcdStore
    <2> HIDE DEF now
    <2> QED BY <1>5, <2>3, <2>4, <2>5
  <1>7. CASE Etcd!Swap("mvcc", "stale", "watch", "order", v4[1], "should-not-write")
    <2>1. v3 = "stale" /\ v6' = Append(v6, now.main = v4[1])
      BY <1>7 DEF Etcd!Swap, Etcd!Goes
    <2>2. Len(v4) >= 3
      BY <1>1, <2>1 DEF HistoryPhases, AfterPuts
    <2>3. now.main = v4[1]
      <3> DEFINE b == (now.main = v4[1])
      <3>1. b \in BOOLEAN
        OBVIOUS
      <3> HIDE DEF b
      <3>2. Etcd!Last(Append(v6, b)) = b
        BY <1>1, <3>1 DEF Etcd!Last
      <3>3. b
        BY <1>2, <2>1, <3>2 DEF b
      <3> QED BY <3>3 DEF b
    <2>4. v4[1] \in 2..v1.rev /\ \A r \in v1.recs : r.main = v4[1] => \E q \in v1.recs : q.main > r.main
      BY <1>1, <2>2 DEF HistoryStore, HistoryRecord
    <2>5. v1.rev \in Nat /\ \A r \in v1.recs : r.main \in Nat
      BY <1>1 DEF EtcdStore
    <2>6. now.main >= 1
      BY <2>3, <2>4, <2>5
    <2>7. now \in v1.recs /\ \A q \in v1.recs : q.main <= now.main
      BY <1>5, <2>6
    <2> HIDE DEF now
    <2> QED BY <2>3, <2>4, <2>5, <2>7
  <1> QED BY <1>4, <1>6, <1>7

(* The transaction writes its four records, in the order of its requests.       *)
LEMMA TxnApplied ==
    ASSUME NEW d, EtcdStore(d), ~Etcd!Exists(d, "guard"), Etcd!Exists(d, "to-delete")
    PROVE  /\ EtcdStore(Etcd!Applied(d, TxnWrites)) /\ Etcd!Applied(d, TxnWrites).rev = d.rev + 1
           /\ TxnStore(Etcd!Applied(d, TxnWrites), d.rev + 1)
  <1> DEFINE e == Etcd!Applied(d, TxnWrites)
             now == Writing(d, TxnWrites)
             N == RecordsOf(d, TxnWrites)
  <1>1. TxnWrites \in Seq(EtcdText \X EtcdText) /\ DOMAIN TxnWrites = 1..4
    <2>1. /\ "guard" \in EtcdText /\ "v2" \in EtcdText /\ "a" \in EtcdText /\ "A1" \in EtcdText
          /\ "b" \in EtcdText /\ "B1" \in EtcdText /\ "to-delete" \in EtcdText /\ Etcd!Gone \in EtcdText
      BY DEF EtcdText
    <2> QED BY <2>1 DEF TxnWrites
  <1>2. now = 1..4
    <2>1. ASSUME NEW i \in 1..4 PROVE TxnWrites[i][2] # Etcd!Gone \/ Etcd!Exists(d, TxnWrites[i][1])
      BY DEF TxnWrites, Etcd!Gone
    <2> QED BY <1>1, <2>1 DEF Writing
  <1>3. ASSUME NEW i \in 1..4 PROVE RecordOf(d, TxnWrites, i) = TxnRecord(d.rev + 1, i)
    <2>1. {j \in now : j < i} = 1..(i - 1)
      BY <1>2
    <2>2. Cardinality(1..(i - 1)) = i - 1
      BY FS_Interval
    <2> QED BY <2>1, <2>2 DEF RecordOf, TxnRecord
  <1>4. N = {TxnRecord(d.rev + 1, i) : i \in 1..4}
    BY <1>2, <1>3 DEF RecordsOf
  <1>5. e # d
    <2>1. e = [d EXCEPT !.rev = @ + 1, !.recs = @ \cup N]
      <3>1. now # {}
        BY <1>2
      <3> HIDE DEF now, N
      <3>2. e = IF now = {} THEN d ELSE [d EXCEPT !.rev = @ + 1, !.recs = @ \cup N]
        BY AppliedIs DEF now, N
      <3> HIDE DEF e
      <3> QED BY <3>1, <3>2
    <2>2. e.rev = d.rev + 1 /\ d.rev \in Nat
      <3> HIDE DEF N, e
      <3> QED BY <2>1 DEF EtcdStore
    <2> HIDE DEF e
    <2> QED BY <2>2
  <1>6. /\ EtcdStore(e) /\ e.compacted = d.compacted /\ e.rev = d.rev + 1
        /\ e.recs = d.recs \cup N
    BY <1>1, <1>5, AppliedStore
  <1> HIDE DEF e, now, N
  <1>7. d.rev \in Nat /\ \A r \in d.recs : r.main \in 1..d.rev
    BY DEF EtcdStore
  <1>8. \A r \in e.recs : r.main = d.rev + 1 => r \in N
    BY <1>6, <1>7
  <1>9. TxnStore(e, d.rev + 1)
    BY <1>4, <1>6, <1>7, <1>8 DEF TxnStore
  <1> QED BY <1>6, <1>9 DEF e

(* Nothing that comes later adds to them.                                      *)
LEMMA TxnStoreStays ==
    ASSUME NEW d, EtcdStore(d), NEW rev, TxnStore(d, rev), NEW k \in EtcdText, NEW v \in EtcdText
    PROVE  TxnStore(Etcd!Applied(d, << <<k, v>> >>), rev)
  <1> DEFINE e == Etcd!Applied(d, << <<k, v>> >>)
             N == RecordsOf(d, << <<k, v>> >>)
  <1>1. << <<k, v>> >> \in Seq(EtcdText \X EtcdText)
    OBVIOUS
  <1>2. /\ EtcdStore(e) /\ e.compacted = d.compacted
        /\ e = d \/ (/\ e.rev = d.rev + 1 /\ e.recs = d.recs \cup N
                     /\ \A r \in N : r.main = d.rev + 1)
    BY <1>1, AppliedStore
  <1> HIDE DEF e, N
  <1>3. d.rev \in Nat
    BY DEF EtcdStore
  <1>4. CASE e = d
    BY <1>4 DEF e
  <1>5. CASE e.rev = d.rev + 1 /\ e.recs = d.recs \cup N /\ \A r \in N : r.main = d.rev + 1
    <2>1. rev \in 1..e.rev /\ rev # d.rev + 1
      BY <1>3, <1>5 DEF TxnStore
    <2>2. \A r \in e.recs : r.main = rev => \E n \in 1..4 : r = TxnRecord(rev, n)
      BY <1>5, <2>1 DEF TxnStore
    <2>3. e.compacted < rev => \A n \in 1..4 : TxnRecord(rev, n) \in e.recs
      BY <1>2, <1>5 DEF TxnStore
    <2> QED BY <2>1, <2>2, <2>3 DEF TxnStore, e
  <1> QED BY <1>2, <1>4, <1>5

(* Compaction may take them, later than their revision only.                       *)
LEMMA TxnStoreCompacts ==
    ASSUME NEW d, EtcdStore(d), NEW rev, TxnStore(d, rev), NEW at \in Nat, at > d.compacted
    PROVE  TxnStore(Etcd!Compacted(d, at), rev)
  <1> DEFINE e == Etcd!Compacted(d, at)
  <1>1. /\ e.rev = d.rev /\ e.compacted = at
        /\ e.recs = {r \in d.recs : r.main > at \/ r = Etcd!Read(d, r.key, at)}
    BY CompactedStore
  <1> HIDE DEF e
  <1>2. rev \in Nat /\ d.compacted \in Nat
    BY DEF TxnStore, EtcdStore
  <1>3. \A n \in 1..4 : TxnRecord(rev, n).main = rev
    BY DEF TxnRecord
  <1> QED BY <1>1, <1>2, <1>3 DEF TxnStore, e

(* The records of the backend at the revision of the transaction: all four,       *)
(* unless the store was compacted (main.go:231-272).                           *)
LEMMA TxnBackend ==
    ASSUME TxnStore(v1, v4[2]), v5' \in Etcd!BySub(Etcd!RecordsAt(v4[2])), v1' = v1, v4' = v4
    PROVE  Etcd!TxnIsWhole'
  <1> DEFINE R == Etcd!RecordsAt(v4[2])
             T == {TxnRecord(v4[2], n) : n \in 1..4}
  <1>1. R \subseteq T
    BY DEF TxnStore, Etcd!RecordsAt
  <1>2. v1.compacted < v4[2] => R = T
    <2>1. \A n \in 1..4 : TxnRecord(v4[2], n).main = v4[2]
      BY DEF TxnRecord
    <2> QED BY <1>1, <2>1 DEF TxnStore, Etcd!RecordsAt
  <1>3. Cardinality(T) = 4
    <2> DEFINE a == TxnRecord(v4[2], 1)
               b == TxnRecord(v4[2], 2)
               c == TxnRecord(v4[2], 3)
               f == TxnRecord(v4[2], 4)
    <2>1. T = (({a} \cup {b}) \cup {c}) \cup {f}
      OBVIOUS
    <2>2. a.sub = 0 /\ b.sub = 1 /\ c.sub = 2 /\ f.sub = 3
      BY DEF TxnRecord
    <2> HIDE DEF a, b, c, f
    <2>3. IsFiniteSet({a}) /\ Cardinality({a}) = 1
      BY FS_Singleton
    <2>4. \A S, x : IsFiniteSet(S) /\ x \notin S =>
              IsFiniteSet(S \cup {x}) /\ Cardinality(S \cup {x}) = Cardinality(S) + 1
      BY FS_AddElement, Zenon
    <2> DEFINE ab == {a} \cup {b}
               abc == ab \cup {c}
    <2>5. b \notin {a} /\ c \notin ab /\ f \notin abc
      BY <2>2
    <2>6. IsFiniteSet(ab) /\ Cardinality(ab) = Cardinality({a}) + 1
      BY <2>3, <2>4, <2>5, Zenon
    <2> HIDE DEF ab
    <2>7. IsFiniteSet(abc) /\ Cardinality(abc) = Cardinality(ab) + 1
      BY <2>4, <2>5, <2>6, Zenon
    <2> HIDE DEF abc
    <2>8. Cardinality(abc \cup {f}) = Cardinality(abc) + 1
      BY <2>4, <2>5, <2>7, Zenon
    <2>9. T = abc \cup {f}
      BY <2>1 DEF ab, abc
    <2> HIDE DEF T
    <2> QED BY <2>3, <2>6, <2>7, <2>8, <2>9
  <1>4. /\ v5' \in [1..Cardinality(R) -> R]
        /\ \A i, j \in DOMAIN v5' : i < j => v5'[i].sub < v5'[j].sub
    <2>1. /\ v5' \in [1..Etcd!Cardinality(R) -> R]
          /\ \A i, j \in DOMAIN v5' : i < j => v5'[i].sub < v5'[j].sub
      <3> HIDE DEF R
      <3>1. v5' \in Etcd!BySub(R)
        BY DEF R
      <3> QED BY <3>1 DEF Etcd!BySub
    <2>2. Etcd!Cardinality(R) = Cardinality(R)
      BY CountsAlike, Zenon
    <2> QED BY <2>1, <2>2
  <1>5. \A i \in DOMAIN v5' : v5'[i] \in T
    <2> HIDE DEF R, T
    <2> QED BY <1>1, <1>4
  <1>6. \A i \in DOMAIN v5' : << v5'[i].key, v5'[i].val >> = TxnWrites[v5'[i].sub + 1]
    <2>1. ASSUME NEW n \in 1..4
          PROVE  << TxnRecord(v4[2], n).key, TxnRecord(v4[2], n).val >> = TxnWrites[TxnRecord(v4[2], n).sub + 1]
      BY DEF TxnRecord, TxnWrites
    <2> QED BY <1>5, <2>1
  <1>7. v1'.compacted < v4'[2] => Len(v5') = 4
    <2> HIDE DEF R, T
    <2>1. v1.compacted < v4[2] => v5' \in [1..4 -> R]
      BY <1>2, <1>3, <1>4
    <2> QED BY <2>1
  <1> QED BY <1>4, <1>6, <1>7 DEF Etcd!TxnIsWhole, TxnWrites

(* Every step of txn-rev-main-sub and of the other clients.                         *)
LEMMA TxnStep ==
    ASSUME TxnInv, v2 = "txn", Etcd!Next
    PROVE  TxnInv'
  <1>1. /\ EtcdStore(v1) /\ v4 \in Seq(Nat) /\ Len(v4) \in Nat
        /\ v3 \in {"start", "seed"} => Len(v4) = 0
        /\ v3 = "txn" => Len(v4) = 1
        /\ v3 = "api" => Len(v4) = 2 /\ TxnStore(v1, v4[2])
        /\ v3 # "done" => v5 = <<>>
        /\ v3 \in {"start", "seed", "txn", "api", "done", "fatal"}
    BY DEF TxnInv
  <1>2. ASSUME v5' = <<>> PROVE Etcd!TxnIsWhole'
    BY <1>2 DEF Etcd!TxnIsWhole
  <1>3. Etcd!Gone \in EtcdText
    BY DEF EtcdText
  <1>4. ASSUME Etcd!Delete("txn", "start", "seed", Etcd!KeysOf("txn")) PROVE TxnInv'
    <2> DEFINE ops == [i \in DOMAIN Etcd!KeysOf("txn") |-> <<Etcd!KeysOf("txn")[i], Etcd!Gone>>]
    <2>1. /\ v3 = "start" /\ v3' = "seed" /\ v4' = v4 /\ v5' = v5
          /\ v1' = Etcd!Applied(v1, ops)
      BY <1>4 DEF Etcd!Delete, Etcd!Goes
    <2>2. ops \in Seq(EtcdText \X EtcdText)
      <3>1. Etcd!KeysOf("txn") = <<"a", "b", "guard", "to-delete">>
        BY DEF Etcd!KeysOf
      <3>2. Etcd!KeysOf("txn") \in Seq(EtcdText)
        <4>1. "a" \in EtcdText /\ "b" \in EtcdText /\ "guard" \in EtcdText /\ "to-delete" \in EtcdText
          BY DEF EtcdText
        <4>2. <<"a", "b", "guard", "to-delete">> \in Seq(EtcdText)
          BY <4>1
        <4> QED BY <3>1, <4>2, Zenon
      <3> QED BY <1>3, <3>2
    <2>3. EtcdStore(v1')
      BY <1>1, <2>1, <2>2, AppliedStore
    <2> QED BY <1>1, <1>2, <2>1, <2>3 DEF TxnInv
  <1>5. ASSUME Etcd!Put("txn", "seed", "txn", "to-delete", "seed") PROVE TxnInv'
    <2>1. /\ v3 = "seed" /\ v3' = "txn" /\ v4' = Append(v4, v1'.rev) /\ v5' = v5
          /\ v1' = Etcd!Applied(v1, << <<"to-delete", "seed">> >>)
      BY <1>5 DEF Etcd!Put, Etcd!Goes
    <2>2. << <<"to-delete", "seed">> >> \in Seq(EtcdText \X EtcdText)
      BY DEF EtcdText
    <2>3. EtcdStore(v1') /\ v1'.rev \in Nat
      BY <1>1, <2>1, <2>2, AppliedStore DEF EtcdStore
    <2>4. v4' \in Seq(Nat) /\ Len(v4') = 1
      BY <1>1, <2>1, <2>3
    <2> QED BY <1>1, <1>2, <2>1, <2>3, <2>4 DEF TxnInv
  <1>6. ASSUME Etcd!Txn PROVE TxnInv'
    <2>1. /\ v3 = "txn" /\ v3' = "api" /\ v4' = Append(v4, v1'.rev) /\ v5' = v5
          /\ ~Etcd!Exists(v1, "guard") /\ Etcd!Exists(v1, "to-delete")
          /\ v1' = Etcd!Applied(v1, TxnWrites)
      BY <1>6 DEF Etcd!Txn, Etcd!Goes, TxnWrites
    <2>2. EtcdStore(v1') /\ v1'.rev = v1.rev + 1 /\ TxnStore(v1', v1.rev + 1)
      BY <1>1, <2>1, TxnApplied
    <2>3. v4' \in Seq(Nat) /\ Len(v4') = 2 /\ v4'[2] = v1.rev + 1
      <3>1. v1'.rev \in Nat /\ v4' = Append(v4, v1'.rev) /\ v4 \in Seq(Nat) /\ Len(v4) = 1
        BY <1>1, <2>1, <2>2 DEF EtcdStore
      <3>2. ASSUME NEW s \in Seq(Nat), NEW x \in Nat, Len(s) = 1
            PROVE  Append(s, x) \in Seq(Nat) /\ Len(Append(s, x)) = 2 /\ Append(s, x)[2] = x
        <4>1. Len(Append(s, x)) = Len(s) + 1 /\ Append(s, x)[Len(s) + 1] = x /\ Append(s, x) \in Seq(Nat)
          OBVIOUS
        <4>2. Len(s) + 1 = 2
          BY <3>2
        <4> QED BY <4>1, <4>2, Zenon
      <3>3. v4' \in Seq(Nat) /\ Len(v4') = 2 /\ v4'[2] = v1'.rev
        BY <3>1, <3>2
      <3> QED BY <2>2, <3>3
    <2> QED BY <1>1, <1>2, <2>1, <2>2, <2>3 DEF TxnInv
  <1>7. ASSUME Etcd!ReadBackend PROVE TxnInv'
    <2>1. /\ v3 = "api" /\ v3' = "done" /\ v1' = v1 /\ v4' = v4
          /\ v5' \in Etcd!BySub(Etcd!RecordsAt(v4[2]))
      BY <1>7 DEF Etcd!ReadBackend, Etcd!Goes
    <2>2. Etcd!TxnIsWhole'
      BY <1>1, <2>1, TxnBackend
    <2> QED BY <1>1, <2>1, <2>2 DEF TxnInv
  <1>8. ASSUME Etcd!Fails PROVE TxnInv'
    <2>1. v3 # "done" /\ v3' = "fatal" /\ v1' = v1 /\ v4' = v4 /\ v5' = v5
      BY <1>8 DEF Etcd!Fails, Etcd!Fatal, Etcd!Goes
    <2> QED BY <1>1, <1>2, <2>1 DEF TxnInv
  <1>9. ASSUME Etcd!Foreign PROVE TxnInv'
    <2>1. /\ v3' = v3 /\ v4' = v4 /\ v5' = v5 /\ v3 # "done"
          /\ \/ \E i \in DOMAIN Etcd!KeysOf(v2), v \in {"foreign", Etcd!Gone} :
                   v1' = Etcd!Applied(v1, << <<Etcd!KeysOf(v2)[i], v>> >>)
             \/ \E at \in v1.compacted + 1..v1.rev : v1' = Etcd!Compacted(v1, at)
      BY <1>9 DEF Etcd!Foreign
    <2>2. \A i \in DOMAIN Etcd!KeysOf(v2) : Etcd!KeysOf(v2)[i] \in EtcdText
      <3>1. Etcd!KeysOf(v2) = <<"a", "b", "guard", "to-delete">>
        BY v2 = "txn" DEF Etcd!KeysOf
      <3> QED BY <3>1 DEF EtcdText
    <2>3. EtcdStore(v1') /\ (v3 = "api" => TxnStore(v1', v4[2]))
      <3>1. ASSUME NEW i \in DOMAIN Etcd!KeysOf(v2), NEW v \in {"foreign", Etcd!Gone},
                   v1' = Etcd!Applied(v1, << <<Etcd!KeysOf(v2)[i], v>> >>)
            PROVE  EtcdStore(v1') /\ (v3 = "api" => TxnStore(v1', v4[2]))
        <4> DEFINE k == Etcd!KeysOf(v2)[i]
        <4>1. v \in EtcdText /\ k \in EtcdText
          BY <2>2 DEF EtcdText
        <4> HIDE DEF k
        <4>2. v1' = Etcd!Applied(v1, << <<k, v>> >>)
          BY <3>1 DEF k
        <4>3. << <<k, v>> >> \in Seq(EtcdText \X EtcdText)
          BY <4>1
        <4>4. EtcdStore(v1')
          BY <1>1, <4>2, <4>3, AppliedStore
        <4> QED BY <1>1, <4>1, <4>2, <4>4, TxnStoreStays
      <3>2. ASSUME NEW at \in v1.compacted + 1..v1.rev, v1' = Etcd!Compacted(v1, at)
            PROVE  EtcdStore(v1') /\ (v3 = "api" => TxnStore(v1', v4[2]))
        <4>1. at \in Nat /\ at > v1.compacted
          BY <1>1 DEF EtcdStore
        <4> QED BY <1>1, <3>2, <4>1, CompactedStore, TxnStoreCompacts
      <3> QED BY <2>1, <3>1, <3>2
    <2> QED BY <1>1, <1>2, <2>1, <2>3 DEF TxnInv
  <1>10. /\ ~Etcd!History /\ ~Etcd!WatchEvent /\ ~Etcd!CompactOld /\ ~Etcd!ReadOld /\ ~Etcd!Basic
    BY v2 = "txn"
       DEF Etcd!History, Etcd!WatchEvent, Etcd!CompactOld, Etcd!ReadOld, Etcd!Basic, Etcd!Swap,
           Etcd!Delete, Etcd!Put, Etcd!MustGet, Etcd!Get, Etcd!Goes
  <1> QED BY <1>4, <1>5, <1>6, <1>7, <1>8, <1>9, <1>10 DEF Etcd!Next, Etcd!MainSub

(* A store that is empty, or has what an earlier run has left.                      *)
LEMMA InitEtcd == ASSUME Etcd!Init PROVE EtcdInv
  <1>1. PICK old \in BOOLEAN :
            v1 = [rev |-> 1, compacted |-> 0,
                  recs |-> IF old THEN {[main |-> 1, sub |-> 0, key |-> Etcd!KeysOf(v2)[1], val |-> "old"]}
                                  ELSE {}]
    BY DEF Etcd!Init
  <1>2. v3 = "start" /\ v4 = <<>> /\ v5 = <<>> /\ v6 = <<>>
    BY DEF Etcd!Init
  <1>3. \A r \in v1.recs : r = [main |-> 1, sub |-> 0, key |-> Etcd!KeysOf(v2)[1], val |-> "old"]
    BY <1>1
  <1>4. v1.rev = 1 /\ v1.compacted = 0
    BY <1>1
  <1>5. ASSUME Etcd!KeysOf(v2)[1] \in EtcdText PROVE EtcdStore(v1)
    <2>1. [main |-> 1, sub |-> 0, key |-> Etcd!KeysOf(v2)[1], val |-> "old"] \in EtcdRecord
      BY <1>5 DEF EtcdRecord, EtcdText
    <2> QED BY <1>1, <2>1 DEF EtcdStore
  <1>6. ASSUME v2 = "mvcc" PROVE HistoryInv
    <2>1. Etcd!KeysOf(v2)[1] = "order"
      BY <1>6 DEF Etcd!KeysOf
    <2>2. EtcdStore(v1)
      BY <1>5, <2>1 DEF EtcdText
    <2>3. HistoryStore(v1, v4, v5)
      BY <1>2, <1>3, <1>4, <2>1 DEF HistoryStore
    <2> QED BY <1>2, <2>2, <2>3 DEF HistoryInv, HistoryPhases, HistoryReads, AfterPuts, AfterReads, AfterSwap
  <1>7. ASSUME v2 = "txn" PROVE TxnInv
    <2>1. Etcd!KeysOf(v2)[1] = "a"
      BY <1>7 DEF Etcd!KeysOf
    <2>2. EtcdStore(v1)
      BY <1>5, <2>1 DEF EtcdText
    <2> QED BY <1>2, <2>2 DEF TxnInv, Etcd!TxnIsWhole
  <1> QED BY <1>6, <1>7 DEF EtcdInv

(* A script stays the one it is.                                               *)
LEMMA EtcdStep == ASSUME EtcdInv, Etcd!Next PROVE EtcdInv'
  <1>1. v2' = v2
    BY DEF Etcd!Next, Etcd!History, Etcd!WatchEvent, Etcd!CompactOld, Etcd!ReadOld, Etcd!MainSub, Etcd!Basic,
           Etcd!Fails, Etcd!Foreign, Etcd!Fatal, Etcd!Delete, Etcd!Put, Etcd!MustGet, Etcd!Txn,
           Etcd!Swap, Etcd!ReadBackend, Etcd!Get, Etcd!Goes
  <1> QED BY <1>1, HistoryStep, TxnStep DEF EtcdInv

-------------------------------------------------------------------------------
(* What is read back *)

StoresInv == /\ program = "wal" => WalInv
             /\ program = "etcd" => EtcdInv
             /\ program = "bolt" => BoltInv

(* What the log, the store of etcd and the file of bbolt hold stays what was      *)
(* written to them.                                                           *)
LEMMA StoresInvariance == Spec => []StoresInv
  <1>1. Init => StoresInv
    BY InitWal, InitEtcd, InitBolt DEF Init, StoresInv
  <1>2. StoresInv /\ [Next]_vars => StoresInv'
    <2> SUFFICES ASSUME StoresInv, [Next]_vars PROVE StoresInv'
      OBVIOUS
    <2>1. CASE UNCHANGED vars
      <3>1. WalInv => WalInv'
        BY <2>1 DEF vars, WalInv, WalTypes, WalWriter, WalHolds
      <3>2. HistoryInv => HistoryInv'
        BY <2>1 DEF vars, HistoryInv, HistoryPhases, HistoryReads
      <3>3. TxnInv => TxnInv'
        BY <2>1 DEF vars, TxnInv, Etcd!TxnIsWhole
      <3>4. BoltInv => BoltInv'
        BY <2>1 DEF vars, BoltInv, RunsOnce, IndexLeft, Users, Answers
      <3>5. program' = program /\ v2' = v2
        BY <2>1 DEF vars
      <3> QED BY <3>1, <3>2, <3>3, <3>4, <3>5 DEF StoresInv, EtcdInv
    <2>2. CASE Next
      <3>1. program' = program
        BY <2>2 DEF Next
      <3>2. CASE program = "wal"
        BY <2>2, <3>1, <3>2, WalStep DEF Next, StoresInv
      <3>3. CASE program = "etcd"
        BY <2>2, <3>1, <3>3, EtcdStep DEF Next, StoresInv
      <3>4. CASE program = "bolt"
        BY <2>2, <3>1, <3>4, BoltStep DEF Next, StoresInv
      <3> QED BY <3>1, <3>2, <3>3, <3>4 DEF StoresInv
    <2> QED BY <2>1, <2>2
  <1> QED BY <1>1, <1>2, PTL DEF Spec

(* What is read back, whatever dies, writes or compacts meanwhile: the last Put     *)
(* that returned and made a line of its own with one word (wal/main.go:69-98; any   *)
(* other Put is lost), at the old revisions of etcd the puts and the writes of the    *)
(* transaction (etcd/mvcc/main.go:54-56, txn-rev-main-sub/main.go:231-272), from       *)
(* bbolt the user after the one asked for (etcd/bbolt/main.go:62-84), which a run     *)
(* gets to do until one has got through, and for a short key its own URL.        *)
THEOREM WhatIsReadBack == Spec => []ReadsBack
  <1>1. Inv /\ StoresInv => ReadsBack
    <2> SUFFICES ASSUME Inv, StoresInv PROVE ReadsBack
      OBVIOUS
    <2>1. ASSUME program = "wal" PROVE Wal!RecoveredIsAcknowledged
      BY <2>1, WalGivesBack DEF StoresInv
    <2>2. ASSUME program = "etcd" PROVE Etcd!ReadsAtRevision /\ Etcd!TxnIsWhole
      <3>1. EtcdInv
        BY <2>2 DEF StoresInv
      <3>2. Etcd!ReadsAtRevision
        BY <3>1, HistoryReadsAt DEF EtcdInv, Etcd!ReadsAtRevision
      <3>3. Etcd!TxnIsWhole
        BY <3>1 DEF EtcdInv, TxnInv, Etcd!TxnIsWhole
      <3> QED BY <3>2, <3>3
    <2>3. ASSUME program = "bolt" PROVE Bolt!AnswersNextUser /\ Bolt!CompletesOnce
      <3>1. RunsOnce /\ (v2 = "users" => Answers)
        BY <2>3 DEF StoresInv, BoltInv
      <3>2. Bolt!CompletesOnce
        BY <3>1 DEF RunsOnce, Bolt!CompletesOnce
      <3>3. Bolt!AnswersNextUser
        <4> SUFFICES ASSUME v2 = "users", NEW n \in DOMAIN v10 PROVE v10[n] = Bolt!NextUsers[n]
          BY DEF Bolt!AnswersNextUser
        <4>1. Answers /\ DOMAIN v10 = 1..Len(v10) /\ Len(v10) \in Nat
          BY <3>1, LenProperties DEF Answers
        <4>2. /\ Bolt!NextUsers[1] = Cindy /\ Bolt!NextUsers[2] = Cindy
              /\ Bolt!NextUsers[3] = Bolt!NotFound /\ Bolt!NextUsers[4] = Cindy
          BY DEF Bolt!NextUsers, Cindy
        <4>3. n \in 1..4 /\ v10[n] = IF n = 3 THEN Bolt!NotFound ELSE Cindy
          BY ONLY <4>1 DEF Answers
        <4> QED BY ONLY <4>2, <4>3
      <3> QED BY <3>2, <3>3
    <2>4. ASSUME program = "cache" PROVE Cache!KeysKeepTheirUrl
      BY <2>4 DEF Inv, CacheInv, CacheTypes, KeysKnow, Cache!KeysKeepTheirUrl
    <2> QED BY <2>1, <2>2, <2>3, <2>4 DEF ReadsBack
  <1> QED BY <1>1, Invariance, StoresInvariance, PTL

(* Whatever other clients write or compact, the compare-and-swap of mvcc writes   *)
(* over the record that was read before it, and the stale one writes nothing     *)
(* (etcd/mvcc/main.go:63-88).                                                *)
THEOREM SwapsWhatWasRead == Spec => SwapOverwritesWhatWasRead
  <1>1. ASSUME StoresInv, Next, program = "etcd" PROVE Etcd!SwapOverwrites
    <2>1. Etcd!Next /\ EtcdInv
      BY <1>1 DEF Next, StoresInv
    <2>2. CASE v2 = "mvcc"
      BY <2>1, <2>2, HistorySwaps DEF EtcdInv
    <2>3. CASE v2 # "mvcc"
      BY <2>3 DEF Etcd!SwapOverwrites
    <2> QED BY <2>2, <2>3
  <1>2. StoresInv /\ [Next]_vars => [program = "etcd" => Etcd!SwapOverwrites]_vars
    BY <1>1
  <1> QED BY <1>2, StoresInvariance, PTL DEF Spec, SwapOverwritesWhatWasRead
==================================================================================
