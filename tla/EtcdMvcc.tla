-------------------------------- MODULE EtcdMvcc --------------------------------
(***************************************************************************)
(* The scripts that talk to etcd's revisioned store: src/etcd/mvcc (history,  *)
(* compare-and-swap, watch, compaction), src/etcd/txn-rev-main-sub (one       *)
(* transaction, its main and sub revisions in a saved snapshot) and           *)
(* src/etcd/basic.  Other clients, a second run of a script among them, write *)
(* to the same keys and compact.  The store is external.                     *)
(***************************************************************************)
EXTENDS Naturals, Sequences, FiniteSets, SequencesExt

CONSTANTS Scripts,    \* a subset of {"mvcc", "txn", "basic"}
          MorePuts,   \* how often main of mvcc puts again (100 in the code)
          MaxOthers  \* bound on what other clients do

VARIABLES db,      \* the store: revision, compacted revision, records
          script,  \* which main runs
          pc,      \* its next call
          puts,    \* the revisions of its puts
          got,     \* what its reads and watches have returned
          swapped, \* the outcomes of the two compare-and-swaps
          foreign

vars == <<db, script, pc, puts, got, swapped, foreign>>

(* The store.  A record without value is a tombstone.                        *)
Gone == "gone"
NoRecord == [main |-> 0, sub |-> 0, key |-> Gone, val |-> Gone]
KeysOf(s) == CASE s = "mvcc"  -> <<"order">>
               [] s = "txn"   -> <<"a", "b", "guard", "to-delete">>
               [] s = "basic" -> <<"sample_key">>

Latest(d, k, at) ==
    LET of == {r \in d.recs : r.key = k /\ r.main <= at}
    IN  IF of = {} THEN NoRecord ELSE CHOOSE r \in of : \A q \in of : q.main <= r.main
Read(d, k, at) == LET r == Latest(d, k, at) IN IF r.val = Gone THEN NoRecord ELSE r
Exists(d, k) == Read(d, k, d.rev) # NoRecord

(* The writes of one request share the main revision and are numbered in it. *)
Applied(d, ops) ==
    LET now == {i \in DOMAIN ops : ops[i][2] # Gone \/ Exists(d, ops[i][1])}
    IN  IF now = {} THEN d
        ELSE [d EXCEPT !.rev = @ + 1,
                       !.recs = @ \cup {[main |-> d.rev + 1, sub |-> Cardinality({j \in now : j < i}),
                                         key |-> ops[i][1], val |-> ops[i][2]] : i \in now}]

Compacted(d, at) ==
    [d EXCEPT !.compacted = at,
              !.recs = {r \in @ : r.main > at \/ r = Read(d, r.key, at)}]

TypeOK == /\ db.compacted \in 0..db.rev
          /\ \A r, q \in db.recs : r.main = q.main /\ r.sub = q.sub => r = q
          /\ script \in Scripts
          /\ foreign \in 0..MaxOthers

Init == /\ \E s \in Scripts : script = s
        /\ \E old \in BOOLEAN :   \* left by an earlier run
              db = [rev |-> 1, compacted |-> 0,
                    recs |-> IF old THEN {[main |-> 1, sub |-> 0, key |-> KeysOf(script)[1], val |-> "old"]}
                                    ELSE {}]
        /\ pc = "start"
        /\ puts = <<>> /\ got = <<>> /\ swapped = <<>>
        /\ foreign = 0

Goes(s, from, to) == script = s /\ pc = from /\ pc' = to
Fatal(s, from) == Goes(s, from, "fatal") /\ UNCHANGED <<db, puts, got, swapped, script, foreign>>

(* mustPut and put *)
Put(s, from, to, k, v) == /\ Goes(s, from, to)
                          /\ db' = Applied(db, << <<k, v>> >>)
                          /\ puts' = Append(puts, db'.rev)
                          /\ UNCHANGED <<script, got, swapped, foreign>>


(* mustGetSingleAtRev, and mustGetSingle at the revision of now; a compacted *)
(* revision and an absent key are fatal.                                     *)
MustGet(s, from, to, k, rev) == /\ Goes(s, from, to)
                                /\ rev >= db.compacted /\ Read(db, k, rev) # NoRecord
                                /\ got' = Append(got, Read(db, k, rev))
                                /\ UNCHANGED <<script, db, puts, swapped, foreign>>

(* Mutant: the swap compares the existence of the key only. *)
SwapIfThere(s, from, to, k, mod, v) ==
    /\ Goes(s, from, to)
    /\ swapped' = Append(swapped, Exists(db, k))
    /\ db' = IF Last(swapped') THEN Applied(db, << <<k, v>> >>) ELSE db
    /\ UNCHANGED <<script, puts, got, foreign>>

(* Txn If ModRevision(key) = mod Then put Else get. *)
Swap(s, from, to, k, mod, v) ==
    /\ Goes(s, from, to)
    /\ swapped' = Append(swapped, Read(db, k, db.rev).main = mod)
    /\ db' = IF Last(swapped') THEN Applied(db, << <<k, v>> >>) ELSE db
    /\ UNCHANGED <<script, puts, got, foreign>>

Delete(s, from, to, ks) == /\ Goes(s, from, to)
                           /\ db' = Applied(db, [i \in DOMAIN ks |-> <<ks[i], Gone>>])
                           /\ UNCHANGED <<script, puts, got, swapped, foreign>>

(* main of mvcc.  got: the latest record, three old ones, the latest again   *)
(* if the first swap has succeeded.                                          *)
History == \/ Delete("mvcc", "start", "put1", <<"order">>)
           \/ Put("mvcc", "put1", "put2", "order", "v1")
           \/ Put("mvcc", "put2", "put3", "order", "v2")
           \/ Put("mvcc", "put3", "more", "order", "v3")
           \/ Len(puts) < 3 + MorePuts /\ Put("mvcc", "more", "more", "order", "vi")
           \/ Len(puts) = 3 + MorePuts /\ MustGet("mvcc", "more", "h1", "order", db.rev)
           \/ MustGet("mvcc", "h1", "h2", "order", puts[1])
           \/ MustGet("mvcc", "h2", "h3", "order", puts[2])
           \/ MustGet("mvcc", "h3", "cas", "order", puts[3])
           \/ Swap("mvcc", "cas", "after", "order", got[1].main, "v4")
           \/ swapped = <<TRUE>> /\ MustGet("mvcc", "after", "stale", "order", db.rev)
           \/ /\ Goes("mvcc", "after", "stale") /\ swapped = <<FALSE>>
              /\ UNCHANGED <<script, db, puts, got, swapped, foreign>>
           \/ Swap("mvcc", "stale", "watch", "order", puts[1], "should-not-write")
           \/ Put("mvcc", "watch", "event", "order", "v5")

(* The first response of the watch from put2 + 1: the events up to a revision, *)
(* as many as the server has put into it; none if the deadline comes first.   *)
WatchEvent == /\ Goes("mvcc", "event", "compact")
              /\ puts[2] + 1 >= db.compacted
              /\ \E last \in {puts[2]} \cup {r.main : r \in {q \in db.recs : q.main > puts[2]}} :
                   got' = Append(got, {r \in db.recs : puts[2] < r.main /\ r.main <= last})
              /\ UNCHANGED <<script, db, puts, swapped, foreign>>

CompactOld == /\ Goes("mvcc", "compact", "old")
              /\ puts[2] > db.compacted
              /\ db' = Compacted(db, puts[2])
              /\ UNCHANGED <<script, puts, got, swapped, foreign>>

ReadOld == /\ Goes("mvcc", "old", "done")
           /\ got' = IF puts[1] < db.compacted THEN got ELSE Append(got, Read(db, "order", puts[1]))
           /\ UNCHANGED <<script, db, puts, swapped, foreign>>


(* runSingleTxnWithMultipleRequests: main gives up if its compares fail.     *)
Txn == /\ Goes("txn", "txn", "api")
       /\ ~Exists(db, "guard") /\ Exists(db, "to-delete")
       /\ db' = Applied(db, << <<"guard", "v2">>, <<"a", "A1">>, <<"b", "B1">>, <<"to-delete", Gone>> >>)
       /\ swapped' = <<TRUE>> /\ puts' = Append(puts, db'.rev)
       /\ UNCHANGED <<script, got, foreign>>

(* saveSnapshot and readRecordsByMainRevision: the records of the backend at *)
(* that main revision, by sub revision.                                      *)
RecordsAt(main) == {r \in db.recs : r.main = main}
BySub(recs) == {s \in [1..Cardinality(recs) -> recs] : \A i, j \in DOMAIN s : i < j => s[i].sub < s[j].sub}
ReadBackend == /\ Goes("txn", "api", "done")
               /\ RecordsAt(puts[2]) # {}
               /\ got' \in BySub(RecordsAt(puts[2]))
               /\ UNCHANGED <<script, db, puts, swapped, foreign>>

MainSub == \/ Delete("txn", "start", "seed", KeysOf("txn"))
           \/ Put("txn", "seed", "txn", "to-delete", "seed")
           \/ Txn \/ ReadBackend

(* basic: a read that finds nothing prints nothing.                          *)
Get(from, to) == /\ Goes("basic", from, to)
                 /\ got' = <<Read(db, "sample_key", db.rev)>>
                 /\ UNCHANGED <<script, db, puts, swapped, foreign>>
Basic == \/ Put("basic", "start", "get1", "sample_key", "sample_value") \/ Get("get1", "delete")
         \/ Delete("basic", "delete", "get2", <<"sample_key">>) \/ Get("get2", "put2")
         \/ Put("basic", "put2", "get3", "sample_key", "sample_value") \/ Get("get3", "put3")
         \/ Put("basic", "put3", "get4", "sample_key", "demo_value") \/ Get("get4", "watching")

(* A call that fails, for good or for what the store holds by now.           *)
Fails == /\ pc \notin {"done", "fatal", "watching"}
         /\ Fatal(script, pc)

(* Other clients *)
Foreign == /\ foreign < MaxOthers
           /\ pc \notin {"done", "fatal"}
           /\ foreign' = foreign + 1
           /\ \/ \E i \in DOMAIN KeysOf(script), v \in {"foreign", Gone} :
                    db' = Applied(db, << <<KeysOf(script)[i], v>> >>)
              \/ \E at \in db.compacted + 1..db.rev : db' = Compacted(db, at)
           /\ UNCHANGED <<script, pc, puts, got, swapped>>

Next == History \/ WatchEvent \/ CompactOld \/ ReadOld \/ MainSub \/ Basic \/ Fails \/ Foreign

Spec == Init /\ [][Next]_vars

-------------------------------------------------------------------------------
(* The three historical reads of mvcc (lines 54-56) return the three puts,   *)
(* whatever other clients have written or compacted between them.            *)
ReadsAtRevision ==
    script = "mvcc" => \A i \in 2..4 : i <= Len(got) =>
        got[i].main = puts[i - 1] /\ got[i].val = <<"v1", "v2", "v3">>[i - 1]

(* The swap (lines 63-67) overwrites the very record that was read before    *)
(* it, and the stale one never succeeds ("expect false", line 88).           *)
SwapOverwrites == Len(swapped') > Len(swapped) /\ script = "mvcc" /\ Last(swapped') =>
                    /\ Len(swapped') = 1
                    /\ Latest(db, "order", db.rev) = got[1]
SwapOverwritesWhatWasRead == [][SwapOverwrites]_vars

(* What the snapshot holds at the main revision of the transaction are its   *)
(* four writes in their order; less only by a later compaction.              *)
TxnIsWhole ==
    script = "txn" /\ got # <<>> =>
        LET written == << <<"guard", "v2">>, <<"a", "A1">>, <<"b", "B1">>, <<"to-delete", Gone>> >>
        IN  /\ \A i \in DOMAIN got : << got[i].key, got[i].val >> = written[got[i].sub + 1]
            /\ \A i, j \in DOMAIN got : i < j => got[i].sub < got[j].sub
            /\ db.compacted < puts[2] => Len(got) = 4
================================================================================
