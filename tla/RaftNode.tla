-------------------------------- MODULE RaftNode --------------------------------
(***************************************************************************)
(* One node of src/etcd/raft-wal-restart: the loop that persists a Ready to *)
(* the WAL and the snapshot file, updates the MemoryStorage, sends, applies *)
(* and compacts; the death of the process between any two of those steps;   *)
(* and the restart from disk.                                               *)
(*                                                                         *)
(* The raft library (go.etcd.io/raft/v3) and the rest of the cluster are    *)
(* external: "chosen" is the log the cluster has committed, and TakeReady   *)
(* hands over any Ready that raft's rules allow.  An entry is known by its  *)
(* index and term; a state machine is the sequence of terms it applied.     *)
(***************************************************************************)
EXTENDS Integers, SequencesExt, FiniteSetsExt

CONSTANTS Peers,           \* number of voters: StartNode's bootstrap entries
          MaxTerm,         \* bound on raft terms
          MaxIndex,        \* bound on log indexes
          MaxRestarts,     \* bound on process deaths
          SnapshotEvery,   \* snapshotEvery, 5 in the code
          SnapshotCatchUp, \* snapshotCatchUp, 2 in the code
          Leaders,         \* what the leaders of a run do, see Conduct
          FollowMisread    \* follow a node that misread its WAL? see Misread

(* "stable": no leader contradicts this node's log.  "overwrite": a new one   *)
(* may replace its uncommitted end.  "install": one that has compacted what   *)
(* the node misses sends its snapshot.                                       *)
Conduct == {"stable", "overwrite", "install"}

ASSUME RaftNodeAssumption ==
    /\ Peers \in Nat \ {0} /\ MaxTerm \in Nat \ {0}
    /\ MaxIndex \in Nat /\ Peers <= MaxIndex /\ MaxRestarts \in Nat
    /\ SnapshotEvery \in Nat \ {0} /\ SnapshotCatchUp \in Nat
    /\ Leaders \subseteq Conduct /\ FollowMisread \in BOOLEAN

VARIABLES leaders,           \* external: which conduct the leaders have
          chosen,            \* external: terms of the committed log, by index
          snapFile,          \* snapshot.bin; index 0 when there is none
          wal,               \* wal.log: its records, one per line
          pc,                \* where the run loop is
          rd,                \* the Ready being handled
          hard,              \* HardState of the MemoryStorage
          offset, ents,      \* the entries after index offset it holds
          appliedIndex, kv, confState, lastSnapshotIndex,
          pending,           \* committed entries of rd still to be applied
          promised,          \* what the messages sent so far vouch for
          restarts

cluster == <<leaders, chosen>>
disk   == <<snapFile, wal>>
store  == <<hard, offset, ents>>
machine == <<appliedIndex, kv, confState, lastSnapshotIndex>>
vars == <<cluster, disk, pc, rd, store, machine, pending, promised, restarts>>

EmptyHard == [term |-> 0, commit |-> 0]
NoSnapshot == [index |-> 0, data |-> <<>>, conf |-> 0]
NoReady == [snap |-> NoSnapshot, hard |-> EmptyHard, ents |-> <<>>]
NoPromise == [term |-> 0, commit |-> 0, last |-> 0]

Entry     == [index : 1..MaxIndex, term : 1..MaxTerm]
HardState == [term : 0..MaxTerm, commit : 0..MaxIndex]
Snapshot  == [index : 0..MaxIndex, data : Seq(1..MaxTerm), conf : 0..Peers]

Up == pc \notin {"down", "panicked"}
LastIndex == offset + Len(ents)
TermAt(i) == ents[i - offset].term

(* The entries at indexes i..j of a log that starts after index off.         *)
Slice(off, es, i, j) == SubSeq(es, i - off, j - off)

(* MemoryStorage.Append: the first new entry's index says where the new      *)
(* entries go; they take consecutive places from there.                      *)
MemAppend(off, es, new) ==
    IF new = <<>> THEN es ELSE SubSeq(es, 1, new[1].index - off - 1) \o new

-------------------------------------------------------------------------------
(* The disk, read back *)

(* The entries of a log with one of these indexes, in their order.           *)
Kept(log, indexes) ==
    FoldLeft(LAMBDA es, e : IF e.index \in indexes THEN Append(es, e) ELSE es, <<>>, log)
Above(log, i) == Kept(log, i + 1..MaxIndex)
Below(log, i) == Kept(log, 1..i - 1)

(* load: the last hard state, and all entries of all records one after the   *)
(* other, of which those up to the snapshot are dropped.                     *)
Joined(records) == FoldLeft(LAMBDA es, rec : es \o rec.ents, <<>>, records)
WalEntries == Joined(wal)
LoadedEntries == Above(WalEntries, snapFile.index)

WithHard == {k \in DOMAIN wal : wal[k].hard # EmptyHard}

(* Mutant: the first hard state of the WAL instead of the last. *)
FirstHard == IF WithHard = {} THEN EmptyHard ELSE wal[Min(WithHard)].hard

LoadedHard == IF WithHard = {} THEN EmptyHard ELSE wal[Max(WithHard)].hard
HasState == snapFile.index > 0 \/ wal # <<>>

(* What raft and the MemoryStorage panic on when they are given this: a gap  *)
(* before the first entry, or a commit index outside of the log.             *)
BootPanics ==
    \/ LoadedEntries # <<>> /\ LoadedEntries[1].index > snapFile.index + 1
    \/ /\ LoadedHard # EmptyHard
       /\ \/ LoadedHard.commit < snapFile.index
          \/ LoadedHard.commit > snapFile.index + Len(LoadedEntries)

(* The log the WAL describes when a record is taken to replace everything    *)
(* from its first entry on, as the MemoryStorage did when it was written.    *)
Replay(log) == FoldLeft(LAMBDA es, e : Append(Below(es, e.index), e), <<>>, log)
ReplayedEntries == Replay(WalEntries)

-------------------------------------------------------------------------------
(* newRaftNode *)

(* Mutant: the index is restored, the data is not. *)
RestoreIndexOnly(s) == /\ appliedIndex' = s.index
                       /\ kv' = kv
                       /\ lastSnapshotIndex' = s.index

(* restoreStateMachineFromSnapshot, and the index the caller keeps.          *)
RestoreFrom(s) == /\ appliedIndex' = s.index
                  /\ kv' = s.data
                  /\ lastSnapshotIndex' = s.index

BootConfState == IF HasState THEN snapFile.conf ELSE Peers

(* Memory as RestartNode or StartNode finds it.                              *)
Boot == /\ pc = "down"
        /\ IF BootPanics
           THEN /\ pc' = "panicked"
                /\ UNCHANGED <<store, machine>>
           ELSE /\ pc' = "idle"
                /\ hard' = LoadedHard
                /\ offset' = snapFile.index
                /\ ents' = LoadedEntries
                /\ RestoreFrom(snapFile)
                /\ confState' = BootConfState
        /\ UNCHANGED <<cluster, disk, rd, pending, promised, restarts>>

(* The process dies, or main stops the node between two Readys: memory goes. *)
Crash == /\ Up
         /\ restarts < MaxRestarts
         /\ restarts' = restarts + 1
         /\ pc' = "down"
         /\ rd' = NoReady
         /\ hard' = EmptyHard /\ offset' = 0 /\ ents' = <<>>
         /\ appliedIndex' = 0 /\ kv' = <<>> /\ confState' = 0
         /\ lastSnapshotIndex' = 0
         /\ pending' = <<>>
         /\ UNCHANGED <<cluster, disk, promised>>

Init == /\ leaders \in Leaders
        /\ chosen = [i \in 1..Peers |-> 1]
        /\ snapFile = NoSnapshot /\ wal = <<>>
        /\ pc = "down"
        /\ rd = NoReady
        /\ hard = EmptyHard /\ offset = 0 /\ ents = <<>>
        /\ appliedIndex = 0 /\ kv = <<>> /\ confState = 0
        /\ lastSnapshotIndex = 0
        /\ pending = <<>>
        /\ promised = NoPromise
        /\ restarts = 0

-------------------------------------------------------------------------------
(* The cluster and the raft library (external) *)

(* A majority commits an entry at the next index.                            *)
Decide(u) ==
    /\ pc = "idle"
    /\ Len(chosen) < MaxIndex
    /\ u >= Last(chosen)
    /\ LET i == Len(chosen) + 1
       IN leaders # "overwrite" /\ i <= LastIndex => u = TermAt(i)
    /\ chosen' = Append(chosen, u)
    /\ UNCHANGED <<leaders, disk, pc, rd, store, machine, pending, promised, restarts>>

(* What the leader of term t may append here: nothing, or an entry of term u *)
(* at index i that extends the log or replaces its uncommitted end.  Only a  *)
(* leader older than a committed entry can contradict it.                    *)
MayAppend(t, i, u) ==
    /\ i - 1 > offset => u >= TermAt(i - 1)
    /\ i <= Len(chosen) => u = chosen[i] \/ (leaders = "overwrite" /\ t < chosen[i])
    /\ i <= LastIndex => leaders = "overwrite" /\ u # TermAt(i) /\ t > TermAt(i)

Appendable(t) ==
    {<<>>} \cup
    {<<e>> : e \in {x \in Entry : /\ x.index \in (hard.commit + 1)..(LastIndex + 1)
                                  /\ x.term <= t
                                  /\ MayAppend(t, x.index, x.term)}}

(* Commit indexes raft may reach with log es: it holds the chosen entries.   *)
Commits(es) ==
    {c \in hard.commit..(offset + Len(es)) :
        /\ c <= Len(chosen)
        /\ \A i \in (hard.commit + 1)..c : es[i - offset].term = chosen[i]}

(* A HardState or entries are in a Ready only if they are new.               *)
Changed(h) == IF h = hard THEN EmptyHard ELSE h

(* StartNode's first Ready: the configuration, already committed.            *)
BootstrapReady ==
    /\ hard = EmptyHard /\ LastIndex = 0
    /\ rd' = [snap |-> NoSnapshot,
              hard |-> [term |-> 1, commit |-> Peers],
              ents |-> [i \in 1..Peers |-> [index |-> i, term |-> 1]]]
    /\ pending' = [i \in 1..Peers |-> [index |-> i, term |-> 1]]

AppendReady ==
    /\ hard # EmptyHard
    /\ \E t \in hard.term..MaxTerm : \E new \in Appendable(t) :
         LET es == MemAppend(offset, ents, new)
         IN \E c \in Commits(es) :
              /\ rd' = [snap |-> NoSnapshot,
                        hard |-> Changed([term |-> t, commit |-> c]),
                        ents |-> new]
              /\ pending' = Slice(offset, es, appliedIndex + 1, c)
              /\ rd' # NoReady \/ pending' # <<>>

(* A leader that has compacted what this node misses sends its snapshot.     *)
InstallReady ==
    /\ leaders = "install"
    /\ hard # EmptyHard
    /\ \E s \in (hard.commit + 1)..Len(chosen), t \in hard.term..MaxTerm :
         /\ t >= chosen[s]
         /\ s > LastIndex
         /\ rd' = [snap |-> [index |-> s, data |-> SubSeq(chosen, 1, s),
                             conf |-> Peers],
                   hard |-> [term |-> t, commit |-> s],
                   ents |-> <<>>]
         /\ pending' = <<>>

(* A restart went over a WAL in which one record overwrites entries of        *)
(* another.  load does not know of that; what raft makes of the log it then   *)
(* gets is outside of its rules, and only followed on request.                *)
Overwritten ==
    \E j, k \in DOMAIN WalEntries : j < k /\ WalEntries[k].index <= WalEntries[j].index
Misread == restarts > 0 /\ Overwritten

(* rd := <-n.node.Ready()                                                    *)
TakeReady == /\ pc = "idle"
             /\ Misread => FollowMisread
             /\ BootstrapReady \/ AppendReady \/ InstallReady
             /\ pc' = "saveSnapshot"
             /\ UNCHANGED <<cluster, disk, store, machine, promised, restarts>>

-------------------------------------------------------------------------------
(* run: one Ready *)

(* persistReady, first half.                                                 *)
SaveSnapshot == /\ pc = "saveSnapshot"
                /\ snapFile' = IF rd.snap.index > 0 THEN rd.snap ELSE snapFile
                /\ pc' = "appendWAL"
                /\ UNCHANGED <<cluster, wal, rd, store, machine, pending,
                               promised, restarts>>

(* Mutant: the WAL record carries the hard state only. *)
HardOnlyWAL ==
    /\ pc = "appendWAL"
    /\ wal' = IF rd.hard = EmptyHard THEN wal
              ELSE Append(wal, [hard |-> rd.hard, ents |-> <<>>])
    /\ pc' = "memory"
    /\ UNCHANGED <<cluster, snapFile, rd, store, machine, pending, promised, restarts>>

(* persistReady, second half: one record per Ready that has something new.   *)
AppendWAL == /\ pc = "appendWAL"
             /\ wal' = IF rd.hard = EmptyHard /\ rd.ents = <<>> THEN wal
                       ELSE Append(wal, [hard |-> rd.hard, ents |-> rd.ents])
             /\ pc' = "memory"
             /\ UNCHANGED <<cluster, snapFile, rd, store, machine, pending,
                            promised, restarts>>

(* ApplySnapshot and restoreStateMachineFromSnapshot, SetHardState, Append.  *)
UpdateMemory ==
    /\ pc = "memory"
    /\ IF rd.snap.index > 0
       THEN /\ offset' = rd.snap.index
            /\ ents' = <<>>
            /\ RestoreFrom(rd.snap)
            /\ confState' = rd.snap.conf
       ELSE /\ ents' = MemAppend(offset, ents, rd.ents)
            /\ UNCHANGED <<offset, machine>>
    /\ hard' = IF rd.hard = EmptyHard THEN hard ELSE rd.hard
    /\ pc' = "deliver"
    /\ UNCHANGED <<cluster, disk, rd, pending, promised, restarts>>

(* Mutant: committed entries are applied only next to new ones. *)
ApplyWithEntriesOnly ==
    /\ pc = "deliver"
    /\ promised' = [term |-> hard.term, commit |-> hard.commit, last |-> LastIndex]
    /\ pc' = IF pending = <<>> \/ rd.ents = <<>> THEN "advance" ELSE "apply"
    /\ UNCHANGED <<cluster, disk, rd, store, machine, pending, restarts>>

(* deliver: the messages acknowledge the term, the commit index and the log. *)
Deliver == /\ pc = "deliver"
           /\ promised' = [term |-> hard.term, commit |-> hard.commit,
                           last |-> LastIndex]
           /\ pc' = IF pending = <<>> THEN "advance" ELSE "apply"
           /\ UNCHANGED <<cluster, disk, rd, store, machine, pending, restarts>>

(* applyCommitted: the index and the value are set in two critical sections, *)
(* between which kvSnapshot and getValue may look.                           *)
ApplyIndex == /\ pc = "apply"
              /\ appliedIndex' = Head(pending).index
              /\ pc' = "applyValue"
              /\ UNCHANGED <<cluster, disk, rd, store, kv, confState,
                             lastSnapshotIndex, pending, promised, restarts>>


(* The bootstrap entries are the configuration changes.                      *)
ApplyValue == /\ pc = "applyValue"
              /\ kv' = Append(kv, Head(pending).term)
              /\ confState' = IF confState < Head(pending).index /\ Head(pending).index <= Peers
                              THEN confState + 1 ELSE confState
              /\ pending' = Tail(pending)
              /\ pc' = IF Tail(pending) = <<>> THEN "maybeSnapshot" ELSE "apply"
              /\ UNCHANGED <<cluster, disk, rd, store, appliedIndex,
                             lastSnapshotIndex, promised, restarts>>

(* maybeSnapshot: save the state machine, then compact the log in memory.    *)
SnapshotDue == /\ appliedIndex > lastSnapshotIndex
               /\ appliedIndex - lastSnapshotIndex >= SnapshotEvery
CompactTo == IF appliedIndex > SnapshotCatchUp
             THEN appliedIndex - SnapshotCatchUp ELSE 1

MaybeSnapshot ==
    /\ pc = "maybeSnapshot"
    /\ IF SnapshotDue
       THEN /\ snapFile' = [index |-> appliedIndex, data |-> kv, conf |-> confState]
            /\ lastSnapshotIndex' = appliedIndex
            /\ IF CompactTo > offset
               THEN /\ offset' = CompactTo
                    /\ ents' = Slice(offset, ents, CompactTo + 1, LastIndex)
               ELSE UNCHANGED <<offset, ents>>
       ELSE UNCHANGED <<snapFile, lastSnapshotIndex, offset, ents>>
    /\ pc' = "advance"
    /\ UNCHANGED <<cluster, wal, rd, hard, appliedIndex, kv, confState, pending,
                   promised, restarts>>

Advance == /\ pc = "advance"
           /\ rd' = NoReady
           /\ pc' = "idle"
           /\ UNCHANGED <<cluster, disk, store, machine, pending, promised, restarts>>

HandleReady == \/ SaveSnapshot \/ AppendWAL \/ UpdateMemory \/ Deliver
               \/ ApplyIndex \/ ApplyValue \/ MaybeSnapshot \/ Advance

Next == \/ \E u \in 1..MaxTerm : Decide(u)
        \/ TakeReady
        \/ HandleReady
        \/ Crash
        \/ Boot

Spec == Init /\ [][Next]_vars

(* The run loop runs while the process lives; raft emits a Ready as long as  *)
(* committed entries are not applied.  Nothing restarts a dead process.      *)
Fairness == WF_vars(TakeReady) /\ WF_vars(HandleReady)

FairSpec == Spec /\ Fairness

-------------------------------------------------------------------------------
TypeOK == /\ chosen \in Seq(1..MaxTerm) /\ Len(chosen) <= MaxIndex
          /\ snapFile \in Snapshot
          /\ \A k \in DOMAIN wal : /\ wal[k].hard \in HardState
                                   /\ wal[k].ents \in Seq(Entry)
          /\ pc \in {"down", "panicked", "idle", "saveSnapshot", "appendWAL",
                     "memory", "deliver", "apply", "applyValue",
                     "maybeSnapshot", "advance"}
          /\ rd.snap \in Snapshot /\ rd.hard \in HardState /\ rd.ents \in Seq(Entry)
          /\ hard \in HardState
          /\ offset \in 0..MaxIndex /\ ents \in Seq(Entry)
          /\ appliedIndex \in 0..MaxIndex /\ kv \in Seq(1..MaxTerm)
          /\ confState \in 0..Peers /\ lastSnapshotIndex \in 0..MaxIndex
          /\ pending \in Seq(Entry)
          /\ restarts \in 0..MaxRestarts

(* State machine safety across snapshots, crashes and restarts: what a node  *)
(* has applied is what the cluster committed, in order, and appliedIndex     *)
(* says how much of it, except between the two critical sections of          *)
(* applyCommitted (lines 427-445).                                           *)
AppliedIsChosen ==
    /\ IsPrefix(kv, chosen)
    /\ Up => Len(kv) = IF pc = "applyValue" THEN appliedIndex - 1 ELSE appliedIndex

(* Nothing is sent or applied before it is on disk: from deliver on, the WAL *)
(* and the snapshot file describe the log and hard state in memory           *)
(* (lines 379-403), also while records overwrite earlier ones.               *)
DurableBeforeSend ==
    pc \in {"deliver", "apply", "applyValue", "maybeSnapshot", "advance", "idle"} =>
        /\ LoadedHard = hard
        /\ LET base == IF offset > snapFile.index THEN offset ELSE snapFile.index
           IN Misread \/ Above(ReplayedEntries, base) = Above(ents, base)

(* A process that dies now can start again from its files: neither the       *)
(* MemoryStorage nor raft panics on what load returns.                       *)
RestartIsPossible == ~BootPanics

(* The one way to files that cannot be started from is a death between the    *)
(* snapshot a leader sent and its hard state (lines 412-418).                *)
OnlyInstallBreaksRestart ==
    BootPanics => \/ Misread
                  \/ /\ leaders = "install"
                     /\ LoadedHard.commit < snapFile.index
                     /\ (pc = "appendWAL" /\ rd.snap.index > 0) \/ ~Up

(* What earlier messages promised still binds the node after a restart: its  *)
(* term and commit index do not go back, and no acknowledged entry is        *)
(* missing unless a leader overwrites entries.                               *)
PromisesKept ==
    Up => /\ hard.term >= promised.term
          /\ hard.commit >= promised.commit
          /\ leaders # "overwrite" => LastIndex >= promised.last

(* What is committed on a live node is eventually applied.                   *)
CommittedIsApplied ==
    \A i \in 1..MaxIndex : (Up /\ hard.commit >= i) ~> (appliedIndex >= i \/ ~Up \/ Misread)
================================================================================
