------------------------------ MODULE RaftCluster ------------------------------
(***************************************************************************)
(* The three-node clusters of src/etcd/raft and src/etcd/raft-wal-restart,  *)
(* and the scripts their main functions run against them: elect, write and  *)
(* wait until every active node has the value, stop a follower or restart   *)
(* everything from disk, write again.                                       *)
(*                                                                         *)
(* The raft library is external: an election, the replication of a log and  *)
(* the advance of a commit index are one step each, whose guards are those  *)
(* of raft and of deliver, which drops messages to stopped nodes.  What one *)
(* node does with its disk is in RaftNode.                                  *)
(***************************************************************************)
EXTENDS Integers, SequencesExt, FiniteSetsExt

CONSTANTS Node,          \* the ids 1, 2, 3
          Programs,      \* which mains are run: "raft", "wal-restart"
          MaxDeposed,    \* bound on elections that are not called for
          Deposing       \* the steps of main at which there are such elections

ASSUME ClusterAssumption == /\ Node \subseteq Nat \ {0} /\ IsFiniteSet(Node)
                            /\ Programs \subseteq {"raft", "wal-restart"}
                            /\ MaxDeposed \in [Programs -> Nat]
ASSUME DeposingAssumption == Deposing \in [Programs -> SUBSET Nat]

VARIABLES program,       \* the main that runs
          term, role, log, commit,    \* raft's state of each node
          wal,           \* the entries in each wal.log, in the order written
          deposed,       \* elections that were not called for
          loop,          \* where run is: "select", "apply", "exited"
          ready,         \* the commit index of the Ready being applied
          appliedIndex, kv, stopped,  \* raftNode's state
          step,          \* the step of the script main is at
          leaderID,      \* what waitLeader returned, 0 before
          stopping,      \* the nodes main has to stop before its next step
          outcome        \* "running", "done", "failed" (log.Fatal) or "misread"

raft  == <<term, role, log, commit, wal, deposed>>
nodes == <<loop, ready, appliedIndex, kv, stopped>>
main  == <<step, leaderID, stopping, outcome>>
vars == <<program, raft, nodes, main>>

NoOp == "noop"

(* main, step by step, with one initial write for the several equal ones of   *)
(* the code: a write is proposed and waited for.                             *)
RaftMain == << <<"leader">>, <<"propose", "x">>, <<"wait", "x">>, <<"stop">>,
               <<"propose", "z">>, <<"wait", "z">> >>
RestartMain == << <<"leader">>, <<"propose", "x">>, <<"wait", "x">>, <<"restart">>,
                  <<"leader">>, <<"wait", "x">>, <<"propose", "z">>, <<"wait", "z">>,
                  <<"stop">>, <<"propose", "k">>, <<"wait", "k">> >>

Script == IF program = "raft" THEN RaftMain ELSE RestartMain
Cmd == {"x", "z", "k"}
Op(i) == Script[i][1]
Arg(i) == Script[i][2]
At(op) == outcome = "running" /\ stopping = {} /\ Op(step) = op

Entry == [term : Nat, cmd : Cmd \cup {NoOp}]

Types ==  /\ program \in Programs
          /\ term \in [Node -> Nat] /\ role \in [Node -> {"follower", "leader"}]
          /\ log \in [Node -> Seq(Entry)]
          /\ commit \in [Node -> Nat]
          /\ deposed \in 0..MaxDeposed[program]
          /\ loop \in [Node -> {"select", "apply", "exited"}]
          /\ ready \in [Node -> Nat] /\ appliedIndex \in [Node -> Nat]
          /\ kv \in [Node -> SUBSET Cmd]
          /\ stopped \in [Node -> BOOLEAN]
          /\ step \in 1..Len(Script)
          /\ leaderID \in Node \cup {0}
          /\ stopping \in SUBSET Node
          /\ outcome \in {"running", "done", "failed"}
          /\ \A n \in Node : appliedIndex[n] <= commit[n] /\ commit[n] <= Len(log[n])

(* What a start has misread is no log.                                       *)
TypeOK == outcome # "misread" => Types

Init == /\ program \in Programs
        /\ term = [n \in Node |-> 0] /\ role = [n \in Node |-> "follower"]
        /\ log = [n \in Node |-> <<>>] /\ commit = [n \in Node |-> 0]
        /\ wal = [n \in Node |-> <<>>]
        /\ deposed = 0
        /\ loop = [n \in Node |-> "select"]
        /\ ready = [n \in Node |-> 0] /\ appliedIndex = [n \in Node |-> 0]
        /\ kv = [n \in Node |-> {}] /\ stopped = [n \in Node |-> FALSE]
        /\ step = 1 /\ leaderID = 0 /\ stopping = {}
        /\ outcome = "running"

Majority(S) == 2 * Cardinality(S) > Cardinality(Node)
Quorum == {S \in SUBSET Node : Majority(S) /\ \A n \in S : ~Majority(S \ {n})}
activeNodeIDs == {n \in Node : ~stopped[n]}
leaders == {n \in activeNodeIDs : role[n] = "leader"}
Commands(l) == {e.cmd : e \in Range(l)} \ {NoOp}

(* A message of a node leaves in deliver, which only a running loop calls,    *)
(* and reaches a node that is not stopped.                                   *)
Delivers(n, to) == loop[n] = "select" /\ (to = n \/ ~stopped[to])

-------------------------------------------------------------------------------
(* The disks of src/etcd/raft-wal-restart *)

(* appendWAL: the entries of log l after index i go behind what is there.     *)
Appended(n, l, i) ==
    wal' = IF program = "raft" THEN wal
           ELSE [wal EXCEPT ![n] = @ \o [k \in 1..(Len(l) - i) |->
                                            [index |-> i + k, entry |-> l[i + k]]]]

(* load after a snapshot at index s: every entry above s, in the order they   *)
(* were written, the ones that later ones have replaced included.            *)
Loaded(n, s) ==
    LET above == SelectSeq(wal[n], LAMBDA w : w.index > s)
    IN SubSeq(log[n], 1, s) \o [k \in DOMAIN above |-> above[k].entry]

(* The snapshots there may be: none, or one of an index that was applied.  The  *)
(* five entries between two of them (snapshotEvery) are not counted, since one  *)
(* write stands for several.                                                   *)
Snapshots == {s \in [Node -> UNION {0..appliedIndex[n] : n \in Node}] :
                  \A n \in Node : s[n] <= appliedIndex[n]}

-------------------------------------------------------------------------------
(* The raft library (external) *)

LastTerm(n) == IF log[n] = <<>> THEN 0 ELSE Last(log[n]).term
UpToDate(n, m) == \/ LastTerm(n) > LastTerm(m)
                  \/ LastTerm(n) = LastTerm(m) /\ Len(log[n]) >= Len(log[m])

(* Nobody leads, and main is not about to stop who could.  Any other election  *)
(* deposes a leader or falls between two stops.                               *)
CalledFor == leaders = {} /\ stopping = {}

(* A bare majority votes for n in a new term; leaders outside of it do not hear   *)
(* of that.  The new leader appends an empty entry.                          *)
Elect(n) ==
    /\ CalledFor \/ (deposed < MaxDeposed[program] /\ step \in Deposing[program])
    /\ \E votes \in Quorum :
         /\ n \in votes
         /\ \A m \in votes : Delivers(n, m) /\ Delivers(m, n) /\ UpToDate(n, m)
         /\ LET t == Max({term[m] : m \in votes}) + 1
            IN /\ term' = [m \in Node |-> IF m \in votes THEN t ELSE term[m]]
               /\ log' = [log EXCEPT ![n] = Append(@, [term |-> t, cmd |-> NoOp])]
         /\ Appended(n, log'[n], Len(log[n]))
         /\ role' = [m \in Node |-> IF m = n THEN "leader"
                                    ELSE IF m \in votes THEN "follower" ELSE role[m]]
    /\ deposed' = IF CalledFor THEN deposed ELSE deposed + 1
    /\ UNCHANGED <<program, commit, nodes, main>>

(* How far the logs of two nodes are the same.                               *)
Agreed(l, f) == Len(LongestCommonPrefix({log[l], log[f]}))

(* Leader l brings f up to its own log and commit index.                     *)
Replicate(l, f) ==
    /\ role[l] = "leader" /\ f # l
    /\ Delivers(l, f)
    /\ term[f] <= term[l]
    /\ <<term[f], log[f], commit[f]>> # <<term[l], log[l], commit[l]>>
    /\ term' = [term EXCEPT ![f] = term[l]]
    /\ role' = [role EXCEPT ![f] = "follower"]
    /\ log' = [log EXCEPT ![f] = log[l]]
    /\ Appended(f, log[l], Agreed(l, f))
    /\ commit' = [commit EXCEPT ![f] = Max({@, commit[l]})]
    /\ UNCHANGED <<program, deposed, nodes, main>>

(* An entry of its own term that a majority holds is committed.              *)
LeaderCommit(l) ==
    /\ role[l] = "leader" /\ loop[l] # "exited"
    /\ LastTerm(l) = term[l]
    /\ commit[l] < Len(log[l])
    /\ Majority({n \in Node : term[n] = term[l] /\ IsPrefix(log[l], log[n])})
    /\ commit' = [commit EXCEPT ![l] = Len(log[l])]
    /\ UNCHANGED <<program, term, role, log, wal, deposed, nodes, main>>

-------------------------------------------------------------------------------
(* run: the loop of one node *)

LoopGoes(n, from, to) == loop[n] = from /\ loop' = [loop EXCEPT ![n] = to]


TakeReady(n) == /\ LoopGoes(n, "select", "apply")
                /\ appliedIndex[n] < commit[n]
                /\ ready' = [ready EXCEPT ![n] = commit[n]]
                /\ UNCHANGED <<program, raft, appliedIndex, kv, stopped, main>>

(* applyCommitted, one entry; the entries without data only move the index.  *)
ApplyEntry(n) ==
    /\ LoopGoes(n, "apply", IF appliedIndex[n] + 1 < ready[n] THEN "apply" ELSE "select")
    /\ appliedIndex' = [appliedIndex EXCEPT ![n] = @ + 1]
    /\ kv' = [kv EXCEPT ![n] = @ \cup ({log[n][appliedIndex'[n]].cmd} \ {NoOp})]
    /\ UNCHANGED <<program, raft, ready, stopped, main>>

(* Only between two Readys does the loop look at stopCh.                     *)
Exit(n) == /\ stopped[n]
           /\ LoopGoes(n, "select", "exited")
           /\ UNCHANGED <<program, raft, ready, appliedIndex, kv, stopped, main>>

Run(n) == TakeReady(n) \/ ApplyEntry(n) \/ Exit(n)

-------------------------------------------------------------------------------
(* main *)

NextStep == IF step = Len(Script) THEN step' = step /\ outcome' = "done"
            ELSE step' = step + 1 /\ UNCHANGED outcome

(* waitLeader: the first active node that takes itself for the leader.       *)
WaitLeader ==
    /\ At("leader")
    /\ leaders # {}
    /\ leaderID' = Min(leaders)
    /\ NextStep
    /\ UNCHANGED <<program, raft, nodes, stopping>>

AppendAt(n) ==
    /\ log' = [log EXCEPT ![n] = Append(@, [term |-> term[n], cmd |-> Arg(step)])]
    /\ Appended(n, log'[n], Len(log[n]))

(* Mutant: the proposal is taken and dropped. *)
ProposeNowhere ==
    /\ At("propose")
    /\ UNCHANGED <<log, wal>>
    /\ NextStep
    /\ UNCHANGED <<program, term, role, commit, deposed, nodes, leaderID, stopping>>

(* proposeKV returns once raft has taken the proposal.  If the node is no     *)
(* longer the leader it sends it on, and the proposal arrives or is dropped. *)
Propose ==
    /\ At("propose")
    /\ \/ role[leaderID] = "leader" /\ AppendAt(leaderID)
       \/ /\ role[leaderID] # "leader"
          /\ \E l \in leaders : AppendAt(l)
       \/ role[leaderID] # "leader" /\ UNCHANGED <<log, wal>>
    /\ NextStep
    /\ UNCHANGED <<program, term, role, commit, deposed, nodes, leaderID, stopping>>

(* Mutant: one node with the value is enough. *)
WaitValueOnOneNode ==
    /\ At("wait")
    /\ \E n \in activeNodeIDs : Arg(step) \in kv[n]
    /\ NextStep
    /\ UNCHANGED <<program, raft, nodes, leaderID, stopping>>

(* waitValueOnActiveNodes *)
WaitValue == /\ At("wait")
             /\ \A n \in activeNodeIDs : Arg(step) \in kv[n]
             /\ NextStep
             /\ UNCHANGED <<program, raft, nodes, leaderID, stopping>>

(* The first active node other than leaderID; in src/etcd/raft it must not   *)
(* take itself for a leader.                                                 *)
chooseFollower ==
    {n \in activeNodeIDs \ {leaderID} : program = "raft" => role[n] # "leader"}

(* stop sets the flag and closes stopCh ...                                  *)
StopFollower == /\ At("stop")
                /\ chooseFollower # {}
                /\ stopping' = {Min(chooseFollower)}
                /\ stopped' = [stopped EXCEPT ![Min(chooseFollower)] = TRUE]
                /\ UNCHANGED <<program, raft, loop, ready, appliedIndex, kv, step,
                               leaderID, outcome>>

(* Mutant: stop returns as soon as the flag is set. *)
StopReturnsAtOnce == /\ outcome = "running" /\ Op(step) = "stop"
                     /\ stopping # {}
                     /\ stopping' = {}
                     /\ NextStep
                     /\ UNCHANGED <<program, raft, nodes, leaderID>>

(* ... and returns when doneCh is closed.                                    *)
StopReturns == /\ outcome = "running" /\ Op(step) = "stop"
               /\ stopping # {}
               /\ \A n \in stopping : loop[n] = "exited"
               /\ stopping' = {}
               /\ NextStep
               /\ UNCHANGED <<program, raft, nodes, leaderID>>

(* stopAll stops one node after the other.                                   *)
StopNext == /\ outcome = "running" /\ Op(step) = "restart"
            /\ \A n \in stopping : loop[n] = "exited"
            /\ \E n \in activeNodeIDs :
                 /\ stopped' = [stopped EXCEPT ![n] = TRUE]
                 /\ stopping' = stopping \cup {n}
            /\ UNCHANGED <<program, raft, loop, ready, appliedIndex, kv, step, leaderID,
                           outcome>>

(* Mutant: the state machine is restored ahead of the index. *)
RestartBehind ==
    /\ outcome = "running" /\ Op(step) = "restart"
    /\ stopping = Node /\ \A n \in Node : loop[n] = "exited"
    /\ appliedIndex' = [n \in Node |-> 0]
    /\ kv' = [n \in Node |-> Commands(log[n])]
    /\ role' = [n \in Node |-> "follower"]
    /\ loop' = [n \in Node |-> "select"]
    /\ stopped' = [n \in Node |-> FALSE]
    /\ stopping' = {}
    /\ leaderID' = 0
    /\ NextStep
    /\ UNCHANGED <<program, term, log, commit, wal, deposed, ready>>

(* newPersistentCluster: terms and commit indexes come back from the WAL, the *)
(* state machines from a snapshot, if one was taken, and the logs from both.  *)
AllExited == /\ outcome = "running" /\ Op(step) = "restart"
             /\ stopping = Node /\ \A n \in Node : loop[n] = "exited"

Restart ==
    /\ AllExited
    /\ \E snap \in Snapshots :
         /\ \A n \in Node : Loaded(n, snap[n]) = log[n]
         /\ appliedIndex' = snap
         /\ kv' = [n \in Node |-> Commands(SubSeq(log[n], 1, snap[n]))]
    /\ role' = [n \in Node |-> "follower"]
    /\ loop' = [n \in Node |-> "select"]
    /\ stopped' = [n \in Node |-> FALSE]
    /\ stopping' = {}
    /\ leaderID' = 0
    /\ NextStep
    /\ UNCHANGED <<program, term, log, commit, wal, deposed, ready>>

(* If a replaced entry is among them, the positions in a log are not the       *)
(* indexes of its entries any more: the cluster starts outside of the rules   *)
(* of raft, and the model ends with what was loaded (see RaftNode, Misread).  *)
MisreadStart ==
    /\ AllExited
    /\ \E snap \in Snapshots :
         /\ \E n \in Node : Loaded(n, snap[n]) # log[n]
         /\ log' = [n \in Node |-> Loaded(n, snap[n])]
    /\ outcome' = "misread"
    /\ UNCHANGED <<program, term, role, commit, wal, deposed, nodes, step, leaderID, stopping>>

(* The deadlines of waitLeader and waitValueOnActiveNodes, and a script that *)
(* finds no follower, end in log.Fatal.                                      *)
Fatal == /\ \/ At("leader") \/ At("wait")
            \/ At("stop") /\ chooseFollower = {}
         /\ outcome' = "failed"
         /\ UNCHANGED <<program, raft, nodes, step, leaderID, stopping>>

Main == \/ WaitLeader \/ Propose \/ WaitValue \/ StopFollower \/ StopReturns
        \/ StopNext \/ Restart \/ MisreadStart

Ended == outcome # "running" /\ UNCHANGED vars

(* The process ends with main.                                               *)
Next == \/ /\ outcome = "running"
           /\ \/ \E n \in Node : Elect(n) \/ LeaderCommit(n) \/ Run(n)
              \/ \E l, f \in Node : Replicate(l, f)
              \/ Main \/ Fatal
        \/ Ended

Spec == Init /\ [][Next]_vars

(* Goroutines that can run do run, and a cluster without a leader elects one; *)
(* no deadline has to pass.  Every step of Progress leads forward, so one     *)
(* fairness condition for all of them is as strong as one for each.          *)
Progress == /\ outcome = "running"
            /\ \/ \E n \in Node : (CalledFor /\ Elect(n)) \/ LeaderCommit(n) \/ Run(n)
               \/ \E l, f \in Node : Replicate(l, f)
               \/ Main

FairSpec == Spec /\ WF_vars(Progress)

-------------------------------------------------------------------------------
Applied(n) == SubSeq(log[n], 1, appliedIndex[n])

(* All nodes apply the same commands in the same order, before and after a   *)
(* restart, and kv is what the applied part of the log makes it              *)
(* (README.md:9 of src/etcd/raft, "所有存活节点应用到同样的值").               *)
StateMachinesAgree ==
    outcome # "misread" =>
    \A n \in Node : /\ kv[n] = Commands(Applied(n))
                    /\ \A m \in Node : \/ IsPrefix(Applied(n), Applied(m))
                                       \/ IsPrefix(Applied(m), Applied(n))

(* What main has once seen on all active nodes (waitValueOnActiveNodes) stays *)
(* committed on each of them, through depositions, stops and restarts.        *)
Waited == {Arg(i) : i \in {j \in 1..(step - 1) : Op(j) = "wait"}}
WaitedIsCommitted ==
    outcome # "misread" =>
    \A n \in activeNodeIDs : Waited \subseteq Commands(SubSeq(log[n], 1, commit[n]))

(* When stop has returned, the node applies nothing and accepts nothing any  *)
(* more: it waited for doneCh, not only for the flag.                        *)
StoppedIsSilent ==
    [][\A n \in Node : stopped[n] /\ n \notin stopping =>
            /\ kv'[n] = kv[n] /\ appliedIndex'[n] = appliedIndex[n]
            /\ log'[n] = log[n] /\ term'[n] = term[n]]_vars

(* "停掉一个 follower 后，剩余多数派（2/3）仍可提交新日志" (README.md:10 of       *)
(* src/etcd/raft): with the leader main has found staying the leader and no   *)
(* deadline passing, the whole script comes to its end.                      *)
Steady == leaderID # 0 => /\ role[leaderID] = "leader"
                          /\ \A n \in Node : term[n] <= term[leaderID]
MajorityStillCommits == [](Steady /\ outcome \notin {"failed", "misread"}) => <>(outcome = "done")
================================================================================
