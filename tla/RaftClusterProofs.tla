---------------------------- MODULE RaftClusterProofs ----------------------------
(***************************************************************************)
(* What holds of the clusters for every number of nodes and of depositions:   *)
(* state machines agree, what main has waited for stays, and a stopped node    *)
(* is silent.                                                                *)
(***************************************************************************)
EXTENDS RaftCluster, FiniteSetTheorems, TLAPS

USE ClusterAssumption DEF ClusterAssumption

-------------------------------------------------------------------------------
(* The largest and the least of a finite set of numbers, by induction over its  *)
(* subsets.                                                                  *)
LEMMA Extremes ==
    ASSUME NEW S \in SUBSET Nat, IsFiniteSet(S), S # {}
    PROVE  /\ Max(S) \in S /\ \A x \in S : x <= Max(S)
           /\ Min(S) \in S
  <1> DEFINE Good(T) == /\ \E x \in T : \A y \in T : x >= y
                        /\ \E x \in T : \A y \in T : x <= y
             Bad == {T \in FiniteSubsetsOf(Nat) : T # {} /\ ~Good(T)}
  <1>1. Bad = {}
    <2> SUFFICES ASSUME Bad # {} PROVE FALSE
      OBVIOUS
    <2>1. PICK T \in Bad : \A U \in Bad : <<U, T>> \notin StrictSubsetOrdering(Nat)
      <3> HIDE DEF Bad
      <3>1. Bad \subseteq FiniteSubsetsOf(Nat)
        BY DEF Bad
      <3> QED
        BY <3>1, FS_StrictSubsetOrderingWellFounded, WFMin, Zenon
    <2>2. T \in SUBSET Nat /\ IsFiniteSet(T) /\ T # {}
      BY DEF FiniteSubsetsOf
    <2>3. PICK x \in T : TRUE
      BY <2>2
    <2> DEFINE U == T \ {x}
    <2>4. IsFiniteSet(U) /\ U \in SUBSET Nat
      BY <2>2, FS_RemoveElement
    <2>5. <<U, T>> \in StrictSubsetOrdering(Nat)
      BY <2>2, <2>3, <2>4 DEF StrictSubsetOrdering
    <2>6. U \notin Bad
      BY <2>1, <2>5
    <2>7. CASE U = {}
      <3>1. T = {x} /\ x \in Nat
        BY <2>2, <2>3, <2>7
      <3> QED
        BY <3>1, <2>1
    <2>8. CASE U # {}
      <3>1. Good(U)
        BY <2>4, <2>6, <2>8 DEF FiniteSubsetsOf
      <3>2. PICK hi \in U, lo \in U : \A y \in U : hi >= y /\ lo <= y
        BY <3>1
      <3>3. \A y \in T : y = x \/ y \in U
        OBVIOUS
      <3>4. x \in Nat /\ hi \in Nat /\ lo \in Nat /\ hi \in T /\ lo \in T
        BY <2>2, <2>3, <2>4, <3>2
      <3>5. \E z \in T : \A y \in T : z >= y
        <4>1. CASE hi >= x
          BY <4>1, <3>2, <3>3, <3>4
        <4>2. CASE ~(hi >= x)
          <5>1. \A y \in T : x >= y
            BY <4>2, <3>2, <3>3, <3>4, <2>2
          <5> QED
            BY <5>1, <2>3
        <4> QED
          BY <4>1, <4>2
      <3>6. \E z \in T : \A y \in T : z <= y
        <4>1. CASE lo <= x
          BY <4>1, <3>2, <3>3, <3>4
        <4>2. CASE ~(lo <= x)
          <5>1. \A y \in T : x <= y
            BY <4>2, <3>2, <3>3, <3>4, <2>2
          <5> QED
            BY <5>1, <2>3
        <4> QED
          BY <4>1, <4>2
      <3> QED
        BY <3>5, <3>6, <2>1
    <2> QED
      BY <2>7, <2>8
  <1>2. Good(S)
    BY <1>1 DEF FiniteSubsetsOf
  <1>3. Max(S) \in S /\ \A y \in S : Max(S) >= y
    BY <1>2, Zenon DEF Max
  <1>4. Min(S) \in S
    BY <1>2, Zenon DEF Min
  <1>5. \A y \in S : y \in Nat
    OBVIOUS
  <1> QED
    BY <1>3, <1>4, <1>5

(* Some nodes have a greatest term.                                          *)
LEMMA MaxTermOf ==
    ASSUME NEW V \in SUBSET Node, V # {}, term \in [Node -> Nat]
    PROVE  LET t == Max({term[m] : m \in V}) IN t \in Nat /\ \A m \in V : term[m] <= t
  <1> DEFINE S == {term[m] : m \in V}
  <1>1. IsFiniteSet(V)
    BY FS_Subset
  <1>2. IsFiniteSet(S)
    <2> DEFINE f == [m \in V |-> term[m]]
    <2>1. f \in Surjection(V, S)
      BY DEF Surjection
    <2> QED
      BY <1>1, <2>1, FS_Surjection
  <1>3. S \in SUBSET Nat /\ S # {}
    <2>1. \A m \in V : term[m] \in Nat
      OBVIOUS
    <2>2. \A x \in S : x \in Nat
      BY <2>1
    <2>3. PICK m \in V : TRUE
      OBVIOUS
    <2>4. term[m] \in S
      OBVIOUS
    <2> QED
      BY <2>2, <2>4
  <1>4. Max(S) \in S /\ \A x \in S : x <= Max(S)
    BY <1>2, <1>3, Extremes
  <1> QED
    BY <1>3, <1>4

(* Two majorities meet.                                                      *)
LEMMA MajoritiesMeet ==
    ASSUME NEW A \in SUBSET Node, NEW B \in SUBSET Node, Majority(A), Majority(B)
    PROVE  \E n \in A : n \in B
  <1>1. /\ IsFiniteSet(A) /\ IsFiniteSet(B) /\ IsFiniteSet(A \cup B)
        /\ Cardinality(A \cup B) <= Cardinality(Node)
    BY FS_Subset
  <1>2. /\ Cardinality(A) \in Nat /\ Cardinality(B) \in Nat /\ Cardinality(A \cup B) \in Nat
        /\ Cardinality(Node) \in Nat
    BY <1>1, FS_CardinalityType
  <1>3. Cardinality(A \cup B) = Cardinality(A) + Cardinality(B) - Cardinality(A \cap B)
    BY <1>1, FS_Union
  <1>4. Cardinality(A \cap B) # 0
    BY <1>1, <1>2, <1>3, FS_Intersection DEF Majority
  <1> QED
    BY <1>4, FS_EmptySet

(* A majority has a member.                                                  *)
LEMMA MajorityNotEmpty ==
    ASSUME NEW A \in SUBSET Node, Majority(A) PROVE A # {}
  BY FS_EmptySet, FS_CardinalityType DEF Majority

-------------------------------------------------------------------------------
(* Raft.  The first i entries of node n's log are in that of m.               *)
Has(m, n, i) == i <= Len(log[m]) /\ \A k \in 1..i : log[m][k] = log[n][k]

RaftTypes == /\ term \in [Node -> Nat] /\ role \in [Node -> {"follower", "leader"}]
             /\ log \in [Node -> Seq(Entry)] /\ commit \in [Node -> Nat]

(* A term is voted for by a majority, so that a new one is above all others.   *)
Voted == \A n \in Node : \E Q \in SUBSET Node :
             Majority(Q) /\ \A m \in Q : term[m] >= term[n]

Ordered == \A n \in Node : \A i \in 1..Len(log[n]) :
    /\ log[n][i].term <= term[n]
    /\ \A j \in i..Len(log[n]) : log[n][i].term <= log[n][j].term

(* The leader of a term is one, has an entry of it, and has every entry of it.  *)
OneLeader == \A n, m \in Node :
    role[n] = "leader" /\ role[m] = "leader" /\ term[n] = term[m] => n = m
LeaderHasAll == \A l \in Node : role[l] = "leader" =>
    /\ log[l] # <<>> /\ log[l][Len(log[l])].term = term[l]
    /\ \A n \in Node : \A i \in 1..Len(log[n]) : log[n][i].term = term[l] => Has(l, n, i)

(* Of two logs with entries of one term, the one has what the other has.       *)
Matching == \A n, m \in Node : \A i \in 1..Len(log[n]), j \in 1..Len(log[m]) :
    i <= j /\ log[n][i].term = log[m][j].term => Has(m, n, i)

(* What is committed is in the logs of a majority and in every log with an     *)
(* entry of a later term.                                                    *)
CommitHeld(n) == /\ \E Q \in SUBSET Node : Majority(Q) /\ \A m \in Q : Has(m, n, commit[n])
                 /\ \A m \in Node : \A i \in 1..Len(log[m]) :
                       log[m][i].term > log[n][commit[n]].term => Has(m, n, commit[n])
Kept == \A n \in Node : /\ commit[n] <= Len(log[n])
                        /\ commit[n] > 0 => CommitHeld(n)

RaftInv == RaftTypes /\ Voted /\ Ordered /\ OneLeader /\ LeaderHasAll /\ Matching /\ Kept

(* No log and no commit index loses anything that is committed.               *)
Grows == \A n \in Node : /\ commit[n] <= commit'[n]
                         /\ commit[n] <= Len(log'[n])
                         /\ \A k \in 1..commit[n] : log'[n][k] = log[n][k]

(* Logs hold entries, and terms and commit indexes are numbers.              *)
LEMMA EntryType ==
    ASSUME RaftTypes, NEW n \in Node
    PROVE  /\ Len(log[n]) \in Nat /\ term[n] \in Nat /\ commit[n] \in Nat
           /\ \A i \in 1..Len(log[n]) : log[n][i] \in Entry /\ log[n][i].term \in Nat
  <1>1. log[n] \in Seq(Entry) /\ term[n] \in Nat /\ commit[n] \in Nat
    BY DEF RaftTypes
  <1>2. \A i \in 1..Len(log[n]) : log[n][i] \in Entry
    BY <1>1
  <1>3. \A e \in Entry : e.term \in Nat
    BY DEF Entry
  <1> QED
    BY <1>1, <1>2, <1>3

(* A leader has what a node whose last committed term is not above its own   *)
(* has committed.                                                            *)
LEMMA LeaderHasCommitted ==
    ASSUME RaftInv, NEW l \in Node, role[l] = "leader", NEW n \in Node, commit[n] > 0,
           log[n][commit[n]].term <= term[l]
    PROVE  Has(l, n, commit[n])
  <1>1. /\ commit[n] \in 1..Len(log[n]) /\ CommitHeld(n)
        /\ Len(log[l]) \in 1..Len(log[l]) /\ log[l][Len(log[l])].term = term[l]
    BY DEF RaftInv, RaftTypes, Kept, LeaderHasAll
  <1>2. CASE log[n][commit[n]].term = term[l]
    BY <1>1, <1>2 DEF RaftInv, LeaderHasAll
  <1>3. CASE log[n][commit[n]].term < term[l]
    BY <1>1, <1>3 DEF CommitHeld
  <1>4. log[n][commit[n]].term \in Nat /\ term[l] \in Nat
    BY <1>1, EntryType DEF RaftInv
  <1> QED
    BY <1>2, <1>3, <1>4

(* What an entry more at the end of one log leaves as it was.                  *)
LEMMA OneMore ==
    ASSUME RaftTypes, NEW l \in Node, NEW e \in Entry,
           log' = [log EXCEPT ![l] = Append(@, e)]
    PROVE  /\ log' \in [Node -> Seq(Entry)]
           /\ log'[l][Len(log[l]) + 1] = e
           /\ \A n \in Node : /\ Len(log[n]) \in Nat /\ Len(log'[n]) \in Nat
                              /\ Len(log[n]) <= Len(log'[n])
                              /\ \A k \in 1..Len(log[n]) : log'[n][k] = log[n][k]
                              /\ \A k \in 1..Len(log'[n]) :
                                   k \in 1..Len(log[n]) \/ (n = l /\ k = Len(log[l]) + 1)
           /\ Len(log'[l]) = Len(log[l]) + 1
           /\ \A n, m \in Node : \A i \in 0..Len(log[n]) : Has(m, n, i) => Has(m, n, i)'
  <1>1. log \in [Node -> Seq(Entry)] /\ log[l] \in Seq(Entry)
    <2>1. log \in [Node -> Seq(Entry)]
      BY DEF RaftTypes
    <2> QED
      BY <2>1
  <1>2. /\ log'[l] = Append(log[l], e)
        /\ \A n \in Node : n # l => log'[n] = log[n]
        /\ log' \in [Node -> Seq(Entry)]
    BY <1>1
  <1>3. /\ Len(log'[l]) = Len(log[l]) + 1 /\ log'[l][Len(log[l]) + 1] = e
        /\ \A k \in 1..Len(log[l]) : log'[l][k] = log[l][k]
    BY <1>1, <1>2
  <1>4. ASSUME NEW n \in Node
        PROVE  /\ Len(log[n]) \in Nat /\ Len(log'[n]) \in Nat
               /\ Len(log[n]) <= Len(log'[n])
               /\ \A k \in 1..Len(log[n]) : log'[n][k] = log[n][k]
               /\ \A k \in 1..Len(log'[n]) :
                    k \in 1..Len(log[n]) \/ (n = l /\ k = Len(log[l]) + 1)
    <2>1. Len(log[n]) \in Nat
      BY EntryType
    <2>2. CASE n = l
      BY <1>1, <1>3, <2>2
    <2>3. CASE n # l
      <3>1. log'[n] = log[n] /\ Len(log'[n]) = Len(log[n])
        BY <1>2, <2>3
      <3>2. Len(log[n]) <= Len(log[n])
        BY <2>1
      <3> QED
        BY <3>1, <3>2, <2>1, Zenon
    <2> QED
      BY <2>2, <2>3
  <1>5. \A n, m \in Node : \A i \in 0..Len(log[n]) : Has(m, n, i) => Has(m, n, i)'
    BY <1>4 DEF Has
  <1> QED
    BY <1>2, <1>3, <1>4, <1>5

(* An entry in the leader's own term, at the end of its log.                  *)
LEMMA AppendStep ==
    ASSUME RaftInv, NEW l \in Node, role[l] = "leader", NEW c \in Cmd \cup {NoOp},
           log' = [log EXCEPT ![l] = Append(@, [term |-> term[l], cmd |-> c])],
           UNCHANGED <<term, role, commit>>
    PROVE  RaftInv' /\ Grows
  <1> USE DEF RaftInv
  <1> DEFINE e == [term |-> term[l], cmd |-> c]
             len == Len(log[l])
  <1>1. e \in Entry /\ e.term = term[l]
    <2>1. term[l] \in Nat
      BY DEF RaftTypes
    <2> QED
      BY <2>1 DEF Entry
  <1>2. log' = [log EXCEPT ![l] = Append(@, e)]
    OBVIOUS
  <1> HIDE DEF e
  <1>3. log' \in [Node -> Seq(Entry)] /\ log'[l][len + 1] = e /\ Len(log'[l]) = len + 1
    BY <1>1, <1>2, OneMore
  <1>4. \A n \in Node : /\ Len(log[n]) \in Nat /\ Len(log'[n]) \in Nat
                        /\ Len(log[n]) <= Len(log'[n])
                        /\ \A k \in 1..Len(log[n]) : log'[n][k] = log[n][k]
                        /\ \A k \in 1..Len(log'[n]) : k \in 1..Len(log[n]) \/ (n = l /\ k = len + 1)
    BY <1>1, <1>2, OneMore
  <1>5. \A n, m \in Node : \A i \in 0..Len(log[n]) : Has(m, n, i) => Has(m, n, i)'
    BY <1>1, <1>2, OneMore
  <1> HIDE DEF len
  <1>6. RaftTypes'
    BY <1>3 DEF RaftTypes
  <1>7. Voted' /\ OneLeader'
    BY DEF Voted, OneLeader
  <1>8. Ordered'
    BY <1>1, <1>3, <1>4 DEF Ordered, RaftTypes
  <1>9. LeaderHasAll'
    BY <1>1, <1>3, <1>4, <1>5 DEF LeaderHasAll, OneLeader, Has
  <1>10. Matching'
    BY <1>1, <1>3, <1>4, <1>5 DEF Matching, LeaderHasAll, Has
  <1>11. Kept'
    <2> SUFFICES ASSUME NEW n \in Node PROVE commit[n] <= Len(log'[n]) /\ (commit[n] > 0 => CommitHeld(n)')
      BY DEF Kept
    <2>1. commit[n] \in Nat /\ commit[n] <= Len(log[n]) /\ commit[n] <= Len(log'[n])
      BY <1>4, EntryType DEF Kept
    <2>2. CASE commit[n] > 0
      <3>1. CommitHeld(n) /\ commit[n] \in 0..Len(log[n]) /\ log'[n][commit[n]] = log[n][commit[n]]
        BY <1>4, <2>1, <2>2 DEF Kept
      <3>2. \E Q \in SUBSET Node : Majority(Q) /\ \A m \in Q : Has(m, n, commit[n])'
        BY <1>5, <3>1 DEF CommitHeld
      <3>3. ASSUME NEW m \in Node, NEW i \in 1..Len(log'[m]),
                   log'[m][i].term > log[n][commit[n]].term
            PROVE  Has(m, n, commit[n])'
        <4>1. CASE i \in 1..Len(log[m])
          <5>1. Has(m, n, commit[n])
            BY <1>4, <4>1, <3>1, <3>3 DEF CommitHeld
          <5> QED
            BY <5>1, <1>5, <3>1
        <4>2. CASE m = l /\ i = len + 1
          <5>1. log[n][commit[n]].term <= term[l]
            BY <3>3, <4>2, <1>1, <1>3, <2>1, <2>2, EntryType
          <5>2. Has(l, n, commit[n])
            BY <5>1, <2>2, LeaderHasCommitted
          <5> QED
            BY <5>2, <4>2, <1>5, <3>1
        <4> QED
          BY <1>4, <4>1, <4>2
      <3> QED
        BY <3>1, <3>2, <3>3, <2>1 DEF CommitHeld, Majority
    <2> QED
      BY <2>1, <2>2
  <1>12. Grows
    BY <1>4 DEF Grows, Kept, RaftTypes
  <1> QED
    BY <1>6, <1>7, <1>8, <1>9, <1>10, <1>11, <1>12

(* A majority gives node n a term above all others and an entry of that term.   *)
LEMMA ElectStep ==
    ASSUME RaftInv, NEW n \in Node, Elect(n)
    PROVE  RaftInv' /\ Grows
  <1> USE DEF RaftInv
  <1>1. PICK votes \in SUBSET Node :
          /\ Majority(votes) /\ n \in votes
          /\ \A m \in votes : UpToDate(n, m)
          /\ LET t == Max({term[m] : m \in votes}) + 1
             IN /\ term' = [m \in Node |-> IF m \in votes THEN t ELSE term[m]]
                /\ log' = [log EXCEPT ![n] = Append(@, [term |-> t, cmd |-> NoOp])]
          /\ role' = [m \in Node |-> IF m = n THEN "leader"
                                     ELSE IF m \in votes THEN "follower" ELSE role[m]]
    BY DEF Elect, Quorum
  <1> DEFINE t == Max({term[m] : m \in votes}) + 1
             e == [term |-> t, cmd |-> NoOp]
             len == Len(log[n])
  <1>2. t \in Nat /\ \A m \in Node : term[m] < t
    <2>1. Max({term[m] : m \in votes}) \in Nat
          /\ \A m \in votes : term[m] <= Max({term[k] : k \in votes})
      BY <1>1, MaxTermOf DEF RaftTypes
    <2> HIDE DEF RaftInv
    <2>2. ASSUME NEW m \in Node PROVE term[m] < t
      <3>1. PICK Q \in SUBSET Node : Majority(Q) /\ \A k \in Q : term[k] >= term[m]
        BY DEF RaftInv, Voted
      <3>2. PICK k \in Q : k \in votes
        BY <1>1, <3>1, MajoritiesMeet
      <3>3. term[k] \in Nat /\ term[m] \in Nat
        BY <3>2 DEF RaftInv, RaftTypes
      <3>4. term[k] >= term[m]
        BY <3>1, <3>2
      <3>5. term[k] <= Max({term[j] : j \in votes})
        BY <2>1, <3>2
      <3> QED
        BY <2>1, <3>3, <3>4, <3>5
    <2>3. t \in Nat
      BY ONLY <2>1
    <2> HIDE DEF t
    <2> QED
      BY <2>2, <2>3
  <1>3. e \in Entry /\ e.term = t
    BY <1>2 DEF Entry
  <1>4. /\ term' = [m \in Node |-> IF m \in votes THEN t ELSE term[m]]
        /\ log' = [log EXCEPT ![n] = Append(@, e)]
    BY <1>1
  <1> HIDE DEF e, t
  <1>5. log' \in [Node -> Seq(Entry)] /\ log'[n][len + 1] = e /\ Len(log'[n]) = len + 1
    BY <1>3, <1>4, OneMore
  <1>6. \A k \in Node : /\ Len(log[k]) \in Nat /\ Len(log'[k]) \in Nat
                        /\ Len(log[k]) <= Len(log'[k])
                        /\ \A i \in 1..Len(log[k]) : log'[k][i] = log[k][i]
                        /\ \A i \in 1..Len(log'[k]) : i \in 1..Len(log[k]) \/ (k = n /\ i = len + 1)
    BY <1>3, <1>4, OneMore
  <1>7. \A k, m \in Node : \A i \in 0..Len(log[k]) : Has(m, k, i) => Has(m, k, i)'
    BY <1>3, <1>4, OneMore
  <1>8. \A k \in Node : \A i \in 1..Len(log[k]) :
            log[k][i].term \in Nat /\ log[k][i].term <= term[k] /\ log[k][i].term < t
    BY <1>2, EntryType DEF Ordered, RaftTypes
  <1>9. \A m \in Node : term[m] \in Nat /\ term'[m] \in Nat /\ term[m] <= term'[m]
    BY <1>2, <1>4 DEF RaftTypes
  <1>10. term'[n] = t /\ (\A m \in votes : term'[m] = t)
         /\ \A m \in Node \ votes : term'[m] = term[m] /\ role'[m] = role[m]
    BY <1>1, <1>4
  <1>11. role'[n] = "leader" /\ \A m \in Node : m # n /\ role'[m] = "leader" => m \notin votes
    BY <1>1
  <1> HIDE DEF len
  <1>12. RaftTypes'
    <2>1. term' \in [Node -> Nat]
      BY <1>2, <1>4 DEF RaftTypes
    <2>2. role' \in [Node -> {"follower", "leader"}]
      BY <1>1 DEF RaftTypes
    <2>3. commit' \in [Node -> Nat]
      BY DEF RaftTypes, Elect
    <2> QED
      BY <2>1, <2>2, <2>3, <1>5 DEF RaftTypes
  <1>13. Voted'
    <2> SUFFICES ASSUME NEW k \in Node
                 PROVE \E Q \in SUBSET Node : Majority(Q) /\ \A m \in Q : term'[m] >= term'[k]
      BY DEF Voted, Majority
    <2>1. CASE k \in votes
      <3>1. \A m \in votes : term'[m] >= term'[k]
        BY <1>2, <1>10, <2>1
      <3> QED
        BY <1>1, <3>1
    <2>2. CASE k \notin votes
      <3>1. PICK Q \in SUBSET Node : Majority(Q) /\ \A m \in Q : term[m] >= term[k]
        BY DEF Voted
      <3>2. term'[k] = term[k]
        BY <1>10, <2>2
      <3>3. \A m \in Q : term'[m] >= term'[k]
        BY <1>9, <3>1, <3>2
      <3> QED
        BY <3>1, <3>3
    <2> QED
      BY <2>1, <2>2
  <1>14. Ordered'
    <2> SUFFICES ASSUME NEW k \in Node, NEW i \in 1..Len(log'[k])
                 PROVE /\ log'[k][i].term <= term'[k]
                       /\ \A j \in i..Len(log'[k]) : log'[k][i].term <= log'[k][j].term
      BY DEF Ordered
    <2>1. CASE i \in 1..Len(log[k])
      <3>1. log'[k][i].term <= term'[k]
        <4>1. log'[k][i].term = log[k][i].term
          BY <1>6, <2>1
        <4>2. log[k][i].term \in Nat /\ log[k][i].term <= term[k]
          BY <1>8, <2>1
        <4> QED
          BY <4>1, <4>2, <1>9
      <3>2. ASSUME NEW j \in i..Len(log'[k]) PROVE log'[k][i].term <= log'[k][j].term
        <4>1. CASE j \in 1..Len(log[k])
          BY <1>6, <2>1, <4>1 DEF Ordered
        <4>2. CASE k = n /\ j = len + 1
          <5>1. log'[k][j].term = t
            BY <1>3, <1>5, <4>2
          <5>2. log'[k][i].term = log[k][i].term
            BY <1>6, <2>1
          <5>3. log[k][i].term \in Nat /\ t \in Nat /\ log[k][i].term < t
            BY <1>2, <1>8, <2>1
          <5> QED
            BY <5>1, <5>2, <5>3
        <4>3. j \in 1..Len(log'[k])
          BY <1>6
        <4> QED
          BY <1>6, <4>1, <4>2, <4>3
      <3> QED
        BY <3>1, <3>2
    <2>2. CASE k = n /\ i = len + 1
      <3>1. log'[k][i].term = t /\ term'[k] = t /\ Len(log'[k]) = i
        BY <1>3, <1>5, <1>10, <2>2
      <3> QED
        BY <1>2, <1>6, <3>1
    <2> QED
      BY <1>6, <2>1, <2>2
  <1>15. OneLeader'
    <2>1. \A m \in Node \ votes : term'[m] # t
      BY <1>2, <1>9, <1>10
    <2> QED
      BY <2>1, <1>10, <1>11 DEF OneLeader
  <1>16. LeaderHasAll'
    <2> SUFFICES ASSUME NEW l \in Node, role'[l] = "leader"
                 PROVE  /\ log'[l] # <<>> /\ log'[l][Len(log'[l])].term = term'[l]
                        /\ \A k \in Node : \A i \in 1..Len(log'[k]) :
                             log'[k][i].term = term'[l] => Has(l, k, i)'
      BY DEF LeaderHasAll
    <2>1. CASE l = n
      <3>1. log'[n] # <<>> /\ log'[n][Len(log'[n])].term = term'[n]
        <4>1. Len(log'[n]) # 0
          BY <1>5, <1>6 DEF len
        <4>2. log'[n] # <<>>
          BY <4>1
        <4> QED
          BY <4>2, <1>3, <1>5, <1>10
      <3>2. ASSUME NEW k \in Node, NEW i \in 1..Len(log'[k]), log'[k][i].term = t
            PROVE  k = n /\ i = len + 1
        <4>1. i \notin 1..Len(log[k])
          BY <1>2, <1>6, <1>8, <3>2
        <4> QED
          BY <4>1, <1>6
      <3>3. \A i \in 1..Len(log'[n]) : Has(n, n, i)'
        BY <1>6 DEF Has
      <3> QED
        BY <2>1, <3>1, <3>2, <3>3, <1>10
    <2>2. CASE l # n
      <3>1. role[l] = "leader" /\ term'[l] = term[l] /\ log'[l] = log[l] /\ term[l] < t
        BY <1>2, <1>4, <1>10, <1>11, <2>2
      <3>2. ASSUME NEW k \in Node, NEW i \in 1..Len(log'[k]), log'[k][i].term = term[l]
            PROVE  Has(l, k, i)'
        <4>1. i \in 1..Len(log[k])
          BY <1>2, <1>3, <1>5, <1>6, <1>9, <3>1, <3>2
        <4>2. Has(l, k, i)
          BY <4>1, <1>6, <3>1, <3>2 DEF LeaderHasAll
        <4> QED
          BY <4>1, <4>2, <1>6, <1>7
      <3> QED
        BY <3>1, <3>2 DEF LeaderHasAll
    <2> QED
      BY <2>1, <2>2
  <1>17. Matching'
    <2> SUFFICES ASSUME NEW k \in Node, NEW m \in Node, NEW i \in 1..Len(log'[k]),
                        NEW j \in 1..Len(log'[m]), i <= j, log'[k][i].term = log'[m][j].term
                 PROVE  Has(m, k, i)'
      BY DEF Matching
    <2>1. CASE i \in 1..Len(log[k]) /\ j \in 1..Len(log[m])
      <3>1. Has(m, k, i)
        BY <1>6, <2>1 DEF Matching
      <3> QED
        BY <3>1, <2>1, <1>6, <1>7
    <2>2. CASE (k = n /\ i = len + 1) /\ (m = n /\ j = len + 1)
      BY <2>2, <1>6 DEF Has
    <2>3. i \in 1..Len(log[k]) => log'[k][i].term < t
      BY <1>6, <1>8
    <2>4. j \in 1..Len(log[m]) => log'[m][j].term < t
      BY <1>6, <1>8
    <2>5. log'[n][len + 1].term = t
      BY <1>3, <1>5
    <2>6. ~(t < t)
      BY <1>2
    <2> QED
      BY <2>1, <2>2, <2>3, <2>4, <2>5, <2>6, <1>6
  <1>18. ASSUME NEW k \in Node, commit[k] > 0, CommitHeld(k), commit[k] \in 1..Len(log[k])
         PROVE  Has(n, k, commit[k])
    <2> DEFINE c == commit[k]
    <2>1. PICK Q \in SUBSET Node : Majority(Q) /\ \A m \in Q : Has(m, k, c)
      BY <1>18 DEF CommitHeld
    <2>2. PICK v \in Q : v \in votes
      BY <1>1, <2>1, MajoritiesMeet
    <2>3. Has(v, k, c) /\ c \in 1..Len(log[v]) /\ log[v][c] = log[k][c] /\ v \in Node
      BY <1>18, <2>1, <2>2 DEF Has
    <2>4. log[v] \in Seq(Entry) /\ log[n] \in Seq(Entry)
      BY <2>3 DEF RaftTypes
    <2>5. /\ Len(log[v]) \in 1..Len(log[v])
          /\ log[v][c].term <= log[v][Len(log[v])].term
      BY <2>3, <2>4 DEF Ordered
    <2>6. LastTerm(v) = log[v][Len(log[v])].term
      BY <2>4, <2>5 DEF LastTerm, Last
    <2>7. LastTerm(n) = IF log[n] = <<>> THEN 0 ELSE log[n][Len(log[n])].term
      BY DEF LastTerm, Last
    <2>8. LastTerm(v) \in Nat /\ log[v][c].term \in Nat /\ log[k][c].term \in Nat
      BY <2>3, <2>5, <2>6, <1>8
    <2>9. Len(log[n]) \in Nat /\ (log[n] # <<>> <=> Len(log[n]) > 0)
      BY <2>4
    <2>10. UpToDate(n, v)
      BY <1>1, <2>2
    <2>11. log[n] # <<>>
      BY <2>5, <2>7, <2>8, <2>9, <2>10 DEF UpToDate
    <2>12. Len(log[n]) \in 1..Len(log[n]) /\ LastTerm(n) = log[n][Len(log[n])].term
           /\ LastTerm(n) \in Nat
      BY <2>7, <2>9, <2>11, <1>8
    <2>13. CASE LastTerm(n) > LastTerm(v)
      <3>1. log[n][Len(log[n])].term > log[k][c].term
        BY <2>3, <2>5, <2>6, <2>8, <2>12, <2>13
      <3> QED
        BY <3>1, <2>12, <1>18 DEF CommitHeld
    <2>14. CASE LastTerm(n) = LastTerm(v) /\ Len(log[n]) >= Len(log[v])
      <3>1. Has(n, v, Len(log[v]))
        BY <2>3, <2>5, <2>6, <2>12, <2>14 DEF Matching
      <3> QED
        BY <3>1, <2>3, <2>5 DEF Has
    <2> QED
      BY <2>10, <2>13, <2>14 DEF UpToDate
  <1>19. Kept'
    <2> SUFFICES ASSUME NEW k \in Node
                 PROVE commit[k] <= Len(log'[k]) /\ (commit[k] > 0 => CommitHeld(k)')
      BY DEF Kept, Elect
    <2>1. commit[k] \in Nat /\ commit[k] <= Len(log[k]) /\ commit[k] <= Len(log'[k])
      <3>1. commit[k] \in Nat /\ commit[k] <= Len(log[k])
        BY EntryType DEF Kept
      <3>2. Len(log[k]) \in Nat /\ Len(log'[k]) \in Nat /\ Len(log[k]) <= Len(log'[k])
        BY <1>6
      <3> DEFINE old == Len(log[k])
                 new == Len(log'[k])
      <3> HIDE DEF old, new
      <3>3. old \in Nat /\ new \in Nat /\ old <= new /\ commit[k] <= old
        BY <3>1, <3>2 DEF old, new
      <3> QED
        BY <3>1, <3>3 DEF old, new
    <2>2. CASE commit[k] > 0
      <3>1. CommitHeld(k) /\ commit[k] \in 1..Len(log[k]) /\ commit[k] \in 0..Len(log[k])
            /\ log'[k][commit[k]] = log[k][commit[k]] /\ commit'[k] = commit[k]
        <4>1. CommitHeld(k)
          BY <2>2 DEF Kept
        <4>2. commit'[k] = commit[k]
          BY DEF Elect
        <4>3. commit[k] \in 1..Len(log[k]) /\ commit[k] \in 0..Len(log[k])
          BY <1>6, <2>1, <2>2
        <4> QED
          BY <4>1, <4>2, <4>3, <1>6
      <3>2. \E Q \in SUBSET Node : Majority(Q) /\ \A m \in Q : Has(m, k, commit[k])'
        <4>1. PICK Q \in SUBSET Node : Majority(Q) /\ \A m \in Q : Has(m, k, commit[k])
          BY <3>1 DEF CommitHeld
        <4>2. \A m \in Q : Has(m, k, commit[k])'
          BY <4>1, <3>1, <1>7
        <4> QED
          BY <4>1, <4>2
      <3>3. ASSUME NEW m \in Node, NEW i \in 1..Len(log'[m]),
                   log'[m][i].term > log[k][commit[k]].term
            PROVE  Has(m, k, commit[k])'
        <4>1. CASE i \in 1..Len(log[m])
          <5>1. Has(m, k, commit[k])
            BY <1>6, <4>1, <3>1, <3>3 DEF CommitHeld
          <5> QED
            BY <5>1, <1>7, <3>1
        <4>2. CASE m = n /\ i = len + 1
          <5>1. Has(n, k, commit[k])
            BY <1>18, <2>2, <3>1
          <5> QED
            BY <5>1, <4>2, <1>7, <3>1
        <4> QED
          BY <1>6, <4>1, <4>2
      <3> QED
        BY <3>1, <3>2, <3>3, <2>1 DEF CommitHeld, Majority
    <2> QED
      BY <2>1, <2>2
  <1>20. Grows
    <2>1. commit' = commit
      BY DEF Elect
    <2> QED
      BY <2>1, <1>6, EntryType DEF Grows, Kept, RaftTypes
  <1> QED
    BY <1>12, <1>13, <1>14, <1>15, <1>16, <1>17, <1>19, <1>20

(* Leader l's log and commit index take the place of node f's.                 *)
LEMMA ReplicateStep ==
    ASSUME RaftInv, NEW l \in Node, NEW f \in Node, Replicate(l, f)
    PROVE  RaftInv' /\ Grows
  <1> USE DEF RaftInv
  <1> DEFINE src(n) == IF n = f THEN l ELSE n
  <1>1. role[l] = "leader" /\ f # l /\ term[f] \in Nat /\ term[l] \in Nat /\ term[f] <= term[l]
    BY EntryType DEF Replicate
  <1>2. /\ \A n \in Node : src(n) \in Node /\ term'[n] = term[src(n)] /\ log'[n] = log[src(n)]
        /\ \A n \in Node : n # f => commit'[n] = commit[n] /\ role'[n] = role[n]
        /\ role'[f] = "follower"
        /\ commit'[f] = Max({commit[f], commit[l]})
    BY DEF Replicate, RaftTypes
  <1>3. /\ commit'[f] \in {commit[f], commit[l]}
        /\ commit[f] <= commit'[f] /\ commit[l] <= commit'[f]
    <2> DEFINE C == {commit[f], commit[l]}
    <2>1. commit[f] \in Nat /\ commit[l] \in Nat
      BY EntryType
    <2>2. C \in SUBSET Nat /\ C # {}
      BY <2>1
    <2>3. IsFiniteSet(C)
      <3>1. IsFiniteSet({commit[f]})
        BY FS_Singleton
      <3>2. C = {commit[f]} \cup {commit[l]}
        OBVIOUS
      <3> QED
        BY <3>1, <3>2, FS_AddElement
    <2>4. Max(C) \in C /\ \A x \in C : x <= Max(C)
      BY <2>2, <2>3, Extremes
    <2> QED
      BY <2>4, <1>2
  <1>4. /\ term' \in [Node -> Nat] /\ role' \in [Node -> {"follower", "leader"}]
        /\ log' \in [Node -> Seq(Entry)] /\ commit' \in [Node -> Nat]
    <2>1. commit'[f] \in Nat
      BY <1>3, EntryType
    <2>2. commit' \in [Node -> Nat]
      BY <2>1, <1>2 DEF RaftTypes, Replicate
    <2>3. role' \in [Node -> {"follower", "leader"}] /\ term' \in [Node -> Nat]
      BY <1>1 DEF RaftTypes, Replicate
    <2>4. log' \in [Node -> Seq(Entry)]
      BY DEF RaftTypes, Replicate
    <2> QED
      BY <2>2, <2>3, <2>4
  <1>5. \A n \in Node : term[n] \in Nat /\ term'[n] \in Nat /\ term[n] <= term'[n]
    BY <1>1, <1>2, <1>4 DEF RaftTypes
  <1>6. \A n \in Node : \A i \in 1..Len(log[n]) :
            log[n][i].term \in Nat /\ log[n][i].term <= term[n] /\ Len(log[n]) \in Nat
    BY EntryType DEF Ordered
  <1>7. \A n, m \in Node : \A i \in Nat : Has(src(m), src(n), i) <=> Has(m, n, i)'
    BY <1>2 DEF Has
  (* What is committed and f had, the leader has. *)
  <1>8. ASSUME NEW n \in Node, commit[n] > 0, Has(f, n, commit[n])
        PROVE  Has(l, n, commit[n])
    <2>1. commit[n] \in 1..Len(log[n]) /\ commit[n] \in 1..Len(log[f])
      BY <1>8, EntryType DEF Kept, Has
    <2>2. log[f][commit[n]] = log[n][commit[n]]
      BY <1>8, <2>1 DEF Has
    <2>3. log[n][commit[n]].term <= term[f] /\ log[n][commit[n]].term \in Nat
      BY <2>1, <2>2, <1>6
    <2>4. log[n][commit[n]].term <= term[l]
      BY <1>1, <2>3
    <2> QED
      BY <1>1, <1>8, <2>4, LeaderHasCommitted
  <1>9. \A n \in Node : commit[n] \in Nat /\ commit[n] <= Len(log[n]) /\ Len(log[n]) \in Nat
    BY EntryType DEF Kept
  <1>10. commit[f] > 0 => Has(l, f, commit[f])
    <2>1. Has(f, f, commit[f])
      BY <1>9 DEF Has
    <2> QED
      BY <2>1, <1>8
  <1> HIDE DEF src
  <1>11. Voted'
    <2> SUFFICES ASSUME NEW n \in Node
                 PROVE \E Q \in SUBSET Node : Majority(Q) /\ \A m \in Q : term'[m] >= term'[n]
      BY DEF Voted, Majority
    <2>1. PICK Q \in SUBSET Node : Majority(Q) /\ \A m \in Q : term[m] >= term[src(n)]
      BY <1>2 DEF Voted
    <2>2. \A m \in Q : term'[m] >= term'[n]
      BY <1>2, <1>5, <2>1
    <2> QED
      BY <2>1, <2>2
  <1>12. Ordered' /\ OneLeader'
    <2>1. Ordered'
      BY <1>2 DEF Ordered
    <2>2. \A n \in Node : role'[n] = "leader" => n # f /\ role[n] = "leader" /\ term'[n] = term[n]
      BY <1>2 DEF src
    <2> QED
      BY <2>1, <2>2 DEF OneLeader
  <1>13. LeaderHasAll'
    <2> SUFFICES ASSUME NEW k \in Node, role'[k] = "leader"
                 PROVE  /\ log'[k] # <<>> /\ log'[k][Len(log'[k])].term = term'[k]
                        /\ \A n \in Node : \A i \in 1..Len(log'[n]) :
                             log'[n][i].term = term'[k] => Has(k, n, i)'
      BY DEF LeaderHasAll
    <2>1. k # f /\ role[k] = "leader" /\ src(k) = k
      BY <1>2 DEF src
    <2>2. log'[k] # <<>> /\ log'[k][Len(log'[k])].term = term'[k]
      BY <1>2, <2>1 DEF LeaderHasAll
    <2>3. ASSUME NEW n \in Node, NEW i \in 1..Len(log'[n]), log'[n][i].term = term'[k]
          PROVE  Has(k, n, i)'
      <3>1. Has(src(k), src(n), i)
        BY <1>2, <2>1, <2>3 DEF LeaderHasAll
      <3> QED
        BY <3>1, <1>7
    <2> QED
      BY <2>2, <2>3
  <1>14. Matching'
    <2> SUFFICES ASSUME NEW n \in Node, NEW m \in Node, NEW i \in 1..Len(log'[n]),
                        NEW j \in 1..Len(log'[m]), i <= j, log'[n][i].term = log'[m][j].term
                 PROVE  Has(m, n, i)'
      BY DEF Matching
    <2>1. Has(src(m), src(n), i)
      BY <1>2 DEF Matching
    <2> QED
      BY <2>1, <1>7
  (* What held of a commit index holds of it after the step, on each log that   *)
  (* has it.                                                                  *)
  <1>15. ASSUME NEW n \in Node, NEW s \in Node, commit[s] > 0, commit'[n] = commit[s],
                Has(src(n), s, commit[s])
         PROVE  commit'[n] <= Len(log'[n]) /\ CommitHeld(n)'
    <2>1. CommitHeld(s) /\ commit[s] \in 1..commit[s] /\ commit[s] \in Nat
      BY <1>9, <1>15 DEF Kept
    <2>2. commit'[n] <= Len(log'[n]) /\ \A k \in 1..commit[s] : log'[n][k] = log[s][k]
      BY <1>2, <1>15 DEF Has
    <2>3. \A m \in Node : Has(src(m), s, commit[s]) => Has(m, n, commit[n])'
      BY <1>2, <1>15, <2>2 DEF Has
    <2>4. \E Q \in SUBSET Node : Majority(Q) /\ \A m \in Q : Has(m, n, commit[n])'
      <3>1. PICK Q \in SUBSET Node : Majority(Q) /\ \A m \in Q : Has(m, s, commit[s])
        BY <2>1 DEF CommitHeld
      <3>2. ASSUME NEW m \in Q PROVE Has(src(m), s, commit[s])
        BY <3>1, <1>8, <1>15 DEF src
      <3> QED
        BY <3>1, <3>2, <2>3
    <2>5. ASSUME NEW m \in Node, NEW i \in 1..Len(log'[m]),
                 log'[m][i].term > log'[n][commit'[n]].term
          PROVE  Has(m, n, commit[n])'
      <3>1. log[src(m)][i].term > log[s][commit[s]].term /\ i \in 1..Len(log[src(m)])
        BY <1>2, <1>15, <2>1, <2>2, <2>5
      <3>2. Has(src(m), s, commit[s])
        BY <3>1, <2>1, <1>2 DEF CommitHeld
      <3> QED
        BY <3>2, <2>3
    <2> QED
      BY <2>2, <2>4, <2>5 DEF CommitHeld, Majority
  <1>16. \A n \in Node : Has(n, n, commit[n])
    BY <1>9 DEF Has
  <1>17. Kept'
    <2> SUFFICES ASSUME NEW n \in Node
                 PROVE  commit'[n] <= Len(log'[n]) /\ (commit'[n] > 0 => CommitHeld(n)')
      BY DEF Kept
    <2>1. CASE commit'[n] = 0
      <3>1. 0 <= Len(log'[n])
        BY <1>2, <1>9
      <3> QED
        BY <2>1, <3>1
    <2>2. CASE commit'[n] > 0
      <3>1. PICK s \in Node : commit'[n] = commit[s] /\ (n # f => s = n) /\ (n = f => s \in {f, l})
        BY <1>2, <1>3
      <3>2. Has(src(n), s, commit[s])
        BY <1>10, <1>16, <2>2, <3>1 DEF src
      <3> QED
        BY <1>15, <2>2, <3>1, <3>2
    <2> QED
      BY <2>1, <2>2, <1>4
  <1>18. Grows
    <2> SUFFICES ASSUME NEW n \in Node
                 PROVE  /\ commit[n] <= commit'[n] /\ commit[n] <= Len(log'[n])
                        /\ \A k \in 1..commit[n] : log'[n][k] = log[n][k]
      BY DEF Grows
    <2>1. commit[n] <= commit'[n]
      BY <1>2, <1>3, <1>9
    <2>2. commit[n] > 0 => Has(src(n), n, commit[n])
      BY <1>10, <1>16 DEF src
    <2>3. commit[n] > 0 => commit[n] <= Len(log'[n]) /\ \A k \in 1..commit[n] : log'[n][k] = log[n][k]
      BY <2>2, <1>2 DEF Has
    <2>4. commit[n] \in Nat /\ Len(log'[n]) \in Nat
      BY <1>2, <1>9
    <2> QED
      BY <2>1, <2>3, <2>4
  <1> QED
    BY <1>4, <1>11, <1>12, <1>13, <1>14, <1>17, <1>18 DEF RaftTypes

(* A leader commits its log once a majority of its own term has it.            *)
LEMMA CommitStep ==
    ASSUME RaftInv, NEW l \in Node, LeaderCommit(l)
    PROVE  RaftInv' /\ Grows
  <1> USE DEF RaftInv
  <1> DEFINE len == Len(log[l])
  <1>1. /\ role[l] = "leader" /\ commit[l] < len
        /\ commit' = [commit EXCEPT ![l] = len]
        /\ UNCHANGED <<term, role, log>>
        /\ Majority({n \in Node : term[n] = term[l] /\ IsPrefix(log[l], log[n])})
    BY DEF LeaderCommit
  <1>2. \A n \in Node : commit[n] \in Nat /\ commit[n] <= Len(log[n]) /\ Len(log[n]) \in Nat
                        /\ term[n] \in Nat
    BY EntryType DEF Kept
  <1>3. commit' \in [Node -> Nat] /\ commit'[l] = len
        /\ \A n \in Node : n # l => commit'[n] = commit[n]
    BY <1>1, <1>2 DEF RaftTypes
  <1>4. len > 0 /\ log[l][len].term = term[l]
    BY <1>1, <1>2 DEF LeaderHasAll
  <1>5. ASSUME NEW n \in Node, IsPrefix(log[l], log[n]) PROVE Has(n, l, len)
    <2>1. log[l] \in Seq(Entry) /\ log[n] \in Seq(Entry)
      BY DEF RaftTypes
    <2> QED
      BY <1>5, <2>1 DEF IsPrefix, Has
  <1>6. CommitHeld(l)'
    <2> DEFINE Q == {n \in Node : term[n] = term[l] /\ IsPrefix(log[l], log[n])}
    <2>1. Q \in SUBSET Node /\ Majority(Q) /\ \A m \in Q : Has(m, l, len) /\ term[m] = term[l]
      BY <1>1, <1>5
    <2> HIDE DEF Q
    <2>2. ASSUME NEW m \in Node, NEW i \in 1..Len(log[m])
          PROVE  ~(log[m][i].term > term[l])
      <3> SUFFICES ASSUME log[m][i].term > term[l] PROVE FALSE
        OBVIOUS
      <3>1. PICK V \in SUBSET Node : Majority(V) /\ \A k \in V : term[k] >= term[m]
        BY DEF Voted
      <3>2. PICK k \in V : k \in Q
        BY <2>1, <3>1, MajoritiesMeet
      <3>3. log[m][i].term \in Nat /\ log[m][i].term <= term[m]
        BY EntryType DEF Ordered
      <3>4. term[k] = term[l] /\ term[k] >= term[m]
        BY <2>1, <3>1, <3>2
      <3> QED
        BY <3>3, <3>4, <1>2
    <2>3. \A m \in Node : Has(m, l, len) => Has(m, l, commit[l])'
      BY <1>1, <1>3 DEF Has
    <2>4. log'[l][commit'[l]].term = term[l]
      BY <1>1, <1>3, <1>4
    <2>5. \A m \in Q : Has(m, l, commit[l])'
      BY <2>1, <2>3
    <2>6. \A m \in Node : \A i \in 1..Len(log'[m]) : ~(log'[m][i].term > log'[l][commit'[l]].term)
      BY <1>1, <2>2, <2>4
    <2> QED
      BY <2>1, <2>5, <2>6 DEF CommitHeld, Majority
  <1>7. Kept'
    <2> SUFFICES ASSUME NEW n \in Node
                 PROVE  commit'[n] <= Len(log'[n]) /\ (commit'[n] > 0 => CommitHeld(n)')
      BY DEF Kept
    <2>1. CASE n = l
      BY <2>1, <1>1, <1>2, <1>3, <1>6
    <2>2. CASE n # l
      <3>1. commit'[n] = commit[n]
        BY <1>3, <2>2
      <3>2. CommitHeld(n) => CommitHeld(n)'
        BY <3>1, <1>1 DEF CommitHeld, Has, Majority
      <3> QED
        BY <3>1, <3>2, <1>1 DEF Kept
    <2> QED
      BY <2>1, <2>2
  <1>8. RaftTypes' /\ Voted' /\ Ordered' /\ OneLeader'
    BY <1>1, <1>3 DEF RaftTypes, Voted, Ordered, OneLeader, Majority
  <1>9. LeaderHasAll' /\ Matching'
    <2>1. log' = log /\ term' = term /\ role' = role
      BY <1>1
    <2>2. \A m, n \in Node : \A i \in Nat : Has(m, n, i)' <=> Has(m, n, i)
      BY <2>1 DEF Has
    <2>3. \A n \in Node : \A i \in 1..Len(log[n]) : i \in Nat
      BY <1>2
    <2>4. LeaderHasAll'
      BY <2>1, <2>2, <2>3 DEF LeaderHasAll
    <2>5. Matching'
      BY <2>1, <2>2, <2>3 DEF Matching
    <2> QED
      BY <2>4, <2>5
  <1>10. Grows
    <2>1. \A n \in Node : commit[n] <= commit'[n]
      BY <1>1, <1>2, <1>3
    <2>2. log' = log
      BY <1>1
    <2> QED
      BY <2>1, <2>2, <1>2 DEF Grows
  <1> QED
    BY <1>7, <1>8, <1>9, <1>10

(* Leaders may step down while logs, terms and commit indexes stay.          *)
LEMMA RaftRests ==
    ASSUME RaftInv, UNCHANGED <<term, log, commit>>, role' \in [Node -> {"follower", "leader"}],
           \A n \in Node : role'[n] = "leader" => role[n] = "leader"
    PROVE  RaftInv' /\ Grows
  <1> USE DEF RaftInv
  <1>1. log' = log /\ term' = term /\ commit' = commit
    OBVIOUS
  <1>2. \A m, n \in Node : \A i : Has(m, n, i)' <=> Has(m, n, i)
    BY <1>1 DEF Has
  <1>3. RaftTypes' /\ Voted' /\ Ordered' /\ OneLeader'
    BY <1>1 DEF RaftTypes, Voted, Ordered, OneLeader, Majority
  <1>4. LeaderHasAll' /\ Matching'
    BY <1>1, <1>2 DEF LeaderHasAll, Matching
  <1>5. Kept'
    BY <1>1 DEF Kept, CommitHeld, Has, Majority
  <1>6. Grows
    BY <1>1, EntryType DEF Grows, Kept
  <1> QED
    BY <1>3, <1>4, <1>5, <1>6

-------------------------------------------------------------------------------
(* What the scripts are like.                                                *)
LEMMA Scripts ==
    ASSUME program \in Programs
    PROVE  /\ Len(Script) \in Nat /\ Len(Script) > 4
           /\ \A i \in 1..Len(Script) :
                /\ Op(i) \in {"leader", "propose", "wait", "stop", "restart"}
                /\ Op(i) \in {"propose", "wait"} => Arg(i) \in Cmd
                /\ Op(i) = "restart" => program = "wal-restart" /\ i = 4
                /\ program = "wal-restart" /\ i < 4 => Op(i) # "stop"
           /\ Op(Len(Script)) = "wait"
  <1>1. CASE program = "raft"
    <2>1. Script = RaftMain /\ Len(RaftMain) = 6
      BY <1>1 DEF Script, RaftMain
    <2>2. \A i \in 1..6 : i = 1 \/ i = 2 \/ i = 3 \/ i = 4 \/ i = 5 \/ i = 6
      OBVIOUS
    <2>3. /\ Op(1) = "leader" /\ Op(2) = "propose" /\ Op(3) = "wait" /\ Op(4) = "stop"
          /\ Op(5) = "propose" /\ Op(6) = "wait"
      BY <2>1 DEF RaftMain, Op
    <2>4. Arg(2) \in Cmd /\ Arg(3) \in Cmd /\ Arg(5) \in Cmd /\ Arg(6) \in Cmd
      BY <2>1 DEF RaftMain, Arg, Cmd
    <2> QED
      BY <1>1, <2>1, <2>2, <2>3, <2>4
  <1>2. CASE program = "wal-restart"
    <2>1. Script = RestartMain /\ Len(RestartMain) = 11
      BY <1>2 DEF Script, RestartMain
    <2>2. \A i \in 1..11 : \/ i = 1 \/ i = 2 \/ i = 3 \/ i = 4 \/ i = 5 \/ i = 6
                           \/ i = 7 \/ i = 8 \/ i = 9 \/ i = 10 \/ i = 11
      OBVIOUS
    <2>3. /\ Op(1) = "leader" /\ Op(2) = "propose" /\ Op(3) = "wait" /\ Op(4) = "restart"
          /\ Op(5) = "leader" /\ Op(6) = "wait" /\ Op(7) = "propose" /\ Op(8) = "wait"
          /\ Op(9) = "stop" /\ Op(10) = "propose" /\ Op(11) = "wait"
      BY <2>1 DEF RestartMain, Op
    <2>4. /\ Arg(2) \in Cmd /\ Arg(3) \in Cmd /\ Arg(6) \in Cmd /\ Arg(7) \in Cmd
          /\ Arg(8) \in Cmd /\ Arg(10) \in Cmd /\ Arg(11) \in Cmd
      BY <2>1 DEF RestartMain, Arg, Cmd
    <2> QED
      BY <1>2, <2>1, <2>2, <2>3, <2>4
  <1> QED
    BY <1>1, <1>2

(* One step on in a script.                                                  *)
LEMMA Moves ==
    ASSUME program \in Programs, program' = program, step \in 1..Len(Script), NextStep
    PROVE  /\ step' \in 1..Len(Script) /\ step <= step' /\ Script' = Script
           /\ Op(step)' = "restart" => program = "wal-restart" /\ step = 3
           /\ Op(step) # "wait" => Waited' = Waited
           /\ Op(step) = "wait" => Waited' \subseteq Waited \cup {Arg(step)}
           /\ outcome' \in {outcome, "done"}
  <1>1. Script' = Script
    BY DEF Script
  <1>2. Len(Script) \in Nat /\ step \in Nat
    BY Scripts
  <1>3. step' \in 1..Len(Script) /\ step <= step' /\ step' \in {step, step + 1}
        /\ (step' = step => step = Len(Script))
    BY <1>2 DEF NextStep
  <1>4. \A i \in Nat : Op(i)' = Op(i) /\ Arg(i)' = Arg(i)
    BY <1>1 DEF Op, Arg
  <1>5. Op(step)' = Script[step'][1]
    BY <1>1 DEF Op
  <1>6. Op(step)' = "restart" => program = "wal-restart" /\ step = 3
    <2> SUFFICES ASSUME Script[step'][1] = "restart" PROVE program = "wal-restart" /\ step = 3
      BY <1>5
    <2>1. program = "wal-restart" /\ step' = 4
      BY <1>3, Scripts DEF Op
    <2>2. step' # step
      BY <2>1, <1>2, <1>3, Scripts
    <2> QED
      BY <2>1, <2>2, <1>2, <1>3
  <1>7. Waited' = {Arg(i) : i \in {j \in 1..(step' - 1) : Op(j) = "wait"}}
    BY <1>1 DEF Waited, Op, Arg
  <1> DEFINE next == step'
  <1>8. next = step \/ next = step + 1
    BY <1>3
  <1> HIDE DEF next
  <1>9. \A j \in 1..(next - 1) : j \in 1..(step - 1) \/ j = step
    BY <1>2, <1>8
  <1>10. \A j \in 1..(step - 1) : j \in 1..(next - 1)
    BY <1>2, <1>8
  <1>11. \A j \in 1..(step' - 1) : j \in 1..(step - 1) \/ j = step
    BY <1>9 DEF next
  <1>12. \A j \in 1..(step - 1) : j \in 1..(step' - 1)
    BY <1>10 DEF next
  <1>13. Op(step) # "wait" => Waited' = Waited
    BY <1>7, <1>11, <1>12 DEF Waited
  <1>14. Op(step) = "wait" => Waited' \subseteq Waited \cup {Arg(step)}
    BY <1>7, <1>11 DEF Waited
  <1> QED
    BY <1>1, <1>3, <1>6, <1>13, <1>14 DEF NextStep

(* The commands of the first entries of a log.                               *)
LEMMA CommandsOf ==
    ASSUME NEW l \in Seq(Entry), NEW i \in 0..Len(l)
    PROVE  /\ SubSeq(l, 1, i) \in Seq(Entry) /\ Len(SubSeq(l, 1, i)) = i
           /\ \A k \in 1..i : SubSeq(l, 1, i)[k] = l[k]
           /\ Commands(SubSeq(l, 1, i)) = {l[k].cmd : k \in 1..i} \ {NoOp}
           /\ Commands(SubSeq(l, 1, i)) \subseteq Cmd
  <1> DEFINE s == SubSeq(l, 1, i)
  <1>1. s \in Seq(Entry) /\ Len(s) = i /\ \A k \in 1..i : s[k] = l[k]
    OBVIOUS
  <1>2. DOMAIN s = 1..i
    BY <1>1
  <1> HIDE DEF s
  <1>3. Range(s) = {l[k] : k \in 1..i}
    BY <1>1, <1>2 DEF Range
  <1>4. Commands(s) = {l[k].cmd : k \in 1..i} \ {NoOp}
    BY <1>3 DEF Commands
  <1>5. \A k \in 1..i : l[k] \in Entry
    OBVIOUS
  <1>6. \A e \in Entry : e.cmd \in Cmd \cup {NoOp}
    BY DEF Entry
  <1>7. Commands(s) \subseteq Cmd
    BY <1>4, <1>5, <1>6
  <1> QED
    BY <1>1, <1>4, <1>7 DEF s

-------------------------------------------------------------------------------
(* The loops, the script and what it has waited for.                          *)
Committed(n) == {log[n][k].cmd : k \in 1..commit[n]} \ {NoOp}

Applies == \A n \in Node :
    /\ loop[n] = "apply" => appliedIndex[n] < ready[n] /\ ready[n] <= commit[n]
    /\ kv[n] = Commands(Applied(n))

Waits == \A n \in Node : ~stopped[n] \/ Op(step) = "restart" => Waited \subseteq Committed(n)

Stops == /\ program = "wal-restart" /\ step < 4 => \A n \in Node : ~stopped[n]
         /\ \A n \in Node : stopped[n] /\ n \notin stopping => loop[n] = "exited"
         /\ leaderID \in Node /\ stopped[leaderID] => Op(step) = "restart"

(* Where nothing has been misread: a start from a misread log is an end.       *)
Inv == Types /\ RaftInv /\ Applies /\ Waits /\ Stops
Sound == outcome = "misread" \/ Inv

(* The invariant holds at the start.                                         *)
LEMMA Start == Init => Inv
  <1> SUFFICES ASSUME Init PROVE Inv
    OBVIOUS
  <1>1. Len(Script) > 4 /\ Len(Script) \in Nat
    BY Scripts DEF Init
  <1>2. \A n \in Node : log[n] = <<>> /\ Len(log[n]) = 0 /\ commit[n] = 0 /\ role[n] = "follower"
                        /\ appliedIndex[n] = 0 /\ term[n] = 0
    BY DEF Init
  <1>3. RaftTypes
    <2>1. <<>> \in Seq(Entry)
      OBVIOUS
    <2> QED
      BY <2>1 DEF Init, RaftTypes
  <1>4. Types
    <2>1. deposed \in 0..MaxDeposed[program]
      BY DEF Init
    <2>2. step \in 1..Len(Script)
      BY <1>1 DEF Init
    <2>3. kv \in [Node -> SUBSET Cmd]
      BY DEF Init
    <2> QED
      BY <1>2, <1>3, <2>1, <2>2, <2>3 DEF Init, Types, RaftTypes
  <1>5. RaftInv
    <2>1. Voted
      <3>1. Majority(Node) \/ Node = {}
        BY FS_EmptySet, FS_CardinalityType DEF Majority
      <3>2. \A n, m \in Node : term[m] >= term[n]
        BY <1>2
      <3> QED
        BY <3>1, <3>2 DEF Voted
    <2>2. Ordered /\ OneLeader /\ LeaderHasAll /\ Matching /\ Kept
      BY <1>2 DEF Ordered, OneLeader, LeaderHasAll, Matching, Kept
    <2> QED
      BY <1>3, <2>1, <2>2 DEF RaftInv
  <1>6. Applies
    <2> SUFFICES ASSUME NEW n \in Node PROVE Commands(Applied(n)) = {}
      BY DEF Init, Applies
    <2>1. Applied(n) = SubSeq(log[n], 1, 0) /\ log[n] \in Seq(Entry) /\ 0 \in 0..Len(log[n])
      BY <1>2, <1>3 DEF Applied, RaftTypes
    <2>2. Commands(SubSeq(log[n], 1, 0)) = {log[n][k].cmd : k \in 1..0} \ {NoOp}
      BY <2>1, CommandsOf
    <2> QED
      BY <2>1, <2>2
  <1>7. Waits
    BY DEF Init, Waits, Waited
  <1>8. Stops
    BY DEF Init, Stops
  <1> QED
    BY <1>4, <1>5, <1>6, <1>7, <1>8 DEF Inv

(* Every step keeps what raft guarantees, and loses nothing committed.       *)
LEMMA RaftStep ==
    ASSUME Inv, [Next]_vars, outcome' # "misread" PROVE RaftInv' /\ Grows
  <1>1. RaftInv /\ Types /\ role \in [Node -> {"follower", "leader"}]
    BY DEF Inv, Types
  <1>2. UNCHANGED <<term, log, commit, role>> => RaftInv' /\ Grows
    BY <1>1, RaftRests
  <1>3. ASSUME NEW n \in Node, Elect(n) PROVE RaftInv' /\ Grows
    BY <1>1, <1>3, ElectStep
  <1>4. ASSUME NEW n \in Node, LeaderCommit(n) PROVE RaftInv' /\ Grows
    BY <1>1, <1>4, CommitStep
  <1>5. ASSUME NEW l \in Node, NEW f \in Node, Replicate(l, f) PROVE RaftInv' /\ Grows
    BY <1>1, <1>5, ReplicateStep
  <1>6. ASSUME NEW n \in Node, Run(n) PROVE RaftInv' /\ Grows
    BY <1>6, <1>2 DEF Run, TakeReady, ApplyEntry, Exit, raft
  <1>7. CASE Propose
    <2>1. UNCHANGED <<term, role, commit>> /\ Op(step) = "propose"
      BY <1>7 DEF Propose, At
    <2>2. Arg(step) \in Cmd \cup {NoOp}
      BY <1>1, <2>1, Scripts DEF Types
    <2>3. ASSUME NEW l \in Node, role[l] = "leader", AppendAt(l) PROVE RaftInv' /\ Grows
      BY <1>1, <2>1, <2>2, <2>3, AppendStep DEF AppendAt
    <2>4. ASSUME leaderID \notin Node, AppendAt(leaderID) PROVE RaftInv' /\ Grows
      <3>1. log' = log
        <4>1. DOMAIN log = Node
          BY <1>1 DEF Types
        <4>2. \A n \in Node : n # leaderID
          BY <2>4
        <4> QED
          BY <4>1, <4>2, <2>4, <1>1 DEF AppendAt, Types
      <3> QED
        BY <3>1, <2>1, <1>2
    <2>5. \/ role[leaderID] = "leader" /\ AppendAt(leaderID)
          \/ \E l \in leaders : AppendAt(l)
          \/ UNCHANGED log
      BY <1>7 DEF Propose
    <2> QED
      BY <2>1, <2>3, <2>4, <2>5, <1>2 DEF leaders, activeNodeIDs
  <1>8. CASE Restart
    <2>1. role' = [n \in Node |-> "follower"] /\ UNCHANGED <<term, log, commit>>
      BY <1>8 DEF Restart
    <2> QED
      BY <1>1, <2>1, RaftRests
  <1>9. CASE WaitLeader \/ WaitValue \/ StopFollower \/ StopReturns \/ StopNext \/ Fatal
    BY <1>2, <1>9 DEF WaitLeader, WaitValue, StopFollower, StopReturns, StopNext, Fatal, raft
  <1>10. CASE Ended \/ UNCHANGED vars
    BY <1>2, <1>10 DEF Ended, vars, raft
  <1>11. ~MisreadStart
    BY DEF MisreadStart
  <1> QED
    BY <1>3, <1>4, <1>5, <1>6, <1>7, <1>8, <1>9, <1>10, <1>11 DEF Next, Main

(* The least node of a set is in it.                                         *)
LEMMA ChosenOf ==
    ASSUME NEW S \in SUBSET Node, S # {} PROVE Min(S) \in S
  <1>1. IsFiniteSet(S) /\ S \in SUBSET Nat
    BY FS_Subset
  <1> QED
    BY <1>1, Extremes

(* The loops and main, whatever raft does.                                   *)
NodeTypes == /\ program \in Programs
             /\ deposed \in 0..MaxDeposed[program]
             /\ loop \in [Node -> {"select", "apply", "exited"}]
             /\ ready \in [Node -> Nat] /\ appliedIndex \in [Node -> Nat]
             /\ kv \in [Node -> SUBSET Cmd] /\ stopped \in [Node -> BOOLEAN]
             /\ step \in 1..Len(Script)
             /\ leaderID \in Node \cup {0} /\ stopping \in SUBSET Node
             /\ outcome \in {"running", "done", "failed"}

(* Every step keeps the types of the nodes.                                  *)
LEMMA NodeTypesStep ==
    ASSUME Inv, [Next]_vars, outcome' # "misread" PROVE NodeTypes'
  <1>1. NodeTypes /\ RaftTypes
    BY DEF Inv, Types, NodeTypes, RaftInv
  <1>2. ASSUME UNCHANGED program PROVE Script' = Script
    BY <1>2 DEF Script
  <1>3. ASSUME UNCHANGED <<program, deposed, nodes, main>> PROVE NodeTypes'
    BY <1>1, <1>2, <1>3 DEF NodeTypes, nodes, main
  <1>4. ASSUME NEW n \in Node, Elect(n) PROVE NodeTypes'
    <2>1. UNCHANGED <<program, nodes, main>> /\ Script' = Script
      BY <1>2, <1>4 DEF Elect
    <2>2. deposed' \in 0..MaxDeposed[program]
      <3>1. MaxDeposed[program] \in Nat /\ deposed \in 0..MaxDeposed[program]
        BY <1>1 DEF NodeTypes
      <3>2. deposed' = deposed \/ (deposed < MaxDeposed[program] /\ deposed' = deposed + 1)
        BY <1>4 DEF Elect
      <3> QED
        BY <3>1, <3>2
    <2> QED
      BY <1>1, <2>1, <2>2 DEF NodeTypes, nodes, main
  <1>5. ASSUME NEW n \in Node, LeaderCommit(n) PROVE NodeTypes'
    BY <1>3, <1>5 DEF LeaderCommit
  <1>6. ASSUME NEW l \in Node, NEW f \in Node, Replicate(l, f) PROVE NodeTypes'
    BY <1>3, <1>6 DEF Replicate
  <1>7. ASSUME NEW n \in Node, TakeReady(n) PROVE NodeTypes'
    <2>1. ready' \in [Node -> Nat] /\ loop' \in [Node -> {"select", "apply", "exited"}]
      BY <1>1, <1>7 DEF TakeReady, LoopGoes, NodeTypes, RaftTypes
    <2> QED
      BY <1>1, <1>2, <1>7, <2>1 DEF TakeReady, NodeTypes, raft, main
  <1>8. ASSUME NEW n \in Node, Exit(n) PROVE NodeTypes'
    <2>1. loop' \in [Node -> {"select", "apply", "exited"}]
      BY <1>1, <1>8 DEF Exit, LoopGoes, NodeTypes
    <2> QED
      BY <1>1, <1>2, <1>8, <2>1 DEF Exit, NodeTypes, raft, main
  <1>9. ASSUME NEW n \in Node, ApplyEntry(n) PROVE NodeTypes'
    <2>1. loop' \in [Node -> {"select", "apply", "exited"}]
      BY <1>1, <1>9 DEF ApplyEntry, LoopGoes, NodeTypes
    <2>2. appliedIndex' \in [Node -> Nat] /\ appliedIndex'[n] = appliedIndex[n] + 1
      BY <1>1, <1>9 DEF ApplyEntry, NodeTypes
    <2>3. {log[n][appliedIndex'[n]].cmd} \ {NoOp} \subseteq Cmd
      <3>1. appliedIndex[n] \in Nat /\ commit[n] \in Nat /\ ready[n] \in Nat /\ Len(log[n]) \in Nat
        BY <1>1, EntryType DEF NodeTypes
      <3>2. appliedIndex[n] < commit[n] /\ commit[n] <= Len(log[n])
        <4>1. loop[n] = "apply"
          BY <1>9 DEF ApplyEntry, LoopGoes
        <4>2. appliedIndex[n] < ready[n] /\ ready[n] <= commit[n]
          BY <4>1 DEF Inv, Applies
        <4>3. commit[n] <= Len(log[n])
          BY DEF Inv, RaftInv, Kept
        <4> QED
          BY <3>1, <4>2, <4>3
      <3>3. log[n][appliedIndex'[n]] \in Entry
        BY <1>1, <2>2, <3>1, <3>2, EntryType
      <3>4. \A e \in Entry : e.cmd \in Cmd \cup {NoOp}
        BY DEF Entry
      <3> QED
        BY <3>3, <3>4
    <2>4. kv' \in [Node -> SUBSET Cmd]
      BY <1>1, <1>9, <2>3 DEF ApplyEntry, NodeTypes
    <2> QED
      BY <1>1, <1>2, <1>9, <2>1, <2>2, <2>4 DEF ApplyEntry, NodeTypes, raft, main
  <1>10. CASE Propose \/ WaitValue
    <2>1. UNCHANGED <<program, deposed, nodes, leaderID, stopping>> /\ NextStep
      BY <1>10 DEF Propose, WaitValue, raft
    <2>2. step' \in 1..Len(Script)' /\ outcome' \in {"running", "done", "failed"}
      BY <1>1, <1>2, <2>1, Moves DEF NodeTypes
    <2> QED
      BY <1>1, <2>1, <2>2 DEF NodeTypes, nodes
  <1>11. CASE WaitLeader
    <2>1. UNCHANGED <<program, deposed, nodes, stopping>> /\ NextStep
      BY <1>11 DEF WaitLeader, raft
    <2>2. step' \in 1..Len(Script)' /\ outcome' \in {"running", "done", "failed"}
      BY <1>1, <1>2, <2>1, Moves DEF NodeTypes
    <2>3. leaderID' \in Node
      BY <1>11, ChosenOf DEF WaitLeader, leaders, activeNodeIDs
    <2> QED
      BY <1>1, <2>1, <2>2, <2>3 DEF NodeTypes, nodes
  <1>12. CASE StopFollower
    <2>1. Min(chooseFollower) \in Node
      BY <1>12, ChosenOf DEF StopFollower, chooseFollower, activeNodeIDs
    <2>2. stopping' \in SUBSET Node /\ stopped' \in [Node -> BOOLEAN]
      BY <1>1, <1>12, <2>1, Zenon DEF StopFollower, NodeTypes
    <2> QED
      BY <1>1, <1>2, <1>12, <2>2 DEF StopFollower, NodeTypes, raft
  <1>13. CASE StopReturns
    <2>1. UNCHANGED <<program, deposed, nodes, leaderID>> /\ NextStep /\ stopping' = {}
      BY <1>13 DEF StopReturns, raft
    <2>2. step' \in 1..Len(Script)' /\ outcome' \in {"running", "done", "failed"}
      BY <1>1, <1>2, <2>1, Moves DEF NodeTypes
    <2> QED
      BY <1>1, <2>1, <2>2 DEF NodeTypes, nodes
  <1>14. CASE StopNext
    <2>1. PICK n \in Node : stopped' = [stopped EXCEPT ![n] = TRUE] /\ stopping' = stopping \cup {n}
      BY <1>14 DEF StopNext, activeNodeIDs
    <2>2. stopping' \in SUBSET Node /\ stopped' \in [Node -> BOOLEAN]
      BY <1>1, <2>1, Zenon DEF NodeTypes
    <2> QED
      BY <1>1, <1>2, <1>14, <2>2 DEF StopNext, NodeTypes, raft
  <1>15. CASE Restart
    <2>1. PICK snap \in Snapshots :
             /\ appliedIndex' = snap
             /\ kv' = [n \in Node |-> Commands(SubSeq(log[n], 1, snap[n]))]
      BY <1>15 DEF Restart
    <2>2. appliedIndex' \in [Node -> Nat] /\ \A n \in Node : appliedIndex'[n] <= appliedIndex[n]
      <3>1. UNION {0..appliedIndex[n] : n \in Node} \subseteq Nat
        BY <1>1 DEF NodeTypes
      <3> QED
        BY <2>1, <3>1 DEF Snapshots
    <2>3. kv' = [n \in Node |-> Commands(SubSeq(log[n], 1, appliedIndex'[n]))]
      BY <2>1
    <2>4. ASSUME NEW n \in Node PROVE Commands(SubSeq(log[n], 1, appliedIndex'[n])) \subseteq Cmd
      <3>1. appliedIndex[n] <= commit[n] /\ commit[n] <= Len(log[n]) /\ appliedIndex[n] \in Nat
            /\ commit[n] \in Nat /\ Len(log[n]) \in Nat
        BY <1>1, EntryType DEF Inv, Types
      <3>2. appliedIndex'[n] \in 0..Len(log[n]) /\ log[n] \in Seq(Entry)
        BY <1>1, <2>2, <3>1 DEF RaftTypes
      <3> QED
        BY <3>2, CommandsOf
    <2>5. kv' \in [Node -> SUBSET Cmd]
      BY <2>3, <2>4
    <2>6. stopped' \in [Node -> BOOLEAN] /\ loop' \in [Node -> {"select", "apply", "exited"}]
          /\ stopping' = {} /\ leaderID' = 0
      BY <1>15 DEF Restart
    <2>7. step' \in 1..Len(Script)' /\ outcome' \in {"running", "done", "failed"}
      BY <1>1, <1>2, <1>15, Moves DEF NodeTypes, Restart
    <2> QED
      BY <1>1, <1>15, <2>2, <2>5, <2>6, <2>7 DEF NodeTypes, Restart
  <1>16. CASE Fatal
    BY <1>1, <1>2, <1>16 DEF Fatal, NodeTypes, raft, nodes
  <1>17. CASE Ended \/ UNCHANGED vars
    BY <1>3, <1>17 DEF Ended, vars, raft
  <1>18. ~MisreadStart
    BY DEF MisreadStart
  <1> QED
    BY <1>4, <1>5, <1>6, <1>7, <1>8, <1>9, <1>10, <1>11, <1>12, <1>13, <1>14, <1>15, <1>16,
       <1>17, <1>18 DEF Next, Main, Run

(* What a node has applied stays what it was.                                 *)
LEMMA AppliedStays ==
    ASSUME Inv, RaftInv', Grows, NEW n \in Node,
           kv'[n] = kv[n], appliedIndex'[n] = appliedIndex[n]
    PROVE  kv'[n] = Commands(Applied(n))' /\ appliedIndex'[n] <= commit'[n]
  <1>1. /\ appliedIndex[n] \in Nat /\ commit[n] \in Nat /\ commit'[n] \in Nat
        /\ appliedIndex[n] <= commit[n] /\ commit[n] <= commit'[n]
        /\ commit[n] <= Len(log[n]) /\ commit[n] <= Len(log'[n])
        /\ log[n] \in Seq(Entry) /\ log'[n] \in Seq(Entry)
    BY DEF Inv, Types, RaftInv, RaftTypes, Grows
  <1>2. Len(log[n]) \in Nat /\ Len(log'[n]) \in Nat
    BY <1>1
  <1>3. appliedIndex[n] \in 0..Len(log[n]) /\ appliedIndex[n] \in 0..Len(log'[n])
    BY <1>1, <1>2
  <1>4. Commands(SubSeq(log[n], 1, appliedIndex[n]))
        = {log[n][k].cmd : k \in 1..appliedIndex[n]} \ {NoOp}
    BY <1>1, <1>3, CommandsOf
  <1>5. Commands(SubSeq(log'[n], 1, appliedIndex[n]))
        = {log'[n][k].cmd : k \in 1..appliedIndex[n]} \ {NoOp}
    BY <1>1, <1>3, CommandsOf
  <1>6. ASSUME NEW k \in 1..appliedIndex[n] PROVE log'[n][k] = log[n][k]
    <2>1. k \in 1..commit[n]
      BY <1>1
    <2> QED
      BY <2>1 DEF Grows
  <1>7. {log'[n][k].cmd : k \in 1..appliedIndex[n]} = {log[n][k].cmd : k \in 1..appliedIndex[n]}
    BY <1>6
  <1>8. kv[n] = Commands(SubSeq(log[n], 1, appliedIndex[n]))
    BY DEF Inv, Applies, Applied
  <1>9. Applied(n)' = SubSeq(log'[n], 1, appliedIndex[n])
    BY DEF Applied
  <1>10. Commands(Applied(n))' = Commands(Applied(n)')
    BY DEF Commands, Range
  <1>11. kv'[n] = Commands(Applied(n))'
    BY <1>4, <1>5, <1>7, <1>8, <1>9, <1>10
  <1> QED
    BY <1>1, <1>11

(* Every step keeps a node from applying what is not committed, and its map  *)
(* is what it applied.                                                       *)
LEMMA AppliesStep ==
    ASSUME Inv, [Next]_vars, outcome' # "misread", RaftInv', Grows, NodeTypes'
    PROVE  Applies' /\ \A n \in Node : appliedIndex'[n] <= commit'[n]
  <1> DEFINE Goal == Applies' /\ \A n \in Node : appliedIndex'[n] <= commit'[n]
  <1>1. \A n \in Node : /\ appliedIndex[n] \in Nat /\ commit[n] \in Nat /\ commit'[n] \in Nat
                        /\ ready[n] \in Nat /\ commit[n] <= commit'[n]
    BY DEF Inv, Types, RaftInv, RaftTypes, Grows
  <1>2. ASSUME UNCHANGED <<loop, ready, appliedIndex, kv>> PROVE Goal
    <2>1. ASSUME NEW n \in Node PROVE kv'[n] = Commands(Applied(n))' /\ appliedIndex'[n] <= commit'[n]
      BY <1>2, AppliedStays
    <2>2. ASSUME NEW n \in Node, loop'[n] = "apply"
          PROVE  appliedIndex'[n] < ready'[n] /\ ready'[n] <= commit'[n]
      <3>1. appliedIndex[n] < ready[n] /\ ready[n] <= commit[n]
        BY <1>2, <2>2 DEF Inv, Applies
      <3> QED
        BY <3>1, <1>1, <1>2
    <2> QED
      BY <2>1, <2>2 DEF Applies
  <1>3. ASSUME NEW n \in Node, TakeReady(n) PROVE Goal
    <2>1. UNCHANGED <<appliedIndex, kv, commit>> /\ appliedIndex[n] < commit[n]
          /\ ready' = [ready EXCEPT ![n] = commit[n]] /\ loop' = [loop EXCEPT ![n] = "apply"]
      BY <1>3 DEF TakeReady, LoopGoes, raft
    <2>2. ASSUME NEW m \in Node PROVE kv'[m] = Commands(Applied(m))' /\ appliedIndex'[m] <= commit'[m]
      BY <2>1, AppliedStays
    <2>3. ASSUME NEW m \in Node, loop'[m] = "apply"
          PROVE  appliedIndex'[m] < ready'[m] /\ ready'[m] <= commit'[m]
      <3>1. CASE m = n
        BY <2>1, <3>1, <1>1 DEF Inv, Types
      <3>2. CASE m # n
        <4>1. loop[m] = "apply" /\ ready'[m] = ready[m]
          BY <2>1, <2>3, <3>2 DEF Inv, Types
        <4> QED
          BY <4>1, <2>1 DEF Inv, Applies
      <3> QED
        BY <3>1, <3>2
    <2> QED
      BY <2>2, <2>3 DEF Applies
  <1>4. ASSUME NEW n \in Node, Exit(n) PROVE Goal
    <2>1. UNCHANGED <<appliedIndex, kv, commit, ready>> /\ loop' = [loop EXCEPT ![n] = "exited"]
      BY <1>4 DEF Exit, LoopGoes, raft
    <2>2. ASSUME NEW m \in Node PROVE kv'[m] = Commands(Applied(m))' /\ appliedIndex'[m] <= commit'[m]
      BY <2>1, AppliedStays
    <2>3. ASSUME NEW m \in Node, loop'[m] = "apply"
          PROVE  appliedIndex'[m] < ready'[m] /\ ready'[m] <= commit'[m]
      <3>1. loop[m] = "apply"
        BY <2>1, <2>3 DEF Inv, Types
      <3> QED
        BY <3>1, <2>1 DEF Inv, Applies
    <2> QED
      BY <2>2, <2>3 DEF Applies
  <1>5. ASSUME NEW n \in Node, ApplyEntry(n) PROVE Goal
    <2> DEFINE i == appliedIndex[n]
    <2>1. /\ UNCHANGED <<log, commit, ready>>
          /\ loop[n] = "apply"
          /\ loop' = [loop EXCEPT ![n] = IF i + 1 < ready[n] THEN "apply" ELSE "select"]
          /\ appliedIndex' = [appliedIndex EXCEPT ![n] = @ + 1]
          /\ kv' = [kv EXCEPT ![n] = @ \cup ({log[n][appliedIndex'[n]].cmd} \ {NoOp})]
      BY <1>5 DEF ApplyEntry, LoopGoes, raft
    <2>2. /\ i < ready[n] /\ ready[n] <= commit[n] /\ commit[n] <= Len(log[n])
          /\ kv[n] = Commands(SubSeq(log[n], 1, i))
      BY <2>1 DEF Inv, Applies, Applied, RaftInv, Kept
    <2>3. log[n] \in Seq(Entry) /\ Len(log[n]) \in Nat
      BY EntryType DEF Inv, RaftInv, RaftTypes
    <2>4. i \in Nat /\ i \in 0..Len(log[n]) /\ i + 1 \in 0..Len(log[n]) /\ i + 1 <= commit[n]
      BY <1>1, <2>2, <2>3
    <2>5. appliedIndex'[n] = i + 1
      BY <2>1 DEF Inv, Types
    <2>6. kv'[n] = kv[n] \cup ({log[n][i + 1].cmd} \ {NoOp})
      BY <2>1, <2>5 DEF Inv, Types
    <2> HIDE DEF i
    <2>7. kv'[n] = Commands(SubSeq(log[n], 1, i + 1))
      <3>1. Commands(SubSeq(log[n], 1, i)) = {log[n][k].cmd : k \in 1..i} \ {NoOp}
        BY <2>3, <2>4, CommandsOf
      <3>2. Commands(SubSeq(log[n], 1, i + 1)) = {log[n][k].cmd : k \in 1..(i + 1)} \ {NoOp}
        BY <2>3, <2>4, CommandsOf
      <3>3. 1..(i + 1) = 1..i \cup {i + 1}
        BY <2>4
      <3> DEFINE Old == {log[n][k].cmd : k \in 1..i}
                 New == {log[n][k].cmd : k \in 1..(i + 1)}
                 c == log[n][i + 1].cmd
      <3>4. New = Old \cup {c}
        BY <3>3
      <3>5. /\ Commands(SubSeq(log[n], 1, i)) = Old \ {NoOp}
            /\ Commands(SubSeq(log[n], 1, i + 1)) = New \ {NoOp}
            /\ kv'[n] = kv[n] \cup ({c} \ {NoOp})
        BY <3>1, <3>2, <2>6
      <3>6. kv[n] = Commands(SubSeq(log[n], 1, i))
        BY <2>2
      <3> HIDE DEF Old, New, c
      <3>7. kv'[n] = (Old \ {NoOp}) \cup ({c} \ {NoOp})
        BY <3>5, <3>6
      <3> QED
        BY <3>4, <3>5, <3>7
    <2>8. kv'[n] = Commands(Applied(n))'
      <3>1. Applied(n)' = SubSeq(log[n], 1, i + 1)
        BY <2>1, <2>5 DEF Applied
      <3>2. Commands(Applied(n))' = Commands(Applied(n)')
        BY DEF Commands, Range
      <3> QED
        BY <3>1, <3>2, <2>7
    <2>9. ASSUME NEW m \in Node PROVE kv'[m] = Commands(Applied(m))' /\ appliedIndex'[m] <= commit'[m]
      <3>1. CASE m = n
        BY <3>1, <2>1, <2>4, <2>5, <2>8
      <3>2. CASE m # n
        <4>1. kv'[m] = kv[m] /\ appliedIndex'[m] = appliedIndex[m]
          BY <2>1, <3>2 DEF Inv, Types
        <4> QED
          BY <4>1, AppliedStays
      <3> QED
        BY <3>1, <3>2
    <2>10. ASSUME NEW m \in Node, loop'[m] = "apply"
           PROVE  appliedIndex'[m] < ready'[m] /\ ready'[m] <= commit'[m]
      <3>1. CASE m = n
        <4>1. i + 1 < ready[n]
          BY <2>1, <2>10, <3>1 DEF Inv, Types, i
        <4> QED
          BY <4>1, <3>1, <2>1, <2>2, <2>5
      <3>2. CASE m # n
        <4>1. loop[m] = "apply" /\ appliedIndex'[m] = appliedIndex[m]
          BY <2>1, <2>10, <3>2 DEF Inv, Types
        <4> QED
          BY <4>1, <2>1 DEF Inv, Applies
      <3> QED
        BY <3>1, <3>2
    <2> QED
      BY <2>9, <2>10 DEF Applies
  <1>6. CASE Restart
    <2>1. PICK snap \in Snapshots :
             /\ appliedIndex' = snap
             /\ kv' = [n \in Node |-> Commands(SubSeq(log[n], 1, snap[n]))]
      BY <1>6 DEF Restart
    <2>2. \A n \in Node : appliedIndex'[n] <= appliedIndex[n]
      BY <2>1 DEF Snapshots
    <2>3. kv' = [n \in Node |-> Commands(SubSeq(log[n], 1, appliedIndex'[n]))]
      BY <2>1
    <2>4. log' = log /\ commit' = commit /\ loop' = [n \in Node |-> "select"]
      BY <1>6 DEF Restart
    <2>5. ASSUME NEW n \in Node PROVE kv'[n] = Commands(Applied(n))' /\ appliedIndex'[n] <= commit'[n]
      <3>1. Applied(n)' = SubSeq(log[n], 1, appliedIndex'[n])
        BY <2>4 DEF Applied
      <3>2. Commands(Applied(n))' = Commands(Applied(n)')
        BY DEF Commands, Range
      <3>3. appliedIndex[n] <= commit[n]
        BY DEF Inv, Types
      <3>4. appliedIndex'[n] <= commit'[n]
        <4>1. appliedIndex'[n] \in Nat /\ appliedIndex[n] \in Nat /\ commit[n] \in Nat
          BY <1>1 DEF NodeTypes
        <4>2. appliedIndex'[n] <= appliedIndex[n] /\ commit'[n] = commit[n]
          BY <2>2, <2>4
        <4> QED
          BY <3>3, <4>1, <4>2
      <3> QED
        BY <3>1, <3>2, <3>4, <2>3
    <2> QED
      BY <2>4, <2>5 DEF Applies
  <1>7. ASSUME NEW n \in Node, Elect(n) \/ LeaderCommit(n) PROVE Goal
    BY <1>2, <1>7 DEF Elect, LeaderCommit, nodes
  <1>8. ASSUME NEW l \in Node, NEW f \in Node, Replicate(l, f) PROVE Goal
    BY <1>2, <1>8 DEF Replicate, nodes
  <1>9. CASE WaitLeader \/ Propose \/ WaitValue \/ StopFollower \/ StopReturns \/ StopNext \/ Fatal
    BY <1>2, <1>9 DEF WaitLeader, Propose, WaitValue, StopFollower, StopReturns, StopNext, Fatal,
                      nodes
  <1>10. CASE Ended \/ UNCHANGED vars
    BY <1>2, <1>10 DEF Ended, vars, nodes
  <1>11. ~MisreadStart
    BY DEF MisreadStart
  <1> QED
    BY <1>3, <1>4, <1>5, <1>6, <1>7, <1>8, <1>9, <1>10, <1>11 DEF Next, Main, Run

(* Committed entries stay committed.                                         *)
LEMMA CommittedGrows ==
    ASSUME Inv, RaftInv', Grows, NEW n \in Node PROVE Committed(n) \subseteq Committed(n)'
  <1>1. commit[n] \in Nat /\ commit'[n] >= commit[n]
    BY DEF Inv, Types, Grows
  <1>2. \A k \in 1..commit[n] : log'[n][k] = log[n][k]
    BY DEF Grows
  <1>3. commit'[n] \in Nat
    BY DEF RaftInv, RaftTypes
  <1>4. \A k \in 1..commit[n] : k \in 1..commit'[n]
    BY <1>1, <1>3
  <1>5. Committed(n)' = {log'[n][k].cmd : k \in 1..commit'[n]} \ {NoOp}
    BY DEF Committed
  <1> QED
    BY <1>2, <1>4, <1>5 DEF Committed

(* What was applied had been committed.                                      *)
LEMMA AppliedCommitted ==
    ASSUME Inv, NEW n \in Node PROVE kv[n] \subseteq Committed(n)
  <1>1. /\ appliedIndex[n] \in Nat /\ commit[n] \in Nat /\ Len(log[n]) \in Nat
        /\ appliedIndex[n] <= commit[n] /\ commit[n] <= Len(log[n])
    BY EntryType DEF Inv, Types, RaftInv
  <1>2. log[n] \in Seq(Entry)
    BY DEF Inv, RaftInv, RaftTypes
  <1>3. kv[n] = {log[n][k].cmd : k \in 1..appliedIndex[n]} \ {NoOp}
    <2>1. appliedIndex[n] \in 0..Len(log[n])
      BY <1>1
    <2>2. kv[n] = Commands(SubSeq(log[n], 1, appliedIndex[n]))
      BY DEF Inv, Applies, Applied
    <2> QED
      BY <1>2, <2>1, <2>2, CommandsOf
  <1>4. \A k \in 1..appliedIndex[n] : k \in 1..commit[n]
    BY <1>1
  <1> QED
    BY <1>3, <1>4 DEF Committed

(* Every step keeps what main has waited for among what a running node has   *)
(* committed.                                                                *)
LEMMA WaitsStep ==
    ASSUME Inv, [Next]_vars, outcome' # "misread", RaftInv', Grows PROVE Waits'
  <1>1. program \in Programs /\ step \in 1..Len(Script)
    BY DEF Inv, Types
  <1>2. \A n \in Node : Committed(n) \subseteq Committed(n)'
    BY CommittedGrows
  <1>3. ASSUME UNCHANGED <<program, step>>, \A n \in Node : ~stopped'[n] => ~stopped[n]
        PROVE  Waits'
    <2>1. Script' = Script
      BY <1>3 DEF Script
    <2>2. Op(step)' = Op(step) /\ Waited' = Waited
      BY <1>3, <2>1 DEF Op, Arg, Waited
    <2> QED
      BY <1>2, <1>3, <2>2 DEF Inv, Waits
  <1>4. CASE WaitLeader \/ Propose \/ StopReturns
    <2>1. UNCHANGED <<program, stopped>> /\ NextStep /\ Op(step) # "wait"
      BY <1>4 DEF WaitLeader, Propose, StopReturns, At, nodes
    <2>2. Waited' = Waited /\ (Op(step)' = "restart" => program = "wal-restart" /\ step = 3)
      BY <1>1, <2>1, Moves
    <2>3. \A n \in Node : ~stopped'[n] \/ Op(step)' = "restart" => ~stopped[n]
      BY <2>1, <2>2 DEF Inv, Stops
    <2> QED
      BY <1>2, <2>2, <2>3 DEF Inv, Waits
  <1>5. CASE WaitValue
    <2>1. /\ UNCHANGED <<program, stopped>> /\ NextStep /\ Op(step) = "wait"
          /\ \A n \in activeNodeIDs : Arg(step) \in kv[n]
      BY <1>5 DEF WaitValue, At, nodes
    <2>2. /\ Waited' \subseteq Waited \cup {Arg(step)}
          /\ Op(step)' = "restart" => program = "wal-restart" /\ step = 3
      BY <1>1, <2>1, Moves
    <2>3. \A n \in Node : ~stopped'[n] \/ Op(step)' = "restart" => ~stopped[n]
      BY <2>1, <2>2 DEF Inv, Stops
    <2>4. \A n \in Node : ~stopped[n] => Arg(step) \in Committed(n)
      BY <2>1, AppliedCommitted DEF activeNodeIDs
    <2> QED
      BY <1>2, <2>2, <2>3, <2>4 DEF Inv, Waits
  <1>6. CASE Restart
    <2>1. UNCHANGED program /\ NextStep /\ Op(step) = "restart"
      BY <1>6 DEF Restart, AllExited
    <2>2. Waited' = Waited
      BY <1>1, <2>1, Moves
    <2> QED
      BY <1>2, <2>1, <2>2 DEF Inv, Waits
  <1>7. CASE StopFollower
    <2>1. UNCHANGED <<program, step>> /\ stopped' = [stopped EXCEPT ![Min(chooseFollower)] = TRUE]
      BY <1>7 DEF StopFollower
    <2>2. \A n \in Node : ~stopped'[n] => ~stopped[n]
      BY <2>1, Zenon DEF Inv, Types
    <2> QED
      BY <1>3, <2>1, <2>2
  <1>8. CASE StopNext
    <2>1. PICK k \in Node : UNCHANGED <<program, step>> /\ stopped' = [stopped EXCEPT ![k] = TRUE]
      BY <1>8 DEF StopNext, activeNodeIDs
    <2>2. \A n \in Node : ~stopped'[n] => ~stopped[n]
      BY <2>1, Zenon DEF Inv, Types
    <2> QED
      BY <1>3, <2>1, <2>2
  <1>9. ASSUME UNCHANGED <<program, step, stopped>> PROVE Waits'
    BY <1>3, <1>9
  <1>10. ASSUME NEW n \in Node, Elect(n) \/ LeaderCommit(n) \/ Run(n) PROVE Waits'
    BY <1>9, <1>10 DEF Elect, LeaderCommit, Run, TakeReady, ApplyEntry, Exit, nodes, main
  <1>11. ASSUME NEW l \in Node, NEW f \in Node, Replicate(l, f) PROVE Waits'
    BY <1>9, <1>11 DEF Replicate, nodes, main
  <1>12. CASE Fatal \/ Ended \/ UNCHANGED vars
    BY <1>9, <1>12 DEF Fatal, Ended, vars, nodes, main
  <1>13. ~MisreadStart
    BY DEF MisreadStart
  <1> QED
    BY <1>4, <1>5, <1>6, <1>7, <1>8, <1>10, <1>11, <1>12, <1>13 DEF Next, Main

(* Every step keeps what the script has stopped in line with the loops.      *)
LEMMA StopsStep ==
    ASSUME Inv, [Next]_vars, outcome' # "misread" PROVE Stops'
  <1>1. /\ program \in Programs /\ step \in 1..Len(Script) /\ Len(Script) \in Nat /\ 0 \notin Node
        /\ stopped \in [Node -> BOOLEAN] /\ loop \in [Node -> {"select", "apply", "exited"}]
    BY Scripts DEF Inv, Types
  <1>2. ASSUME UNCHANGED <<program, step>> PROVE Op(step)' = Op(step)
    BY <1>2 DEF Op, Script
  <1>3. ASSUME UNCHANGED <<program, step, stopped, leaderID, stopping>>,
               \A n \in Node : loop[n] = "exited" => loop'[n] = "exited"
        PROVE  Stops'
    BY <1>2, <1>3 DEF Inv, Stops
  <1>4. ASSUME NEW n \in Node, Run(n) PROVE Stops'
    <2>1. \A m \in Node : loop[m] = "exited" => loop'[m] = "exited"
      BY <1>1, <1>4 DEF Run, TakeReady, ApplyEntry, Exit, LoopGoes
    <2>2. UNCHANGED <<program, step, stopped, leaderID, stopping>>
      BY <1>4 DEF Run, TakeReady, ApplyEntry, Exit, main
    <2> QED
      BY <1>3, <2>1, <2>2
  (* main goes on, nobody is stopped by it *)
  <1>5. ASSUME UNCHANGED <<program, stopped, loop>>, NextStep, Op(step) # "restart",
               leaderID' = leaderID \/ (leaderID' \in Node /\ ~stopped[leaderID']),
               \A n \in Node : stopped[n] /\ n \notin stopping' => loop[n] = "exited"
        PROVE  Stops'
    <2>1. step <= step' /\ step' \in Nat /\ step \in Nat
      BY <1>1, <1>5, Moves
    <2>2. leaderID' \in Node => ~stopped'[leaderID']
      BY <1>5 DEF Inv, Stops
    <2>3. program' = "wal-restart" /\ step' < 4 => \A n \in Node : ~stopped'[n]
      BY <1>5, <2>1 DEF Inv, Stops
    <2> QED
      BY <1>5, <2>2, <2>3 DEF Stops
  <1>6. CASE WaitLeader
    <2>1. leaderID' \in Node /\ ~stopped[leaderID']
      BY <1>6, ChosenOf DEF WaitLeader, leaders, activeNodeIDs
    <2> QED
      BY <1>5, <1>6, <2>1 DEF WaitLeader, At, nodes, Inv, Stops
  <1>7. CASE Propose \/ WaitValue
    <2>1. /\ UNCHANGED <<program, stopped, loop, leaderID, stopping>> /\ NextStep
          /\ Op(step) \in {"propose", "wait"}
      BY <1>7 DEF Propose, WaitValue, At, nodes
    <2>2. Op(step) # "restart"
      BY <2>1
    <2>3. \A n \in Node : stopped[n] /\ n \notin stopping' => loop[n] = "exited"
      BY <2>1 DEF Inv, Stops
    <2> QED
      BY <1>5, <2>1, <2>2, <2>3
  <1>8. CASE StopReturns
    <2>1. \A n \in Node : stopped[n] => loop[n] = "exited"
      BY <1>8 DEF StopReturns, Inv, Stops
    <2>2. UNCHANGED <<program, stopped, loop, leaderID>> /\ NextStep /\ Op(step) = "stop"
      BY <1>8 DEF StopReturns, nodes
    <2>3. Op(step) # "restart"
      BY <2>2
    <2> QED
      BY <1>5, <2>1, <2>2, <2>3
  <1>9. CASE StopFollower
    <2> DEFINE k == Min(chooseFollower)
    <2>1. k \in Node /\ k # leaderID
      BY <1>9, ChosenOf DEF StopFollower, chooseFollower, activeNodeIDs
    <2> HIDE DEF k
    <2>2. /\ UNCHANGED <<program, step, loop, leaderID>> /\ Op(step) = "stop" /\ stopping = {}
          /\ stopped' = [stopped EXCEPT ![k] = TRUE] /\ stopping' = {k}
      BY <1>9 DEF StopFollower, At, k
    <2>3. \A n \in Node : n # k => stopped'[n] = stopped[n]
      BY <1>1, <2>2, Zenon
    <2>4. ~(program = "wal-restart" /\ step < 4)
      BY <1>1, <2>2, Scripts
    <2> QED
      BY <1>2, <2>1, <2>2, <2>3, <2>4 DEF Inv, Stops
  <1>10. CASE StopNext
    <2>1. PICK k \in Node : stopped' = [stopped EXCEPT ![k] = TRUE] /\ stopping' = stopping \cup {k}
      BY <1>10 DEF StopNext, activeNodeIDs
    <2>2. UNCHANGED <<program, step, loop, leaderID>> /\ Op(step) = "restart"
      BY <1>10 DEF StopNext
    <2>3. \A n \in Node : n # k => stopped'[n] = stopped[n]
      BY <1>1, <2>1, Zenon
    <2>4. step = 4
      BY <1>1, <2>2, Scripts
    <2> QED
      BY <1>2, <2>1, <2>2, <2>3, <2>4 DEF Inv, Stops
  <1>11. CASE Restart
    <2>1. stopped' = [n \in Node |-> FALSE] /\ leaderID' = 0
      BY <1>11 DEF Restart
    <2> QED
      BY <1>1, <2>1 DEF Stops
  <1>12. ASSUME NEW n \in Node, Elect(n) \/ LeaderCommit(n) PROVE Stops'
    BY <1>3, <1>12 DEF Elect, LeaderCommit, nodes, main
  <1>13. ASSUME NEW l \in Node, NEW f \in Node, Replicate(l, f) PROVE Stops'
    BY <1>3, <1>13 DEF Replicate, nodes, main
  <1>14. CASE Fatal \/ Ended \/ UNCHANGED vars
    BY <1>3, <1>14 DEF Fatal, Ended, vars, nodes, main
  <1>15. ~MisreadStart
    BY DEF MisreadStart
  <1> QED
    BY <1>4, <1>6, <1>7, <1>8, <1>9, <1>10, <1>11, <1>12, <1>13, <1>14, <1>15 DEF Next, Main

(* Every step keeps the invariant.                                           *)
LEMMA InvStep == Inv /\ [Next]_vars /\ outcome' # "misread" => Inv'
  <1> SUFFICES ASSUME Inv, [Next]_vars, outcome' # "misread" PROVE Inv'
    OBVIOUS
  <1>1. RaftInv' /\ Grows
    BY RaftStep
  <1>2. NodeTypes'
    BY NodeTypesStep
  <1>3. Applies' /\ \A n \in Node : appliedIndex'[n] <= commit'[n]
    BY <1>1, <1>2, AppliesStep
  <1>4. Types'
    BY <1>1, <1>2, <1>3 DEF Types, NodeTypes, RaftInv, RaftTypes, Kept
  <1> QED
    BY <1>1, <1>3, <1>4, WaitsStep, StopsStep DEF Inv

(* Nothing follows a misread start.                                            *)
LEMMA SoundStep == Sound /\ [Next]_vars => Sound'
  <1>1. outcome = "misread" /\ [Next]_vars => outcome' = "misread"
    BY DEF Next, Ended, vars, main
  <1> QED
    BY <1>1, InvStep DEF Sound

(* What is invariant.                                                          *)
LEMMA Soundness == Spec => []Sound
  <1>1. Init => Sound
    BY Start DEF Sound
  <1> QED
    BY <1>1, SoundStep, PTL DEF Spec

-------------------------------------------------------------------------------
(* Every variable keeps its type and no node applies more than is committed,   *)
(* whatever is elected, deposed, stopped and restarted.                        *)
THEOREM TypeCorrect == Spec => []TypeOK
  <1>1. Sound => TypeOK
    BY DEF Sound, Inv, TypeOK
  <1> QED
    BY <1>1, Soundness, PTL

(* The state machines of any number of nodes apply the same commands in the    *)
(* same order: what applyCommitted has applied on the one is a prefix of what   *)
(* it has applied on the other.  This is said of a cluster none of whose starts *)
(* has misread its log: where a replaced entry lies above the snapshot, load    *)
(* (main.go:213-239 of src/etcd/raft-wal-restart) builds another log than the   *)
(* node had, and nothing is claimed of what such a start leads to.             *)
THEOREM Agreement == Spec => []StateMachinesAgree
  <1>1. Sound => StateMachinesAgree
    <2> SUFFICES ASSUME Inv, NEW n \in Node, NEW m \in Node
                 PROVE  /\ kv[n] = Commands(Applied(n))
                        /\ IsPrefix(Applied(n), Applied(m)) \/ IsPrefix(Applied(m), Applied(n))
      BY DEF Sound, StateMachinesAgree
    <2> DEFINE i(a) == appliedIndex[a]
    <2>1. \A a \in Node : /\ i(a) \in Nat /\ commit[a] \in Nat /\ Len(log[a]) \in Nat
                          /\ i(a) <= commit[a] /\ commit[a] <= Len(log[a]) /\ log[a] \in Seq(Entry)
      BY EntryType DEF Inv, Types, RaftInv, RaftTypes
    <2>2. \A a \in Node : /\ Applied(a) \in Seq(Entry) /\ Len(Applied(a)) = i(a)
                          /\ \A k \in 1..i(a) : Applied(a)[k] = log[a][k]
      <3> SUFFICES ASSUME NEW a \in Node
                   PROVE  /\ Applied(a) \in Seq(Entry) /\ Len(Applied(a)) = i(a)
                          /\ \A k \in 1..i(a) : Applied(a)[k] = log[a][k]
        OBVIOUS
      <3>1. log[a] \in Seq(Entry) /\ i(a) \in 0..Len(log[a])
        BY <2>1
      <3> QED
        BY <3>1, CommandsOf DEF Applied
    <2>3. ASSUME NEW k \in Nat, k > 0, k <= i(n), k <= i(m) PROVE log[n][k] = log[m][k]
      <3>1. commit[n] > 0 /\ commit[m] > 0 /\ k \in 1..commit[n] /\ k \in 1..commit[m]
        BY <2>1, <2>3
      <3>2. PICK Q \in SUBSET Node : Majority(Q) /\ \A v \in Q : Has(v, n, commit[n])
        BY <3>1 DEF Inv, RaftInv, Kept, CommitHeld
      <3>3. PICK R \in SUBSET Node : Majority(R) /\ \A v \in R : Has(v, m, commit[m])
        BY <3>1 DEF Inv, RaftInv, Kept, CommitHeld
      <3>4. PICK v \in Q : v \in R
        BY <3>2, <3>3, MajoritiesMeet
      <3> QED
        BY <3>1, <3>2, <3>3, <3>4 DEF Has
    <2>4. ASSUME NEW a \in Node, NEW b \in Node, i(a) <= i(b),
                 \A k \in 1..i(a) : log[a][k] = log[b][k]
          PROVE  IsPrefix(Applied(a), Applied(b))
      <3>1. \A k \in 1..i(a) : Applied(a)[k] = Applied(b)[k]
        BY <2>1, <2>2, <2>4
      <3>2. Len(Applied(a)) <= Len(Applied(b)) /\ Len(Applied(a)) = i(a) /\ i(a) \in Nat
        BY <2>1, <2>2, <2>4
      <3> DEFINE s == Applied(a)
                 t == Applied(b)
      <3>3. s \in Seq(Entry) /\ t \in Seq(Entry)
        BY <2>2
      <3> HIDE DEF s, t, i
      <3>4. SubSeq(s, 1, Len(s)) = SubSeq(t, 1, Len(s))
        BY <3>1, <3>2, <3>3 DEF s, t
      <3> QED
        BY <3>2, <3>4 DEF IsPrefix, s, t
    <2>5. CASE i(n) <= i(m)
      <3>1. \A k \in 1..i(n) : log[n][k] = log[m][k]
        <4> SUFFICES ASSUME NEW k \in 1..i(n) PROVE log[n][k] = log[m][k]
          OBVIOUS
        <4>1. k \in Nat /\ k > 0 /\ k <= i(n) /\ k <= i(m)
          BY <2>1, <2>5
        <4> QED
          BY <4>1, <2>3
      <3> QED
        BY <2>4, <2>5, <3>1 DEF Inv, Applies
    <2>6. CASE ~(i(n) <= i(m))
      <3>1. i(m) <= i(n)
        BY <2>1, <2>6
      <3>2. \A k \in 1..i(m) : log[m][k] = log[n][k]
        <4> SUFFICES ASSUME NEW k \in 1..i(m) PROVE log[n][k] = log[m][k]
          OBVIOUS
        <4>1. k \in Nat /\ k > 0 /\ k <= i(n) /\ k <= i(m)
          BY <2>1, <3>1
        <4> QED
          BY <4>1, <2>3
      <3> QED
        BY <2>4, <3>1, <3>2 DEF Inv, Applies
    <2> QED
      BY <2>5, <2>6 DEF Inv, Applies
  <1> QED
    BY <1>1, Soundness, PTL

(* Whatever waitValueOnActiveNodes has waited for is committed on each active   *)
(* node ever after, through depositions, stops and a restart from a disk that   *)
(* load reads as it was written; nothing is claimed once a start has misread    *)
(* replaced entries (main.go:213-239 of src/etcd/raft-wal-restart).            *)
THEOREM WaitedStays == Spec => []WaitedIsCommitted
  <1>1. Sound => WaitedIsCommitted
    <2> SUFFICES ASSUME Inv, NEW n \in Node, ~stopped[n]
                 PROVE  Waited \subseteq Commands(SubSeq(log[n], 1, commit[n]))
      BY DEF Sound, WaitedIsCommitted, activeNodeIDs
    <2>1. log[n] \in Seq(Entry) /\ commit[n] \in Nat /\ commit[n] <= Len(log[n])
      BY DEF Inv, Types
    <2>2. commit[n] \in 0..Len(log[n])
      BY <2>1
    <2>3. Commands(SubSeq(log[n], 1, commit[n])) = Committed(n)
      BY <2>1, <2>2, CommandsOf DEF Committed
    <2> QED
      BY <2>3 DEF Inv, Waits
  <1> QED
    BY <1>1, Soundness, PTL

(* After stop has returned the node takes part in nothing: no message reaches   *)
(* it, it applies no entry and takes no proposal, until all is restarted.      *)
THEOREM Silence == Spec => StoppedIsSilent
  <1> DEFINE Silent == \A n \in Node : stopped[n] /\ n \notin stopping =>
                          /\ kv'[n] = kv[n] /\ appliedIndex'[n] = appliedIndex[n]
                          /\ log'[n] = log[n] /\ term'[n] = term[n]
  <1>1. Sound /\ [Next]_vars => [Silent]_vars
    <2>0. outcome = "misread" /\ Next => UNCHANGED vars
      BY DEF Next, Ended
    <2> SUFFICES ASSUME Inv, Next, NEW n \in Node, stopped[n], n \notin stopping
                 PROVE  /\ kv'[n] = kv[n] /\ appliedIndex'[n] = appliedIndex[n]
                        /\ log'[n] = log[n] /\ term'[n] = term[n]
      BY <2>0 DEF Sound
    <2> DEFINE Goal == /\ kv'[n] = kv[n] /\ appliedIndex'[n] = appliedIndex[n]
                       /\ log'[n] = log[n] /\ term'[n] = term[n]
    <2>1. loop[n] = "exited"
      BY DEF Inv, Stops
    <2>2. ASSUME UNCHANGED <<kv, appliedIndex, log, term>> PROVE Goal
      BY <2>2
    <2>3. /\ kv \in [Node -> SUBSET Cmd] /\ appliedIndex \in [Node -> Nat]
          /\ log \in [Node -> Seq(Entry)] /\ term \in [Node -> Nat]
      BY DEF Inv, Types
    <2>4. ASSUME NEW m \in Node, Elect(m) PROVE Goal
      <3>1. PICK votes \in SUBSET Node :
              /\ m \in votes
              /\ \A k \in votes : Delivers(k, m)
              /\ LET t == Max({term[k] : k \in votes}) + 1
                 IN /\ term' = [k \in Node |-> IF k \in votes THEN t ELSE term[k]]
                    /\ log' = [log EXCEPT ![m] = Append(@, [term |-> t, cmd |-> NoOp])]
        BY <2>4 DEF Elect, Quorum
      <3>2. n \notin votes
        BY <2>1, <3>1 DEF Delivers
      <3>3. UNCHANGED <<kv, appliedIndex>>
        BY <2>4 DEF Elect, nodes
      <3> QED
        BY <2>3, <3>1, <3>2, <3>3
    <2>5. ASSUME NEW l \in Node, NEW f \in Node, Replicate(l, f) PROVE Goal
      <3>1. f # n
        BY <2>5 DEF Replicate, Delivers
      <3> QED
        BY <2>3, <2>5, <3>1 DEF Replicate, nodes
    <2>6. ASSUME NEW m \in Node, LeaderCommit(m) PROVE Goal
      BY <2>2, <2>6 DEF LeaderCommit, nodes
    <2>7. ASSUME NEW m \in Node, Run(m) PROVE Goal
      BY <2>1, <2>3, <2>7 DEF Run, TakeReady, ApplyEntry, Exit, LoopGoes, raft
    <2>8. CASE Propose
      <3>1. UNCHANGED <<kv, appliedIndex, term>> /\ Op(step) = "propose"
        BY <2>8 DEF Propose, At, nodes
      <3>2. n # leaderID
        BY <3>1 DEF Inv, Stops
      <3>3. \A l : l # n /\ AppendAt(l) => log'[n] = log[n]
        BY <2>3 DEF AppendAt
      <3>4. n \notin leaders
        BY DEF leaders, activeNodeIDs
      <3>5. log'[n] = log[n]
        BY <2>8, <3>2, <3>3, <3>4 DEF Propose
      <3> QED
        BY <3>1, <3>5
    <2>9. CASE Restart
      BY <2>9 DEF Restart, AllExited
    <2>10. CASE WaitLeader \/ WaitValue \/ StopFollower \/ StopReturns \/ StopNext \/ Fatal \/ Ended
      BY <2>2, <2>10 DEF WaitLeader, WaitValue, StopFollower, StopReturns, StopNext, Fatal, Ended,
                         vars, raft, nodes
    <2>11. CASE MisreadStart
      BY <2>11 DEF MisreadStart, AllExited
    <2> QED
      BY <2>4, <2>5, <2>6, <2>7, <2>8, <2>9, <2>10, <2>11 DEF Next, Main
  <1> QED
    BY <1>1, Soundness, PTL DEF Spec, StoppedIsSilent
================================================================================
