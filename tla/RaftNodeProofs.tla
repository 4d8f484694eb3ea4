------------------------------ MODULE RaftNodeProofs ------------------------------
(***************************************************************************)
(* The safety properties of RaftNode, for any number of voters, terms,     *)
(* indexes and process deaths, any snapshot interval and any conduct of the *)
(* leaders.                                                                *)
(*                                                                         *)
(* What load reads back from the WAL is computed by three passes (Kept,     *)
(* Joined, Replay).  They are first taken from their folds to one step per  *)
(* element; what they keep follows by induction along the log.  The          *)
(* inductive invariant IInv then relates the log in memory, the Ready being *)
(* handled, and the files: replayed record by record, the WAL is always the *)
(* log that is in memory, or about to be; and it leaves no gap after the     *)
(* snapshot, also while a snapshot sent by a leader is saved and its hard    *)
(* state is not.                                                           *)
(***************************************************************************)
EXTENDS RaftNode, DataInduction

-------------------------------------------------------------------------------
(* The three passes over a log, step by step.                                *)
KeptStep(h, log, I) ==
    /\ h[0] = <<>>
    /\ \A k \in 1..Len(log) :
          h[k] = IF log[k].index \in I THEN Append(h[k - 1], log[k]) ELSE h[k - 1]
JoinedStep(h, records) ==
    /\ h[0] = <<>>
    /\ \A k \in 1..Len(records) : h[k] = h[k - 1] \o records[k].ents
ReplayStep(h, log) ==
    /\ h[0] = <<>>
    /\ \A k \in 1..Len(log) : h[k] = Append(Below(h[k - 1], log[k].index), log[k])

(* Kept, from its fold over sets to one step per entry.                      *)
LEMMA KeptSteps ==
    ASSUME NEW E, NEW log \in Seq(E), NEW I
    PROVE  \E h \in [0..Len(log) -> Seq(E)] : KeptStep(h, log, I) /\ Kept(log, I) = h[Len(log)]
  <1> DEFINE n == Len(log)
             D == DOMAIN log
             Step(m, x) == IF log[x].index \in I THEN Append(m, log[x]) ELSE m
             O == [m \in Seq(E) |-> [x \in 1..n |-> Step(m, x)]]
             Eq(g) == g = [T \in SUBSET D |->
                             IF T = {} THEN <<>> ELSE Step(g[T \ {Max(T)}], Max(T))]
  <1>1. n \in Nat /\ D = 1..n /\ <<>> \in Seq(E)
    OBVIOUS
  <1>2. ASSUME NEW m \in Seq(E), NEW x \in 1..n PROVE Step(m, x) \in Seq(E)
    OBVIOUS
  <1>3. O \in [Seq(E) -> [1..n -> Seq(E)]]
    <2> HIDE DEF Step
    <2> QED BY <1>2
  <1>4. PICK g \in [SUBSET (1..n) -> Seq(E)] : IsFold(g, <<>>, O, FromEnd(n), 1..n)
    <2> HIDE DEF O
    <2> QED BY <1>1, <1>3, FromEndChooses, FoldExists, Zenon
  <1>5. Eq(g)
    <2>1. ASSUME NEW T \in SUBSET D
          PROVE  g[T] = IF T = {} THEN <<>> ELSE Step(g[T \ {Max(T)}], Max(T))
      <3>1. CASE T = {}
        BY <1>1, <1>4, <3>1 DEF IsFold
      <3>2. CASE T # {}
        <4>1. FromEnd(n)[T] = Max(T) /\ Max(T) \in 1..n /\ T \ {Max(T)} \in SUBSET (1..n)
          BY <1>1, <3>2, FromEndChooses DEF FromEnd, Chooses
        <4>2. g[T] = O[g[T \ {Max(T)}]][Max(T)]
          <5> HIDE DEF O
          <5> QED BY <1>1, <1>4, <3>2, <4>1 DEF IsFold
        <4>3. g[T \ {Max(T)}] \in Seq(E)
          BY <4>1
        <4>4. O[g[T \ {Max(T)}]][Max(T)] = Step(g[T \ {Max(T)}], Max(T))
          <5> HIDE DEF Step
          <5> QED BY <4>1, <4>3
        <4> HIDE DEF O, Step
        <4> QED BY <3>2, <4>2, <4>4
      <3> QED BY <3>1, <3>2
    <2>2. g = [T \in SUBSET D |-> g[T]]
      BY <1>1
    <2> HIDE DEF D, Step
    <2> QED BY <2>1, <2>2, Zenon
  <1> DEFINE f == CHOOSE iter : Eq(iter)
  <1>6. Eq(f)
    <2> HIDE DEF Eq
    <2> QED BY <1>5, Zenon
  <1>7. Kept(log, I) = f[D]
    BY Zenon DEF Kept, FoldLeft, MapThenFoldSet
  <1> HIDE DEF f
  <1>8. \A T \in SUBSET D : f[T] = IF T = {} THEN <<>> ELSE Step(f[T \ {Max(T)}], Max(T))
    <2> HIDE DEF D, Step
    <2> QED BY <1>6, Zenon
  <1> DEFINE h == [k \in 0..n |-> f[1..k]]
  <1>9. h[0] = <<>>
    <2>1. {} \in SUBSET D /\ 1..0 = {} /\ 0 \in 0..n
      BY <1>1
    <2>2. f[{}] = <<>>
      <3> HIDE DEF D, Step
      <3> QED BY <1>8, <2>1, Zenon
    <2> HIDE DEF D, Step
    <2> QED BY <2>1, <2>2
  <1>10. ASSUME NEW k \in 1..n PROVE h[k] = Step(h[k - 1], k)
    <2>1. 1..k \in SUBSET D /\ 1..k # {} /\ k - 1 \in 0..n /\ k \in 0..n
      <3> HIDE DEF n, D, Step
      <3> QED BY <1>1, Intervals
    <2>2. Max(1..k) = k /\ (1..k) \ {k} = 1..k - 1
      BY FromEndChooses
    <2>3. f[1..k] = Step(f[1..k - 1], k)
      <3> HIDE DEF D, Step
      <3> QED BY <1>8, <2>1, <2>2, Zenon
    <2> HIDE DEF Step
    <2> QED BY <2>1, <2>3
  <1>11. \A k \in 0..n : h[k] \in Seq(E)
    <2> DEFINE N == {k \in 0..n : h[k] \in Seq(E)}
    <2>1. 0 \in N
      <3>1. h[0] \in Seq(E)
        <4> HIDE DEF h, Step
        <4> QED BY <1>1, <1>9
      <3>2. 0 \in 0..n
        OBVIOUS
      <3> HIDE DEF h
      <3> QED BY <3>1, <3>2
    <2>2. ASSUME NEW k \in 0..n - 1, k \in N PROVE k + 1 \in N
      <3>1. k + 1 \in 1..n /\ k + 1 \in 0..n /\ (k + 1) - 1 = k /\ h[k] \in Seq(E)
        BY <2>2
      <3>2. h[k + 1] = Step(h[k], k + 1)
        <4> HIDE DEF h, Step, N
        <4> QED BY <1>10, <3>1
      <3>3. h[k + 1] \in Seq(E)
        <4> HIDE DEF h, N, Step
        <4> QED BY <1>2, <3>1, <3>2
      <3> QED BY <3>1, <3>3
    <2>3. 0..n \subseteq N
      <3> HIDE DEF N
      <3> QED BY <1>1, <2>1, <2>2, BoundedInduction
    <2> QED BY <2>3
  <1>12. h \in [0..n -> Seq(E)] /\ KeptStep(h, log, I)
    BY <1>9, <1>10, <1>11 DEF KeptStep
  <1>13. Kept(log, I) = h[n]
    BY <1>1, <1>7
  <1> HIDE DEF h
  <1> QED BY <1>12, <1>13

(* Kept gives a log of the same kind.                                        *)
LEMMA KeptType ==
    ASSUME NEW E, NEW log \in Seq(E), NEW I
    PROVE  Kept(log, I) \in Seq(E)
  <1>1. PICK h \in [0..Len(log) -> Seq(E)] : Kept(log, I) = h[Len(log)]
    BY KeptSteps
  <1>2. Len(log) \in 0..Len(log)
    OBVIOUS
  <1> QED BY <1>1, <1>2

(* The same of Joined.                                                       *)
LEMMA JoinedSteps ==
    ASSUME NEW E, NEW R, \A r \in R : r.ents \in Seq(E), NEW records \in Seq(R)
    PROVE  \E h \in [0..Len(records) -> Seq(E)] : JoinedStep(h, records) /\ Joined(records) = h[Len(records)]
  <1> DEFINE n == Len(records)
             D == DOMAIN records
             Step(m, x) == m \o records[x].ents
             O == [m \in Seq(E) |-> [x \in 1..n |-> Step(m, x)]]
             Eq(g) == g = [T \in SUBSET D |->
                             IF T = {} THEN <<>> ELSE Step(g[T \ {Max(T)}], Max(T))]
  <1>1. n \in Nat /\ D = 1..n /\ <<>> \in Seq(E)
    OBVIOUS
  <1>2. ASSUME NEW m \in Seq(E), NEW x \in 1..n PROVE Step(m, x) \in Seq(E)
    <2>1. records[x].ents \in Seq(E)
      OBVIOUS
    <2> QED BY <2>1
  <1>3. O \in [Seq(E) -> [1..n -> Seq(E)]]
    <2> HIDE DEF Step
    <2> QED BY <1>2
  <1>4. PICK g \in [SUBSET (1..n) -> Seq(E)] : IsFold(g, <<>>, O, FromEnd(n), 1..n)
    <2> HIDE DEF O
    <2> QED BY <1>1, <1>3, FromEndChooses, FoldExists, Zenon
  <1>5. Eq(g)
    <2>1. ASSUME NEW T \in SUBSET D
          PROVE  g[T] = IF T = {} THEN <<>> ELSE Step(g[T \ {Max(T)}], Max(T))
      <3>1. CASE T = {}
        BY <1>1, <1>4, <3>1 DEF IsFold
      <3>2. CASE T # {}
        <4>1. FromEnd(n)[T] = Max(T) /\ Max(T) \in 1..n /\ T \ {Max(T)} \in SUBSET (1..n)
          BY <1>1, <3>2, FromEndChooses DEF FromEnd, Chooses
        <4>2. g[T] = O[g[T \ {Max(T)}]][Max(T)]
          <5> HIDE DEF O
          <5> QED BY <1>1, <1>4, <3>2, <4>1 DEF IsFold
        <4>3. g[T \ {Max(T)}] \in Seq(E)
          BY <4>1
        <4>4. O[g[T \ {Max(T)}]][Max(T)] = Step(g[T \ {Max(T)}], Max(T))
          <5> HIDE DEF Step
          <5> QED BY <4>1, <4>3
        <4> HIDE DEF O, Step
        <4> QED BY <3>2, <4>2, <4>4
      <3> QED BY <3>1, <3>2
    <2>2. g = [T \in SUBSET D |-> g[T]]
      BY <1>1
    <2> HIDE DEF D, Step
    <2> QED BY <2>1, <2>2, Zenon
  <1> DEFINE f == CHOOSE iter : Eq(iter)
  <1>6. Eq(f)
    <2> HIDE DEF Eq
    <2> QED BY <1>5, Zenon
  <1>7. Joined(records) = f[D]
    BY Zenon DEF Joined, FoldLeft, MapThenFoldSet
  <1> HIDE DEF f
  <1>8. \A T \in SUBSET D : f[T] = IF T = {} THEN <<>> ELSE Step(f[T \ {Max(T)}], Max(T))
    <2> HIDE DEF D, Step
    <2> QED BY <1>6, Zenon
  <1> DEFINE h == [k \in 0..n |-> f[1..k]]
  <1>9. h[0] = <<>>
    <2>1. {} \in SUBSET D /\ 1..0 = {} /\ 0 \in 0..n
      BY <1>1
    <2>2. f[{}] = <<>>
      <3> HIDE DEF D, Step
      <3> QED BY <1>8, <2>1, Zenon
    <2> HIDE DEF D, Step
    <2> QED BY <2>1, <2>2
  <1>10. ASSUME NEW k \in 1..n PROVE h[k] = Step(h[k - 1], k)
    <2>1. 1..k \in SUBSET D /\ 1..k # {} /\ k - 1 \in 0..n /\ k \in 0..n
      <3> HIDE DEF n, D, Step
      <3> QED BY <1>1, Intervals
    <2>2. Max(1..k) = k /\ (1..k) \ {k} = 1..k - 1
      BY FromEndChooses
    <2>3. f[1..k] = Step(f[1..k - 1], k)
      <3> HIDE DEF D, Step
      <3> QED BY <1>8, <2>1, <2>2, Zenon
    <2> HIDE DEF Step
    <2> QED BY <2>1, <2>3
  <1>11. \A k \in 0..n : h[k] \in Seq(E)
    <2> DEFINE N == {k \in 0..n : h[k] \in Seq(E)}
    <2>1. 0 \in N
      <3>1. h[0] \in Seq(E)
        <4> HIDE DEF h, Step
        <4> QED BY <1>1, <1>9
      <3>2. 0 \in 0..n
        OBVIOUS
      <3> HIDE DEF h
      <3> QED BY <3>1, <3>2
    <2>2. ASSUME NEW k \in 0..n - 1, k \in N PROVE k + 1 \in N
      <3>1. k + 1 \in 1..n /\ k + 1 \in 0..n /\ (k + 1) - 1 = k /\ h[k] \in Seq(E)
        BY <2>2
      <3>2. h[k + 1] = Step(h[k], k + 1)
        <4> HIDE DEF h, Step, N
        <4> QED BY <1>10, <3>1
      <3>3. h[k + 1] \in Seq(E)
        <4> HIDE DEF h, N, Step
        <4> QED BY <1>2, <3>1, <3>2
      <3> QED BY <3>1, <3>3
    <2>3. 0..n \subseteq N
      <3> HIDE DEF N
      <3> QED BY <1>1, <2>1, <2>2, BoundedInduction
    <2> QED BY <2>3
  <1>12. h \in [0..n -> Seq(E)] /\ JoinedStep(h, records)
    BY <1>9, <1>10, <1>11 DEF JoinedStep
  <1>13. Joined(records) = h[n]
    BY <1>1, <1>7
  <1> HIDE DEF h
  <1> QED BY <1>12, <1>13

(* The same of Replay.                                                       *)
LEMMA ReplaySteps ==
    ASSUME NEW E, NEW log \in Seq(E)
    PROVE  \E h \in [0..Len(log) -> Seq(E)] : ReplayStep(h, log) /\ Replay(log) = h[Len(log)]
  <1> DEFINE n == Len(log)
             D == DOMAIN log
             Step(m, x) == Append(Below(m, log[x].index), log[x])
             O == [m \in Seq(E) |-> [x \in 1..n |-> Step(m, x)]]
             Eq(g) == g = [T \in SUBSET D |->
                             IF T = {} THEN <<>> ELSE Step(g[T \ {Max(T)}], Max(T))]
  <1>1. n \in Nat /\ D = 1..n /\ <<>> \in Seq(E)
    OBVIOUS
  <1>2. ASSUME NEW m \in Seq(E), NEW x \in 1..n PROVE Step(m, x) \in Seq(E)
    <2>1. Below(m, log[x].index) \in Seq(E)
      BY KeptType DEF Below
    <2> QED BY <2>1
  <1>3. O \in [Seq(E) -> [1..n -> Seq(E)]]
    <2> HIDE DEF Step
    <2> QED BY <1>2
  <1>4. PICK g \in [SUBSET (1..n) -> Seq(E)] : IsFold(g, <<>>, O, FromEnd(n), 1..n)
    <2> HIDE DEF O
    <2> QED BY <1>1, <1>3, FromEndChooses, FoldExists, Zenon
  <1>5. Eq(g)
    <2>1. ASSUME NEW T \in SUBSET D
          PROVE  g[T] = IF T = {} THEN <<>> ELSE Step(g[T \ {Max(T)}], Max(T))
      <3>1. CASE T = {}
        BY <1>1, <1>4, <3>1 DEF IsFold
      <3>2. CASE T # {}
        <4>1. FromEnd(n)[T] = Max(T) /\ Max(T) \in 1..n /\ T \ {Max(T)} \in SUBSET (1..n)
          BY <1>1, <3>2, FromEndChooses DEF FromEnd, Chooses
        <4>2. g[T] = O[g[T \ {Max(T)}]][Max(T)]
          <5> HIDE DEF O
          <5> QED BY <1>1, <1>4, <3>2, <4>1 DEF IsFold
        <4>3. g[T \ {Max(T)}] \in Seq(E)
          BY <4>1
        <4>4. O[g[T \ {Max(T)}]][Max(T)] = Step(g[T \ {Max(T)}], Max(T))
          <5> HIDE DEF Step
          <5> QED BY <4>1, <4>3
        <4> HIDE DEF O, Step
        <4> QED BY <3>2, <4>2, <4>4
      <3> QED BY <3>1, <3>2
    <2>2. g = [T \in SUBSET D |-> g[T]]
      BY <1>1
    <2> HIDE DEF D, Step
    <2> QED BY <2>1, <2>2, Zenon
  <1> DEFINE f == CHOOSE iter : Eq(iter)
  <1>6. Eq(f)
    <2> HIDE DEF Eq
    <2> QED BY <1>5, Zenon
  <1>7. Replay(log) = f[D]
    BY Zenon DEF Replay, FoldLeft, MapThenFoldSet
  <1> HIDE DEF f
  <1>8. \A T \in SUBSET D : f[T] = IF T = {} THEN <<>> ELSE Step(f[T \ {Max(T)}], Max(T))
    <2> HIDE DEF D, Step
    <2> QED BY <1>6, Zenon
  <1> DEFINE h == [k \in 0..n |-> f[1..k]]
  <1>9. h[0] = <<>>
    <2>1. {} \in SUBSET D /\ 1..0 = {} /\ 0 \in 0..n
      BY <1>1
    <2>2. f[{}] = <<>>
      <3> HIDE DEF D, Step
      <3> QED BY <1>8, <2>1, Zenon
    <2> HIDE DEF D, Step
    <2> QED BY <2>1, <2>2
  <1>10. ASSUME NEW k \in 1..n PROVE h[k] = Step(h[k - 1], k)
    <2>1. 1..k \in SUBSET D /\ 1..k # {} /\ k - 1 \in 0..n /\ k \in 0..n
      <3> HIDE DEF n, D, Step
      <3> QED BY <1>1, Intervals
    <2>2. Max(1..k) = k /\ (1..k) \ {k} = 1..k - 1
      BY FromEndChooses
    <2>3. f[1..k] = Step(f[1..k - 1], k)
      <3> HIDE DEF D, Step
      <3> QED BY <1>8, <2>1, <2>2, Zenon
    <2> HIDE DEF Step
    <2> QED BY <2>1, <2>3
  <1>11. \A k \in 0..n : h[k] \in Seq(E)
    <2> DEFINE N == {k \in 0..n : h[k] \in Seq(E)}
    <2>1. 0 \in N
      <3>1. h[0] \in Seq(E)
        <4> HIDE DEF h, Step
        <4> QED BY <1>1, <1>9
      <3>2. 0 \in 0..n
        OBVIOUS
      <3> HIDE DEF h
      <3> QED BY <3>1, <3>2
    <2>2. ASSUME NEW k \in 0..n - 1, k \in N PROVE k + 1 \in N
      <3>1. k + 1 \in 1..n /\ k + 1 \in 0..n /\ (k + 1) - 1 = k /\ h[k] \in Seq(E)
        BY <2>2
      <3>2. h[k + 1] = Step(h[k], k + 1)
        <4> HIDE DEF h, Step, N
        <4> QED BY <1>10, <3>1
      <3>3. h[k + 1] \in Seq(E)
        <4> HIDE DEF h, N, Step
        <4> QED BY <1>2, <3>1, <3>2
      <3> QED BY <3>1, <3>3
    <2>3. 0..n \subseteq N
      <3> HIDE DEF N
      <3> QED BY <1>1, <2>1, <2>2, BoundedInduction
    <2> QED BY <2>3
  <1>12. h \in [0..n -> Seq(E)] /\ ReplayStep(h, log)
    BY <1>9, <1>10, <1>11 DEF ReplayStep
  <1>13. Replay(log) = h[n]
    BY <1>1, <1>7
  <1> HIDE DEF h
  <1> QED BY <1>12, <1>13

(* What one more entry, or one more record, changes.                         *)
LEMMA KeptAppend ==
    ASSUME NEW E, NEW log \in Seq(E), NEW e \in E, NEW I
    PROVE  Kept(Append(log, e), I) = IF e.index \in I THEN Append(Kept(log, I), e) ELSE Kept(log, I)
  <1> DEFINE n == Len(log)
  <1>1. PICK h \in [0..n -> Seq(E)] : KeptStep(h, log, I) /\ Kept(log, I) = h[n]
    BY KeptSteps
  <1>2. Append(log, e) \in Seq(E) /\ Len(Append(log, e)) = n + 1 /\ n \in Nat
    OBVIOUS
  <1>3. PICK g \in [0..n + 1 -> Seq(E)] : KeptStep(g, Append(log, e), I) /\ Kept(Append(log, e), I) = g[n + 1]
    <2> HIDE DEF n
    <2>1. \E g \in [0..Len(Append(log, e)) -> Seq(E)] : KeptStep(g, Append(log, e), I) /\ Kept(Append(log, e), I) = g[Len(Append(log, e))]
      BY <1>2, KeptSteps
    <2> QED BY <1>2, <2>1
  <1>4. \A k \in 1..n : Append(log, e)[k] = log[k]
    OBVIOUS
  <1>5. Append(log, e)[n + 1] = e
    OBVIOUS
  <1> DEFINE N == {k \in 0..n : g[k] = h[k]}
  <1>6. 0 \in N
    BY <1>1, <1>2, <1>3 DEF KeptStep
  <1>7. ASSUME NEW k \in 0..n - 1, k \in N PROVE k + 1 \in N
    <2>1. k + 1 \in 1..n /\ k + 1 \in 1..n + 1 /\ k + 1 \in 0..n /\ (k + 1) - 1 = k /\ g[k] = h[k]
      BY <1>7
    <2>2. g[k + 1] = h[k + 1]
      <3> HIDE DEF n, N
      <3> QED BY <1>1, <1>2, <1>3, <1>4, <2>1 DEF KeptStep, n
    <2> QED BY <2>1, <2>2
  <1>8. 0..n \subseteq N
    <2> HIDE DEF N, n
    <2> QED BY <1>2, <1>6, <1>7, BoundedInduction
  <1>9. n \in 0..n /\ n + 1 \in 1..n + 1 /\ (n + 1) - 1 = n
    BY <1>2
  <1>10. g[n] = h[n]
    BY <1>8, <1>9
  <1> HIDE DEF n, N
  <1> QED BY <1>1, <1>2, <1>3, <1>5, <1>9, <1>10 DEF KeptStep

(* One more record.                                                          *)
LEMMA JoinedAppend ==
    ASSUME NEW E, NEW R, \A r \in R : r.ents \in Seq(E), NEW records \in Seq(R), NEW rec \in R
    PROVE  Joined(Append(records, rec)) = Joined(records) \o rec.ents
  <1> DEFINE n == Len(records)
  <1>1. PICK h \in [0..n -> Seq(E)] : JoinedStep(h, records) /\ Joined(records) = h[n]
    BY JoinedSteps
  <1>2. Append(records, rec) \in Seq(R) /\ Len(Append(records, rec)) = n + 1 /\ n \in Nat
    OBVIOUS
  <1>3. PICK g \in [0..n + 1 -> Seq(E)] : JoinedStep(g, Append(records, rec)) /\ Joined(Append(records, rec)) = g[n + 1]
    <2> HIDE DEF n
    <2>1. \E g \in [0..Len(Append(records, rec)) -> Seq(E)] : JoinedStep(g, Append(records, rec)) /\ Joined(Append(records, rec)) = g[Len(Append(records, rec))]
      BY <1>2, JoinedSteps
    <2> QED BY <1>2, <2>1
  <1>4. \A k \in 1..n : Append(records, rec)[k] = records[k]
    OBVIOUS
  <1>5. Append(records, rec)[n + 1] = rec
    OBVIOUS
  <1> DEFINE N == {k \in 0..n : g[k] = h[k]}
  <1>6. 0 \in N
    BY <1>1, <1>2, <1>3 DEF JoinedStep
  <1>7. ASSUME NEW k \in 0..n - 1, k \in N PROVE k + 1 \in N
    <2>1. k + 1 \in 1..n /\ k + 1 \in 1..n + 1 /\ k + 1 \in 0..n /\ (k + 1) - 1 = k /\ g[k] = h[k]
      BY <1>7
    <2>2. g[k + 1] = h[k + 1]
      <3> HIDE DEF n, N
      <3> QED BY <1>1, <1>2, <1>3, <1>4, <2>1 DEF JoinedStep, n
    <2> QED BY <2>1, <2>2
  <1>8. 0..n \subseteq N
    <2> HIDE DEF N, n
    <2> QED BY <1>2, <1>6, <1>7, BoundedInduction
  <1>9. n \in 0..n /\ n + 1 \in 1..n + 1 /\ (n + 1) - 1 = n
    BY <1>2
  <1>10. g[n] = h[n]
    BY <1>8, <1>9
  <1> HIDE DEF n, N
  <1> QED BY <1>1, <1>2, <1>3, <1>5, <1>9, <1>10 DEF JoinedStep

(* One more entry to replay: it replaces what stands at or above its index.  *)
LEMMA ReplayAppend ==
    ASSUME NEW E, NEW log \in Seq(E), NEW e \in E
    PROVE  Replay(Append(log, e)) = Append(Below(Replay(log), e.index), e)
  <1> DEFINE n == Len(log)
  <1>1. PICK h \in [0..n -> Seq(E)] : ReplayStep(h, log) /\ Replay(log) = h[n]
    BY ReplaySteps
  <1>2. Append(log, e) \in Seq(E) /\ Len(Append(log, e)) = n + 1 /\ n \in Nat
    OBVIOUS
  <1>3. PICK g \in [0..n + 1 -> Seq(E)] : ReplayStep(g, Append(log, e)) /\ Replay(Append(log, e)) = g[n + 1]
    <2> HIDE DEF n
    <2>1. \E g \in [0..Len(Append(log, e)) -> Seq(E)] : ReplayStep(g, Append(log, e)) /\ Replay(Append(log, e)) = g[Len(Append(log, e))]
      BY <1>2, ReplaySteps
    <2> QED BY <1>2, <2>1
  <1>4. \A k \in 1..n : Append(log, e)[k] = log[k]
    OBVIOUS
  <1>5. Append(log, e)[n + 1] = e
    OBVIOUS
  <1> DEFINE N == {k \in 0..n : g[k] = h[k]}
  <1>6. 0 \in N
    BY <1>1, <1>2, <1>3 DEF ReplayStep
  <1>7. ASSUME NEW k \in 0..n - 1, k \in N PROVE k + 1 \in N
    <2>1. k + 1 \in 1..n /\ k + 1 \in 1..n + 1 /\ k + 1 \in 0..n /\ (k + 1) - 1 = k /\ g[k] = h[k]
      BY <1>7
    <2>2. g[k + 1] = h[k + 1]
      <3> HIDE DEF n, N
      <3> QED BY <1>1, <1>2, <1>3, <1>4, <2>1 DEF ReplayStep, n
    <2> QED BY <2>1, <2>2
  <1>8. 0..n \subseteq N
    <2> HIDE DEF N, n
    <2> QED BY <1>2, <1>6, <1>7, BoundedInduction
  <1>9. n \in 0..n /\ n + 1 \in 1..n + 1 /\ (n + 1) - 1 = n
    BY <1>2
  <1>10. g[n] = h[n]
    BY <1>8, <1>9
  <1> HIDE DEF n, N
  <1> QED BY <1>1, <1>2, <1>3, <1>5, <1>9, <1>10 DEF ReplayStep

(* Nothing is in an empty log.                                               *)
LEMMA EmptyLogs == /\ \A I : Kept(<<>>, I) = <<>>
                   /\ Joined(<<>>) = <<>>
                   /\ Replay(<<>>) = <<>>
  <1> DEFINE e == <<>>
  <1>1. e \in Seq({}) /\ Len(e) = 0 /\ (\A r \in {} : r.ents \in Seq({})) /\ 0 \in 0..0
    OBVIOUS
  <1>2. ASSUME NEW I PROVE Kept(e, I) = <<>>
    <2>1. PICK h \in [0..Len(e) -> Seq({})] : KeptStep(h, e, I) /\ Kept(e, I) = h[Len(e)]
      BY <1>1, KeptSteps
    <2> QED BY <1>1, <2>1 DEF KeptStep
  <1>3. Joined(e) = <<>>
    <2>1. PICK h \in [0..Len(e) -> Seq({})] : JoinedStep(h, e) /\ Joined(e) = h[Len(e)]
      BY <1>1, JoinedSteps
    <2> QED BY <1>1, <2>1 DEF JoinedStep
  <1>4. Replay(e) = <<>>
    <2>1. PICK h \in [0..Len(e) -> Seq({})] : ReplayStep(h, e) /\ Replay(e) = h[Len(e)]
      BY <1>1, ReplaySteps
    <2> QED BY <1>1, <2>1 DEF ReplayStep
  <1> QED BY <1>2, <1>3, <1>4

-------------------------------------------------------------------------------
(* What the passes compute *)

EntriesOf(log) == {log[k] : k \in DOMAIN log}

(* The entries of a log with one more.                                       *)
LEMMA EntriesOfAppend ==
    ASSUME NEW log \in Seq(Entry), NEW e \in Entry
    PROVE  EntriesOf(Append(log, e)) = EntriesOf(log) \cup {e}
  <1>1. /\ DOMAIN Append(log, e) = 1..Len(log) + 1 /\ DOMAIN log = 1..Len(log)
        /\ \A k \in 1..Len(log) : Append(log, e)[k] = log[k]
        /\ Append(log, e)[Len(log) + 1] = e
    OBVIOUS
  <1> QED BY <1>1 DEF EntriesOf

(* Kept keeps what it is asked to keep, and nothing else.                    *)
LEMMA KeptEntries ==
    ASSUME NEW log \in Seq(Entry), NEW I
    PROVE  EntriesOf(Kept(log, I)) = {e \in EntriesOf(log) : e.index \in I}
  <1> DEFINE Z == {s \in Seq(Entry) : EntriesOf(Kept(s, I)) = {e \in EntriesOf(s) : e.index \in I}}
  <1>1. <<>> \in Z
    <2>1. EntriesOf(<<>>) = {} /\ Kept(<<>>, I) = <<>>
      BY EmptyLogs DEF EntriesOf
    <2> QED BY <2>1
  <1>2. ASSUME NEW s \in Seq(Entry), NEW e \in Entry, s \in Z PROVE Append(s, e) \in Z
    <2>1. Append(s, e) \in Seq(Entry) /\ Kept(s, I) \in Seq(Entry)
      BY KeptType
    <2>2. Kept(Append(s, e), I) = IF e.index \in I THEN Append(Kept(s, I), e) ELSE Kept(s, I)
      BY KeptAppend
    <2>3. EntriesOf(Append(s, e)) = EntriesOf(s) \cup {e}
      BY EntriesOfAppend
    <2>4. EntriesOf(Append(Kept(s, I), e)) = EntriesOf(Kept(s, I)) \cup {e}
      BY <2>1, EntriesOfAppend
    <2>5. EntriesOf(Kept(s, I)) = {x \in EntriesOf(s) : x.index \in I}
      BY <1>2
    <2>6. CASE e.index \in I
      BY <2>1, <2>2, <2>3, <2>4, <2>5, <2>6
    <2>7. CASE e.index \notin I
      BY <2>1, <2>2, <2>3, <2>5, <2>7
    <2> QED BY <2>6, <2>7
  <1>3. Seq(Entry) \subseteq Z
    <2> HIDE DEF Z
    <2> QED BY <1>1, <1>2, SequenceInduction
  <1> QED BY <1>3

(* Two passes keep what both keep.                                           *)
LEMMA KeptKept ==
    ASSUME NEW log \in Seq(Entry), NEW I, NEW J
    PROVE  Kept(Kept(log, I), J) = Kept(log, I \cap J)
  <1> DEFINE Z == {s \in Seq(Entry) : Kept(Kept(s, I), J) = Kept(s, I \cap J)}
  <1>1. <<>> \in Z
    BY EmptyLogs
  <1>2. ASSUME NEW s \in Seq(Entry), NEW e \in Entry, s \in Z PROVE Append(s, e) \in Z
    <2>1. Append(s, e) \in Seq(Entry) /\ Kept(s, I) \in Seq(Entry)
      BY KeptType
    <2>2. Kept(Append(s, e), I) = IF e.index \in I THEN Append(Kept(s, I), e) ELSE Kept(s, I)
      BY KeptAppend
    <2>3. Kept(Append(s, e), I \cap J) = IF e.index \in I \cap J
                                         THEN Append(Kept(s, I \cap J), e) ELSE Kept(s, I \cap J)
      BY KeptAppend
    <2>4. Kept(Append(Kept(s, I), e), J) = IF e.index \in J THEN Append(Kept(Kept(s, I), J), e)
                                           ELSE Kept(Kept(s, I), J)
      BY <2>1, KeptAppend
    <2>5. Kept(Kept(s, I), J) = Kept(s, I \cap J)
      BY <1>2
    <2>6. CASE e.index \in I
      <3>1. Kept(Append(s, e), I) = Append(Kept(s, I), e)
        BY <2>2, <2>6
      <3>2. e.index \in I \cap J <=> e.index \in J
        BY <2>6
      <3> HIDE DEF Z
      <3>3. Kept(Kept(Append(s, e), I), J) = Kept(Append(s, e), I \cap J)
        BY <2>3, <2>4, <2>5, <3>1, <3>2, Zenon
      <3> QED BY <2>1, <3>3 DEF Z
    <2>7. CASE e.index \notin I
      <3>1. Kept(Append(s, e), I) = Kept(s, I)
        BY <2>2, <2>7
      <3>2. e.index \notin I \cap J
        BY <2>7
      <3> HIDE DEF Z
      <3>3. Kept(Kept(Append(s, e), I), J) = Kept(Append(s, e), I \cap J)
        BY <2>3, <2>5, <3>1, <3>2, Zenon
      <3> QED BY <2>1, <3>3 DEF Z
    <2> QED BY <2>6, <2>7
  <1>3. Seq(Entry) \subseteq Z
    <2> HIDE DEF Z
    <2> QED BY <1>1, <1>2, SequenceInduction
  <1> QED BY <1>3

(* One more element at the end of the second of two sequences.                *)
LEMMA AppendConcat ==
    ASSUME NEW s \in Seq(Entry), NEW t \in Seq(Entry), NEW e \in Entry
    PROVE  Append(s \o t, e) = s \o Append(t, e)
  <1>1. <<e>> \in Seq(Entry) /\ s \o t \in Seq(Entry)
    OBVIOUS
  <1>2. (s \o t) \o <<e>> = s \o (t \o <<e>>)
    BY <1>1, ConcatAssociative
  <1>3. Append(s \o t, e) = (s \o t) \o <<e>>
    BY <1>1, AppendIsConcat
  <1>4. Append(t, e) = t \o <<e>>
    BY AppendIsConcat
  <1> QED BY <1>2, <1>3, <1>4

(* A pass is the same over two logs one after the other.                     *)
LEMMA KeptConcat ==
    ASSUME NEW log \in Seq(Entry), NEW more \in Seq(Entry), NEW I
    PROVE  Kept(log \o more, I) = Kept(log, I) \o Kept(more, I)
  <1> DEFINE Z == {s \in Seq(Entry) : Kept(log \o s, I) = Kept(log, I) \o Kept(s, I)}
  <1>0. Kept(log, I) \in Seq(Entry)
    BY KeptType
  <1>1. <<>> \in Z
    <2>1. log \o <<>> = log /\ Kept(log, I) \o <<>> = Kept(log, I) /\ <<>> \in Seq(Entry)
      BY <1>0
    <2>2. Kept(<<>>, I) = <<>>
      BY EmptyLogs
    <2> QED BY <2>1, <2>2
  <1>2. ASSUME NEW s \in Seq(Entry), NEW e \in Entry, s \in Z PROVE Append(s, e) \in Z
    <2>1. /\ Append(s, e) \in Seq(Entry) /\ Kept(s, I) \in Seq(Entry) /\ log \o s \in Seq(Entry)
          /\ log \o Append(s, e) = Append(log \o s, e)
      BY KeptType
    <2>2. Kept(Append(s, e), I) = IF e.index \in I THEN Append(Kept(s, I), e) ELSE Kept(s, I)
      BY KeptAppend
    <2>3. Kept(Append(log \o s, e), I) = IF e.index \in I THEN Append(Kept(log \o s, I), e)
                                         ELSE Kept(log \o s, I)
      <3> DEFINE r == log \o s
      <3>1. r \in Seq(Entry)
        BY <2>1
      <3> HIDE DEF r
      <3>2. Kept(Append(r, e), I) = IF e.index \in I THEN Append(Kept(r, I), e) ELSE Kept(r, I)
        BY <3>1, KeptAppend
      <3> QED BY <3>2 DEF r
    <2>4. Kept(log \o s, I) = Kept(log, I) \o Kept(s, I)
      BY <1>2
    <2>5. Append(Kept(log, I) \o Kept(s, I), e) = Kept(log, I) \o Append(Kept(s, I), e)
      <3>1. Kept(s, I) \in Seq(Entry)
        BY <2>1
      <3> HIDE DEF Z
      <3> QED BY <1>0, <3>1, AppendConcat, Zenon
    <2> QED BY <2>1, <2>2, <2>3, <2>4, <2>5
  <1>3. Seq(Entry) \subseteq Z
    <2> HIDE DEF Z
    <2> QED BY <1>1, <1>2, SequenceInduction
  <1> QED BY <1>3

(* A pass that asks for all entries of a log, or for none.                   *)
LEMMA KeptAll ==
    ASSUME NEW log \in Seq(Entry), NEW I
    PROVE  /\ (\A e \in EntriesOf(log) : e.index \in I) => Kept(log, I) = log
           /\ (\A e \in EntriesOf(log) : e.index \notin I) => Kept(log, I) = <<>>
  <1> DEFINE All(s) == \A e \in EntriesOf(s) : e.index \in I
             None(s) == \A e \in EntriesOf(s) : e.index \notin I
             Z == {s \in Seq(Entry) : (All(s) => Kept(s, I) = s) /\ (None(s) => Kept(s, I) = <<>>)}
  <1>1. <<>> \in Z
    BY EmptyLogs
  <1>2. ASSUME NEW s \in Seq(Entry), NEW e \in Entry, s \in Z PROVE Append(s, e) \in Z
    <2>1. Append(s, e) \in Seq(Entry)
      OBVIOUS
    <2>2. Kept(Append(s, e), I) = IF e.index \in I THEN Append(Kept(s, I), e) ELSE Kept(s, I)
      BY KeptAppend
    <2>3. EntriesOf(Append(s, e)) = EntriesOf(s) \cup {e}
      BY EntriesOfAppend
    <2>4. (All(s) => Kept(s, I) = s) /\ (None(s) => Kept(s, I) = <<>>)
      BY <1>2
    <2>5. ASSUME All(Append(s, e)) PROVE Kept(Append(s, e), I) = Append(s, e)
      <3>1. All(s) /\ e.index \in I
        BY <2>3, <2>5
      <3> QED BY <2>2, <2>4, <3>1
    <2>6. ASSUME None(Append(s, e)) PROVE Kept(Append(s, e), I) = <<>>
      <3>1. None(s) /\ e.index \notin I
        BY <2>3, <2>6
      <3> QED BY <2>2, <2>4, <3>1
    <2> HIDE DEF All, None
    <2> QED BY <2>1, <2>5, <2>6
  <1>3. Seq(Entry) \subseteq Z
    <2> HIDE DEF Z
    <2> QED BY <1>1, <1>2, SequenceInduction
  <1> QED BY <1>3

-------------------------------------------------------------------------------
(* Logs in order *)

Consecutive(log, i) == \A k \in DOMAIN log : log[k].index = i + k
Increasing(log) == \A j, k \in DOMAIN log : j < k => log[j].index < log[k].index
(* Before an entry stand all indexes from i + 1 to its own.                  *)
Covered(log, i) == \A k \in DOMAIN log : \A x \in i + 1..log[k].index :
                        \E j \in 1..k : log[j].index = x

(* A pass that keeps all of one log and nothing of another.                  *)
LEMMA KeptParts ==
    ASSUME NEW P \in Seq(Entry), NEW Q \in Seq(Entry), NEW I
    PROVE  /\ Kept(P, I) = <<>> /\ Kept(Q, I) = Q => Kept(P \o Q, I) = Q
           /\ Kept(P, I) = P /\ Kept(Q, I) = <<>> => Kept(P \o Q, I) = P
  <1>1. Kept(P \o Q, I) = Kept(P, I) \o Kept(Q, I)
    BY KeptConcat
  <1>2. P \o <<>> = P /\ <<>> \o Q = Q
    OBVIOUS
  <1> QED BY <1>1, <1>2, Zenon

(* A log is what it begins with, followed by the rest.                       *)
LEMMA CutInTwo ==
    ASSUME NEW log \in Seq(Entry), NEW n \in 0..Len(log)
    PROVE  /\ SubSeq(log, 1, n) \in Seq(Entry) /\ SubSeq(log, n + 1, Len(log)) \in Seq(Entry)
           /\ Len(SubSeq(log, 1, n)) = n /\ Len(SubSeq(log, n + 1, Len(log))) = Len(log) - n
           /\ log = SubSeq(log, 1, n) \o SubSeq(log, n + 1, Len(log))
           /\ \A k \in 1..n : SubSeq(log, 1, n)[k] = log[k]
           /\ \A k \in 1..Len(log) - n : SubSeq(log, n + 1, Len(log))[k] = log[n + k]
  <1> DEFINE P == SubSeq(log, 1, n)
             Q == SubSeq(log, n + 1, Len(log))
  <1>1. n \in Nat /\ Len(log) \in Nat /\ n <= Len(log)
    OBVIOUS
  <1>2. P \in Seq(Entry) /\ Q \in Seq(Entry)
    BY <1>1
  <1>3. Len(P) = n /\ Len(Q) = Len(log) - n
    BY <1>1
  <1>4. \A k \in 1..n : P[k] = log[k]
    BY <1>1
  <1>5. \A k \in 1..Len(log) - n : Q[k] = log[n + k]
    BY <1>1
  <1>6. P \o Q = SubSeq(log, 1, Len(log))
    <2>1. 1 \in 1..Len(log) + 1 /\ n \in 1 - 1..Len(log) /\ Len(log) \in n..Len(log)
      BY <1>1
    <2> QED BY <2>1, ConcatAdjacentSubSeq, Zenon
  <1>7. SubSeq(log, 1, Len(log)) = log
    BY SubSeqFull, Zenon
  <1>8. log = P \o Q
    <2> HIDE DEF P, Q
    <2> QED BY <1>6, <1>7
  <1> QED BY <1>2, <1>3, <1>4, <1>5, <1>8, Zenon

(* Of a log without gaps a pass keeps the beginning or the end.              *)
LEMMA ConsecutiveSlices ==
    ASSUME NEW log \in Seq(Entry), NEW off \in Nat, Consecutive(log, off),
           NEW i \in off..off + Len(log)
    PROVE  /\ Above(log, i) = SubSeq(log, i - off + 1, Len(log))
           /\ Below(log, i + 1) = SubSeq(log, 1, i - off)
  <1> DEFINE n == i - off
             P == SubSeq(log, 1, n)
             Q == SubSeq(log, n + 1, Len(log))
  <1>1. n \in 0..Len(log) /\ i \in Nat /\ Len(log) \in Nat /\ MaxIndex \in Nat
    BY RaftNodeAssumption
  <1>2. P \in Seq(Entry) /\ Q \in Seq(Entry) /\ Len(P) = n /\ Len(Q) = Len(log) - n
    <2> HIDE DEF n
    <2> QED BY <1>1, CutInTwo
  <1>3. log = P \o Q
    <2> HIDE DEF n
    <2> QED BY <1>1, CutInTwo
  <1>4. \A k \in 1..n : P[k] = log[k]
    <2> HIDE DEF n
    <2> QED BY <1>1, CutInTwo
  <1>5. \A k \in 1..Len(log) - n : Q[k] = log[n + k]
    <2> HIDE DEF n
    <2> QED BY <1>1, CutInTwo
  <1> HIDE DEF P, Q
  <1>6. \A e \in EntriesOf(P) : e \in Entry /\ e.index \in 1..i
    <2>1. SUFFICES ASSUME NEW k \in 1..n PROVE P[k] \in Entry /\ P[k].index \in 1..i
      BY <1>2 DEF EntriesOf
    <2>2. P[k] = log[k] /\ k \in DOMAIN log /\ log[k].index = off + k /\ log[k] \in Entry
      BY <1>1, <1>4 DEF Consecutive
    <2> QED BY <1>1, <2>2 DEF Entry
  <1>7. \A e \in EntriesOf(Q) : e \in Entry /\ e.index \in i + 1..MaxIndex
    <2>0. DOMAIN Q = 1..Len(log) - n
      BY <1>2
    <2>1. SUFFICES ASSUME NEW k \in 1..Len(log) - n
                   PROVE  Q[k] \in Entry /\ Q[k].index \in i + 1..MaxIndex
      BY <2>0, Zenon DEF EntriesOf
    <2>2. Q[k] = log[n + k] /\ n + k \in DOMAIN log /\ log[n + k].index = off + n + k /\ log[n + k] \in Entry
      BY <1>1, <1>5 DEF Consecutive
    <2>3. log[n + k].index \in 1..MaxIndex
      BY <2>2 DEF Entry
    <2> QED BY <1>1, <2>2, <2>3
  <1>8. Kept(P, 1..i) = P /\ Kept(Q, i + 1..MaxIndex) = Q
    BY <1>2, <1>6, <1>7, KeptAll
  <1>9. Kept(P, i + 1..MaxIndex) = <<>> /\ Kept(Q, 1..i) = <<>>
    <2>1. \A e \in EntriesOf(P) : e.index \notin i + 1..MaxIndex
      BY <1>1, <1>6
    <2>2. \A e \in EntriesOf(Q) : e.index \notin 1..i
      BY <1>1, <1>7
    <2> QED BY <1>2, <2>1, <2>2, KeptAll
  <1>10. Kept(P \o Q, i + 1..MaxIndex) = Q
    <2> DEFINE I == i + 1..MaxIndex
    <2> HIDE DEF I
    <2>1. Kept(P \o Q, I) = Q
      BY <1>2, <1>8, <1>9, KeptParts DEF I
    <2> QED BY <2>1 DEF I
  <1>11. Kept(P \o Q, 1..i) = P
    <2> DEFINE I == 1..i
    <2> HIDE DEF I
    <2>1. Kept(P \o Q, I) = P
      BY <1>2, <1>8, <1>9, KeptParts DEF I
    <2> QED BY <2>1 DEF I
  <1>12. (i + 1) - 1 = i
    BY <1>1
  <1> QED BY <1>3, <1>10, <1>11, <1>12 DEF Above, Below, P, Q

(* Two cuts of a log, in one order or the other.                             *)
LEMMA AboveAbove ==
    ASSUME NEW log \in Seq(Entry), NEW i \in Nat, NEW j \in Nat, i <= j
    PROVE  Above(Above(log, i), j) = Above(log, j)
  <1> DEFINE I == i + 1..MaxIndex
             J == j + 1..MaxIndex
  <1>1. I \cap J = J
    BY RaftNodeAssumption
  <1>2. Above(log, j) = Kept(log, J) /\ Above(Above(log, i), j) = Kept(Kept(log, I), J)
    BY DEF Above
  <1> HIDE DEF I, J
  <1>3. Kept(Kept(log, I), J) = Kept(log, I \cap J)
    BY KeptKept
  <1> QED BY <1>1, <1>2, <1>3

(* A log cut at both ends, in one order or the other.                        *)
LEMMA AboveBelow ==
    ASSUME NEW log \in Seq(Entry), NEW i \in Nat, NEW j \in Nat
    PROVE  Above(Below(log, j), i) = Below(Above(log, i), j)
  <1> DEFINE I == i + 1..MaxIndex
             J == 1..j - 1
  <1>1. /\ Above(Below(log, j), i) = Kept(Kept(log, J), I)
        /\ Below(Above(log, i), j) = Kept(Kept(log, I), J)
    BY DEF Above, Below
  <1> HIDE DEF I, J
  <1>2. J \cap I = I \cap J
    OBVIOUS
  <1>3. Kept(Kept(log, I), J) = Kept(log, I \cap J)
    BY KeptKept
  <1>4. Kept(Kept(log, J), I) = Kept(log, J \cap I)
    BY KeptKept
  <1> QED BY <1>1, <1>2, <1>3, <1>4

(* One more entry is in order when all before it are smaller.                *)
LEMMA IncreasingAppend ==
    ASSUME NEW log \in Seq(Entry), NEW e \in Entry
    PROVE  Increasing(Append(log, e)) <=>
             Increasing(log) /\ \A x \in EntriesOf(log) : x.index < e.index
  <1>1. /\ DOMAIN Append(log, e) = 1..Len(log) + 1 /\ DOMAIN log = 1..Len(log) /\ Len(log) \in Nat
        /\ \A k \in 1..Len(log) : Append(log, e)[k] = log[k]
        /\ Append(log, e)[Len(log) + 1] = e
    OBVIOUS
  <1> QED BY <1>1 DEF EntriesOf, Increasing

(* A log that is written in order is replayed as it stands.                  *)
LEMMA ReplayOfIncreasing ==
    ASSUME NEW log \in Seq(Entry)
    PROVE  Increasing(log) => Replay(log) = log
  <1> DEFINE Z == {s \in Seq(Entry) : Increasing(s) => Replay(s) = s}
  <1>1. <<>> \in Z
    BY EmptyLogs
  <1>2. ASSUME NEW s \in Seq(Entry), NEW e \in Entry, s \in Z PROVE Append(s, e) \in Z
    <2>1. Append(s, e) \in Seq(Entry)
      OBVIOUS
    <2>2. SUFFICES ASSUME Increasing(Append(s, e)) PROVE Replay(Append(s, e)) = Append(s, e)
      BY <2>1
    <2>3. Increasing(s) /\ \A x \in EntriesOf(s) : x.index < e.index
      BY <2>2, IncreasingAppend
    <2>4. Replay(s) = s /\ Replay(Append(s, e)) = Append(Below(s, e.index), e)
      BY <1>2, <2>3, ReplayAppend
    <2>5. \A x \in EntriesOf(s) : x.index \in 1..e.index - 1
      <3>1. EntriesOf(s) \subseteq Entry
        BY DEF EntriesOf
      <3> QED BY <2>3, <3>1 DEF Entry
    <2>6. Below(s, e.index) = s
      BY <2>5, KeptAll DEF Below
    <2> QED BY <2>4, <2>6
  <1>3. Seq(Entry) \subseteq Z
    <2> HIDE DEF Z
    <2> QED BY <1>1, <1>2, SequenceInduction
  <1> QED BY <1>3

(* What is replayed is in the log.                                           *)
LEMMA ReplayEntries ==
    ASSUME NEW log \in Seq(Entry)
    PROVE  Replay(log) \in Seq(Entry) /\ EntriesOf(Replay(log)) \subseteq EntriesOf(log)
  <1> DEFINE Z == {s \in Seq(Entry) : /\ Replay(s) \in Seq(Entry)
                                      /\ EntriesOf(Replay(s)) \subseteq EntriesOf(s)}
  <1>1. <<>> \in Z
    <2>1. Replay(<<>>) = <<>> /\ <<>> \in Seq(Entry)
      BY EmptyLogs
    <2> QED BY <2>1
  <1>2. ASSUME NEW s \in Seq(Entry), NEW e \in Entry, s \in Z PROVE Append(s, e) \in Z
    <2>1. Append(s, e) \in Seq(Entry) /\ EntriesOf(Append(s, e)) = EntriesOf(s) \cup {e}
      BY EntriesOfAppend
    <2> DEFINE B == Below(Replay(s), e.index)
    <2>2. Replay(s) \in Seq(Entry) /\ EntriesOf(Replay(s)) \subseteq EntriesOf(s)
      BY <1>2
    <2>3. B \in Seq(Entry) /\ EntriesOf(B) \subseteq EntriesOf(Replay(s))
      BY <2>2, KeptType, KeptEntries DEF Below
    <2>4. Replay(Append(s, e)) = Append(B, e)
      BY ReplayAppend
    <2> HIDE DEF B
    <2>5. Append(B, e) \in Seq(Entry) /\ EntriesOf(Append(B, e)) = EntriesOf(B) \cup {e}
      BY <2>3, EntriesOfAppend
    <2>6. EntriesOf(Append(B, e)) \subseteq EntriesOf(Append(s, e))
      BY <2>1, <2>2, <2>3, <2>5
    <2> QED BY <2>1, <2>4, <2>5, <2>6
  <1>3. Seq(Entry) \subseteq Z
    <2> HIDE DEF Z
    <2> QED BY <1>1, <1>2, SequenceInduction
  <1> QED BY <1>3

(* One more entry leaves no gap when all between are there.                  *)
LEMMA CoveredAppend ==
    ASSUME NEW log \in Seq(Entry), NEW e \in Entry, NEW b \in Nat
    PROVE  Covered(Append(log, e), b) <=>
             /\ Covered(log, b)
             /\ \A x \in b + 1..e.index : x = e.index \/ \E y \in EntriesOf(log) : y.index = x
  <1>1. /\ DOMAIN Append(log, e) = 1..Len(log) + 1 /\ DOMAIN log = 1..Len(log) /\ Len(log) \in Nat
        /\ \A k \in 1..Len(log) : Append(log, e)[k] = log[k]
        /\ Append(log, e)[Len(log) + 1] = e
    OBVIOUS
  <1>2. Covered(Append(log, e), b) => Covered(log, b)
    BY <1>1 DEF Covered
  <1>3. ASSUME Covered(Append(log, e), b), NEW x \in b + 1..e.index
        PROVE  x = e.index \/ \E y \in EntriesOf(log) : y.index = x
    <2>1. Len(log) + 1 \in DOMAIN Append(log, e) /\ Append(log, e)[Len(log) + 1].index = e.index
      BY <1>1
    <2>2. PICK j \in 1..Len(log) + 1 : Append(log, e)[j].index = x
      BY <1>3, <2>1 DEF Covered
    <2>3. CASE j = Len(log) + 1
      BY <1>1, <2>2, <2>3
    <2>4. CASE j \in 1..Len(log)
      <3>1. log[j] \in EntriesOf(log) /\ log[j].index = x
        BY <1>1, <2>2, <2>4 DEF EntriesOf
      <3> QED BY <3>1
    <2> QED BY <1>1, <2>3, <2>4
  <1>4. ASSUME Covered(log, b), NEW k \in 1..Len(log) + 1, NEW x \in b + 1..Append(log, e)[k].index,
               \A z \in b + 1..e.index : z = e.index \/ \E y \in EntriesOf(log) : y.index = z
        PROVE  \E j \in 1..k : Append(log, e)[j].index = x
    <2>1. CASE k \in 1..Len(log)
      <3>1. PICK j \in 1..k : log[j].index = x
        BY <1>1, <1>4, <2>1 DEF Covered
      <3>2. j \in 1..Len(log)
        BY <1>1, <2>1
      <3> QED BY <1>1, <3>1, <3>2
    <2>2. CASE k = Len(log) + 1
      <3>1. x \in b + 1..e.index
        BY <1>1, <1>4, <2>2
      <3>2. CASE x = e.index
        BY <1>1, <2>2, <3>2
      <3>3. CASE \E y \in EntriesOf(log) : y.index = x
        <4>1. PICK j \in 1..Len(log) : log[j].index = x
          BY <1>1, <3>3 DEF EntriesOf
        <4>2. j \in 1..k /\ Append(log, e)[j].index = x
          BY <1>1, <2>2, <4>1
        <4> QED BY <4>2
      <3> QED BY <1>4, <3>1, <3>2, <3>3
    <2> QED BY <1>1, <2>1, <2>2
  <1>5. ASSUME Covered(log, b),
               \A z \in b + 1..e.index : z = e.index \/ \E y \in EntriesOf(log) : y.index = z
        PROVE  Covered(Append(log, e), b)
    BY <1>1, <1>4, <1>5 DEF Covered
  <1> QED BY <1>2, <1>3, <1>5

(* What of a covered log is above b starts at b + 1 and is long enough for the *)
(* highest index; in a log that is written in order it has no gaps.           *)
LEMMA CoveredLog ==
    ASSUME NEW log \in Seq(Entry), NEW b \in Nat, Covered(log, b)
    PROVE  /\ Above(log, b) \in Seq(Entry)
           /\ Above(log, b) # <<>> => Above(log, b)[1].index = b + 1
           /\ \A e \in EntriesOf(log) : e.index <= b + Len(Above(log, b))
           /\ Increasing(log) => Consecutive(Above(log, b), b)
  <1> DEFINE Good(s) == /\ Above(s, b) # <<>> => Above(s, b)[1].index = b + 1
                        /\ \A e \in EntriesOf(s) : e.index <= b + Len(Above(s, b))
                        /\ Increasing(s) => Consecutive(Above(s, b), b)
             Z == {s \in Seq(Entry) : Covered(s, b) => Good(s)}
  <1>1. <<>> \in Z
    <2>1. Above(<<>>, b) = <<>> /\ EntriesOf(<<>>) = {} /\ <<>> \in Seq(Entry)
      BY EmptyLogs DEF Above, EntriesOf
    <2> QED BY <2>1 DEF Consecutive
  <1>2. ASSUME NEW s \in Seq(Entry), NEW e \in Entry, s \in Z PROVE Append(s, e) \in Z
    <2>1. Append(s, e) \in Seq(Entry)
      OBVIOUS
    <2>2. SUFFICES ASSUME Covered(Append(s, e), b) PROVE Good(Append(s, e))
      BY <2>1
    <2> DEFINE L == Above(s, b)
    <2>3. L \in Seq(Entry)
      BY KeptType DEF Above
    <2>4. Covered(s, b) /\ \A x \in b + 1..e.index : x = e.index \/ \E y \in EntriesOf(s) : y.index = x
      BY <2>2, CoveredAppend
    <2>5. /\ L # <<>> => L[1].index = b + 1
          /\ \A x \in EntriesOf(s) : x.index <= b + Len(L)
          /\ Increasing(s) => Consecutive(L, b)
      BY <1>2, <2>4
    <2>6. EntriesOf(Append(s, e)) = EntriesOf(s) \cup {e}
      BY EntriesOfAppend
    <2>7. Increasing(Append(s, e)) => Increasing(s) /\ \A x \in EntriesOf(s) : x.index < e.index
      BY IncreasingAppend
    <2>8. e.index \in 1..MaxIndex /\ MaxIndex \in Nat
      BY RaftNodeAssumption DEF Entry
    <2>9. Above(Append(s, e), b) = IF e.index \in b + 1..MaxIndex THEN Append(L, e) ELSE L
      BY KeptAppend DEF Above
    <2>10. \A x \in EntriesOf(s) : x.index \in 1..MaxIndex
      <3>1. EntriesOf(s) \subseteq Entry
        BY DEF EntriesOf
      <3> QED BY <3>1 DEF Entry
    <2>11. EntriesOf(L) = {x \in EntriesOf(s) : x.index \in b + 1..MaxIndex}
      BY KeptEntries DEF Above
    <2> HIDE DEF L
    <2>12. CASE e.index > b
      <3>1. Above(Append(s, e), b) = Append(L, e)
        BY <2>8, <2>9, <2>12
      <3>2. /\ Len(Append(L, e)) = Len(L) + 1 /\ Len(L) \in Nat /\ Append(L, e)[Len(L) + 1] = e
            /\ \A k \in 1..Len(L) : Append(L, e)[k] = L[k]
            /\ DOMAIN Append(L, e) = 1..Len(L) + 1 /\ DOMAIN L = 1..Len(L)
            /\ L = <<>> <=> Len(L) = 0
        BY <2>3
      <3>3. e.index <= b + Len(L) + 1
        <4>1. CASE e.index = b + 1
          BY <3>2, <4>1
        <4>2. CASE e.index > b + 1
          <5>1. e.index - 1 \in b + 1..e.index /\ e.index - 1 # e.index
            BY <2>8, <4>2
          <5>2. PICK y \in EntriesOf(s) : y.index = e.index - 1
            BY <2>4, <5>1
          <5> QED BY <2>5, <2>8, <3>2, <5>2
        <4> QED BY <2>8, <2>12, <4>1, <4>2
      <3>4. L = <<>> => e.index = b + 1
        BY <2>8, <2>12, <3>2, <3>3
      <3>5. Append(L, e)[1].index = b + 1
        <4>1. CASE L = <<>>
          BY <3>2, <3>4, <4>1
        <4>2. CASE L # <<>>
          <5>1. 1 \in 1..Len(L)
            BY <3>2, <4>2
          <5> QED BY <2>5, <3>2, <4>2, <5>1
        <4> QED BY <4>1, <4>2
      <3>6. \A x \in EntriesOf(Append(s, e)) : x.index <= b + Len(Append(L, e))
        BY <2>5, <2>6, <2>8, <2>10, <3>2, <3>3
      <3>7. ASSUME Increasing(Append(s, e)) PROVE Consecutive(Append(L, e), b)
        <4>1. Consecutive(L, b) /\ \A x \in EntriesOf(s) : x.index < e.index
          BY <2>5, <2>7, <3>7
        <4>2. e.index = b + Len(L) + 1
          <5>1. CASE L = <<>>
            BY <3>2, <3>4, <5>1
          <5>2. CASE L # <<>>
            <6>1. Len(L) \in DOMAIN L
              BY <3>2, <5>2
            <6>2. L[Len(L)].index = b + Len(L) /\ L[Len(L)] \in EntriesOf(s)
              BY <2>11, <4>1, <6>1 DEF Consecutive, EntriesOf
            <6> QED BY <2>8, <3>2, <3>3, <4>1, <6>2
          <5> QED BY <5>1, <5>2
        <4>3. \A k \in 1..Len(L) : L[k].index = b + k
          BY <3>2, <4>1 DEF Consecutive
        <4>4. \A k \in 1..Len(L) + 1 : Append(L, e)[k].index = b + k
          <5>1. SUFFICES ASSUME NEW k \in 1..Len(L) + 1 PROVE Append(L, e)[k].index = b + k
            OBVIOUS
          <5>2. CASE k = Len(L) + 1
            <6>1. Append(L, e)[k] = e
              BY <3>2, <5>2
            <6> QED BY <3>2, <4>2, <5>2, <6>1
          <5>3. CASE k \in 1..Len(L)
            BY <3>2, <4>3, <5>3
          <5> QED BY <3>2, <5>2, <5>3
        <4> QED BY <3>2, <4>4, Zenon DEF Consecutive
      <3> QED BY <3>1, <3>5, <3>6, <3>7
    <2>13. CASE e.index <= b
      <3>1. Above(Append(s, e), b) = L
        BY <2>8, <2>9, <2>13
      <3>2. Len(L) \in Nat
        BY <2>3
      <3>3. \A x \in EntriesOf(Append(s, e)) : x.index <= b + Len(L)
        BY <2>5, <2>6, <2>8, <2>13, <3>2
      <3> QED BY <2>5, <2>7, <3>1, <3>3
    <2> QED BY <2>8, <2>12, <2>13
  <1>3. Seq(Entry) \subseteq Z
    <2> HIDE DEF Z
    <2> QED BY <1>1, <1>2, SequenceInduction
  <1>4. log \in Z /\ Above(log, b) \in Seq(Entry)
    BY <1>3, KeptType DEF Above
  <1> QED BY <1>4


-------------------------------------------------------------------------------
(* The inductive invariant *)

Busy == {"saveSnapshot", "appendWAL", "memory"}
Later == {"deliver", "apply", "applyValue", "maybeSnapshot", "advance"}

(* Once a misread WAL is in memory nothing more is done with it.             *)
Sane == pc \in Busy \cup Later \/ (pc = "idle" /\ ~Misread)

(* What the Ready being handled makes of the hard state and of the log, and    *)
(* what of that is in the WAL by now.                                         *)
NewHard == IF pc \in Busy /\ rd.hard # EmptyHard THEN rd.hard ELSE hard
NewEnts == IF pc \in Busy THEN MemAppend(offset, ents, rd.ents) ELSE ents
HardOnDisk == IF pc = "memory" THEN NewHard ELSE hard
EntsOnDisk == IF pc = "memory" THEN NewEnts ELSE ents
(* The snapshot of the Ready is saved, the memory is not yet told.            *)
Installing == pc \in {"appendWAL", "memory"} /\ rd.snap.index > 0

Record == [hard : HardState, ents : Seq(Entry)]

IsChosen(s) == Len(s) <= Len(chosen) /\ \A k \in 1..Len(s) : s[k] = chosen[k]
ChosenUpTo(log, i, c) ==
    /\ c <= i + Len(log) /\ c <= Len(chosen)
    /\ \A k \in 1..Len(log) : i + k <= c => log[k].term = chosen[i + k]
AtLeast(h, g) == h.term >= g.term /\ h.commit >= g.commit

Types ==
    /\ chosen \in Seq(1..MaxTerm) /\ Len(chosen) <= MaxIndex /\ Peers <= Len(chosen)
    /\ \A i \in 1..Peers : chosen[i] = 1
    /\ leaders \in Conduct
    /\ snapFile \in Snapshot
    /\ wal \in Seq(Record)
    /\ pc \in {"down", "panicked", "idle"} \cup Busy \cup Later
    /\ rd \in [snap : Snapshot, hard : HardState, ents : Seq(Entry)]
    /\ hard \in HardState
    /\ offset \in 0..MaxIndex /\ ents \in Seq(Entry)
    /\ appliedIndex \in 0..MaxIndex /\ kv \in Seq(1..MaxTerm)
    /\ confState \in 0..Peers /\ lastSnapshotIndex \in 0..MaxIndex
    /\ pending \in Seq(Entry)
    /\ promised \in [term : 0..MaxTerm, commit : 0..MaxIndex, last : Nat]
    /\ restarts \in 0..MaxRestarts

(* State machine and snapshots hold a beginning of the chosen log.           *)
Machine ==
    /\ IsChosen(kv)
    /\ IsChosen(snapFile.data) /\ Len(snapFile.data) = snapFile.index
    /\ IsChosen(rd.snap.data) /\ Len(rd.snap.data) = rd.snap.index
    /\ Up => Len(kv) = IF pc = "applyValue" THEN appliedIndex - 1 ELSE appliedIndex

(* The log in memory has no gaps and holds the chosen entries up to the commit *)
(* index; it reaches back to the snapshot, and what is applied is between.    *)
Memory == Sane =>
    /\ Consecutive(ents, offset) /\ ChosenUpTo(ents, offset, hard.commit)
    /\ offset <= snapFile.index
    /\ Len(kv) <= hard.commit
    /\ ~Installing => snapFile.index <= Len(kv)

(* The entries of a Ready: none, one that extends the log or replaces its      *)
(* uncommitted end, or the bootstrap entries.                                 *)
FreshEntries ==
    \/ rd.ents = <<>>
    \/ /\ Len(rd.ents) = 1
       /\ rd.ents[1].index \in hard.commit + 1..LastIndex + 1
       /\ rd.ents[1].index <= LastIndex => leaders = "overwrite"
    \/ /\ offset = 0 /\ ents = <<>> /\ hard.commit = 0
       /\ Consecutive(rd.ents, 0)
       /\ pc # "memory" => wal = <<>>

Ready == pc \in Busy =>
    /\ FreshEntries
    /\ NewHard # EmptyHard /\ AtLeast(NewHard, hard)
    /\ rd.snap.index = 0 => ChosenUpTo(NewEnts, offset, NewHard.commit)
    /\ rd.snap.index > 0 => /\ leaders = "install" /\ rd.ents = <<>> /\ pending = <<>>
                            /\ rd.snap.index > LastIndex
                            /\ hard # EmptyHard /\ rd.hard.commit = rd.snap.index
    /\ Installing => snapFile.index = rd.snap.index

(* What is still to be applied are the chosen entries that follow.           *)
Pending == pc \in Busy \cup Later =>
    /\ \A k \in 1..Len(pending) : /\ pending[k].index = Len(kv) + k
                                  /\ pending[k].term = chosen[Len(kv) + k]
    /\ Len(kv) + Len(pending) <= NewHard.commit /\ NewHard.commit <= Len(chosen)
    /\ pc \in {"apply", "applyValue"} => pending # <<>>

(* The last hard state of the WAL is the one in memory, or the next one.       *)
DiskHard ==
    /\ LoadedHard = EmptyHard => wal = <<>> /\ snapFile.index = 0
    /\ Up => LoadedHard = HardOnDisk
    /\ LoadedHard.commit <= Len(chosen)
    /\ \/ snapFile.index <= LoadedHard.commit
       \/ leaders = "install" /\ (~Up \/ (pc = "appendWAL" /\ rd.snap.index > 0))
    /\ pc = "down" /\ restarts = 0 => wal = <<>>

(* The entries of the WAL have no gap after the snapshot and reach the commit  *)
(* index; replayed, they are the log in memory; read in order, they are the    *)
(* chosen ones.                                                              *)
DiskEntries ==
    /\ Covered(WalEntries, snapFile.index)
    /\ LoadedHard.commit > snapFile.index =>
           \E e \in EntriesOf(WalEntries) : e.index >= LoadedHard.commit
    /\ Increasing(WalEntries) =>
           \A e \in EntriesOf(WalEntries) :
              e.index \in snapFile.index + 1..LoadedHard.commit => e.term = chosen[e.index]
    /\ ~Increasing(WalEntries) => leaders = "overwrite"
    /\ Sane => Above(ReplayedEntries, snapFile.index) = Above(EntsOnDisk, snapFile.index)

(* What was promised is in the WAL, and in memory.                           *)
DiskLast == snapFile.index + Len(LoadedEntries)
Promises == /\ AtLeast(LoadedHard, promised)
            /\ Up => AtLeast(hard, promised)
            /\ leaders # "overwrite" => /\ DiskLast >= promised.last
                                        /\ Up => LastIndex >= promised.last

IInv == /\ Types /\ Machine /\ Memory /\ Ready /\ Pending
        /\ DiskHard /\ DiskEntries /\ Promises

-------------------------------------------------------------------------------
(* Lemmas *)

(* The constants and the bounds of the types are numbers.                    *)
LEMMA Numbers ==
    /\ Peers \in Nat /\ Peers >= 1 /\ MaxTerm \in Nat /\ MaxTerm >= 1 /\ MaxIndex \in Nat
    /\ Peers <= MaxIndex /\ MaxRestarts \in Nat
    /\ SnapshotEvery \in Nat /\ SnapshotEvery >= 1 /\ SnapshotCatchUp \in Nat
  BY RaftNodeAssumption

(* A place for the entry in a log that starts after off, or right behind it.   *)
Extends(e, log, off) == e.index \in off + 1..off + Len(log) + 1

(* The MemoryStorage cuts its log where the new entry goes.                  *)
LEMMA MemAppendOne ==
    ASSUME NEW log \in Seq(Entry), NEW off \in Nat, Consecutive(log, off),
           NEW e \in Entry, Extends(e, log, off)
    PROVE  /\ MemAppend(off, log, <<e>>) = Append(Below(log, e.index), e)
           /\ MemAppend(off, log, <<e>>) \in Seq(Entry)
           /\ Consecutive(MemAppend(off, log, <<e>>), off)
           /\ Len(MemAppend(off, log, <<e>>)) = e.index - off
           /\ MemAppend(off, log, <<e>>)[e.index - off] = e
           /\ \A k \in 1..e.index - off - 1 : MemAppend(off, log, <<e>>)[k] = log[k]
  <1>0. e.index \in off + 1..off + Len(log) + 1
    BY DEF Extends
  <1> DEFINE n == e.index - off - 1
             B == SubSeq(log, 1, n)
             M == MemAppend(off, log, <<e>>)
  <1>1. n \in 0..Len(log) /\ e.index - 1 \in off..off + Len(log) /\ (e.index - 1) - off = n /\ (e.index - 1) + 1 = e.index
    BY <1>0
  <1>2. B = Below(log, e.index)
    <2>1. Below(log, (e.index - 1) + 1) = SubSeq(log, 1, (e.index - 1) - off)
      <3> HIDE DEF n, B, M
      <3> QED BY <1>1, ConsecutiveSlices
    <2> QED BY <1>1, <2>1
  <1>3. M = B \o <<e>>
    <2>1. <<e>> # <<>> /\ <<e>>[1] = e
      OBVIOUS
    <2> QED BY <2>1 DEF MemAppend
  <1>4. B \in Seq(Entry) /\ Len(B) = n /\ \A k \in 1..n : B[k] = log[k]
    <2> HIDE DEF n
    <2>1. n \in Nat /\ n <= Len(log) /\ Len(log) \in Nat /\ \A k \in 1..n : log[k] \in Entry
      BY <1>1
    <2> QED BY <2>1
  <1> HIDE DEF B
  <1>5. M = Append(B, e)
    <2> HIDE DEF M
    <2> QED BY <1>3, <1>4, AppendIsConcat
  <1>6. /\ Append(B, e) \in Seq(Entry) /\ Len(Append(B, e)) = n + 1 /\ Append(B, e)[n + 1] = e
        /\ \A k \in 1..n : Append(B, e)[k] = B[k]
    <2> HIDE DEF n
    <2>1. n \in Nat
      BY <1>1
    <2>2. Append(B, e) \in Seq(Entry) /\ Len(Append(B, e)) = n + 1
      BY <1>4, <2>1
    <2>3. Append(B, e)[n + 1] = e
      BY <1>4, <2>1
    <2>4. \A k \in 1..n : Append(B, e)[k] = B[k]
      BY <1>4, <2>1
    <2> QED BY <2>2, <2>3, <2>4
  <1>7. Consecutive(Append(B, e), off)
    <2>1. \A k \in 1..n : Append(B, e)[k].index = off + k
      <3>1. \A k \in 1..n : k \in DOMAIN log
        BY <1>1
      <3> QED BY <1>4, <1>6, <3>1 DEF Consecutive
    <2>2. off + (n + 1) = e.index
      BY DEF Entry
    <2>3. ASSUME NEW k \in 1..n + 1 PROVE Append(B, e)[k].index = off + k
      <3>1. CASE k = n + 1
        BY <1>6, <2>2, <3>1
      <3>2. CASE k \in 1..n
        BY <2>1, <3>2
      <3> HIDE DEF n
      <3>3. n \in Nat
        BY <1>1
      <3>4. k = n + 1 \/ k \in 1..n
        BY <3>3
      <3> QED BY <3>1, <3>2, <3>4, Zenon
    <2>4. DOMAIN Append(B, e) = 1..n + 1
      BY <1>4
    <2> QED BY <2>3, <2>4, Zenon DEF Consecutive
  <1>8. n + 1 = e.index - off
    BY DEF Entry
  <1>9. \A k \in 1..n : Append(B, e)[k] = log[k]
    BY <1>4, <1>6
  <1> HIDE DEF M
  <1>10. /\ M = Append(Below(log, e.index), e) /\ M \in Seq(Entry) /\ Consecutive(M, off)
         /\ Len(M) = e.index - off /\ M[e.index - off] = e /\ \A k \in 1..n : M[k] = log[k]
    BY <1>2, <1>5, <1>6, <1>7, <1>8, <1>9
  <1> QED BY <1>10 DEF M

(* The first entries of a log start an empty one.                            *)
LEMMA MemAppendFirst ==
    ASSUME NEW log \in Seq(Entry), Consecutive(log, 0)
    PROVE  MemAppend(0, <<>>, log) = log
  <1>1. CASE log = <<>>
    BY <1>1 DEF MemAppend
  <1>2. CASE log # <<>>
    <2>1. log[1].index = 1
      BY <1>2 DEF Consecutive
    <2>2. MemAppend(0, <<>>, log) = SubSeq(<<>>, 1, 0) \o log
      BY <1>2, <2>1 DEF MemAppend
    <2>3. SubSeq(<<>>, 1, 0) = <<>> /\ <<>> \o log = log
      OBVIOUS
    <2> QED BY <2>2, <2>3
  <1> QED BY <1>1, <1>2

(* When the WAL, replayed, is the log above b, it is as long, read in order.  *)
LEMMA DiskLength ==
    ASSUME NEW W \in Seq(Entry), NEW log \in Seq(Entry), NEW off \in Nat, NEW b \in Nat,
           Increasing(W), Above(Replay(W), b) = Above(log, b), Consecutive(log, off),
           off <= b, b <= off + Len(log)
    PROVE  b + Len(Above(W, b)) = off + Len(log)
  <1>1. Above(W, b) = Above(log, b)
    BY ReplayOfIncreasing
  <1>2. Above(log, b) = SubSeq(log, b - off + 1, Len(log))
    BY ConsecutiveSlices
  <1>3. Len(SubSeq(log, b - off + 1, Len(log))) = Len(log) - (b - off)
    OBVIOUS
  <1> QED BY <1>1, <1>2, <1>3

(* Cut higher, the replayed WAL is still the log.                            *)
LEMMA ReplayCut ==
    ASSUME NEW R \in Seq(Entry), NEW log \in Seq(Entry), NEW b \in Nat, NEW c \in Nat, b <= c,
           Above(R, b) = Above(log, b)
    PROVE  Above(R, c) = Above(log, c)
  <1>1. Above(Above(R, b), c) = Above(R, c) /\ Above(Above(log, b), c) = Above(log, c)
    BY AboveAbove
  <1> QED BY <1>1

(* One more entry above b is kept.                                           *)
LEMMA AboveAppend ==
    ASSUME NEW log \in Seq(Entry), NEW b \in Nat, NEW e \in Entry, e.index \in b + 1..MaxIndex
    PROVE  Above(Append(log, e), b) = Append(Above(log, b), e)
  <1> DEFINE I == b + 1..MaxIndex
  <1>1. e.index \in I
    OBVIOUS
  <1> HIDE DEF I
  <1>2. Kept(Append(log, e), I) = Append(Kept(log, I), e)
    BY <1>1, KeptAppend
  <1> QED BY <1>2 DEF I, Above

(* One more entry above b in the WAL and in memory.                          *)
LEMMA ReplayOne ==
    ASSUME NEW W \in Seq(Entry), NEW log \in Seq(Entry), NEW b \in Nat, NEW e \in Entry, b < e.index,
           Above(Replay(W), b) = Above(log, b)
    PROVE  Above(Replay(Append(W, e)), b) = Above(Append(Below(log, e.index), e), b)
  <1> DEFINE R == Replay(W)
  <1>1. R \in Seq(Entry) /\ e.index \in b + 1..MaxIndex /\ e.index \in Nat
    <2>1. e.index \in 1..MaxIndex
      BY DEF Entry
    <2> QED BY <2>1, ReplayEntries, Numbers
  <1>2. Below(R, e.index) \in Seq(Entry) /\ Below(log, e.index) \in Seq(Entry)
    BY <1>1, KeptType DEF Below
  <1>3. Above(Below(R, e.index), b) = Above(Below(log, e.index), b)
    <2>1. Above(Below(R, e.index), b) = Below(Above(R, b), e.index)
      BY <1>1, AboveBelow
    <2>2. Above(Below(log, e.index), b) = Below(Above(log, b), e.index)
      BY <1>1, AboveBelow
    <2> QED BY <2>1, <2>2
  <1>4. Replay(Append(W, e)) = Append(Below(R, e.index), e)
    BY ReplayAppend
  <1> HIDE DEF R
  <1>5. Above(Append(Below(R, e.index), e), b) = Append(Above(Below(R, e.index), b), e)
    BY <1>1, <1>2, AboveAppend
  <1>6. Above(Append(Below(log, e.index), e), b) = Append(Above(Below(log, e.index), b), e)
    BY <1>1, <1>2, AboveAppend
  <1> QED BY <1>3, <1>4, <1>5, <1>6

(* A record's hard state is the last one, unless it is empty.                *)
LEMMA LastOfWal ==
    ASSUME Types
    PROVE  WithHard # {} => Max(WithHard) \in WithHard /\ \A k \in WithHard : Max(WithHard) >= k
  <1>1. WithHard \subseteq 0..Len(wal) /\ Len(wal) \in Nat
    BY DEF Types, WithHard
  <1>2. WithHard # {} => \E x \in WithHard : \A y \in WithHard : x >= y
    BY <1>1, GreatestNumber
  <1> QED BY <1>2, Zenon DEF Max

(* The hard state load finds is one.                                         *)
LEMMA LoadedHardType ==
    ASSUME Types
    PROVE  LoadedHard \in HardState /\ LoadedHard.term \in Nat /\ LoadedHard.commit \in Nat
  <1>1. EmptyHard \in HardState
    BY Numbers DEF EmptyHard, HardState
  <1>2. \A k \in WithHard : wal[k].hard \in HardState
    <2>1. \A k \in DOMAIN wal : wal[k] \in Record
      BY DEF Types
    <2> QED BY <2>1 DEF WithHard, Record
  <1>3. LoadedHard \in HardState
    BY <1>1, <1>2, LastOfWal DEF LoadedHard
  <1> QED BY <1>3, Numbers DEF HardState

(* The hard state load finds after one more record.                          *)
LEMMA LoadedHardAppend ==
    ASSUME Types, NEW rec \in Record, wal' = Append(wal, rec)
    PROVE  LoadedHard' = IF rec.hard # EmptyHard THEN rec.hard ELSE LoadedHard
  <1> DEFINE n == Len(wal)
  <1>1. /\ DOMAIN wal' = 1..n + 1 /\ DOMAIN wal = 1..n /\ n \in Nat
        /\ \A k \in 1..n : wal'[k] = wal[k]
        /\ wal'[n + 1] = rec
    BY DEF Types
  <1> HIDE DEF n
  <1>2. WithHard' = IF rec.hard # EmptyHard THEN WithHard \cup {n + 1} ELSE WithHard
    BY <1>1 DEF WithHard
  <1>3. CASE rec.hard # EmptyHard
    <2>1. n + 1 \in WithHard' /\ \A k \in WithHard' : k \in Int /\ n + 1 >= k
      BY <1>1, <1>2, <1>3 DEF WithHard
    <2>2. Max(WithHard') \in WithHard' /\ Max(WithHard') >= n + 1
      <3>1. \E x \in WithHard' : \A y \in WithHard' : x >= y
        BY <2>1
      <3>2. Max(WithHard') \in WithHard' /\ \A y \in WithHard' : Max(WithHard') >= y
        BY <3>1, Zenon DEF Max
      <3> QED BY <2>1, <3>2
    <2>3. Max(WithHard') = n + 1
      BY <1>1, <2>1, <2>2
    <2>4. LoadedHard' = wal'[Max(WithHard')].hard
      BY <2>1, Zenon DEF LoadedHard
    <2> QED BY <1>1, <1>3, <2>3, <2>4
  <1>4. CASE rec.hard = EmptyHard
    <2>1. WithHard' = WithHard
      BY <1>2, <1>4
    <2>2. WithHard # {} => Max(WithHard) \in 1..n
      BY <1>1, LastOfWal DEF WithHard
    <2>3. CASE WithHard = {}
      BY <1>4, <2>1, <2>3, Zenon DEF LoadedHard
    <2>4. CASE WithHard # {}
      <3>1. LoadedHard' = wal'[Max(WithHard)].hard /\ LoadedHard = wal[Max(WithHard)].hard
        BY <2>1, <2>4, Zenon DEF LoadedHard
      <3> QED BY <1>1, <1>4, <2>2, <2>4, <3>1
    <2> QED BY <2>3, <2>4
  <1> QED BY <1>3, <1>4

(* What load reads are entries; what is replayed of them is among them.      *)
LEMMA WalEntriesType ==
    ASSUME Types
    PROVE  /\ WalEntries \in Seq(Entry) /\ ReplayedEntries \in Seq(Entry)
           /\ LoadedEntries \in Seq(Entry)
           /\ EntriesOf(ReplayedEntries) \subseteq EntriesOf(WalEntries)
  <1>1. wal \in Seq(Record) /\ \A r \in Record : r.ents \in Seq(Entry)
    BY DEF Types, Record
  <1>2. PICK h \in [0..Len(wal) -> Seq(Entry)] : Joined(wal) = h[Len(wal)]
    BY <1>1, JoinedSteps
  <1>3. Len(wal) \in 0..Len(wal)
    BY <1>1
  <1>4. WalEntries \in Seq(Entry)
    BY <1>2, <1>3 DEF WalEntries
  <1> QED BY <1>4, ReplayEntries, KeptType DEF ReplayedEntries, LoadedEntries, Above

(* The entries load reads after one more record.                             *)
LEMMA WalEntriesAppend ==
    ASSUME Types, NEW rec \in Record, wal' = Append(wal, rec)
    PROVE  WalEntries' = WalEntries \o rec.ents
  <1>1. wal \in Seq(Record) /\ \A r \in Record : r.ents \in Seq(Entry)
    BY DEF Types, Record
  <1> QED BY <1>1, JoinedAppend DEF WalEntries

(* The numbers of a state.                                                   *)
LEMMA Sizes ==
    ASSUME Types
    PROVE  /\ hard.term \in Nat /\ hard.commit \in Nat
           /\ rd.hard.term \in Nat /\ rd.hard.commit \in Nat
           /\ rd.snap.index \in Nat /\ Len(rd.snap.data) \in Nat
           /\ snapFile.index \in Nat /\ Len(snapFile.data) \in Nat
           /\ offset \in Nat /\ Len(ents) \in Nat /\ LastIndex \in Nat
           /\ appliedIndex \in Nat /\ Len(kv) \in Nat /\ lastSnapshotIndex \in Nat
           /\ Len(pending) \in Nat /\ Len(chosen) \in Nat /\ Len(rd.ents) \in Nat
           /\ promised.term \in Nat /\ promised.commit \in Nat /\ promised.last \in Nat
           /\ restarts \in Nat
  <1>1. hard \in HardState /\ rd.hard \in HardState /\ rd.snap \in Snapshot /\ snapFile \in Snapshot
    BY DEF Types
  <1>2. /\ hard.term \in Nat /\ hard.commit \in Nat /\ rd.hard.term \in Nat /\ rd.hard.commit \in Nat
        /\ rd.snap.index \in Nat /\ snapFile.index \in Nat
        /\ rd.snap.data \in Seq(1..MaxTerm) /\ snapFile.data \in Seq(1..MaxTerm)
    <2>1. \A h \in HardState : h.term \in Nat /\ h.commit \in Nat
      BY Numbers DEF HardState
    <2>2. \A s \in Snapshot : s.index \in Nat /\ s.data \in Seq(1..MaxTerm)
      BY Numbers DEF Snapshot
    <2> QED BY <1>1, <2>1, <2>2, Zenon
  <1>3. rd.ents \in Seq(Entry) /\ ents \in Seq(Entry) /\ offset \in Nat
    BY Numbers DEF Types
  <1>4. Len(rd.snap.data) \in Nat /\ Len(snapFile.data) \in Nat /\ Len(ents) \in Nat /\ Len(rd.ents) \in Nat
    BY <1>2, <1>3
  <1>5. LastIndex \in Nat
    BY <1>3, <1>4 DEF LastIndex
  <1>6. /\ appliedIndex \in Nat /\ Len(kv) \in Nat /\ lastSnapshotIndex \in Nat
        /\ Len(pending) \in Nat /\ Len(chosen) \in Nat /\ restarts \in Nat
        /\ promised.term \in Nat /\ promised.commit \in Nat /\ promised.last \in Nat
    BY Numbers DEF Types
  <1> QED BY <1>2, <1>3, <1>4, <1>5, <1>6

(* The places of the run loop.                                               *)
LEMMA Places ==
    ASSUME Types
    PROVE  /\ Up <=> pc \in {"idle"} \cup Busy \cup Later
           /\ Sane => Up
           /\ pc \in Busy \cup Later => Sane
  BY DEF Types, Up, Sane, Busy, Later

(* Empty files, no memory.                                                   *)
LEMMA InitInv == Init => IInv
  <1> SUFFICES ASSUME Init PROVE IInv
    OBVIOUS
  <1>1. WalEntries = <<>> /\ ReplayedEntries = <<>> /\ LoadedEntries = <<>>
    BY EmptyLogs DEF Init, WalEntries, ReplayedEntries, LoadedEntries, Above
  <1>2. LoadedHard = EmptyHard
    BY DEF Init, WithHard, LoadedHard
  <1>3. ~Up /\ ~Sane
    BY DEF Init, Up, Sane, Busy, Later
  <1>4. chosen \in Seq(1..MaxTerm) /\ Len(chosen) = Peers
    BY Numbers DEF Init
  <1>5. Types
    <2>1. EmptyHard \in HardState /\ NoSnapshot \in Snapshot /\ <<>> \in Seq(Entry) /\ <<>> \in Seq(Record)
      BY Numbers DEF EmptyHard, NoSnapshot, HardState, Snapshot
    <2>2. NoReady \in [snap : Snapshot, hard : HardState, ents : Seq(Entry)]
      BY <2>1 DEF NoReady
    <2>3. NoPromise \in [term : 0..MaxTerm, commit : 0..MaxIndex, last : Nat]
      BY Numbers DEF NoPromise
    <2>4. leaders \in Conduct
      BY RaftNodeAssumption DEF Init
    <2> QED BY <1>4, <2>1, <2>2, <2>3, <2>4, Numbers DEF Init, Types
  <1>6. Machine
    BY <1>3, <1>4, Numbers DEF Init, Machine, IsChosen, NoSnapshot, NoReady
  <1>7. Memory /\ Ready /\ Pending
    BY <1>3 DEF Init, Memory, Ready, Pending, Busy, Later
  <1>8. DiskHard
    BY <1>2, <1>3, <1>4, Numbers DEF Init, DiskHard, NoSnapshot, EmptyHard
  <1>9. DiskEntries
    <2>1. EntriesOf(<<>>) = {} /\ Covered(<<>>, 0) /\ Increasing(<<>>)
      BY DEF EntriesOf, Covered, Increasing
    <2> QED BY <1>1, <1>2, <1>3, <2>1 DEF DiskEntries, Init, NoSnapshot, EmptyHard
  <1>10. Promises
    BY <1>1, <1>2, <1>3 DEF Promises, Init, AtLeast, NoPromise, EmptyHard, DiskLast, NoSnapshot
  <1> QED BY <1>5, <1>6, <1>7, <1>8, <1>9, <1>10 DEF IInv

(* What is read back from the same files is the same.                        *)
LEMMA SameFiles ==
    ASSUME UNCHANGED disk
    PROVE  /\ LoadedHard' = LoadedHard /\ WalEntries' = WalEntries
           /\ ReplayedEntries' = ReplayedEntries /\ LoadedEntries' = LoadedEntries
           /\ DiskLast' = DiskLast /\ snapFile' = snapFile /\ wal' = wal
           /\ Overwritten' = Overwritten /\ BootPanics' = BootPanics
  BY DEF disk, LoadedHard, WithHard, WalEntries, ReplayedEntries, LoadedEntries, DiskLast,
         Overwritten, BootPanics

(* A step that leaves the files and the cluster alone, and the memory as far   *)
(* as the files describe it.                                                 *)
LEMMA KeepDisk ==
    ASSUME IInv, UNCHANGED <<cluster, disk>>, pc' # "down" \/ restarts' > 0,
           Sane' => Above(ReplayedEntries, snapFile.index) = Above(EntsOnDisk', snapFile.index),
           Up' => LoadedHard = HardOnDisk',
           Up' => snapFile.index <= LoadedHard.commit
                    \/ (pc' = "appendWAL" /\ rd'.snap.index > 0 /\ leaders = "install")
    PROVE  DiskHard' /\ DiskEntries'
  <1>1. leaders' = leaders /\ chosen' = chosen /\ snapFile' = snapFile /\ wal' = wal
    BY DEF cluster, disk
  <1>2. DiskHard'
    BY <1>1, SameFiles DEF IInv, DiskHard
  <1>3. DiskEntries'
    BY <1>1, SameFiles DEF IInv, DiskEntries
  <1> QED BY <1>2, <1>3

-------------------------------------------------------------------------------
(* The actions *)

(* A longer chosen log agrees with all that agreed with the shorter one.     *)
LEMMA DecideInv ==
    ASSUME IInv, NEW u \in 1..MaxTerm, Decide(u)
    PROVE  IInv'
  <1> USE DEF IInv
  <1>1. /\ pc = "idle" /\ chosen' = Append(chosen, u) /\ Len(chosen) < MaxIndex
        /\ UNCHANGED <<leaders, disk, pc, rd, store, machine, pending, promised, restarts>>
    BY DEF Decide
  <1>2. /\ chosen' \in Seq(1..MaxTerm) /\ Len(chosen') = Len(chosen) + 1 /\ Len(chosen) \in Nat
        /\ \A k \in 1..Len(chosen) : chosen'[k] = chosen[k]
    BY <1>1 DEF Types
  <1>3. Types'
    <2>1. /\ chosen' \in Seq(1..MaxTerm) /\ Len(chosen') <= MaxIndex /\ Peers <= Len(chosen')
          /\ \A i \in 1..Peers : chosen'[i] = 1
      <3>1. Len(chosen) <= MaxIndex /\ Peers <= Len(chosen) /\ \A i \in 1..Peers : chosen[i] = 1
        BY DEF Types
      <3>2. Len(chosen) + 1 <= MaxIndex /\ \A i \in 1..Peers : i \in 1..Len(chosen)
        BY <1>1, <1>2, <3>1, Numbers
      <3>3. Peers <= Len(chosen')
        BY <1>2, <3>1, Numbers
      <3>4. \A i \in 1..Peers : chosen'[i] = 1
        <4> HIDE DEF IInv
        <4>1. ASSUME NEW i \in 1..Peers PROVE chosen'[i] = chosen[i] /\ chosen[i] = 1
          BY <1>2, <3>1, <3>2
        <4> QED BY <4>1
      <3> QED BY <1>2, <3>2, <3>3, <3>4
    <2> QED BY <1>1, <2>1 DEF Types, disk, store, machine, Busy, Later
  <1>4. ASSUME NEW n \in Nat, n <= Len(chosen)
        PROVE  n <= Len(chosen') /\ \A k \in 1..n : chosen'[k] = chosen[k]
    BY <1>2, <1>4
  <1>5. Machine'
    <2>1. IsChosen(kv)' /\ IsChosen(snapFile.data)' /\ IsChosen(rd.snap.data)'
      <3>1. kv' = kv /\ snapFile' = snapFile /\ rd' = rd
        BY <1>1 DEF machine, disk
      <3>2. /\ Len(kv) <= Len(chosen) /\ \A k \in 1..Len(kv) : kv[k] = chosen[k]
            /\ Len(snapFile.data) <= Len(chosen)
            /\ \A k \in 1..Len(snapFile.data) : snapFile.data[k] = chosen[k]
            /\ Len(rd.snap.data) <= Len(chosen)
            /\ \A k \in 1..Len(rd.snap.data) : rd.snap.data[k] = chosen[k]
        BY DEF Machine, IsChosen
      <3> QED BY <1>4, <3>1, <3>2, Sizes DEF IsChosen
    <2> QED BY <1>1, <2>1 DEF Machine, machine, disk, Up
  <1>6. Memory'
    <2>1. Misread' = Misread /\ Sane' = Sane
      BY <1>1, SameFiles DEF Sane, Misread
    <2>2. Consecutive(ents, offset)' <=> Consecutive(ents, offset)
      BY <1>1 DEF store
    <2>3. ASSUME ChosenUpTo(ents, offset, hard.commit) PROVE ChosenUpTo(ents, offset, hard.commit)'
      <3>1. /\ hard.commit <= offset + Len(ents) /\ hard.commit <= Len(chosen)
            /\ \A k \in 1..Len(ents) : offset + k <= hard.commit => ents[k].term = chosen[offset + k]
        BY <2>3 DEF ChosenUpTo
      <3>2. offset \in Nat /\ hard.commit \in Nat /\ Len(ents) \in Nat
        BY Sizes
      <3>3. ASSUME NEW k \in 1..Len(ents), offset + k <= hard.commit
            PROVE  ents[k].term = chosen'[offset + k]
        <4>1. offset + k \in 1..Len(chosen) /\ ents[k].term = chosen[offset + k]
          BY <1>2, <3>1, <3>2, <3>3
        <4> QED BY <1>2, <4>1
      <3>4. hard' = hard /\ offset' = offset /\ ents' = ents /\ hard.commit <= Len(chosen')
        BY <1>1, <1>2, <3>1, <3>2 DEF store
      <3> QED BY <3>1, <3>3, <3>4 DEF ChosenUpTo
    <2> QED BY <1>1, <2>1, <2>2, <2>3 DEF Memory, Installing, machine, disk, store
  <1>7. Ready' /\ Pending'
    BY <1>1 DEF Ready, Pending, Busy, Later
  <1>8. DiskHard'
    <2>1. /\ LoadedHard' = LoadedHard /\ HardOnDisk' = HardOnDisk /\ (Up' <=> Up)
          /\ snapFile' = snapFile /\ wal' = wal /\ pc' = pc /\ rd' = rd
          /\ leaders' = leaders /\ restarts' = restarts
      BY <1>1, SameFiles DEF HardOnDisk, NewHard, store, Up
    <2>2. LoadedHard.commit <= Len(chosen')
      <3>1. LoadedHard.commit \in Nat /\ LoadedHard.commit <= Len(chosen)
        BY LoadedHardType DEF DiskHard
      <3> QED BY <1>2, <3>1
    <2> QED BY <2>1, <2>2, Zenon DEF DiskHard
  <1>9. DiskEntries'
    <2>1. Sane' = Sane /\ EntsOnDisk' = EntsOnDisk
      BY <1>1, SameFiles DEF Sane, Misread, EntsOnDisk, NewEnts, store
    <2>2. \A i \in snapFile.index + 1..LoadedHard.commit : chosen'[i] = chosen[i]
      <3>1. LoadedHard.commit <= Len(chosen)
        BY DEF DiskHard
      <3>2. \A i \in snapFile.index + 1..LoadedHard.commit : i \in 1..Len(chosen)
        <4>1. snapFile.index \in Nat /\ LoadedHard.commit \in Nat
          BY Sizes, LoadedHardType
        <4> QED BY <1>2, <3>1, <4>1
      <3> QED BY <1>2, <3>2
    <2>3. disk' = disk
      BY <1>1
    <2> QED BY <1>1, <2>1, <2>2, <2>3, SameFiles DEF DiskEntries
  <1>10. Promises'
    BY <1>1, SameFiles DEF Promises, Up, store, LastIndex
  <1> QED BY <1>3, <1>5, <1>6, <1>7, <1>8, <1>9, <1>10

(* deliver promises what is on disk: the hard state, and the log, as it stands.*)
LEMMA DeliverInv ==
    ASSUME IInv, Deliver
    PROVE  IInv'
  <1> USE DEF IInv
  <1>1. /\ pc = "deliver" /\ pc' = IF pending = <<>> THEN "advance" ELSE "apply"
        /\ UNCHANGED <<cluster, disk, rd, store, machine, pending, restarts>>
        /\ promised' = [term |-> hard.term, commit |-> hard.commit, last |-> LastIndex]
    BY DEF Deliver
  <1>2. Types'
    BY <1>1, Sizes DEF Types, cluster, disk, store, machine, Busy, Later, HardState
  <1>3. Machine'
    BY <1>1 DEF Machine, IsChosen, cluster, machine, disk, Up
  <1>4. /\ Sane /\ Sane' /\ Up /\ Up' /\ pc \notin Busy /\ pc' \notin Busy /\ ~Installing /\ ~Installing'
        /\ pc \in Later /\ pc' \in Later
    BY <1>1 DEF Sane, Up, Busy, Later, Installing
  <1>5. Memory'
    BY <1>1, <1>4 DEF Memory, ChosenUpTo, cluster, machine, disk, store
  <1>6. Ready' /\ Pending'
    BY <1>1, <1>4 DEF Ready, Pending, NewHard, cluster, machine, store
  <1>7. LoadedHard = hard /\ LoadedHard = HardOnDisk' /\ snapFile.index <= LoadedHard.commit
    BY <1>1, <1>4 DEF DiskHard, HardOnDisk, store
  <1>8. Above(ReplayedEntries, snapFile.index) = Above(EntsOnDisk', snapFile.index)
    BY <1>1, <1>4 DEF DiskEntries, EntsOnDisk, store
  <1>9. DiskHard' /\ DiskEntries'
    <2>1. pc' # "down" /\ UNCHANGED <<cluster, disk>>
      BY <1>1
    <2> QED BY <1>7, <1>8, <2>1, KeepDisk
  <1>10. Promises'
    <2>1. AtLeast(hard, promised)' /\ LoadedHard' = hard /\ hard' = hard
      <3>1. hard' = hard /\ promised'.term = hard.term /\ promised'.commit = hard.commit
        BY <1>1 DEF store
      <3>2. LoadedHard' = LoadedHard
        BY <1>1, SameFiles
      <3>3. hard.term \in Nat /\ hard.commit \in Nat
        BY Sizes
      <3>4. hard'.term >= promised'.term /\ hard'.commit >= promised'.commit
        BY <3>1, <3>3
      <3> QED BY <1>7, <3>1, <3>2, <3>4 DEF AtLeast
    <2>2. LastIndex' = LastIndex /\ promised'.last = LastIndex /\ LastIndex \in Nat /\ leaders' = leaders
      BY <1>1, Sizes DEF LastIndex, store, cluster
    <2>3. leaders # "overwrite" => DiskLast = LastIndex
      <3>1. SUFFICES ASSUME leaders # "overwrite" PROVE DiskLast = LastIndex
        OBVIOUS
      <3>2. Increasing(WalEntries) /\ Above(ReplayedEntries, snapFile.index) = Above(ents, snapFile.index)
        BY <1>1, <1>4, <3>1 DEF DiskEntries, EntsOnDisk
      <3>3. /\ Consecutive(ents, offset) /\ offset <= snapFile.index
            /\ snapFile.index <= offset + Len(ents)
        <4>1. /\ Consecutive(ents, offset) /\ offset <= snapFile.index
              /\ hard.commit <= offset + Len(ents) /\ Len(kv) <= hard.commit /\ snapFile.index <= Len(kv)
          BY <1>4, Zenon DEF Memory, ChosenUpTo
        <4>2. /\ snapFile.index \in Nat /\ Len(kv) \in Nat /\ hard.commit \in Nat
              /\ offset \in Nat /\ Len(ents) \in Nat
          BY Sizes
        <4> QED BY <4>1, <4>2
      <3>4. ents \in Seq(Entry)
        BY DEF Types
      <3>5. snapFile.index + Len(Above(WalEntries, snapFile.index)) = offset + Len(ents)
        <4>1. WalEntries \in Seq(Entry) /\ offset \in Nat /\ snapFile.index \in Nat
          BY Sizes, WalEntriesType
        <4>2. Above(Replay(WalEntries), snapFile.index) = Above(ents, snapFile.index)
          BY <3>2 DEF ReplayedEntries
        <4> QED BY <3>2, <3>3, <3>4, <4>1, <4>2, DiskLength
      <3> QED BY <3>5 DEF DiskLast, LoadedEntries, LastIndex
    <2> QED BY <1>1, <2>1, <2>2, <2>3, SameFiles DEF Promises, AtLeast
  <1> QED BY <1>2, <1>3, <1>5, <1>6, <1>9, <1>10

(* A step that leaves the promises, the memory and the files as they are.      *)
LEMMA KeepPromises ==
    ASSUME IInv, UNCHANGED <<cluster, disk, store, promised>>, Up' => Up
    PROVE  Promises'
  BY SameFiles DEF IInv, Promises, AtLeast, LastIndex, store, cluster

(* What is committed and not yet applied starts after what is applied.        *)
LEMMA NextPending ==
    ASSUME IInv, pc \in {"apply", "applyValue"}
    PROVE  /\ pending # <<>> /\ Head(pending) \in Entry /\ Head(pending) = pending[1]
           /\ Head(pending).index = Len(kv) + 1 /\ Head(pending).term = chosen[Len(kv) + 1]
           /\ Len(kv) + Len(pending) <= hard.commit /\ hard.commit <= Len(chosen)
           /\ Head(pending).index \in 1..MaxIndex /\ Head(pending).term \in 1..MaxTerm
           /\ Len(pending) >= 1 /\ Len(kv) + 1 <= hard.commit
           /\ Tail(pending) \in Seq(Entry) /\ Len(Tail(pending)) = Len(pending) - 1
           /\ \A k \in 1..Len(pending) - 1 : Tail(pending)[k] = pending[k + 1]
  <1>1. pending \in Seq(Entry) /\ pending # <<>>
    BY DEF IInv, Types, Pending, Later
  <1>2. /\ Len(pending) \in Nat /\ Len(pending) >= 1
        /\ Head(pending) = pending[1] /\ pending[1] \in Entry
        /\ Tail(pending) \in Seq(Entry) /\ Len(Tail(pending)) = Len(pending) - 1
        /\ \A k \in 1..Len(pending) - 1 : Tail(pending)[k] = pending[k + 1]
    BY <1>1
  <1>3. /\ \A k \in 1..Len(pending) : /\ pending[k].index = Len(kv) + k
                                      /\ pending[k].term = chosen[Len(kv) + k]
        /\ Len(kv) + Len(pending) <= hard.commit /\ hard.commit <= Len(chosen)
    BY DEF IInv, Pending, Later, NewHard, Busy
  <1>4. 1 \in 1..Len(pending)
    BY <1>2
  <1>5. pending[1].index = Len(kv) + 1 /\ pending[1].term = chosen[Len(kv) + 1]
    BY <1>3, <1>4
  <1>6. pending[1].index \in 1..MaxIndex /\ pending[1].term \in 1..MaxTerm
    BY <1>2 DEF Entry
  <1>7. Len(kv) + 1 <= hard.commit
    <2>1. Len(kv) \in Nat /\ hard.commit \in Nat
      BY Sizes DEF IInv
    <2> QED BY <1>2, <1>3, <2>1
  <1> QED BY <1>1, <1>2, <1>3, <1>5, <1>6, <1>7

(* applyCommitted, first critical section: appliedIndex runs one ahead.      *)
LEMMA ApplyIndexInv ==
    ASSUME IInv, ApplyIndex
    PROVE  IInv'
  <1>1. /\ pc = "apply" /\ pc' = "applyValue" /\ appliedIndex' = Head(pending).index
        /\ UNCHANGED <<cluster, disk, rd, store, kv, confState, lastSnapshotIndex, pending,
                       promised, restarts>>
    BY DEF ApplyIndex
  <1>2. Types'
    <2>1. appliedIndex' \in 0..MaxIndex
      <3>1. Head(pending).index \in 1..MaxIndex
        BY <1>1, NextPending DEF Entry
      <3> QED BY <1>1, <3>1, Numbers
    <2> QED BY <1>1, <2>1 DEF IInv, Types, cluster, disk, store, Busy, Later
  <1>3. Machine'
    <2>1. Len(kv) \in Nat /\ appliedIndex' = Len(kv) + 1
      BY <1>1, NextPending, Sizes DEF IInv
    <2> QED BY <1>1, <2>1 DEF IInv, Machine, IsChosen, cluster, disk, Up
  <1>4. /\ Sane /\ Sane' /\ Up /\ Up' /\ pc \notin Busy /\ pc' \notin Busy /\ ~Installing /\ ~Installing'
        /\ pc \in Later /\ pc' \in Later
    BY <1>1 DEF Sane, Up, Busy, Later, Installing
  <1>5. Memory'
    BY <1>1, <1>4 DEF IInv, Memory, ChosenUpTo, cluster, disk, store
  <1>6. Ready' /\ Pending'
    BY <1>1, <1>4 DEF IInv, Ready, Pending, NewHard, cluster, store
  <1>7. LoadedHard = HardOnDisk' /\ snapFile.index <= LoadedHard.commit
    BY <1>1, <1>4 DEF IInv, DiskHard, HardOnDisk, store
  <1>8. Above(ReplayedEntries, snapFile.index) = Above(EntsOnDisk', snapFile.index)
    BY <1>1, <1>4 DEF IInv, DiskEntries, EntsOnDisk, store
  <1>9. pc' # "down" /\ UNCHANGED <<cluster, disk, store, promised>>
    BY <1>1
  <1>10. DiskHard' /\ DiskEntries' /\ Promises'
    BY <1>4, <1>7, <1>8, <1>9, KeepDisk, KeepPromises
  <1> QED BY <1>2, <1>3, <1>5, <1>6, <1>10 DEF IInv

(* applyCommitted, second critical section: the next chosen entry is applied.*)
LEMMA ApplyValueInv ==
    ASSUME IInv, ApplyValue
    PROVE  IInv'
  <1>1. /\ pc = "applyValue" /\ pc' = IF Tail(pending) = <<>> THEN "maybeSnapshot" ELSE "apply"
        /\ kv' = Append(kv, Head(pending).term)
        /\ pending' = Tail(pending)
        /\ confState' = IF confState < Head(pending).index /\ Head(pending).index <= Peers
                        THEN confState + 1 ELSE confState
        /\ UNCHANGED <<cluster, disk, rd, store, appliedIndex, lastSnapshotIndex, promised, restarts>>
    BY DEF ApplyValue
  <1>2. /\ kv \in Seq(1..MaxTerm) /\ Len(kv) \in Nat /\ kv' \in Seq(1..MaxTerm)
        /\ Len(kv') = Len(kv) + 1 /\ kv'[Len(kv) + 1] = Head(pending).term
        /\ \A k \in 1..Len(kv) : kv'[k] = kv[k]
    <2>1. Head(pending).term \in 1..MaxTerm /\ kv \in Seq(1..MaxTerm)
      BY <1>1, NextPending DEF IInv, Types
    <2> HIDE DEF IInv
    <2> QED BY <1>1, <2>1
  <1>3. Types'
    <2>1. confState' \in 0..Peers
      <3>1. confState \in 0..Peers /\ Head(pending).index \in 1..MaxIndex
        BY <1>1, NextPending DEF IInv, Types
      <3> QED BY <1>1, <3>1, Numbers
    <2>2. pending' \in Seq(Entry)
      BY <1>1, NextPending
    <2> QED BY <1>1, <1>2, <2>1, <2>2 DEF IInv, Types, cluster, disk, store, Busy, Later
  <1>4. IsChosen(kv)'
    <2>1. Head(pending).term = chosen[Len(kv) + 1] /\ Len(kv) + 1 <= Len(chosen)
      <3>1. Len(kv) + 1 <= hard.commit /\ hard.commit <= Len(chosen) /\ Head(pending).term = chosen[Len(kv) + 1]
        BY <1>1, NextPending
      <3>2. hard.commit \in Nat /\ Len(chosen) \in Nat /\ Len(kv) \in Nat
        BY Sizes DEF IInv
      <3> QED BY <3>1, <3>2
    <2>2. \A k \in 1..Len(kv) : kv[k] = chosen[k]
      BY DEF IInv, Machine, IsChosen
    <2>3. chosen' = chosen
      BY <1>1 DEF cluster
    <2>4. \A k \in 1..Len(kv) + 1 : k = Len(kv) + 1 \/ k \in 1..Len(kv)
      BY <1>2
    <2> QED BY <1>2, <2>1, <2>2, <2>3, <2>4 DEF IsChosen
  <1>5. Machine'
    <2>1. Len(kv) = appliedIndex - 1 /\ appliedIndex \in Nat
      BY <1>1, Sizes DEF IInv, Machine, Up
    <2> QED BY <1>1, <1>2, <1>4, <2>1 DEF IInv, Machine, IsChosen, cluster, disk
  <1>6. /\ Sane /\ Sane' /\ Up /\ Up' /\ pc \notin Busy /\ pc' \notin Busy /\ ~Installing /\ ~Installing'
        /\ pc \in Later /\ pc' \in Later
    BY <1>1 DEF Sane, Up, Busy, Later, Installing
  <1>7. Memory'
    <2>1. Len(kv') <= hard.commit /\ snapFile.index <= Len(kv')
      <3>1. Len(kv) + 1 <= hard.commit
        BY <1>1, NextPending
      <3>2. snapFile.index <= Len(kv)
        BY <1>6, Zenon DEF IInv, Memory
      <3>3. Len(kv) \in Nat /\ hard.commit \in Nat /\ snapFile.index \in Nat
        BY Sizes DEF IInv
      <3> QED BY <1>2, <3>1, <3>2, <3>3
    <2> QED BY <1>1, <1>6, <2>1 DEF IInv, Memory, ChosenUpTo, cluster, disk, store
  <1>8. Ready'
    BY <1>6 DEF Ready
  <1>9. Pending'
    <2>1. \A k \in 1..Len(pending) : /\ pending[k].index = Len(kv) + k
                                     /\ pending[k].term = chosen[Len(kv) + k]
      BY <1>6 DEF IInv, Pending
    <2>2. Len(pending) \in Nat /\ hard' = hard /\ chosen' = chosen
      BY <1>1, Sizes DEF IInv, store, cluster
    <2>3. /\ pending' = Tail(pending) /\ Len(pending') = Len(pending) - 1
          /\ \A k \in 1..Len(pending) - 1 : Tail(pending)[k] = pending[k + 1]
          /\ Len(kv) + Len(pending) <= hard.commit /\ hard.commit <= Len(chosen)
      BY <1>1, NextPending
    <2>4. ASSUME NEW k \in 1..Len(pending')
          PROVE  pending'[k].index = Len(kv') + k /\ pending'[k].term = chosen'[Len(kv') + k]
      <3>1. k + 1 \in 1..Len(pending) /\ pending'[k] = pending[k + 1] /\ Len(kv) + (k + 1) = Len(kv') + k
        BY <1>2, <2>2, <2>3
      <3>2. pending[k + 1].index = Len(kv) + (k + 1) /\ pending[k + 1].term = chosen[Len(kv) + (k + 1)]
        BY <2>1, <3>1
      <3> QED BY <2>2, <3>1, <3>2
    <2>5. Len(kv') + Len(pending') <= hard.commit /\ hard.commit <= Len(chosen)
      <3>1. Len(kv) \in Nat /\ hard.commit \in Nat
        BY Sizes DEF IInv
      <3>2. Len(pending) \in Nat /\ Len(pending') = Len(pending) - 1 /\ Len(kv') = Len(kv) + 1
        BY <1>2, <2>2, <2>3
      <3>3. Len(kv) + Len(pending) <= hard.commit /\ hard.commit <= Len(chosen)
        BY <2>3
      <3>4. Len(kv') + Len(pending') = Len(kv) + Len(pending)
        BY <3>1, <3>2
      <3> QED BY <3>3, <3>4
    <2>6. NewHard' = hard
      BY <1>6, <2>2 DEF NewHard
    <2>7. pc' \in {"apply", "applyValue"} => pending' # <<>>
      BY <1>1
    <2> QED BY <2>2, <2>4, <2>5, <2>6, <2>7 DEF Pending
  <1>10. LoadedHard = HardOnDisk' /\ snapFile.index <= LoadedHard.commit
    BY <1>1, <1>6 DEF IInv, DiskHard, HardOnDisk, store
  <1>11. Above(ReplayedEntries, snapFile.index) = Above(EntsOnDisk', snapFile.index)
    BY <1>1, <1>6 DEF IInv, DiskEntries, EntsOnDisk, store
  <1>12. pc' # "down" /\ UNCHANGED <<cluster, disk, store, promised>>
    BY <1>1
  <1>13. DiskHard' /\ DiskEntries' /\ Promises'
    BY <1>6, <1>10, <1>11, <1>12, KeepDisk, KeepPromises
  <1> QED BY <1>3, <1>5, <1>7, <1>8, <1>9, <1>13 DEF IInv

(* Advance ends the Ready.                                                   *)
LEMMA AdvanceInv ==
    ASSUME IInv, Advance
    PROVE  IInv'
  <1>1. /\ pc = "advance" /\ pc' = "idle" /\ rd' = NoReady
        /\ UNCHANGED <<cluster, disk, store, machine, pending, promised, restarts>>
    BY DEF Advance
  <1>2. Types'
    <2>1. EmptyHard \in HardState /\ NoSnapshot \in Snapshot /\ <<>> \in Seq(Entry)
      BY Numbers DEF EmptyHard, NoSnapshot, HardState, Snapshot
    <2>2. NoReady \in [snap : Snapshot, hard : HardState, ents : Seq(Entry)]
      BY <2>1 DEF NoReady
    <2> QED BY <1>1, <2>2 DEF IInv, Types, cluster, disk, store, machine
  <1>3. Machine'
    <2>1. NoReady.snap.data = <<>> /\ NoReady.snap.index = 0 /\ Len(<<>>) = 0
      BY DEF NoReady, NoSnapshot
    <2>2. IsChosen(rd.snap.data)' /\ Len(rd'.snap.data) = rd'.snap.index
      <3>1. Len(chosen) \in Nat /\ chosen' = chosen
        BY <1>1, Sizes DEF IInv, cluster
      <3> QED BY <1>1, <2>1, <3>1 DEF IsChosen
    <2> QED BY <1>1, <2>2 DEF IInv, Machine, IsChosen, cluster, machine, disk, Up
  <1>4. /\ Sane /\ Up /\ Up' /\ pc \notin Busy /\ pc' \notin Busy /\ pc' \notin Later
        /\ ~Installing /\ ~Installing'
    BY <1>1 DEF Sane, Up, Busy, Later, Installing
  <1>5. Memory'
    BY <1>1, <1>4 DEF IInv, Memory, ChosenUpTo, cluster, machine, disk, store
  <1>6. Ready' /\ Pending'
    BY <1>4 DEF Ready, Pending
  <1>7. LoadedHard = HardOnDisk' /\ snapFile.index <= LoadedHard.commit
    BY <1>1, <1>4 DEF IInv, DiskHard, HardOnDisk, store
  <1>8. Above(ReplayedEntries, snapFile.index) = Above(EntsOnDisk', snapFile.index)
    BY <1>1, <1>4 DEF IInv, DiskEntries, EntsOnDisk, store
  <1>9. pc' # "down" /\ UNCHANGED <<cluster, disk, store, promised>>
    BY <1>1
  <1>10. DiskHard' /\ DiskEntries' /\ Promises'
    BY <1>4, <1>7, <1>8, <1>9, KeepDisk, KeepPromises
  <1> QED BY <1>2, <1>3, <1>5, <1>6, <1>10 DEF IInv

(* A death leaves the files, which the invariant describes on their own.     *)
LEMMA CrashInv ==
    ASSUME IInv, Crash
    PROVE  IInv'
  <1>1. /\ pc' = "down" /\ restarts < MaxRestarts /\ restarts' = restarts + 1 /\ rd' = NoReady
        /\ hard' = EmptyHard /\ offset' = 0 /\ ents' = <<>> /\ appliedIndex' = 0 /\ kv' = <<>>
        /\ confState' = 0 /\ lastSnapshotIndex' = 0 /\ pending' = <<>>
        /\ UNCHANGED <<cluster, disk, promised>>
    BY DEF Crash
  <1>2. Types'
    <2>1. EmptyHard \in HardState /\ NoSnapshot \in Snapshot /\ <<>> \in Seq(Entry) /\ <<>> \in Seq(1..MaxTerm)
      BY Numbers DEF EmptyHard, NoSnapshot, HardState, Snapshot
    <2>2. NoReady \in [snap : Snapshot, hard : HardState, ents : Seq(Entry)]
      BY <2>1 DEF NoReady
    <2>3. restarts' \in 0..MaxRestarts
      BY <1>1, Numbers DEF IInv, Types
    <2> QED BY <1>1, <2>1, <2>2, <2>3, Numbers DEF IInv, Types, cluster, disk
  <1>3. ~Up' /\ ~Sane' /\ pc' \notin Busy /\ pc' \notin Later
    BY <1>1 DEF Up, Sane, Busy, Later
  <1>4. Machine'
    <2>1. NoReady.snap.data = <<>> /\ NoReady.snap.index = 0 /\ Len(<<>>) = 0
      BY DEF NoReady, NoSnapshot
    <2>2. IsChosen(kv)' /\ IsChosen(rd.snap.data)' /\ Len(rd'.snap.data) = rd'.snap.index
      <3>1. Len(chosen) \in Nat /\ chosen' = chosen
        BY <1>1, Sizes DEF IInv, cluster
      <3> QED BY <1>1, <2>1, <3>1 DEF IsChosen
    <2> QED BY <1>1, <1>3, <2>2 DEF IInv, Machine, IsChosen, cluster, disk
  <1>5. Memory' /\ Ready' /\ Pending'
    BY <1>3 DEF Memory, Ready, Pending
  <1>6. DiskHard' /\ DiskEntries'
    <2>1. restarts' > 0 /\ UNCHANGED <<cluster, disk>>
      BY <1>1, Sizes DEF IInv
    <2> QED BY <1>3, <2>1, KeepDisk
  <1>7. Promises'
    <2>1. leaders' = leaders /\ promised' = promised
      BY <1>1 DEF cluster
    <2> QED BY <1>1, <1>3, <2>1, SameFiles DEF IInv, Promises
  <1> QED BY <1>2, <1>4, <1>5, <1>6, <1>7 DEF IInv

(* Entries that leave what is committed alone, up to c.                       *)
Continues(new, log, off, c) ==
    /\ Consecutive(log, off) /\ off <= c /\ c <= off + Len(log)
    /\ \/ new = <<>>
       \/ Len(new) = 1 /\ new[1].index \in c + 1..off + Len(log) + 1
       \/ off = 0 /\ log = <<>> /\ Consecutive(new, 0)

(* The log that the Ready makes of the one in memory.                        *)
LEMMA Appended ==
    ASSUME NEW log \in Seq(Entry), NEW off \in Nat, NEW c \in Nat, NEW new \in Seq(Entry),
           Continues(new, log, off, c)
    PROVE  /\ MemAppend(off, log, new) \in Seq(Entry) /\ Consecutive(MemAppend(off, log, new), off)
           /\ c <= off + Len(MemAppend(off, log, new))
           /\ \A k \in 1..Len(log) : off + k <= c =>
                 k <= Len(MemAppend(off, log, new)) /\ MemAppend(off, log, new)[k] = log[k]
           /\ \/ Len(log) <= Len(MemAppend(off, log, new))
              \/ Len(new) = 1 /\ new[1].index <= off + Len(log)
  <1> DEFINE M == MemAppend(off, log, new)
  <1>0. /\ Consecutive(log, off) /\ off <= c /\ c <= off + Len(log)
        /\ \/ new = <<>>
           \/ Len(new) = 1 /\ new[1].index \in c + 1..off + Len(log) + 1
           \/ off = 0 /\ log = <<>> /\ Consecutive(new, 0)
    BY DEF Continues
  <1>1. CASE new = <<>>
    BY <1>0, <1>1 DEF MemAppend
  <1>2. CASE Len(new) = 1 /\ new[1].index \in c + 1..off + Len(log) + 1
    <2> DEFINE e == new[1]
    <2>1. e \in Entry /\ new = <<e>>
      <3>1. Len(new) = 1 /\ e \in Entry
        <4>1. Len(new) = 1 /\ 1 \in 1..Len(new)
          BY <1>2
        <4> QED BY <4>1, ElementOfSeq
      <3>2. <<e>> \in Seq(Entry) /\ Len(<<e>>) = 1 /\ \A k \in 1..1 : <<e>>[k] = new[k]
        BY <3>1
      <3> HIDE DEF e
      <3> QED BY <3>1, <3>2, SeqEqual
    <2>2. Extends(e, log, off)
      BY <1>0, <1>2 DEF Extends
    <2> HIDE DEF e
    <2>3. /\ MemAppend(off, log, <<e>>) \in Seq(Entry)
          /\ Consecutive(MemAppend(off, log, <<e>>), off)
          /\ Len(MemAppend(off, log, <<e>>)) = e.index - off
          /\ \A k \in 1..e.index - off - 1 : MemAppend(off, log, <<e>>)[k] = log[k]
      <3> HIDE DEF M
      <3>1. Consecutive(log, off) /\ e \in Entry
        BY <1>0, <2>1
      <3> QED BY <2>2, <3>1, MemAppendOne
    <2>4. /\ M \in Seq(Entry) /\ Consecutive(M, off) /\ Len(M) = e.index - off
          /\ \A k \in 1..e.index - off - 1 : M[k] = log[k]
      BY <2>1, <2>3
    <2>5. c < e.index /\ e.index \in Nat /\ Len(log) \in Nat
      BY <1>2 DEF e
    <2> HIDE DEF M
    <2>6. \A k \in 1..Len(log) : off + k <= c => k \in 1..e.index - off - 1 /\ k <= Len(M)
      BY <2>4, <2>5
    <2>7. c <= off + Len(M)
      BY <2>4, <2>5
    <2>8. Len(log) <= Len(M) \/ e.index <= off + Len(log)
      BY <2>4, <2>5
    <2> QED BY <1>2, <2>4, <2>6, <2>7, <2>8 DEF M, e
  <1>3. CASE off = 0 /\ log = <<>> /\ Consecutive(new, 0)
    <2>1. M = new
      BY <1>3, MemAppendFirst
    <2>2. Len(log) = 0 /\ c = 0
      BY <1>0, <1>3
    <2> HIDE DEF M
    <2> QED BY <1>3, <2>1, <2>2 DEF M
  <1> QED BY <1>0, <1>1, <1>2, <1>3

(* The same of the state while a Ready is handled.                           *)
LEMMA NewLog ==
    ASSUME IInv, pc \in Busy
    PROVE  /\ NewEnts \in Seq(Entry) /\ Consecutive(NewEnts, offset)
           /\ hard.commit <= offset + Len(NewEnts)
           /\ \A k \in 1..Len(ents) : offset + k <= hard.commit =>
                 k <= Len(NewEnts) /\ NewEnts[k] = ents[k]
           /\ leaders # "overwrite" => Len(ents) <= Len(NewEnts)
           /\ rd.ents = <<>> => NewEnts = ents
  <1>1. Sane /\ NewEnts = MemAppend(offset, ents, rd.ents)
    BY DEF Sane, NewEnts
  <1>2. /\ ents \in Seq(Entry) /\ rd.ents \in Seq(Entry) /\ offset \in Nat /\ hard.commit \in Nat
    BY Sizes DEF IInv, Types
  <1>3. /\ Consecutive(ents, offset) /\ hard.commit <= offset + Len(ents)
        /\ offset <= snapFile.index /\ Len(kv) <= hard.commit
        /\ ~Installing => snapFile.index <= Len(kv)
    BY <1>1 DEF IInv, Memory, ChosenUpTo
  <1>4. FreshEntries /\ (rd.snap.index > 0 => rd.ents = <<>>)
    BY DEF IInv, Ready
  <1>5. CASE rd.ents = <<>>
    <2>1. NewEnts = ents
      BY <1>1, <1>5 DEF MemAppend
    <2>2. \A k \in 1..Len(ents) : k <= Len(ents)
      OBVIOUS
    <2> QED BY <1>2, <1>3, <2>1, <2>2
  <1>6. CASE rd.ents # <<>>
    <2>1. ~Installing
      BY <1>4, <1>6 DEF Installing
    <2>2. offset <= hard.commit
      <3>1. snapFile.index \in Nat /\ Len(kv) \in Nat
        BY Sizes DEF IInv
      <3> QED BY <1>2, <1>3, <2>1, <3>1
    <2>3. \/ Len(rd.ents) = 1 /\ rd.ents[1].index \in hard.commit + 1..offset + Len(ents) + 1
          \/ offset = 0 /\ ents = <<>> /\ Consecutive(rd.ents, 0)
      BY <1>4, <1>6 DEF FreshEntries, LastIndex
    <2>4. /\ NewEnts \in Seq(Entry) /\ Consecutive(NewEnts, offset)
          /\ hard.commit <= offset + Len(NewEnts)
          /\ \A k \in 1..Len(ents) : offset + k <= hard.commit =>
                k <= Len(NewEnts) /\ NewEnts[k] = ents[k]
          /\ \/ Len(ents) <= Len(NewEnts)
             \/ Len(rd.ents) = 1 /\ rd.ents[1].index <= offset + Len(ents)
      <3> DEFINE M == MemAppend(offset, ents, rd.ents)
      <3>1. /\ M \in Seq(Entry) /\ Consecutive(M, offset) /\ hard.commit <= offset + Len(M)
            /\ \A k \in 1..Len(ents) : offset + k <= hard.commit => k <= Len(M) /\ M[k] = ents[k]
            /\ \/ Len(ents) <= Len(M)
               \/ Len(rd.ents) = 1 /\ rd.ents[1].index <= offset + Len(ents)
        <4>1. Continues(rd.ents, ents, offset, hard.commit)
          BY <1>3, <2>2, <2>3 DEF Continues
        <4> QED BY <1>2, <4>1, Appended
      <3>2. NewEnts = M
        BY <1>1
      <3> HIDE DEF M
      <3> QED BY <3>1, <3>2
    <2>5. ASSUME leaders # "overwrite" PROVE Len(ents) <= Len(NewEnts)
      <3>1. CASE Len(rd.ents) = 1 /\ rd.ents[1].index <= offset + Len(ents) /\ ents # <<>>
        BY <1>4, <1>6, <2>5, <3>1 DEF FreshEntries, LastIndex
      <3>2. CASE ents = <<>>
        BY <2>4, <3>2
      <3> QED BY <2>4, <3>1, <3>2
    <2> QED BY <1>6, <2>4, <2>5
  <1> QED BY <1>5, <1>6

(* persistReady, first half: a snapshot further than the log, or none.       *)
LEMMA SaveSnapshotInv ==
    ASSUME IInv, SaveSnapshot
    PROVE  IInv'
  <1>1. /\ pc = "saveSnapshot" /\ pc' = "appendWAL"
        /\ snapFile' = IF rd.snap.index > 0 THEN rd.snap ELSE snapFile
        /\ UNCHANGED <<cluster, wal, rd, store, machine, pending, promised, restarts>>
    BY DEF SaveSnapshot
  <1>2. Types'
    BY <1>1 DEF IInv, Types, cluster, store, machine, Busy, Later
  <1>3. Machine'
    BY <1>1 DEF IInv, Machine, IsChosen, cluster, machine, Up
  <1>4. /\ Sane /\ Sane' /\ Up /\ Up' /\ pc \in Busy /\ pc' \in Busy /\ ~Installing
        /\ Installing' <=> rd.snap.index > 0
    BY <1>1 DEF Sane, Up, Busy, Later, Installing
  <1>5. /\ rd.snap.index \in Nat /\ hard.commit \in Nat /\ LastIndex \in Nat /\ snapFile.index \in Nat
        /\ Len(kv) \in Nat /\ offset \in Nat /\ LoadedHard.commit \in Nat /\ promised.last \in Nat
    BY Sizes, LoadedHardType DEF IInv
  <1>6. /\ snapFile.index <= Len(kv) /\ Len(kv) <= hard.commit /\ hard.commit <= LastIndex
        /\ offset <= snapFile.index
    BY <1>4 DEF IInv, Memory, ChosenUpTo, LastIndex
  <1>7. rd.snap.index > 0 => snapFile.index <= rd.snap.index /\ hard.commit < rd.snap.index
    <2>1. rd.snap.index > 0 => rd.snap.index > LastIndex
      BY <1>4 DEF IInv, Ready
    <2> QED BY <1>5, <1>6, <2>1
  <1>8. Memory'
    <2>1. offset <= snapFile'.index /\ (~Installing' => snapFile'.index <= Len(kv))
      BY <1>1, <1>4, <1>5, <1>6, <1>7
    <2> QED BY <1>1, <1>4, <2>1 DEF IInv, Memory, ChosenUpTo, cluster, machine, store
  <1>9. Ready'
    <2>1. NewHard' = NewHard /\ NewEnts' = NewEnts /\ LastIndex' = LastIndex
      BY <1>1, <1>4 DEF NewHard, NewEnts, LastIndex, store
    <2>2. FreshEntries'
      BY <1>1, <1>4, <2>1 DEF IInv, Ready, FreshEntries, cluster, store
    <2> QED BY <1>1, <1>4, <2>1, <2>2 DEF IInv, Ready, AtLeast, ChosenUpTo, cluster, store
  <1>10. Pending'
    <2>1. NewHard' = NewHard
      BY <1>1, <1>4 DEF NewHard, store
    <2> QED BY <1>1, <1>4, <2>1 DEF IInv, Pending, cluster, machine
  <1>11. LoadedHard' = LoadedHard /\ LoadedHard = hard /\ HardOnDisk' = hard
    <2>1. LoadedHard' = LoadedHard
      BY <1>1 DEF LoadedHard, WithHard
    <2> QED BY <1>1, <1>4, <2>1 DEF IInv, DiskHard, HardOnDisk, store
  <1>12. /\ WalEntries' = WalEntries /\ ReplayedEntries' = ReplayedEntries
         /\ EntsOnDisk' = ents /\ EntsOnDisk = ents /\ leaders' = leaders /\ chosen' = chosen
    BY <1>1 DEF WalEntries, ReplayedEntries, EntsOnDisk, store, cluster
  <1>13. snapFile'.index \in Nat /\ snapFile.index <= snapFile'.index
    BY <1>1, <1>5, <1>7
  <1>14. CASE rd.snap.index > 0
    <2>1. leaders = "install" /\ hard # EmptyHard /\ snapFile'.index = rd.snap.index
      BY <1>1, <1>4, <1>14 DEF IInv, Ready
    <2>2. DiskHard'
      BY <1>1, <1>4, <1>11, <1>12, <1>14, <2>1 DEF IInv, DiskHard, Up
    <2>3. DiskEntries'
      <3>1. Covered(WalEntries, snapFile'.index)
        <4>1. EntriesOf(WalEntries) \subseteq Entry /\ WalEntries \in Seq(Entry)
          BY WalEntriesType DEF IInv, EntriesOf
        <4>2. \A k \in DOMAIN WalEntries : snapFile'.index + 1..WalEntries[k].index
                                             \subseteq snapFile.index + 1..WalEntries[k].index
          <5>1. \A k \in DOMAIN WalEntries : WalEntries[k].index \in Nat
            <6>1. \A e \in Entry : e.index \in Nat
              BY DEF Entry
            <6> QED BY <4>1, <6>1, Zenon DEF EntriesOf
          <5>2. ASSUME NEW m \in Nat PROVE snapFile'.index + 1..m \subseteq snapFile.index + 1..m
            BY <1>5, <1>13
          <5> QED BY <5>1, <5>2
        <4> QED BY <4>2 DEF IInv, DiskEntries, Covered
      <3>2. ~(LoadedHard.commit > snapFile'.index) /\ snapFile'.index + 1..LoadedHard.commit = {}
        BY <1>5, <1>7, <1>11, <1>14, <2>1
      <3>3. Above(ReplayedEntries, snapFile'.index) = Above(ents, snapFile'.index)
        <4>1. Above(ReplayedEntries, snapFile.index) = Above(ents, snapFile.index)
          BY <1>4, <1>12 DEF IInv, DiskEntries
        <4>2. ReplayedEntries \in Seq(Entry) /\ ents \in Seq(Entry)
          BY WalEntriesType DEF IInv, Types
        <4> QED BY <1>5, <1>13, <4>1, <4>2, ReplayCut
      <3>4. ~Increasing(WalEntries) => leaders = "overwrite"
        BY DEF IInv, DiskEntries
      <3> QED BY <1>11, <1>12, <3>1, <3>2, <3>3, <3>4 DEF DiskEntries
    <2>4. Promises'
      <3>1. DiskLast' >= snapFile'.index
        <4>1. LoadedEntries' = Above(WalEntries, snapFile'.index)
          BY <1>12 DEF LoadedEntries
        <4>2. Len(Above(WalEntries, snapFile'.index)) \in Nat
          <5>1. Above(WalEntries, snapFile'.index) \in Seq(Entry)
            BY WalEntriesType, KeptType DEF IInv, Above
          <5> QED BY <5>1
        <4> QED BY <1>13, <4>1, <4>2 DEF DiskLast
      <3>2. LastIndex >= promised.last /\ AtLeast(hard, promised) /\ AtLeast(LoadedHard, promised)
        <4>1. leaders # "overwrite" /\ Up /\ Promises
          BY <1>4, <2>1 DEF IInv
        <4> QED BY <4>1, Zenon DEF Promises
      <3>3. snapFile'.index > LastIndex
        BY <1>4, <1>14, <2>1 DEF IInv, Ready
      <3>4. DiskLast' >= promised.last
        <4>1. DiskLast' \in Int
          <5>1. LoadedEntries' \in Seq(Entry)
            BY <1>2, WalEntriesType, KeptType, <1>12 DEF IInv, LoadedEntries, Above
          <5> QED BY <1>13, <5>1 DEF DiskLast
        <4> QED BY <1>5, <1>13, <3>1, <3>2, <3>3, <4>1
      <3>5. hard' = hard /\ LastIndex' = LastIndex /\ promised' = promised
        BY <1>1 DEF store, LastIndex
      <3> QED BY <1>11, <3>2, <3>4, <3>5 DEF Promises, AtLeast
    <2> QED BY <1>2, <1>3, <1>8, <1>9, <1>10, <2>2, <2>3, <2>4 DEF IInv
  <1>15. CASE rd.snap.index = 0
    <2>1. UNCHANGED <<cluster, disk, store, promised>>
      BY <1>1, <1>15 DEF disk
    <2>2. snapFile.index <= LoadedHard.commit
      BY <1>5, <1>6, <1>11
    <2>3. Above(ReplayedEntries, snapFile.index) = Above(EntsOnDisk', snapFile.index)
      BY <1>4, <1>12 DEF IInv, DiskEntries
    <2>4. DiskHard' /\ DiskEntries' /\ Promises'
      <3>1. pc' # "down" /\ UNCHANGED <<cluster, disk>> /\ LoadedHard = HardOnDisk'
        BY <1>1, <1>11, <2>1
      <3> QED BY <1>4, <2>1, <2>2, <2>3, <3>1, KeepDisk, KeepPromises
    <2> QED BY <1>2, <1>3, <1>8, <1>9, <1>10, <2>4 DEF IInv
  <1> QED BY <1>5, <1>14, <1>15

(* The WAL after a Ready is appended: its hard state, and its entries.        *)
LEMMA Written ==
    ASSUME IInv, AppendWAL
    PROVE  /\ wal' \in Seq(Record) /\ LoadedHard = hard /\ LoadedHard' = NewHard
           /\ WalEntries' = WalEntries \o rd.ents
           /\ wal' = <<>> => wal = <<>> /\ rd.hard = EmptyHard
  <1>1. /\ pc = "appendWAL"
        /\ wal' = IF rd.hard = EmptyHard /\ rd.ents = <<>> THEN wal
                  ELSE Append(wal, [hard |-> rd.hard, ents |-> rd.ents])
    BY DEF AppendWAL
  <1>2. LoadedHard = hard /\ NewHard = IF rd.hard # EmptyHard THEN rd.hard ELSE hard
    BY <1>1 DEF IInv, DiskHard, HardOnDisk, NewHard, Up, Busy
  <1>3. Types /\ wal \in Seq(Record) /\ rd.hard \in HardState /\ rd.ents \in Seq(Entry)
    BY DEF IInv, Types
  <1>4. CASE rd.hard = EmptyHard /\ rd.ents = <<>>
    <2>1. wal' = wal
      BY <1>1, <1>4
    <2>2. LoadedHard' = LoadedHard /\ WalEntries' = WalEntries
      BY <2>1 DEF LoadedHard, WithHard, WalEntries
    <2>3. WalEntries \o <<>> = WalEntries
      BY <1>3, WalEntriesType
    <2> QED BY <1>2, <1>3, <1>4, <2>1, <2>2, <2>3
  <1>5. CASE ~(rd.hard = EmptyHard /\ rd.ents = <<>>)
    <2> DEFINE rec == [hard |-> rd.hard, ents |-> rd.ents]
    <2>1. rec \in Record /\ rec.hard = rd.hard /\ rec.ents = rd.ents
      BY <1>3 DEF Record
    <2>2. wal' = Append(wal, rec)
      BY <1>1, <1>5
    <2> HIDE DEF rec
    <2>3. LoadedHard' = IF rec.hard # EmptyHard THEN rec.hard ELSE LoadedHard
      BY <1>3, <2>1, <2>2, LoadedHardAppend
    <2>4. WalEntries' = WalEntries \o rec.ents
      BY <1>3, <2>1, <2>2, WalEntriesAppend
    <2>5. wal' \in Seq(Record) /\ wal' # <<>>
      BY <1>3, <2>1, <2>2
    <2> QED BY <1>2, <2>1, <2>3, <2>4, <2>5
  <1> QED BY <1>4, <1>5

(* The entries of the WAL after a Ready is appended.                         *)
LEMMA WrittenEntries ==
    ASSUME IInv, AppendWAL
    PROVE  /\ Covered(WalEntries', snapFile.index)
           /\ ~Increasing(WalEntries') => leaders = "overwrite"
           /\ Above(Replay(WalEntries'), snapFile.index) = Above(NewEnts, snapFile.index)
           /\ Increasing(WalEntries') => Increasing(WalEntries)
  <1>1. pc = "appendWAL" /\ Sane /\ pc \in Busy /\ (Installing <=> rd.snap.index > 0)
    BY DEF AppendWAL, Sane, Busy, Installing
  <1>2. /\ Covered(WalEntries, snapFile.index)
        /\ ~Increasing(WalEntries) => leaders = "overwrite"
        /\ Above(Replay(WalEntries), snapFile.index) = Above(ents, snapFile.index)
    BY <1>1 DEF IInv, DiskEntries, EntsOnDisk, ReplayedEntries
  <1>3. WalEntries \in Seq(Entry) /\ ents \in Seq(Entry) /\ rd.ents \in Seq(Entry)
    BY WalEntriesType DEF IInv, Types
  <1>4. /\ snapFile.index \in Nat /\ hard.commit \in Nat /\ LastIndex \in Nat /\ Len(kv) \in Nat
        /\ offset \in Nat /\ Len(ents) \in Nat /\ rd.snap.index \in Nat
    BY Sizes DEF IInv
  <1>5. WalEntries' = WalEntries \o rd.ents
    BY Written
  <1>6. FreshEntries /\ (rd.snap.index > 0 => rd.ents = <<>>)
    BY <1>1 DEF IInv, Ready
  <1>7. NewEnts = MemAppend(offset, ents, rd.ents)
    BY <1>1 DEF NewEnts
  <1>8. CASE rd.ents = <<>>
    <2>1. WalEntries' = WalEntries /\ NewEnts = ents
      BY <1>3, <1>5, <1>7, <1>8 DEF MemAppend
    <2> QED BY <1>2, <2>1
  <1>9. CASE rd.ents # <<>>
    <2>1. ~Installing
      BY <1>1, <1>4, <1>6, <1>9
    <2>2. /\ Consecutive(ents, offset) /\ hard.commit <= LastIndex /\ LastIndex = offset + Len(ents)
          /\ offset <= snapFile.index /\ snapFile.index <= Len(kv) /\ Len(kv) <= hard.commit
      BY <1>1, <2>1 DEF IInv, Memory, ChosenUpTo, LastIndex
    <2>3. CASE /\ Len(rd.ents) = 1 /\ rd.ents[1].index \in hard.commit + 1..LastIndex + 1
               /\ rd.ents[1].index <= LastIndex => leaders = "overwrite"
      <3> DEFINE e == rd.ents[1]
      <3>1. e \in Entry /\ rd.ents = <<e>>
        <4>1. Len(rd.ents) = 1 /\ e \in Entry
          <5>1. 1 \in 1..Len(rd.ents)
            BY <2>3
          <5> QED BY <1>3, <2>3, <5>1, ElementOfSeq
        <4>2. <<e>> \in Seq(Entry) /\ Len(<<e>>) = 1 /\ \A k \in 1..1 : <<e>>[k] = rd.ents[k]
          BY <4>1
        <4> HIDE DEF e
        <4> QED BY <1>3, <4>1, <4>2, SeqEqual
      <3>2. e.index \in hard.commit + 1..LastIndex + 1 /\ (e.index <= LastIndex => leaders = "overwrite")
        BY <2>3
      <3> HIDE DEF e
      <3>3. WalEntries' = Append(WalEntries, e)
        BY <1>3, <1>5, <3>1, AppendIsConcat
      <3>4. NewEnts = Append(Below(ents, e.index), e)
        <4>1. Extends(e, ents, offset)
          BY <1>4, <2>2, <3>2 DEF Extends
        <4>2. MemAppend(offset, ents, <<e>>) = Append(Below(ents, e.index), e)
          BY <1>3, <1>4, <2>2, <3>1, <4>1, MemAppendOne
        <4> QED BY <1>7, <3>1, <4>2
      <3>5. snapFile.index < e.index
        <4>1. snapFile.index <= hard.commit /\ hard.commit < e.index
          BY <1>4, <2>2, <3>2
        <4>2. e.index \in Nat
          BY <3>1 DEF Entry
        <4> QED BY <1>4, <4>1, <4>2
      <3>6. Above(Replay(WalEntries'), snapFile.index) = Above(NewEnts, snapFile.index)
        BY <1>2, <1>3, <1>4, <3>1, <3>3, <3>4, <3>5, ReplayOne
      <3>7. ASSUME NEW x \in snapFile.index + 1..e.index
            PROVE  x = e.index \/ \E y \in EntriesOf(WalEntries) : y.index = x
        <4>1. SUFFICES ASSUME x # e.index PROVE \E y \in EntriesOf(WalEntries) : y.index = x
          OBVIOUS
        <4>2. x - offset \in 1..Len(ents) /\ x \in Nat
          BY <1>4, <2>2, <3>2, <4>1
        <4>3. ents[x - offset].index = x /\ ents[x - offset] \in EntriesOf(ents)
          <5>1. x - offset \in DOMAIN ents
            BY <1>3, <4>2
          <5>2. ents[x - offset].index = offset + (x - offset)
            BY <2>2, <5>1, Zenon DEF Consecutive
          <5> QED BY <1>4, <4>2, <5>1, <5>2 DEF EntriesOf
        <4>4. x \in snapFile.index + 1..MaxIndex
          <5>1. e.index \in 1..MaxIndex
            BY <3>1 DEF Entry
          <5> QED BY <1>4, <3>7, <5>1, Numbers
        <4>5. ents[x - offset] \in EntriesOf(Above(ents, snapFile.index))
          <5>1. EntriesOf(Above(ents, snapFile.index)) =
                  {z \in EntriesOf(ents) : z.index \in snapFile.index + 1..MaxIndex}
            BY <1>3, KeptEntries DEF Above
          <5> QED BY <4>3, <4>4, <5>1
        <4>6. Replay(WalEntries) \in Seq(Entry) /\ EntriesOf(Replay(WalEntries)) \subseteq EntriesOf(WalEntries)
          BY <1>3, ReplayEntries
        <4>7. ents[x - offset] \in EntriesOf(Replay(WalEntries))
          BY <1>2, <4>5, <4>6, KeptEntries DEF Above
        <4> QED BY <4>3, <4>6, <4>7
      <3>8. Covered(WalEntries', snapFile.index)
        <4>1. Covered(Append(WalEntries, e), snapFile.index)
          BY <1>2, <1>3, <1>4, <3>1, <3>7, CoveredAppend
        <4> QED BY <3>3, <4>1
      <3>9. Increasing(WalEntries') => Increasing(WalEntries)
        BY <1>3, <3>1, <3>3, IncreasingAppend
      <3>10. ASSUME leaders # "overwrite" PROVE Increasing(WalEntries')
        <4>1. Increasing(WalEntries) /\ e.index = LastIndex + 1
          BY <1>2, <1>4, <3>2, <3>10
        <4>2. ASSUME NEW y \in EntriesOf(WalEntries) PROVE y.index < e.index
          <5>1. y \in Entry /\ y.index \in 1..MaxIndex
            <6>1. EntriesOf(WalEntries) \subseteq Entry
              BY <1>3 DEF EntriesOf
            <6> QED BY <6>1 DEF Entry
          <5>2. CASE y.index <= snapFile.index
            BY <1>4, <2>2, <4>1, <5>1, <5>2
          <5>3. CASE y.index > snapFile.index
            <6>1. y.index \in snapFile.index + 1..MaxIndex
              BY <1>4, <5>1, <5>3, Numbers
            <6>2. y \in EntriesOf(Above(WalEntries, snapFile.index))
              BY <1>3, <6>1, KeptEntries DEF Above
            <6>3. Replay(WalEntries) = WalEntries
              BY <1>3, <4>1, ReplayOfIncreasing
            <6>4. y \in EntriesOf(ents)
              BY <1>2, <1>3, <6>2, <6>3, KeptEntries DEF Above
            <6>5. PICK k \in DOMAIN ents : y = ents[k]
              BY <6>4 DEF EntriesOf
            <6>6. y.index = offset + k /\ k \in 1..Len(ents)
              BY <1>3, <2>2, <6>5 DEF Consecutive
            <6> QED BY <1>4, <2>2, <4>1, <6>6
          <5> QED BY <1>4, <5>1, <5>2, <5>3
        <4> QED BY <1>3, <3>1, <3>3, <4>1, <4>2, IncreasingAppend
      <3> QED BY <3>6, <3>8, <3>9, <3>10
    <2>4. CASE offset = 0 /\ ents = <<>> /\ Consecutive(rd.ents, 0) /\ wal = <<>>
      <3>1. WalEntries = <<>> /\ WalEntries' = rd.ents
        <4>1. WalEntries = <<>>
          BY <2>4, EmptyLogs DEF WalEntries
        <4> QED BY <1>3, <1>5, <4>1
      <3>2. NewEnts = rd.ents
        BY <1>3, <1>7, <2>4, MemAppendFirst
      <3>3. Increasing(rd.ents) /\ Increasing(WalEntries)
        BY <1>3, <2>4, <3>1 DEF Increasing, Consecutive
      <3>4. Replay(rd.ents) = rd.ents
        BY <1>3, <3>3, ReplayOfIncreasing
      <3>5. Covered(rd.ents, snapFile.index)
        <4>1. SUFFICES ASSUME NEW k \in DOMAIN rd.ents, NEW x \in snapFile.index + 1..rd.ents[k].index
                       PROVE  \E j \in 1..k : rd.ents[j].index = x
          BY DEF Covered
        <4>2. rd.ents[k].index = k /\ DOMAIN rd.ents = 1..Len(rd.ents)
          BY <1>3, <2>4 DEF Consecutive
        <4>3. x \in 1..k /\ x \in DOMAIN rd.ents
          BY <1>3, <1>4, <4>1, <4>2
        <4>4. rd.ents[x].index = 0 + x
          BY <2>4, <4>3 DEF Consecutive
        <4> QED BY <4>3, <4>4
      <3> QED BY <3>1, <3>2, <3>3, <3>4, <3>5
    <2> QED BY <1>1, <1>6, <1>9, <2>3, <2>4 DEF FreshEntries
  <1> QED BY <1>8, <1>9

(* A WAL that, replayed, is a log of chosen entries up to c, reaches c, and     *)
(* holds these entries when it was written in order.                          *)
LEMMA ReadsChosen ==
    ASSUME NEW W \in Seq(Entry), NEW log \in Seq(Entry), NEW off \in Nat, NEW b \in Nat, NEW c \in Nat,
           Consecutive(log, off), ChosenUpTo(log, off, c), off <= b,
           Above(Replay(W), b) = Above(log, b)
    PROVE  /\ c > b => \E e \in EntriesOf(W) : e.index >= c
           /\ Increasing(W) =>
                \A e \in EntriesOf(W) : e.index \in b + 1..c => e.term = chosen[e.index]
  <1>1. /\ \A k \in 1..Len(log) : log[k].index = off + k /\ log[k] \in EntriesOf(log)
        /\ \A k \in 1..Len(log) : off + k <= c => log[k].term = chosen[off + k]
        /\ c <= off + Len(log) /\ Len(log) \in Nat
    BY DEF Consecutive, ChosenUpTo, EntriesOf
  <1>2. EntriesOf(log) \subseteq Entry /\ EntriesOf(W) \subseteq Entry
    BY DEF EntriesOf
  <1>3. Replay(W) \in Seq(Entry) /\ EntriesOf(Replay(W)) \subseteq EntriesOf(W)
    BY ReplayEntries
  <1>4. /\ EntriesOf(Above(log, b)) = {e \in EntriesOf(log) : e.index \in b + 1..MaxIndex}
        /\ EntriesOf(Above(Replay(W), b)) = {e \in EntriesOf(Replay(W)) : e.index \in b + 1..MaxIndex}
    <2>1. EntriesOf(Kept(log, b + 1..MaxIndex)) = {e \in EntriesOf(log) : e.index \in b + 1..MaxIndex}
      BY KeptEntries
    <2>2. EntriesOf(Kept(Replay(W), b + 1..MaxIndex)) =
            {e \in EntriesOf(Replay(W)) : e.index \in b + 1..MaxIndex}
      BY <1>3, KeptEntries
    <2> QED BY <2>1, <2>2, Zenon DEF Above
  <1>5. ASSUME c > b PROVE \E e \in EntriesOf(W) : e.index >= c
    <2>1. c - off \in 1..Len(log) /\ off + (c - off) = c
      BY <1>1, <1>5
    <2>2. log[c - off] \in EntriesOf(log) /\ log[c - off].index = c
      BY <1>1, <2>1
    <2>3. c \in b + 1..MaxIndex
      <3>1. c <= MaxIndex
        BY <1>2, <2>2 DEF Entry
      <3> QED BY <1>5, <3>1, Numbers
    <2>4. log[c - off] \in EntriesOf(W)
      BY <1>3, <1>4, <2>2, <2>3
    <2> QED BY <2>2, <2>4
  <1>6. ASSUME Increasing(W), NEW e \in EntriesOf(W), e.index \in b + 1..c
        PROVE  e.term = chosen[e.index]
    <2>1. Replay(W) = W
      BY <1>6, ReplayOfIncreasing
    <2>2. e.index \in b + 1..MaxIndex
      <3>1. e.index \in 1..MaxIndex
        BY <1>2 DEF Entry
      <3> QED BY <1>6, <3>1, Numbers
    <2>3. e \in EntriesOf(log)
      BY <1>4, <1>6, <2>1, <2>2
    <2>4. PICK k \in 1..Len(log) : e = log[k]
      BY <2>3 DEF EntriesOf
    <2>5. e.index = off + k /\ off + k <= c
      BY <1>1, <1>6, <2>4
    <2> QED BY <1>1, <2>4, <2>5
  <1> QED BY <1>5, <1>6

(* persistReady, second half: memory as it will be is now on disk.           *)
LEMMA AppendWALInv ==
    ASSUME IInv, AppendWAL
    PROVE  IInv'
  <1>1. /\ pc = "appendWAL" /\ pc' = "memory"
        /\ UNCHANGED <<cluster, snapFile, rd, store, machine, pending, promised, restarts>>
    BY DEF AppendWAL
  <1>2. /\ Sane /\ Sane' /\ Up /\ Up' /\ pc \in Busy /\ pc' \in Busy
        /\ Installing' = Installing /\ (Installing <=> rd.snap.index > 0)
    BY <1>1 DEF Sane, Up, Busy, Later, Installing
  <1>3. Types'
    BY <1>1, Written DEF IInv, Types, cluster, store, machine, Busy, Later
  <1>4. Machine'
    BY <1>1 DEF IInv, Machine, IsChosen, cluster, machine, Up
  <1>5. Memory'
    BY <1>1, <1>2 DEF IInv, Memory, ChosenUpTo, cluster, machine, store
  <1>6. /\ NewHard' = NewHard /\ NewEnts' = NewEnts /\ LastIndex' = LastIndex
        /\ HardOnDisk' = NewHard /\ EntsOnDisk' = NewEnts
        /\ leaders' = leaders /\ chosen' = chosen /\ snapFile' = snapFile /\ promised' = promised
        /\ hard' = hard
    BY <1>1, <1>2 DEF NewHard, NewEnts, LastIndex, store, HardOnDisk, EntsOnDisk, cluster
  <1>7. Ready'
    <2>1. FreshEntries'
      BY <1>1, <1>2, <1>6 DEF IInv, Ready, FreshEntries, store
    <2> QED BY <1>1, <1>2, <1>6, <2>1 DEF IInv, Ready, AtLeast, ChosenUpTo, store
  <1>8. Pending'
    BY <1>1, <1>2, <1>6 DEF IInv, Pending, machine
  <1>9. /\ snapFile.index \in Nat /\ hard.commit \in Nat /\ offset \in Nat /\ rd.snap.index \in Nat
        /\ hard.term \in Nat /\ promised.term \in Nat /\ promised.commit \in Nat /\ promised.last \in Nat
        /\ NewHard.commit \in Nat /\ NewHard.term \in Nat /\ Len(kv) \in Nat
    <2>1. NewHard.commit \in Nat /\ NewHard.term \in Nat
      BY Sizes DEF IInv, NewHard
    <2> QED BY <2>1, Sizes DEF IInv
  <1>10. LoadedHard = hard /\ LoadedHard' = NewHard
    BY Written
  <1>11. snapFile.index <= NewHard.commit /\ (rd.snap.index > 0 => NewHard.commit = snapFile.index)
    <2>1. CASE rd.snap.index > 0
      <3>1. snapFile.index = rd.snap.index /\ rd.hard.commit = rd.snap.index
        BY <1>2, <2>1 DEF IInv, Ready
      <3>2. rd.hard # EmptyHard
        BY <2>1, <3>1 DEF EmptyHard
      <3> QED BY <1>2, <1>9, <3>1, <3>2 DEF NewHard
    <2>2. CASE rd.snap.index = 0
      <3>1. snapFile.index <= hard.commit
        BY <1>1, <1>2, <1>10, <2>2 DEF IInv, DiskHard
      <3>2. NewHard.commit >= hard.commit
        BY <1>2 DEF IInv, Ready, AtLeast
      <3> QED BY <1>9, <2>2, <3>1, <3>2
    <2> QED BY <1>9, <2>1, <2>2
  <1>12. DiskHard'
    <2>1. NewHard # EmptyHard /\ NewHard.commit <= Len(chosen)
      BY <1>2 DEF IInv, Ready, Pending
    <2> QED BY <1>1, <1>2, <1>6, <1>10, <1>11, <2>1 DEF DiskHard
  <1>13. /\ WalEntries' \in Seq(Entry) /\ NewEnts \in Seq(Entry) /\ Consecutive(NewEnts, offset)
         /\ ReplayedEntries' = Replay(WalEntries')
    <2>1. WalEntries \in Seq(Entry) /\ rd.ents \in Seq(Entry)
      BY WalEntriesType DEF IInv, Types
    <2>2. WalEntries' \in Seq(Entry)
      <3>1. WalEntries \o rd.ents \in Seq(Entry)
        BY <2>1, ConcatProperties
      <3>2. WalEntries' = WalEntries \o rd.ents
        BY Written
      <3> QED BY <3>1, <3>2
    <2> QED BY <1>2, <2>2, NewLog DEF ReplayedEntries
  <1>14. DiskEntries'
    <2>1. /\ Covered(WalEntries', snapFile.index)
          /\ ~Increasing(WalEntries') => leaders = "overwrite"
          /\ Above(Replay(WalEntries'), snapFile.index) = Above(NewEnts, snapFile.index)
      BY WrittenEntries
    <2>2. /\ NewHard.commit > snapFile.index => \E e \in EntriesOf(WalEntries') : e.index >= NewHard.commit
          /\ Increasing(WalEntries') =>
               \A e \in EntriesOf(WalEntries') :
                  e.index \in snapFile.index + 1..NewHard.commit => e.term = chosen[e.index]
      <3>1. CASE rd.snap.index > 0
        <4>1. NewHard.commit = snapFile.index /\ snapFile.index + 1..NewHard.commit = {}
          BY <1>9, <1>11, <3>1
        <4> QED BY <1>9, <4>1
      <3>2. CASE rd.snap.index = 0
        <4>1. ChosenUpTo(NewEnts, offset, NewHard.commit) /\ offset <= snapFile.index
          BY <1>2, <3>2 DEF IInv, Ready, Memory
        <4> DEFINE W == WalEntries'
                   b == snapFile.index
                   c == NewHard.commit
        <4>2. /\ W \in Seq(Entry) /\ NewEnts \in Seq(Entry) /\ offset \in Nat /\ b \in Nat /\ c \in Nat
              /\ Consecutive(NewEnts, offset) /\ ChosenUpTo(NewEnts, offset, c) /\ offset <= b
              /\ Above(Replay(W), b) = Above(NewEnts, b)
          BY <1>9, <1>13, <2>1, <4>1
        <4> HIDE DEF W, b, c
        <4>3. /\ c > b => \E e \in EntriesOf(W) : e.index >= c
              /\ Increasing(W) =>
                   \A e \in EntriesOf(W) : e.index \in b + 1..c => e.term = chosen[e.index]
          BY <4>2, ReadsChosen
        <4> QED BY <4>3 DEF W, b, c
      <3> QED BY <1>9, <3>1, <3>2
    <2> QED BY <1>6, <1>10, <1>13, <2>1, <2>2 DEF DiskEntries
  <1>15. Promises'
    <2>1. AtLeast(NewHard, hard) /\ AtLeast(hard, promised)
      BY <1>2, <1>10 DEF IInv, Ready, Promises
    <2>2. AtLeast(NewHard, promised)
      BY <1>9, <2>1 DEF AtLeast
    <2>3. DiskLast' >= DiskLast /\ DiskLast \in Nat /\ DiskLast' \in Nat
      <3>1. WalEntries \in Seq(Entry) /\ rd.ents \in Seq(Entry)
        BY WalEntriesType DEF IInv, Types
      <3> DEFINE A == Above(WalEntries, snapFile.index)
                 B == Above(rd.ents, snapFile.index)
      <3>2. A \in Seq(Entry) /\ B \in Seq(Entry)
        BY <3>1, KeptType DEF Above
      <3>3. Above(WalEntries \o rd.ents, snapFile.index) = A \o B
        BY <3>1, KeptConcat DEF Above
      <3>4. DiskLast = snapFile.index + Len(A) /\ DiskLast' = snapFile.index + Len(A \o B)
        BY <1>6, <3>3, Written DEF DiskLast, LoadedEntries
      <3> HIDE DEF A, B
      <3>5. Len(A \o B) = Len(A) + Len(B) /\ Len(A) \in Nat /\ Len(B) \in Nat
        BY <3>2
      <3>6. snapFile.index \in Nat
        BY <1>9
      <3> QED BY <3>4, <3>5, <3>6
    <2>4. leaders # "overwrite" => DiskLast >= promised.last /\ LastIndex >= promised.last
      BY <1>2 DEF IInv, Promises
    <2>5. leaders # "overwrite" => DiskLast' >= promised.last
      BY <1>9, <2>3, <2>4
    <2> QED BY <1>6, <1>10, <2>1, <2>2, <2>4, <2>5 DEF Promises, AtLeast
  <1> QED BY <1>3, <1>4, <1>5, <1>7, <1>8, <1>12, <1>14, <1>15 DEF IInv

(* The MemoryStorage takes over what is on disk.                             *)
LEMMA UpdateMemoryInv ==
    ASSUME IInv, UpdateMemory
    PROVE  IInv'
  <1>1. /\ pc = "memory" /\ pc' = "deliver"
        /\ hard' = IF rd.hard = EmptyHard THEN hard ELSE rd.hard
        /\ UNCHANGED <<cluster, disk, rd, pending, promised, restarts>>
    BY DEF UpdateMemory
  <1>2. /\ Sane /\ Sane' /\ Up /\ Up' /\ pc \in Busy /\ pc' \in Later /\ pc' \notin Busy
        /\ ~Installing' /\ (Installing <=> rd.snap.index > 0) /\ pc' # "applyValue"
    BY <1>1 DEF Sane, Up, Busy, Later, Installing
  <1>3. /\ hard' = NewHard /\ NewHard' = NewHard /\ HardOnDisk' = NewHard /\ HardOnDisk = NewHard
        /\ EntsOnDisk' = ents' /\ EntsOnDisk = NewEnts
        /\ leaders' = leaders /\ chosen' = chosen /\ snapFile' = snapFile /\ rd' = rd
        /\ pending' = pending /\ promised' = promised
    BY <1>1, <1>2 DEF NewHard, HardOnDisk, EntsOnDisk, cluster, disk
  <1>4. /\ snapFile.index \in Nat /\ hard.commit \in Nat /\ offset \in Nat /\ rd.snap.index \in Nat
        /\ Len(rd.snap.data) \in Nat /\ Len(kv) \in Nat /\ Len(chosen) \in Nat /\ promised.last \in Nat
        /\ NewHard.commit \in Nat /\ NewHard.term \in Nat /\ Len(ents) \in Nat /\ LastIndex \in Nat
        /\ hard.term \in Nat /\ promised.term \in Nat /\ promised.commit \in Nat
    <2>1. NewHard.commit \in Nat /\ NewHard.term \in Nat
      BY Sizes DEF IInv, NewHard
    <2> QED BY <2>1, Sizes DEF IInv
  <1>5. LoadedHard = NewHard /\ snapFile.index <= NewHard.commit /\ NewHard.commit <= Len(chosen)
    BY <1>1, <1>2, <1>3 DEF IInv, DiskHard, Pending
  <1>6. AtLeast(NewHard, hard) /\ AtLeast(NewHard, promised) /\ hard.commit <= NewHard.commit
    <2>1. AtLeast(NewHard, hard) /\ AtLeast(hard, promised)
      BY <1>2 DEF IInv, Ready, Promises
    <2>2. /\ NewHard.term >= hard.term /\ NewHard.commit >= hard.commit
          /\ hard.term >= promised.term /\ hard.commit >= promised.commit
      BY <2>1, Zenon DEF AtLeast
    <2>3. NewHard.term >= promised.term /\ NewHard.commit >= promised.commit /\ hard.commit <= NewHard.commit
      <3> DEFINE nt == NewHard.term
                 nc == NewHard.commit
                 ht == hard.term
                 hc == hard.commit
                 pt == promised.term
                 pc0 == promised.commit
      <3>1. nt \in Nat /\ nc \in Nat /\ ht \in Nat /\ hc \in Nat /\ pt \in Nat /\ pc0 \in Nat
        BY <1>4
      <3>2. nt >= ht /\ nc >= hc /\ ht >= pt /\ hc >= pc0
        BY <2>2
      <3> HIDE DEF nt, nc, ht, hc, pt, pc0
      <3>3. nt >= pt /\ nc >= pc0 /\ hc <= nc
        BY <3>1, <3>2
      <3> QED BY <3>3 DEF nt, nc, ht, hc, pt, pc0
    <2> QED BY <2>1, <2>3 DEF AtLeast
  <1>7. leaders # "overwrite" => LastIndex >= promised.last
    BY <1>2 DEF IInv, Promises
  <1>8. Ready'
    BY <1>2 DEF Ready
  <1>9. NewHard \in HardState
    BY DEF IInv, Types, NewHard
  <1>10. /\ Above(ReplayedEntries, snapFile.index) = Above(NewEnts, snapFile.index)
         /\ NewEnts \in Seq(Entry) /\ Consecutive(NewEnts, offset)
    BY <1>2, <1>3, NewLog DEF IInv, DiskEntries
  <1>11. CASE rd.snap.index > 0
    <2>1. /\ offset' = rd.snap.index /\ ents' = <<>> /\ appliedIndex' = rd.snap.index
          /\ kv' = rd.snap.data /\ lastSnapshotIndex' = rd.snap.index /\ confState' = rd.snap.conf
      BY <1>11 DEF UpdateMemory, RestoreFrom
    <2>2. /\ leaders = "install" /\ rd.ents = <<>> /\ pending = <<>> /\ rd.snap.index > LastIndex
          /\ rd.hard.commit = rd.snap.index /\ snapFile.index = rd.snap.index
      BY <1>2, <1>11 DEF IInv, Ready
    <2>3. IsChosen(rd.snap.data) /\ Len(rd.snap.data) = rd.snap.index
      BY DEF IInv, Machine
    <2>4. NewHard.commit = rd.snap.index
      <3>1. rd.hard # EmptyHard
        BY <1>11, <2>2 DEF EmptyHard
      <3> QED BY <1>2, <2>2, <3>1 DEF NewHard
    <2>5. Types'
      <3>1. rd.snap.index \in 0..MaxIndex /\ rd.snap.data \in Seq(1..MaxTerm) /\ rd.snap.conf \in 0..Peers
        BY DEF IInv, Types, Snapshot
      <3>2. <<>> \in Seq(Entry)
        OBVIOUS
      <3> QED BY <1>1, <1>3, <1>9, <2>1, <3>1, <3>2 DEF IInv, Types, cluster, disk, Busy, Later
    <2>6. Machine'
      BY <1>1, <1>2, <1>3, <2>1, <2>3 DEF IInv, Machine, IsChosen
    <2>7. Memory'
      <3>1. Len(<<>>) = 0 /\ DOMAIN <<>> = {}
        OBVIOUS
      <3>2. Consecutive(ents, offset)'
        BY <2>1, <3>1 DEF Consecutive
      <3>3. ChosenUpTo(ents, offset, hard.commit)'
        BY <1>3, <1>4, <1>5, <2>1, <2>4, <3>1 DEF ChosenUpTo
      <3> QED BY <1>3, <1>4, <2>1, <2>2, <2>3, <2>4, <3>2, <3>3 DEF Memory
    <2>8. Pending'
      BY <1>1, <1>3, <1>4, <1>5, <2>1, <2>2, <2>3, <2>4 DEF Pending
    <2>9. Above(ents', snapFile.index) = Above(NewEnts, snapFile.index)
      <3>1. NewEnts = ents /\ ents \in Seq(Entry)
        BY <1>2, <2>2, NewLog DEF IInv, Types
      <3>2. \A e \in EntriesOf(ents) : e.index \notin snapFile.index + 1..MaxIndex
        <4>1. SUFFICES ASSUME NEW k \in 1..Len(ents)
                       PROVE  ents[k].index \notin snapFile.index + 1..MaxIndex
          BY <3>1 DEF EntriesOf
        <4>2. ents[k].index = offset + k
          BY <1>10, <3>1, <4>1 DEF Consecutive
        <4>3. offset + k <= LastIndex
          BY <1>4, <4>1 DEF LastIndex
        <4> QED BY <1>4, <2>2, <4>2, <4>3
      <3>3. Kept(ents, snapFile.index + 1..MaxIndex) = <<>>
        <4> DEFINE I == snapFile.index + 1..MaxIndex
        <4> HIDE DEF I
        <4>1. \A e \in EntriesOf(ents) : e.index \notin I
          BY <3>2 DEF I
        <4>2. Kept(ents, I) = <<>>
          BY <3>1, <4>1, KeptAll
        <4> QED BY <4>2 DEF I
      <3>4. Kept(<<>>, snapFile.index + 1..MaxIndex) = <<>>
        BY EmptyLogs
      <3> QED BY <2>1, <3>1, <3>3, <3>4 DEF Above
    <2>10. DiskHard' /\ DiskEntries'
      <3>1. pc' # "down" /\ UNCHANGED <<cluster, disk>>
        BY <1>1
      <3> QED BY <1>3, <1>5, <1>10, <2>9, <3>1, KeepDisk
    <2>11. Promises'
      <3>1. LastIndex' = rd.snap.index
        BY <1>4, <2>1 DEF LastIndex
      <3>2. LoadedHard' = NewHard /\ DiskLast' = DiskLast
        BY <1>1, <1>5, SameFiles
      <3>3. leaders # "overwrite" => DiskLast >= promised.last
        BY DEF IInv, Promises
      <3>4. leaders # "overwrite" => LastIndex' >= promised.last
        BY <1>4, <1>7, <2>2, <3>1
      <3> QED BY <1>3, <1>6, <3>2, <3>3, <3>4 DEF Promises, AtLeast
    <2> QED BY <1>8, <2>5, <2>6, <2>7, <2>8, <2>10, <2>11 DEF IInv
  <1>12. CASE rd.snap.index = 0
    <2>1. ents' = NewEnts /\ offset' = offset /\ UNCHANGED machine
      BY <1>2, <1>12 DEF UpdateMemory, NewEnts
    <2>2. kv' = kv /\ appliedIndex' = appliedIndex
      BY <2>1 DEF machine
    <2>3. Types'
      BY <1>1, <1>3, <1>9, <1>10, <2>1 DEF IInv, Types, cluster, disk, machine, Busy, Later
    <2>4. Machine'
      <3>1. pc # "applyValue"
        BY <1>1
      <3> QED BY <1>2, <1>3, <2>2, <3>1 DEF IInv, Machine, IsChosen
    <2>5. /\ ChosenUpTo(NewEnts, offset, NewHard.commit) /\ offset <= snapFile.index
          /\ Len(kv) <= hard.commit /\ snapFile.index <= Len(kv)
      BY <1>2, <1>12 DEF IInv, Ready, Memory
    <2>6. Memory'
      <3>1. Len(kv') <= hard'.commit
        BY <1>3, <1>4, <1>6, <2>2, <2>5
      <3>2. Consecutive(ents, offset)' /\ ChosenUpTo(ents, offset, hard.commit)'
        BY <1>3, <1>10, <2>1, <2>5 DEF ChosenUpTo
      <3> QED BY <1>3, <2>1, <2>2, <2>5, <3>1, <3>2 DEF Memory
    <2>7. Pending'
      BY <1>1, <1>2, <1>3, <2>2 DEF IInv, Pending
    <2>8. DiskHard' /\ DiskEntries'
      <3>1. pc' # "down" /\ UNCHANGED <<cluster, disk>>
        BY <1>1
      <3> QED BY <1>3, <1>5, <1>10, <2>1, <3>1, KeepDisk
    <2>9. Promises'
      <3>1. leaders # "overwrite" => LastIndex' >= promised.last
        <4>1. leaders # "overwrite" => Len(ents) <= Len(NewEnts)
          BY <1>2, NewLog
        <4>2. Len(NewEnts) \in Nat
          BY <1>10
        <4>3. LastIndex' = offset + Len(NewEnts) /\ LastIndex = offset + Len(ents)
          BY <2>1 DEF LastIndex
        <4> QED BY <1>4, <1>7, <4>1, <4>2, <4>3
      <3>2. LoadedHard' = NewHard /\ DiskLast' = DiskLast
        BY <1>1, <1>5, SameFiles
      <3>3. leaders # "overwrite" => DiskLast >= promised.last
        BY DEF IInv, Promises
      <3> QED BY <1>3, <1>6, <3>1, <3>2, <3>3 DEF Promises, AtLeast
    <2> QED BY <1>8, <2>3, <2>4, <2>6, <2>7, <2>8, <2>9 DEF IInv
  <1> QED BY <1>4, <1>11, <1>12

(* What Compact leaves is the end of the log.                                *)
LEMMA Compacted ==
    ASSUME NEW log \in Seq(Entry), NEW off \in Nat, Consecutive(log, off),
           NEW c \in off..off + Len(log), NEW h \in Nat, ChosenUpTo(log, off, h)
    PROVE  /\ Above(log, c) \in Seq(Entry) /\ Consecutive(Above(log, c), c)
           /\ c + Len(Above(log, c)) = off + Len(log)
           /\ ChosenUpTo(Above(log, c), c, h)
           /\ c = off => Above(log, c) = log
  <1> DEFINE A == Above(log, c)
             n == c - off
  <1>1. A = SubSeq(log, n + 1, Len(log)) /\ n \in 0..Len(log) /\ Len(log) \in Nat /\ c \in Nat
    BY ConsecutiveSlices
  <1>2. /\ A \in Seq(Entry) /\ Len(A) = Len(log) - n
        /\ \A k \in 1..Len(log) - n : A[k] = log[n + k]
    <2> DEFINE S == SubSeq(log, n + 1, Len(log))
    <2> HIDE DEF A, n
    <2>1. /\ S \in Seq(Entry) /\ Len(S) = Len(log) - n
          /\ \A k \in 1..Len(log) - n : S[k] = log[n + k]
      BY <1>1
    <2> QED BY <1>1, <2>1
  <1>3. c + Len(A) = off + Len(log) /\ off + n = c
    BY <1>1, <1>2
  <1>4. \A k \in 1..Len(A) : n + k \in 1..Len(log) /\ off + (n + k) = c + k /\ A[k] = log[n + k]
    BY <1>1, <1>2
  <1>5. c = off => A = log
    <2>1. c = off => n + 1 = 1
      OBVIOUS
    <2> QED BY <1>1, <2>1, SubSeqFull
  <1> HIDE DEF A, n
  <1>6. Consecutive(A, c)
    <2>1. \A k \in 1..Len(log) : log[k].index = off + k
      BY DEF Consecutive
    <2>2. \A k \in 1..Len(A) : A[k].index = c + k
      BY <1>4, <2>1
    <2> QED BY <1>2, <2>2 DEF Consecutive
  <1>7. ChosenUpTo(A, c, h)
    <2>1. /\ h <= off + Len(log) /\ h <= Len(chosen)
          /\ \A k \in 1..Len(log) : off + k <= h => log[k].term = chosen[off + k]
      BY DEF ChosenUpTo
    <2>2. ASSUME NEW k \in 1..Len(A), c + k <= h PROVE A[k].term = chosen[c + k]
      <3>1. n + k \in 1..Len(log) /\ off + (n + k) = c + k /\ A[k] = log[n + k]
        BY <1>4
      <3>2. log[n + k].term = chosen[off + (n + k)]
        BY <2>1, <2>2, <3>1
      <3> QED BY <3>1, <3>2
    <2> QED BY <1>3, <2>1, <2>2 DEF ChosenUpTo
  <1> QED BY <1>2, <1>3, <1>5, <1>6, <1>7 DEF A

(* maybeSnapshot: the applied part of the log moves to the snapshot file.    *)
LEMMA MaybeSnapshotInv ==
    ASSUME IInv, MaybeSnapshot
    PROVE  IInv'
  <1>1. /\ pc = "maybeSnapshot" /\ pc' = "advance"
        /\ UNCHANGED <<cluster, wal, rd, hard, appliedIndex, kv, confState, pending, promised, restarts>>
    BY DEF MaybeSnapshot
  <1>2. /\ Sane /\ Sane' /\ Up /\ Up' /\ pc \in Later /\ pc' \in Later /\ pc' \notin Busy /\ pc \notin Busy
        /\ ~Installing' /\ ~Installing /\ pc # "applyValue" /\ pc' # "applyValue"
        /\ pc' \notin {"apply", "applyValue"}
    BY <1>1 DEF Sane, Up, Busy, Later, Installing
  <1>3. /\ leaders' = leaders /\ chosen' = chosen /\ wal' = wal /\ rd' = rd /\ hard' = hard /\ kv' = kv
        /\ appliedIndex' = appliedIndex /\ pending' = pending /\ promised' = promised
    BY <1>1 DEF cluster
  <1>4. HardOnDisk' = hard /\ HardOnDisk = hard /\ EntsOnDisk' = ents' /\ EntsOnDisk = ents
    BY <1>1, <1>3 DEF HardOnDisk, EntsOnDisk
  <1>5. /\ snapFile.index \in Nat /\ hard.commit \in Nat /\ offset \in Nat /\ Len(ents) \in Nat
        /\ Len(kv) \in Nat /\ appliedIndex \in Nat /\ LastIndex \in Nat /\ promised.last \in Nat
        /\ lastSnapshotIndex \in Nat /\ SnapshotCatchUp \in Nat
    BY Sizes, Numbers DEF IInv
  <1>6. /\ Consecutive(ents, offset) /\ ChosenUpTo(ents, offset, hard.commit)
        /\ offset <= snapFile.index /\ Len(kv) <= hard.commit /\ snapFile.index <= Len(kv)
    BY <1>2 DEF IInv, Memory
  <1>7. appliedIndex = Len(kv) /\ LoadedHard = hard
    BY <1>2, <1>4 DEF IInv, Machine, DiskHard
  <1>8. hard.commit <= LastIndex /\ ents \in Seq(Entry) /\ WalEntries \in Seq(Entry)
    BY <1>6, WalEntriesType DEF IInv, ChosenUpTo, LastIndex, Types
  <1>9. /\ Covered(WalEntries, snapFile.index)
        /\ hard.commit > snapFile.index => \E e \in EntriesOf(WalEntries) : e.index >= hard.commit
        /\ Increasing(WalEntries) =>
             \A e \in EntriesOf(WalEntries) :
                e.index \in snapFile.index + 1..hard.commit => e.term = chosen[e.index]
        /\ ~Increasing(WalEntries) => leaders = "overwrite"
        /\ Above(Replay(WalEntries), snapFile.index) = Above(ents, snapFile.index)
    BY <1>2, <1>4, <1>7 DEF IInv, DiskEntries, ReplayedEntries
  <1>10. Ready'
    BY <1>2 DEF Ready
  <1>11. Pending'
    BY <1>2, <1>3 DEF IInv, Pending, NewHard
  <1>12. CASE ~SnapshotDue
    <2>1. UNCHANGED <<cluster, disk, store, promised>> /\ lastSnapshotIndex' = lastSnapshotIndex
          /\ snapFile' = snapFile /\ offset' = offset /\ ents' = ents
      BY <1>1, <1>12 DEF MaybeSnapshot, disk, store
    <2>2. Types' /\ Machine'
      BY <1>1, <1>2, <1>3, <2>1 DEF IInv, Types, Machine, IsChosen, Busy, Later
    <2>3. Memory'
      BY <1>2, <1>3, <1>6, <2>1 DEF Memory, ChosenUpTo
    <2>4. DiskHard' /\ DiskEntries' /\ Promises'
      <3>1. Above(ReplayedEntries, snapFile.index) = Above(EntsOnDisk', snapFile.index)
        BY <1>4, <1>9, <2>1 DEF ReplayedEntries
      <3>2. snapFile.index <= LoadedHard.commit /\ LoadedHard = HardOnDisk'
        BY <1>4, <1>5, <1>6, <1>7
      <3>3. pc' # "down" /\ UNCHANGED <<cluster, disk>>
        BY <1>1, <2>1
      <3> QED BY <1>2, <2>1, <3>1, <3>2, <3>3, KeepDisk, KeepPromises
    <2> QED BY <1>10, <1>11, <2>2, <2>3, <2>4 DEF IInv
  <1>13. CASE SnapshotDue
    <2> DEFINE a == appliedIndex
               c == IF CompactTo > offset THEN CompactTo ELSE offset
    <2>1. a >= 1 /\ a <= hard.commit /\ snapFile.index <= a /\ a \in Nat
      BY <1>5, <1>6, <1>7, <1>13 DEF SnapshotDue
    <2>2. CompactTo \in 1..a
      BY <1>5, <2>1 DEF CompactTo
    <2>3. c \in offset..offset + Len(ents) /\ c <= a /\ c \in Nat
      BY <1>5, <1>6, <1>8, <2>1, <2>2 DEF LastIndex
    <2>4. snapFile' = [index |-> a, data |-> kv, conf |-> confState] /\ lastSnapshotIndex' = a
      BY <1>13 DEF MaybeSnapshot
    <2>5. offset' = c /\ ents' = Above(ents, c)
      <3>1. CASE CompactTo > offset
        <4>1. ents' = Slice(offset, ents, CompactTo + 1, LastIndex) /\ offset' = CompactTo
          BY <1>13, <3>1 DEF MaybeSnapshot
        <4>2. (CompactTo + 1) - offset = CompactTo - offset + 1 /\ LastIndex - offset = Len(ents)
          BY <1>5, <2>2 DEF LastIndex
        <4>3. ents' = SubSeq(ents, CompactTo - offset + 1, Len(ents))
          <5>1. ents' = SubSeq(ents, (CompactTo + 1) - offset, LastIndex - offset)
            BY <4>1 DEF Slice
          <5> QED BY <4>2, <5>1, Zenon
        <4>4. CompactTo \in offset..offset + Len(ents)
          BY <2>3, <3>1
        <4>5. Above(ents, CompactTo) = SubSeq(ents, CompactTo - offset + 1, Len(ents))
          BY <1>5, <1>6, <1>8, <4>4, ConsecutiveSlices
        <4> QED BY <3>1, <4>1, <4>3, <4>5
      <3>2. CASE ~(CompactTo > offset)
        <4>1. ents' = ents /\ offset' = offset
          BY <1>13, <3>2 DEF MaybeSnapshot
        <4>2. offset \in offset..offset + Len(ents)
          BY <1>5
        <4>3. Above(ents, offset) = ents
          BY <1>5, <1>6, <1>8, <4>2, Compacted
        <4> QED BY <3>2, <4>1, <4>3
      <3> QED BY <3>1, <3>2
    <2> HIDE DEF c
    <2>6. /\ ents' \in Seq(Entry) /\ Consecutive(ents', c) /\ c + Len(ents') = LastIndex
          /\ ChosenUpTo(ents', c, hard.commit)
      <3> DEFINE A == Above(ents, c)
      <3>1. /\ A \in Seq(Entry) /\ Consecutive(A, c) /\ c + Len(A) = offset + Len(ents)
            /\ ChosenUpTo(A, c, hard.commit)
        BY <1>5, <1>6, <1>8, <2>3, Compacted
      <3> HIDE DEF A
      <3>2. ents' = A
        BY <2>5 DEF A
      <3> QED BY <3>1, <3>2 DEF LastIndex
    <2>7. Types'
      <3>1. /\ appliedIndex \in 0..MaxIndex /\ kv \in Seq(1..MaxTerm) /\ confState \in 0..Peers
        BY DEF IInv, Types
      <3>2. snapFile' \in Snapshot
        BY <2>4, <3>1 DEF Snapshot
      <3>3. offset' \in 0..MaxIndex
        BY <2>3, <2>5, <3>1, Numbers
      <3> QED BY <1>1, <1>3, <2>4, <2>6, <3>1, <3>2, <3>3 DEF IInv, Types, Busy, Later
    <2>8. Machine'
      BY <1>2, <1>3, <1>7, <2>4 DEF IInv, Machine, IsChosen
    <2>9. Memory'
      <3>1. ChosenUpTo(ents, offset, hard.commit)' /\ Consecutive(ents, offset)'
        BY <1>3, <2>5, <2>6 DEF ChosenUpTo
      <3>2. offset' <= snapFile'.index /\ snapFile'.index = Len(kv)
        BY <1>7, <2>3, <2>4, <2>5
      <3> QED BY <1>2, <1>3, <1>5, <1>6, <3>1, <3>2 DEF Memory
    <2>10. /\ LoadedHard' = LoadedHard /\ WalEntries' = WalEntries /\ ReplayedEntries' = ReplayedEntries
           /\ snapFile'.index = a
      BY <1>3, <2>4 DEF LoadedHard, WithHard, WalEntries, ReplayedEntries
    <2>11. DiskHard'
      <3>1. hard # EmptyHard
        BY <1>5, <2>1 DEF EmptyHard
      <3>2. LoadedHard.commit <= Len(chosen)
        BY DEF IInv, DiskHard
      <3> QED BY <1>1, <1>2, <1>3, <1>4, <1>7, <2>1, <2>10, <3>1, <3>2 DEF DiskHard
    <2>12. Above(Replay(WalEntries), a) = Above(ents', a)
      <3>1. Replay(WalEntries) \in Seq(Entry)
        BY <1>8, ReplayEntries
      <3>2. Above(Replay(WalEntries), a) = Above(ents, a)
        BY <1>5, <1>8, <1>9, <2>1, <3>1, ReplayCut
      <3>3. Above(Above(ents, c), a) = Above(ents, a)
        BY <1>8, <2>1, <2>3, AboveAbove
      <3> QED BY <2>5, <3>2, <3>3
    <2>13. DiskEntries'
      <3>1. Covered(WalEntries, a)
        <4>1. EntriesOf(WalEntries) \subseteq Entry
          BY <1>8 DEF EntriesOf
        <4>2. \A k \in DOMAIN WalEntries : a + 1..WalEntries[k].index
                                             \subseteq snapFile.index + 1..WalEntries[k].index
          <5>1. ASSUME NEW k \in DOMAIN WalEntries PROVE WalEntries[k].index \in Nat
            <6>1. WalEntries[k] \in Entry
              BY <1>8
            <6> QED BY <6>1 DEF Entry
          <5> QED BY <1>5, <2>1, <5>1
        <4> QED BY <1>9, <4>2 DEF Covered
      <3>2. hard.commit > a => \E e \in EntriesOf(WalEntries) : e.index >= hard.commit
        BY <1>5, <1>9, <2>1
      <3>3. a + 1..hard.commit \subseteq snapFile.index + 1..hard.commit
        BY <1>5, <2>1
      <3> QED BY <1>3, <1>4, <1>7, <1>9, <2>10, <2>12, <3>1, <3>2, <3>3 DEF DiskEntries, ReplayedEntries
    <2>14. Promises'
      <3>1. LastIndex' = LastIndex
        BY <2>5, <2>6 DEF LastIndex
      <3>2. leaders # "overwrite" => DiskLast' = LastIndex
        <4>1. SUFFICES ASSUME leaders # "overwrite" PROVE DiskLast' = LastIndex
          OBVIOUS
        <4>2. Increasing(WalEntries)
          BY <1>9, <4>1
        <4>3. a <= c + Len(ents')
          BY <1>5, <1>8, <2>1, <2>6
        <4>4. a + Len(Above(WalEntries, a)) = c + Len(ents')
          BY <1>8, <2>1, <2>3, <2>6, <2>12, <4>2, <4>3, DiskLength
        <4> QED BY <2>6, <2>10, <4>4 DEF DiskLast, LoadedEntries
      <3>3. AtLeast(LoadedHard, promised) /\ AtLeast(hard, promised)
            /\ (leaders # "overwrite" => LastIndex >= promised.last)
        BY <1>2 DEF IInv, Promises
      <3> QED BY <1>2, <1>3, <2>10, <3>1, <3>2, <3>3 DEF Promises, AtLeast
    <2> QED BY <1>10, <1>11, <2>7, <2>8, <2>9, <2>11, <2>13, <2>14 DEF IInv
  <1> QED BY <1>12, <1>13

(* A WAL that load does not misread was written in order.                    *)
LEMMA ReadInOrder ==
    ASSUME IInv, pc = "down", ~Misread
    PROVE  Increasing(WalEntries)
  <1>1. CASE restarts = 0
    <2>1. wal = <<>>
      BY <1>1 DEF IInv, DiskHard
    <2>2. WalEntries = <<>>
      BY <2>1, EmptyLogs DEF WalEntries
    <2> QED BY <2>2 DEF Increasing
  <1>2. CASE restarts # 0
    <2>1. restarts > 0
      BY <1>2, Sizes DEF IInv
    <2>2. ~Overwritten
      BY <2>1 DEF Misread
    <2>3. WalEntries \in Seq(Entry)
      BY WalEntriesType DEF IInv
    <2>4. \A k \in DOMAIN WalEntries : WalEntries[k].index \in Nat
      <3>1. SUFFICES ASSUME NEW k \in DOMAIN WalEntries PROVE WalEntries[k].index \in Nat
        OBVIOUS
      <3>2. WalEntries[k] \in Entry
        BY <2>3
      <3> QED BY <3>2 DEF Entry
    <2> QED BY <2>2, <2>4 DEF Overwritten, Increasing
  <1> QED BY <1>1, <1>2

(* newRaftNode: what load returns is the log, or raft panics on it.          *)
LEMMA BootInv ==
    ASSUME IInv, Boot
    PROVE  IInv'
  <1>1. /\ pc = "down"
        /\ UNCHANGED <<cluster, disk, rd, pending, promised, restarts>>
    BY DEF Boot
  <1>2. /\ leaders' = leaders /\ chosen' = chosen /\ snapFile' = snapFile /\ wal' = wal
        /\ rd' = rd /\ pending' = pending /\ promised' = promised /\ restarts' = restarts
    BY <1>1 DEF cluster, disk
  <1>3. CASE BootPanics
    <2>1. pc' = "panicked" /\ UNCHANGED <<store, machine>>
      BY <1>3 DEF Boot
    <2>2. ~Up' /\ ~Sane' /\ pc' \notin Busy /\ pc' \notin Later
      BY <2>1 DEF Up, Sane, Busy, Later
    <2>3. Types' /\ Machine'
      BY <1>2, <2>1, <2>2 DEF IInv, Types, Machine, IsChosen, store, machine
    <2>4. Memory' /\ Ready' /\ Pending'
      BY <2>2 DEF Memory, Ready, Pending
    <2>5. DiskHard' /\ DiskEntries' /\ Promises'
      <3>1. pc' # "down" /\ UNCHANGED <<cluster, disk>> /\ UNCHANGED <<cluster, disk, store, promised>>
        BY <1>1, <2>1
      <3> QED BY <2>2, <3>1, KeepDisk, KeepPromises
    <2> QED BY <2>3, <2>4, <2>5 DEF IInv
  <1>4. CASE ~BootPanics
    <2> DEFINE b == snapFile.index
    <2>1. /\ pc' = "idle" /\ hard' = LoadedHard /\ offset' = b /\ ents' = LoadedEntries
          /\ appliedIndex' = b /\ kv' = snapFile.data /\ lastSnapshotIndex' = b
          /\ confState' = BootConfState
      BY <1>4 DEF Boot, RestoreFrom
    <2>2. Up' /\ pc' \notin Busy /\ pc' \notin Later /\ ~Installing' /\ pc' # "applyValue" /\ pc' # "down"
          /\ pc' # "memory"
      BY <2>1 DEF Up, Busy, Later, Installing
    <2>3. /\ LoadedHard \in HardState /\ LoadedHard.term \in Nat /\ LoadedHard.commit \in Nat
          /\ WalEntries \in Seq(Entry) /\ LoadedEntries \in Seq(Entry) /\ Len(LoadedEntries) \in Nat
          /\ b \in Nat /\ Len(snapFile.data) = b
      BY LoadedHardType, WalEntriesType, Sizes DEF IInv, Machine
    <2>4. b <= LoadedHard.commit /\ LoadedHard.commit <= b + Len(LoadedEntries)
          /\ LoadedHard.commit <= Len(chosen)
      <3>1. CASE LoadedHard = EmptyHard
        <4>1. b = 0 /\ LoadedHard.commit = 0 /\ LoadedHard.commit <= Len(chosen)
          BY <3>1 DEF IInv, DiskHard, EmptyHard
        <4> QED BY <2>3, <4>1
      <3>2. CASE LoadedHard # EmptyHard
        <4>1. ~(LoadedHard.commit < b) /\ ~(LoadedHard.commit > b + Len(LoadedEntries))
          BY <1>4, <3>2 DEF BootPanics
        <4>2. LoadedHard.commit <= Len(chosen)
          BY DEF IInv, DiskHard
        <4> QED BY <2>3, <4>1, <4>2
      <3> QED BY <3>1, <3>2
    <2>5. Types'
      <3>1. b \in 0..MaxIndex /\ snapFile.data \in Seq(1..MaxTerm) /\ snapFile.conf \in 0..Peers
        BY DEF IInv, Types, Snapshot
      <3>2. BootConfState \in 0..Peers
        BY <3>1, Numbers DEF BootConfState
      <3> QED BY <1>2, <2>1, <2>3, <3>1, <3>2 DEF IInv, Types
    <2>6. Machine'
      BY <1>2, <2>1, <2>2, <2>3 DEF IInv, Machine, IsChosen
    <2>7. Ready' /\ Pending'
      BY <2>2 DEF Ready, Pending
    <2>8. Sane' => Increasing(WalEntries)
      <3>1. Misread' = Misread
        BY <1>1, <1>2, SameFiles DEF Misread
      <3> QED BY <1>1, <2>2, <3>1, ReadInOrder DEF Sane
    <2>9. Memory'
      <3>1. SUFFICES ASSUME Sane' PROVE Memory'
        BY DEF Memory
      <3>2. Covered(WalEntries, b)
        BY DEF IInv, DiskEntries
      <3>3. Consecutive(LoadedEntries, b)
        BY <2>3, <2>8, <3>1, <3>2, CoveredLog DEF LoadedEntries
      <3>4. \A k \in 1..Len(LoadedEntries) : b + k <= LoadedHard.commit =>
                LoadedEntries[k].term = chosen[b + k]
        <4>1. SUFFICES ASSUME NEW k \in 1..Len(LoadedEntries), b + k <= LoadedHard.commit
                       PROVE  LoadedEntries[k].term = chosen[b + k]
          OBVIOUS
        <4>2. LoadedEntries[k].index = b + k /\ LoadedEntries[k] \in EntriesOf(LoadedEntries)
          BY <2>3, <3>3 DEF Consecutive, EntriesOf
        <4>3. EntriesOf(LoadedEntries) \subseteq EntriesOf(WalEntries)
          <5>1. EntriesOf(Kept(WalEntries, b + 1..MaxIndex)) \subseteq EntriesOf(WalEntries)
            BY <2>3, KeptEntries
          <5> QED BY <5>1 DEF LoadedEntries, Above
        <4>4. b + k \in b + 1..LoadedHard.commit
          BY <2>3, <4>1
        <4>5. \A e \in EntriesOf(WalEntries) :
                 e.index \in b + 1..LoadedHard.commit => e.term = chosen[e.index]
          BY <2>8, <3>1 DEF IInv, DiskEntries
        <4> QED BY <4>2, <4>3, <4>4, <4>5
      <3>5. ChosenUpTo(ents, offset, hard.commit)'
        BY <1>2, <2>1, <2>4, <3>4 DEF ChosenUpTo
      <3>6. Consecutive(ents, offset)'
        BY <2>1, <3>3
      <3> QED BY <1>2, <2>1, <2>3, <2>4, <3>5, <3>6 DEF Memory
    <2>10. DiskHard' /\ DiskEntries'
      <3>1. HardOnDisk' = LoadedHard /\ EntsOnDisk' = LoadedEntries
        BY <2>1, <2>2 DEF HardOnDisk, EntsOnDisk
      <3>2. ASSUME Sane' PROVE Above(ReplayedEntries, b) = Above(LoadedEntries, b)
        <4>1. ReplayedEntries = WalEntries
          BY <2>3, <2>8, <3>2, ReplayOfIncreasing DEF ReplayedEntries
        <4>2. b <= b
          BY <2>3
        <4>3. Above(Above(WalEntries, b), b) = Above(WalEntries, b)
          BY <2>3, <4>2, AboveAbove
        <4> QED BY <4>1, <4>3 DEF LoadedEntries
      <3>3. UNCHANGED <<cluster, disk>>
        BY <1>1
      <3> QED BY <2>2, <2>4, <3>1, <3>2, <3>3, KeepDisk
    <2>11. Promises'
      <3>1. LastIndex' = DiskLast
        BY <2>1 DEF LastIndex, DiskLast
      <3>2. LoadedHard' = LoadedHard /\ DiskLast' = DiskLast
        BY <1>1, SameFiles
      <3> QED BY <1>2, <2>1, <3>1, <3>2 DEF IInv, Promises, AtLeast
    <2> QED BY <2>5, <2>6, <2>7, <2>9, <2>10, <2>11 DEF IInv
  <1> QED BY <1>3, <1>4

(* What raft hands over leaves everything but the Ready as it was; what is     *)
(* left to show is that the Ready is one.                                    *)
LEMMA TakenReady ==
    ASSUME IInv, TakeReady, Sane, rd' \in [snap : Snapshot, hard : HardState, ents : Seq(Entry)],
           pending' \in Seq(Entry), IsChosen(rd'.snap.data), Len(rd'.snap.data) = rd'.snap.index,
           Ready', Pending'
    PROVE  IInv'
  <1>1. /\ pc = "idle" /\ pc' = "saveSnapshot"
        /\ UNCHANGED <<cluster, disk, store, machine, promised, restarts>>
    BY DEF TakeReady
  <1>2. /\ Sane' /\ Up /\ Up' /\ pc' # "memory" /\ pc # "memory" /\ pc' # "down" /\ pc' # "applyValue"
        /\ pc # "applyValue" /\ ~Installing /\ ~Installing'
    BY <1>1 DEF Sane, Up, Busy, Installing
  <1>3. Types'
    BY <1>1 DEF IInv, Types, cluster, disk, store, machine, Busy
  <1>4. Machine'
    BY <1>1, <1>2 DEF IInv, Machine, IsChosen, cluster, disk, machine
  <1>5. Memory'
    BY <1>1, <1>2 DEF IInv, Memory, ChosenUpTo, cluster, disk, store, machine
  <1>6. hard' = hard /\ ents' = ents /\ offset' = offset
    BY <1>1 DEF store
  <1>7. LoadedHard = HardOnDisk' /\ snapFile.index <= LoadedHard.commit
    BY <1>1, <1>2, <1>6 DEF IInv, DiskHard, HardOnDisk
  <1>8. Above(ReplayedEntries, snapFile.index) = Above(EntsOnDisk', snapFile.index)
    BY <1>1, <1>2, <1>6 DEF IInv, DiskEntries, EntsOnDisk
  <1>9. UNCHANGED <<cluster, disk>> /\ UNCHANGED <<cluster, disk, store, promised>>
    BY <1>1
  <1>10. DiskHard' /\ DiskEntries' /\ Promises'
    BY <1>2, <1>7, <1>8, <1>9, KeepDisk, KeepPromises
  <1> QED BY <1>3, <1>4, <1>5, <1>10 DEF IInv

(* What a node that is idle and sane knows.                                  *)
LEMMA Idle ==
    ASSUME IInv, pc = "idle", Sane
    PROVE  /\ Consecutive(ents, offset) /\ ChosenUpTo(ents, offset, hard.commit)
           /\ offset <= Len(kv) /\ Len(kv) <= hard.commit /\ hard.commit <= LastIndex
           /\ appliedIndex = Len(kv) /\ offset <= hard.commit
           /\ hard = EmptyHard => wal = <<>>
           /\ \A k \in 1..Peers : chosen[k] = 1
           /\ Peers <= Len(chosen) /\ Len(chosen) <= MaxIndex /\ Len(chosen) \in Nat
           /\ offset \in Nat /\ Len(ents) \in Nat /\ Len(kv) \in Nat /\ hard.commit \in 0..MaxIndex
           /\ hard.term \in 0..MaxTerm
           /\ ents \in Seq(Entry) /\ chosen \in Seq(1..MaxTerm)
  <1>1. /\ Consecutive(ents, offset) /\ ChosenUpTo(ents, offset, hard.commit)
        /\ offset <= snapFile.index /\ snapFile.index <= Len(kv) /\ Len(kv) <= hard.commit
    BY DEF IInv, Memory, Installing
  <1>2. hard = EmptyHard => wal = <<>>
    BY DEF IInv, DiskHard, Up, HardOnDisk
  <1>3. appliedIndex = Len(kv)
    BY DEF IInv, Machine, Up
  <1>4. hard.commit <= LastIndex
    BY <1>1 DEF ChosenUpTo, LastIndex
  <1>5. /\ offset \in Nat /\ Len(ents) \in Nat /\ Len(kv) \in Nat /\ hard.commit \in 0..MaxIndex
        /\ hard.term \in 0..MaxTerm /\ snapFile.index \in Nat /\ Len(chosen) \in Nat
    BY Sizes DEF IInv, Types, HardState
  <1>6. offset <= Len(kv) /\ offset <= hard.commit
    BY <1>1, <1>5
  <1> QED BY <1>1, <1>2, <1>3, <1>4, <1>5, <1>6 DEF IInv, Types

(* The first Ready of StartNode.                                             *)
LEMMA BootstrapInv ==
    ASSUME IInv, TakeReady, Sane, BootstrapReady
    PROVE  IInv'
  <1> DEFINE es == [i \in 1..Peers |-> [index |-> i, term |-> 1]]
             h == [term |-> 1, commit |-> Peers]
  <1>1. /\ pc = "idle" /\ pc' = "saveSnapshot"
        /\ UNCHANGED <<cluster, disk, store, machine, promised, restarts>>
    BY DEF TakeReady
  <1>2. /\ hard = EmptyHard /\ LastIndex = 0
        /\ rd' = [snap |-> NoSnapshot, hard |-> h, ents |-> es]
        /\ pending' = es
    BY DEF BootstrapReady
  <1>3. /\ es \in Seq(Entry) /\ Len(es) = Peers /\ Consecutive(es, 0)
        /\ \A k \in 1..Peers : es[k].index = k /\ es[k].term = 1
    <2>1. \A i \in 1..Peers : [index |-> i, term |-> 1] \in Entry
      BY Numbers DEF Entry
    <2>2. es \in [1..Peers -> Entry]
      BY <2>1
    <2>3. es \in Seq(Entry) /\ Len(es) = Peers
      BY <2>2, Numbers
    <2> QED BY <2>3, Numbers DEF Consecutive
  <1>4. h \in HardState /\ h # EmptyHard /\ h.commit = Peers /\ h.term = 1
    BY Numbers DEF HardState, EmptyHard
  <1> HIDE DEF es, h
  <1>5. NoSnapshot \in Snapshot /\ NoSnapshot.index = 0 /\ NoSnapshot.data = <<>> /\ Len(<<>>) = 0
    BY Numbers DEF NoSnapshot, Snapshot
  <1>6. offset = 0 /\ Len(ents) = 0 /\ ents = <<>> /\ hard.commit = 0 /\ hard.term = 0 /\ Len(kv) = 0
    <2>1. offset = 0 /\ Len(ents) = 0
      BY <1>1, <1>2, Idle DEF LastIndex
    <2>2. ents = <<>>
      BY <1>1, <2>1, Idle
    <2>3. hard.commit = 0 /\ hard.term = 0
      BY <1>2 DEF EmptyHard
    <2>4. Len(kv) = 0
      BY <1>1, <2>3, Idle
    <2> QED BY <2>1, <2>2, <2>3, <2>4
  <1>7. /\ offset' = offset /\ ents' = ents /\ hard' = hard /\ chosen' = chosen /\ kv' = kv /\ wal' = wal
        /\ leaders' = leaders
    BY <1>1 DEF store, cluster, machine, disk
  <1>8. pc' \in Busy /\ ~Installing' /\ pc' # "memory" /\ pc' \notin {"apply", "applyValue"}
    BY <1>1 DEF Busy, Installing
  <1>9. NewHard' = h /\ NewEnts' = es
    <2>1. MemAppend(0, <<>>, es) = es
      BY <1>3, MemAppendFirst
    <2> QED BY <1>2, <1>4, <1>6, <1>7, <1>8, <2>1 DEF NewHard, NewEnts
  <1>10. Peers <= Len(chosen) /\ \A k \in 1..Peers : chosen[k] = 1
    BY <1>1, Idle
  <1>11. Ready'
    <2>1. FreshEntries'
      <3>1. wal = <<>>
        BY <1>1, <1>2, Idle
      <3> QED BY <1>2, <1>3, <1>6, <1>7, <3>1 DEF FreshEntries
    <2>2. AtLeast(h, hard)
      BY <1>4, <1>6, Numbers DEF AtLeast
    <2>3. ChosenUpTo(es, 0, Peers)'
      BY <1>3, <1>7, <1>10, Numbers DEF ChosenUpTo
    <2>4. ChosenUpTo(NewEnts, offset, NewHard.commit)'
      BY <1>4, <1>6, <1>7, <1>9, <2>3 DEF ChosenUpTo
    <2>5. NewHard' # EmptyHard /\ AtLeast(NewHard, hard)' /\ rd'.snap.index = 0
      BY <1>2, <1>4, <1>5, <1>7, <1>9, <2>2 DEF AtLeast
    <2> QED BY <1>8, <2>1, <2>4, <2>5 DEF Ready
  <1>12. Pending'
    <2>1. \A k \in 1..Len(pending') : pending'[k].index = Len(kv') + k
                                      /\ pending'[k].term = chosen'[Len(kv') + k]
      BY <1>2, <1>3, <1>6, <1>7, <1>10, Numbers
    <2>2. Len(kv') + Len(pending') <= NewHard'.commit /\ NewHard'.commit <= Len(chosen')
      BY <1>2, <1>3, <1>4, <1>6, <1>7, <1>9, <1>10, Numbers
    <2> QED BY <1>8, <2>1, <2>2 DEF Pending
  <1>13. rd' \in [snap : Snapshot, hard : HardState, ents : Seq(Entry)] /\ pending' \in Seq(Entry)
    BY <1>2, <1>3, <1>4, <1>5
  <1>14. IsChosen(rd'.snap.data) /\ Len(rd'.snap.data) = rd'.snap.index
    <2>1. Len(chosen) \in Nat
      BY <1>1, Idle
    <2> QED BY <1>2, <1>5, <2>1 DEF IsChosen
  <1> QED BY <1>11, <1>12, <1>13, <1>14, TakenReady

(* A snapshot sent by a leader.                                              *)
LEMMA InstallInv ==
    ASSUME IInv, TakeReady, Sane, InstallReady
    PROVE  IInv'
  <1>1. /\ pc = "idle" /\ pc' = "saveSnapshot"
        /\ UNCHANGED <<cluster, disk, store, machine, promised, restarts>>
    BY DEF TakeReady
  <1>2. PICK s \in (hard.commit + 1)..Len(chosen), t \in hard.term..MaxTerm :
          /\ s > LastIndex
          /\ rd' = [snap |-> [index |-> s, data |-> SubSeq(chosen, 1, s), conf |-> Peers],
                    hard |-> [term |-> t, commit |-> s],
                    ents |-> <<>>]
          /\ pending' = <<>>
    BY DEF InstallReady
  <1>3. leaders = "install" /\ hard # EmptyHard
    BY DEF InstallReady
  <1> DEFINE h == [term |-> t, commit |-> s]
             d == SubSeq(chosen, 1, s)
             f == [index |-> s, data |-> d, conf |-> Peers]
  <1>4. s \in 1..MaxIndex /\ s > hard.commit /\ s <= Len(chosen) /\ t \in 0..MaxTerm /\ t >= hard.term
    <2>1. hard.commit \in 0..MaxIndex /\ hard.term \in 0..MaxTerm /\ Len(chosen) <= MaxIndex
          /\ Len(chosen) \in Nat
      BY <1>1, Idle
    <2> QED BY <2>1, Numbers
  <1>5. d \in Seq(1..MaxTerm) /\ Len(d) = s /\ \A k \in 1..s : d[k] = chosen[k]
    <2> DEFINE T == 1..MaxTerm
    <2>1. chosen \in Seq(T) /\ Len(chosen) \in Nat
      BY <1>1, Idle
    <2>2. s \in 1..Len(chosen)
      BY <1>4, <2>1
    <2> HIDE DEF IInv, T
    <2>3. d \in Seq(T) /\ Len(d) = s /\ \A k \in 1..s : d[k] = chosen[k]
      BY <2>1, <2>2
    <2> QED BY <2>3 DEF T
  <1>6. h \in HardState /\ h # EmptyHard /\ h.commit = s /\ h.term = t
    BY <1>4 DEF HardState, EmptyHard
  <1> HIDE DEF d
  <1>7. f \in Snapshot /\ f.index = s /\ f.data = d
    BY <1>4, <1>5, Numbers DEF Snapshot
  <1>8. rd' = [snap |-> f, hard |-> h, ents |-> <<>>]
    BY <1>2 DEF d
  <1> HIDE DEF h, f
  <1>9. /\ offset' = offset /\ ents' = ents /\ hard' = hard /\ chosen' = chosen /\ kv' = kv
        /\ leaders' = leaders
    BY <1>1 DEF store, cluster, machine
  <1>10. pc' \in Busy /\ ~Installing' /\ pc' \notin {"apply", "applyValue"}
    BY <1>1 DEF Busy, Installing
  <1>11. NewHard' = h
    BY <1>6, <1>8, <1>10 DEF NewHard
  <1>12. Ready'
    <2>1. FreshEntries' /\ rd'.ents = <<>>
      BY <1>8 DEF FreshEntries
    <2>2. AtLeast(h, hard)
      BY <1>1, <1>4, <1>6, Idle DEF AtLeast
    <2>3. NewHard' # EmptyHard /\ AtLeast(NewHard, hard)'
      BY <1>6, <1>9, <1>11, <2>2 DEF AtLeast
    <2>4. rd'.snap.index = s /\ rd'.hard.commit = s /\ s > 0 /\ s # 0
      BY <1>4, <1>6, <1>7, <1>8
    <2>5. LastIndex' = LastIndex
      BY <1>9 DEF LastIndex
    <2> QED BY <1>2, <1>3, <1>9, <1>10, <2>1, <2>3, <2>4, <2>5 DEF Ready
  <1>13. Pending'
    <2>1. pending' = <<>> /\ Len(<<>>) = 0
      BY <1>2
    <2>2. Len(kv) + 0 <= s /\ s <= Len(chosen)
      BY <1>1, <1>4, Idle
    <2> QED BY <1>6, <1>9, <1>10, <1>11, <2>1, <2>2 DEF Pending
  <1>14. rd' \in [snap : Snapshot, hard : HardState, ents : Seq(Entry)] /\ pending' \in Seq(Entry)
    <2>1. <<>> \in Seq(Entry)
      OBVIOUS
    <2>2. rd' \in [snap : Snapshot, hard : HardState, ents : Seq(Entry)]
      BY <1>6, <1>7, <1>8, <2>1
    <2> QED BY <1>2, <2>1, <2>2
  <1>15. IsChosen(rd'.snap.data) /\ Len(rd'.snap.data) = rd'.snap.index
    BY <1>4, <1>5, <1>7, <1>8 DEF IsChosen
  <1> QED BY <1>12, <1>13, <1>14, <1>15, TakenReady

(* The commit indexes a Ready may bring are of chosen entries.               *)
LEMMA Committable ==
    ASSUME NEW log \in Seq(Entry), NEW off \in Nat, NEW es \in Seq(Entry), NEW h \in Nat, NEW c \in Nat,
           ChosenUpTo(log, off, h), off <= h,
           \A k \in 1..Len(log) : off + k <= h => k <= Len(es) /\ es[k] = log[k],
           c <= off + Len(es), c <= Len(chosen),
           \A i \in h + 1..c : es[i - off].term = chosen[i]
    PROVE  ChosenUpTo(es, off, c)
  <1>1. ASSUME NEW k \in 1..Len(es), off + k <= c
        PROVE  es[k].term = chosen[off + k]
    <2>1. CASE off + k <= h
      <3>1. h <= off + Len(log) /\ \A j \in 1..Len(log) : off + j <= h => log[j].term = chosen[off + j]
        BY DEF ChosenUpTo
      <3>2. k \in 1..Len(log)
        BY <1>1, <2>1, <3>1
      <3> QED BY <2>1, <3>1, <3>2
    <2>2. CASE ~(off + k <= h)
      <3>1. off + k \in h + 1..c /\ (off + k) - off = k
        BY <1>1, <2>2
      <3>2. es[(off + k) - off].term = chosen[off + k]
        BY <3>1
      <3> QED BY <3>1, <3>2
    <2> QED BY <2>1, <2>2
  <1> QED BY <1>1 DEF ChosenUpTo

(* New entries or a new commit index.                                        *)
LEMMA AppendInv ==
    ASSUME IInv, TakeReady, Sane, AppendReady
    PROVE  IInv'
  <1>1. /\ pc = "idle" /\ pc' = "saveSnapshot"
        /\ UNCHANGED <<cluster, disk, store, machine, promised, restarts>>
    BY DEF TakeReady
  <1>2. hard # EmptyHard
    BY DEF AppendReady
  <1>3. PICK t \in hard.term..MaxTerm : \E new \in Appendable(t) :
           LET es == MemAppend(offset, ents, new)
           IN \E c \in Commits(es) :
                /\ rd' = [snap |-> NoSnapshot,
                          hard |-> Changed([term |-> t, commit |-> c]),
                          ents |-> new]
                /\ pending' = Slice(offset, es, appliedIndex + 1, c)
    BY DEF AppendReady
  <1>4. PICK new \in Appendable(t) :
           \E c \in Commits(MemAppend(offset, ents, new)) :
                /\ rd' = [snap |-> NoSnapshot,
                          hard |-> Changed([term |-> t, commit |-> c]),
                          ents |-> new]
                /\ pending' = Slice(offset, MemAppend(offset, ents, new), appliedIndex + 1, c)
    BY <1>3
  <1> DEFINE es == MemAppend(offset, ents, new)
  <1>5. PICK c \in Commits(es) :
                /\ rd' = [snap |-> NoSnapshot,
                          hard |-> Changed([term |-> t, commit |-> c]),
                          ents |-> new]
                /\ pending' = Slice(offset, es, appliedIndex + 1, c)
    BY <1>4
  <1> DEFINE h == [term |-> t, commit |-> c]
  <1>6. /\ Consecutive(ents, offset) /\ ChosenUpTo(ents, offset, hard.commit)
        /\ offset <= Len(kv) /\ Len(kv) <= hard.commit /\ hard.commit <= offset + Len(ents)
        /\ appliedIndex = Len(kv) /\ offset <= hard.commit
        /\ Len(chosen) <= MaxIndex /\ Len(chosen) \in Nat
        /\ offset \in Nat /\ Len(ents) \in Nat /\ Len(kv) \in Nat /\ hard.commit \in 0..MaxIndex
        /\ hard.term \in 0..MaxTerm /\ ents \in Seq(Entry)
    BY <1>1, Idle DEF LastIndex
  <1>7. new \in Seq(Entry)
        /\ \/ new = <<>>
           \/ /\ Len(new) = 1 /\ new[1].index \in hard.commit + 1..offset + Len(ents) + 1
              /\ new[1].index <= LastIndex => leaders = "overwrite"
    <2>1. CASE new = <<>>
      BY <2>1
    <2>2. CASE new # <<>>
      <3>1. PICK e \in Entry : /\ new = <<e>> /\ e.index \in (hard.commit + 1)..(LastIndex + 1)
                               /\ MayAppend(t, e.index, e.term)
        BY <2>2 DEF Appendable
      <3>2. <<e>> \in Seq(Entry) /\ Len(<<e>>) = 1 /\ <<e>>[1] = e
        OBVIOUS
      <3>3. e.index <= LastIndex => leaders = "overwrite"
        BY <3>1 DEF MayAppend
      <3> QED BY <3>1, <3>2, <3>3 DEF LastIndex
    <2> QED BY <2>1, <2>2
  <1>8. /\ es \in Seq(Entry) /\ Consecutive(es, offset)
        /\ \A k \in 1..Len(ents) : offset + k <= hard.commit => k <= Len(es) /\ es[k] = ents[k]
    <2>1. hard.commit \in Nat
      BY <1>6, Numbers
    <2>2. /\ new \in Seq(Entry)
          /\ \/ new = <<>>
             \/ Len(new) = 1 /\ new[1].index \in hard.commit + 1..offset + Len(ents) + 1
      BY <1>7
    <2>3. /\ Consecutive(ents, offset) /\ hard.commit <= offset + Len(ents)
          /\ offset <= hard.commit /\ offset \in Nat /\ ents \in Seq(Entry)
      BY <1>6
    <2>4. Continues(new, ents, offset, hard.commit)
      BY <2>2, <2>3 DEF Continues
    <2> QED BY <2>1, <2>2, <2>3, <2>4, Appended
  <1>9. /\ c \in hard.commit..(offset + Len(es)) /\ c <= Len(chosen)
        /\ \A i \in hard.commit + 1..c : es[i - offset].term = chosen[i]
    BY <1>5 DEF Commits
  <1> HIDE DEF es
  <1>10. /\ Len(es) \in Nat /\ c \in 0..MaxIndex /\ c \in Nat /\ hard.commit \in Nat /\ hard.commit <= c
         /\ t \in 0..MaxTerm /\ t >= hard.term /\ c <= offset + Len(es)
    <2>1. Len(es) \in Nat
      BY <1>8
    <2>2. /\ hard.commit \in 0..MaxIndex /\ offset \in Nat /\ Len(chosen) \in Nat /\ Len(chosen) <= MaxIndex
          /\ c \in hard.commit..(offset + Len(es)) /\ c <= Len(chosen)
      BY <1>6, <1>9
    <2>3. t \in 0..MaxTerm /\ t >= hard.term
      BY <1>6
    <2> QED BY <2>1, <2>2, <2>3, Numbers
  <1>11. ChosenUpTo(es, offset, c)
    BY <1>6, <1>8, <1>9, <1>10, Committable
  <1>12. h \in HardState /\ h.commit = c /\ h.term = t
    BY <1>10 DEF HardState
  <1>13. h # EmptyHard
    <2>1. hard = [term |-> hard.term, commit |-> hard.commit]
      BY DEF IInv, Types, HardState
    <2>2. hard.term # 0 \/ hard.commit # 0
      BY <1>2, <2>1 DEF EmptyHard
    <2>3. t # 0 \/ c # 0
      BY <1>6, <1>10, <2>2, Numbers
    <2> QED BY <1>12, <2>3 DEF EmptyHard
  <1> HIDE DEF h
  <1>14. /\ rd'.snap = NoSnapshot /\ rd'.ents = new
         /\ rd'.hard = IF h = hard THEN EmptyHard ELSE h
         /\ rd' = [snap |-> NoSnapshot, hard |-> rd'.hard, ents |-> new]
    BY <1>5 DEF Changed, h
  <1>15. /\ offset' = offset /\ ents' = ents /\ hard' = hard /\ chosen' = chosen /\ kv' = kv
         /\ leaders' = leaders
    BY <1>1 DEF store, cluster, machine
  <1>16. pc' \in Busy /\ ~Installing' /\ pc' \notin {"apply", "applyValue"} /\ pc' # "memory"
    BY <1>1 DEF Busy, Installing
  <1>17. NewHard' = h /\ NewEnts' = es
    BY <1>13, <1>14, <1>15, <1>16 DEF NewHard, NewEnts, es
  <1>18. NoSnapshot \in Snapshot /\ NoSnapshot.index = 0 /\ NoSnapshot.data = <<>> /\ Len(<<>>) = 0
    BY Numbers DEF NoSnapshot, Snapshot
  <1>19. Ready'
    <2>1. FreshEntries'
      <3>1. LastIndex' = LastIndex /\ LastIndex = offset + Len(ents)
        BY <1>15 DEF LastIndex
      <3> QED BY <1>7, <1>14, <1>15, <3>1 DEF FreshEntries
    <2>2. AtLeast(h, hard)
      BY <1>6, <1>10, <1>12 DEF AtLeast
    <2>3. NewHard' # EmptyHard /\ AtLeast(NewHard, hard)' /\ rd'.snap.index = 0
      BY <1>13, <1>14, <1>15, <1>17, <1>18, <2>2 DEF AtLeast
    <2>4. ChosenUpTo(NewEnts, offset, NewHard.commit)'
      BY <1>11, <1>12, <1>15, <1>17 DEF ChosenUpTo
    <2> QED BY <1>16, <2>1, <2>3, <2>4 DEF Ready
  <1> DEFINE m == Len(kv) - offset
             n == c - offset
  <1>20. m \in Nat /\ n \in Nat /\ m <= n /\ n <= Len(es) /\ (appliedIndex + 1) - offset = m + 1
         /\ offset + m = Len(kv) /\ offset + n = c
    BY <1>6, <1>10
  <1> HIDE DEF m, n
  <1>21. pending' = SubSeq(es, m + 1, n)
    <2>1. pending' = SubSeq(es, (appliedIndex + 1) - offset, c - offset)
      BY <1>5 DEF Slice
    <2> QED BY <1>20, <2>1 DEF n
  <1>22. /\ pending' \in Seq(Entry) /\ Len(pending') = n - m
         /\ \A k \in 1..n - m : pending'[k] = es[m + k]
    <2> DEFINE S == SubSeq(es, m + 1, n)
    <2>1. S \in Seq(Entry) /\ Len(S) = n - m /\ \A k \in 1..n - m : S[k] = es[m + k]
      BY <1>8, <1>20
    <2> QED BY <1>21, <2>1
  <1>23. Pending'
    <2>1. ASSUME NEW k \in 1..n - m
          PROVE  pending'[k].index = Len(kv) + k /\ pending'[k].term = chosen[Len(kv) + k]
      <3>1. m + k \in 1..Len(es) /\ offset + (m + k) = Len(kv) + k /\ Len(kv) + k <= c
        <4>1. offset \in Nat /\ Len(kv) \in Nat /\ c \in Nat /\ Len(es) \in Nat
          BY <1>6, <1>10
        <4> QED BY <1>20, <2>1, <4>1
      <3>2. es[m + k].index = offset + (m + k) /\ es[m + k].term = chosen[offset + (m + k)]
        BY <1>8, <1>11, <3>1 DEF Consecutive, ChosenUpTo
      <3> QED BY <1>22, <3>1, <3>2
    <2>2. Len(kv) + (n - m) <= c
      BY <1>20, <1>6, <1>10
    <2> QED BY <1>9, <1>12, <1>15, <1>16, <1>17, <1>22, <2>1, <2>2 DEF Pending
  <1>24. rd' \in [snap : Snapshot, hard : HardState, ents : Seq(Entry)]
    <2>1. EmptyHard \in HardState
      BY Numbers DEF EmptyHard, HardState
    <2>2. rd'.hard \in HardState
      BY <1>12, <1>14, <2>1
    <2> QED BY <1>7, <1>14, <1>18, <2>2
  <1>25. IsChosen(rd'.snap.data) /\ Len(rd'.snap.data) = rd'.snap.index
    BY <1>6, <1>14, <1>18 DEF IsChosen
  <1> QED BY <1>19, <1>22, <1>23, <1>24, <1>25, TakenReady

-------------------------------------------------------------------------------
(* The invariant *)

(* A step that changes nothing.                                              *)
LEMMA StutterInv ==
    ASSUME IInv, UNCHANGED vars
    PROVE  IInv'
  <1>1. UNCHANGED <<cluster, disk, pc, rd, store, machine, pending, promised, restarts>>
    BY DEF vars
  <1>2. /\ leaders' = leaders /\ chosen' = chosen /\ snapFile' = snapFile /\ wal' = wal /\ pc' = pc
        /\ rd' = rd /\ hard' = hard /\ offset' = offset /\ ents' = ents /\ appliedIndex' = appliedIndex
        /\ kv' = kv /\ confState' = confState /\ lastSnapshotIndex' = lastSnapshotIndex
        /\ pending' = pending /\ promised' = promised /\ restarts' = restarts
    BY <1>1 DEF cluster, disk, store, machine
  <1>3. /\ LoadedHard' = LoadedHard /\ WalEntries' = WalEntries /\ DiskLast' = DiskLast
        /\ ReplayedEntries' = ReplayedEntries /\ Misread' = Misread
    BY <1>1, <1>2, SameFiles DEF Misread
  <1>4. /\ Sane' = Sane /\ Up' = Up /\ NewHard' = NewHard /\ NewEnts' = NewEnts /\ LastIndex' = LastIndex
        /\ Installing' = Installing /\ HardOnDisk' = HardOnDisk /\ EntsOnDisk' = EntsOnDisk
    BY <1>2, <1>3 DEF Sane, Up, NewHard, NewEnts, LastIndex, Installing, HardOnDisk, EntsOnDisk
  <1>5. Types' /\ Machine'
    BY <1>2, <1>4 DEF IInv, Types, Machine, IsChosen
  <1>6. Memory' /\ Pending'
    BY <1>2, <1>4 DEF IInv, Memory, Pending, ChosenUpTo
  <1>7. Ready'
    <2>1. FreshEntries' = FreshEntries
      BY <1>2, <1>4 DEF FreshEntries
    <2> QED BY <1>2, <1>4, <2>1 DEF IInv, Ready, ChosenUpTo, AtLeast
  <1>8. DiskHard' /\ DiskEntries' /\ Promises'
    BY <1>2, <1>3, <1>4 DEF IInv, DiskHard, DiskEntries, Promises, AtLeast
  <1> QED BY <1>5, <1>6, <1>7, <1>8 DEF IInv

(* Every step keeps the invariant.                                           *)
LEMMA NextInv ==
    ASSUME ~FollowMisread, IInv, [Next]_vars
    PROVE  IInv'
  <1>1. CASE TakeReady
    <2>1. ~Misread /\ pc = "idle" /\ (BootstrapReady \/ AppendReady \/ InstallReady)
      BY <1>1 DEF TakeReady
    <2>2. Sane
      BY <2>1 DEF Sane
    <2> QED BY <1>1, <2>1, <2>2, BootstrapInv, AppendInv, InstallInv
  <1>2. CASE HandleReady
    BY <1>2, SaveSnapshotInv, AppendWALInv, UpdateMemoryInv, DeliverInv, ApplyIndexInv,
       ApplyValueInv, MaybeSnapshotInv, AdvanceInv DEF HandleReady
  <1> QED BY <1>1, <1>2, DecideInv, CrashInv, BootInv, StutterInv DEF Next

(* The invariant holds as long as no node that has misread its WAL is followed *)
(* (FollowMisread): what raft does with such a log is outside of its rules, and *)
(* the properties below are then lost.                                       *)
THEOREM Invariant ==
    ASSUME ~FollowMisread
    PROVE  Spec => []IInv
  <1>1. Init => IInv
    BY InitInv
  <1>2. IInv /\ [Next]_vars => IInv'
    BY NextInv
  <1> QED BY <1>1, <1>2, PTL DEF Spec

-------------------------------------------------------------------------------
(* The properties *)

(* The variables keep their types: the run loop of main.go, lines 366-419.   *)
THEOREM Typed ==
    ASSUME ~FollowMisread
    PROVE  Spec => []TypeOK
  <1>1. IInv => TypeOK
    <2> SUFFICES ASSUME IInv PROVE TypeOK
      OBVIOUS
    <2>1. Types
      BY DEF IInv
    <2>2. \A k \in DOMAIN wal : wal[k].hard \in HardState /\ wal[k].ents \in Seq(Entry)
      <3>1. \A k \in DOMAIN wal : wal[k] \in Record
        BY <2>1 DEF Types
      <3> QED BY <3>1 DEF Record
    <2> QED BY <2>1, <2>2 DEF Types, TypeOK, Busy, Later
  <1> QED BY <1>1, Invariant, PTL

(* State machine safety: for any number of voters, snapshot interval and       *)
(* number of deaths, what applyCommitted (lines 421-471) and a snapshot, sent or *)
(* read back, leave in the key-value state is a beginning of what the cluster  *)
(* committed, and appliedIndex says how long it is.                          *)
THEOREM AppliedStaysChosen ==
    ASSUME ~FollowMisread
    PROVE  Spec => []AppliedIsChosen
  <1>1. IInv => AppliedIsChosen
    <2> SUFFICES ASSUME IInv PROVE AppliedIsChosen
      OBVIOUS
    <2>1. /\ Len(kv) <= Len(chosen) /\ \A k \in 1..Len(kv) : kv[k] = chosen[k]
          /\ Up => Len(kv) = IF pc = "applyValue" THEN appliedIndex - 1 ELSE appliedIndex
      BY DEF IInv, Machine, IsChosen
    <2> DEFINE T == 1..MaxTerm
               n == Len(kv)
               A == SubSeq(kv, 1, n)
               B == SubSeq(chosen, 1, n)
    <2>2. kv \in Seq(T) /\ chosen \in Seq(T) /\ n \in 0..Len(chosen) /\ Len(chosen) \in Nat /\ n \in Nat
      BY <2>1, Sizes DEF IInv, Types
    <2> HIDE DEF T
    <2>3. A \in Seq(T) /\ Len(A) = n /\ \A k \in 1..n : A[k] = kv[k]
      BY <2>2
    <2>4. B \in Seq(T) /\ Len(B) = n /\ \A k \in 1..n : B[k] = chosen[k]
      BY <2>2
    <2>5. \A k \in 1..n : kv[k] = chosen[k]
      BY <2>1
    <2> HIDE DEF A, B, n
    <2>6. A = B
      BY <2>3, <2>4, <2>5, SeqEqual
    <2>7. IsPrefix(kv, chosen)
      BY <2>1, <2>6 DEF A, B, n, IsPrefix
    <2> QED BY <2>1, <2>7 DEF AppliedIsChosen
  <1> QED BY <1>1, Invariant, PTL

(* persistReady comes before deliver and applyCommitted (lines 379-402): when a *)
(* message is sent the files hold the log and the hard state it vouches for.  *)
THEOREM SendsWhatIsDurable ==
    ASSUME ~FollowMisread
    PROVE  Spec => []DurableBeforeSend
  <1>1. IInv => DurableBeforeSend
    <2> SUFFICES ASSUME IInv, pc \in Later \cup {"idle"}
                 PROVE  /\ LoadedHard = hard
                        /\ LET base == IF offset > snapFile.index THEN offset ELSE snapFile.index
                           IN Misread \/ Above(ReplayedEntries, base) = Above(ents, base)
      BY DEF DurableBeforeSend, Later
    <2>1. Up /\ pc # "memory"
      BY DEF Up, Later
    <2>2. LoadedHard = hard
      BY <2>1 DEF IInv, DiskHard, HardOnDisk
    <2>3. ASSUME ~Misread
          PROVE  /\ offset <= snapFile.index
                 /\ Above(ReplayedEntries, snapFile.index) = Above(ents, snapFile.index)
      <3>1. Sane
        BY <2>3 DEF Sane
      <3> QED BY <2>1, <3>1 DEF IInv, Memory, DiskEntries, EntsOnDisk
    <2>4. offset \in Nat /\ snapFile.index \in Nat
      BY Sizes DEF IInv
    <2>5. ~Misread => ~(offset > snapFile.index)
      BY <2>3, <2>4
    <2> QED BY <2>2, <2>3, <2>5
  <1> QED BY <1>1, Invariant, PTL

(* The restart of a process that died at any point fails in one case only:     *)
(* between the snapshot of a leader and its hard state (lines 412-418).       *)
THEOREM RestartFailsOnlyInInstall ==
    ASSUME ~FollowMisread
    PROVE  Spec => []OnlyInstallBreaksRestart
  <1>1. IInv => OnlyInstallBreaksRestart
    <2> SUFFICES ASSUME IInv, BootPanics
                 PROVE  /\ leaders = "install"
                        /\ LoadedHard.commit < snapFile.index
                        /\ (pc = "appendWAL" /\ rd.snap.index > 0) \/ ~Up
      BY DEF OnlyInstallBreaksRestart
    <2> DEFINE b == snapFile.index
               L == LoadedEntries
    <2>1. /\ WalEntries \in Seq(Entry) /\ L \in Seq(Entry) /\ Len(L) \in Nat /\ b \in Nat
          /\ LoadedHard.commit \in Nat /\ EntriesOf(WalEntries) \subseteq Entry
      <3>1. /\ WalEntries \in Seq(Entry) /\ L \in Seq(Entry) /\ b \in Nat
            /\ LoadedHard.commit \in Nat
        BY WalEntriesType, LoadedHardType, Sizes DEF IInv
      <3>2. EntriesOf(WalEntries) \subseteq Entry
        BY <3>1 DEF EntriesOf
      <3>3. Len(L) \in Nat
        BY <3>1
      <3> QED BY <3>1, <3>2, <3>3
    <2>2. /\ L # <<>> => L[1].index = b + 1
          /\ \A e \in EntriesOf(WalEntries) : e.index <= b + Len(L)
      <3>1. Covered(WalEntries, b)
        BY DEF IInv, DiskEntries
      <3> QED BY <2>1, <3>1, CoveredLog DEF LoadedEntries
    <2>3. LoadedHard.commit <= b + Len(L)
      <3>1. CASE LoadedHard.commit > b
        <4>1. PICK e \in EntriesOf(WalEntries) : e.index >= LoadedHard.commit
          BY <3>1 DEF IInv, DiskEntries
        <4>2. e.index \in Nat /\ e.index <= b + Len(L)
          BY <2>1, <2>2 DEF Entry
        <4> QED BY <2>1, <4>1, <4>2
      <3>2. CASE ~(LoadedHard.commit > b)
        BY <2>1, <3>2
      <3> QED BY <3>1, <3>2
    <2>4. LoadedHard.commit < b
      BY <2>1, <2>2, <2>3 DEF BootPanics
    <2>5. \/ b <= LoadedHard.commit
          \/ leaders = "install" /\ (~Up \/ (pc = "appendWAL" /\ rd.snap.index > 0))
      BY DEF IInv, DiskHard
    <2> QED BY <2>1, <2>4, <2>5
  <1> QED BY <1>1, Invariant, PTL

(* What deliver sent holds after any number of deaths and restarts: the node   *)
(* comes back with the term, the commit index and, unless a leader overwrote   *)
(* them, the entries it vouched for.                                         *)
THEOREM PromisesStayKept ==
    ASSUME ~FollowMisread
    PROVE  Spec => []PromisesKept
  <1>1. IInv => PromisesKept
    BY DEF IInv, Promises, AtLeast, PromisesKept
  <1> QED BY <1>1, Invariant, PTL
==================================================================================
