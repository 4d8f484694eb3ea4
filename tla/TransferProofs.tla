---------------------------- MODULE TransferProofs ----------------------------
(***************************************************************************)
(* Transfer for any number of concurrent calls, ids, accounts and amounts:  *)
(* only a negative amount overdraws an account, no money is made or lost,   *)
(* and a client that was told "success" is never debited again.             *)
(***************************************************************************)
EXTENDS Transfer, DataInduction

(* Only the call that holds the mutex is between Lock and its release.       *)
Mutex == \A c \in Call : pc[c] \in {"balance", "move", "record"} => mu = c

(* The check of the balance still holds when the money is moved: nobody else *)
(* can have debited the account in between.                                  *)
Checked == \A c \in Call : pc[c] = "move" => accounts[req[c].from] >= req[c].amount

(* An id is recorded before anyone is told of it, and a call that arrived     *)
(* after that gets no further than the lookup.                               *)
Recorded == Dedup => answered \subseteq requestHandle
Retries == Dedup => \A c \in retry : /\ pc[c] \in {"lookup", "handled"}
                                     /\ req[c].id \in requestHandle

IInv == TypeOK /\ Mutex /\ Checked /\ Recorded /\ Retries

-------------------------------------------------------------------------------
USE TransferAssumption DEF TransferAssumption, Free, server, history, Done

(* The invariant holds before the first transfer.                            *)
LEMMA InitIInv == Init => IInv
  <1> SUFFICES ASSUME Init PROVE IInv
    OBVIOUS
  <1>1. crashed \in BOOLEAN
    BY DEF Init
  <1> QED
    BY <1>1 DEF Init, IInv, TypeOK, Mutex, Checked, Recorded, Retries

(* What a request names, for the steps that need it.                         *)
LEMMA RequestFields ==
    ASSUME NEW r \in Request
    PROVE  r.id \in Id /\ r.from \in Account /\ r.to \in Account
           /\ r.amount \in Int /\ r.amount \in Amount
  BY DEF Request

(* A transfer takes an account below zero only if it credits it a negative    *)
(* amount: the debit was covered.                                             *)
LEMMA CoveredDebit ==
    ASSUME accounts \in [Account -> Int], NEW r \in Request, accounts[r.from] >= r.amount,
           NEW a \in Account, Moved(r)[a] < accounts[a], Moved(r)[a] < 0
    PROVE  r.to = a /\ r.from # a /\ r.amount < 0
  <1>1. r.from \in Account /\ r.to \in Account /\ r.amount \in Int
    BY RequestFields
  <1>2. CASE r.from = r.to
    BY <1>1, <1>2 DEF Moved
  <1>3. CASE r.from # r.to
    BY <1>1, <1>3 DEF Moved
  <1> QED BY <1>2, <1>3

(* The accounts after a transfer.                                            *)
LEMMA MovedTyped ==
    ASSUME accounts \in [Account -> Int], NEW r \in Request
    PROVE  Moved(r) \in [Account -> Int]
  <1>1. r.from \in Account /\ r.to \in Account /\ r.amount \in Int
    BY RequestFields
  <1> QED BY <1>1 DEF Moved

-------------------------------------------------------------------------------
(* Every step keeps it.                                                      *)
LEMMA NextIInv == IInv /\ [Next]_vars => IInv'
  <1> SUFFICES ASSUME IInv, [Next]_vars PROVE IInv'
    OBVIOUS
  <1> USE DEF IInv
  <1>1. ASSUME NEW c \in Call, Arrive(c) PROVE IInv'
    <2>1. PICK r \in Request : req' = [req EXCEPT ![c] = r]
      BY <1>1 DEF Arrive
    <2>2. r.id \in Id
      BY RequestFields
    <2>3. TypeOK'
      BY <1>1, <2>1 DEF Arrive, Goes, TypeOK
    <2>4. Mutex'
      BY <1>1 DEF Arrive, Goes, TypeOK, Mutex
    <2>5. Checked'
      BY <1>1, <2>1 DEF Arrive, Goes, TypeOK, Checked
    <2>6. Recorded' /\ Retries'
      BY <1>1, <2>1 DEF Arrive, Goes, TypeOK, Recorded, Retries, Dedup
    <2> QED BY <2>3, <2>4, <2>5, <2>6
  <1>2. ASSUME NEW c \in Call, Lookup(c) PROVE IInv'
    BY <1>2 DEF Lookup, Goes, TypeOK, Mutex, Checked, Recorded, Retries, Dedup
  <1>3. ASSUME NEW c \in Call, Lock(c) PROVE IInv'
    BY <1>3 DEF Lock, Goes, TypeOK, Mutex, Checked, Recorded, Retries, Dedup
  <1>4. ASSUME NEW c \in Call, Refuse(c) PROVE IInv'
    BY <1>4 DEF Refuse, Goes, TypeOK, Mutex, Checked, Recorded, Retries, Dedup
  <1>5. ASSUME NEW c \in Call, Accept(c) PROVE IInv'
    BY <1>5 DEF Accept, Goes, TypeOK, Mutex, Checked, Covered, Recorded,
                Retries, Dedup
  <1>6. ASSUME NEW c \in Call, Move(c) PROVE IInv'
    <2>1. req[c] \in Request /\ accounts[req[c].from] >= req[c].amount
      BY <1>6 DEF Move, Goes, TypeOK, Checked
    <2>2. req[c].id \in Id /\ req[c].to \in Account
      BY <2>1, RequestFields
    <2>3. accounts' \in [Account -> Int]
      BY <1>6, <2>1, MovedTyped DEF Move, TypeOK
    <2>4. TypeOK'
      BY <1>6, <2>2, <2>3 DEF Move, Goes, TypeOK
    <2>5. Mutex'
      BY <1>6 DEF Move, Goes, TypeOK, Mutex
    <2>6. Checked'
      BY <1>6 DEF Move, Goes, TypeOK, Mutex, Checked
    <2>7. Recorded' /\ Retries'
      BY <1>6 DEF Move, Goes, TypeOK, Recorded, Retries, Dedup
    <2> QED BY <2>3, <2>4, <2>5, <2>6, <2>7
  <1>7. ASSUME NEW c \in Call, Record(c) PROVE IInv'
    <2>1. req[c].id \in Id
      BY <1>7, RequestFields DEF Record, Goes, TypeOK
    <2> QED
      BY <1>7, <2>1 DEF Record, Goes, TypeOK, Mutex, Checked, Recorded,
                        Retries, Dedup
  <1>8. ASSUME NEW c \in Call, NEW d \in Call, MapRace(c, d) PROVE IInv'
    BY <1>8 DEF MapRace, TypeOK, Mutex, Checked, Recorded, Retries, Dedup
  <1>9. CASE UNCHANGED vars
    BY <1>9 DEF vars, TypeOK, Mutex, Checked, Recorded, Retries, Dedup
  <1> QED
    BY <1>1, <1>2, <1>3, <1>4, <1>5, <1>6, <1>7, <1>8, <1>9 DEF Next, Handle, Finished

(* The inductive invariant of the transfers holds in every behaviour.        *)
THEOREM Invariance == Spec => []IInv
  BY InitIInv, NextIInv, PTL DEF Spec

(* The variables keep their types for any number of calls.                   *)
THEOREM TypeCorrect == Spec => []TypeOK
  <1>1. IInv => TypeOK
    BY DEF IInv
  <1> QED BY <1>1, Invariance, PTL

(* Only Move changes the accounts, and it has the debit covered.              *)
LEMMA DebitsAreCovered ==
    ASSUME IInv, [Next]_vars, NEW a \in Account,
           accounts'[a] < accounts[a], accounts'[a] < 0
    PROVE  \E c \in Call : /\ pc[c] = "move" /\ pc'[c] # "move"
                           /\ req[c].to = a /\ req[c].from # a
                           /\ req[c].amount < 0
  <1>1. accounts \in [Account -> Int]
    BY DEF IInv, TypeOK
  <1>2. accounts' # accounts
    BY <1>1
  <1>3. accounts' = accounts \/ \E c \in Call : Move(c)
    BY DEF Next, Handle, Finished, vars, Arrive, Lookup, Lock, Refuse, Accept, Record, MapRace
  <1>4. PICK c \in Call : Move(c)
    BY <1>2, <1>3
  <1>5. req[c] \in Request /\ accounts[req[c].from] >= req[c].amount
        /\ accounts' = Moved(req[c])
    BY <1>4 DEF Move, Goes, IInv, TypeOK, Checked
  <1>6. req[c].to = a /\ req[c].from # a /\ req[c].amount < 0
    BY <1>1, <1>5, CoveredDebit
  <1>7. pc[c] = "move" /\ pc'[c] # "move"
    BY <1>4 DEF Move, Goes, IInv, TypeOK
  <1> QED BY <1>6, <1>7

(* However the handlers interleave, a transfer overdraws an account only by   *)
(* crediting it a negative amount (lines 50-57 of uuid2).                     *)
THEOREM DebitsStayCovered == Spec => OnlyNegativeOverdraws
  <1>1. IInv /\ [Next]_vars =>
          [\A a \in Account : accounts'[a] < accounts[a] /\ accounts'[a] < 0 =>
              \E c \in Call : /\ pc[c] = "move" /\ pc'[c] # "move"
                              /\ req[c].to = a /\ req[c].from # a
                              /\ req[c].amount < 0]_vars
    BY DebitsAreCovered
  <1> QED BY <1>1, Invariance, PTL DEF OnlyNegativeOverdraws, Spec

(* No call that arrives after its id was answered "success" moves money       *)
(* (lines 41 and 56-61 of uuid2).                                             *)
THEOREM RetryIsSafe == Spec => RetryAfterAnswerIsIdempotent
  <1>1. IInv => (Dedup => \A c \in retry : pc[c] # "move")
    BY DEF IInv, Retries
  <1>2. IInv => (Dedup => \A c \in retry : ~(pc[c] = "move" /\ pc'[c] # "move"))
    BY <1>1
  <1> QED BY <1>2, Invariance, PTL DEF RetryAfterAnswerIsIdempotent

-------------------------------------------------------------------------------
(* The two sums of MoneyIsConserved.                                         *)
LEMMA MoneyIsASum ==
    /\ MapThenSumSet(LAMBDA a : accounts[a], Account) = Sum(accounts, Account)
    /\ MapThenSumSet(LAMBDA a : 1, Opened) = Cardinality(Opened)
  <1>1. MapThenSumSet(LAMBDA a : accounts[a], Account) = Sum(accounts, Account)
    BY DEF Sum
  <1>2. IsFiniteSet(Opened)
    BY FS_Subset
  <1> QED BY <1>1, <1>2, SumOfOnes

(* A debit and a credit of the same amount, of one account or of two.         *)
LEMMA MovedIsNotLost ==
    ASSUME accounts \in [Account -> Int], NEW r \in Request
    PROVE  Sum(Moved(r), Account) = Sum(accounts, Account)
  <1>1. r.from \in Account /\ r.to \in Account /\ r.amount \in Int
    BY RequestFields
  <1> DEFINE debited == [accounts EXCEPT ![r.from] = accounts[r.from] - r.amount]
  <1>2. debited \in [Account -> Int]
    BY <1>1
  <1>3. \A f \in [Account -> Int], a \in Account, v \in Int :
            Sum([f EXCEPT ![a] = v], Account) = Sum(f, Account) + (v - f[a])
    BY SumOfUpdate
  <1>4. Sum(debited, Account)
            = Sum(accounts, Account) + ((accounts[r.from] - r.amount) - accounts[r.from])
    <2>1. accounts[r.from] - r.amount \in Int
      BY <1>1
    <2> QED BY <1>1, <1>3, <2>1
  <1>5. Sum(Moved(r), Account)
            = Sum(debited, Account) + ((debited[r.to] + r.amount) - debited[r.to])
    <2>1. debited[r.to] + r.amount \in Int
      BY <1>1, <1>2
    <2>2. Moved(r) = [debited EXCEPT ![r.to] = debited[r.to] + r.amount]
      BY DEF Moved
    <2> HIDE DEF debited
    <2> QED BY <1>1, <1>2, <1>3, <2>1, <2>2
  <1>6. Sum(accounts, Account) \in Int /\ accounts[r.from] \in Int /\ debited[r.to] \in Int
    BY <1>1, <1>2, SumIsInt
  <1> HIDE DEF debited
  <1> QED BY <1>1, <1>4, <1>5, <1>6

(* MoneyIsConserved as a fact about the sum of a function.                    *)
Conserved == Sum(accounts, Account) = Initial * Cardinality(Opened)

(* What is conserved is the sum of the balances.                             *)
LEMMA ConservedMeans == Conserved => MoneyIsConserved
  BY MoneyIsASum DEF Conserved, MoneyIsConserved

(* No money has moved at the start.                                          *)
LEMMA InitConserved == Init => Conserved
  BY SumOfSome DEF Init, Conserved

(* Every step moves money from one account to another, or none.              *)
LEMMA NextConserved == TypeOK /\ Conserved /\ [Next]_vars => Conserved'
  <1> SUFFICES ASSUME TypeOK, Conserved, [Next]_vars PROVE Conserved'
    OBVIOUS
  <1>1. ASSUME NEW c \in Call, Move(c) PROVE Conserved'
    <2>1. req[c] \in Request /\ accounts' = Moved(req[c]) /\ accounts \in [Account -> Int]
      BY <1>1 DEF Move, Goes, TypeOK
    <2>2. Sum(Moved(req[c]), Account) = Sum(accounts, Account)
      BY <2>1, MovedIsNotLost
    <2> QED BY <2>1, <2>2 DEF Conserved
  <1>2. accounts' = accounts \/ \E c \in Call : Move(c)
    BY DEF Next, Handle, Finished, vars, Arrive, Lookup, Lock, Refuse, Accept, Record, MapRace
  <1>3. CASE accounts' = accounts
    BY <1>3 DEF Conserved
  <1> QED BY <1>1, <1>2, <1>3

(* However the handlers interleave and whatever accounts they name, the money  *)
(* in the map stays what it was (lines 47-48 of uuid2).                       *)
THEOREM MoneyStays == Spec => []MoneyIsConserved
  BY InitConserved, NextConserved, ConservedMeans, TypeCorrect, PTL DEF Spec

================================================================================
