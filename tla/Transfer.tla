-------------------------------- MODULE Transfer --------------------------------
(***************************************************************************)
(* The transfer services src/uuid/uuid1, uuid2 and uuid3.  Each HTTP call   *)
(* runs transferHandler in a goroutine of its own; a client that gets no    *)
(* answer calls again with the same request id.  uuid2 and uuid3 look the   *)
(* id up before they lock the mutex; uuid1 has no ids.                      *)
(*                                                                         *)
(* Go maps do not allow a read concurrent with a write: the runtime may     *)
(* stop the whole process when it sees one.  The lookup that runs while     *)
(* another call writes requestHandle has that outcome here too.             *)
(***************************************************************************)
EXTENDS Integers, FiniteSetsExt

CONSTANTS Call,     \* handler goroutines
          Id,       \* request ids clients use
          Account,  \* account names clients use
          Opened,   \* the accounts that exist at the start
          Amount,   \* amounts clients ask for: signed, a negative one is not refused
          Initial,  \* opening balance (1000 in the code)
          Services  \* which of the programs: "uuid1", "uuid2" (uuid3 is like it)

ASSUME TransferAssumption == /\ Opened \subseteq Account /\ IsFiniteSet(Account)
                             /\ Amount \subseteq Int
                             /\ Initial \in Nat
                             /\ Services \subseteq {"uuid1", "uuid2"}
                             /\ "free" \notin Call  \* no call is taken for Free

VARIABLES service,        \* the program that runs
          accounts,       \* balances; only the accounts in exists are in the map
          exists,         \* the keys of the map accounts
          requestHandle,  \* ids recorded as handled
          mu,             \* the call that holds the mutex, or Free
          pc, req,        \* where each call is, and what it asks for
          crashed,        \* the Go runtime has stopped the process
          executed,       \* history: how many transfers each id has caused
          answered,       \* history: ids some call was answered "success" for
          retry           \* history: calls that arrived after such an answer

Dedup == service # "uuid1"

server  == <<accounts, exists, requestHandle, mu, crashed>>
history == <<executed, answered, retry>>
vars == <<service, server, pc, req, history>>

Free == "free"
Request == [id : Id, from : Account, to : Account, amount : Amount]
NoRequest == [id |-> "none"]
Done == {"ok", "handled", "refused"}

TypeOK == /\ service \in Services
          /\ accounts \in [Account -> Int]
          /\ exists \in SUBSET Account
          /\ requestHandle \in SUBSET Id
          /\ mu \in Call \cup {Free}
          /\ pc \in [Call -> {"new", "lookup", "lock", "balance", "move", "record"} \cup Done]
          /\ req \in [Call -> Request \cup {NoRequest}]
          /\ \A c \in Call : pc[c] # "new" => req[c] \in Request
          /\ crashed \in BOOLEAN
          /\ executed \in [Id -> Nat]
          /\ answered \in SUBSET Id
          /\ retry \in SUBSET Call

Init == /\ service \in Services
        /\ accounts = [a \in Account |-> IF a \in Opened THEN Initial ELSE 0]
        /\ exists = Opened
        /\ requestHandle = {}
        /\ mu = Free
        /\ pc = [c \in Call |-> "new"]
        /\ req = [c \in Call |-> NoRequest]
        /\ crashed = FALSE
        /\ executed = [i \in Id |-> 0]
        /\ answered = {}
        /\ retry = {}

Goes(c, from, to) == /\ ~crashed
                     /\ pc[c] = from
                     /\ pc' = [pc EXCEPT ![c] = to]
                     /\ UNCHANGED service

(* A POST with a body that decodes; the others return before any state.      *)
Arrive(c) == /\ Goes(c, "new", IF Dedup THEN "lookup" ELSE "lock")
             /\ \E r \in Request : req' = [req EXCEPT ![c] = r]
             /\ retry' = IF req'[c].id \in answered THEN retry \cup {c} ELSE retry
             /\ UNCHANGED <<server, executed, answered>>

(* The unlocked lookup of uuid2:41 and uuid3:42.                             *)
Lookup(c) == /\ Goes(c, "lookup",
                     IF req[c].id \in requestHandle THEN "handled" ELSE "lock")
             /\ UNCHANGED <<server, req, history>>

(* The runtime catches the lookup of one call during the write of another.   *)
MapRace(c, d) == /\ ~crashed
                 /\ Dedup
                 /\ pc[c] = "lookup" /\ pc[d] = "record"
                 /\ crashed' = TRUE
                 /\ UNCHANGED <<service, accounts, exists, requestHandle, mu, pc, req,
                                history>>

(* Mutant: a lock that several calls hold at a time. *)
LockShared(c) ==
    /\ Goes(c, "lock", "balance")
    /\ mu' = c
    /\ UNCHANGED <<accounts, exists, requestHandle, crashed, req, history>>

Lock(c) == /\ Goes(c, "lock", "balance")
           /\ mu = Free
           /\ mu' = c
           /\ UNCHANGED <<accounts, exists, requestHandle, crashed, req, history>>

Covered(r) == r.from \in exists /\ accounts[r.from] >= r.amount

(* Mutant: the early return keeps the mutex. *)
RefuseLocked(c) ==
    /\ Goes(c, "balance", "refused")
    /\ ~Covered(req[c])
    /\ UNCHANGED <<server, req, history>>

(* The balance is checked under the mutex; the early return releases it.     *)
Refuse(c) == /\ Goes(c, "balance", "refused")
             /\ ~Covered(req[c])
             /\ mu' = Free
             /\ UNCHANGED <<accounts, exists, requestHandle, crashed, req, history>>

Accept(c) == /\ Goes(c, "balance", "move")
             /\ Covered(req[c])
             /\ UNCHANGED <<server, req, history>>

(* Mutant: both balances are read before either is written. *)
MovedFromReads(r) ==
    [accounts EXCEPT ![r.from] = accounts[r.from] - r.amount,
                     ![r.to]   = accounts[r.to] + r.amount]

(* Debit, then credit; both may name the same account.                       *)
Moved(r) == LET debited == [accounts EXCEPT ![r.from] = @ - r.amount]
            IN [debited EXCEPT ![r.to] = @ + r.amount]

(* An unknown recipient gets an account.  In uuid1 the call is done here.    *)
Move(c) == /\ Goes(c, "move", IF Dedup THEN "record" ELSE "ok")
           /\ accounts' = Moved(req[c])
           /\ exists' = exists \cup {req[c].to}
           /\ mu' = IF Dedup THEN mu ELSE Free
           /\ executed' = [executed EXCEPT ![req[c].id] = @ + 1]
           /\ answered' = IF Dedup THEN answered ELSE answered \cup {req[c].id}
           /\ UNCHANGED <<requestHandle, crashed, req, retry>>

(* Mutant: the whole request is recorded instead of its id. *)
RecordRequest(c) ==
    /\ Goes(c, "record", "ok")
    /\ requestHandle' = requestHandle \cup {req[c]}
    /\ mu' = Free
    /\ answered' = answered \cup {req[c].id}
    /\ UNCHANGED <<accounts, exists, crashed, req, executed, retry>>

(* Mutant: the id is never recorded. *)
RecordNothing(c) ==
    /\ Goes(c, "record", "ok")
    /\ mu' = Free
    /\ answered' = answered \cup {req[c].id}
    /\ UNCHANGED <<accounts, exists, requestHandle, crashed, req, executed, retry>>

(* The id is recorded and the mutex released; then the client has its answer. *)
Record(c) == /\ Goes(c, "record", "ok")
             /\ requestHandle' = requestHandle \cup {req[c].id}
             /\ mu' = Free
             /\ answered' = answered \cup {req[c].id}
             /\ UNCHANGED <<accounts, exists, crashed, req, executed, retry>>

Finished == /\ crashed \/ \A c \in Call : pc[c] \in Done
            /\ UNCHANGED vars

Handle(c) == Lookup(c) \/ Lock(c) \/ Refuse(c) \/ Accept(c) \/ Move(c) \/ Record(c)

Next == \/ \E c \in Call : Arrive(c) \/ Handle(c)
        \/ \E c, d \in Call : MapRace(c, d)
        \/ Finished

Spec == Init /\ [][Next]_vars

(* net/http serves every call; sync.Mutex lets no waiter starve (it hands    *)
(* the lock over after 1 ms of waiting), hence the strong fairness of Lock.  *)
Fairness == \A c \in Call : WF_vars(Handle(c)) /\ SF_vars(Lock(c))
FairSpec == Spec /\ Fairness

-------------------------------------------------------------------------------
(* No interleaving of handlers creates or destroys money, whatever the       *)
(* accounts involved (lines 47-48 of uuid2, under the mutex).                *)
MoneyIsConserved ==
    MapThenSumSet(LAMBDA a : accounts[a], Account)
        = Initial * MapThenSumSet(LAMBDA a : 1, Opened)

(* The balance that was checked is still there when it is debited (lines      *)
(* 50-57): a transfer takes an account below zero only by crediting it a      *)
(* negative amount, which the check lets through, never by a debit that       *)
(* another call's transfer got in front of.                                   *)
OnlyNegativeOverdraws ==
    [][\A a \in Account : accounts'[a] < accounts[a] /\ accounts'[a] < 0 =>
          \E c \in Call : /\ pc[c] = "move" /\ pc'[c] # "move"
                          /\ req[c].to = a /\ req[c].from # a
                          /\ req[c].amount < 0]_vars

(* A client that retries after it was told "success" is never debited again: *)
(* the id is recorded before the mutex is released and the answer sent.      *)
RetryAfterAnswerIsIdempotent ==
    [][Dedup => \A c \in retry : ~(pc[c] = "move" /\ pc'[c] # "move")]_vars

(* uuid2:56, "幂等操作：重复请求记录 request id 表示唯一性": the transfer is     *)
(* idempotent, a request id causes one transfer however often it is sent.    *)
AtMostOnce == \A i \in Id : executed[i] <= 1

(* Every call the server accepts is answered, unless the runtime stopped it. *)
EveryCallIsAnswered == \A c \in Call : pc[c] # "new" ~> pc[c] \in Done \/ crashed
================================================================================
