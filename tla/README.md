# Verification of go-by-example

The repository is a collection of some two hundred independent Go programs, most
of them short calls of a library. Those with logic of their own keep shared
state between goroutines, nodes or processes: a batched linearizable read, raft
nodes with a write-ahead log and a restart, idempotent transfer services, a
copy-on-write tree, services over files, stores and API servers, and some forty
small programs about locks, channels, timers and connections. This directory
models those in TLA+, checks the models with TLC and proves theorems about
eight of the components with TLAPS.

All paths below are relative to `src/`.

## 1. Inventory

### Components that are modelled

| component | state | operations | interaction | what is hard |
|---|---|---|---|---|
| `etcd/linearizable-read-demo` | current notifier, one-slot channel `readwaitc`, `appliedIndex`, `applyWait.last` and `m`, `stopping` | `linearizableReadNotify`, `linearizableReadLoop`, `applyWait.Wait`/`Trigger`, the apply goroutine | channels, an RW mutex, an atomic index | tokens dropped when the channel is full, a notifier read before the swap and waited on after it, the index loaded before the registration, deadlines, stop |
| `etcd/raft-wal-restart`, one node | `wal.log`, `snapshot.bin`, MemoryStorage, `appliedIndex`, `kv`, `confState` | `load`, `newNode`, `run`, `persistReady`, `applyCommitted`, `maybeSnapshot` | the raft library hands over a Ready, messages go to other nodes | death between any two writes, overwritten entries in the WAL, installed snapshots, compaction |
| `etcd/raft` and `etcd/raft-wal-restart`, the cluster | per node: log, run loop, `stopped`; the script of `main` | `run`, `deliver`, `stop`, `waitLeader`, `proposeKV`, `waitValueOnActiveNodes`, `chooseFollower`, `stopAll`, restart | messages between nodes, `main` looks at the nodes | depositions, stale leaders, a node that is stopping, lost proposals, deadlines |
| `uuid/uuid1`, `uuid2`, `uuid3` | `accounts`, `requestHandle`, the mutex | `transferHandler` | concurrent HTTP calls with retries | the id looked up outside the mutex, two-sided updates, early returns |
| `cow` | nodes with their contexts, roots | `NewTree`, `Clone`, `Upsert`, `Get` | trees share nodes after `Clone` | who may write a node in place |
| `wal` | the map, `wal.log` | `NewWAL`, `recover`, `Put`, `writeEndMarker`, `Close` | the file outlives the process | a line torn by a death, the next `Put` behind it, values with blanks |
| `etcd/mvcc`, `etcd/basic`, `etcd/txn-rev-main-sub` | what the scripts have read; the store of etcd | puts, transactions, compare-and-swap, reads at a revision, watch, compaction, the reader of the snapshot | other clients write and compact | stale compare-and-swap, compacted revisions, main and sub revisions |
| `etcd/bbolt`, `tx-no-mmap`, `tx-verify` | the bucket, transactions, the mapping | `createUser`, `getUser`, `updateUser`, `deleteUser`, `createUserIndex`, the experiments | a reader and a writer on one file | the wait of a growing commit for the readers, a second run on the same file |
| `flock` | the lock of `test.lock` | three goroutines: `Lock`, `TryLock`, `Close`, removal | through the file | calls that fail, the order of unlock and removal |
| `lease` | the Lease object, what each process saw of it | election, `OnStartedLeading`, `OnStoppedLeading`, the signal handler | processes through the API server | lost renewals, a leader that does not know yet |
| `client-go/informer-410-gone-real` | the revision captured, the watch, the informer's cache | churn, `watchOnce`, relist, informer, cleanup | API server with other clients and compaction | 410 Gone on opening or later, a stale first watch, fatal exits |
| `go-zero/shorturl` | the table and the cache in front of it | `Shorten`, `Expand` with `Insert` and `FindOne` | concurrent calls, two stores | a lookup that crosses an insertion, colliding keys, calls that fail |
| `etcd/async-start` | context, `readyCh`, `stopCh`, `errCh` | `run`, `finish`, `Close`, the interrupt handler, two selects | channels | the order of the closes, ready and failed at once, an interrupt at any moment |
| `concurrency/*`, `sync/*`, `pprof/mutex`: locks and conditions | mutexes, condition variables, wait groups, pools | 13 programs | goroutines of one process | lost wake-ups, lock order, starvation, unsynchronised increments |
| `concurrency/*`: pipelines | unbuffered channels | 5 programs | stages send, receive, close | a close beside a send, streams that are never closed, early ends |
| `context/*`, `time/*`, `wait/*`, `actor`, `ants-pool`, `concurrency/errgroup`, `leak`, `rate*`, `io/pipe` | contexts, timers, limiters, pools | 16 programs | cancellation, timers at any moment | what is left behind, refused submissions, errors that are kept or lost |
| `websocket/v1`, `websocket/v2` | the mutex of all connections; the client table | handlers, writers, broadcast | connections that fail | a lock that is kept, unlocked writes |
| `concurrency/netpool`, `redis/pubsub`, `kubernetes/client-go/informer/manual` | connections, subscriptions, a list and a watch | daemons, publisher and subscribers, list and watch | calls that fail | a daemon that does not listen, what is published before a subscription, retries without an end |

### Properties that make them correct

* linearizable read: no wake-up, token or batch is lost; a notifier is closed once;
  a read that returns nil saw an index confirmed after it arrived and applied before it returned;
  every reader returns.
* raft node: what was applied is what the cluster committed; nothing is sent before it is
  on disk; what was promised survives a death; the files can be started from; what is
  committed is applied.
* raft cluster: state machines agree; what `main` has waited for stays; a stopped node is
  silent; two of three nodes still commit.
* transfers: money is conserved, a debit never takes more than is there, a request id moves money once.
* copy-on-write tree: trees behave as independent maps; shared nodes are never written.
* log, stores, cache: what is read back is what the calls promise, whatever deaths, other writers,
  compactions and failing calls come between (section 5 says where it is less than what was written); a swap
  overwrites only what it has read; a short key never leads to another URL.
* file lock, lease: one holder at a time; everybody gets through.
* asynchronous start: `main` returns, and the reason of a stop is available when the stop is seen.
* watches: what was listed and watched is a state of the server, and the informer converges.
* goroutine programs: who is stuck is who the program means to be stuck; nobody panics; streams
  arrive whole and in order; who is waited for has ended; `main` returns.

Section 6 lists what is not modelled and why. `PROJECT.json` lists every part of the
repository, with the hazards at their lines.

## 2. Modules

| module | models | abstract / concrete |
|---|---|---|
| `ReadBarrier` | what a linearizable read promises | abstract |
| `LinearizableRead` | `etcd/linearizable-read-demo/main.go` | implements `ReadBarrier` |
| `RaftNode` | one node of `etcd/raft-wal-restart/main.go` with its disk | |
| `RaftCluster`, `MCRaftCluster` | three nodes and both `main` scripts | |
| `Transfer`, `MCTransfer` | `uuid/uuid1`, `uuid2`, `uuid3` | |
| `TreeCopies` | trees as independent maps | abstract |
| `CowTree`, `MCCowTree` | `cow/main.go` | implements `TreeCopies` |
| `Wal`, `EtcdMvcc`, `Bolt`, `FileLock`, `LeaderLease`, `ConfigMapWatch`, `CacheAside`, `AsyncStart` | a service program each | |
| `Services`, `MCServices` | one of these eight at a time | composition |
| `LockPrograms`, `ChannelPrograms`, `TimerPrograms`, `ServicePrograms` | the goroutines of 41 programs, as code | data |
| `Goroutines`, `MCGoroutines` | what Go makes of that code | |
| `LinearizableReadProofs`, `RaftNodeProofs`, `RaftClusterProofs`, `TransferProofs`, `CowTreeProofs`, `ServicesProofs` | theorems | |
| `DataInduction` | induction over numbers and finite sets, and folds as functions | lemmas |

### LinearizableRead

A batch is numbered by the round of the loop that serves it. `readNotifier` is the
number of the current one, `nc[r]` the notifier reader `r` holds, `notified` the set
of closed ones. `TakeNotifier`, `Signal` and the returns are the steps of
`linearizableReadNotify`; `LoopReceives`, `SwapNotifier`, `ConfirmIndex` (which also loads
`appliedIndex`), `CallWait`, `WaitReturns`, `Notify` and `LoopStops` those of the loop; `StoreApplied`
and `Trigger` the apply goroutine. The load of `appliedIndex` and the registration in `applyWait` are
two steps, as in the code.
The deadline of a reader may pass at any point at which it waits; `main` may close `stopping`
at any point.

`BarrierSpec` is `ReadBarrier!Spec` under a refinement mapping: a reader is fresh when
its batch has obtained an index.

### RaftNode

`chosen` is the log the cluster commits and belongs, with raft's choice of a Ready, to the
environment. The run loop is split at every write to disk and at both critical sections
of `applyCommitted`; `Crash` may happen between any two steps, `Boot` is `load` with
`StartNode` or `RestartNode`, including the panics of the storage and of raft on what `load`
returns. `Leaders` says what leaders do to this node: never contradict it, overwrite its
uncommitted end, or install a snapshot. The last two are kept apart in one behaviour,
because each alone already leads to a finding and their combination to nothing else.

What is read back from the WAL is made of three passes: `Joined` concatenates the entries of all records,
`Above` and `Below` keep those (`Kept`) on one side of an index, and `Replay` is what raft means by a log whose later
entries replace earlier ones. `load` uses the first two; the third, which it lacks, is used only in the properties.

The code misreads a WAL with overwritten entries (see findings). The passing run does not
follow a node after it has booted from such a WAL (`FollowMisread = FALSE`); every property
says so with `Misread`. The violation run does follow it.

### RaftCluster

An election, a replication and the advance of a commit index are one step each, with raft's
guards, and only between nodes that are not stopped. `Elect` may depose a running leader
`MaxDeposed` times. `Run` is the loop of a node (take a Ready, apply, advance, or exit on
`stopCh`). `main` is a script, a sequence of operations with their arguments; one initial write
stands for the several equal ones.
`StopFollower` closes the channel and `StopReturns` waits for the loop to have ended.

`wal` holds what `appendWAL` has written on each node, in the order written, replaced entries included. A
restart finds a snapshot of any index that was applied, or none, and a log of what `load` reads above it
(`Loaded`). Where that is on every node the log the node had, `Restart` goes on with it. Where a replaced entry is
among what was read on some node, the positions in a log are not the indexes of its entries any more;
`MisreadStart` is that start. It is an end of the model, with the outcome "misread": what it leads to is the
finding of `RaftNode_replay`, and nothing is claimed of it here. The run reaches it.

The deadlines of the script end it in `Fatal`. What a leader has sent to a node and the node has not yet taken is
not state: a replication is one step, and its messages arrive together or not at all. The errors of `proposeKV` for an unknown or stopped node cannot occur in these scripts.

### Transfer

One process per HTTP call: lookup, lock, check, move, record. `uuid3` differs from `uuid2`
in a second handler that makes ids and keeps no state; its transfers are the same model. `uuid1` has no lookup. A concurrent
read and write of a Go map may stop the process (`MapRace`). Amounts are signed, as in the code: a negative one passes
the only check there is, that of the sender, and may take the receiver below zero. `OnlyNegativeOverdraws` says
that this is the only way below zero, and that no debit of one call gets between the check and the debit of another.

### CowTree

Nodes are records in a growing function, contexts are numbers. `Clone` gives both trees a new
context, as the code does. `Upsert` is a walk of several steps (`UpsertRoot`, `Descend`, and
then `UpsertLeaf` or `UpsertValue`); a tree has one writer, writers of different trees interleave.
`Get` is a recursive function on the nodes.

### Services

The eight programs have nothing to do with each other, so `Services` lets a behaviour be one of a
single program. Its cells `v1` to `v16` hold the variables of that program, in the order of its module:
each module is instantiated with its variables replaced by cells, and the cells a program does not use stay
0. One run then covers all eight.

* `Wal`: the file is a sequence of pieces, a piece of a line or its end, so that a death may
  tear a line and the next `Put` goes on in it. A loss of power also takes what was not synced. `recover`
  scans the lines as `Sscanf` does: a value with a blank does not scan, a torn line spoils the one
  appended to it. `acked` and `tried` remember what a caller was told. A `Put` that returned nil is lost if its line goes on from
  a torn one or its value has a blank: `NewInstanceRecovers`, what line 143 promises, is refuted by the run
  `Wal_merged`, and `RecoveredIsAcknowledged` says what holds: a line that can be read survives whatever is around it.
* `EtcdMvcc`: the store is external: revisions, the records of a key, a compaction. A request gives one
  record per operation that writes (`Applied`), with its main and sub revision; the first response of a watch is the set of records up to
  some revision. The
  three scripts are sequences of calls, between which other clients write and compact.
  `txn-rev-main-sub` decodes main and sub revisions from the records of its saved snapshot, in the order of their sub revisions (`BySub`).
* `Bolt`: the user store over several runs on one file, each statement a step, and the experiments with
  one reader and one writer. bbolt is external: one writer, snapshots, and a commit that needs more file
  waits for the readers.
* `FileLock`: `flock` is external; each goroutine has a file of its own, and its calls may fail.
* `LeaderLease`: time goes in units of `RenewDeadline`. `age` is how long ago a process saw the Lease
  change, `renewed` how long ago a leader renewed it. A timer that is due fires before time goes on.
* `ConfigMapWatch`: `history[r]` is the write that made revision `r`. `view` is what lists and events have told the
  program, `position` the revision they have come to, `listed` the revision of the last list. In
  informer mode `ReflectorOpen` asks for `staleRV` the first time, whatever was listed. Other
  clients write, and the server compacts, at any time. `Fatal` stands for every error path of
  `main`, `CleanupList`/`CleanupOne` for the deferred deletion.
* `CacheAside`: `Shorten` inserts the row and deletes the key from the cache, `Expand` asks the cache, asks the
  table and keeps what that gave; each is a step of its own and may fail. `hash` is any function from URLs to keys, so that keys may collide. The cache may lose an entry at any time;
  a placeholder that remembers a missing row may expire.
* `AsyncStart`: the steps of `run` and of `finish` (send the error, close `stopCh`, close `errCh`), of the
  interrupt handler and of both selects. `main`'s return ends the process.

### Goroutines

A program of `LockPrograms`, `ChannelPrograms`, `TimerPrograms` or `ServicePrograms` is data: the
instructions of each of its goroutines, its channels with their capacities and its variables. An instruction stands for a
statement of the Go code that another goroutine can notice: lock, unlock, wait, signal, broadcast,
send, receive, close, a select with its alternatives, starting a goroutine, a write to shared memory. `Goroutines`
gives the instructions their meaning in one action each: a mutex, the condition
variable of the mutex `mu`, channels with the two-sided step of an unbuffered send, `select` over every alternative that can go,
wait groups, contexts, panics (a send on a closed channel, a second close, two writes on one connection)
and the end of the process with its `main`.
A sleep is the gap between two instructions and a timer may fire at any moment. Calls that may fail draw their result from a set.

## 3. Runs

| run | instance | states | shows |
|---|---|---|---|
| `LinearizableRead` | 3 readers, confirmed index 2, 3 applied | 106 000 | no lost token, batch or wake-up, no double close, freshness, refinement of `ReadBarrier`, every reader returns |
| `RaftNode` | 2 voters, 2 terms, 4 indexes, 2 deaths, snapshot every 2 with 1 entry kept, all conducts | 139 000 | durability before sending, promises kept, applied is chosen, and the only way to unusable files |
| `RaftCluster` | 3 nodes, both scripts, 1 deposition in each: anywhere in `raft`, before the first leader is found in `wal-restart` | 1 057 000 | agreement, what was waited for stays, silence after stop, a majority commits |
| `Transfer` | 3 calls, 1 id, accounts A (open, 3) and B, amounts 2 and -1 | 128 000 | conservation, only a negative amount overdraws, retry after the answer, every call answered |
| `CowTree` | 2 trees, 3 keys, 2 values of the first, 7 nodes, 3 contexts; trees symmetric | 745 000 | ownership, read-only sharing, refinement of `TreeCopies` |
| `Services` | eight programs, see below | 287 000 | what is read back, one holder, the reason before the stop, quiet after it, consistent views, convergence, everybody gets through |
| `Goroutines` | 41 programs: 3 rounds, 3 workers, 2 items, the numbers 2 and 4 | 108 000 | who is stuck, who is served, no panic, whole streams, who is waited for, `main` returns |
| `RaftNode_replay` | one restart after an overwrite | violation | see findings |
| `RaftNode_crash_install` | one death during an installed snapshot | violation | see findings |
| `Transfer_twice` | two calls, one id | violation | see findings |
| `Wal_merged` | two keys, two `Put`s, values of one word | violation | see findings |
| `Goroutines_manual` | the program `manual` | violation | see findings |

The properties of `Services` speak of the program that runs: `ReadsBack` of `wal`, `etcd`, `bolt` and `cache`,
`OneHolder` of `flock` and `lease`, `ErrorBeforeStop` and `QuietAfterStop` of `async`, `ViewIsConsistent` and
`NeverBackAgain` of `watch`, `Converges` of `watch`, `ProgramsEnd` of `flock`, `bolt` and `async`,
`SwapOverwritesWhatWasRead` of `etcd`.

`StuckOnlyWhereShown` names the five programs in which nobody may be able to go on, and says that there are no others; `WaitersAreServed` relates waiters and
what they wait for, `StreamsAreWhole` what was taken from a pipeline and what was sent into it, `WaitedForAll` the end of `main` and of those
its wait group counts.

### Bounds

* Three readers are enough for a batch of two and a batch of one, and for a reader whose token is
  dropped because another one's is in the channel; index 2 of 3 lets the apply goroutine be before, at
  and past the confirmed index.
* In `RaftNode`, two deaths allow a death during recovery from a death; four indexes with a snapshot
  every two entries allow two snapshots with a compaction in between, and a WAL with entries before,
  across and after a snapshot. Two terms give one overwrite.
* In `RaftCluster` one deposition gives a stale leader in every step of the script of `raft`. In `wal-restart` it falls before the
  first leader is found (`Deposing`): that leaves replaced entries in the WAL of a node, so that the restart may be
  well or misread, depending on the snapshot; a deposition anywhere exceeds what TLC finishes in minutes. Terms are bounded by
  the number of elections. The theorems below hold for any number of depositions, at any step.
* Three calls with one id give two concurrent duplicates and a third call behind the mutex, or one after the answer; the amount
  2 fits the balance once and not twice, the amount -1 passes every check.
* `CowTree` has the tree and the clone of `main`. Three keys give a root with two children and a path of three; seven nodes
  are the three of the origin with copies of a root and a child on both sides: a clone updates a child it has inherited
  (`cow/main.go:70`, `77`), before and after the origin does. Three contexts are those of one `NewTree` and one `Clone`.
* `Wal`: two `Put`s and one death (`MaxPuts`, `MaxDeaths`) give a torn line with a line appended to it, and a whole line before
  or after; two plain values and one with a blank. `EtcdMvcc`: two steps of other clients (`MaxOthers`) are
  a write and a compaction between any two calls; one more put (`MorePuts`) for the hundred of the code. `Bolt`: three
  runs (`MaxRuns`), so that the second has a run before and after. `FileLock`: one failing call (`MaxFailures`) of any kind.
  `LeaderLease`: two processes and four updates of the Lease (`MaxVersion`), which take the lead from the one to the other and back.
  `CacheAside`: two callers, two URLs, two keys, three calls (`MaxCalls`): a collision, a repeated URL and a lookup that crosses an
  insertion. `AsyncStart`: two background tasks (`MaxTicks`).
* `ConfigMapWatch`: one foreign write (`MaxForeign`) falls between any two steps of the program; two churn operations are a write that
  stays and a write that is deleted; compaction is not bounded.
* `Goroutines`: the loops of ten and more rounds are three (`Rounds`), which is more than the queue of two
  that `cond` waits for; equal workers are three (`Workers`), so that one may be served, one wait and one
  come late; pipelines take two items (`Items`) drawn from a prime and a composite number (`Numbers`).

### Fairness

* Goroutines that can run do run: weak fairness of each reader, loop, apply goroutine, server
  goroutine, node, goroutine of `Goroutines` and of `main`. Go schedules runnable goroutines.
  `MainReturns` is asked of the programs whose `main` does not run for ever.
* `sync.Mutex` hands the lock to a waiter after a millisecond: strong fairness of `Lock` in `Transfer`. The kernel wakes those who
  wait for a `flock`: strong fairness of each goroutine of `FileLock`.
* Timers fire where the code waits for one (`AsyncStart`, and the sleeps inside transactions of `Bolt`); no other deadline is
  relied upon.
* `RaftCluster`: one weak fairness condition for all steps that lead forward; the property assumes that
  the leader `main` found stays one and that no deadline passes.
* `ConfigMapWatch`: requests are answered (weak), and a watch that is opened again and again
  delivers events (strong), since a watch lasts up to `--watch-timeout`. Nothing makes the program end, other
  clients write or the server compact.
* Never fair: deaths, interrupts, deadlines, lost connections, failing calls, foreign writes.

## 4. Theorems

Checked by TLAPS for every value of the constants that satisfies the named assumptions.

**LinearizableReadProofs** (from `ConstantsAssumption`: `Confirmed <= MaxApplied`, both natural). The
checked invariants are not inductive: they do not say which batches the loop still has to notify. `IInv` adds
`Batches` (every batch before the one being served is notified, the served one is not, and it is not the
current one), `Held` (readers hold notifiers that exist, and return "ok" only from closed ones) and `Applied` (the
trigger runs at most one step behind the store, and the loop passes its wait only behind the trigger).
From it: `TypeCorrect`, `SignalNeverLost`, `BatchNeverDropped`, `WakeupNeverLost`, `ClosedOnce`,
and `Implementation`: each step is a step of `ReadBarrier` or a stutter.

**RaftClusterProofs** (from `ClusterAssumption`: finitely many nodes, numbered from 1, and bounds that are natural).
`StateMachinesAgree` and `WaitedIsCommitted` say nothing of the logs they rest on. `RaftInv` does: a term is voted for by a majority
(`Voted`), so that a new one is above all others; terms grow along a log (`Ordered`); a term has one leader, who has every entry
of it (`OneLeader`, `LeaderHasAll`); logs with an entry of one term agree up to it (`Matching`); and what is
committed is in the logs of a majority and in every log with an entry of a later term (`Kept`). Each step of the library preserves it
(`ElectStep`, `ReplicateStep`, `CommitStep`, `AppendStep`, and `RaftRests` for the others), and `Grows`: no log and no commit
index loses anything committed. The step that matters is the election: its majority meets the one that
holds a committed entry (`MajoritiesMeet`), and whoever is up to date with the node in both has the entry. Above
it, `Applies` relates `kv` and the run loop to the log, `Waits` extends `WaitedIsCommitted` over the restart, and `Stops` says
that a node that main no longer waits for has left its loop and is not the leader main writes to.
From these: `TypeCorrect`, `Agreement`, `WaitedStays`, `Silence`. All are about clusters none of whose starts has
misread its WAL (`Sound`: a misread start is an end, elsewhere the invariant holds). That is a hypothesis on the behaviour of
the code, not a bound: with a replaced entry above the snapshot `load` gives a node another log, and it
may apply what the others never committed (`RaftNode_replay`). The largest and least of a finite set (`Extremes`) come from the
well-founded inclusion of its subsets.

**RaftNodeProofs** (from `RaftNodeAssumption` and `~FollowMisread`: no node that has booted from a misread WAL is
followed. That hypothesis is part of each theorem; without it the properties are false, as `RaftNode_replay` shows.) The
checked properties compare memory and files at single points of the loop, and say nothing of the points between. `IInv` does:
`Machine` (the state machine and every snapshot, on disk or received, hold a beginning of the chosen log), `Memory` (the
log in memory has no gap and holds the chosen entries up to the commit index), `Ready` and `Pending` (what the Ready
being handled brings, and what it leaves to apply), `DiskHard` (the last hard state of the WAL is the one in memory or the
one about to be), `DiskEntries` (the entries of the WAL leave no gap after the snapshot and reach the commit index; *replayed*
they are the log in memory, and read in order they are the chosen ones) and `Promises`. There is a lemma for every
action; those that matter are `AppendWALInv` (one more record in the WAL is one more step of the replay: `Written`, `ReplayOne`),
`MaybeSnapshotInv` (the compaction cuts the memory only, so that the WAL must stay right above any newer snapshot) and `BootInv` (what
`load` reads in order from a WAL without overwritten entries is what a replay gives: `ReadInOrder`).
From it: `Typed`, `AppliedStaysChosen`, `SendsWhatIsDurable`, `RestartFailsOnlyInInstall`, `PromisesStayKept`.

**CowTreeProofs** (from `CowAssumption`). `TypeOK /\ Ownership` is inductive. The step that matters is
a copy: it takes over the children of a node reachable from the copying tree, and if another tree owned one of
them, `OwnedParents` would carry that ownership up the path to a node of the writer. `TypeCorrect`,
`OwnershipHolds`, `SharedStaysReadOnly`.
`TreesAreIndependent` is the refinement: `CowTree` implements `TreeCopies` with `Get` for the maps. `RefInv` adds to the
ownership that the heap has no cycle (`Acyclic`: nodes can be ranked with children below their parents) and that a writer is on the walk of its
key (`OnPath`). Without a cycle there is exactly one function that answers every node by the answer of the next one on
the walk (`WalksAgree`, `AnswerIs`, by induction on the rank), and it is what `Get` computes. Two heaps then answer alike
on a set of nodes that no walk leaves and on which they agree. What a tree does not own is such a set (`ForeignIsClosed`), and a
writer writes only nodes its tree owns: so no other tree changes (`OthersAnswer`). In its own tree a copy answers as its original (`CopyAnswers`),
so that `UpsertRoot` and `Descend` change no answer, and the last step of an `Upsert` changes that of one key (`LeafAnswers`, `ValueAnswers`).

**TransferProofs** (from `TransferAssumption`: accounts opened are accounts, amounts are integers, the opening balance is
natural, no call is named `"free"`). `OnlyNegativeOverdraws` needs `Mutex` (only the holder is
between lock and release) and with it `Checked` (the balance checked is still there when it is debited). `Recorded` (answered
ids are recorded) and `Retries` (a call that arrived after the answer gets no further than the lookup) carry
`RetryIsSafe`. `MoneyStays` is about a sum over the accounts: a sum does not depend on the order in which it is taken
(`DataInduction`), so that a debit and the credit that follows it leave it alone, also when both are of one account.
`TypeCorrect`, `DebitsStayCovered`, `RetryIsSafe`, `MoneyStays`.

**ServicesProofs** (from `ServicesAssumption`). An invariant for each of the eight programs, under the condition that
it is the one that runs.

* `FlockInv`: who is between lock and close holds the lock, and the file stays until all are done. `LeaseInv`: a leader is the holder
  of the Lease, and nobody has seen it unchanged for longer than the leader has not renewed it; since
  `RenewDeadline < LeaseDuration`, the leader gives up before anybody takes over. `OneHolderAlways`.
* `AsyncInv`: an error is in the channel, or was taken, before `stopCh` closes. `ReasonBeforeStop`, `QuietFromThenOn`.
* `CacheInv`: rows are never overwritten, and what a call carries to the cache was in the table. `KeysAreKept`.
* `WatchInv`: on the way from the stale revision to that of the list, a name has what it had at the revision the
  events have come to, or still what the list said (`WatchView`); and `position` is behind `listed` only where `WatchPhases` says so.
  `ViewStaysConsistent`, `NeverGoesBackAgain`.
* `WalInv`: for every key there is a place in the synced part of the file that holds what was acknowledged, and after it there
  are only pieces of what was tried since (`HoldsFrom`). What `recover` makes of such a file, torn lines included, follows
  line by line (`RecoverSteps`, `RecoverGives`).
* `BoltInv`: the statement main is at decides which users the bucket holds, whatever an earlier run was cut short at, so that each
  `getUser` is answered with the user after the one it asks for; who has got through once has left an index no later run can read.
* `EtcdInv`: for `mvcc`, each revision has one record, those of the three puts are there unless compacted, and the record read
  before the swap has not changed; for `txn`, the four writes of the transaction have one revision to themselves, so that
  the backend shows them in the order in which they were asked for (`TxnBackend`).
* From these `WhatIsReadBack` (of `WalInv`, `EtcdInv`, `BoltInv` and `CacheInv`), `SwapsWhatWasRead`.

**DataInduction**. The induction schemes of the prover's library take an operator as a parameter, which its back-ends cannot instantiate.
Here they are stated of sets instead (a property is the set of what has it) and derived from the library's facts on well-founded
relations: `NumberInduction`, `BoundedInduction`, `SubsetInduction`, `SequenceInduction`. A fold is a function of what was folded so far and the next element
(`StepsExist`, `FoldExists`), which turns `FoldLeft`, `MapThenSumSet` and the recursive functions of the models into one
equation per element.

Only model-checked:

* every liveness property (`EveryReaderReturns`, `CommittedIsApplied`, `MajorityStillCommits`, `EveryCallIsAnswered`, `Converges`, `ProgramsEnd`,
  `MainReturns`): fairness and `ENABLED` are out of the prover's reach;
* the invariants of `Goroutines`. Its programs are data that the actions execute: what holds of the 41 programs does not follow from
  the actions but from each program's code, so that a proof needs an inductive invariant for each of them, and `StuckOnlyWhereShown` is
  about `ENABLED` besides.

## 5. Findings

* `RaftNode_replay`: `load` concatenates the entries of all WAL records (`etcd/raft-wal-restart/main.go:228`); an entry that a later
  record overwrote comes back after a restart, and the node applies what the cluster never committed.
* `RaftNode_crash_install`: the snapshot of a leader is saved before the hard state that goes with it
  (`main.go:412`); after a death in between, `RestartNode` panics. `OnlyInstallBreaksRestart` shows that this is the
  only way.
* `Transfer_twice`: the id is looked up outside the mutex (`uuid2/main.go:41`), so two calls with one id both transfer.
* `Wal_merged`: a write that fails half way leaves a line without its end; the next `Put` goes on in that line, returns nil, and
  is lost to the next instance (`wal/main.go:47`, against line 143).
* `Goroutines_manual`: the loop that retries a failed list (`kubernetes/client-go/informer/manual/main.go:51-69`) never looks
  at the context; once that is over every list fails and the loop goes on for ever.

Met while modelling, without a run of their own:

* The compaction of `raft-wal-restart` (`main.go:513`) does not shrink `wal.log`, although its README (line 49) says so.
* `getUser` of `etcd/bbolt` (`main.go:74-80`) reads the record asked for and the one after it: it returns the data of the
  second, and finds the first only if there is a second. `AnswersNextUser` says what it returns instead of what
  its README (line 58) shows.
* A value with a blank is written to `wal.log` and not read back from it (`wal/main.go:84`).
* `log.Fatalf` of `informer-410-gone-real` (`main.go:79`) skips the deferred deletion that `--cleanup` promises "at exit" (line 95):
  after a fatal error, what this or an earlier run has created stays.
* 0 and 1 count as prime in `concurrency/fan`.
* A negative amount passes the check of `uuid2/main.go:51`.
* The programs of `ShownStuck`: both goroutines of `dead-lock`; `main` of `sync/once`; eaters of
  `etcd-example` that miss the broadcast (`main.go:41`); the stages behind the generator of `pipeline`, which never closes its stream; the handlers
  of `websocket/v1` after a failed write, since `break` leaves the mutex locked (`server.go:49`).
* `websocket/v2` writes to a connection from two goroutines (`server.go:118`), on which gorilla/websocket panics.
* A short URL may not be found for a while after it was given out, when a lookup crosses its insertion
  (`shorturlmodel_gen.go:67`).

## 6. Not modelled

* **Write errors and torn records of `raft-wal-restart`** (`main.go:379`, `200`). A record is written whole or not at all. With write
  errors the model would only restate that durability is lost once they are ignored; a torn record makes `load` fail
  for good.
* **Some error paths that change no state of their own**: `NewWAL` failing to open or to read its file, `Close` failing to write its
  end marker (`wal`), `Accept` failing in `concurrency/netpool`, a deletion failing in the deferred cleanup of
  `informer-410-gone-real`. The program reports them and ends or goes on as without them.
* **`Update` and `Delete` of the short URL model**, which no service calls.
* **`etcd/metcd`** is unfinished and does not compile: `newRaftNode` returns its channels in another order and of other
  types than `main.go:27` takes them, and `serveChannels` neither appends, sends nor applies. What it shares with
  `raft-wal-restart` is modelled there.
* **Programs that keep no state between two steps of their own**: `etcd/etcd-bbolt`, the B tree benchmarks, `etcd/wal/log`,
  `fsync`, `loadbalancer`, `priority-queue`, `ring-buffer`, `go-zero/cache`, `ristretto-cache`, `io/message-codec`, `mmap`, `hex`,
  `chunkenc`, `murmur`, `time/afterfunc`, `task-scheduler`. They have one goroutine and one behaviour, which a test covers.
* **Programs whose behaviour is a library's or a server's**: `mysql`, `gorm`, `mongo`, `es`, `asynq`, `kafka`,
  `go-zero/delayqueue`, `go-zero/queue`, `redis/pipeline`, `zookeeper`, `limiter`, `grpc`, `etcd/grpc`, `gin`, `http`, `jwt`, `prometheus`,
  `pushgateway`, `exporter`, `ladon`, `go-zero/configcenter`, `go-zero/log`, `go-zero/mr`, `verify`, `excel`, `goplantuml`, `gitlab-plugin`, and
  the single requests and printing informers of `client-go` and `kubernetes/client-go`. They make a call and print its answer; delivery, retries,
  transactions and recovery are not in this code.
* **`client-go/webhook`, `kubebuilder`**: scaffolding with empty reconcilers; the validation of a Book compares its
  name with two constants and keeps nothing.
* **Generated code** (`*.pb.go`, `zz_generated*`, goctl handlers and configuration) and tests.
