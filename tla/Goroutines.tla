------------------------------- MODULE Goroutines -------------------------------
(***************************************************************************)
(* The Go runtime as the programs of LockPrograms, ChannelPrograms,          *)
(* TimerPrograms and ServicePrograms use it: goroutines, mutexes, a condition  *)
(* (that of the mutex "mu"), channels and select, and panics.  One program    *)
(* runs; it ends with its main.                                              *)
(***************************************************************************)
EXTENDS ServicePrograms, FiniteSets

CONSTANT Runs  \* the names of the programs to run

AllPrograms ==
    [cond |-> Cond, fish |-> Fish, hallway |-> Hallway, sums |-> Sums, count |-> Count,
     greedy |-> Greedy, once |-> Once, waiters |-> Waiters, buffer |-> Buffer,
     profile |-> Profile, greetings |-> Greetings, consumed |-> Consumed, pool |-> Pool,
     fan |-> Fan, repeat |-> Repeat, pipeline |-> Pipeline, tee |-> Tee,
     heartbeat |-> Heartbeat,
     errgroup |-> Errgroup, cancel |-> CancelContext, timeout |-> TimeoutContext,
     leak |-> Leak, leakRead |-> LeakRead, leakWrite |-> LeakWrite, ticker |-> Ticker,
     after |-> After, actors |-> Actors, ants |-> Ants, backoff |-> Backoff, poll |-> Poll,
     pipe |-> Pipe, rate |-> Rate, multirate |-> MultiRate, typerate |-> TypeRate,
     socketServer1 |-> SocketServer1, socketClient1 |-> SocketClient1,
     socketServer2 |-> SocketServer2,
     netpool |-> Dialled(NetworkDaemon), warmpool |-> Dialled(WarmNetworkDaemon),
     pubsub |-> PubSub, manual |-> Manual]
ASSUME RunsAssumption == Runs \subseteq DOMAIN AllPrograms /\ Runs # {}

VARIABLES program,  \* the program that runs
          pc,       \* the instruction each goroutine is at, 0 when it does not run
          locks,    \* who holds each mutex
          parked,   \* who waits on the condition, oldest first
          chans,    \* what is in each channel
          closed,   \* the closed channels
          mem,      \* the variables
          over      \* how the process ended: "no", "exit" or "panic"
vars == <<program, pc, locks, parked, chans, closed, mem, over>>

Code == AllPrograms[program].code
Cap == AllPrograms[program].cap
Free == "free"

Init == /\ program \in Runs
        /\ pc = [g \in DOMAIN Code |-> IF g = "main" THEN 1 ELSE 0]
        /\ locks = [m \in {"mu", "nu"} |-> Free]
        /\ parked = <<>>
        /\ chans = [ch \in DOMAIN Cap |-> <<>>]
        /\ closed = {}
        /\ mem = AllPrograms[program].mem
        /\ over = "no"

Running(g) == g \in DOMAIN pc /\ pc[g] # 0
I(g) == Code[g][pc[g]]
On(g, ops) == /\ over = "no" /\ Running(g) /\ I(g)[1] \in ops
Place(g, to) == IF to > Len(Code[g]) THEN 0 ELSE to
(* The process ends with its main. *)
EndsWithMain == over' = IF pc'["main"] = 0 THEN "exit" ELSE "no"
Jump(g, to) == pc' = [pc EXCEPT ![g] = Place(g, to)] /\ EndsWithMain
Advance(g) == Jump(g, pc[g] + 1)

(* Starting goroutines *)
Start(g, gs) == /\ pc' = [h \in DOMAIN pc |-> IF h = g THEN Place(g, pc[g] + 1)
                                              ELSE IF h \in gs THEN 1 ELSE pc[h]]
                /\ EndsWithMain
                /\ UNCHANGED <<program, locks, parked, chans, closed, mem>>
Spawn(g) == On(g, {"spawn"}) /\ Start(g, I(g)[2])
Go(g) == On(g, {"go"}) /\ Start(g, {I(g)[2] \o ToString(mem[I(g)[3]] + 1)})

(* sync.Mutex and sync.Cond: wait leaves the lock, and is followed by lock.   *)
Lock(g) == /\ On(g, {"lock"}) /\ locks[I(g)[2]] = Free
           /\ \A i \in 1..Len(parked) : parked[i] # g
           /\ locks' = [locks EXCEPT ![I(g)[2]] = g]
           /\ Advance(g) /\ UNCHANGED <<program, parked, chans, closed, mem>>
Unlock(g) == /\ On(g, {"unlock"})
             /\ locks' = [locks EXCEPT ![I(g)[2]] = Free]
             /\ Advance(g) /\ UNCHANGED <<program, parked, chans, closed, mem>>
Wait(g) == /\ On(g, {"wait"})
           /\ locks' = [locks EXCEPT !["mu"] = Free]
           /\ parked' = Append(parked, g)
           /\ Advance(g) /\ UNCHANGED <<program, chans, closed, mem>>
Signal(g) == /\ On(g, {"signal", "broadcast"})
             /\ parked' = IF I(g)[1] = "broadcast" \/ parked = <<>> THEN <<>> ELSE Tail(parked)
             /\ Advance(g) /\ UNCHANGED <<program, locks, chans, closed, mem>>

(* A second close, a send on a closed channel, a count below zero and the       *)
(* panics of a library end the process.                                      *)
Panics(g) == \/ On(g, {"panic"})
             \/ On(g, {"close"}) /\ I(g)[2] \in closed
             \/ On(g, {"select"}) /\ \E i \in 1..Len(I(g)[2]) :
                                      I(g)[2][i][1] = "send" /\ I(g)[2][i][2] \in closed
             \/ On(g, {"add"}) /\ mem[I(g)[2]] + I(g)[3] < 0

(* Variables and jumps *)
Set(g, x, v) == /\ mem' = [mem EXCEPT ![x] = v]
                /\ Advance(g) /\ UNCHANGED <<program, locks, parked, chans, closed>>
Assign(g) == /\ On(g, {"set", "add", "double", "copy", "any", "push"}) /\ ~Panics(g)
             /\ LET i == I(g) x == i[2] IN
                CASE i[1] = "set"    -> Set(g, x, i[3])
                  [] i[1] = "add"    -> Set(g, x, mem[x] + i[3])
                  [] i[1] = "double" -> Set(g, x, 2 * mem[x])
                  [] i[1] = "copy"   -> Set(g, x, mem[i[3]])
                  [] i[1] = "any"    -> \E v \in i[3] : Set(g, x, v)
                  [] i[1] = "push"   -> Set(g, x, Append(mem[x], mem[i[3]]))
Pop(g) == /\ On(g, {"pop"}) /\ mem[I(g)[3]] # <<>>
          /\ mem' = [mem EXCEPT ![I(g)[2]] = Head(mem[I(g)[3]]), ![I(g)[3]] = Tail(@)]
          /\ Advance(g) /\ UNCHANGED <<program, locks, parked, chans, closed>>
Branch(g) == /\ On(g, {"if", "unless", "goto"})
             /\ LET i == I(g) IN
                IF \/ i[1] = "goto"
                   \/ i[1] = "if" /\ mem[i[2]] \in i[3]
                   \/ i[1] = "unless" /\ mem[i[2]] \notin i[3]
                THEN Jump(g, i[Len(i)]) ELSE Advance(g)
             /\ UNCHANGED <<program, locks, parked, chans, closed, mem>>
Await(g) == /\ On(g, {"await"}) /\ mem[I(g)[2]] \in I(g)[3]
            /\ Advance(g) /\ UNCHANGED <<program, locks, parked, chans, closed, mem>>

(* Channels: an alternative is <<"send", channel, variable, to>>,             *)
(* <<"recv", channel, variable, to, to if closed>> or <<"after", to>>; the third *)
(* part of a select says where to go when none is ready, 0 if it blocks.      *)
Alternatives(g) == IF Running(g) /\ I(g)[1] = "select"
                   THEN {I(g)[2][i] : i \in 1..Len(I(g)[2])} ELSE {}
Offers(g, ch, op) == {a \in Alternatives(g) : a[1] = op /\ a[2] = ch}
SomeoneElse(g, ch, op) == \E h \in DOMAIN pc \ {g} : Offers(h, ch, op) # {}
Ready(g, a) ==
    CASE a[1] = "after" -> TRUE
      [] a[1] = "send"  -> \/ a[2] \in closed \/ Len(chans[a[2]]) < Cap[a[2]]
                           \/ SomeoneElse(g, a[2], "recv")
      [] a[1] = "recv"  -> \/ a[2] \in closed \/ chans[a[2]] # <<>>
                           \/ SomeoneElse(g, a[2], "send")
Selecting(g) == over = "no" /\ Running(g)

SendTo(g) == /\ Selecting(g)
            /\ \E a \in Alternatives(g) :
                 /\ a[1] = "send" /\ a[2] \notin closed /\ Len(chans[a[2]]) < Cap[a[2]]
                 /\ chans' = [chans EXCEPT ![a[2]] = Append(@, mem[a[3]])]
                 /\ Jump(g, a[4])
            /\ UNCHANGED <<program, locks, parked, closed, mem>>
Receive(g) == /\ Selecting(g)
              /\ \E a \in Alternatives(g) :
                   /\ a[1] = "recv" /\ chans[a[2]] # <<>>
                   /\ mem' = [mem EXCEPT ![a[3]] = Head(chans[a[2]])]
                   /\ chans' = [chans EXCEPT ![a[2]] = Tail(@)]
                   /\ Jump(g, a[4])
              /\ UNCHANGED <<program, locks, parked, closed>>
ReceiveClosed(g) == /\ Selecting(g)
                    /\ \E a \in Alternatives(g) :
                         /\ a[1] = "recv" /\ a[2] \in closed /\ chans[a[2]] = <<>>
                         /\ mem' = [mem EXCEPT ![a[3]] = 0]
                         /\ Jump(g, a[5])
                    /\ UNCHANGED <<program, locks, parked, chans, closed>>
(* An unbuffered channel hands the value from g to h.                        *)
Meet(g, h) == /\ Selecting(g) /\ Running(h) /\ g # h
              /\ \E a \in Alternatives(g), b \in Alternatives(h) :
                   /\ a[1] = "send" /\ b[1] = "recv" /\ a[2] = b[2] /\ Cap[a[2]] = 0
                   /\ a[2] \notin closed
                   /\ mem' = [mem EXCEPT ![b[3]] = mem[a[3]]]
                   /\ pc' = [pc EXCEPT ![g] = Place(g, a[4]), ![h] = Place(h, b[4])]
                   /\ EndsWithMain
              /\ UNCHANGED <<program, locks, parked, chans, closed>>
Timeout(g) == /\ Selecting(g)
              /\ \E a \in Alternatives(g) : a[1] = "after" /\ Jump(g, a[2])
              /\ UNCHANGED <<program, locks, parked, chans, closed, mem>>
Default(g) == /\ On(g, {"select"}) /\ I(g)[3] # 0
              /\ \A a \in Alternatives(g) : ~Ready(g, a)
              /\ Jump(g, I(g)[3])
              /\ UNCHANGED <<program, locks, parked, chans, closed, mem>>
CloseChannel(g) == /\ On(g, {"close", "cancel"}) /\ (I(g)[1] = "cancel" \/ I(g)[2] \notin closed)
             /\ closed' = closed \cup {I(g)[2]}
             /\ Advance(g) /\ UNCHANGED <<program, locks, parked, chans, mem>>

(* The end of the process *)
Panic(g) == /\ Panics(g)
            /\ over' = "panic"
            /\ UNCHANGED <<program, pc, locks, parked, chans, closed, mem>>
Exit(g) == /\ On(g, {"exit"})
           /\ over' = "exit"
           /\ UNCHANGED <<program, pc, locks, parked, chans, closed, mem>>

Step(g) == \/ Spawn(g) \/ Go(g) \/ Lock(g) \/ Unlock(g) \/ Wait(g) \/ Signal(g)
           \/ Assign(g) \/ Pop(g) \/ Branch(g) \/ Await(g)
           \/ SendTo(g) \/ Receive(g) \/ ReceiveClosed(g) \/ Timeout(g) \/ Default(g)
           \/ (\E h \in DOMAIN pc : Meet(g, h))
           \/ CloseChannel(g) \/ Panic(g) \/ Exit(g)

Next == \E g \in DOMAIN pc : Step(g)

(* The programs whose main may not come to an end: those shown below to get     *)
(* stuck, those that serve or wait for ever on purpose, and those at the mercy   *)
(* of a source that need never give what they look for.                       *)
ShownStuck == {"sums", "once", "fish", "pipeline", "socketServer1"}
Endless == ShownStuck \cup {"greedy", "profile", "leak", "leakRead", "leakWrite", "fan", "poll",
                            "ticker", "socketClient1", "socketServer2", "pubsub"}

(* Go runs every goroutine that can run, so each that stays able to go on does; *)
(* a receiver is served by the step of its sender.  Of the endless programs      *)
(* nothing is asked that would need it.                                      *)
AllGoroutines == UNION {DOMAIN AllPrograms[p].code : p \in Runs}
Fairness == \A g \in AllGoroutines : WF_vars(program \notin Endless /\ g \in DOMAIN pc /\ Step(g))
Spec == Init /\ [][Next]_vars /\ Fairness

-------------------------------------------------------------------------------
(* Nobody can go on; a main that waits on purpose when all others have ended   *)
(* does not count.                                                           *)
Resting == /\ Running("main") /\ I("main") = Block
           /\ \A g \in DOMAIN pc \ {"main"} : ~Running(g)
Stuck == over = "no" /\ ~ENABLED Next /\ ~Resting
StuckOnlyWhereShown == Stuck => program \in ShownStuck

(* Who waits for a lock or a condition has somebody to serve it.  A lock is held *)
(* by a goroutine that still runs, except where a failed echo leaves the loop    *)
(* of websocket/v1 without its Unlock (server.go:49).  A condition that holds has *)
(* somebody who will look at it: cond2 never has items while both consumers are   *)
(* parked, cond never waits with no remover left to signal, the waiters of        *)
(* sync/cond are all woken but two.  Who is in the table of websocket/v2 still    *)
(* has its handler (server.go:77-92).                                          *)
HoldersRun == program # "socketServer1" =>
                 \A m \in DOMAIN locks : locks[m] # Free => Running(locks[m])
NoLostWakeup ==
    CASE program = "buffer"  -> mem.buffer > 0 /\ locks["mu"] # "producer" => Len(parked) < 2
      [] program = "cond"    -> parked # <<>> => \E g \in DOMAIN pc \ {"main"} : Running(g)
      [] program = "waiters" -> mem.sharedResource /\ ~Running("notifier") => Len(parked) <= 2
      [] OTHER               -> TRUE
RegisteredRun == program = "socketServer2" => /\ mem.registered1 => Running("handler1")
                                              /\ mem.registered2 => Running("handler2")
WaitersAreServed == HoldersRun /\ NoLostWakeup /\ RegisteredRun

(* Nothing is closed twice, sent on a closed channel or counted below zero.   *)
(* Only the server of websocket/v2 can panic: it writes to a connection from   *)
(* two goroutines (server.go:66, 118).                                       *)
NoPanic == over = "panic" => program = "socketServer2"

(* What comes out of a stream is what was put in, in order, and all of it when  *)
(* the program ends: Items primes of fan, 2(2i + 1) of pipeline, every item in   *)
(* both logs of tee, every result of heartbeat, all bytes of the pipe, and a    *)
(* run without gaps of what was published to a subscriber of pubsub.           *)
Upto(n, f(_)) == [i \in 1..n |-> f(i)]
Prefix(s, t) == Len(s) <= Len(t) /\ s = SubSeq(t, 1, Len(s))
RunOf(s, t) == \E k \in 1..Len(t) + 1 : Prefix(s, SubSeq(t, k, Len(t)))
Delivered(g, m, got, queue) ==
    mem[got] \o (IF Running(g) /\ I(g) = <<"push", got, m>> THEN <<mem[m]>> ELSE <<>>) \o mem[queue]
StreamsAreWhole ==
    CASE program \in {"fan", "repeat"} ->
            /\ over = "exit" => Len(mem.out) = Items
            /\ program = "fan" => \A i \in 1..Len(mem.out) : IsPrime(mem.out[i])
      [] program = "pipeline"  -> Prefix(mem.out, Upto(Items, LAMBDA i : 2 * (2 * i + 1)))
      [] program = "tee"       -> \A log \in {"fileLog", "consoleLog"} :
                                     /\ Prefix(mem[log], Upto(Items, LAMBDA i : i))
                                     /\ over = "exit" => Len(mem[log]) >= Items - 1
      [] program = "heartbeat" -> over = "exit" => mem.out = Upto(Items, LAMBDA i : i - 1)
      [] program = "pipe"      -> over = "exit" => mem.out = Pieces
      [] program = "pubsub"    -> /\ RunOf(Delivered("subscribe", "m1", "got1", "queue1"), mem.sent)
                                  /\ RunOf(Delivered("subscribe1", "m2", "got2", "queue2"), mem.sent)
      [] OTHER                 -> TRUE

(* When main has come to its end, what it waited for is there: every actor has  *)
(* returned, every task has run, every instance is back in its pool, an error    *)
(* of a failed task is reported, no increment under the lock is lost, nobody    *)
(* shared a side of the hallway, and the first poll has timed out.             *)
WaitedForAll ==
    CASE program = "actors"   -> over = "exit" => \A g \in DOMAIN pc : ~Running(g)
      [] program = "ants"     -> over = "exit" => \A g \in Named("t", 4) : pc[g] # 1
      [] program = "pool"     -> over = "exit" => Len(chans.pool) = mem.created
      [] program = "errgroup" -> over = "exit" => mem.err \in {2, 4}
      [] program = "profile"  -> Resting => mem.count = 2
      [] program = "hallway"  -> \A i, j \in 1..Len(mem.won) : i # j => mem.won[i] # mem.won[j]
      [] program = "poll"     -> over = "exit" => mem.first = "timeout"
      [] OTHER                -> TRUE

(* Every other main ends, whatever the order the goroutines run in.            *)
MainReturns == program \notin Endless \cup {"manual"} ~> over = "exit"

(* "The timeout of the whole loop" (informer/manual/main.go:30): once the        *)
(* context is over, the loop ends.                                           *)
ListAndWatchEnds == program = "manual" /\ "done" \in closed ~> over = "exit"
================================================================================
