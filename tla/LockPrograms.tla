----------------------------- MODULE LockPrograms -----------------------------
(***************************************************************************)
(* The programs of src/concurrency and src/sync built on locks, conditions   *)
(* and wait groups, as the code of their goroutines.  A program is a record   *)
(* [code, cap, mem]: the instructions of each goroutine, the capacity of each *)
(* channel and the initial variables.  Goroutines.tla gives the instructions  *)
(* their meaning; a jump names the instruction it goes to, 0 ends.            *)
(***************************************************************************)
EXTENDS Integers, Sequences, TLC

CONSTANTS Rounds,  \* rounds of a producer's loop (10 in cond, no bound in cond2)
          Workers  \* equal goroutines: 3 waiters, 5 eaters, 10, 100 or more in the code
ASSUME LockAssumption == Rounds \in Nat \ {0} /\ Workers \in 2..5

Named(prefix, n) == {prefix \o ToString(i) : i \in 1..n}
NoChannel == [nil |-> 0]
NoVariables == [none |-> 0]
Memory(extra) == [none |-> 0, one |-> 1, wg |-> 0] @@ extra
Program(code, cap, extra) == [code |-> code, cap |-> cap, mem |-> Memory(extra)]

(* Start the goroutines with the wait group at their number, and wait.        *)
SpawnAndWait(gs, n) == << <<"add", "wg", n>>, <<"spawn", gs>>, <<"await", "wg", {0}>> >>
Critical(body) == << <<"lock", "mu">> >> \o body \o << <<"unlock", "mu">> >>
Done == << <<"add", "wg", -1>> >>
(* Until a timer fires, whenever that is. *)
Sleep(to) == <<"select", << <<"after", to>> >>, 0>>

(* Mutant: the remover does not signal. *)
RemoverSilent == Critical(<< <<"add", "queue", -1>> >>)
(* cond: main waits when two are in the queue; each round starts a goroutine *)
(* that removes one and signals after its unlock.                            *)
Remover == Critical(<< <<"add", "queue", -1>> >>) \o << <<"signal">> >>
Cond == LET r == Named("r", Rounds) IN Program(
    [g \in r |-> Remover] @@
    [main |-> << <<"lock", "mu">>,
                 <<"unless", "queue", {2}, 5>>, <<"wait">>, <<"lock", "mu">>,
           (*5*) <<"add", "queue", 1>>, <<"go", "r", "i">>, <<"unlock", "mu">>,
                 <<"add", "i", 1>>, <<"unless", "i", {Rounds}, 1>> >>],
    NoChannel, [queue |-> 0, i |-> 0])

(* etcd-example: an eater tells cook to cook if cook is listening; cook sets  *)
(* the condition and broadcasts without the lock.                            *)
Eat == << <<"lock", "mu">>, <<"select", << <<"send", "wait", "one", 3>> >>, 3>>,
    (*3*) <<"if", "condition", {TRUE}, 7>>, <<"wait">>, <<"lock", "mu">>, <<"goto", 3>>,
    (*7*) <<"unlock", "mu">> >> \o Done
Cook == << <<"select", << <<"recv", "wait", "none", 2, 0>> >>, 0>>,
           <<"set", "condition", TRUE>>, <<"broadcast">>, <<"goto", 1>> >>
Fish == LET e == Named("e", Workers) IN Program(
    [g \in e |-> Eat] @@ [cook |-> Cook] @@
    [main |-> << <<"spawn", {"cook"}>> >> \o SpawnAndWait(e, Workers)],
    [wait |-> 0], [condition |-> FALSE])

(* live-lock: two walkers step aside in a hallway to the beat of a ticker.    *)
TakeStep == << <<"lock", "mu">>, <<"wait">>, <<"lock", "mu">>, <<"unlock", "mu">> >>
TryDir(dir, success) == << <<"add", dir, 1>> >> \o TakeStep
                        \o << <<"if", dir, {1}, success>> >> \o TakeStep
                        \o << <<"add", dir, -1>> >>
Walk(i) == TryDir("left", 26) \o TryDir("right", 28)
    \o << <<"add", i, 1>>, <<"unless", i, {Rounds}, 1>>, <<"goto", 29>>,
   (*26*) <<"push", "won", "left side">>, <<"goto", 29>>,
   (*28*) <<"push", "won", "right side">> >> \o Done
Hallway == Program(
    [Alice |-> Walk("i"), Barbara |-> Walk("j"),
     tick |-> << <<"broadcast">>, <<"goto", 1>> >>,
     main |-> << <<"spawn", {"tick"}>> >> \o SpawnAndWait({"Alice", "Barbara"}, 2)],
    NoChannel, [left |-> 0, right |-> 0, i |-> 0, j |-> 0, won |-> <<>>]
               @@ ("left side" :> "left") @@ ("right side" :> "right"))

(* dead-lock: the two goroutines take the locks in opposite order, and nobody *)
(* counts the wait group down; dead-lock/temp: two unsynchronised increments. *)
Sum(first, second) == << <<"lock", first>>, <<"lock", second>>,
                         <<"unlock", second>>, <<"unlock", first>> >>
Sums == Program([aSum |-> Sum("nu", "mu"), bSum |-> Sum("mu", "nu"),
                 main |-> SpawnAndWait({"aSum", "bSum"}, 2)],
                NoChannel, NoVariables)
Increment(r) == << <<"copy", r, "count">>, <<"add", r, 1>>, <<"copy", "count", r>> >>
Count == Program([c1 |-> Increment("r1"), c2 |-> Increment("r2"),
                  main |-> << <<"spawn", {"c1", "c2"}>>, Sleep(3) >>],
                 NoChannel, [count |-> 0, r1 |-> 0, r2 |-> 0])

(* starved-lock: greedy never leaves its critical section; polite ends when    *)
(* its second is over.                                                       *)
Polite == Critical(<<>>) \o Critical(<<>>) \o Critical(<<>>)
          \o << <<"any", "late", BOOLEAN>>, <<"if", "late", {FALSE}, 1>> >> \o Done
Greedy == Program([greedy |-> << <<"lock", "mu">>, <<"goto", 2>> >>, polite |-> Polite,
                   main |-> SpawnAndWait({"greedy", "polite"}, 2)],
                  NoChannel, [late |-> FALSE])

(* sync/once: initA runs inside onceA, initB inside onceB, and asks onceA.     *)
Once == Program([main |-> << <<"lock", "mu">>, <<"lock", "nu">>, <<"lock", "mu">>,
                             <<"unlock", "mu">>, <<"unlock", "nu">>, <<"unlock", "mu">> >>],
                NoChannel, NoVariables)

(* sync/cond: the notifier wakes one of the waiters; sync/cond2: a producer    *)
(* and two consumers of an unbounded buffer.  main exits when it has slept.   *)
Waiter == << <<"lock", "mu">>,
       (*2*) <<"if", "sharedResource", {TRUE}, 6>>, <<"wait">>, <<"lock", "mu">>, <<"goto", 2>>,
       (*6*) <<"unlock", "mu">> >>
Notifier == Critical(<< <<"set", "sharedResource", TRUE>>, <<"signal">> >>)
Waiters == LET w == Named("w", 3) IN Program(
    [g \in w |-> Waiter] @@
    [notifier |-> Notifier, main |-> << <<"spawn", w \cup {"notifier"}>>, Sleep(3) >>],
    NoChannel, [sharedResource |-> FALSE])
Producer == Critical(<< <<"add", "buffer", 1>>, <<"signal">> >>)
            \o << <<"add", "i", 1>>, <<"unless", "i", {Rounds}, 1>> >>
Consumer == << <<"lock", "mu">>,
         (*2*) <<"unless", "buffer", {0}, 6>>, <<"wait">>, <<"lock", "mu">>, <<"goto", 2>>,
         (*6*) <<"add", "buffer", -1>>, <<"unlock", "mu">>, <<"goto", 1>> >>
Buffer == Program([producer |-> Producer, consumer1 |-> Consumer, consumer2 |-> Consumer,
                   main |-> << <<"spawn", {"producer", "consumer1", "consumer2"}>>, Sleep(3) >>],
                  NoChannel, [buffer |-> 0, i |-> 0])

(* pprof/mutex: increments under a lock, then main waits for ever; goroutines: *)
(* one print each; goroutines/mem: they count down and wait for ever.         *)
Adder(r) == Critical(Increment(r)) \o Done
Profile == Program([a1 |-> Adder("r1"), a2 |-> Adder("r2"),
                    main |-> SpawnAndWait({"a1", "a2"}, 2)
                             \o << <<"select", <<>>, 0>> >>],
                   NoChannel, [count |-> 0, r1 |-> 0, r2 |-> 0])
Greetings == LET s == Named("s", 3) IN
    Program([g \in s |-> Done] @@ [main |-> SpawnAndWait(s, 3)], NoChannel, NoVariables)
Noop == Done \o << <<"select", << <<"recv", "nil", "none", 0, 0>> >>, 0>> >>
Consumed == LET n == Named("n", Workers) IN
    Program([g \in n |-> Noop] @@ [main |-> SpawnAndWait(n, Workers)], NoChannel, NoVariables)

(* Mutant: Done before the instance is back. *)
UsePoolDoneFirst == << <<"select", << <<"recv", "pool", "none", 3, 0>>, <<"after", 2>> >>, 0>>,
                       <<"add", "created", 1>> >> \o Done
                    \o << <<"select", << <<"send", "pool", "one", 5>> >>, 0>> >>
(* concurrency/pool, sync/pool: a worker gets an idle instance or a new one    *)
(* and puts it back before its Done.  The pool is external.                  *)
UsePool == << <<"select", << <<"recv", "pool", "none", 3, 0>>, <<"after", 2>> >>, 0>>,
              <<"add", "created", 1>>,
        (*3*) <<"select", << <<"send", "pool", "one", 4>> >>, 0>> >> \o Done
Pool == LET u == Named("u", Workers) IN Program(
    [g \in u |-> UsePool] @@
    [main |-> << <<"add", "created", 1>>, <<"select", << <<"send", "pool", "one", 3>> >>, 0>> >>
              \o SpawnAndWait(u, Workers)],
    [pool |-> Workers + 1], [created |-> 0])
================================================================================
