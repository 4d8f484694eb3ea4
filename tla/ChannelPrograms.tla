---------------------------- MODULE ChannelPrograms ----------------------------
(***************************************************************************)
(* The programs of src/concurrency, src/context, src/time, src/wait,         *)
(* src/actor, src/ants-pool and src/io whose goroutines meet on channels, in   *)
(* the form of LockPrograms.                                                 *)
(***************************************************************************)
EXTENDS LockPrograms

CONSTANTS Items,   \* values produced or taken (4, 5 or 10 in the code)
          Numbers  \* what the random source returns
ASSUME ChannelAssumption == Items \in Nat \ {0} /\ Numbers \subseteq Nat

(* One alternative and nothing else to do; from the next instruction on.      *)
Send(ch, x, to) == <<"select", << <<"send", ch, x, to>> >>, 0>>
Recv(ch, x, to, end) == <<"select", << <<"recv", ch, x, to, end>> >>, 0>>
Cases(alternatives) == <<"select", alternatives, 0>>
IfDone(to) == <<"recv", "done", "none", to, to>>
Close(ch) == <<"close", ch>>
Block == Cases(<<>>)

(* fan: random numbers, converted, searched by the finders, joined, and the   *)
(* first Items of them taken.  0 and 1 count as prime.                       *)
IsPrime(n) == \A i \in 2..(n - 1) : n % i # 0
Composites == {n \in Numbers : ~IsPrime(n)}
RepeatFn(v, out) == << <<"any", v, Numbers>>, Cases(<< IfDone(3), <<"send", out, v, 1>> >>),
                 (*3*) Close(out) >>
(* Mutant: take stops one short. *)
TakeShort(in, out) == << <<"if", "taken", {Items - 1}, 6>>,
                         Recv(in, "t", 3, 3),
                   (*3*) Cases(<< IfDone(6), <<"send", out, "t", 4>> >>),
                         <<"add", "taken", 1>>, <<"goto", 1>>,
                   (*6*) Close(out) >>
Take(in, out) == << <<"if", "taken", {Items}, 6>>,
                    Recv(in, "t", 3, 3),
              (*3*) Cases(<< IfDone(6), <<"send", out, "t", 4>> >>),
                    <<"add", "taken", 1>>, <<"goto", 1>>,
              (*6*) Close(out) >>
ToInt == << Recv("value", "v2", 2, 3), Cases(<< IfDone(3), <<"send", "int", "v2", 1>> >>),
      (*3*) Close("int") >>
PrimeFinder(n, out) == << Cases(<< IfDone(4), <<"recv", "int", n, 2, 4>> >>),
                          <<"if", n, Composites, 1>>,
                          Cases(<< IfDone(4), <<"send", out, n, 1>> >>),
                    (*4*) Close(out) >>
Multiplex(n, in) == << Recv(in, n, 2, 3),
                       Cases(<< IfDone(3), <<"send", "multiplexed", n, 1>> >>) >>
                    \o Done
PrintAll(in, x, at) == << Recv(in, x, at + 1, at + 3), <<"push", "out", x>>, <<"goto", at>>,
                          Close("done") >>
Fan == LET gs == [repeatFn |-> RepeatFn("v", "value"), toInt |-> ToInt,
                  finder1 |-> PrimeFinder("n1", "prime1"), finder2 |-> PrimeFinder("n2", "prime2"),
                  multiplex1 |-> Multiplex("m1", "prime1"),
                  multiplex2 |-> Multiplex("m2", "prime2"),
                  closer |-> << <<"await", "wg", {0}>>, Close("multiplexed") >>,
                  take |-> Take("multiplexed", "taken")]
       IN Program(
    gs @@ [main |-> << <<"add", "wg", 2>>, <<"spawn", DOMAIN gs>> >> \o PrintAll("taken", "p", 3)],
    [value |-> 0, int |-> 0, prime1 |-> 0, prime2 |-> 0, multiplexed |-> 0, taken |-> 0,
     done |-> 0],
    [v |-> 0, v2 |-> 0, n1 |-> 0, n2 |-> 0, m1 |-> 0, m2 |-> 0, t |-> 0, taken |-> 0,
     p |-> 0, out |-> <<>>])

(* pipeline/repeat: the same without finders.                                *)
Repeat == Program([repeatFn |-> RepeatFn("v", "value"), take |-> Take("value", "taken"),
                   main |-> << <<"spawn", {"repeatFn", "take"}>> >> \o PrintAll("taken", "p", 2)],
                  [value |-> 0, taken |-> 0, done |-> 0],
                  [v |-> 0, t |-> 0, taken |-> 0, p |-> 0, out |-> <<>>])

(* pipeline: 2(2i + 1) of the integers; the generator never closes its stream. *)
Generator == << <<"add", "g", 1>>, Cases(<< IfDone(0), <<"send", "int", "g", 3>> >>),
                <<"unless", "g", {Items}, 1>> >>
Stage(in, x, out, change) == << Recv(in, x, 2, 4), change,
                                Cases(<< IfDone(4), <<"send", out, x, 1>> >>),
                          (*4*) Close(out) >>
Multiply(in, x, out) == Stage(in, x, out, <<"double", x>>)
Add(in, x, out) == Stage(in, x, out, <<"add", x, 1>>)
Pipeline == Program(
    [generator |-> Generator, double1 |-> Multiply("int", "x1", "multiplied"),
     add |-> Add("multiplied", "x2", "added"), double2 |-> Multiply("added", "x3", "pipeline"),
     main |-> << <<"spawn", {"generator", "double1", "add", "double2"}>> >>
              \o PrintAll("pipeline", "p", 2)],
    [int |-> 0, multiplied |-> 0, added |-> 0, pipeline |-> 0, done |-> 0],
    [g |-> 0, x1 |-> 0, x2 |-> 0, x3 |-> 0, p |-> 0, out |-> <<>>])

(* tee: every item goes to both handlers, whose streams are never closed.     *)
Handler(stream, x, got) == << Cases(<< IfDone(0), <<"recv", stream, x, 2, 0>> >>),
                              <<"push", got, x>>, <<"goto", 1>> >>
TeeProducer == << <<"add", "i", 1>>, Send("fileStream", "i", 3), Send("consoleStream", "i", 4),
                  <<"unless", "i", {Items}, 1>> >> \o Done
Tee == Program(
    [file |-> Handler("fileStream", "f", "fileLog"),
     console |-> Handler("consoleStream", "c", "consoleLog"), producer |-> TeeProducer,
     main |-> << <<"spawn", {"file", "console"}>> >> \o SpawnAndWait({"producer"}, 1)
              \o << Close("done") >>],
    [fileStream |-> 0, consoleStream |-> 0, done |-> 0],
    [i |-> 0, f |-> 0, c |-> 0, fileLog |-> <<>>, consoleLog |-> <<>>])

(* heartbeat: a pulse before each result, dropped when nobody has taken the   *)
(* one before; the results are closed before the pulses.                     *)
DoWork == << <<"select", << <<"send", "heartbeat", "one", 2>> >>, 2>>,
             Cases(<< IfDone(5), <<"send", "work", "i", 3>> >>),
             <<"add", "i", 1>>, <<"unless", "i", {Items}, 1>>,
       (*5*) Close("work"), Close("heartbeat") >>
Heartbeat == Program(
    [work |-> DoWork,
     main |-> << <<"spawn", {"work"}>>,
                 Cases(<< <<"recv", "heartbeat", "none", 2, 5>>, <<"recv", "work", "p", 3, 5>> >>),
                 <<"push", "out", "p">>, <<"goto", 2>>,
           (*5*) Close("done") >>],
    [heartbeat |-> 1, work |-> 0, done |-> 0], [i |-> 0, p |-> 0, out |-> <<>>])
================================================================================
