----------------------------- MODULE TimerPrograms -----------------------------
(***************************************************************************)
(* The programs of src/concurrency, src/context, src/time, src/wait,         *)
(* src/actor, src/ants-pool and src/io that cancel, time out or retry, in the  *)
(* form of LockPrograms.  A sleep is the gap between two instructions, a timer *)
(* a goroutine or an "after" alternative that may fire at any moment; error    *)
(* groups, actor groups, pools, BackoffUntil, Poll and pipes are external.     *)
(***************************************************************************)
EXTENDS ChannelPrograms

(* errgroup: five tasks, of which two fail; the first error is kept.          *)
Task(id) == (IF id \in {2, 4} THEN << <<"if", "err", {2, 4}, 3>>, <<"set", "err", id>> >> ELSE <<>>)
            \o Done
Errgroup == LET t == Named("t", 5) IN Program(
    [g \in t |-> Task(CHOOSE i \in 1..5 : g = "t" \o ToString(i))] @@
    [main |-> SpawnAndWait(t, 5)], NoChannel, [err |-> 0])

(* context/cancel, context/timeout: tasks run until their context is over.    *)
RunningTask == << Cases(<< IfDone(0), <<"after", 1>> >>) >>
CancelContext == Program(
    [task1 |-> RunningTask, task2 |-> RunningTask,
     main |-> << <<"spawn", {"task1", "task2"}>>, Sleep(3), <<"cancel", "done">>, Sleep(5) >>],
    [done |-> 0], NoVariables)
TimeoutContext == Program(
    [task1 |-> RunningTask, task2 |-> RunningTask, timer |-> << <<"cancel", "done">> >>,
     main |-> << <<"spawn", {"timer", "task1", "task2"}>>, Sleep(3) >>],
    [done |-> 0], NoVariables)

(* errgroup/leak: a request starts a worker whose context ends by its timeout *)
(* or by the cancel of AfterFunc; leak/read: a range over a nil channel;       *)
(* leak/write: nobody receives the fourth number.                            *)
LeakyWorker == RunningTask
Leak == Program(
    [worker |-> LeakyWorker, timeout |-> << <<"cancel", "done">> >>,
     afterFunc |-> << <<"cancel", "done">> >>,
     handler |-> << <<"spawn", {"timeout", "worker", "afterFunc"}>> >>,
     main |-> << <<"spawn", {"handler"}>>, Block >>],
    [done |-> 0], NoVariables)
LeakRead == Program(
    [doWork |-> << Recv("nil", "none", 1, 2), Close("completed") >>,
     reader |-> << <<"spawn", {"doWork"}>>, Recv("completed", "none", 3, 3) >>,
     main |-> << <<"spawn", {"reader"}>>, <<"goto", 2>> >>],
    [nil |-> 0, completed |-> 0], NoVariables)
LeakWrite == Program(
    [rand |-> << Send("randStream", "one", 1) >>,
     main |-> << <<"spawn", {"rand"}>>, Recv("randStream", "none", 3, 3), <<"add", "i", 1>>,
                 <<"unless", "i", {3}, 2>>, <<"goto", 5>> >>],
    [randStream |-> 0], [i |-> 0])

(* time/ticker: the timer is reset twice, its third expiry goes to the select; time/after:  *)
(* a timer starts anew at each select.                                       *)
Ticker == Program(
    [timer |-> << Send("ticker", "one", 2) >>, jack |-> << Send("jacker", "one", 1) >>,
     watch |-> << Cases(<< <<"recv", "ticker", "none", 2, 2>>, <<"recv", "jacker", "none", 1, 1>> >>),
                  Send("stopCh", "one", 1) >>,
     main |-> << <<"spawn", {"timer"}>>, Recv("ticker", "none", 3, 3),
                 <<"spawn", {"timer"}>>, Recv("ticker", "none", 5, 5),
                 <<"spawn", {"timer", "jack", "watch"}>>, Recv("stopCh", "none", 0, 0) >>],
    [ticker |-> 1, jacker |-> 0, stopCh |-> 0], NoVariables)
After == Program(
    [sender |-> << Send("ch", "one", 0) >>,
     main |-> << <<"spawn", {"sender"}>>,
                 Cases(<< <<"recv", "ch", "none", 2, 2>>, <<"after", 0>> >>) >>],
    [ch |-> 0], NoVariables)

(* actor: when the first actor returns all are interrupted, and Run returns    *)
(* when all have.                                                            *)
Actor(cancel) == << Recv(cancel, "none", 2, 2), Send("errors", "one", 0) >>
Interrupt == << Close("cancel1"), Close("cancel2") >>
Actors == Program(
    [actor1 |-> Actor("cancel1"), actor2 |-> Actor("cancel2"),
     actor3 |-> << Send("errors", "one", 0) >>,
     main |-> << <<"spawn", {"actor1", "actor2", "actor3"}>>, Recv("errors", "none", 3, 3) >>
              \o Interrupt \o << Recv("errors", "none", 6, 6), Recv("errors", "none", 0, 0) >>],
    [cancel1 |-> 0, cancel2 |-> 0, errors |-> 3], NoVariables)

(* ants-pool: a submission that finds the pool full is counted down at once.  *)
Busy == << <<"add", "running", -1>> >>
(* Mutant: a refused submission stays counted. *)
SubmitUncounted == << <<"if", "running", {2}, 6>>, <<"add", "running", 1>>, <<"go", "t", "i">>,
                      <<"goto", 7>>, <<"goto", 7>> >>
Submit == << <<"if", "running", {2}, 6>>, <<"add", "running", 1>>, <<"go", "t", "i">>, <<"goto", 7>>,
       (*6*) <<"add", "wg", -1>> >>
Ants == LET t == Named("t", 4) IN Program(
    [g \in t |-> Done \o Busy] @@
    [main |-> << <<"add", "wg", 1>> >> \o Submit
              \o << <<"add", "i", 1>>, <<"unless", "i", {4}, 1>>, <<"await", "wg", {0}>> >>],
    NoChannel, [running |-> 0, i |-> 0])

(* concurrency/rate, multirate, typerate: calls wait for a token of each of     *)
(* their limiters, the slowest first; a full bucket takes no more tokens.  The  *)
(* limiters are external.                                                    *)
ReadFile(limiters) == [i \in 1..Len(limiters) |-> Recv(limiters[i], "none", i + 1, i + 1)] \o Done
Refill(limiter) == << <<"select", << <<"send", limiter, "one", 1>> >>, 1>> >>
Limited(read, resolve) ==
    LET f == Named("f", 2)
        used == {(read \o resolve)[i] : i \in 1..Len(read \o resolve)} IN Program(
    [g \in f |-> ReadFile(read)] @@ [resolve |-> ReadFile(resolve)] @@ [l \in used |-> Refill(l)] @@
    [main |-> << <<"spawn", used>> >> \o SpawnAndWait(f \cup {"resolve"}, 3)],
    [minute |-> 2, second |-> 1, disk |-> 1, network |-> 1], NoVariables)
Rate == Limited(<<"second">>, <<"second">>)
MultiRate == Limited(<<"minute", "second">>, <<"minute", "second">>)
TypeRate == Limited(<<"minute", "second", "disk">>, <<"minute", "second", "network">>)

(* Mutant: what is printed is what is returned. *)
TryOperationAsPrinted == BOOLEAN
(* wait/backoff: tryOperation fails whatever it prints, so that the timer      *)
(* alone closes stopCh; wait/poll: the first condition starts counting anew at *)
(* each call, the second does not.                                           *)
TryOperation == {FALSE}
Backoff == Program(
    [timer |-> << Close("stopCh") >>,
     main |-> << <<"spawn", {"timer"}>>,
                 <<"select", << <<"recv", "stopCh", "none", 0, 0>> >>, 3>>,
                 <<"any", "success", TryOperation>>, <<"if", "success", {FALSE}, 6>>,
                 Close("stopCh"),
           (*6*) Cases(<< <<"recv", "stopCh", "none", 0, 0>>, <<"after", 2>> >>) >>],
    [stopCh |-> 0], [success |-> FALSE])
WaitPoll(at, reset, met, out) ==
    << Cases(<< <<"after", at + 1>>, <<"after", at + 6>> >>),
       reset, <<"add", "counter", 1>>, <<"unless", "counter", {5}, at>>,
       <<"set", out, met>>, <<"goto", at + 7>>,
       <<"set", out, "timeout">> >>
Poll == Program(
    [main |-> WaitPoll(1, <<"set", "counter", 0>>, "met", "first")
           \o << <<"set", "counter", 0>> >>
           \o WaitPoll(9, <<"add", "counter", 0>>, "met", "second")],
    NoChannel, [counter |-> 0, first |-> "", second |-> ""])

(* io/pipe: a write of n bytes ends when reads of at most 5 have taken them;  *)
(* the reader sees the end of file when the writer has closed.               *)
Pieces == << 5, 1, 5, 4 >>
PipeWriter(out, bytes) ==
    << <<"pop", bytes, "pieces">>, Send(out, bytes, 3), <<"unless", "pieces", {<<>>}, 1>>, Close(out) >>
PipeReader(in, at) == << Recv(in, "p", at + 1, at + 3), <<"push", "out", "p">>, <<"goto", at>> >>
Pipe == Program(
    [writer |-> PipeWriter("pipe", "b"),
     snapshotWriter |-> << Send("snapshot", "one", 2), Close("snapshot") >>,
     main |-> << <<"spawn", {"writer"}>> >> \o PipeReader("pipe", 2)
           \o << <<"spawn", {"snapshotWriter"}>>, Recv("snapshot", "none", 6, 0) >>],
    [pipe |-> 0, snapshot |-> 0],
    [pieces |-> Pieces, b |-> 0, p |-> 0, out |-> <<>>])
================================================================================
