---------------------------- MODULE ServicePrograms ----------------------------
(***************************************************************************)
(* The servers and clients of src/websocket, src/concurrency/netpool,         *)
(* src/redis/pubsub and src/kubernetes/client-go/informer/manual, in the form  *)
(* of LockPrograms.                                                          *)
(* Connections, Redis and the API server are external: a call of theirs may    *)
(* fail whenever it is made.                                                 *)
(***************************************************************************)
EXTENDS TimerPrograms

(* A call that may fail, with where to go then; its result is in x.           *)
Call(x, failed) == << <<"any", x, BOOLEAN>>, <<"if", x, {FALSE}, failed>> >>

(* websocket/v1 server: a failed upgrade panics in the handler, which net/http *)
(* recovers; a failed echo leaves the loop with the lock; the writer of a      *)
(* connection never ends.                                                    *)
SocketHandler(ok, writer) ==
    Call(ok, 0) \o << <<"spawn", {writer}>> >>
    \o Call(ok, 0) \o << <<"lock", "mu">> >> \o Call(ok, 0)
    \o << <<"unlock", "mu">>, <<"goto", 4>> >>
TestServerConnection == Critical(<<>>) \o << <<"goto", 1>> >>
SocketServer1 == Program(
    [handler1 |-> SocketHandler("ok1", "writer1"), writer1 |-> TestServerConnection,
     handler2 |-> SocketHandler("ok2", "writer2"), writer2 |-> TestServerConnection,
     main |-> << <<"spawn", {"handler1", "handler2"}>>, Block >>],
    NoChannel, [ok1 |-> FALSE, ok2 |-> FALSE])

(* websocket/v1 client: the signal is dropped when main is not at its select. *)
ReceiveHandler == << <<"any", "read", BOOLEAN>>, <<"if", "read", {TRUE}, 1>>, Close("done") >>
SocketClient1 == Program(
    [receive |-> ReceiveHandler,
     signal |-> << <<"select", << <<"send", "interrupt", "one", 0>> >>, 2>>, <<"set", "lost", TRUE>> >>,
     main |-> << <<"spawn", {"receive", "signal"}>>,
                 Cases(<< <<"after", 3>>, <<"recv", "interrupt", "none", 6, 6>> >>) >>
           \o Call("ok", 0) \o << <<"goto", 2>> >>
           \o Call("ok", 0)
           \o << Cases(<< <<"recv", "done", "none", 0, 0>>, <<"after", 0>> >>) >>],
    [interrupt |-> 0, done |-> 0], [read |-> FALSE, ok |-> FALSE, lost |-> FALSE])

(* websocket/v2 server: the table of clients is locked, the connections are    *)
(* not: a write that meets another on the same connection panics.             *)
WriteMessage(writing, panic) ==
    << <<"if", writing, {TRUE}, panic>>, <<"set", writing, TRUE>>, <<"set", writing, FALSE>> >>
(* Mutant: the entry is not deleted. *)
KeepClient(registered, value) ==
    Critical(<< IF value THEN <<"set", registered, TRUE>> ELSE <<"copy", registered, registered>> >>)
SetClient(registered, value) == Critical(<< <<"set", registered, value>> >>)
HandleConnection(ok, registered, writing) ==
    Call(ok, 0) \o SetClient(registered, TRUE)
    \o Call(ok, 14) \o WriteMessage(writing, 18) \o Call(ok, 14)
    \o << <<"goto", 6>> >>
    \o SetClient(registered, FALSE) \o << <<"goto", 0>>, <<"panic">> >>
GetClient(found, registered) == Critical(<< <<"copy", found, registered>> >>)
SendToClient(at, found, registered, writing, panic) ==
    << <<"if", found, {FALSE}, at + 8>> >> \o GetClient(found, registered)
    \o << <<"if", found, {FALSE}, at + 8>> >> \o WriteMessage(writing, panic)
SendToAll == Critical(<< <<"copy", "found1", "registered1">>, <<"copy", "found2", "registered2">> >>)
    \o SendToClient(5, "found1", "registered1", "writing1", 22)
    \o SendToClient(13, "found2", "registered2", "writing2", 22)
    \o << <<"goto", 1>>, <<"panic">> >>
SocketServer2 == Program(
    [handler1 |-> HandleConnection("ok1", "registered1", "writing1"),
     handler2 |-> HandleConnection("ok2", "registered2", "writing2"),
     ticker |-> SendToAll,
     main |-> << <<"spawn", {"ticker", "handler1", "handler2"}>>, Block >>],
    NoChannel,
    [ok1 |-> FALSE, registered1 |-> FALSE, writing1 |-> FALSE, found1 |-> FALSE,
     ok2 |-> FALSE, registered2 |-> FALSE, writing2 |-> FALSE, found2 |-> FALSE])

(* netpool: init waits until the daemon listens, which is fatal if it fails;   *)
(* the warm daemon serves with the instances of a pool filled before.         *)
NetworkDaemon == Call("ok", 6) \o Done
    \o << Recv("conn", "none", 5, 5), Send("reply", "one", 4), <<"exit">> >>
WarmNetworkDaemon == << Send("pool", "one", 2), Send("pool", "one", 3) >> \o Call("ok", 10) \o Done
    \o << Recv("conn", "none", 7, 7), Cases(<< <<"recv", "pool", "none", 8, 8>>, <<"after", 8>> >>),
          Send("pool", "one", 9), Send("reply", "one", 6), <<"exit">> >>
Dialled(daemon) == Program(
    [daemon |-> daemon,
     main |-> SpawnAndWait({"daemon"}, 1)
           \o << Send("conn", "one", 5), Recv("reply", "none", 6, 6), <<"add", "i", 1>>,
                 <<"unless", "i", {Items}, 4>> >>],
    [conn |-> 0, reply |-> 0, pool |-> Items + 2], [ok |-> FALSE, i |-> 0])

(* redis/pubsub: a message goes to who has subscribed when it is published.   *)
Subscribe(ok, subscribed, queue, m, got) ==
    Call(ok, 7) \o << <<"set", subscribed, TRUE>>,
                      <<"pop", m, queue>>, <<"push", got, m>>, <<"goto", 4>>, <<"exit">> >>
Publish == << <<"add", "i", 1>> >> \o Call("ok", 13)
    \o << <<"push", "sent", "i">>,
          <<"unless", "subscribed1", {TRUE}, 11>>, <<"push", "queue1", "i">>,
          <<"unless", "subscribed2", {TRUE}, 13>>, <<"push", "queue2", "i">>,
          <<"unless", "i", {Items}, 5>> >>
PubSub == Program(
    [subscribe |-> Subscribe("ok1", "subscribed1", "queue1", "m1", "got1"),
     subscribe1 |-> Subscribe("ok2", "subscribed2", "queue2", "m2", "got2"),
     main |-> Call("ok", 0) \o << <<"spawn", {"subscribe"}>>, <<"spawn", {"subscribe1"}>> >>
              \o Publish],
    NoChannel,
    [ok |-> FALSE, i |-> 0, sent |-> <<>>,
     ok1 |-> FALSE, subscribed1 |-> FALSE, queue1 |-> <<>>, m1 |-> 0, got1 |-> <<>>,
     ok2 |-> FALSE, subscribed2 |-> FALSE, queue2 |-> <<>>, m2 |-> 0, got2 |-> <<>>])

(* informer/manual: list in pages, then watch, until the context is over; a    *)
(* page that fails is asked for again, whatever the context.                 *)
ListPages(at) ==
    << <<"select", << IfDone(at + 1) >>, at + 2>>, <<"goto", at>> >> \o Call("ok", at)
    \o << <<"any", "more", BOOLEAN>>, <<"if", "more", {TRUE}, at>> >>
ListAndWatch == << <<"spawn", {"timeout"}>>, <<"select", << IfDone(0) >>, 3>> >>
    \o ListPages(3)
    \o << <<"select", << IfDone(2) >>, 10>> >> \o Call("ok", 2)
    \o << <<"set", "watching", TRUE>>, <<"spawn", {"watcher"}>>,
          <<"await", "watching", {FALSE}>>, <<"goto", 2>> >>
Watcher == << Cases(<< IfDone(4), <<"after", 2>> >>),
              <<"any", "event", BOOLEAN>>, <<"if", "event", {TRUE}, 1>>,
              <<"set", "watching", FALSE>> >>
Manual == Program([timeout |-> << <<"cancel", "done">> >>, watcher |-> Watcher, main |-> ListAndWatch],
                  [done |-> 0], [ok |-> FALSE, more |-> FALSE, event |-> FALSE, watching |-> FALSE])
================================================================================
