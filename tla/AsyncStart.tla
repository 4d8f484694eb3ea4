------------------------------- MODULE AsyncStart -------------------------------
(***************************************************************************)
(* The asynchronous start and stop of src/etcd/async-start: a server        *)
(* goroutine, the interrupt handler that cancels its context, and main,      *)
(* which waits first for readyCh or stopCh and then for errCh or stopCh.     *)
(* The process ends with main, whatever the others are doing.               *)
(***************************************************************************)
EXTENDS Naturals

CONSTANT MaxTicks  \* bound on the background tasks of one run

VARIABLES FailStartup, \* the configuration
          cancelled,   \* the context's Done channel is closed
          readyCh, stopCh, errChClosed, \* TRUE iff closed
          errCh,       \* what is in the buffered channel: "none" or "error"
          server,      \* where the server goroutine is
          err,         \* the argument of finish
          ticks,       \* background tasks done
          sigCh,       \* signals in the one-slot signal channel
          handler,     \* where the interrupt handler is
          main         \* where main is, or how it ended

channels == <<readyCh, stopCh, errChClosed, errCh>>
vars == <<FailStartup, cancelled, channels, server, err, ticks, sigCh, handler, main>>

Reports == {"error", "closed", "stopped"}

TypeOK == /\ FailStartup \in BOOLEAN /\ cancelled \in BOOLEAN
          /\ readyCh \in BOOLEAN /\ stopCh \in BOOLEAN /\ errChClosed \in BOOLEAN
          /\ errCh \in {"none", "error"} /\ err \in {"none", "error"}
          /\ server \in {"starting", "started", "running", "send", "closeStop",
                         "closeErr", "done"}
          /\ ticks \in 0..MaxTicks
          /\ sigCh \in 0..1
          /\ handler \in {"waiting", "closing", "done"}
          /\ main \in {"starting", "listening"} \cup Reports

Init == /\ FailStartup \in BOOLEAN
        /\ cancelled = FALSE
        /\ readyCh = FALSE /\ stopCh = FALSE /\ errChClosed = FALSE
        /\ errCh = "none"
        /\ server = "starting" /\ err = "none"
        /\ ticks = 0
        /\ sigCh = 0
        /\ handler = "waiting"
        /\ main = "starting"

Alive == main \notin Reports

ServerGoes(from, to) == Alive /\ server = from /\ server' = to

(* run *)
CancelledAtStart == /\ ServerGoes("starting", "closeStop")
                    /\ cancelled
                    /\ UNCHANGED <<FailStartup, err, cancelled, channels, ticks, sigCh,
                                   handler, main>>

(* The timer may win the select against a cancelled context.                 *)
StartTimer == /\ ServerGoes("starting", "started")
              /\ UNCHANGED <<FailStartup, err, cancelled, channels, ticks, sigCh, handler, main>>


Fail == /\ ServerGoes("started", "send")
        /\ FailStartup
        /\ err' = "error"
        /\ UNCHANGED <<FailStartup, cancelled, channels, ticks, sigCh, handler, main>>

Ready == /\ ServerGoes("started", "running")
         /\ ~FailStartup
         /\ readyCh' = TRUE
         /\ UNCHANGED <<FailStartup, err, cancelled, stopCh, errChClosed, errCh, ticks, sigCh,
                        handler, main>>


Tick == /\ ServerGoes("running", "running")
        /\ ticks < MaxTicks
        /\ ticks' = ticks + 1
        /\ UNCHANGED <<FailStartup, err, cancelled, channels, sigCh, handler, main>>

(* Done of the context or the run timer.  The timer is always due in the end *)
(* and nothing is said about when.                                           *)
RunEnds == /\ ServerGoes("running", "closeStop")
           /\ UNCHANGED <<FailStartup, err, cancelled, channels, ticks, sigCh, handler, main>>

(* Mutant: a send that gives up when nobody is receiving. *)
SendOrDrop == /\ ServerGoes("send", "closeStop")
              /\ errCh' = IF main = "listening" THEN "error" ELSE errCh
              /\ UNCHANGED <<FailStartup, err, cancelled, readyCh, stopCh, errChClosed, ticks,
                             sigCh, handler, main>>

(* finish: the send never blocks, the channel has room for one error.        *)
SendError == /\ ServerGoes("send", "closeStop")
             /\ errCh' = "error"
             /\ UNCHANGED <<FailStartup, err, cancelled, readyCh, stopCh, errChClosed, ticks,
                            sigCh, handler, main>>

CloseStop == /\ ServerGoes("closeStop", "closeErr")
             /\ stopCh' = TRUE
             /\ UNCHANGED <<FailStartup, err, cancelled, readyCh, errChClosed, errCh, ticks,
                            sigCh, handler, main>>

(* Mutant: the timer's case forgets to return. *)
CloseErrAndLoop == /\ ServerGoes("closeErr", "running")
                   /\ errChClosed' = TRUE
                   /\ UNCHANGED <<FailStartup, err, cancelled, readyCh, stopCh, errCh,
                                  ticks, sigCh, handler, main>>

CloseErr == /\ ServerGoes("closeErr", "done")
            /\ errChClosed' = TRUE
            /\ UNCHANGED <<FailStartup, err, cancelled, readyCh, stopCh, errCh, ticks, sigCh,
                           handler, main>>

Serve == \/ CancelledAtStart \/ StartTimer \/ Fail \/ Ready \/ Tick \/ RunEnds
         \/ SendError \/ CloseStop \/ CloseErr

(* registerInterruptHandler: one signal is kept, the handler serves one.     *)
Interrupt == /\ Alive
             /\ sigCh = 0
             /\ sigCh' = 1
             /\ UNCHANGED <<FailStartup, err, cancelled, channels, server, ticks, handler, main>>

TakeSignal == /\ Alive
              /\ handler = "waiting" /\ sigCh = 1
              /\ handler' = "closing" /\ sigCh' = 0
              /\ UNCHANGED <<FailStartup, err, cancelled, channels, server, ticks, main>>

Close == /\ Alive
         /\ handler = "closing"
         /\ handler' = "done"
         /\ cancelled' = TRUE
         /\ UNCHANGED <<FailStartup, err, channels, server, ticks, sigCh, main>>

(* startAsyncServer's select, then that of main.                             *)
WaitReady == /\ main = "starting"
             /\ readyCh \/ stopCh
             /\ main' = "listening"
             /\ UNCHANGED <<FailStartup, err, cancelled, channels, server, ticks, sigCh, handler>>

(* A buffered error comes out of errCh even after its close.                 *)
ReceiveErr == /\ main = "listening"
              /\ \/ errCh = "error" /\ main' = "error" /\ errCh' = "none"
                 \/ errCh = "none" /\ errChClosed /\ main' = "closed" /\ UNCHANGED errCh
              /\ UNCHANGED <<FailStartup, err, cancelled, readyCh, stopCh, errChClosed, server,
                             ticks, sigCh, handler>>

ReceiveStop == /\ main = "listening"
               /\ stopCh
               /\ main' = "stopped"
               /\ UNCHANGED <<FailStartup, err, cancelled, channels, server, ticks, sigCh, handler>>

Main == WaitReady \/ ReceiveErr \/ ReceiveStop

Exited == ~Alive /\ UNCHANGED vars

Next == Serve \/ Interrupt \/ TakeSignal \/ Close \/ Main \/ Exited

Spec == Init /\ [][Next]_vars

(* Timers fire and runnable goroutines run; nobody has to send a signal.     *)
StartEnds == Fail \/ Ready
Finish == SendError \/ CloseStop \/ CloseErr
Fairness == /\ WF_vars(Main)
            /\ WF_vars(StartTimer) /\ WF_vars(StartEnds)
            /\ WF_vars(RunEnds)
            /\ WF_vars(Finish)

FairSpec == Spec /\ Fairness

-------------------------------------------------------------------------------
(* Who learns of the stop can learn the reason: the error of a failed start  *)
(* is in errCh before stopCh is closed (lines 97-101), and it stays there    *)
(* for the caller that picked stopCh first.                                  *)
ErrorBeforeStop ==
    stopCh /\ err = "error" => errCh = "error" \/ main = "error"

(* Nothing is served and no channel is closed again once stopCh is closed.   *)
Quiet == stopCh => /\ readyCh' = readyCh /\ ticks' = ticks
                   /\ (errCh' = errCh \/ main' = "error")
QuietAfterStop == [][Quiet]_vars

(* main always returns: the server closes stopCh on each of its ways out.    *)
MainReturns == <>(main \in Reports)
================================================================================
