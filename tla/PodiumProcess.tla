---------------------------- MODULE PodiumProcess ----------------------------
(***************************************************************************)
(* A process of Podium: the API server or the worker, by its command or in *)
(* a program that embeds it, with the signals it gets, the calls it serves *)
(* and what fails around it.                                               *)
(***************************************************************************)
EXTENDS AppLifecycle, WorkerLifecycle

vars == <<processVars, appVars, workerVars>>

Init == ProcessInit /\ AppInit /\ WorkerInit

\* One step of the App, if that is what runs.
App(A) == Running("start") /\ A /\ UNCHANGED workerVars

Worker(A) == Running("worker") /\ A /\ UNCHANGED appVars

Next == App(AppNext) \/ Worker(WorkerNext)

Spec == Init /\ [][Next]_vars

\* Every goroutine that can go on does: handlers and Redis commands end, and a
\* timeout passes.  Of runWorker's select, the branch of shouldEnd is taken if
\* it is ready again and again: Go chooses among the ready branches at random.
\* No signal, Stop, GracefullStop, call or failure has to come.
FairSpec ==
    /\ Spec
    /\ WF_vars(App(StartStep))
    /\ WF_vars(App(GRPCStep)) /\ WF_vars(App(HTTPStep))
    /\ WF_vars(App(BothServersEnd)) /\ WF_vars(App(TickErrors)) /\ WF_vars(App(WaitForReady))
    /\ \A s \in Stoppers : WF_vars(App(StopStep(s)))
    /\ \A c \in Calls : WF_vars(App(CallStep(c)))
    /\ WF_vars(Worker(RunStep)) /\ WF_vars(Worker(PassStep))
    /\ SF_vars(Worker(RunnerEnds))

-----------------------------------------------------------------------------
(* Properties                                                              *)

\* Every variable keeps the shape the code's types and channels give it.
TypeOK == ProcessTypeOK /\ AppTypeOK /\ WorkerTypeOK

\* One request to stop, a signal or a Stop at whatever moment, never makes the
\* worker's process panic on a channel that Run has closed; two may.
OneStopNeverPanics ==
    command = "worker" /\ process = "panicked" => signals + stops >= 2

\* A Stop, before Run comes to wait for it or later, and a signal that Run
\* takes end the goroutine of Run as well, whatever pass it is in.
StopEndsWorker ==
    command = "worker" /\ (stops > 0 \/ run = "stopping")
        ~> runner = "ended" \/ process # "running"

\* The command, stopped by a signal, leaves without an answer only calls that
\* came to a server its GracefullStop did not find, or nothing at all: the gRPC
\* server first and HTTP after it are given the time for theirs.
GracefulExitCutsNothing ==
    process = "exited" /\ command = "start" /\ skipped = {} /\ faults = 0
        => \A c \in Calls : call[c] # "cut"

\* Whoever waited for WaitForReady is sure that GracefullStop finds both servers.
ReadyMeansStoppable == [][waiter = "ready" => skipped' = skipped]_vars

\* A signal that Start takes, a server that fails, and a GracefullStop that found
\* both servers make Start return, calls in progress or not.
StartReturns ==
    command = "start"
        /\ (main = "stopping" \/ "failed" \in {grpc, http}
              \/ (stopper["caller"] = "done" /\ skipped = {}))
        ~> main = "returned" \/ process # "running"

\* What docs/API.md says of /status: errorRate is a moving average of errors, so
\* errors come to show in it.
ErrorsShow == uncounted > 0 ~> rate > 0 \/ process # "running"

=============================================================================
