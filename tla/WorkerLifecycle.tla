--------------------------- MODULE WorkerLifecycle ---------------------------
(***************************************************************************)
(* The life of an ExpirationWorker: Run waits for a signal or for Stop     *)
(* while a goroutine, runWorker, expires members on every tick; the two    *)
(* and their callers meet on Go channels.  What a tick does in Redis is in *)
(* module ExpirationWorker; here it is a pass over some boards.            *)
(*                                                                         *)
(* A goroutine that finds nothing ready in a select is parked: the first   *)
(* send or close that concerns it decides which branch it takes.           *)
(***************************************************************************)
EXTENDS Process, Integers

CONSTANTS
    MaxStops,   \* bound on the calls of Stop
    MaxBoards   \* bound on the boards of a pass

ASSUME WorkerBounds == MaxStops \in Nat /\ MaxBoards \in Nat

VARIABLES
    run,        \* where Run is
    stop,       \* the channel w.stop, of capacity 1
    shouldEnd,  \* the channel shouldEnd, of capacity 1
    runner,     \* where runWorker is
    tick,       \* whether the ticker's channel, of capacity 1, holds a tick
    toVisit,    \* boards left in this pass
    stops       \* how often Stop was called

workerVars == <<run, stop, shouldEnd, runner, tick, toVisit, stops>>

Channel == {"empty", "full", "closed"}

RunStates == {"new", "failed", "configured", "notified", "parked", "stopping",
              "closeSignals", "closeShouldEnd", "closeStop", "returned"}

RunnerStates == {"none", "select", "parked", "list", "visit", "ended"}

WorkerInit ==
    /\ run = "new"
    /\ stop = "empty"
    /\ shouldEnd = "empty"
    /\ runner = "none"
    /\ tick = FALSE
    /\ toVisit = 0
    /\ stops = 0

WorkerTypeOK ==
    /\ run \in RunStates
    /\ stop \in Channel
    /\ shouldEnd \in Channel
    /\ runner \in RunnerStates
    /\ tick \in BOOLEAN
    /\ toVisit \in 0 .. MaxBoards
    /\ stops \in 0 .. MaxStops

-----------------------------------------------------------------------------
(* The command and Run                                                     *)

\* The configuration file is read, or the command ends with Fatal.
GetExpirationWorker ==
    /\ run = "new"
    /\ \/ run' = "configured" /\ UNCHANGED <<process, faults>>
       \/ /\ Fault
          /\ run' = "failed"
          /\ process' = IF embedded THEN process ELSE "fatal"
    /\ UNCHANGED <<command, embedded, signals, stop, shouldEnd, runner, tick, toVisit, stops>>

\* Mutant of StartRun: w.stop is closed when Run begins, not when it ends.
StartRunClosing ==
    /\ run = "configured"
    /\ run' = "notified"
    /\ runner' = "select"
    /\ stop' = "closed"
    /\ UNCHANGED <<processVars, shouldEnd, tick, toVisit, stops>>

\* Run subscribes to the signals and starts runWorker ...
StartRun ==
    /\ run = "configured"
    /\ run' = "notified"
    /\ runner' = "select"
    /\ UNCHANGED <<processVars, stop, shouldEnd, tick, toVisit, stops>>

\* ... and waits, unless Stop came before.
WaitForStop ==
    /\ run = "notified"
    /\ IF stop = "full"
       THEN stop' = "empty" /\ run' = "stopping"
       ELSE run' = "parked" /\ UNCHANGED stop
    /\ UNCHANGED <<processVars, shouldEnd, runner, tick, toVisit, stops>>

\* A runWorker parked in its select takes the branch of shouldEnd; another
\* finds the channel as it is left.
TellRunner(state) ==
    IF runner = "parked"
    THEN /\ runner' = "ended"
         /\ shouldEnd' = IF state = "full" THEN "empty" ELSE state
    ELSE shouldEnd' = state /\ UNCHANGED runner

\* shouldEnd <- true
EndRunner ==
    /\ run = "stopping"
    /\ TellRunner("full")
    /\ run' = "closeSignals"
    /\ UNCHANGED <<processVars, stop, tick, toVisit, stops>>

\* close(sigChan), still subscribed
CloseSignals ==
    /\ run = "closeSignals"
    /\ run' = "closeShouldEnd"
    /\ UNCHANGED <<processVars, stop, shouldEnd, runner, tick, toVisit, stops>>

\* Mutant of CloseShouldEnd: shouldEnd is drained instead.
CloseShouldEndDrained ==
    /\ run = "closeShouldEnd"
    /\ shouldEnd' = "empty"
    /\ run' = "closeStop"
    /\ UNCHANGED <<processVars, stop, runner, tick, toVisit, stops>>

\* close(shouldEnd): what it holds can still be received, and then it is always
\* ready, which to runWorker is the same.
CloseShouldEnd ==
    /\ run = "closeShouldEnd"
    /\ TellRunner("closed")
    /\ run' = "closeStop"
    /\ UNCHANGED <<processVars, stop, tick, toVisit, stops>>

\* close(w.stop), and Run returns.
CloseStop ==
    /\ run = "closeStop"
    /\ stop' = "closed"
    /\ run' = "returned"
    /\ UNCHANGED <<processVars, shouldEnd, runner, tick, toVisit, stops>>

\* The worker command has nothing else to do: the process ends, runWorker in
\* the middle of a pass or not.
ExitWorker ==
    /\ run = "returned"
    /\ ~embedded
    /\ process' = "exited"
    /\ UNCHANGED <<command, embedded, signals, faults, workerVars>>

-----------------------------------------------------------------------------
(* Its callers                                                             *)

\* Stop: sends on w.stop, which panics once Run has closed it, and blocks
\* while it is full.
Stop ==
    /\ embedded
    /\ run \notin {"new", "failed"}
    /\ stops < MaxStops /\ stops' = stops + 1
    /\ \/ run = "parked" /\ run' = "stopping" /\ UNCHANGED <<process, stop>>
       \/ run # "parked" /\ stop = "empty" /\ stop' = "full" /\ UNCHANGED <<process, run>>
       \/ stop = "closed" /\ process' = "panicked" /\ UNCHANGED <<run, stop>>
    /\ UNCHANGED <<command, embedded, signals, faults, shouldEnd, runner, tick, toVisit>>

\* A signal ends a process that has not subscribed to it; it is dropped unless
\* Run is in its select, sigChan having no buffer; and the runtime's send on
\* the closed sigChan panics.
SignalWorker ==
    /\ Signalled
    /\ \/ /\ run \in {"new", "failed", "configured"}
          /\ process' = "killed" /\ UNCHANGED run
       \/ /\ run = "parked"
          /\ run' = "stopping" /\ UNCHANGED process
       \/ /\ run \in {"notified", "stopping", "closeSignals"}
          /\ UNCHANGED <<process, run>>
       \/ /\ run \in {"closeShouldEnd", "closeStop", "returned"}
          /\ process' = "panicked" /\ UNCHANGED run
    /\ UNCHANGED <<command, embedded, faults, stop, shouldEnd, runner, tick, toVisit, stops>>

-----------------------------------------------------------------------------
(* runWorker and expireMembers; results and errors always find their reader *)

TickerFires ==
    /\ runner \notin {"none", "ended"}
    /\ ~tick
    /\ IF runner = "parked"
       THEN runner' = "list" /\ UNCHANGED tick
       ELSE tick' = TRUE /\ UNCHANGED runner
    /\ UNCHANGED <<processVars, run, stop, shouldEnd, toVisit, stops>>

\* case <-shouldEnd
RunnerEnds ==
    /\ runner = "select"
    /\ shouldEnd # "empty"
    /\ runner' = "ended"
    /\ shouldEnd' = IF shouldEnd = "full" THEN "empty" ELSE shouldEnd
    /\ UNCHANGED <<processVars, run, stop, tick, toVisit, stops>>

\* case <-ticker.C, ready or not shouldEnd
BeginPass ==
    /\ runner = "select"
    /\ tick
    /\ tick' = FALSE
    /\ runner' = "list"
    /\ UNCHANGED <<processVars, run, stop, shouldEnd, toVisit, stops>>

RunnerParks ==
    /\ runner = "select"
    /\ shouldEnd = "empty" /\ ~tick
    /\ runner' = "parked"
    /\ UNCHANGED <<processVars, run, stop, shouldEnd, tick, toVisit, stops>>

\* SMEMBERS; if it fails the error is sent and the pass goes on over no board.
ListBoards ==
    /\ runner = "list"
    /\ \/ (\E n \in 0 .. MaxBoards : toVisit' = n) /\ UNCHANGED faults
       \/ Fault /\ toVisit' = 0
    /\ runner' = "visit"
    /\ UNCHANGED <<command, embedded, process, signals, run, stop, shouldEnd, tick, stops>>

\* Mutant of VisitBoard: the loop runs once too often.
VisitBoardOnceMore ==
    /\ runner = "visit"
    /\ toVisit' = toVisit - 1
    /\ UNCHANGED <<processVars, runner, run, stop, shouldEnd, tick, stops>>

\* A board; if it fails the error is sent and the pass is over.
VisitBoard ==
    /\ runner = "visit"
    /\ toVisit > 0
    /\ \/ toVisit' = toVisit - 1 /\ UNCHANGED <<faults, runner>>
       \/ Fault /\ toVisit' = 0 /\ runner' = "select"
    /\ UNCHANGED <<command, embedded, process, signals, run, stop, shouldEnd, tick, stops>>

\* The results are sent.
Report ==
    /\ runner = "visit"
    /\ toVisit = 0
    /\ runner' = "select"
    /\ UNCHANGED <<processVars, run, stop, shouldEnd, tick, toVisit, stops>>

RunStep ==
    GetExpirationWorker \/ StartRun \/ WaitForStop \/ EndRunner \/ CloseSignals
        \/ CloseShouldEnd \/ CloseStop \/ ExitWorker

PassStep == RunnerParks \/ BeginPass \/ ListBoards \/ VisitBoard \/ Report

WorkerNext == RunStep \/ PassStep \/ RunnerEnds \/ TickerFires \/ Stop \/ SignalWorker

=============================================================================
