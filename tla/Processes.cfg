\* The API server and the worker, commands and embedded, started and stopped.
SPECIFICATION FairSpec
CONSTANTS
    c1 = c1  c2 = c2
    Calls = {c1}
    MaxSignals = 2
    MaxFaults = 1
    MaxStops = 2
    MaxBoards = 1
INVARIANTS TypeOK OneStopNeverPanics GracefulExitCutsNothing
PROPERTIES ReadyMeansStoppable StopEndsWorker StartReturns
\* A process that has ended takes no further step.
CHECK_DEADLOCK FALSE
