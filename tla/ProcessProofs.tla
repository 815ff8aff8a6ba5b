----------------------------- MODULE ProcessProofs -----------------------------
(***************************************************************************)
(* Theorems about PodiumProcess, for any number of calls, signals, stops,  *)
(* boards and failures.                                                    *)
(***************************************************************************)
EXTENDS PodiumProcess, TLAPS

-----------------------------------------------------------------------------
(* Types                                                                   *)

\* A server that failed has sent one error, so that the channel of two never fills
\* beyond its capacity and no goroutine blocks on it.
OneErrorEach ==
    errch <= (IF grpc = "failed" THEN 1 ELSE 0) + (IF http = "failed" THEN 1 ELSE 0)

\* Until both ports are open there is no server.
NoServerYet ==
    main \in {"loadConfiguration", "configureStatsD", "configureNewRelic", "healthcheck", "built",
             "listening"} => grpc = "off" /\ http = "off"

AppTypes == ProcessTypeOK /\ AppTypeOK /\ OneErrorEach /\ NoServerYet

TypeInv == AppTypes /\ WorkerTypeOK

WorkerTypes == ProcessTypeOK /\ WorkerTypeOK

LEMMA AppTypesStep ==
    ASSUME AppTypes, AppNext
    PROVE  AppTypes'
<1>1. ProcessTypeOK /\ AppTypeOK /\ OneErrorEach /\ NoServerYet
  BY DEF AppTypes
<1>14. ASSUME NEW s \in Stoppers, StopGRPC(s) PROVE AppTypes'
  <2>1. told' \in {told, told \cup {"grpc"}} /\ skipped' \in {skipped, skipped \cup {"grpc"}}
    BY <1>14 DEF StopGRPC
  <2>2. grpc' = grpc \/ (grpc = "serving" /\ grpc' = "stopping")
    BY <1>14 DEF StopGRPC
  <2>3. stopper' = [stopper EXCEPT ![s] = "http"] \/ stopper' = [stopper EXCEPT ![s] = "awaitGrpc"]
    BY <1>14 DEF StopGRPC, StopperGoes
  <2>4. UNCHANGED <<processVars, main, result, http, chanVars, waiter, call, rateVars>>
    BY <1>14 DEF StopGRPC
  <2>5. told' \subseteq {"grpc", "http"} /\ skipped' \subseteq {"grpc", "http"}
    BY <1>1, <2>1 DEF AppTypeOK
  <2>6. grpc' \in ServerStates
    BY <1>1, <2>2 DEF AppTypeOK, ServerStates
  <2>7. stopper' \in [Stoppers -> {"none", "grpc", "awaitGrpc", "http", "awaitHttp", "done"}]
    BY <1>1, <2>3 DEF AppTypeOK
  <2>8. AppTypeOK'
    BY <1>1, <2>4, <2>5, <2>6, <2>7 DEF AppTypeOK, chanVars, rateVars
  <2>9. OneErrorEach' /\ NoServerYet'
    BY <1>1, <2>2, <2>4 DEF OneErrorEach, NoServerYet, chanVars
  <2>10. ProcessTypeOK'
    BY <1>1, <2>4 DEF ProcessTypeOK, processVars
  <2>11. QED
    BY <2>8, <2>9, <2>10 DEF AppTypes
<1>16. ASSUME NEW s \in Stoppers, StopHTTP(s) PROVE AppTypes'
  <2>1. told' \in {told, told \cup {"http"}} /\ skipped' \in {skipped, skipped \cup {"http"}}
    BY <1>16 DEF StopHTTP
  <2>2. http' = http \/ (http = "serving" /\ http' = "stopping")
    BY <1>16 DEF StopHTTP
  <2>3. stopper' = [stopper EXCEPT ![s] = "done"] \/ stopper' = [stopper EXCEPT ![s] = "awaitHttp"]
    BY <1>16 DEF StopHTTP, StopperGoes
  <2>4. UNCHANGED <<processVars, main, result, grpc, chanVars, waiter, call, rateVars>>
    BY <1>16 DEF StopHTTP
  <2>5. told' \subseteq {"grpc", "http"} /\ skipped' \subseteq {"grpc", "http"}
    BY <1>1, <2>1 DEF AppTypeOK
  <2>6. http' \in ServerStates
    BY <1>1, <2>2 DEF AppTypeOK, ServerStates
  <2>7. stopper' \in [Stoppers -> {"none", "grpc", "awaitGrpc", "http", "awaitHttp", "done"}]
    BY <1>1, <2>3 DEF AppTypeOK
  <2>8. AppTypeOK'
    BY <1>1, <2>4, <2>5, <2>6, <2>7 DEF AppTypeOK, chanVars, rateVars
  <2>9. OneErrorEach' /\ NoServerYet'
    BY <1>1, <2>2, <2>4 DEF OneErrorEach, NoServerYet, chanVars
  <2>10. ProcessTypeOK'
    BY <1>1, <2>4 DEF ProcessTypeOK, processVars
  <2>11. QED
    BY <2>8, <2>9, <2>10 DEF AppTypes
<1> USE ProcessBounds DEF
      processVars, chanVars, stopVars, rateVars, AppTypes, ProcessTypeOK, AppTypeOK,
      OneErrorEach, NoServerYet, ProcessStates, MainStates, ServerStates, CallStates,
      Stoppers
<1>2. CASE Configure
  BY <1>1, <1>2 DEF Configure, Fault, NextPart
<1>3. CASE Listen
  BY <1>1, <1>3 DEF Listen, Fault, ReturnError
<1>4. CASE NotifySignals
  BY <1>1, <1>4 DEF NotifySignals
<1>5. CASE WaitForEnd
  BY <1>1, <1>5 DEF WaitForEnd
<1>6. CASE FinishStart
  BY <1>1, <1>6 DEF FinishStart, ReturnError
<1>7. CASE ExitApp
  BY <1>1, <1>7 DEF ExitApp, EndProcess
<1>8. CASE CreateGRPCServer
  BY <1>1, <1>8 DEF CreateGRPCServer
<1>9. CASE ServeGRPC
  BY <1>1, <1>9 DEF ServeGRPC, SendError
<1>10. CASE CreateHTTPServer
  BY <1>1, <1>10 DEF CreateHTTPServer
<1>11. CASE ServeHTTP
  BY <1>1, <1>11 DEF ServeHTTP
<1>12. CASE BothServersEnd
  BY <1>1, <1>12 DEF BothServersEnd
<1>13. CASE TickErrors
  BY <1>1, <1>13 DEF TickErrors
<1>15. ASSUME NEW s \in Stoppers, AwaitGRPC(s) PROVE AppTypes'
  BY <1>1, <1>15 DEF AwaitGRPC, StopperGoes
<1>17. ASSUME NEW s \in Stoppers, AwaitHTTP(s) PROVE AppTypes'
  BY <1>1, <1>17 DEF AwaitHTTP, StopperGoes
<1>18. ASSUME NEW c \in Calls, Arrive(c) PROVE AppTypes'
  BY <1>1, <1>18 DEF Arrive, CallGoes
<1>19. ASSUME NEW c \in Calls, OpenRPC(c) PROVE AppTypes'
  BY <1>1, <1>19 DEF OpenRPC, CallGoes
<1>20. ASSUME NEW c \in Calls, FinishRPC(c) PROVE AppTypes'
  BY <1>1, <1>20 DEF FinishRPC, CallGoes
<1>21. ASSUME NEW c \in Calls, AnswerHTTP(c) PROVE AppTypes'
  BY <1>1, <1>21 DEF AnswerHTTP, CallGoes
<1>22. CASE WaitForReady
  <2>1. /\ waiter' \in {"none", "grpc", "http", "ready", "timedOut"}
        /\ ready' \subseteq {"grpc", "http"}
    BY <1>1, <1>22 DEF WaitForReady, AppTypeOK
  <2>2. UNCHANGED <<processVars, main, result, grpc, http, errch, stopped, told, stopper, skipped,
                    call, rateVars>>
    BY <1>22 DEF WaitForReady
  <2>3. QED
    BY <1>1, <2>1, <2>2
    DEF processVars, rateVars, AppTypes, ProcessTypeOK, AppTypeOK, OneErrorEach,
        NoServerYet
<1>23. CASE CallGracefullStop
  BY <1>1, <1>23 DEF CallGracefullStop, StopperGoes
<1>24. CASE SignalApp
  BY <1>1, <1>24 DEF SignalApp, Signalled, EndProcess
<1>25. CASE ServerFails
  BY <1>1, <1>25 DEF ServerFails, Fault, SendError
<1>26. QED
  BY <1>2, <1>3, <1>4, <1>5, <1>6, <1>7, <1>8, <1>9, <1>10, <1>11, <1>12, <1>13, <1>14,
     <1>15, <1>16, <1>17, <1>18, <1>19, <1>20, <1>21, <1>22, <1>23, <1>24, <1>25
  DEF AppNext, StartStep, GRPCStep, HTTPStep, StopStep, CallStep

\* A step that touches only the ticker's channel and the place of runWorker.
LEMMA UntouchedByTheTicker ==
    ASSUME ProcessTypeOK, WorkerTypeOK, tick' \in BOOLEAN, runner' \in RunnerStates,
           UNCHANGED <<processVars, run, stop, shouldEnd, toVisit, stops>>
    PROVE  WorkerTypes'
<1>1. ProcessTypeOK'
  <2>1. UNCHANGED <<command, embedded, process, signals, faults>>
    BY DEF processVars
  <2>2. QED
    BY <2>1, Zenon DEF ProcessTypeOK
<1>2. WorkerTypeOK'
  <2>1. UNCHANGED <<run, stop, shouldEnd, toVisit, stops>>
    OBVIOUS
  <2>2. QED
    BY <2>1, Zenon DEF WorkerTypeOK
<1>3. QED
  BY <1>1, <1>2 DEF WorkerTypes

LEMMA WorkerTypesStep ==
    ASSUME WorkerTypes, WorkerNext
    PROVE  WorkerTypes'
<1>1. ProcessTypeOK /\ WorkerTypeOK
  BY DEF WorkerTypes
<1>11. CASE BeginPass
  <2>1. tick' \in BOOLEAN
    BY <1>11, Zenon DEF BeginPass
  <2>2. runner' \in RunnerStates
    BY <1>11 DEF BeginPass, RunnerStates
  <2>3. UNCHANGED <<processVars, run, stop, shouldEnd, toVisit, stops>>
    BY <1>11 DEF BeginPass
  <2>4. QED
    BY <1>1, <2>1, <2>2, <2>3, UntouchedByTheTicker
<1>16. CASE TickerFires
  <2>1. tick' \in BOOLEAN
    BY <1>1, <1>16, Zenon DEF TickerFires, WorkerTypeOK
  <2>2. runner' \in RunnerStates
    <3>1. runner' = "list" \/ runner' = runner
      BY <1>16 DEF TickerFires
    <3>2. QED
      BY <1>1, <3>1 DEF WorkerTypeOK, RunnerStates
  <2>3. UNCHANGED <<processVars, run, stop, shouldEnd, toVisit, stops>>
    BY <1>16 DEF TickerFires
  <2>4. QED
    BY <1>1, <2>1, <2>2, <2>3, UntouchedByTheTicker
<1> USE ProcessBounds, WorkerBounds DEF
      processVars, workerVars, WorkerTypes, ProcessTypeOK, WorkerTypeOK, ProcessStates,
      RunStates, RunnerStates, Channel
<1>2. CASE GetExpirationWorker
  BY <1>1, <1>2 DEF GetExpirationWorker, Fault
<1>3. CASE StartRun
  BY <1>1, <1>3 DEF StartRun
<1>4. CASE WaitForStop
  BY <1>1, <1>4 DEF WaitForStop
<1>5. CASE EndRunner
  BY <1>1, <1>5 DEF EndRunner, TellRunner
<1>6. CASE CloseSignals
  BY <1>1, <1>6 DEF CloseSignals
<1>7. CASE CloseShouldEnd
  BY <1>1, <1>7 DEF CloseShouldEnd, TellRunner
<1>8. CASE CloseStop
  BY <1>1, <1>8 DEF CloseStop
<1>9. CASE ExitWorker
  BY <1>1, <1>9 DEF ExitWorker
<1>10. CASE RunnerParks
  BY <1>1, <1>10 DEF RunnerParks
<1>12. CASE ListBoards
  BY <1>1, <1>12 DEF ListBoards, Fault
<1>13. CASE VisitBoard
  BY <1>1, <1>13 DEF VisitBoard, Fault
<1>14. CASE Report
  BY <1>1, <1>14 DEF Report
<1>15. CASE RunnerEnds
  BY <1>1, <1>15 DEF RunnerEnds
<1>17. CASE Stop
  BY <1>1, <1>17 DEF Stop
<1>18. CASE SignalWorker
  BY <1>1, <1>18 DEF SignalWorker, Signalled
<1>19. QED
  BY <1>2, <1>3, <1>4, <1>5, <1>6, <1>7, <1>8, <1>9, <1>10, <1>11, <1>12, <1>13, <1>14,
     <1>15, <1>16, <1>17, <1>18
  DEF WorkerNext, RunStep, PassStep

LEMMA TypeInvInit == Init => TypeInv
<1>1. SUFFICES ASSUME Init PROVE TypeInv
  OBVIOUS
<1>2. ProcessTypeOK
  BY <1>1, ProcessBounds DEF Init, ProcessInit, ProcessTypeOK, ProcessStates
<1>3. AppTypeOK
  BY <1>1 DEF Init, AppInit, AppTypeOK, MainStates, ServerStates, CallStates
<1>4. WorkerTypeOK
  <2>1. tick \in BOOLEAN
    BY <1>1, Zenon DEF Init, WorkerInit
  <2>2. toVisit \in 0 .. MaxBoards /\ stops \in 0 .. MaxStops
    BY <1>1, WorkerBounds DEF Init, WorkerInit
  <2>3. QED
    BY <1>1, <2>1, <2>2 DEF Init, WorkerInit, WorkerTypeOK, RunStates, RunnerStates, Channel
<1>5. OneErrorEach /\ NoServerYet
  BY <1>1 DEF Init, AppInit, OneErrorEach, NoServerYet
<1>6. QED
  BY <1>2, <1>3, <1>4, <1>5 DEF TypeInv, AppTypes

LEMMA TypeInvNext == TypeInv /\ [Next]_vars => TypeInv'
<1>1. SUFFICES ASSUME TypeInv, [Next]_vars PROVE TypeInv'
  OBVIOUS
<1>2. CASE App(AppNext)
  <2>1. AppTypes'
    BY <1>1, <1>2, AppTypesStep DEF App, TypeInv
  <2>2. WorkerTypeOK'
    BY <1>1, <1>2 DEF App, TypeInv, WorkerTypeOK, workerVars
  <2>3. QED
    BY <2>1, <2>2 DEF TypeInv
<1>3. CASE Worker(WorkerNext)
  <2>1. WorkerTypes'
    BY <1>1, <1>3, WorkerTypesStep DEF Worker, TypeInv, AppTypes, WorkerTypes
  <2>2. AppTypeOK' /\ OneErrorEach' /\ NoServerYet'
    BY <1>1, <1>3 DEF Worker, TypeInv, AppTypes, AppTypeOK, OneErrorEach, NoServerYet,
                      appVars, chanVars, stopVars, rateVars
  <2>3. QED
    BY <2>1, <2>2 DEF TypeInv, AppTypes, WorkerTypes
<1>4. CASE UNCHANGED vars
  BY <1>1, <1>4
  DEF vars, processVars, appVars, chanVars, stopVars, rateVars, workerVars, TypeInv, AppTypes,
      ProcessTypeOK, AppTypeOK, WorkerTypeOK, OneErrorEach, NoServerYet
<1>5. QED
  BY <1>1, <1>2, <1>3, <1>4 DEF Next

LEMMA TypeInvAlways == Spec => []TypeInv
BY TypeInvInit, TypeInvNext, PTL DEF Spec

\* Every variable keeps its type, the number of errors in a channel of two included
\* (api/app.go:362).
THEOREM ProcessTypeCorrect == Spec => []TypeOK
<1>1. TypeInv => TypeOK
  BY DEF TypeInv, TypeOK, AppTypes
<1>2. QED
  BY <1>1, TypeInvAlways, PTL

-----------------------------------------------------------------------------
(* One request to stop                                                     *)

\* Run is on its way out, or Stop has left its token, only after a request; and it
\* closes the channel of Stop last.
StopInv ==
    command = "worker" =>
        /\ run \in {"stopping", "closeSignals", "closeShouldEnd", "closeStop", "returned"} =>
              signals + stops >= 1
        /\ stop = "full" => signals + stops >= 1
        /\ stop = "closed" => run = "returned"
        /\ process = "panicked" => signals + stops >= 2

\* The worker's steps keep it.
LEMMA StopInvStep ==
    ASSUME WorkerTypes, StopInv, WorkerNext
    PROVE  StopInv'
<1> USE DEF
      StopInv, processVars, workerVars
<1>1. signals \in Nat /\ stops \in Nat /\ StopInv
  BY DEF WorkerTypes, ProcessTypeOK, WorkerTypeOK
<1>2. CASE GetExpirationWorker
  BY <1>1, <1>2 DEF GetExpirationWorker, Fault
<1>3. CASE StartRun
  BY <1>1, <1>3 DEF StartRun
<1>4. CASE WaitForStop
  BY <1>1, <1>4 DEF WaitForStop
<1>5. CASE EndRunner
  BY <1>1, <1>5 DEF EndRunner, TellRunner
<1>6. CASE CloseSignals
  BY <1>1, <1>6 DEF CloseSignals
<1>7. CASE CloseShouldEnd
  BY <1>1, <1>7 DEF CloseShouldEnd, TellRunner
<1>8. CASE CloseStop
  BY <1>1, <1>8 DEF CloseStop
<1>9. CASE ExitWorker
  BY <1>1, <1>9 DEF ExitWorker
<1>10. CASE RunnerParks
  BY <1>1, <1>10 DEF RunnerParks
<1>11. CASE BeginPass
  BY <1>1, <1>11 DEF BeginPass
<1>12. CASE ListBoards
  BY <1>1, <1>12 DEF ListBoards, Fault
<1>13. CASE VisitBoard
  BY <1>1, <1>13 DEF VisitBoard, Fault
<1>14. CASE Report
  BY <1>1, <1>14 DEF Report
<1>15. CASE RunnerEnds
  BY <1>1, <1>15 DEF RunnerEnds
<1>16. CASE TickerFires
  BY <1>1, <1>16 DEF TickerFires
<1>17. CASE Stop
  BY <1>1, <1>17 DEF Stop
<1>18. CASE SignalWorker
  BY <1>1, <1>18 DEF SignalWorker, Signalled
<1>19. QED
  BY <1>2, <1>3, <1>4, <1>5, <1>6, <1>7, <1>8, <1>9, <1>10, <1>11, <1>12, <1>13, <1>14,
     <1>15, <1>16, <1>17, <1>18
  DEF WorkerNext, RunStep, PassStep

\* The App's steps leave the command what it is.
LEMMA AppIsNoWorker ==
    ASSUME AppNext
    PROVE  UNCHANGED <<command, embedded>>
<1> USE DEF
      processVars
<1>2. CASE Configure
  BY <1>2 DEF Configure, Fault, NextPart
<1>3. CASE Listen
  BY <1>3 DEF Listen, Fault, ReturnError
<1>4. CASE NotifySignals
  BY <1>4 DEF NotifySignals
<1>5. CASE WaitForEnd
  BY <1>5 DEF WaitForEnd
<1>6. CASE FinishStart
  BY <1>6 DEF FinishStart, ReturnError
<1>7. CASE ExitApp
  BY <1>7 DEF ExitApp, EndProcess
<1>8. CASE CreateGRPCServer
  BY <1>8 DEF CreateGRPCServer
<1>9. CASE ServeGRPC
  BY <1>9 DEF ServeGRPC, SendError
<1>10. CASE CreateHTTPServer
  BY <1>10 DEF CreateHTTPServer
<1>11. CASE ServeHTTP
  BY <1>11 DEF ServeHTTP
<1>12. CASE BothServersEnd
  BY <1>12 DEF BothServersEnd
<1>13. CASE TickErrors
  BY <1>13 DEF TickErrors
<1>14. ASSUME NEW s \in Stoppers, StopGRPC(s) PROVE UNCHANGED <<command, embedded>>
  BY <1>14 DEF StopGRPC, StopperGoes
<1>15. ASSUME NEW s \in Stoppers, AwaitGRPC(s) PROVE UNCHANGED <<command, embedded>>
  BY <1>15 DEF AwaitGRPC, StopperGoes
<1>16. ASSUME NEW s \in Stoppers, StopHTTP(s) PROVE UNCHANGED <<command, embedded>>
  BY <1>16 DEF StopHTTP, StopperGoes
<1>17. ASSUME NEW s \in Stoppers, AwaitHTTP(s) PROVE UNCHANGED <<command, embedded>>
  BY <1>17 DEF AwaitHTTP, StopperGoes
<1>18. ASSUME NEW c \in Calls, Arrive(c) PROVE UNCHANGED <<command, embedded>>
  BY <1>18 DEF Arrive, CallGoes
<1>19. ASSUME NEW c \in Calls, OpenRPC(c) PROVE UNCHANGED <<command, embedded>>
  BY <1>19 DEF OpenRPC, CallGoes
<1>20. ASSUME NEW c \in Calls, FinishRPC(c) PROVE UNCHANGED <<command, embedded>>
  BY <1>20 DEF FinishRPC, CallGoes
<1>21. ASSUME NEW c \in Calls, AnswerHTTP(c) PROVE UNCHANGED <<command, embedded>>
  BY <1>21 DEF AnswerHTTP, CallGoes
<1>22. CASE WaitForReady
  BY <1>22 DEF WaitForReady
<1>23. CASE CallGracefullStop
  BY <1>23 DEF CallGracefullStop, StopperGoes
<1>24. CASE SignalApp
  BY <1>24 DEF SignalApp, Signalled, EndProcess
<1>25. CASE ServerFails
  BY <1>25 DEF ServerFails, Fault, SendError
<1>26. QED
  BY <1>2, <1>3, <1>4, <1>5, <1>6, <1>7, <1>8, <1>9, <1>10, <1>11, <1>12, <1>13, <1>14,
     <1>15, <1>16, <1>17, <1>18, <1>19, <1>20, <1>21, <1>22, <1>23, <1>24, <1>25
  DEF AppNext, StartStep, GRPCStep, HTTPStep, StopStep, CallStep

\* Nor do the worker's.
LEMMA WorkerIsNoApp ==
    ASSUME WorkerNext
    PROVE  UNCHANGED <<command, embedded>>
<1> USE DEF
      processVars
<1>2. CASE GetExpirationWorker
  BY <1>2 DEF GetExpirationWorker, Fault
<1>3. CASE StartRun
  BY <1>3 DEF StartRun
<1>4. CASE WaitForStop
  BY <1>4 DEF WaitForStop
<1>5. CASE EndRunner
  BY <1>5 DEF EndRunner, TellRunner
<1>6. CASE CloseSignals
  BY <1>6 DEF CloseSignals
<1>7. CASE CloseShouldEnd
  BY <1>7 DEF CloseShouldEnd, TellRunner
<1>8. CASE CloseStop
  BY <1>8 DEF CloseStop
<1>9. CASE ExitWorker
  BY <1>9 DEF ExitWorker
<1>10. CASE RunnerParks
  BY <1>10 DEF RunnerParks
<1>11. CASE BeginPass
  BY <1>11 DEF BeginPass
<1>12. CASE ListBoards
  BY <1>12 DEF ListBoards, Fault
<1>13. CASE VisitBoard
  BY <1>13 DEF VisitBoard, Fault
<1>14. CASE Report
  BY <1>14 DEF Report
<1>15. CASE RunnerEnds
  BY <1>15 DEF RunnerEnds
<1>16. CASE TickerFires
  BY <1>16 DEF TickerFires
<1>17. CASE Stop
  BY <1>17 DEF Stop
<1>18. CASE SignalWorker
  BY <1>18 DEF SignalWorker, Signalled
<1>19. QED
  BY <1>2, <1>3, <1>4, <1>5, <1>6, <1>7, <1>8, <1>9, <1>10, <1>11, <1>12, <1>13, <1>14,
     <1>15, <1>16, <1>17, <1>18
  DEF WorkerNext, RunStep, PassStep

\* One request to stop, a signal or a Stop whenever it comes, makes no worker panic
\* (ExpirationWorker.Run, which closes three channels as it returns).
THEOREM OneStopNeverPanicsEver == Spec => []OneStopNeverPanics
<1>1. Init => StopInv
  BY DEF Init, ProcessInit, WorkerInit, StopInv
<1>2. TypeInv /\ StopInv /\ [Next]_vars => StopInv'
  <2>1. SUFFICES ASSUME TypeInv, StopInv, [Next]_vars PROVE StopInv'
    OBVIOUS
  <2>2. CASE App(AppNext)
    BY <2>2, AppIsNoWorker DEF App, Running, StopInv
  <2>3. CASE Worker(WorkerNext)
    BY <2>1, <2>3, StopInvStep DEF Worker, TypeInv, AppTypes, WorkerTypes
  <2>4. CASE UNCHANGED vars
    BY <2>1, <2>4 DEF vars, processVars, workerVars, StopInv
  <2>5. QED
    BY <2>1, <2>2, <2>3, <2>4 DEF Next
<1>3. StopInv => OneStopNeverPanics
  BY DEF StopInv, OneStopNeverPanics
<1>4. QED
  BY <1>1, <1>2, <1>3, TypeInvAlways, PTL DEF Spec

-----------------------------------------------------------------------------
(* Readiness                                                               *)

\* A token is in its channel, or was taken from it, only when the server exists.
ReadyInv ==
    /\ ("grpc" \in ready \/ waiter \in {"http", "ready"}) => grpc \notin {"off", "spawned"}
    /\ ("http" \in ready \/ waiter = "ready") => http \notin {"off", "spawned"}

\* The App's steps keep it.
LEMMA ReadyInvStep ==
    ASSUME NoServerYet, ReadyInv, AppNext
    PROVE  ReadyInv'
<1> USE DEF
      ReadyInv, NoServerYet, chanVars, stopVars
<1>1. NoServerYet /\ ReadyInv
  OBVIOUS
<1>2. CASE Configure
  BY <1>1, <1>2 DEF Configure, Fault, NextPart
<1>3. CASE Listen
  BY <1>1, <1>3 DEF Listen, Fault, ReturnError
<1>4. CASE NotifySignals
  BY <1>1, <1>4 DEF NotifySignals
<1>5. CASE WaitForEnd
  BY <1>1, <1>5 DEF WaitForEnd
<1>6. CASE FinishStart
  BY <1>1, <1>6 DEF FinishStart, ReturnError
<1>7. CASE ExitApp
  BY <1>1, <1>7 DEF ExitApp, EndProcess
<1>8. CASE CreateGRPCServer
  BY <1>1, <1>8 DEF CreateGRPCServer
<1>9. CASE ServeGRPC
  BY <1>1, <1>9 DEF ServeGRPC, SendError
<1>10. CASE CreateHTTPServer
  BY <1>1, <1>10 DEF CreateHTTPServer
<1>11. CASE ServeHTTP
  BY <1>1, <1>11 DEF ServeHTTP
<1>12. CASE BothServersEnd
  BY <1>1, <1>12 DEF BothServersEnd
<1>13. CASE TickErrors
  BY <1>1, <1>13 DEF TickErrors
<1>14. ASSUME NEW s \in Stoppers, StopGRPC(s) PROVE ReadyInv'
  BY <1>1, <1>14 DEF StopGRPC, StopperGoes
<1>15. ASSUME NEW s \in Stoppers, AwaitGRPC(s) PROVE ReadyInv'
  BY <1>1, <1>15 DEF AwaitGRPC, StopperGoes
<1>16. ASSUME NEW s \in Stoppers, StopHTTP(s) PROVE ReadyInv'
  BY <1>1, <1>16 DEF StopHTTP, StopperGoes
<1>17. ASSUME NEW s \in Stoppers, AwaitHTTP(s) PROVE ReadyInv'
  BY <1>1, <1>17 DEF AwaitHTTP, StopperGoes
<1>18. ASSUME NEW c \in Calls, Arrive(c) PROVE ReadyInv'
  BY <1>1, <1>18 DEF Arrive, CallGoes
<1>19. ASSUME NEW c \in Calls, OpenRPC(c) PROVE ReadyInv'
  BY <1>1, <1>19 DEF OpenRPC, CallGoes
<1>20. ASSUME NEW c \in Calls, FinishRPC(c) PROVE ReadyInv'
  BY <1>1, <1>20 DEF FinishRPC, CallGoes
<1>21. ASSUME NEW c \in Calls, AnswerHTTP(c) PROVE ReadyInv'
  BY <1>1, <1>21 DEF AnswerHTTP, CallGoes
<1>22. CASE WaitForReady
  BY <1>1, <1>22 DEF WaitForReady
<1>23. CASE CallGracefullStop
  BY <1>1, <1>23 DEF CallGracefullStop, StopperGoes
<1>24. CASE SignalApp
  BY <1>1, <1>24 DEF SignalApp, Signalled, EndProcess
<1>25. CASE ServerFails
  BY <1>1, <1>25 DEF ServerFails, Fault, SendError
<1>26. QED
  BY <1>2, <1>3, <1>4, <1>5, <1>6, <1>7, <1>8, <1>9, <1>10, <1>11, <1>12, <1>13, <1>14,
     <1>15, <1>16, <1>17, <1>18, <1>19, <1>20, <1>21, <1>22, <1>23, <1>24, <1>25
  DEF AppNext, StartStep, GRPCStep, HTTPStep, StopStep, CallStep

\* Whoever waited for WaitForReady finds both servers with GracefullStop, whatever
\* fails meanwhile (api/app.go:471, 488).
THEOREM ReadyMeansStoppableAlways == Spec => ReadyMeansStoppable
<1>1. Init => ReadyInv
  BY DEF Init, AppInit, ReadyInv
<1>2. TypeInv /\ ReadyInv /\ [Next]_vars => ReadyInv'
  <2>1. SUFFICES ASSUME TypeInv, ReadyInv, [Next]_vars PROVE ReadyInv'
    OBVIOUS
  <2>2. CASE App(AppNext)
    BY <2>1, <2>2, ReadyInvStep DEF App, TypeInv, AppTypes
  <2>3. CASE UNCHANGED appVars
    BY <2>1, <2>3 DEF appVars, chanVars, stopVars, ReadyInv
  <2>4. QED
    BY <2>1, <2>2, <2>3 DEF Next, Worker, vars
<1>3. ReadyInv /\ [Next]_vars => [waiter = "ready" => skipped' = skipped]_vars
  <2>1. SUFFICES ASSUME ReadyInv, App(AppNext), waiter = "ready" PROVE skipped' = skipped
    BY DEF Next, Worker, appVars, stopVars
  <2>2. grpc \notin {"off", "spawned"} /\ http \notin {"off", "spawned"}
    BY <2>1 DEF ReadyInv
  <2>3. ASSUME NEW s \in Stoppers, StopStep(s) PROVE skipped' = skipped
    BY <2>2, <2>3 DEF StopStep, StopGRPC, AwaitGRPC, StopHTTP, AwaitHTTP
  <2>4. ASSUME NEW c \in Calls, Arrive(c) \/ CallStep(c) PROVE skipped' = skipped
    BY <2>4 DEF CallStep, Arrive, OpenRPC, FinishRPC, AnswerHTTP, stopVars
  <2>5. CASE StartStep
    BY <2>5
    DEF StartStep, Configure, Listen, NotifySignals, WaitForEnd, FinishStart, ExitApp,
        stopVars
  <2>6. CASE GRPCStep \/ HTTPStep \/ BothServersEnd \/ TickErrors
    BY <2>6 DEF GRPCStep, HTTPStep, CreateGRPCServer, ServeGRPC, CreateHTTPServer, ServeHTTP,
                BothServersEnd, TickErrors, stopVars
  <2>7. CASE WaitForReady \/ CallGracefullStop \/ SignalApp \/ ServerFails
    BY <2>7 DEF WaitForReady, CallGracefullStop, SignalApp, ServerFails, stopVars
  <2>8. QED
    BY <2>1, <2>3, <2>4, <2>5, <2>6, <2>7 DEF App, AppNext
<1>4. QED
  BY <1>1, <1>2, <1>3, TypeInvAlways, PTL DEF Spec, ReadyMeansStoppable

-----------------------------------------------------------------------------
(* A graceful exit                                                         *)

Undisturbed == command = "start" /\ ~embedded /\ faults = 0

\* With nothing failing and nobody else to stop it, Start is stopped by a signal or
\* not at all: before, no server has been told anything and no error was sent.
StoppedByStart ==
    /\ stopper["caller"] = "none"
    /\ (stopper["Start"] = "none") <=> (main \notin {"stopping", "grace", "returned"})
    /\ main \notin {"failing", "ended"}
    /\ main \in {"grace", "returned"} => stopper["Start"] = "done"
    /\ stopper["Start"] = "none" =>
          /\ told = {} /\ errch = 0 /\ stopped = "waiting"
          /\ grpc \notin {"stopping", "stopped", "failed"}
          /\ http \notin {"stopping", "stopped", "failed"}

\* A server fails only in refusing to serve, and one told to stop never serves.
ToldServers ==
    /\ grpc = "failed" => "grpc" \in told
    /\ http # "failed"
    /\ "grpc" \in told => grpc \in {"created", "failed"}
    /\ "http" \in told => http \in {"created", "stopped"}

\* Before a server serves, and after it is stopped, it has no calls.
IdleServers ==
    /\ (grpc \in {"off", "spawned", "created", "stopped"} \/ "grpc" \in told) =>
          \A c \in Calls : call[c] # "direct"
    /\ (http \in {"off", "spawned", "created", "stopped"} \/ "http" \in told) =>
          \A c \in Calls : call[c] \notin {"handling", "rpc", "answering"}

\* A GracefullStop that has found the servers leaves neither of them serving.
StoppedServers ==
    /\ stopper["Start"] = "awaitGrpc" => grpc \in {"stopping", "stopped", "failed"}
    /\ stopper["Start"] = "awaitHttp" => http \in {"stopping", "stopped"}
    /\ skipped = {} /\ stopper["Start"] \in {"http", "awaitHttp", "done"} =>
          "grpc" \in told \/ grpc = "stopped"
    /\ skipped = {} /\ stopper["Start"] = "done" => "http" \in told \/ http = "stopped"

NoneCut ==
    /\ process = "running" => \A c \in Calls : call[c] # "cut"
    /\ process = "exited" /\ skipped = {} => \A c \in Calls : call[c] # "cut"

\* The process of a program that embeds the App does not exit with it.
ExitsAlone == command = "start" /\ process = "exited" => ~embedded

GracefulInv ==
    /\ ExitsAlone
    /\ Undisturbed => StoppedByStart /\ ToldServers /\ IdleServers /\ StoppedServers /\ NoneCut

\* The App's steps keep it.
LEMMA GracefulStep ==
    ASSUME AppTypes, GracefulInv, process = "running", AppNext
    PROVE  GracefulInv'
<1> USE DEF
      GracefulInv, ExitsAlone, Undisturbed, StoppedByStart, ToldServers, IdleServers,
      StoppedServers, NoneCut, AppTypes, AppTypeOK, ProcessTypeOK, NoServerYet,
      processVars, chanVars, stopVars, rateVars, InRpc, InHttp, Stoppers
<1>1. AppTypes /\ GracefulInv /\ process = "running"
  OBVIOUS
<1>2. CASE Configure
  BY <1>1, <1>2 DEF Configure, Fault, NextPart
<1>3. CASE Listen
  BY <1>1, <1>3 DEF Listen, Fault, ReturnError
<1>4. CASE NotifySignals
  BY <1>1, <1>4 DEF NotifySignals
<1>5. CASE WaitForEnd
  BY <1>1, <1>5 DEF WaitForEnd
<1>6. CASE FinishStart
  BY <1>1, <1>6 DEF FinishStart, ReturnError
<1>7. CASE ExitApp
  BY <1>1, <1>7 DEF ExitApp, EndProcess
<1>8. CASE CreateGRPCServer
  BY <1>1, <1>8 DEF CreateGRPCServer
<1>9. CASE ServeGRPC
  BY <1>1, <1>9 DEF ServeGRPC, SendError
<1>10. CASE CreateHTTPServer
  BY <1>1, <1>10 DEF CreateHTTPServer
<1>11. CASE ServeHTTP
  BY <1>1, <1>11 DEF ServeHTTP
<1>12. CASE BothServersEnd
  BY <1>1, <1>12 DEF BothServersEnd
<1>13. CASE TickErrors
  BY <1>1, <1>13 DEF TickErrors
<1>14. ASSUME NEW s \in Stoppers, StopGRPC(s) PROVE GracefulInv'
  BY <1>1, <1>14 DEF StopGRPC, StopperGoes
<1>15. ASSUME NEW s \in Stoppers, AwaitGRPC(s) PROVE GracefulInv'
  BY <1>1, <1>15 DEF AwaitGRPC, StopperGoes
<1>16. ASSUME NEW s \in Stoppers, StopHTTP(s) PROVE GracefulInv'
  <2>1. stopper[s] = "http" /\ stopper' = [stopper EXCEPT ![s] = stopper'[s]]
    BY <1>1, <1>16 DEF StopHTTP, StopperGoes
  <2>2. Undisturbed => s = "Start" /\ main = "stopping"
    BY <1>1, <2>1
  <2>3. ExitsAlone' /\ (Undisturbed' <=> Undisturbed)
    BY <1>1, <1>16 DEF StopHTTP
  <2>4. SUFFICES ASSUME Undisturbed PROVE GracefulInv'
    BY <2>3 DEF GracefulInv
  <2>5. StoppedByStart' /\ ToldServers'
    BY <1>1, <1>16, <2>1, <2>2, <2>4 DEF StopHTTP, StopperGoes
  <2>6. IdleServers' /\ NoneCut'
    BY <1>1, <1>16, <2>4 DEF StopHTTP
  <2>7. StoppedServers'
    BY <1>1, <1>16, <2>1, <2>2, <2>4 DEF StopHTTP, StopperGoes
  <2>8. QED
    BY <2>3, <2>4, <2>5, <2>6, <2>7 DEF GracefulInv
<1>17. ASSUME NEW s \in Stoppers, AwaitHTTP(s) PROVE GracefulInv'
  <2>1. stopper[s] = "awaitHttp" /\ stopper' = [stopper EXCEPT ![s] = stopper'[s]]
    BY <1>1, <1>17 DEF AwaitHTTP, StopperGoes
  <2>2. Undisturbed => s = "Start" /\ main = "stopping"
    BY <1>1, <2>1
  <2>3. ExitsAlone' /\ (Undisturbed' <=> Undisturbed)
    BY <1>1, <1>17 DEF AwaitHTTP
  <2>4. SUFFICES ASSUME Undisturbed PROVE GracefulInv'
    BY <2>3 DEF GracefulInv
  <2>5. StoppedByStart' /\ ToldServers'
    BY <1>1, <1>17, <2>1, <2>2, <2>4 DEF AwaitHTTP, StopperGoes
  <2>6. IdleServers' /\ NoneCut'
    BY <1>1, <1>17, <2>4 DEF AwaitHTTP
  <2>7. StoppedServers'
    BY <1>1, <1>17, <2>1, <2>2, <2>4 DEF AwaitHTTP, StopperGoes
  <2>8. QED
    BY <2>3, <2>4, <2>5, <2>6, <2>7 DEF GracefulInv
<1>18. ASSUME NEW c \in Calls, Arrive(c) PROVE GracefulInv'
  BY <1>1, <1>18 DEF Arrive, CallGoes
<1>19. ASSUME NEW c \in Calls, OpenRPC(c) PROVE GracefulInv'
  BY <1>1, <1>19 DEF OpenRPC, CallGoes
<1>20. ASSUME NEW c \in Calls, FinishRPC(c) PROVE GracefulInv'
  BY <1>1, <1>20 DEF FinishRPC, CallGoes
<1>21. ASSUME NEW c \in Calls, AnswerHTTP(c) PROVE GracefulInv'
  BY <1>1, <1>21 DEF AnswerHTTP, CallGoes
<1>22. CASE WaitForReady
  BY <1>1, <1>22 DEF WaitForReady
<1>23. CASE CallGracefullStop
  BY <1>1, <1>23 DEF CallGracefullStop, StopperGoes
<1>24. CASE SignalApp
  BY <1>1, <1>24 DEF SignalApp, Signalled, EndProcess
<1>25. CASE ServerFails
  BY <1>1, <1>25 DEF ServerFails, Fault, SendError
<1>26. QED
  BY <1>2, <1>3, <1>4, <1>5, <1>6, <1>7, <1>8, <1>9, <1>10, <1>11, <1>12, <1>13, <1>14,
     <1>15, <1>16, <1>17, <1>18, <1>19, <1>20, <1>21, <1>22, <1>23, <1>24, <1>25
  DEF AppNext, StartStep, GRPCStep, HTTPStep, StopStep, CallStep

\* The command, stopped by a signal that Start took, leaves no call of a server that
\* GracefullStop found without an answer, whatever number of calls there are and
\* wherever they are (api/app.go:488: gRPC first, HTTP after it).
THEOREM GracefulExitCutsNothingEver == Spec => []GracefulExitCutsNothing
<1>1. Init => GracefulInv
  BY DEF Init, ProcessInit, AppInit, GracefulInv, ExitsAlone, Undisturbed, StoppedByStart,
         ToldServers, IdleServers, StoppedServers, NoneCut, Stoppers
<1>2. TypeInv /\ GracefulInv /\ [Next]_vars => GracefulInv'
  <2>1. SUFFICES ASSUME TypeInv, GracefulInv, [Next]_vars PROVE GracefulInv'
    OBVIOUS
  <2>2. CASE App(AppNext)
    BY <2>1, <2>2, GracefulStep DEF App, Running, TypeInv
  <2>3. CASE Worker(WorkerNext)
    <3>1. command = "worker" /\ command' = command
      BY <2>3, WorkerIsNoApp DEF Worker, Running
    <3>2. QED
      BY <3>1 DEF GracefulInv, ExitsAlone, Undisturbed
  <2>4. CASE UNCHANGED vars
    BY <2>1, <2>4
    DEF vars, processVars, appVars, chanVars, stopVars, GracefulInv, ExitsAlone, Undisturbed,
        StoppedByStart, ToldServers, IdleServers, StoppedServers, NoneCut
  <2>5. QED
    BY <2>1, <2>2, <2>3, <2>4 DEF Next
<1>3. TypeInv /\ GracefulInv => GracefulExitCutsNothing
  BY DEF GracefulInv, ExitsAlone, Undisturbed, NoneCut, GracefulExitCutsNothing
<1>4. QED
  BY <1>1, <1>2, <1>3, TypeInvAlways, PTL DEF Spec

=============================================================================
