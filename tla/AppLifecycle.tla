---------------------------- MODULE AppLifecycle ----------------------------
(***************************************************************************)
(* The life of an App: it is configured, Start listens on two ports and    *)
(* starts a gRPC and an HTTP server in goroutines, waits for a signal, for *)
(* the failure of one server or the end of both, and GracefullStop stops   *)
(* gRPC first and HTTP after it.  An HTTP call is carried out by an RPC    *)
(* the gateway sends to the gRPC server of the same App.                   *)
(*                                                                         *)
(* What follows from grpc.Server and http.Server is external: a server     *)
(* told to stop takes no new calls and is stopped when those it has are    *)
(* done; one told to stop before it serves refuses to serve.               *)
(***************************************************************************)
EXTENDS Process, FiniteSets

CONSTANT Calls   \* identities of the calls clients make

VARIABLES
    main,       \* where New and then Start are
    result,     \* what Start returned
    grpc, http, \* the two servers and their goroutines
    told,       \* the servers told to stop before they served
    errch,      \* errors in the channel errch, of capacity 2
    stopped,    \* the goroutine that waits for both servers, and its channel
    ready,      \* the channels grpcReady and httpReady that hold a token
    waiter,     \* where a caller of WaitForReady is
    stopper,    \* stopper[s]: where the GracefullStop of s is
    skipped,    \* the servers a GracefullStop found not to exist yet
    call,       \* call[c]: how far the call c is
    uncounted,  \* errors the moving average app.Errors has not counted yet
    ticker,     \* the goroutine that ticks it
    rate        \* what it shows: the errors counted at its last tick

chanVars == <<errch, stopped, ready>>
stopVars == <<told, waiter, stopper, skipped>>
rateVars == <<uncounted, ticker, rate>>
appVars == <<main, result, grpc, http, chanVars, stopVars, call, rateVars>>

\* Who calls GracefullStop: Start itself, and a program that embeds the App.
Stoppers == {"Start", "caller"}

MainStates == {"loadConfiguration", "configureStatsD", "configureNewRelic", "healthcheck",
               "built", "failed", "listening", "spawned", "notified", "parked",
               "stopping", "failing", "ended", "grace", "returned"}

ServerStates == {"off", "spawned", "created", "serving", "stopping", "stopped", "failed"}

CallStates == {"none", "handling", "rpc", "answering", "direct",
               "answered", "unavailable", "cut"}

AppInit ==
    /\ main = "loadConfiguration"
    /\ result = "none"
    /\ grpc = "off" /\ http = "off"
    /\ told = {}
    /\ errch = 0
    /\ stopped = "waiting"
    /\ ready = {}
    /\ waiter = "none"
    /\ stopper = [s \in Stoppers |-> "none"]
    /\ skipped = {}
    /\ call = [c \in Calls |-> "none"]
    /\ uncounted = 0
    /\ ticker = "none"
    /\ rate = 0

AppTypeOK ==
    /\ main \in MainStates
    /\ result \in {"none", "nil", "error"}
    /\ grpc \in ServerStates /\ http \in ServerStates
    /\ told \subseteq {"grpc", "http"}
    /\ errch \in 0 .. 2
    /\ stopped \in {"waiting", "sent", "received"}
    /\ ready \subseteq {"grpc", "http"}
    /\ waiter \in {"none", "grpc", "http", "ready", "timedOut"}
    /\ stopper \in [Stoppers -> {"none", "grpc", "awaitGrpc", "http", "awaitHttp", "done"}]
    /\ skipped \subseteq {"grpc", "http"}
    /\ call \in [Calls -> CallStates]
    /\ uncounted \in Nat
    /\ ticker \in {"none", "started", "ended"}
    /\ rate \in Nat

-----------------------------------------------------------------------------
InRpc == {c \in Calls : call[c] \in {"rpc", "direct"}}

InHttp == {c \in Calls : call[c] \in {"handling", "rpc", "answering"}}

\* The process is gone, and the calls in it are never answered.
EndProcess(how) ==
    /\ process' = how
    /\ call' = [c \in Calls |-> IF c \in InRpc \cup InHttp THEN "cut" ELSE call[c]]

CallGoes(c, state) == call' = [call EXCEPT ![c] = state]

\* errch <- err: a Start parked in its select takes it.
SendError ==
    IF main = "parked"
    THEN main' = "failing" /\ UNCHANGED errch
    ELSE errch' = errch + 1 /\ UNCHANGED main

-----------------------------------------------------------------------------
(* New: each part of configure may fail, and New with it                   *)

NextPart == [loadConfiguration |-> "configureStatsD", configureStatsD |-> "configureNewRelic",
             configureNewRelic |-> "healthcheck", healthcheck |-> "built"]

\* configureApplication starts the ticker and then pings Redis.
Configure ==
    /\ main \in DOMAIN NextPart
    /\ \/ main' = NextPart[main] /\ UNCHANGED <<process, faults>>
       \/ /\ Fault
          /\ main' = "failed"
          /\ process' = IF embedded THEN process ELSE "fatal"
    /\ ticker' = IF main' \in {"healthcheck"} THEN "started" ELSE ticker
    /\ UNCHANGED <<command, embedded, signals, result, grpc, http, chanVars, stopVars, call,
                   uncounted, rate>>

\* The goroutine ticks the moving average, sleeps and is over.
TickErrors ==
    /\ ticker = "started"
    /\ ticker' = "ended"
    /\ rate' = uncounted
    /\ uncounted' = 0
    /\ UNCHANGED <<processVars, main, result, grpc, http, chanVars, stopVars, call>>

-----------------------------------------------------------------------------
(* Start                                                                   *)

ReturnError == main' = "returned" /\ result' = "error"

\* The port of gRPC, then that of HTTP; if the second fails the first stays
\* open with nobody behind it.
Listen ==
    /\ main \in {"built", "listening"}
    /\ \/ /\ main' = IF main = "built" THEN "listening" ELSE "spawned"
          /\ IF main = "listening" THEN grpc' = "spawned" /\ http' = "spawned"
             ELSE UNCHANGED <<grpc, http>>
          /\ UNCHANGED <<result, faults>>
       \/ Fault /\ ReturnError /\ UNCHANGED <<grpc, http>>
    /\ UNCHANGED <<command, embedded, process, signals, chanVars, stopVars, call, rateVars>>

\* signal.Notify comes after the goroutines were started.
NotifySignals ==
    /\ main = "spawned"
    /\ main' = "notified"
    /\ UNCHANGED <<processVars, result, grpc, http, chanVars, stopVars, call, rateVars>>

\* The select: of what is ready any branch may be taken.
WaitForEnd ==
    /\ main = "notified"
    /\ \/ errch > 0 /\ errch' = errch - 1 /\ main' = "failing" /\ UNCHANGED stopped
       \/ stopped = "sent" /\ stopped' = "received" /\ main' = "ended" /\ UNCHANGED errch
       \/ errch = 0 /\ stopped # "sent" /\ main' = "parked" /\ UNCHANGED <<errch, stopped>>
    /\ UNCHANGED <<processVars, result, grpc, http, ready, stopVars, call, rateVars>>

\* A signal ends a process that has not subscribed to it, and is dropped unless
\* Start is in its select.
SignalApp ==
    /\ Signalled
    /\ \/ /\ main \in {"notified", "stopping", "failing", "ended", "grace", "returned"}
          /\ UNCHANGED <<process, main, stopper, call>>
       \/ /\ main = "parked"
          /\ main' = "stopping"
          /\ stopper' = [stopper EXCEPT !["Start"] = "grpc"]
          /\ UNCHANGED <<process, call>>
       \/ /\ main \notin {"notified", "parked", "stopping", "failing", "ended", "grace", "returned"}
          /\ EndProcess("killed")
          /\ UNCHANGED <<main, stopper>>
    /\ UNCHANGED <<command, embedded, faults, result, grpc, http, chanVars, told, waiter,
                   skipped, rateVars>>

\* The grace period, and what Start returns.
FinishStart ==
    /\ \/ main = "stopping" /\ stopper["Start"] = "done" /\ main' = "grace" /\ UNCHANGED result
       \/ main \in {"grace", "ended"} /\ main' = "returned" /\ result' = "nil"
       \/ main = "failing" /\ ReturnError
    /\ UNCHANGED <<processVars, grpc, http, chanVars, stopVars, call, rateVars>>

\* The command ends with Start, and so does Podium's own test program if Start
\* failed.
ExitApp ==
    /\ main = "returned"
    /\ \/ ~embedded /\ EndProcess(IF result = "error" THEN "fatal" ELSE "exited")
       \/ embedded /\ result = "error" /\ EndProcess("panicked")
    /\ UNCHANGED <<command, embedded, signals, faults, main, result, grpc, http, chanVars,
                   stopVars, rateVars>>

-----------------------------------------------------------------------------
(* The servers' goroutines                                                 *)

\* Mutant of CreateGRPCServer: readiness is announced before there is a server.
CreateGRPCServerLate ==
    /\ grpc = "spawned"
    /\ IF "grpc" \in ready THEN grpc' = "created" /\ UNCHANGED ready
       ELSE ready' = ready \cup {"grpc"} /\ UNCHANGED grpc
    /\ UNCHANGED <<processVars, main, result, http, errch, stopped, stopVars, call, rateVars>>

\* startGRPCServer: the server, its interceptors and services, then the token.
CreateGRPCServer ==
    /\ grpc = "spawned"
    /\ grpc' = "created"
    /\ ready' = ready \cup {"grpc"}
    /\ UNCHANGED <<processVars, main, result, http, errch, stopped, stopVars, call, rateVars>>

\* Serve; a server that was told to stop refuses.
ServeGRPC ==
    /\ \/ /\ grpc = "created" /\ "grpc" \notin told
          /\ grpc' = "serving" /\ UNCHANGED <<main, errch>>
       \/ /\ grpc = "created" /\ "grpc" \in told
          /\ grpc' = "failed" /\ SendError
    /\ UNCHANGED <<processVars, result, http, stopped, ready, stopVars, call, rateVars>>

\* startHTTPServer: the gateway connects lazily, so dialing cannot fail here.
CreateHTTPServer ==
    /\ http = "spawned"
    /\ http' = "created"
    /\ ready' = ready \cup {"http"}
    /\ UNCHANGED <<processVars, main, result, grpc, errch, stopped, stopVars, call, rateVars>>

\* Here ErrServerClosed, the answer of a server told to stop, is no error.
ServeHTTP ==
    /\ \/ /\ http = "created" /\ "http" \notin told
          /\ http' = "serving"
       \/ /\ http = "created" /\ "http" \in told
          /\ http' = "stopped"
    /\ UNCHANGED <<processVars, main, result, grpc, chanVars, stopVars, call, rateVars>>

\* A listener fails under its server, and Serve returns the error.
ServerFails ==
    /\ Fault
    /\ \/ grpc = "serving" /\ grpc' = "failed" /\ UNCHANGED http
       \/ http = "serving" /\ http' = "failed" /\ UNCHANGED grpc
    /\ SendError
    /\ UNCHANGED <<command, embedded, process, signals, result, stopped, ready, stopVars, call,
                   rateVars>>

\* Mutant of BothServersEnd: a goroutine is done only if its server failed.
BothServersEndFailed ==
    /\ stopped = "waiting"
    /\ grpc = "failed" /\ http = "failed"
    /\ IF main = "parked"
       THEN main' = "ended" /\ stopped' = "received"
       ELSE stopped' = "sent" /\ UNCHANGED main
    /\ UNCHANGED <<processVars, result, grpc, http, errch, ready, stopVars, call, rateVars>>

\* Both goroutines are over (that of HTTP as soon as its server is told to
\* stop): wg.Wait() returns and stopped <- true.
BothServersEnd ==
    /\ stopped = "waiting"
    /\ grpc \in {"stopped", "failed"} /\ http \in {"stopping", "stopped", "failed"}
    /\ IF main = "parked"
       THEN main' = "ended" /\ stopped' = "received"
       ELSE stopped' = "sent" /\ UNCHANGED main
    /\ UNCHANGED <<processVars, result, grpc, http, errch, ready, stopVars, call, rateVars>>

-----------------------------------------------------------------------------
(* WaitForReady and GracefullStop                                          *)

\* A program that embeds the App waits for one token of each server, with a
\* timeout, once.
WaitForReady ==
    /\ embedded
    /\ main \notin DOMAIN NextPart \cup {"failed"}
    /\ \/ waiter = "none" /\ waiter' = "grpc" /\ UNCHANGED ready
       \/ waiter = "grpc" /\ "grpc" \in ready /\ waiter' = "http" /\ ready' = ready \ {"grpc"}
       \/ waiter = "http" /\ "http" \in ready /\ waiter' = "ready" /\ ready' = ready \ {"http"}
       \/ waiter \in {"grpc", "http"} /\ waiter' = "timedOut" /\ UNCHANGED ready
    /\ UNCHANGED <<processVars, main, result, grpc, http, errch, stopped, told, stopper, skipped,
                   call, rateVars>>

StopperGoes(s, step) == stopper' = [stopper EXCEPT ![s] = step]

\* It may stop it whenever it has it; in Podium's tests it waited before.
CallGracefullStop ==
    /\ embedded
    /\ main \notin DOMAIN NextPart \cup {"failed"}
    /\ stopper["caller"] = "none"
    /\ StopperGoes("caller", "grpc")
    /\ UNCHANGED <<processVars, main, result, grpc, http, chanVars, told, waiter, skipped,
                   call, rateVars>>

\* grpcServer.GracefulStop, unless the goroutine has not set the field yet.
StopGRPC(s) ==
    /\ stopper[s] = "grpc"
    /\ \/ /\ grpc \in {"off", "spawned"} /\ skipped' = skipped \cup {"grpc"}
          /\ StopperGoes(s, "http") /\ UNCHANGED <<grpc, told>>
       \/ /\ grpc = "created" /\ told' = told \cup {"grpc"}
          /\ StopperGoes(s, "http") /\ UNCHANGED <<grpc, skipped>>
       \/ /\ grpc \in {"serving", "stopping", "stopped", "failed"}
          /\ grpc' = IF grpc = "serving" THEN "stopping" ELSE grpc
          /\ StopperGoes(s, "awaitGrpc") /\ UNCHANGED <<told, skipped>>
    /\ UNCHANGED <<processVars, main, result, http, chanVars, waiter, call, rateVars>>

\* It returns when the RPCs it had accepted are done, and Serve with it.
AwaitGRPC(s) ==
    /\ stopper[s] = "awaitGrpc"
    /\ InRpc = {}
    /\ grpc' = IF grpc = "stopping" THEN "stopped" ELSE grpc
    /\ StopperGoes(s, "http")
    /\ UNCHANGED <<processVars, main, result, http, chanVars, told, waiter, skipped, call,
                   rateVars>>

\* Mutant of StopHTTP: Close instead of Shutdown, which waits for nobody.
StopHTTPClosing(s) ==
    /\ stopper[s] = "http"
    /\ \/ http \in {"off", "spawned"} /\ skipped' = skipped \cup {"http"} /\ UNCHANGED <<http, told>>
       \/ http = "created" /\ told' = told \cup {"http"} /\ UNCHANGED <<http, skipped>>
       \/ /\ http \in {"serving", "stopping", "stopped", "failed"}
          /\ http' = IF http = "serving" THEN "stopped" ELSE http
          /\ UNCHANGED <<told, skipped>>
    /\ StopperGoes(s, "done")
    /\ UNCHANGED <<processVars, main, result, grpc, chanVars, waiter, call, rateVars>>

\* httpServer.Shutdown, in the same way.
StopHTTP(s) ==
    /\ stopper[s] = "http"
    /\ \/ /\ http \in {"off", "spawned"} /\ skipped' = skipped \cup {"http"}
          /\ StopperGoes(s, "done") /\ UNCHANGED <<http, told>>
       \/ /\ http = "created" /\ told' = told \cup {"http"}
          /\ StopperGoes(s, "done") /\ UNCHANGED <<http, skipped>>
       \/ /\ http \in {"serving", "stopping", "stopped", "failed"}
          /\ http' = IF http = "serving" THEN "stopping" ELSE http
          /\ StopperGoes(s, "awaitHttp") /\ UNCHANGED <<told, skipped>>
    /\ UNCHANGED <<processVars, main, result, grpc, chanVars, waiter, call, rateVars>>

AwaitHTTP(s) ==
    /\ stopper[s] = "awaitHttp"
    /\ InHttp = {}
    /\ http' = IF http = "stopping" THEN "stopped" ELSE http
    /\ StopperGoes(s, "done")
    /\ UNCHANGED <<processVars, main, result, grpc, chanVars, told, waiter, skipped, call,
                   rateVars>>

-----------------------------------------------------------------------------
(* Calls                                                                   *)

\* A client's call arrives at a server that serves.
Arrive(c) ==
    /\ call[c] = "none"
    /\ \/ http = "serving" /\ CallGoes(c, "handling")
       \/ grpc = "serving" /\ CallGoes(c, "direct")
    /\ UNCHANGED <<processVars, main, result, grpc, http, chanVars, stopVars, rateVars>>

\* The gateway sends the RPC, or is told that the server is Unavailable; before
\* the server serves, the connection waits in the listener's backlog.
OpenRPC(c) ==
    /\ call[c] = "handling"
    /\ \/ grpc \in {"serving", "failed"} /\ CallGoes(c, "rpc")
       \/ grpc \in {"stopping", "stopped", "failed"} /\ CallGoes(c, "unavailable")
    /\ UNCHANGED <<processVars, main, result, grpc, http, chanVars, stopVars, rateVars>>

\* The handler returns, and counts an error if it failed.
FinishRPC(c) ==
    /\ c \in InRpc
    /\ CallGoes(c, IF call[c] = "rpc" THEN "answering" ELSE "answered")
    /\ uncounted' \in {uncounted, uncounted + 1}
    /\ UNCHANGED <<processVars, main, result, grpc, http, chanVars, stopVars, ticker, rate>>

\* The gateway writes the HTTP response.
AnswerHTTP(c) ==
    /\ call[c] = "answering"
    /\ CallGoes(c, "answered")
    /\ UNCHANGED <<processVars, main, result, grpc, http, chanVars, stopVars, rateVars>>

CallStep(c) == OpenRPC(c) \/ FinishRPC(c) \/ AnswerHTTP(c)

StartStep == Configure \/ Listen \/ NotifySignals \/ WaitForEnd \/ FinishStart \/ ExitApp

GRPCStep == CreateGRPCServer \/ ServeGRPC

HTTPStep == CreateHTTPServer \/ ServeHTTP

StopStep(s) == StopGRPC(s) \/ AwaitGRPC(s) \/ StopHTTP(s) \/ AwaitHTTP(s)

AppNext ==
    \/ StartStep
    \/ GRPCStep \/ HTTPStep \/ BothServersEnd \/ TickErrors
    \/ \E s \in Stoppers : StopStep(s)
    \/ \E c \in Calls : Arrive(c) \/ CallStep(c)
    \/ WaitForReady \/ CallGracefullStop \/ SignalApp \/ ServerFails

=============================================================================
