------------------------------- MODULE ApiCalls -------------------------------
(***************************************************************************)
(* Calls of Podium's API from end to end: a function of the client library *)
(* or a request of another client, net/http, the gateway, the gRPC         *)
(* interceptors, a handler with the service calls it makes, and the answer *)
(* on its way back.  Calls overlap; callers give up while their call goes  *)
(* on; Redis fails, or loses an answer and gets the command once more.     *)
(*                                                                         *)
(* Service calls that read are one step here, those that write are three   *)
(* (ranks before, the write, the members as they are then), which is where *)
(* other calls come in between.                                            *)
(***************************************************************************)
EXTENDS PodiumClient, LeaderboardService

CONSTANTS
    Callers,      \* those who call, once each
    Wishes,       \* Wishes[c]: the calls c may make
    Boards,       \* all leaderboards that are named
    SeasonOver,   \* those whose season is over
    Scoreboards,  \* what Boards may hold at first
    MaxFaults     \* bound on commands that fail or are sent again

ASSUME CallsAssumption ==
    /\ SeasonOver \subseteq Boards /\ MaxFaults \in Nat
    /\ Scoreboards \subseteq [Boards -> [PublicIDs -> Int \cup {None}]]

\* The functions of the client library are called with what their types allow.
ASSUME WishesAssumption ==
    \A c \in Callers : Nil \notin Wishes[c] /\ \A w \in Wishes[c] :
        w.fn = "request" \/ (w.fn \in DOMAIN CallOf /\ w \in CallOf[w.fn])

VARIABLES
    caller,    \* idle, waiting, answered or gaveUp
    call,      \* what it wants
    http,      \* the request it sent last
    result,    \* what its function returned, Nil for an error
    server,    \* how far the request got
    method,    \* the method it is for
    msg,       \* and the message
    todo,      \* service calls still to make
    results,   \* what those made gave
    previous,  \* the ranks read before the write under way
    answer,    \* status and JSON on the way back
    carried,   \* history: the scores written for the call, in order
    board,     \* the leaderboards in Redis
    errors,    \* how often AddError was called
    faults,    \* how many there were
    open       \* the server asks for no credentials, or callers have them

callerVars == <<caller, call, http, result>>
handlerVars == <<method, msg, todo, results, previous>>
worldVars == <<board, carried, faults, open>>
vars == <<callerVars, server, handlerVars, answer, errors, worldVars>>

NoAnswer == [status |-> 0, json |-> Nil]

Init ==
    /\ caller = [c \in Callers |-> "idle"]
    /\ call = [c \in Callers |-> Nil]
    /\ http = [c \in Callers |-> Nil]
    /\ result = [c \in Callers |-> Nil]
    /\ server = [c \in Callers |-> "idle"]
    /\ method = [c \in Callers |-> "none"]
    /\ msg = [c \in Callers |-> Nil]
    /\ todo = [c \in Callers |-> <<>>]
    /\ results = [c \in Callers |-> <<>>]
    /\ previous = [c \in Callers |-> <<>>]
    /\ answer = [c \in Callers |-> NoAnswer]
    /\ carried = [c \in Callers |-> <<>>]
    /\ board \in Scoreboards
    /\ errors = 0
    /\ faults = 0
    /\ open \in BOOLEAN

-----------------------------------------------------------------------------
(* Callers                                                                 *)

\* A call of another client is a request as it is.
RequestOfCall(w) == IF w.fn = "request" THEN w.request ELSE Build(w)

Ask(c) ==
    /\ caller[c] = "idle"
    /\ \E w \in Wishes[c] :
          /\ call' = [call EXCEPT ![c] = w]
          /\ http' = [http EXCEPT ![c] = RequestOfCall(w)]
    /\ caller' = [caller EXCEPT ![c] = "waiting"]
    /\ server' = [server EXCEPT ![c] = "received"]
    /\ UNCHANGED <<result, handlerVars, answer, errors, worldVars>>

\* The answer arrives: a redirection is followed, an error has no result.
Deliver(c) ==
    /\ caller[c] = "waiting" /\ server[c] = "replied"
    /\ answer[c].status # 301
    /\ caller' = [caller EXCEPT ![c] = "answered"]
    /\ result' = [result EXCEPT ![c] =
          IF answer[c].status > 399 \/ call[c].fn = "request" THEN Nil
          ELSE Result(call[c], answer[c].json)]
    /\ UNCHANGED <<call, http, server, handlerVars, answer, errors, worldVars>>

FollowRedirection(c) ==
    /\ caller[c] = "waiting" /\ server[c] = "replied"
    /\ answer[c].status = 301
    /\ http' = [http EXCEPT ![c] = Redirected(@)]
    /\ server' = [server EXCEPT ![c] = "received"]
    /\ answer' = [answer EXCEPT ![c] = NoAnswer]
    /\ UNCHANGED <<caller, call, result, handlerVars, errors, worldVars>>

\* The client's timeout, or its context: the server goes on.
GiveUp(c) ==
    /\ caller[c] = "waiting"
    /\ caller' = [caller EXCEPT ![c] = "gaveUp"]
    /\ UNCHANGED <<call, http, result, server, handlerVars, answer, errors, worldVars>>

-----------------------------------------------------------------------------
(* HTTP server and gateway                                                 *)

Reply(c, status, json) ==
    /\ server' = [server EXCEPT ![c] = "replied"]
    /\ answer' = [answer EXCEPT ![c] = [status |-> status, json |-> json]]

AddError == errors' = errors + 1

\* What is served without the gateway.
Pages == {<<"healthcheck">>, <<"status">>}

Redirect(c) ==
    /\ server[c] = "received"
    /\ ~IsClean(http[c].path)
    /\ Reply(c, 301, Nil)
    /\ UNCHANGED <<callerVars, handlerVars, errors, worldVars>>

ServePage(c) ==
    /\ server[c] = "received"
    /\ http[c].path \in Pages
    /\ Reply(c, 200, [Text |-> "WORKING"])
    /\ UNCHANGED <<callerVars, handlerVars, errors, worldVars>>

\* The gateway's part: the method and its message, or an error.
EnterGateway(c) ==
    LET path == RemoveTrailingSlash(http[c].path)
        methods == MethodsFor(http[c].verb, path)
        decoded(m) == Decode(m, path, http[c].query, http[c].body)
    IN  /\ server[c] = "received"
        /\ IsClean(http[c].path) /\ http[c].path \notin Pages
        /\ \/ /\ methods = {}
              /\ Reply(c, UnroutedStatus(path), Nil)
              /\ UNCHANGED <<method, msg>>
           \/ \E m \in methods :
                 /\ decoded(m) = Nil
                 /\ Reply(c, 400, Nil)
                 /\ UNCHANGED <<method, msg>>
           \/ \E m \in methods :
                 /\ decoded(m) # Nil
                 /\ method' = [method EXCEPT ![c] = m]
                 /\ msg' = [msg EXCEPT ![c] = decoded(m)]
                 /\ server' = [server EXCEPT ![c] = "routed"]
                 /\ UNCHANGED answer
        /\ UNCHANGED <<callerVars, todo, results, previous, errors, worldVars>>

-----------------------------------------------------------------------------
(* Interceptors and handler                                                *)

Unauthorized(c) ==
    /\ server[c] = "routed" /\ ~open
    /\ Reply(c, HTTPStatusFromCode["Unauthenticated"], Nil)
    /\ UNCHANGED <<callerVars, handlerVars, errors, worldVars>>

\* A panic is caught, and leaves neither a response nor an error.
Recover(c) ==
    /\ Reply(c, HTTPStatusFromCode["OK"], EmptyResponse[method[c]])
    /\ UNCHANGED <<callerVars, handlerVars, errors>>

PanicWithoutBody(c) ==
    /\ server[c] = "routed" /\ open
    /\ LacksBody(method[c], msg[c])
    /\ Recover(c)
    /\ UNCHANGED worldVars

Refuse(c) ==
    /\ server[c] = "routed" /\ open
    /\ ~LacksBody(method[c], msg[c]) /\ Refused(method[c], msg[c])
    /\ Reply(c, HTTPStatusFromCode["InvalidArgument"], Nil)
    /\ IF method[c] \in CountsRefusals THEN AddError ELSE UNCHANGED errors
    /\ UNCHANGED <<callerVars, handlerVars, worldVars>>

Begin(c) ==
    /\ server[c] = "routed" /\ open
    /\ ~LacksBody(method[c], msg[c]) /\ ~Refused(method[c], msg[c])
    /\ todo' = [todo EXCEPT ![c] = ServiceCalls(method[c], msg[c])]
    /\ server' = [server EXCEPT ![c] = "serving"]
    /\ UNCHANGED <<callerVars, method, msg, results, previous, answer, errors, worldVars>>

Respond(c) ==
    /\ server[c] = "serving" /\ todo[c] = <<>>
    /\ Reply(c, HTTPStatusFromCode["OK"], Response(method[c], msg[c], results[c]))
    /\ UNCHANGED <<callerVars, handlerVars, errors, worldVars>>

-----------------------------------------------------------------------------
(* Service calls                                                           *)

NextCall(c) == Head(todo[c])

AtCall(c, services) ==
    server[c] = "serving" /\ todo[c] # <<>> /\ NextCall(c).service \in services

\* A service call ends well, and the handler turns to the next.
Gives(c, value) ==
    /\ results' = [results EXCEPT ![c] = Append(@, value)]
    /\ todo' = [todo EXCEPT ![c] = Tail(@)]
    /\ server' = [server EXCEPT ![c] = "serving"]

\* It ends with an error, and so does the handler.
Fails(c, error) ==
    /\ Reply(c, HTTPStatusFromCode[CodeOf(method[c], error)], Nil)
    /\ AddError
    /\ UNCHANGED <<callerVars, handlerVars>>

Read(c) ==
    /\ AtCall(c, Reads)
    /\ LET b == board[NextCall(c).leaderboard]
       IN  \/ /\ ReadError(b, NextCall(c)) = "none"
              /\ Gives(c, ReadResult(b, NextCall(c)))
              /\ UNCHANGED <<callerVars, method, msg, previous, answer, errors>>
           \/ /\ ReadError(b, NextCall(c)) # "none"
              /\ Fails(c, ReadError(b, NextCall(c)))
    /\ UNCHANGED worldVars

RemoveScores(c) ==
    /\ AtCall(c, {"RemoveMembers", "RemoveLeaderboard"})
    /\ board' = [board EXCEPT ![NextCall(c).leaderboard] = Without(@, NextCall(c))]
    /\ Gives(c, <<>>)
    /\ UNCHANGED <<callerVars, method, msg, previous, answer, errors, carried, faults, open>>

ReadPreviousRanks(c) ==
    /\ AtCall(c, {"SetMembersScore"}) /\ NextCall(c).prevRank
    /\ previous' = [previous EXCEPT ![c] =
          PreviousRanks(board[NextCall(c).leaderboard], NextCall(c).scores)]
    /\ server' = [server EXCEPT ![c] = "ranked"]
    /\ UNCHANGED <<callerVars, method, msg, todo, results, answer, errors, worldVars>>

ReadyToWrite(c) ==
    \/ AtCall(c, {"SetMembersScore", "IncrementMemberScore"}) /\ ~NextCall(c).prevRank
    \/ server[c] = "ranked"

\* The scores of a service call, in the words of the client library.
ScoresOf(s) ==
    [i \in DOMAIN s.scores |-> Score(s.leaderboard, s.scores[i].PublicID, s.scores[i].Score)]

WriteScores(c) ==
    /\ ReadyToWrite(c) /\ NextCall(c).scores # <<>>
    /\ board' = [board EXCEPT ![NextCall(c).leaderboard] = Written(@, NextCall(c))]
    /\ carried' = [carried EXCEPT ![c] = @ \o ScoresOf(NextCall(c))]
    /\ previous' = IF server[c] = "ranked" THEN previous
                   ELSE [previous EXCEPT ![c] = [i \in DOMAIN NextCall(c).scores |-> 0]]
    /\ server' = [server EXCEPT ![c] = "written"]
    /\ UNCHANGED <<callerVars, method, msg, todo, results, answer, errors, faults, open>>

\* setMembersValues, then the season.
ReadWritten(c) ==
    /\ server[c] = "written"
    /\ LET s == NextCall(c)
           b == board[s.leaderboard]
           gone == \E i \in DOMAIN s.scores : s.scores[i].PublicID \notin Entries(b)
       IN  \/ gone /\ Recover(c)
           \/ ~gone /\ s.leaderboard \in SeasonOver /\ Fails(c, "LeaderboardExpired")
           \/ /\ ~gone /\ s.leaderboard \notin SeasonOver
              /\ Gives(c, MembersValues(b, s.scores, previous[c]))
              /\ UNCHANGED <<callerVars, method, msg, previous, answer, errors>>
    /\ UNCHANGED worldVars

-----------------------------------------------------------------------------
(* Faults                                                                  *)

AtRedis(c) ==
    (server[c] = "serving" /\ todo[c] # <<>>) \/ server[c] \in {"ranked", "written"}

\* Redis refuses a ZADD of nothing.  With the caller gone its context is
\* cancelled, which an increment does not look at.
CommandFails(c) ==
    /\ AtRedis(c)
    /\ \/ /\ ReadyToWrite(c) /\ NextCall(c).scores = <<>>
          /\ UNCHANGED faults
       \/ /\ caller[c] = "gaveUp" /\ method[c] # "IncrementScore"
          /\ UNCHANGED faults
       \/ faults < MaxFaults /\ faults' = faults + 1
    /\ Fails(c, "General")
    /\ UNCHANGED <<board, carried, open>>

PingFails(c) ==
    /\ server[c] = "received" /\ http[c].path = <<"healthcheck">>
    /\ faults < MaxFaults /\ faults' = faults + 1
    /\ Reply(c, 500, Nil)
    /\ UNCHANGED <<callerVars, handlerVars, errors, board, carried, open>>

\* The answer to a write was lost, and the Redis client sends it once more.
WriteAgain(c) ==
    /\ server[c] = "written"
    /\ faults < MaxFaults /\ faults' = faults + 1
    /\ board' = [board EXCEPT ![NextCall(c).leaderboard] = Written(@, NextCall(c))]
    /\ UNCHANGED <<callerVars, server, handlerVars, answer, errors, carried, open>>

-----------------------------------------------------------------------------
ServerStep(c) ==
    \/ Redirect(c) \/ ServePage(c) \/ EnterGateway(c)
    \/ Unauthorized(c) \/ PanicWithoutBody(c) \/ Refuse(c) \/ Begin(c) \/ Respond(c)
    \/ Read(c) \/ RemoveScores(c)
    \/ ReadPreviousRanks(c) \/ WriteScores(c) \/ ReadWritten(c)
    \/ CommandFails(c) \/ PingFails(c) \/ WriteAgain(c)

Receive(c) == Deliver(c) \/ FollowRedirection(c)

\* Every call has ended, on both sides.
Rest ==
    /\ \A c \in Callers : caller[c] \in {"answered", "gaveUp"} /\ server[c] = "replied"
    /\ UNCHANGED vars

Next ==
    \/ \E c \in Callers : Ask(c) \/ GiveUp(c) \/ ServerStep(c) \/ Receive(c)
    \/ Rest

\* A request that was received is served, and an answer arrives.
Fairness == \A c \in Callers : WF_vars(ServerStep(c)) /\ WF_vars(Receive(c))

Spec == Init /\ [][Next]_vars

FairSpec == Spec /\ Fairness

-----------------------------------------------------------------------------
(* Properties                                                              *)

States == {"idle", "received", "routed", "serving", "ranked", "written", "replied"}

Statuses == {0, 200, 301, 400, 401, 404, 405, 500}

\* Every message a handler gets is one of its method's requests, and every JSON
\* object a response of it (the gateway's decoders and the handlers' returns).
TypeOK ==
    /\ caller \in [Callers -> {"idle", "waiting", "answered", "gaveUp"}]
    /\ server \in [Callers -> States]
    /\ \A c \in Callers : call[c] = Nil \/ call[c] \in Wishes[c]
    /\ \A c \in Callers : method[c] = "none" \/ msg[c] \in RequestOf[method[c]]
    /\ \A c \in Callers : answer[c].status \in Statuses
    /\ \A c \in Callers : answer[c].status = 200 /\ method[c] # "none" =>
          answer[c].json \in ResponseOf[method[c]]
    /\ board \in [Boards -> [PublicIDs -> Int \cup {None}]]
    /\ errors \in Nat /\ faults \in 0 .. MaxFaults /\ open \in BOOLEAN

\* The method each function of the client library is for.
HandlerOf ==
    [UpdateScore |-> "UpsertScore", IncrementScore |-> "IncrementScore",
     UpdateScores |-> "UpsertScoreMultiLeaderboards", UpdateMembersScore |-> "BulkUpsertScores",
     RemoveMemberFromLeaderboard |-> "RemoveMember", DeleteLeaderboard |-> "RemoveLeaderboard",
     GetTop |-> "GetTopMembers", GetTopPercent |-> "GetTopPercentage",
     GetMember |-> "GetMember", GetMembers |-> "GetMembers",
     GetMemberInLeaderboards |-> "GetRankMultiLeaderboards",
     GetMembersAroundMember |-> "GetAroundMember", GetCount |-> "TotalMembers"]

\* What an argument is called in a message.
ArgumentOf ==
    [LeaderboardId |-> "leaderboard", MemberPublicId |-> "member", ScoreTTL |-> "ttl",
     Ids |-> "ids", LeaderboardIds |-> "leaderboards", Order |-> "order",
     PageNumber |-> "page", PageSize |-> "pageSize", Percentage |-> "percentage",
     GetLastIfNotFound |-> "getLastIfNotFound"]

\* A TTL below zero asks for none.
Says(m, w) ==
    \A f \in DOMAIN m \cap DOMAIN ArgumentOf :
        ArgumentOf[f] \in DOMAIN w =>
            m[f] = w[ArgumentOf[f]] \/ (f = "ScoreTTL" /\ w.ttl < 0 /\ m[f] = 0)

\* It names what it is about.
Named(w) ==
    /\ \A f \in DOMAIN w \cap {"leaderboard", "member"} : w[f] # ""
    /\ \A f \in DOMAIN w \cap {"leaderboards", "ids"} : "" \notin ToSet(w[f])

\* Its numbers fit in a message.
Fits(w) ==
    /\ "ttl" \in DOMAIN w => w.ttl <= MaxInt32
    /\ \A f \in DOMAIN w \cap {"page", "pageSize", "percentage"} : w[f] \in Int32

\* Whatever a function is called with, as long as it names its leaderboard and
\* member and its numbers fit, the request reaches that function's handler, and
\* the handler's message says what the caller said (client URLs against the
\* gateway's patterns).
RequestsReachTheirHandler ==
    \A c \in Callers : server[c] \notin {"idle", "received"} =>
        (call[c].fn \in DOMAIN HandlerOf /\ Named(call[c]) /\ Fits(call[c]) =>
            method[c] = HandlerOf[call[c].fn] /\ Says(msg[c], call[c]))

\* Whoever else calls, gives up, fails or panics: what is written for a call is
\* what its caller wanted, in that order and from the first on, and all of it
\* once the function has returned it (handlers of writes, client decoding).
WritesFollowTheCall ==
    \A c \in Callers : call[c] # Nil /\ call[c].fn # "request" =>
        /\ IsPrefix(carried[c], Wanted(call[c]))
        /\ result[c] # Nil /\ Confirms(call[c], result[c]) => carried[c] = Wanted(call[c])

\* A call that is answered as the client's mistake has written nothing, unless on
\* a leaderboard whose season is over (validation before the first service call).
ClientErrorsWroteNothing ==
    \A c \in Callers : answer[c].status \in 400 .. 499 =>
        \A i \in DOMAIN carried[c] : carried[c][i].on \in SeasonOver

Increments == {c \in Callers : call[c] # Nil /\ call[c].fn = "IncrementScore"}

\* While nobody does anything but increment, a member's score is the sum of
\* increments that were asked for, of callers that gave up too: of those that were
\* answered with success, each at least once, and each as often as it was sent to
\* Redis, which is once, or again after a lost answer (api/leaderboard.go:158).
IncrementsAddUp ==
    \A l \in Boards \ {""}, m \in PublicIDs \ {""} :
        LET onIt == {c \in Increments : call[c].leaderboard = l /\ call[c].member = m}
            succeeded == {c \in onIt : answer[c].status = 200 /\ answer[c].json.Success}
            sum(times) == SumFunction([c \in onIt |-> times[c] * call[c].increment])
        IN  /\ \A c \in Callers : call[c] # Nil => c \in Increments
            /\ \A f \in Scoreboards : f[l][m] = None
            => \E times \in [onIt -> 0 .. 1 + faults] :
                  /\ \A c \in succeeded : times[c] > 0
                  /\ board[l][m] = IF \A c \in onIt : times[c] = 0 THEN None ELSE sum(times)

\* A caller that waits is answered, also after redirections, panics and faults.
CallersAreAnswered ==
    \A c \in Callers : caller[c] = "waiting" ~> caller[c] # "waiting"

=============================================================================
