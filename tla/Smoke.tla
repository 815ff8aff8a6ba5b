-------------------------------- MODULE Smoke --------------------------------
(***************************************************************************)
(* The smoke test (cmd/smoke.go): a client without credentials and without *)
(* a timeout that tries every operation on a leaderboard of its own, one   *)
(* request after the other, and ends at the first answer that is not 200.  *)
(* The other callers call what they like meanwhile.                        *)
(***************************************************************************)
EXTENDS ApiCalls

CONSTANTS
    smoke,        \* the caller that is the smoke test
    SmokeBoard    \* the name it made up

\* It calls on its own, and the name is a UUID, which is not of a season.
ASSUME SmokeAssumption ==
    /\ smoke \in Callers /\ Wishes[smoke] = {}
    /\ SmokeBoard \in (Boards \cap STRING) \ SeasonOver /\ ~Empty(SmokeBoard)

\* It has members, whose names are texts, and numbers for a page and a share; and
\* the server returns pages of the default size.
ASSUME ScriptAssumption ==
    /\ MemberNames # <<>> /\ \A i \in DOMAIN MemberNames : ~Empty(MemberNames[i])
    /\ {1, 5} \subseteq DOMAIN Digits
    /\ DefaultPageSize \in Int32 /\ DefaultPageSize <= MaxReturnedMembers

\* What a request may have the service change is not the smoke test's leaderboard.
KeepsOff(r) ==
    LET path == RemoveTrailingSlash(r.path)
    IN  \A m \in MethodsFor(r.verb, path) :
            LET x == Decode(m, path, r.query, r.body)
            IN  x # Nil /\ ~LacksBody(m, x) =>
                    \A i \in DOMAIN ServiceCalls(m, x) :
                        ServiceCalls(m, x)[i].leaderboard = SmokeBoard =>
                            ServiceCalls(m, x)[i].service \in Reads

\* Nobody else knows the name; and what others send is a request.
ASSUME NameAssumption ==
    \A c \in Callers \ {smoke} : \A w \in Wishes[c] :
        KeepsOff(RequestOfCall(w)) /\ "verb" \in DOMAIN RequestOfCall(w)

VARIABLES
    line,      \* how many requests it has sent
    verdict    \* running, passed or fatal

smokeVars == <<vars, line, verdict>>

-----------------------------------------------------------------------------
(* The script                                                              *)

(* What is sent for each member is a sequence. *)

Plain(verb, path) == Send(verb, path, NoQuery, Nil)

OfMember(verb, m, rest) == Plain(verb, <<"l", SmokeBoard, "members", m>> \o rest)

DoHealthCheck == Plain("GET", <<"healthcheck">>)

\* Later members have lower scores.
AddMemberScore ==
    [i \in DOMAIN MemberNames |->
        [OfMember("PUT", MemberNames[i], <<"score">>) EXCEPT
            !.body = [Score |-> 2 * (Len(MemberNames) - (i - 1))]]]

SmokeGetMember ==
    [i \in DOMAIN MemberNames |-> OfMember("GET", MemberNames[i], <<>>)]

SmokeGetMembers ==
    Send("GET", <<"l", SmokeBoard, "members">>, [ids |-> MemberNames], Nil)

SmokeGetRank ==
    [i \in DOMAIN MemberNames |-> OfMember("GET", MemberNames[i], <<"rank">>)]

SmokeGetAround ==
    [i \in DOMAIN MemberNames |-> OfMember("GET", MemberNames[i], <<"around">>)]

GetNumberOfMembers == Plain("GET", <<"l", SmokeBoard, "members-count">>)

SmokeGetTopMembers ==
    Send("GET", <<"l", SmokeBoard, "top", Digits[1]>>, [pageSize |-> DefaultPageSize], Nil)

SmokeGetTopPercentage == Plain("GET", <<"l", SmokeBoard, "top-percent", Digits[5]>>)

SmokeRemoveMember ==
    [i \in DOMAIN MemberNames |-> OfMember("DELETE", MemberNames[i], <<>>)]

SmokeRemoveLeaderboard == Plain("DELETE", <<"l", SmokeBoard>>)

Script ==
    <<DoHealthCheck>> \o AddMemberScore \o SmokeGetMember
    \o <<SmokeGetMembers>> \o SmokeGetRank \o SmokeGetAround
    \o <<GetNumberOfMembers, SmokeGetTopMembers, SmokeGetTopPercentage>>
    \o SmokeRemoveMember \o <<SmokeRemoveLeaderboard>>

-----------------------------------------------------------------------------
SmokeInit == Init /\ line = 0 /\ verdict = "running"

\* Mutant of SmokeSends: the loop stays where it is.
SmokeSendsAgain ==
    /\ verdict = "running" /\ line < Len(Script)
    /\ \/ caller[smoke] = "idle"
       \/ caller[smoke] = "answered" /\ answer[smoke].status = 200
    /\ line' = line
    /\ call' = [call EXCEPT ![smoke] = [fn |-> "request", request |-> Script[line + 1]]]
    /\ http' = [http EXCEPT ![smoke] = Script[line + 1]]
    /\ caller' = [caller EXCEPT ![smoke] = "waiting"]
    /\ server' = [server EXCEPT ![smoke] = "received"]
    /\ answer' = [answer EXCEPT ![smoke] = NoAnswer]
    /\ results' = [results EXCEPT ![smoke] = <<>>]
    /\ carried' = [carried EXCEPT ![smoke] = <<>>]
    /\ UNCHANGED <<result, method, msg, todo, previous, errors, board, faults, open, verdict>>

\* doRequest sends the next line; the answer to the last one was 200.
SmokeSends ==
    /\ verdict = "running" /\ line < Len(Script)
    /\ \/ caller[smoke] = "idle"
       \/ caller[smoke] = "answered" /\ answer[smoke].status = 200
    /\ line' = line + 1
    /\ call' = [call EXCEPT ![smoke] = [fn |-> "request", request |-> Script[line + 1]]]
    /\ http' = [http EXCEPT ![smoke] = Script[line + 1]]
    /\ caller' = [caller EXCEPT ![smoke] = "waiting"]
    /\ server' = [server EXCEPT ![smoke] = "received"]
    /\ answer' = [answer EXCEPT ![smoke] = NoAnswer]
    /\ results' = [results EXCEPT ![smoke] = <<>>]
    /\ carried' = [carried EXCEPT ![smoke] = <<>>]
    /\ UNCHANGED <<result, method, msg, todo, previous, errors, board, faults, open, verdict>>

\* log.Fatalf
Fatal ==
    /\ verdict = "running" /\ caller[smoke] = "answered" /\ answer[smoke].status # 200
    /\ verdict' = "fatal"
    /\ UNCHANGED <<vars, line>>

Passes ==
    /\ verdict = "running" /\ caller[smoke] = "answered" /\ answer[smoke].status = 200
    /\ line = Len(Script)
    /\ verdict' = "passed"
    /\ UNCHANGED <<vars, line>>

SmokeStep == SmokeSends \/ Fatal \/ Passes

Served(c) == ServerStep(c) \/ Receive(c)

SmokeNext ==
    \/ SmokeStep
    \/ Served(smoke) /\ UNCHANGED <<line, verdict>>
    \/ \E c \in Callers \ {smoke} :
          (Ask(c) \/ GiveUp(c) \/ Served(c)) /\ UNCHANGED <<line, verdict>>
    \/ verdict # "running" /\ UNCHANGED smokeVars

SmokeSpec ==
    /\ SmokeInit /\ [][SmokeNext]_smokeVars
    /\ WF_smokeVars(SmokeStep)
    /\ WF_smokeVars(Served(smoke) /\ UNCHANGED <<line, verdict>>)

-----------------------------------------------------------------------------
(* Properties                                                              *)

\* The smoke test fails only if Redis did or the server wants credentials,
\* whatever else goes on: every operation of its script works on a leaderboard
\* with its members (cmd/smoke.go:49), and a request never meets a stale answer.
SmokeFailsForAReason == verdict = "fatal" => faults > 0 \/ ~open

\* It has no timeout, and ends all the same: each request is answered, and each
\* answer leads to the next line or to the end.
SmokeEnds == <>(verdict # "running")

=============================================================================
