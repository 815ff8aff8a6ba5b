------------------------------ MODULE CallProofs ------------------------------
(***************************************************************************)
(* Theorems about ApiCalls, for any callers, calls, leaderboards, messages *)
(* and number of faults.                                                   *)
(***************************************************************************)
EXTENDS ApiCalls, SequenceTheorems, TLAPS

-----------------------------------------------------------------------------
(* What each method asks of the service                                    *)

WriteServices == {"SetMembersScore", "IncrementMemberScore"}

\* Those that write one leaderboard with one service call, and tell their
\* caller that its season is over; and all that write.
SeasonMethods == {"UpsertScore", "BulkUpsertScores", "IncrementScore"}
WriteMethods == SeasonMethods \cup {"UpsertScoreMultiLeaderboards"}

\* The service calls a message stands for.
CallsFor(m, x) == {ServiceCalls(m, x)[i] : i \in DOMAIN ServiceCalls(m, x)}

LEMMA MappedSequence ==
    ASSUME NEW T, NEW s \in Seq(T), NEW f, DOMAIN f = DOMAIN s, f = [i \in DOMAIN s |-> f[i]]
    PROVE  f \in Seq({f[i] : i \in DOMAIN f})
<1>1. Len(s) \in Nat /\ DOMAIN f = 1 .. Len(s)
  BY LenProperties
<1>2. \A i \in 1 .. Len(s) : f[i] \in {f[j] : j \in DOMAIN f}
  BY <1>1
<1>3. QED
  BY <1>1, <1>2

LEMMA OneCall == ASSUME NEW s PROVE <<s>> \in Seq({<<s>>[i] : i \in DOMAIN <<s>>})
<1>1. {<<s>>[i] : i \in DOMAIN <<s>>} = {s}
  OBVIOUS
<1>2. QED
  BY <1>1

\* The methods, one by one.
LEMMA EachMethod ==
    Methods = SeasonMethods \cup
      {"UpsertScoreMultiLeaderboards", "RemoveLeaderboard", "RemoveMember", "RemoveMembers",
       "TotalMembers", "GetMember", "GetMembers", "GetRank", "GetRankMultiLeaderboards",
       "GetAroundMember", "GetAroundScore", "GetTopMembers", "GetTopPercentage"}
BY DEF Methods, RequestOf, SeasonMethods

\* A method for one leaderboard and one score, or several, has one service call.
LEMMA SeasonCalls ==
    ASSUME NEW m \in SeasonMethods, NEW x \in RequestOf[m], ~LacksBody(m, x)
    PROVE  \E s : /\ ServiceCalls(m, x) = <<s>>
                  /\ s.service \in WriteServices
                  /\ ScoresOf(s) \in Seq({ScoresOf(s)[i] : i \in DOMAIN ScoresOf(s)})
                  /\ \A i \in DOMAIN ScoresOf(s) : ScoresOf(s)[i].on = s.leaderboard
<1>1. CASE m = "UpsertScore"
  <2> DEFINE s == SetScores(x.LeaderboardId,
                    <<[PublicID |-> x.MemberPublicId, Score |-> Int64(x.ScoreChange.Score)]>>,
                    x.PrevRank)
  <2>1. ServiceCalls(m, x) = <<s>>
    BY <1>1 DEF ServiceCalls
  <2>2. s.scores \in Seq({s.scores[1]}) /\ s.service = "SetMembersScore"
    BY DEF SetScores
  <2>3. DOMAIN ScoresOf(s) = DOMAIN s.scores
        /\ \A i \in DOMAIN ScoresOf(s) : ScoresOf(s)[i].on = s.leaderboard
    BY DEF ScoresOf, Score
  <2>4. ScoresOf(s) \in Seq({ScoresOf(s)[i] : i \in DOMAIN ScoresOf(s)})
    <3> DEFINE f == ScoresOf(s)
               seq == s.scores
               first == s.scores[1]
    <3>1. f = [i \in DOMAIN seq |-> f[i]]
      BY DEF ScoresOf
    <3>2. seq \in Seq({first}) /\ DOMAIN f = DOMAIN seq
      BY <2>2, <2>3
    <3> HIDE DEF f, seq, first
    <3>3. f \in Seq({f[i] : i \in DOMAIN f})
      BY <3>1, <3>2, MappedSequence
    <3>4. QED
      BY <3>3 DEF f
  <2>5. QED
    <3> HIDE DEF s
    <3>1. QED
      BY <2>1, <2>2, <2>3, <2>4 DEF WriteServices
<1>2. CASE m = "IncrementScore"
  <2> DEFINE s == Increment(x.LeaderboardId, x.MemberPublicId, Int64(x.Body.Increment))
  <2>1. ServiceCalls(m, x) = <<s>>
    BY <1>2 DEF ServiceCalls
  <2>2. s.scores \in Seq({s.scores[1]}) /\ s.service = "IncrementMemberScore"
    BY DEF Increment
  <2>3. DOMAIN ScoresOf(s) = DOMAIN s.scores
        /\ \A i \in DOMAIN ScoresOf(s) : ScoresOf(s)[i].on = s.leaderboard
    BY DEF ScoresOf, Score
  <2>4. ScoresOf(s) \in Seq({ScoresOf(s)[i] : i \in DOMAIN ScoresOf(s)})
    <3> DEFINE f == ScoresOf(s)
               seq == s.scores
               first == s.scores[1]
    <3>1. f = [i \in DOMAIN seq |-> f[i]]
      BY DEF ScoresOf
    <3>2. seq \in Seq({first}) /\ DOMAIN f = DOMAIN seq
      BY <2>2, <2>3
    <3> HIDE DEF f, seq, first
    <3>3. f \in Seq({f[i] : i \in DOMAIN f})
      BY <3>1, <3>2, MappedSequence
    <3>4. QED
      BY <3>3 DEF f
  <2>5. QED
    <3> HIDE DEF s
    <3>1. QED
      BY <2>1, <2>2, <2>3, <2>4 DEF WriteServices
<1>3. CASE m = "BulkUpsertScores"
  <2> DEFINE s == SetScores(x.LeaderboardId, BulkScores(x.MemberScores.Members), x.PrevRank)
  <2>1. ServiceCalls(m, x) = <<s>>
    BY <1>3 DEF ServiceCalls
  <2>2. x.MemberScores.Members \in Seq(MemberScore)
    BY <1>3 DEF LacksBody, BodyField, RequestOf, BulkUpsertScoresRequest, Optional, MemberScores
  <2>3. DOMAIN s.scores = DOMAIN x.MemberScores.Members /\ s.service = "SetMembersScore"
    BY DEF SetScores, BulkScores
  <2>4. DOMAIN ScoresOf(s) = DOMAIN s.scores
        /\ \A i \in DOMAIN ScoresOf(s) : ScoresOf(s)[i].on = s.leaderboard
    BY DEF ScoresOf, Score
  <2>5. ScoresOf(s) \in Seq({ScoresOf(s)[i] : i \in DOMAIN ScoresOf(s)})
    <3> DEFINE f == ScoresOf(s)
    <3>1. f = [i \in DOMAIN s.scores |-> f[i]]
      BY DEF ScoresOf
    <3>2. QED
      BY <2>2, <2>3, <2>4, <3>1, MappedSequence
  <2>6. QED
    <3> HIDE DEF s
    <3>1. QED
      BY <2>1, <2>3, <2>4, <2>5 DEF WriteServices
<1>4. QED
  BY <1>1, <1>2, <1>3 DEF SeasonMethods

\* Every message that was not refused stands for a sequence of service calls,
\* which write or do not, as its method does.
LEMMA CallsOfMessage ==
    ASSUME NEW m \in Methods, NEW x \in RequestOf[m], ~LacksBody(m, x)
    PROVE  /\ ServiceCalls(m, x) \in Seq(CallsFor(m, x))
           /\ \A s \in CallsFor(m, x) : s.service \in WriteServices <=> m \in WriteMethods
<1>1. CASE m \in SeasonMethods
  <2>1. PICK s : ServiceCalls(m, x) = <<s>> /\ s.service \in WriteServices
    BY <1>1, SeasonCalls
  <2>2. QED
    BY <1>1, <2>1, OneCall DEF CallsFor, WriteMethods
<1>2. CASE m = "UpsertScoreMultiLeaderboards"
  <2>1. x.ScoreMultiChange.Leaderboards \in Seq(STRING)
    BY <1>2 DEF LacksBody, BodyField, RequestOf, UpsertScoreMultiLeaderboardsRequest, Optional,
                ScoreMultiChange, Names
  <2>2. ServiceCalls(m, x) = MultiScores(x)
    BY <1>2 DEF ServiceCalls
  <2>3. MultiScores(x) \in Seq({MultiScores(x)[i] : i \in DOMAIN MultiScores(x)})
    <3> DEFINE f == MultiScores(x)
    <3>1. DOMAIN f = DOMAIN x.ScoreMultiChange.Leaderboards
          /\ f = [i \in DOMAIN x.ScoreMultiChange.Leaderboards |-> f[i]]
      BY DEF MultiScores
    <3>2. QED
      BY <2>1, <3>1, MappedSequence
  <2>4. \A i \in DOMAIN MultiScores(x) : MultiScores(x)[i].service = "SetMembersScore"
    BY DEF MultiScores, SetScores
  <2>5. QED
    BY <1>2, <2>2, <2>3, <2>4 DEF CallsFor, WriteMethods, WriteServices
<1>3. CASE m = "GetRankMultiLeaderboards"
  <2>1. x.LeaderboardIds \in Seq(STRING)
    BY <1>3 DEF RequestOf, GetRankMultiLeaderboardsRequest, Names
  <2>2. ServiceCalls(m, x) = MultiRanks(x)
    BY <1>3 DEF ServiceCalls
  <2>3. MultiRanks(x) \in Seq({MultiRanks(x)[i] : i \in DOMAIN MultiRanks(x)})
    <3> DEFINE f == MultiRanks(x)
    <3>1. DOMAIN f = DOMAIN x.LeaderboardIds /\ f = [i \in DOMAIN x.LeaderboardIds |-> f[i]]
      BY DEF MultiRanks
    <3>2. QED
      BY <2>1, <3>1, MappedSequence
  <2>4. \A i \in DOMAIN MultiRanks(x) : MultiRanks(x)[i].service = "GetMember"
    BY DEF MultiRanks, Lookup
  <2>5. QED
    BY <1>3, <2>2, <2>3, <2>4 DEF CallsFor, WriteMethods, SeasonMethods, WriteServices
<1>4. CASE m \in {"RemoveLeaderboard", "RemoveMember", "RemoveMembers", "TotalMembers",
                  "GetMember", "GetMembers", "GetRank", "GetAroundMember", "GetAroundScore",
                  "GetTopMembers", "GetTopPercentage"}
  <2>1. \E s : ServiceCalls(m, x) = <<s>> /\ s.service \notin WriteServices
    <3> USE DEF WriteServices
    <3>1. CASE m \in {"RemoveLeaderboard", "RemoveMember", "RemoveMembers"}
      BY <3>1, SMTT(30) DEF ServiceCalls, RemoveFrom
    <3>2. CASE m \in {"TotalMembers", "GetMember", "GetMembers", "GetRank"}
      BY <3>2, SMTT(30) DEF ServiceCalls, Lookup
    <3>3. CASE m \in {"GetAroundMember", "GetAroundScore"}
      BY <3>3, SMTT(30) DEF ServiceCalls, AroundMember, AroundScore
    <3>4. CASE m \in {"GetTopMembers", "GetTopPercentage"}
      BY <3>4, SMTT(30) DEF ServiceCalls, Page, Percentage
    <3>5. QED
      BY <1>4, <3>1, <3>2, <3>3, <3>4
  <2>2. PICK s : ServiceCalls(m, x) = <<s>> /\ s.service \notin WriteServices
    BY <2>1
  <2>3. QED
    BY <1>4, <2>2, OneCall DEF CallsFor, WriteMethods, SeasonMethods
<1>5. QED
  BY <1>1, <1>2, <1>3, <1>4, EachMethod DEF WriteMethods

-----------------------------------------------------------------------------
(* A client's mistake is found before anything is written                  *)

\* The handler is between its first service call and its answer.
InService == {"serving", "ranked", "written"}

Domains ==
    /\ DOMAIN server = Callers /\ DOMAIN method = Callers /\ DOMAIN msg = Callers
    /\ DOMAIN caller = Callers /\ DOMAIN todo = Callers /\ DOMAIN answer = Callers
    /\ DOMAIN carried = Callers

\* What c's handler has still to do comes from its message.
FollowsMessage(c) ==
    /\ server[c] \in InService \cup {"routed"} =>
          method[c] \in Methods /\ msg[c] \in RequestOf[method[c]]
    /\ server[c] \in InService =>
          /\ ~LacksBody(method[c], msg[c])
          /\ todo[c] \in Seq(CallsFor(method[c], msg[c]))
    /\ server[c] \in {"ranked", "written"} =>
          todo[c] # <<>> /\ method[c] \in WriteMethods

\* Nothing is written before the service is called, nor for a method that only
\* reads or removes; a method for one leaderboard writes there, and once.
WrittenSoFar(c) ==
    /\ caller[c] = "idle" => server[c] = "idle"
    /\ server[c] \in {"idle", "received", "routed"} => carried[c] = <<>>
    /\ server[c] \in InService /\ method[c] \notin WriteMethods => carried[c] = <<>>
    /\ server[c] \in InService /\ method[c] \in SeasonMethods =>
          /\ todo[c] \in {<<>>, ServiceCalls(method[c], msg[c])}
          /\ server[c] # "written" /\ todo[c] # <<>> => carried[c] = <<>>
          /\ server[c] = "written" =>
                \A i \in DOMAIN carried[c] : carried[c][i].on = NextCall(c).leaderboard

\* There is no answer yet, or one that goes with what was written.
AnswerFits(c) ==
    /\ server[c] # "replied" => answer[c].status = 0
    /\ answer[c].status = 301 => carried[c] = <<>>
    /\ answer[c].status \in 400 .. 499 =>
          \A i \in DOMAIN carried[c] : carried[c][i].on \in SeasonOver

Holds(c) == FollowsMessage(c) /\ WrittenSoFar(c) /\ AnswerFits(c)

CallInv == Domains /\ \A c \in Callers : Holds(c)

\* What CallInv says of a caller stays true while its call is left alone.
Untouched(c) ==
    /\ caller'[c] = caller[c] /\ server'[c] = server[c] /\ method'[c] = method[c] /\ msg'[c] = msg[c]
    /\ todo'[c] = todo[c] /\ answer'[c] = answer[c] /\ carried'[c] = carried[c]

LEMMA UntouchedHolds ==
    ASSUME NEW c \in Callers, Holds(c), Untouched(c)
    PROVE  Holds(c)'
BY DEF Holds, Untouched, FollowsMessage, WrittenSoFar, AnswerFits, NextCall

LEMMA CallInvInit == Init => CallInv
<1>1. SUFFICES ASSUME Init PROVE CallInv
  OBVIOUS
<1>2. Domains
  BY <1>1 DEF Init, Domains
<1>3. ASSUME NEW c \in Callers
      PROVE  Holds(c)
  <2>1. server[c] = "idle" /\ carried[c] = <<>> /\ answer[c].status = 0
    BY <1>1 DEF Init, NoAnswer
  <2>2. QED
    BY <2>1 DEF Holds, FollowsMessage, WrittenSoFar, AnswerFits, InService
<1>4. QED
  BY <1>2, <1>3 DEF CallInv

\* A step of c leaves the others' calls alone.
LEMMA OthersUntouched ==
    ASSUME Domains, NEW c \in Callers, Ask(c) \/ GiveUp(c) \/ ServerStep(c) \/ Receive(c)
    PROVE  Domains' /\ \A d \in Callers \ {c} : Untouched(d)
<1> USE DEF Domains, Untouched, callerVars, handlerVars, worldVars
<1>1. CASE Ask(c)
  BY <1>1 DEF Ask
<1>2. CASE GiveUp(c)
  BY <1>2 DEF GiveUp
<1>3. CASE Deliver(c)
  BY <1>3 DEF Deliver
<1>4. CASE FollowRedirection(c)
  BY <1>4 DEF FollowRedirection
<1>5. CASE Redirect(c)
  BY <1>5 DEF Redirect, Reply
<1>6. CASE ServePage(c)
  BY <1>6 DEF ServePage, Reply
<1>7. CASE EnterGateway(c)
  BY <1>7 DEF EnterGateway, Reply
<1>8. CASE Unauthorized(c)
  BY <1>8 DEF Unauthorized, Reply
<1>9. CASE PanicWithoutBody(c)
  BY <1>9 DEF PanicWithoutBody, Recover, Reply
<1>10. CASE Refuse(c)
  BY <1>10 DEF Refuse, Reply
<1>11. CASE Begin(c)
  BY <1>11 DEF Begin
<1>12. CASE Respond(c)
  BY <1>12 DEF Respond, Reply
<1>13. CASE Read(c)
  BY <1>13 DEF Read, Gives, Fails, Reply
<1>14. CASE RemoveScores(c)
  BY <1>14 DEF RemoveScores, Gives
<1>15. CASE ReadPreviousRanks(c)
  BY <1>15 DEF ReadPreviousRanks
<1>16. CASE WriteScores(c)
  BY <1>16 DEF WriteScores
<1>17. CASE ReadWritten(c)
  BY <1>17 DEF ReadWritten, Recover, Fails, Gives, Reply
<1>18. CASE CommandFails(c)
  BY <1>18 DEF CommandFails, Fails, Reply
<1>19. CASE PingFails(c)
  BY <1>19 DEF PingFails, Reply
<1>20. CASE WriteAgain(c)
  BY <1>20 DEF WriteAgain
<1>21. QED
  BY <1>1, <1>2, <1>3, <1>4, <1>5, <1>6, <1>7, <1>8, <1>9, <1>10, <1>11, <1>12, <1>13,
     <1>14, <1>15, <1>16, <1>17, <1>18, <1>19, <1>20 DEF ServerStep, Receive

\* An answer of the handler's, or of what is in front of it.
LEMMA RepliesHold ==
    ASSUME Domains, NEW c \in Callers, Holds(c), NEW status \in Nat, NEW json,
           server[c] # "idle", caller' = caller, Reply(c, status, json), carried' = carried,
           status = 301 => carried[c] = <<>>,
           status \in 400 .. 499 => \A i \in DOMAIN carried[c] : carried[c][i].on \in SeasonOver
    PROVE  Holds(c)'
<1>1. server'[c] = "replied" /\ answer'[c].status = status
  BY DEF Reply, Domains
<1>2. FollowsMessage(c)'
  BY <1>1 DEF FollowsMessage, InService
<1>3. WrittenSoFar(c)'
  BY <1>1 DEF Holds, WrittenSoFar, InService
<1>4. AnswerFits(c)'
  BY <1>1 DEF AnswerFits
<1>5. QED
  BY <1>2, <1>3, <1>4 DEF Holds

\* Which errors of the service are a client's mistake.
LEMMA StatusOfError ==
    ASSUME NEW m, NEW error
    PROVE  /\ HTTPStatusFromCode[CodeOf(m, error)] \in {400, 404, 500}
           /\ error = "General" => HTTPStatusFromCode[CodeOf(m, error)] = 500
           /\ error = "LeaderboardExpired" /\ m \notin SeasonMethods
                => HTTPStatusFromCode[CodeOf(m, error)] = 500
<1>1. CASE error = "LeaderboardExpired"
  BY <1>1 DEF HTTPStatusFromCode, CodeOf, SeasonMethods
<1>2. CASE error # "LeaderboardExpired"
  BY <1>2 DEF HTTPStatusFromCode, CodeOf
<1>3. QED
  BY <1>1, <1>2

\* The next service call writes if the method does.
LEMMA NextCallWrites ==
    ASSUME NEW c \in Callers, Holds(c), server[c] \in InService, todo[c] # <<>>
    PROVE  /\ NextCall(c).service \in WriteServices <=> method[c] \in WriteMethods
           /\ Tail(todo[c]) \in Seq(CallsFor(method[c], msg[c]))
<1>1. /\ todo[c] \in Seq(CallsFor(method[c], msg[c]))
      /\ method[c] \in Methods /\ msg[c] \in RequestOf[method[c]]
      /\ ~LacksBody(method[c], msg[c])
  BY DEF Holds, FollowsMessage
<1>2. NextCall(c) \in CallsFor(method[c], msg[c])
      /\ Tail(todo[c]) \in Seq(CallsFor(method[c], msg[c]))
  BY <1>1, HeadTailProperties DEF NextCall
<1>3. QED
  BY <1>1, <1>2, CallsOfMessage

\* A service call that went well leaves the rest to do.
LEMMA GivesHold ==
    ASSUME Domains, NEW c \in Callers, Holds(c), server[c] \in InService, todo[c] # <<>>,
           NEW value, Gives(c, value), UNCHANGED <<callerVars, method, msg, answer, carried>>
    PROVE  Holds(c)'
<1>1. server'[c] = "serving" /\ todo'[c] = Tail(todo[c])
  BY DEF Gives, Domains
<1>2. UNCHANGED <<caller, method, msg, answer, carried>>
  BY DEF callerVars
<1>3. FollowsMessage(c)'
  BY <1>1, <1>2, NextCallWrites DEF Holds, FollowsMessage, InService
<1>4. ASSUME method[c] \in SeasonMethods PROVE todo'[c] = <<>>
  <2>1. todo[c] = ServiceCalls(method[c], msg[c])
    BY <1>4 DEF Holds, WrittenSoFar
  <2>2. PICK s : ServiceCalls(method[c], msg[c]) = <<s>>
    BY <1>4, SeasonCalls DEF Holds, FollowsMessage
  <2>3. QED
    BY <1>1, <2>1, <2>2
<1>5. WrittenSoFar(c)'
  BY <1>1, <1>2, <1>4, SMTT(30) DEF Holds, WrittenSoFar, InService
<1>6. AnswerFits(c)'
  <2>1. answer[c].status = 0
    BY DEF Holds, AnswerFits, InService
  <2>2. answer'[c].status = 0
    BY <1>2, <2>1
  <2>3. QED
    BY <2>2 DEF AnswerFits
<1>7. QED
  BY <1>3, <1>5, <1>6 DEF Holds

\* A write is the season method's only one, and is written there.
LEMMA WriteHolds ==
    ASSUME Domains, NEW c \in Callers, Holds(c), WriteScores(c)
    PROVE  Holds(c)'
<1>1. server[c] \in InService /\ todo[c] # <<>>
  BY DEF WriteScores, ReadyToWrite, AtCall, InService, Holds, FollowsMessage
<1>2. method[c] \in WriteMethods
  BY <1>1, NextCallWrites
  DEF WriteScores, ReadyToWrite, AtCall, WriteServices, Holds, FollowsMessage
<1>3. /\ server'[c] = "written" /\ carried'[c] = carried[c] \o ScoresOf(NextCall(c))
      /\ UNCHANGED <<caller, method, msg, todo, answer>>
  BY DEF WriteScores, Domains, callerVars
<1>4. FollowsMessage(c)'
  <2>1. /\ method[c] \in Methods /\ msg[c] \in RequestOf[method[c]]
        /\ ~LacksBody(method[c], msg[c])
        /\ todo[c] \in Seq(CallsFor(method[c], msg[c]))
    BY <1>1 DEF Holds, FollowsMessage
  <2>2. /\ method'[c] = method[c] /\ msg'[c] = msg[c] /\ todo'[c] = todo[c]
        /\ server'[c] = "written"
    BY <1>3
  <2>3. QED
    BY <1>1, <1>2, <2>1, <2>2 DEF FollowsMessage
<1>5. ASSUME method[c] \in SeasonMethods
      PROVE  \A i \in DOMAIN carried'[c] : carried'[c][i].on = NextCall(c).leaderboard
  <2>1. todo[c] = ServiceCalls(method[c], msg[c]) /\ carried[c] = <<>>
    BY <1>1, <1>5 DEF WriteScores, ReadyToWrite, AtCall, Holds, WrittenSoFar
  <2>2. PICK s : /\ ServiceCalls(method[c], msg[c]) = <<s>>
                 /\ ScoresOf(s) \in Seq({ScoresOf(s)[i] : i \in DOMAIN ScoresOf(s)})
                 /\ \A i \in DOMAIN ScoresOf(s) : ScoresOf(s)[i].on = s.leaderboard
    BY <1>1, <1>5, SeasonCalls DEF Holds, FollowsMessage
  <2>3. NextCall(c) = s
    BY <2>1, <2>2 DEF NextCall
  <2>4. carried'[c] = ScoresOf(s)
    BY <1>3, <2>1, <2>2, <2>3, ConcatEmptySeq
  <2>5. QED
    BY <2>2, <2>3, <2>4
<1>6. NextCall(c)' = NextCall(c)
  BY <1>3 DEF NextCall
<1>7. caller[c] # "idle"
  BY <1>1 DEF Holds, WrittenSoFar, InService
<1>8. WrittenSoFar(c)'
  <2>1. caller'[c] # "idle" /\ server'[c] = "written"
    BY <1>3, <1>7
  <2>2. method[c] \in SeasonMethods => todo[c] \in {<<>>, ServiceCalls(method[c], msg[c])}
    BY <1>1 DEF Holds, WrittenSoFar
  <2>3. method'[c] = method[c] /\ msg'[c] = msg[c] /\ todo'[c] = todo[c]
    BY <1>3
  <2>4. QED
    BY <1>2, <1>5, <1>6, <2>1, <2>2, <2>3 DEF WrittenSoFar
<1>9. AnswerFits(c)'
  <2>1. answer[c].status = 0
    BY <1>1 DEF Holds, AnswerFits, InService
  <2>2. answer'[c].status = 0
    BY <1>3, <2>1
  <2>3. QED
    BY <2>2 DEF AnswerFits
<1>10. QED
  BY <1>4, <1>8, <1>9 DEF Holds

\* What is in front of the handlers writes nothing.
LEMMA FrontHolds ==
    ASSUME Domains, NEW c \in Callers, Holds(c),
           Redirect(c) \/ ServePage(c) \/ EnterGateway(c) \/ Unauthorized(c)
             \/ PanicWithoutBody(c) \/ Refuse(c) \/ PingFails(c) \/ Begin(c)
    PROVE  Holds(c)'
<1>1. carried' = carried /\ caller' = caller
  BY DEF Redirect, ServePage, EnterGateway, Unauthorized, PanicWithoutBody, Recover, Refuse,
         PingFails, Begin, worldVars, callerVars
<1>2. server[c] \in {"received", "routed"}
  BY DEF Redirect, ServePage, EnterGateway, Unauthorized, PanicWithoutBody, Refuse, PingFails,
         Begin
<1>3. carried[c] = <<>>
  BY <1>2 DEF Holds, WrittenSoFar
<1>4. ASSUME NEW status \in Nat, NEW json, Reply(c, status, json) PROVE Holds(c)'
  BY <1>1, <1>2, <1>3, <1>4, RepliesHold
<1>5. CASE Redirect(c)
  BY <1>4, <1>5 DEF Redirect
<1>6. CASE ServePage(c)
  BY <1>4, <1>6 DEF ServePage
<1>7. CASE Unauthorized(c)
  BY <1>4, <1>7 DEF Unauthorized, HTTPStatusFromCode
<1>8. CASE PanicWithoutBody(c)
  BY <1>4, <1>8 DEF PanicWithoutBody, Recover, HTTPStatusFromCode
<1>9. CASE Refuse(c)
  BY <1>4, <1>9 DEF Refuse, HTTPStatusFromCode
<1>10. CASE PingFails(c)
  BY <1>4, <1>10 DEF PingFails
<1>11. CASE Begin(c)
  <2>1. /\ todo'[c] = ServiceCalls(method[c], msg[c]) /\ server'[c] = "serving"
        /\ UNCHANGED <<method, msg, answer>> /\ ~LacksBody(method[c], msg[c])
    BY <1>11 DEF Begin, Domains
  <2>2. method[c] \in Methods /\ msg[c] \in RequestOf[method[c]]
    BY <1>11 DEF Begin, Holds, FollowsMessage
  <2>3. ServiceCalls(method[c], msg[c]) \in Seq(CallsFor(method[c], msg[c]))
    BY <2>1, <2>2, CallsOfMessage
  <2>4. caller[c] # "idle" /\ answer[c].status = 0
    BY <1>11 DEF Begin, Holds, WrittenSoFar, AnswerFits
  <2>5. QED
    BY <1>1, <1>3, <2>1, <2>2, <2>3, <2>4
    DEF Holds, FollowsMessage, WrittenSoFar, AnswerFits, InService
<1>12. CASE EnterGateway(c)
  <2> DEFINE path == RemoveTrailingSlash(http[c].path)
             methods == MethodsFor(http[c].verb, path)
             decoded(m) == Decode(m, path, http[c].query, http[c].body)
  <2>1. CASE Reply(c, UnroutedStatus(path), Nil)
    BY <1>4, <2>1 DEF UnroutedStatus
  <2>2. CASE Reply(c, 400, Nil)
    BY <1>4, <2>2
  <2>3. CASE \E m \in methods : /\ decoded(m) # Nil
                                /\ method' = [method EXCEPT ![c] = m]
                                /\ msg' = [msg EXCEPT ![c] = decoded(m)]
                                /\ server' = [server EXCEPT ![c] = "routed"]
                                /\ UNCHANGED answer
    <3>1. PICK m \in methods : /\ decoded(m) # Nil
                               /\ method'[c] = m /\ msg'[c] = decoded(m)
                               /\ server'[c] = "routed" /\ UNCHANGED answer
      BY <2>3 DEF Domains
    <3>2. m \in Methods /\ decoded(m) \in RequestOf[m]
      BY <3>1 DEF MethodsFor, Decode
    <3>3. caller[c] # "idle" /\ answer[c].status = 0
      BY <1>2 DEF Holds, WrittenSoFar, AnswerFits
    <3>4. QED
      BY <1>1, <1>3, <3>1, <3>2, <3>3
      DEF Holds, FollowsMessage, WrittenSoFar, AnswerFits, InService
  <2>4. QED
    BY <1>12, <2>1, <2>2, <2>3 DEF EnterGateway
<1>13. QED
  BY <1>5, <1>6, <1>7, <1>8, <1>9, <1>10, <1>11, <1>12

\* The handlers and the service.
LEMMA ServiceHolds ==
    ASSUME Domains, NEW c \in Callers, Holds(c),
           Respond(c) \/ Read(c) \/ RemoveScores(c) \/ ReadPreviousRanks(c) \/ WriteScores(c)
             \/ ReadWritten(c) \/ CommandFails(c) \/ WriteAgain(c)
    PROVE  Holds(c)'
<1>1. server[c] \in InService
  BY DEF Respond, Read, RemoveScores, ReadPreviousRanks, WriteScores, ReadyToWrite, ReadWritten,
         CommandFails, AtRedis, WriteAgain, AtCall, InService
<1>2. ASSUME NEW error, Fails(c, error), UNCHANGED carried,
             error \notin {"General", "LeaderboardExpired"} => carried[c] = <<>>,
             error = "LeaderboardExpired" /\ method[c] \in SeasonMethods =>
                \A i \in DOMAIN carried[c] : carried[c][i].on \in SeasonOver
      PROVE  Holds(c)'
  <2> DEFINE status == HTTPStatusFromCode[CodeOf(method[c], error)]
  <2>1. Reply(c, status, Nil) /\ caller' = caller
    BY <1>2 DEF Fails, callerVars
  <2>2. /\ status \in Nat /\ status # 301
        /\ error = "General" => status = 500
        /\ error = "LeaderboardExpired" /\ method[c] \notin SeasonMethods => status = 500
    BY StatusOfError
  <2>3. status \in 400 .. 499 =>
          \A i \in DOMAIN carried[c] : carried[c][i].on \in SeasonOver
    <3> HIDE DEF status
    <3>1. CASE error = "General"
      BY <2>2, <3>1
    <3>2. CASE error = "LeaderboardExpired"
      BY <1>2, <2>2, <3>2
    <3>3. CASE error \notin {"General", "LeaderboardExpired"}
      BY <1>2, <3>3
    <3>4. QED
      BY <3>1, <3>2, <3>3
  <2> HIDE DEF status
  <2>4. server[c] # "idle" /\ carried' = carried
    BY <1>1, <1>2 DEF InService
  <2>5. status \in Nat /\ (status = 301 => carried[c] = <<>>)
    BY <2>2
  <2>6. server'[c] = "replied" /\ answer'[c].status = status
    BY <2>1 DEF Reply, Domains
  <2>7. FollowsMessage(c)'
    BY <2>6 DEF FollowsMessage, InService
  <2>8. WrittenSoFar(c)'
    BY <2>1, <2>4, <2>6 DEF Holds, WrittenSoFar, InService
  <2>9. AnswerFits(c)'
    BY <2>3, <2>4, <2>5, <2>6 DEF AnswerFits
  <2>10. QED
    BY <2>7, <2>8, <2>9 DEF Holds
<1>3. CASE Respond(c)
  BY <1>1, <1>3, RepliesHold DEF Respond, HTTPStatusFromCode, callerVars, worldVars, InService
<1>4. CASE Read(c)
  <2>1. todo[c] # <<>> /\ NextCall(c).service \notin WriteServices
    BY <1>4 DEF Read, AtCall, Reads, WriteServices
  <2>2. carried[c] = <<>> /\ UNCHANGED carried
    BY <1>1, <1>4, <2>1, NextCallWrites DEF Read, Holds, WrittenSoFar, worldVars
  <2>3. ASSUME NEW error, Fails(c, error) PROVE Holds(c)'
    BY <1>2, <2>2, <2>3
  <2>4. ASSUME NEW value, Gives(c, value), UNCHANGED <<callerVars, method, msg, answer>>
        PROVE  Holds(c)'
    BY <1>1, <2>1, <2>2, <2>4, GivesHold
  <2>5. QED
    BY <1>4, <2>3, <2>4 DEF Read
<1>5. CASE RemoveScores(c)
  BY <1>1, <1>5, GivesHold DEF RemoveScores, AtCall
<1>6. CASE ReadPreviousRanks(c)
  <2>1. todo[c] # <<>> /\ NextCall(c).service \in WriteServices /\ server[c] = "serving"
    BY <1>6 DEF ReadPreviousRanks, AtCall, WriteServices
  <2>2. method[c] \in WriteMethods
    BY <1>1, <2>1, NextCallWrites
  <2>3. /\ server'[c] = "ranked" /\ caller'[c] = caller[c] /\ method'[c] = method[c]
        /\ msg'[c] = msg[c] /\ todo'[c] = todo[c] /\ answer'[c] = answer[c]
        /\ carried'[c] = carried[c]
    BY <1>6 DEF ReadPreviousRanks, Domains, callerVars, worldVars
  <2>4. QED
    BY <2>1, <2>2, <2>3 DEF Holds, FollowsMessage, WrittenSoFar, AnswerFits, InService
<1>7. CASE WriteScores(c)
  BY <1>7, WriteHolds
<1>8. CASE ReadWritten(c)
  <2>1. todo[c] # <<>> /\ server[c] = "written" /\ UNCHANGED carried
    BY <1>8 DEF ReadWritten, Holds, FollowsMessage, worldVars
  <2>2. CASE Recover(c)
    BY <1>1, <2>1, <2>2, RepliesHold DEF Recover, HTTPStatusFromCode, callerVars, InService
  <2>3. CASE NextCall(c).leaderboard \in SeasonOver /\ Fails(c, "LeaderboardExpired")
    <3>1. method[c] \in SeasonMethods =>
            \A i \in DOMAIN carried[c] : carried[c][i].on \in SeasonOver
      BY <1>1, <2>1, <2>3 DEF Holds, WrittenSoFar
    <3>2. QED
      BY <1>2, <2>1, <2>3, <3>1
  <2>4. ASSUME NEW value, Gives(c, value), UNCHANGED <<callerVars, method, msg, answer>>
        PROVE  Holds(c)'
    BY <1>1, <2>1, <2>4, GivesHold
  <2>5. QED
    BY <1>8, <2>2, <2>3, <2>4 DEF ReadWritten
<1>9. CASE CommandFails(c)
  BY <1>2, <1>9 DEF CommandFails
<1>10. CASE WriteAgain(c)
  BY <1>10, UntouchedHolds DEF WriteAgain, Untouched, callerVars, handlerVars
<1>11. QED
  BY <1>3, <1>4, <1>5, <1>6, <1>7, <1>8, <1>9, <1>10

\* The callers' side.
LEMMA CallersHold ==
    ASSUME Domains, NEW c \in Callers, Holds(c),
           Ask(c) \/ GiveUp(c) \/ Deliver(c) \/ FollowRedirection(c)
    PROVE  Holds(c)'
<1> USE DEF callerVars, handlerVars, worldVars, Domains
<1>1. CASE Ask(c)
  <2>1. server[c] = "idle" /\ server'[c] = "received" /\ caller'[c] = "waiting"
        /\ carried'[c] = carried[c] /\ answer'[c] = answer[c]
    BY <1>1 DEF Ask, Holds, WrittenSoFar
  <2>2. QED
    BY <2>1 DEF Holds, FollowsMessage, WrittenSoFar, AnswerFits, InService
<1>2. CASE GiveUp(c) \/ Deliver(c)
  <2>1. /\ caller[c] # "idle" /\ caller'[c] # "idle"
        /\ UNCHANGED <<server, method, msg, todo, answer, carried>>
    BY <1>2 DEF GiveUp, Deliver
  <2>2. FollowsMessage(c)'
    BY <2>1 DEF Holds, FollowsMessage
  <2>3. NextCall(c)' = NextCall(c)
    BY <2>1 DEF NextCall
  <2>4. WrittenSoFar(c)'
    BY <2>1, <2>3 DEF Holds, WrittenSoFar
  <2>5. AnswerFits(c)'
    BY <2>1 DEF Holds, AnswerFits
  <2>6. QED
    BY <2>2, <2>4, <2>5 DEF Holds
<1>3. CASE FollowRedirection(c)
  <2>1. /\ caller'[c] = "waiting" /\ server'[c] = "received" /\ carried[c] = <<>>
        /\ carried'[c] = carried[c] /\ answer'[c].status = 0
    BY <1>3 DEF FollowRedirection, NoAnswer, Holds, AnswerFits
  <2>2. QED
    BY <2>1 DEF Holds, FollowsMessage, WrittenSoFar, AnswerFits, InService
<1>4. QED
  BY <1>1, <1>2, <1>3

LEMMA CallInvNext == CallInv /\ [Next]_vars => CallInv'
<1>1. SUFFICES ASSUME CallInv, [Next]_vars PROVE CallInv'
  OBVIOUS
<1>2. ASSUME NEW c \in Callers, Ask(c) \/ GiveUp(c) \/ ServerStep(c) \/ Receive(c)
      PROVE  CallInv'
  <2>1. Domains' /\ \A d \in Callers \ {c} : Untouched(d)
    BY <1>1, <1>2, OthersUntouched DEF CallInv
  <2>2. \A d \in Callers \ {c} : Holds(d)'
    BY <1>1, <2>1, UntouchedHolds DEF CallInv
  <2>3. Holds(c)'
    BY <1>1, <1>2, CallersHold, FrontHolds, ServiceHolds DEF CallInv, ServerStep, Receive
  <2>4. QED
    BY <2>1, <2>2, <2>3 DEF CallInv
<1>3. CASE UNCHANGED vars
  <2>1. \A d \in Callers : Untouched(d)
    BY <1>3 DEF Untouched, vars, callerVars, handlerVars, worldVars
  <2>2. Domains'
    BY <1>1, <1>3 DEF CallInv, Domains, vars, callerVars, handlerVars, worldVars
  <2>3. QED
    BY <1>1, <2>1, <2>2, UntouchedHolds DEF CallInv
<1>4. QED
  BY <1>1, <1>2, <1>3 DEF Next, Rest

\* Whatever calls overlap, panic or fail, a call that is answered as the client's
\* mistake has written nothing, unless its season is over: the handlers of
\* api/leaderboard.go find such mistakes before their first service call.
THEOREM ClientErrorsWroteNothingEver == Spec => []ClientErrorsWroteNothing
<1>1. CallInv => ClientErrorsWroteNothing
  BY DEF CallInv, Holds, AnswerFits, ClientErrorsWroteNothing
<1>2. QED
  BY <1>1, CallInvInit, CallInvNext, PTL DEF Spec

=============================================================================
