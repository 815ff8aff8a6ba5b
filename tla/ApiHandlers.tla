----------------------------- MODULE ApiHandlers -----------------------------
(***************************************************************************)
(* The handlers of the gRPC service (api/leaderboard.go), without what     *)
(* they share with other calls: which messages they refuse, what they ask  *)
(* of the leaderboard service, one call after the other, what an error of  *)
(* it is answered with, and the response made of its results.              *)
(***************************************************************************)
EXTENDS Gateway, Paging

\* A double as a 64-bit integer: the fraction is cut off.
Int64(double) == IF double >= 0 THEN double \div 2 ELSE -((-double) \div 2)

GetOrder(order) == IF order \in {"asc", "desc"} THEN order ELSE "desc"

-----------------------------------------------------------------------------
(* Messages that are refused                                               *)

\* The handlers that read a body, and how they call it.
BodyField ==
    [UpsertScore |-> "ScoreChange", BulkUpsertScores |-> "MemberScores",
     IncrementScore |-> "Body", UpsertScoreMultiLeaderboards |-> "ScoreMultiChange"]

\* A request that came without its body: the handler dereferences nil.
LacksBody(method, msg) == method \in DOMAIN BodyField /\ msg[BodyField[method]] = Nil

\* Mutant of PageTooLarge: a page of the maximum is too large.
PageAtLimit(msg) == GetPageSize(msg.PageSize) >= MaxReturnedMembers

PageTooLarge(msg) == GetPageSize(msg.PageSize) > MaxReturnedMembers

\* Answered with InvalidArgument before anything is done.
Refused(method, msg) ==
    CASE method = "BulkUpsertScores" ->
            \E i \in DOMAIN msg.MemberScores.Members :
                msg.MemberScores.Members[i].PublicID = ""
      [] method = "IncrementScore" -> msg.Body.Increment = 0
      [] method = "UpsertScoreMultiLeaderboards" -> msg.ScoreMultiChange.Leaderboards = <<>>
      [] method \in {"RemoveMembers", "GetMembers"} -> msg.Ids = <<>>
      [] method = "GetRankMultiLeaderboards" -> msg.LeaderboardIds = <<>>
      [] method \in {"GetAroundMember", "GetAroundScore", "GetTopMembers"} -> PageTooLarge(msg)
      [] method = "GetTopPercentage" -> msg.Percentage = 0
      [] OTHER -> FALSE

\* The handlers that count what they refuse as an error.
CountsRefusals ==
    {"RemoveMembers", "GetMembers", "GetRankMultiLeaderboards", "GetTopPercentage"}

-----------------------------------------------------------------------------
(* What is asked of the service                                            *)

SetScores(leaderboard, scores, prevRank) ==
    [service |-> "SetMembersScore", leaderboard |-> leaderboard,
     scores |-> scores, prevRank |-> prevRank]

Increment(leaderboard, member, increment) ==
    [service |-> "IncrementMemberScore", leaderboard |-> leaderboard,
     scores |-> <<[PublicID |-> member, Score |-> increment]>>, prevRank |-> FALSE]

RemoveFrom(leaderboard, members) ==
    [service |-> "RemoveMembers", leaderboard |-> leaderboard, members |-> members]

Lookup(service, leaderboard, members, order) ==
    [service |-> service, leaderboard |-> leaderboard, members |-> members,
     order |-> GetOrder(order)]

\* GetTopMembers: a page before the first is the first.
Page(msg) ==
    [service |-> "GetLeaders", leaderboard |-> msg.LeaderboardId,
     page |-> AtLeast(1, msg.PageNumber), pageSize |-> GetPageSize(msg.PageSize),
     order |-> GetOrder(msg.Order)]

AroundMember(msg) ==
    [service |-> "GetAroundMe", leaderboard |-> msg.LeaderboardId,
     member |-> msg.MemberPublicId, getLastIfNotFound |-> msg.GetLastIfNotFound,
     pageSize |-> GetPageSize(msg.PageSize), order |-> GetOrder(msg.Order)]

AroundScore(msg) ==
    [service |-> "GetAroundScore", leaderboard |-> msg.LeaderboardId,
     score |-> Int64(msg.Score), pageSize |-> GetPageSize(msg.PageSize),
     order |-> GetOrder(msg.Order)]

Percentage(msg) ==
    [service |-> "GetTopPercentage", leaderboard |-> msg.LeaderboardId,
     percentage |-> msg.Percentage, order |-> GetOrder(msg.Order)]

\* The scores of a bulk: the service writes them with one command.
BulkScores(members) ==
    [i \in DOMAIN members |->
        [PublicID |-> members[i].PublicID, Score |-> Int64(members[i].Score)]]

\* Mutant of MultiScores: every call is for the first of the leaderboards.
MultiScoresOfFirst(msg) ==
    [i \in DOMAIN msg.ScoreMultiChange.Leaderboards |->
        SetScores(msg.ScoreMultiChange.Leaderboards[1],
                  <<[PublicID |-> msg.MemberPublicId, Score |-> Int64(msg.ScoreMultiChange.Score)]>>,
                  msg.PrevRank)]

\* One call for each leaderboard, in the order of the request.
MultiScores(msg) ==
    [i \in DOMAIN msg.ScoreMultiChange.Leaderboards |->
        SetScores(msg.ScoreMultiChange.Leaderboards[i],
                  <<[PublicID |-> msg.MemberPublicId, Score |-> Int64(msg.ScoreMultiChange.Score)]>>,
                  msg.PrevRank)]

MultiRanks(msg) ==
    [i \in DOMAIN msg.LeaderboardIds |->
        Lookup("GetMember", msg.LeaderboardIds[i], <<msg.MemberPublicId>>, msg.Order)]

ServiceCalls(method, msg) ==
    CASE method = "UpsertScore" ->
            <<SetScores(msg.LeaderboardId,
                <<[PublicID |-> msg.MemberPublicId, Score |-> Int64(msg.ScoreChange.Score)]>>,
                msg.PrevRank)>>
      [] method = "BulkUpsertScores" ->
            <<SetScores(msg.LeaderboardId, BulkScores(msg.MemberScores.Members), msg.PrevRank)>>
      [] method = "IncrementScore" ->
            <<Increment(msg.LeaderboardId, msg.MemberPublicId, Int64(msg.Body.Increment))>>
      [] method = "UpsertScoreMultiLeaderboards" -> MultiScores(msg)
      [] method = "RemoveMember" -> <<RemoveFrom(msg.LeaderboardId, <<msg.MemberPublicId>>)>>
      [] method = "RemoveMembers" -> <<RemoveFrom(msg.LeaderboardId, msg.Ids)>>
      [] method = "RemoveLeaderboard" ->
            <<[service |-> "RemoveLeaderboard", leaderboard |-> msg.LeaderboardId]>>
      [] method = "TotalMembers" ->
            <<[service |-> "TotalMembers", leaderboard |-> msg.LeaderboardId]>>
      [] method = "GetMember" ->
            <<Lookup("GetMember", msg.LeaderboardId, <<msg.MemberPublicId>>, msg.Order)>>
      [] method = "GetRank" ->
            <<Lookup("GetRank", msg.LeaderboardId, <<msg.MemberPublicId>>, msg.Order)>>
      [] method = "GetMembers" ->
            <<Lookup("GetMembers", msg.LeaderboardId, msg.Ids, msg.Order)>>
      [] method = "GetRankMultiLeaderboards" -> MultiRanks(msg)
      [] method = "GetAroundMember" -> <<AroundMember(msg)>>
      [] method = "GetAroundScore" -> <<AroundScore(msg)>>
      [] method = "GetTopMembers" -> <<Page(msg)>>
      [] method = "GetTopPercentage" -> <<Percentage(msg)>>

-----------------------------------------------------------------------------
(* What an error of the service is answered with                           *)

Errors == {"MemberNotFound", "LeaderboardExpired", "Percentage", "General"}

Codes == {"OK", "InvalidArgument", "NotFound", "Unauthenticated", "Unknown"}

\* Mutant of CodeOf: a season that is over is refused by every handler.
CodeOfAnyExpired(method, err) ==
    CASE err = "LeaderboardExpired" -> "InvalidArgument"
      [] err = "MemberNotFound" -> "NotFound"
      [] err = "Percentage" -> "InvalidArgument"
      [] OTHER -> "Unknown"

CodeOf(method, err) ==
    CASE /\ err = "LeaderboardExpired"
         /\ method \in {"UpsertScore", "BulkUpsertScores", "IncrementScore"} -> "InvalidArgument"
      [] err = "MemberNotFound" -> "NotFound"
      [] err = "Percentage" -> "InvalidArgument"
      [] OTHER -> "Unknown"

HTTPStatusFromCode ==
    [OK |-> 200, InvalidArgument |-> 400, Unauthenticated |-> 401, NotFound |-> 404,
     Unknown |-> 500]

-----------------------------------------------------------------------------
(* Responses.  results are what the service calls gave, one after the      *)
(* other: members, or a number.                                            *)

NamedResponse(member) ==
    [Success |-> TRUE, PublicID |-> member.PublicID, Score |-> 2 * member.Score,
     Rank |-> member.Rank, PreviousRank |-> member.PreviousRank, ExpireAt |-> member.ExpireAt]

BulkResponse(members) ==
    [Success |-> TRUE,
     Members |-> [i \in DOMAIN members |->
         [PublicID |-> members[i].PublicID, Score |-> 2 * members[i].Score,
          Rank |-> members[i].Rank, PreviousRank |-> members[i].PreviousRank,
          ExpireAt |-> members[i].ExpireAt]]]

\* results[i] is of the i-th leaderboard of the request.
MultiResponse(msg, results) ==
    [Success |-> TRUE,
     Scores |-> [i \in DOMAIN results |->
         [LeaderboardID |-> msg.ScoreMultiChange.Leaderboards[i],
          PublicID |-> results[i][1].PublicID, Score |-> 2 * results[i][1].Score,
          Rank |-> results[i][1].Rank, PreviousRank |-> results[i][1].PreviousRank,
          ExpireAt |-> results[i][1].ExpireAt]]]

RankMultiResponse(msg, results) ==
    [Success |-> TRUE,
     Scores |-> [i \in DOMAIN results |->
         [LeaderboardID |-> msg.LeaderboardIds[i], Rank |-> results[i][1].Rank,
          Score |-> 2 * results[i][1].Score, ExpireAt |-> results[i][1].ExpireAt]]]

\* The position counts from 0 what was found; not found is every name without one.
GetMembersResponseOf(msg, members) ==
    [Success |-> TRUE,
     Members |-> [i \in DOMAIN members |->
         [PublicID |-> members[i].PublicID, Score |-> 2 * members[i].Score,
          Rank |-> members[i].Rank, ExpireAt |-> members[i].ExpireAt, Position |-> i - 1]],
     NotFound |-> SelectSeq(msg.Ids, LAMBDA id :
         \A i \in DOMAIN members : members[i].PublicID # id)]

NewMemberRankResponseList(members) ==
    [Success |-> TRUE,
     Members |-> [i \in DOMAIN members |->
         [PublicID |-> members[i].PublicID, Score |-> 2 * members[i].Score,
          Rank |-> members[i].Rank]]]

Response(method, msg, results) ==
    CASE method \in {"UpsertScore", "IncrementScore", "GetMember"} -> NamedResponse(results[1][1])
      [] method = "BulkUpsertScores" -> BulkResponse(results[1])
      [] method = "UpsertScoreMultiLeaderboards" -> MultiResponse(msg, results)
      [] method = "GetRankMultiLeaderboards" -> RankMultiResponse(msg, results)
      [] method = "GetMembers" -> GetMembersResponseOf(msg, results[1])
      [] method = "GetRank" ->
            [Success |-> TRUE, PublicID |-> msg.MemberPublicId, Rank |-> results[1][1].Rank]
      [] method = "TotalMembers" -> [Success |-> TRUE, Count |-> results[1]]
      [] method \in {"RemoveMember", "RemoveMembers", "RemoveLeaderboard"} ->
            [Success |-> TRUE, Reason |-> ""]
      [] OTHER -> NewMemberRankResponseList(results[1])

=============================================================================
