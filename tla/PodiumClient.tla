----------------------------- MODULE PodiumClient -----------------------------
(***************************************************************************)
(* The HTTP client library (client/client.go): the request each of its     *)
(* functions sends, and what it makes of the answer.                       *)
(*                                                                         *)
(* A call is a record of the function's name and arguments.  Names go into *)
(* the URL as they are.                                                    *)
(***************************************************************************)
EXTENDS Gateway

\* The functions and what they take.  A page is one of those that Digits writes.
CallOf ==
    [UpdateScore |->
        [fn : {"UpdateScore"}, leaderboard : STRING, member : STRING, score : Int, ttl : Int],
     IncrementScore |->
        [fn : {"IncrementScore"}, leaderboard : STRING, member : STRING, increment : Int,
         ttl : Int],
     UpdateScores |->
        [fn : {"UpdateScores"}, leaderboards : Names, member : STRING, score : Int, ttl : Int],
     UpdateMembersScore |->
        [fn : {"UpdateMembersScore"}, leaderboard : STRING,
         members : Seq([PublicID : STRING, Score : Int]), ttl : Int],
     RemoveMemberFromLeaderboard |->
        [fn : {"RemoveMemberFromLeaderboard"}, leaderboard : STRING, member : STRING],
     DeleteLeaderboard |-> [fn : {"DeleteLeaderboard"}, leaderboard : STRING],
     GetTop |->
        [fn : {"GetTop"}, leaderboard : STRING, page : DOMAIN Digits, pageSize : Int],
     GetTopPercent |->
        [fn : {"GetTopPercent"}, leaderboard : STRING, percentage : DOMAIN Digits],
     GetMember |-> [fn : {"GetMember"}, leaderboard : STRING, member : STRING],
     GetMembers |-> [fn : {"GetMembers"}, leaderboard : STRING, ids : Names],
     GetMemberInLeaderboards |->
        [fn : {"GetMemberInLeaderboards"}, leaderboards : Names, member : STRING,
         order : STRING],
     GetMembersAroundMember |->
        [fn : {"GetMembersAroundMember"}, leaderboard : STRING, member : STRING,
         pageSize : Int, getLastIfNotFound : BOOLEAN, order : STRING],
     GetCount |-> [fn : {"GetCount"}, leaderboard : STRING],
     Healthcheck |-> [fn : {"Healthcheck"}]]

NoQuery == [name \in {} |-> ""]

Send(verb, path, query, body) ==
    [verb |-> verb, path |-> path, query |-> query, body |-> body]

\* A list of names in a query: that of one empty name is no text at all.
Csv(names) == IF names = <<"">> THEN <<>> ELSE names

\* Mutant of AppendScoreTTLAndPrevRank: the TTL is not sent.
AppendPrevRank(ttl) == [prevRank |-> TRUE]

AppendScoreTTLAndPrevRank(ttl) ==
    IF ttl <= 0 THEN [prevRank |-> TRUE] ELSE [prevRank |-> TRUE, scoreTTL |-> ttl]

-----------------------------------------------------------------------------
(* Requests.  A score of the library is an integer, in a body a double.    *)

BuildUpdateScore(c) ==
    Send("PUT", <<"l", c.leaderboard, "members", c.member, "score">>,
         AppendScoreTTLAndPrevRank(c.ttl), [Score |-> 2 * c.score])

BuildIncrementScore(c) ==
    Send("PATCH", <<"l", c.leaderboard, "members", c.member, "score">>,
         AppendScoreTTLAndPrevRank(c.ttl), [Increment |-> 2 * c.increment])

BuildUpdateScores(c) ==
    Send("PUT", <<"m", c.member, "scores">>, AppendScoreTTLAndPrevRank(c.ttl),
         [Score |-> 2 * c.score, Leaderboards |-> c.leaderboards])

BuildUpdateMembersScore(c) ==
    Send("PUT", <<"l", c.leaderboard, "scores">>, AppendScoreTTLAndPrevRank(c.ttl),
         [Members |-> [i \in DOMAIN c.members |->
             [PublicID |-> c.members[i].PublicID, Score |-> 2 * c.members[i].Score]]])

BuildRemoveMemberFromLeaderboard(c) ==
    Send("DELETE", <<"l", c.leaderboard, "members", c.member>>, NoQuery, Nil)

BuildDeleteLeaderboard(c) == Send("DELETE", <<"l", c.leaderboard>>, NoQuery, Nil)

BuildGetTop(c) ==
    Send("GET", <<"l", c.leaderboard, "top", Digits[c.page]>>,
         [pageSize |-> c.pageSize], Nil)

BuildGetTopPercent(c) ==
    Send("GET", <<"l", c.leaderboard, "top-percent", Digits[c.percentage]>>, NoQuery, Nil)

BuildGetMember(c) == Send("GET", <<"l", c.leaderboard, "members", c.member>>, NoQuery, Nil)

BuildGetMembers(c) ==
    Send("GET", <<"l", c.leaderboard, "members">>, [ids |-> Csv(c.ids)], Nil)

BuildGetMemberInLeaderboards(c) ==
    Send("GET", <<"m", c.member, "scores">>,
         [leaderboardIds |-> Csv(c.leaderboards), order |-> c.order], Nil)

BuildGetMembersAroundMember(c) ==
    Send("GET", <<"l", c.leaderboard, "members", c.member, "around">>,
         [pageSize |-> c.pageSize, getLastIfNotFound |-> c.getLastIfNotFound,
          order |-> c.order], Nil)

BuildGetCount(c) == Send("GET", <<"l", c.leaderboard, "members-count">>, NoQuery, Nil)

BuildHealthcheck(c) == Send("GET", <<"healthcheck">>, NoQuery, Nil)

Build(c) ==
    CASE c.fn = "UpdateScore" -> BuildUpdateScore(c)
      [] c.fn = "IncrementScore" -> BuildIncrementScore(c)
      [] c.fn = "UpdateScores" -> BuildUpdateScores(c)
      [] c.fn = "UpdateMembersScore" -> BuildUpdateMembersScore(c)
      [] c.fn = "RemoveMemberFromLeaderboard" -> BuildRemoveMemberFromLeaderboard(c)
      [] c.fn = "DeleteLeaderboard" -> BuildDeleteLeaderboard(c)
      [] c.fn = "GetTop" -> BuildGetTop(c)
      [] c.fn = "GetTopPercent" -> BuildGetTopPercent(c)
      [] c.fn = "GetMember" -> BuildGetMember(c)
      [] c.fn = "GetMembers" -> BuildGetMembers(c)
      [] c.fn = "GetMemberInLeaderboards" -> BuildGetMemberInLeaderboards(c)
      [] c.fn = "GetMembersAroundMember" -> BuildGetMembersAroundMember(c)
      [] c.fn = "GetCount" -> BuildGetCount(c)
      [] c.fn = "Healthcheck" -> BuildHealthcheck(c)

-----------------------------------------------------------------------------
(* Answers: the JSON object decoded into what the function returns, fields *)
(* that the object has not being left at their zero values                 *)

Field(json, name, zero) == IF name \in DOMAIN json THEN json[name] ELSE zero

\* A Member, and a Score, which has the same fields.
AsMember(json) ==
    [LeaderboardID |-> Field(json, "LeaderboardID", ""),
     PublicID |-> Field(json, "PublicID", ""),
     Score |-> Field(json, "Score", 0) \div 2,
     Rank |-> Field(json, "Rank", 0),
     PreviousRank |-> Field(json, "PreviousRank", 0)]

AsMembers(list) == [i \in DOMAIN list |-> AsMember(list[i])]

AsMemberList(json) ==
    [Members |-> AsMembers(Field(json, "Members", <<>>)),
     Member |-> Field(json, "Member", Nil),
     NotFound |-> Field(json, "NotFound", <<>>)]

AsScoreList(json) == [Scores |-> AsMembers(Field(json, "Scores", <<>>))]

AsResponse(json) ==
    [Success |-> Field(json, "Success", FALSE), Reason |-> Field(json, "Reason", "")]

AsCount(json) == [Count |-> Field(json, "Count", 0)]

Result(c, json) ==
    CASE c.fn \in {"UpdateScore", "GetMember"} -> AsMember(json)
      [] c.fn \in {"UpdateScores", "GetMemberInLeaderboards"} -> AsScoreList(json)
      [] c.fn \in {"RemoveMemberFromLeaderboard", "DeleteLeaderboard"} -> AsResponse(json)
      [] c.fn = "GetCount" -> AsCount(json)
      [] c.fn = "Healthcheck" -> json
      [] OTHER -> AsMemberList(json)

\* Mutant of Redirected: the path is the one that was redirected.
RedirectedAsIs(request) == [request EXCEPT !.verb = "GET", !.body = Nil]

\* What net/http sends when it is redirected: GET, whatever the request was,
\* and no body unless it had none.
Redirected(request) ==
    [request EXCEPT !.verb = "GET", !.path = CleanPath(@), !.body = Nil]

-----------------------------------------------------------------------------
(* What a call comes to, in the caller's words                             *)

Score(leaderboard, member, score) ==
    [on |-> leaderboard, member |-> member, score |-> score]

\* The scores that the caller wants written, in order.
Wanted(c) ==
    CASE c.fn = "UpdateScore" -> <<Score(c.leaderboard, c.member, c.score)>>
      [] c.fn = "IncrementScore" -> <<Score(c.leaderboard, c.member, c.increment)>>
      [] c.fn = "UpdateScores" ->
            [i \in DOMAIN c.leaderboards |-> Score(c.leaderboards[i], c.member, c.score)]
      [] c.fn = "UpdateMembersScore" ->
            [i \in DOMAIN c.members |->
                Score(c.leaderboard, c.members[i].PublicID, c.members[i].Score)]
      [] OTHER -> <<>>

\* What the function returned says that they were.
Confirms(c, result) ==
    CASE c.fn = "UpdateScore" -> result.PublicID # "" /\ result.PublicID = c.member
      [] c.fn = "UpdateScores" -> result.Scores # <<>>
      [] c.fn = "UpdateMembersScore" -> result.Members # <<>>
      [] OTHER -> FALSE

=============================================================================
