-------------------------------- MODULE MCCalls --------------------------------
(* A small instance of ApiCalls for TLC. *)
EXTENDS ApiCalls

DigitsOf == [n \in {0, 1, 50} |-> CASE n = 0 -> "0" [] n = 1 -> "1" [] n = 50 -> "50"]

InNameOrder == <<"m1", "m2">>

UpdateScore(l, m, score, ttl) ==
    [fn |-> "UpdateScore", leaderboard |-> l, member |-> m, score |-> score, ttl |-> ttl]
IncrementScore(l, m, increment) ==
    [fn |-> "IncrementScore", leaderboard |-> l, member |-> m, increment |-> increment,
     ttl |-> 0]
UpdateScores(ls) ==
    [fn |-> "UpdateScores", leaderboards |-> ls, member |-> "m2", score |-> 1, ttl |-> 0]
UpdateMembersScore(members) ==
    [fn |-> "UpdateMembersScore", leaderboard |-> "b", members |-> members, ttl |-> 1]
RemoveMember(l, m) ==
    [fn |-> "RemoveMemberFromLeaderboard", leaderboard |-> l, member |-> m]
Request_(verb, path, query, body) ==
    [fn |-> "request", request |-> Send(verb, path, query, body)]

\* Calls that write, some of them refused.
Writes ==
    {UpdateScore("b", "m1", 2, -1), UpdateScore("over", "m1", 1, 1), UpdateScore("b", "", 1, 0),
     IncrementScore("b", "m1", 1), IncrementScore("b", "m1", 0),
     UpdateScores(<<"b", "over">>), UpdateScores(<<>>),
     UpdateMembersScore(<<[PublicID |-> "m1", Score |-> 1], [PublicID |-> "m2", Score |-> 3]>>),
     UpdateMembersScore(<<[PublicID |-> "", Score |-> 1]>>), UpdateMembersScore(<<>>),
     Request_("PATCH", <<"l", "b", "members", "m1", "score">>, NoQuery, [Increment |-> 1]),
     Request_("PATCH", <<"l", "b", "members", "m1", "score">>, NoQuery, Nil)}

Removals ==
    {RemoveMember("b", "m1"), RemoveMember("b", ""),
     [fn |-> "DeleteLeaderboard", leaderboard |-> "b"],
     [fn |-> "DeleteLeaderboard", leaderboard |-> ""],
     Request_("DELETE", <<"l", "b", "members">>, [ids |-> <<"m1", "m2">>], Nil)}

Lookups ==
    {[fn |-> "GetTop", leaderboard |-> "b", page |-> 1, pageSize |-> 1],
     [fn |-> "GetTop", leaderboard |-> "b", page |-> 0, pageSize |-> 3],
     [fn |-> "GetTopPercent", leaderboard |-> "b", percentage |-> 50],
     [fn |-> "GetTopPercent", leaderboard |-> "b", percentage |-> 0],
     [fn |-> "GetMember", leaderboard |-> "b", member |-> "m1"],
     [fn |-> "GetMembers", leaderboard |-> "b", ids |-> <<"m2", "m1">>],
     [fn |-> "GetMembers", leaderboard |-> "b", ids |-> <<"">>],
     [fn |-> "GetMemberInLeaderboards", leaderboards |-> <<"b", "over">>, member |-> "m2",
      order |-> "desc"],
     [fn |-> "GetMembersAroundMember", leaderboard |-> "b", member |-> "m1", pageSize |-> 1,
      getLastIfNotFound |-> TRUE, order |-> "asc"],
     [fn |-> "GetCount", leaderboard |-> "b"], [fn |-> "Healthcheck"],
     Request_("GET", <<"l", "b", "members", "m1", "rank", "">>, NoQuery, Nil),
     Request_("GET", <<"l", "b", "scores", "1", "around">>, NoQuery, Nil),
     Request_("GET", <<"l", "b", "top", "m1">>, NoQuery, Nil),
     Request_("POST", <<"l", "", "b">>, NoQuery, Nil)}

\* One caller writes, the other does anything.
WishesOf == [c \in Callers |->
    IF c = "first" THEN Writes ELSE Writes \cup Removals \cup Lookups]

Nobody == [l \in Boards |-> EmptyBoard]

NobodyYet == {Nobody}

=============================================================================
