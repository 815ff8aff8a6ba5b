------------------------------- MODULE Gateway -------------------------------
(***************************************************************************)
(* From an HTTP request to a message of the gRPC service: the routes and   *)
(* the decoders of the gateway, and what net/http does before them.        *)
(*                                                                         *)
(* A request is its verb, the segments of its path, its query and its JSON *)
(* body, Nil if it has none.  A path that ends in a slash has an empty     *)
(* last segment.  Names hold neither slashes nor commas, nor anything else *)
(* that has a meaning of its own in a URL, such as a segment of dots.      *)
(***************************************************************************)
EXTENDS Protocol, SequencesExt

CONSTANT Digits   \* Digits[n]: the number n as the text of a path's segment

ASSUME DigitsAssumption ==
    /\ Digits \in [DOMAIN Digits -> STRING \ {""}] /\ DOMAIN Digits \subseteq Int
    /\ \A m, n \in DOMAIN Digits : Digits[m] = Digits[n] => m = n
    /\ Nil \notin Int

-----------------------------------------------------------------------------
(* Before the gateway                                                      *)

Empty(segment) == segment = ""

\* No segment but the last is empty: net/http serves the path as it is.
IsClean(path) == \A i \in 1 .. Len(path) - 1 : ~Empty(path[i])

\* What net/http redirects another path to: its last segment, and those before
\* that are not empty.
CleanPath(path) ==
    LET kept == {i \in 1 .. Len(path) : i = Len(path) \/ ~Empty(path[i])}
        nth(k) == CHOOSE i \in kept : Cardinality({j \in kept : j < i}) = k - 1
    IN  [k \in 1 .. Cardinality(kept) |-> path[nth(k)]]

RemoveTrailingSlash(path) ==
    IF Len(path) > 1 /\ Empty(Last(path)) THEN Front(path) ELSE path

-----------------------------------------------------------------------------
(* Routes                                                                  *)

Variables ==
    {"{leaderboard_id}", "{member_public_id}", "{score}", "{page_number}", "{percentage}"}

Route(verb, path) == [verb |-> verb, path |-> path]

Patterns ==
    [RemoveLeaderboard |-> Route("DELETE", <<"l", "{leaderboard_id}">>),
     BulkUpsertScores |-> Route("PUT", <<"l", "{leaderboard_id}", "scores">>),
     UpsertScore |->
        Route("PUT", <<"l", "{leaderboard_id}", "members", "{member_public_id}", "score">>),
     TotalMembers |-> Route("GET", <<"l", "{leaderboard_id}", "members-count">>),
     IncrementScore |->
        Route("PATCH", <<"l", "{leaderboard_id}", "members", "{member_public_id}", "score">>),
     GetMember |-> Route("GET", <<"l", "{leaderboard_id}", "members", "{member_public_id}">>),
     GetMembers |-> Route("GET", <<"l", "{leaderboard_id}", "members">>),
     RemoveMember |->
        Route("DELETE", <<"l", "{leaderboard_id}", "members", "{member_public_id}">>),
     RemoveMembers |-> Route("DELETE", <<"l", "{leaderboard_id}", "members">>),
     GetRank |->
        Route("GET", <<"l", "{leaderboard_id}", "members", "{member_public_id}", "rank">>),
     GetAroundMember |->
        Route("GET", <<"l", "{leaderboard_id}", "members", "{member_public_id}", "around">>),
     GetAroundScore |->
        Route("GET", <<"l", "{leaderboard_id}", "scores", "{score}", "around">>),
     GetTopMembers |-> Route("GET", <<"l", "{leaderboard_id}", "top", "{page_number}">>),
     GetTopPercentage |->
        Route("GET", <<"l", "{leaderboard_id}", "top-percent", "{percentage}">>),
     UpsertScoreMultiLeaderboards |-> Route("PUT", <<"m", "{member_public_id}", "scores">>),
     GetRankMultiLeaderboards |-> Route("GET", <<"m", "{member_public_id}", "scores">>)]

Matches(pattern, path) ==
    /\ Len(pattern) = Len(path)
    /\ \A i \in 1 .. Len(path) : pattern[i] \in Variables \/ pattern[i] = path[i]

\* The methods a request is for; there is one at the most.
MethodsFor(verb, path) ==
    {m \in Methods : Patterns[m].verb = verb /\ Matches(Patterns[m].path, path)}

\* The answer to a request that is for none.
UnroutedStatus(path) ==
    IF \E m \in Methods : Matches(Patterns[m].path, path) THEN 405 ELSE 404

-----------------------------------------------------------------------------
(* Decoders: what each method's message is made of.  p is the path, q the  *)
(* query and b the body; a body that is not there leaves its field nil,    *)
(* and parts of the query that the message does not have are ignored.      *)

Asked(q, name, zero) == IF name \in DOMAIN q THEN q[name] ELSE zero

\* The text of a segment as a number, or Nil.
Number(segment) ==
    IF \E n \in DOMAIN Digits : Digits[n] = segment
    THEN CHOOSE n \in DOMAIN Digits : Digits[n] = segment
    ELSE Nil

Float64(segment) == IF Number(segment) = Nil THEN Nil ELSE 2 * Number(segment)

Request_RemoveLeaderboard(p, q, b) == [LeaderboardId |-> p[2]]

Request_BulkUpsertScores(p, q, b) ==
    [LeaderboardId |-> p[2], MemberScores |-> b,
     PrevRank |-> Asked(q, "prevRank", FALSE), ScoreTTL |-> Asked(q, "scoreTTL", 0)]

Request_UpsertScore(p, q, b) ==
    [LeaderboardId |-> p[2], MemberPublicId |-> p[4], ScoreChange |-> b,
     PrevRank |-> Asked(q, "prevRank", FALSE), ScoreTTL |-> Asked(q, "scoreTTL", 0)]

Request_TotalMembers(p, q, b) == [LeaderboardId |-> p[2]]

Request_IncrementScore(p, q, b) ==
    [LeaderboardId |-> p[2], MemberPublicId |-> p[4], Body |-> b,
     ScoreTTL |-> Asked(q, "scoreTTL", 0)]

Request_GetMember(p, q, b) ==
    [LeaderboardId |-> p[2], MemberPublicId |-> p[4],
     Order |-> Asked(q, "order", ""), ScoreTTL |-> Asked(q, "scoreTTL", FALSE)]

Request_GetMembers(p, q, b) ==
    [LeaderboardId |-> p[2], Order |-> Asked(q, "order", ""),
     ScoreTTL |-> Asked(q, "scoreTTL", FALSE), Ids |-> Asked(q, "ids", <<>>)]

Request_RemoveMember(p, q, b) == [LeaderboardId |-> p[2], MemberPublicId |-> p[4]]

Request_RemoveMembers(p, q, b) == [LeaderboardId |-> p[2], Ids |-> Asked(q, "ids", <<>>)]

Request_GetRank(p, q, b) ==
    [LeaderboardId |-> p[2], MemberPublicId |-> p[4], Order |-> Asked(q, "order", "")]

Request_GetAroundMember(p, q, b) ==
    [LeaderboardId |-> p[2], MemberPublicId |-> p[4], Order |-> Asked(q, "order", ""),
     GetLastIfNotFound |-> Asked(q, "getLastIfNotFound", FALSE),
     PageSize |-> Asked(q, "pageSize", 0)]

Request_GetAroundScore(p, q, b) ==
    [LeaderboardId |-> p[2], Score |-> Float64(p[4]), Order |-> Asked(q, "order", ""),
     PageSize |-> Asked(q, "pageSize", 0)]

Request_GetTopMembers(p, q, b) ==
    [LeaderboardId |-> p[2], PageNumber |-> Number(p[4]), Order |-> Asked(q, "order", ""),
     PageSize |-> Asked(q, "pageSize", 0)]

Request_GetTopPercentage(p, q, b) ==
    [LeaderboardId |-> p[2], Percentage |-> Number(p[4]), Order |-> Asked(q, "order", "")]

Request_UpsertScoreMultiLeaderboards(p, q, b) ==
    [MemberPublicId |-> p[2], ScoreMultiChange |-> b,
     PrevRank |-> Asked(q, "prevRank", FALSE), ScoreTTL |-> Asked(q, "scoreTTL", 0)]

Request_GetRankMultiLeaderboards(p, q, b) ==
    [MemberPublicId |-> p[2], LeaderboardIds |-> Asked(q, "leaderboardIds", <<>>),
     Order |-> Asked(q, "order", ""), ScoreTTL |-> Asked(q, "scoreTTL", FALSE)]

Request(method, p, q, b) ==
    CASE method = "RemoveLeaderboard" -> Request_RemoveLeaderboard(p, q, b)
      [] method = "BulkUpsertScores" -> Request_BulkUpsertScores(p, q, b)
      [] method = "UpsertScore" -> Request_UpsertScore(p, q, b)
      [] method = "TotalMembers" -> Request_TotalMembers(p, q, b)
      [] method = "IncrementScore" -> Request_IncrementScore(p, q, b)
      [] method = "GetMember" -> Request_GetMember(p, q, b)
      [] method = "GetMembers" -> Request_GetMembers(p, q, b)
      [] method = "RemoveMember" -> Request_RemoveMember(p, q, b)
      [] method = "RemoveMembers" -> Request_RemoveMembers(p, q, b)
      [] method = "GetRank" -> Request_GetRank(p, q, b)
      [] method = "GetAroundMember" -> Request_GetAroundMember(p, q, b)
      [] method = "GetAroundScore" -> Request_GetAroundScore(p, q, b)
      [] method = "GetTopMembers" -> Request_GetTopMembers(p, q, b)
      [] method = "GetTopPercentage" -> Request_GetTopPercentage(p, q, b)
      [] method = "UpsertScoreMultiLeaderboards" -> Request_UpsertScoreMultiLeaderboards(p, q, b)
      [] method = "GetRankMultiLeaderboards" -> Request_GetRankMultiLeaderboards(p, q, b)

\* Mutant of Decode: numbers are not checked.
DecodeUnchecked(method, p, q, b) == Request(method, p, q, b)

\* The message of a request, or Nil if a part of it has not the message's type.
Decode(method, p, q, b) ==
    LET message == Request(method, p, q, b)
    IN  IF message \in RequestOf[method] THEN message ELSE Nil

=============================================================================
