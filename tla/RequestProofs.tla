----------------------------- MODULE RequestProofs -----------------------------
(***************************************************************************)
(* What a function of the client library asks is what the server's handler *)
(* is asked, for any names, numbers and lists the functions are called     *)
(* with: the URLs of client/client.go against the gateway's patterns and   *)
(* decoders.  And what is written for it is what it asked, whatever        *)
(* happens to the request, the calls of others and Redis.                  *)
(***************************************************************************)
EXTENDS CallProofs, FiniteSetTheorems

-----------------------------------------------------------------------------
(* Patterns and paths                                                      *)

\* A path is matched if it is of the length and has the pattern's own segments.
LEMMA MatchTwo ==
    ASSUME NEW a, NEW b, NEW path,
           a \notin Variables, b \in Variables
    PROVE  Matches(<<a, b>>, path) <=>
              Len(path) = 2 /\ path[1] = a
  BY DEF Matches

LEMMA MatchThree ==
    ASSUME NEW a, NEW b, NEW d, NEW path,
           a \notin Variables, b \in Variables, d \notin Variables
    PROVE  Matches(<<a, b, d>>, path) <=>
              Len(path) = 3 /\ path[1] = a /\ path[3] = d
  BY DEF Matches

LEMMA MatchFour ==
    ASSUME NEW a, NEW b, NEW d, NEW e, NEW path,
           a \notin Variables, b \in Variables, d \notin Variables, e \in Variables
    PROVE  Matches(<<a, b, d, e>>, path) <=>
              Len(path) = 4 /\ path[1] = a /\ path[3] = d
  BY DEF Matches

LEMMA MatchFive ==
    ASSUME NEW a, NEW b, NEW d, NEW e, NEW f, NEW path,
           a \notin Variables, b \in Variables, d \notin Variables, e \in Variables,
           f \notin Variables
    PROVE  Matches(<<a, b, d, e, f>>, path) <=>
              Len(path) = 5 /\ path[1] = a /\ path[3] = d /\ path[5] = f
  BY DEF Matches

\* The methods of a verb.
LEMMA MethodsOfVerb ==
    ASSUME NEW path
    PROVE  /\ MethodsFor("PUT", path) =
                {m \in {"BulkUpsertScores", "UpsertScore", "UpsertScoreMultiLeaderboards"} :
                    Matches(Patterns[m].path, path)}
           /\ MethodsFor("PATCH", path) =
                {m \in {"IncrementScore"} : Matches(Patterns[m].path, path)}
           /\ MethodsFor("DELETE", path) =
                {m \in {"RemoveLeaderboard", "RemoveMember", "RemoveMembers"} :
                    Matches(Patterns[m].path, path)}
           /\ MethodsFor("GET", path) =
                {m \in {"TotalMembers", "GetMember", "GetMembers", "GetRank", "GetAroundMember",
                        "GetAroundScore", "GetTopMembers", "GetTopPercentage",
                        "GetRankMultiLeaderboards"} : Matches(Patterns[m].path, path)}
  <1>1. /\ Patterns["RemoveLeaderboard"].verb = "DELETE"
        /\ Patterns["BulkUpsertScores"].verb = "PUT"
        /\ Patterns["UpsertScore"].verb = "PUT"
        /\ Patterns["TotalMembers"].verb = "GET"
        /\ Patterns["IncrementScore"].verb = "PATCH"
        /\ Patterns["GetMember"].verb = "GET"
        /\ Patterns["GetMembers"].verb = "GET"
        /\ Patterns["RemoveMember"].verb = "DELETE"
        /\ Patterns["RemoveMembers"].verb = "DELETE"
        /\ Patterns["GetRank"].verb = "GET"
        /\ Patterns["GetAroundMember"].verb = "GET"
        /\ Patterns["GetAroundScore"].verb = "GET"
        /\ Patterns["GetTopMembers"].verb = "GET"
        /\ Patterns["GetTopPercentage"].verb = "GET"
        /\ Patterns["UpsertScoreMultiLeaderboards"].verb = "PUT"
        /\ Patterns["GetRankMultiLeaderboards"].verb = "GET"
    BY DEF Patterns, Route
  <1>2. Methods = {"UpsertScore", "BulkUpsertScores", "IncrementScore",
                   "UpsertScoreMultiLeaderboards", "RemoveLeaderboard", "RemoveMember",
                   "RemoveMembers", "TotalMembers", "GetMember", "GetMembers", "GetRank",
                   "GetRankMultiLeaderboards", "GetAroundMember", "GetAroundScore",
                   "GetTopMembers", "GetTopPercentage"}
    BY EachMethod DEF SeasonMethods
  <1> HIDE DEF Methods
  <1> QED BY <1>1, <1>2 DEF MethodsFor

LEMMA PathOfPattern ==
    /\ Patterns["RemoveLeaderboard"].path = <<"l", "{leaderboard_id}">>
    /\ Patterns["BulkUpsertScores"].path = <<"l", "{leaderboard_id}", "scores">>
    /\ Patterns["TotalMembers"].path = <<"l", "{leaderboard_id}", "members-count">>
    /\ Patterns["GetMembers"].path = <<"l", "{leaderboard_id}", "members">>
    /\ Patterns["RemoveMembers"].path = <<"l", "{leaderboard_id}", "members">>
    /\ Patterns["UpsertScoreMultiLeaderboards"].path = <<"m", "{member_public_id}", "scores">>
    /\ Patterns["GetRankMultiLeaderboards"].path = <<"m", "{member_public_id}", "scores">>
    /\ Patterns["GetMember"].path =
          <<"l", "{leaderboard_id}", "members", "{member_public_id}">>
    /\ Patterns["RemoveMember"].path =
          <<"l", "{leaderboard_id}", "members", "{member_public_id}">>
    /\ Patterns["GetTopMembers"].path = <<"l", "{leaderboard_id}", "top", "{page_number}">>
    /\ Patterns["GetTopPercentage"].path =
          <<"l", "{leaderboard_id}", "top-percent", "{percentage}">>
    /\ Patterns["UpsertScore"].path =
          <<"l", "{leaderboard_id}", "members", "{member_public_id}", "score">>
    /\ Patterns["IncrementScore"].path =
          <<"l", "{leaderboard_id}", "members", "{member_public_id}", "score">>
    /\ Patterns["GetRank"].path =
          <<"l", "{leaderboard_id}", "members", "{member_public_id}", "rank">>
    /\ Patterns["GetAroundMember"].path =
          <<"l", "{leaderboard_id}", "members", "{member_public_id}", "around">>
    /\ Patterns["GetAroundScore"].path =
          <<"l", "{leaderboard_id}", "scores", "{score}", "around">>
  BY DEF Patterns, Route

LEMMA VariableSegments ==
    /\ "{leaderboard_id}" \in Variables /\ "{member_public_id}" \in Variables
    /\ "{score}" \in Variables /\ "{page_number}" \in Variables /\ "{percentage}" \in Variables
    /\ "l" \notin Variables /\ "m" \notin Variables
    /\ "members" \notin Variables /\ "scores" \notin Variables /\ "score" \notin Variables
    /\ "rank" \notin Variables /\ "around" \notin Variables /\ "top" \notin Variables
    /\ "top-percent" \notin Variables /\ "members-count" \notin Variables
  BY DEF Variables

\* The paths that each method takes.
LEMMA PathsOf ==
    ASSUME NEW p
    PROVE  /\ Matches(Patterns["RemoveLeaderboard"].path, p) <=>
                 Len(p) = 2 /\ p[1] = "l"
           /\ Matches(Patterns["BulkUpsertScores"].path, p) <=>
                 Len(p) = 3 /\ p[1] = "l" /\ p[3] = "scores"
           /\ Matches(Patterns["TotalMembers"].path, p) <=>
                 Len(p) = 3 /\ p[1] = "l" /\ p[3] = "members-count"
           /\ Matches(Patterns["GetMembers"].path, p) <=>
                 Len(p) = 3 /\ p[1] = "l" /\ p[3] = "members"
           /\ Matches(Patterns["RemoveMembers"].path, p) <=>
                 Len(p) = 3 /\ p[1] = "l" /\ p[3] = "members"
           /\ Matches(Patterns["UpsertScoreMultiLeaderboards"].path, p) <=>
                 Len(p) = 3 /\ p[1] = "m" /\ p[3] = "scores"
           /\ Matches(Patterns["GetRankMultiLeaderboards"].path, p) <=>
                 Len(p) = 3 /\ p[1] = "m" /\ p[3] = "scores"
           /\ Matches(Patterns["GetMember"].path, p) <=>
                 Len(p) = 4 /\ p[1] = "l" /\ p[3] = "members"
           /\ Matches(Patterns["RemoveMember"].path, p) <=>
                 Len(p) = 4 /\ p[1] = "l" /\ p[3] = "members"
           /\ Matches(Patterns["GetTopMembers"].path, p) <=>
                 Len(p) = 4 /\ p[1] = "l" /\ p[3] = "top"
           /\ Matches(Patterns["GetTopPercentage"].path, p) <=>
                 Len(p) = 4 /\ p[1] = "l" /\ p[3] = "top-percent"
           /\ Matches(Patterns["UpsertScore"].path, p) <=>
                 Len(p) = 5 /\ p[1] = "l" /\ p[3] = "members" /\ p[5] = "score"
           /\ Matches(Patterns["IncrementScore"].path, p) <=>
                 Len(p) = 5 /\ p[1] = "l" /\ p[3] = "members" /\ p[5] = "score"
           /\ Matches(Patterns["GetRank"].path, p) <=>
                 Len(p) = 5 /\ p[1] = "l" /\ p[3] = "members" /\ p[5] = "rank"
           /\ Matches(Patterns["GetAroundMember"].path, p) <=>
                 Len(p) = 5 /\ p[1] = "l" /\ p[3] = "members" /\ p[5] = "around"
           /\ Matches(Patterns["GetAroundScore"].path, p) <=>
                 Len(p) = 5 /\ p[1] = "l" /\ p[3] = "scores" /\ p[5] = "around"
  <1>1. /\ Matches(<<"l", "{leaderboard_id}">>, p)
              <=> Len(p) = 2 /\ p[1] = "l"
    BY VariableSegments, MatchTwo
  <1>2. /\ Matches(<<"l", "{leaderboard_id}", "scores">>, p)
              <=> Len(p) = 3 /\ p[1] = "l" /\ p[3] = "scores"
        /\ Matches(<<"l", "{leaderboard_id}", "members-count">>, p)
              <=> Len(p) = 3 /\ p[1] = "l" /\ p[3] = "members-count"
        /\ Matches(<<"l", "{leaderboard_id}", "members">>, p)
              <=> Len(p) = 3 /\ p[1] = "l" /\ p[3] = "members"
        /\ Matches(<<"m", "{member_public_id}", "scores">>, p)
              <=> Len(p) = 3 /\ p[1] = "m" /\ p[3] = "scores"
    BY VariableSegments, MatchThree
  <1>3. /\ Matches(<<"l", "{leaderboard_id}", "members", "{member_public_id}">>, p)
              <=> Len(p) = 4 /\ p[1] = "l" /\ p[3] = "members"
        /\ Matches(<<"l", "{leaderboard_id}", "top", "{page_number}">>, p)
              <=> Len(p) = 4 /\ p[1] = "l" /\ p[3] = "top"
        /\ Matches(<<"l", "{leaderboard_id}", "top-percent", "{percentage}">>, p)
              <=> Len(p) = 4 /\ p[1] = "l" /\ p[3] = "top-percent"
    BY VariableSegments, MatchFour
  <1>4. /\ Matches(<<"l", "{leaderboard_id}", "members", "{member_public_id}", "score">>, p)
              <=> Len(p) = 5 /\ p[1] = "l" /\ p[3] = "members" /\ p[5] = "score"
        /\ Matches(<<"l", "{leaderboard_id}", "members", "{member_public_id}", "rank">>, p)
              <=> Len(p) = 5 /\ p[1] = "l" /\ p[3] = "members" /\ p[5] = "rank"
        /\ Matches(<<"l", "{leaderboard_id}", "members", "{member_public_id}", "around">>, p)
              <=> Len(p) = 5 /\ p[1] = "l" /\ p[3] = "members" /\ p[5] = "around"
        /\ Matches(<<"l", "{leaderboard_id}", "scores", "{score}", "around">>, p)
              <=> Len(p) = 5 /\ p[1] = "l" /\ p[3] = "scores" /\ p[5] = "around"
    BY VariableSegments, MatchFive
  <1> QED BY <1>1, <1>2, <1>3, <1>4, PathOfPattern

\* The method that each of the client library's paths is for.
LEMMA RoutesOf ==
    ASSUME NEW p
    PROVE  /\ Len(p) = 2 /\ p[1] = "l" => MethodsFor("DELETE", p) = {"RemoveLeaderboard"}
           /\ Len(p) = 3 /\ p[1] = "l" /\ p[3] = "scores" =>
                 MethodsFor("PUT", p) = {"BulkUpsertScores"}
           /\ Len(p) = 3 /\ p[1] = "m" /\ p[3] = "scores" =>
                 /\ MethodsFor("PUT", p) = {"UpsertScoreMultiLeaderboards"}
                 /\ MethodsFor("GET", p) = {"GetRankMultiLeaderboards"}
           /\ Len(p) = 3 /\ p[1] = "l" /\ p[3] = "members" =>
                 MethodsFor("GET", p) = {"GetMembers"}
           /\ Len(p) = 3 /\ p[1] = "l" /\ p[3] = "members-count" =>
                 MethodsFor("GET", p) = {"TotalMembers"}
           /\ Len(p) = 4 /\ p[1] = "l" /\ p[3] = "members" =>
                 /\ MethodsFor("DELETE", p) = {"RemoveMember"}
                 /\ MethodsFor("GET", p) = {"GetMember"}
           /\ Len(p) = 4 /\ p[1] = "l" /\ p[3] = "top" =>
                 MethodsFor("GET", p) = {"GetTopMembers"}
           /\ Len(p) = 4 /\ p[1] = "l" /\ p[3] = "top-percent" =>
                 MethodsFor("GET", p) = {"GetTopPercentage"}
           /\ Len(p) = 5 /\ p[1] = "l" /\ p[3] = "members" /\ p[5] = "score" =>
                 /\ MethodsFor("PUT", p) = {"UpsertScore"}
                 /\ MethodsFor("PATCH", p) = {"IncrementScore"}
           /\ Len(p) = 5 /\ p[1] = "l" /\ p[3] = "members" /\ p[5] = "around" =>
                 MethodsFor("GET", p) = {"GetAroundMember"}
           /\ Len(p) = 5 /\ p[1] = "l" /\ p[3] = "members" /\ p[5] = "rank" =>
                 MethodsFor("GET", p) = {"GetRank"}
  <1>1. ASSUME Len(p) = 2 /\ p[1] = "l"
        PROVE  MethodsFor("DELETE", p) = {"RemoveLeaderboard"}
    <2>1. /\ Matches(Patterns["RemoveLeaderboard"].path, p)
          /\ ~Matches(Patterns["RemoveMember"].path, p)
          /\ ~Matches(Patterns["RemoveMembers"].path, p)
      BY <1>1, PathsOf
    <2> QED BY <2>1, MethodsOfVerb
  <1>2. Len(p) = 3 /\ p[1] = "l" /\ p[3] = "scores" =>
          MethodsFor("PUT", p) = {"BulkUpsertScores"}
    BY PathsOf, MethodsOfVerb
  <1>3. Len(p) = 3 /\ p[1] = "m" /\ p[3] = "scores" =>
          MethodsFor("PUT", p) = {"UpsertScoreMultiLeaderboards"}
    BY PathsOf, MethodsOfVerb
  <1>4. ASSUME Len(p) = 3 /\ p[1] = "m" /\ p[3] = "scores"
        PROVE  MethodsFor("GET", p) = {"GetRankMultiLeaderboards"}
    <2>1. /\ Matches(Patterns["GetRankMultiLeaderboards"].path, p)
          /\ ~Matches(Patterns["TotalMembers"].path, p)
          /\ ~Matches(Patterns["GetMember"].path, p)
          /\ ~Matches(Patterns["GetMembers"].path, p)
          /\ ~Matches(Patterns["GetRank"].path, p)
          /\ ~Matches(Patterns["GetAroundMember"].path, p)
          /\ ~Matches(Patterns["GetAroundScore"].path, p)
          /\ ~Matches(Patterns["GetTopMembers"].path, p)
          /\ ~Matches(Patterns["GetTopPercentage"].path, p)
      BY <1>4, PathsOf
    <2> QED BY <2>1, MethodsOfVerb
  <1>5. ASSUME Len(p) = 3 /\ p[1] = "l" /\ p[3] = "members"
        PROVE  MethodsFor("GET", p) = {"GetMembers"}
    <2>1. /\ Matches(Patterns["GetMembers"].path, p)
          /\ ~Matches(Patterns["TotalMembers"].path, p)
          /\ ~Matches(Patterns["GetMember"].path, p) /\ ~Matches(Patterns["GetRank"].path, p)
          /\ ~Matches(Patterns["GetAroundMember"].path, p)
          /\ ~Matches(Patterns["GetAroundScore"].path, p)
          /\ ~Matches(Patterns["GetTopMembers"].path, p)
          /\ ~Matches(Patterns["GetTopPercentage"].path, p)
          /\ ~Matches(Patterns["GetRankMultiLeaderboards"].path, p)
      BY <1>5, PathsOf
    <2> QED BY <2>1, MethodsOfVerb
  <1>6. ASSUME Len(p) = 3 /\ p[1] = "l" /\ p[3] = "members-count"
        PROVE  MethodsFor("GET", p) = {"TotalMembers"}
    <2>1. /\ Matches(Patterns["TotalMembers"].path, p)
          /\ ~Matches(Patterns["GetMember"].path, p)
          /\ ~Matches(Patterns["GetMembers"].path, p)
          /\ ~Matches(Patterns["GetRank"].path, p)
          /\ ~Matches(Patterns["GetAroundMember"].path, p)
          /\ ~Matches(Patterns["GetAroundScore"].path, p)
          /\ ~Matches(Patterns["GetTopMembers"].path, p)
          /\ ~Matches(Patterns["GetTopPercentage"].path, p)
          /\ ~Matches(Patterns["GetRankMultiLeaderboards"].path, p)
      BY <1>6, PathsOf
    <2> QED BY <2>1, MethodsOfVerb
  <1>7. ASSUME Len(p) = 4 /\ p[1] = "l" /\ p[3] = "members"
        PROVE  MethodsFor("DELETE", p) = {"RemoveMember"}
    <2>1. /\ Matches(Patterns["RemoveMember"].path, p)
          /\ ~Matches(Patterns["RemoveLeaderboard"].path, p)
          /\ ~Matches(Patterns["RemoveMembers"].path, p)
      BY <1>7, PathsOf
    <2> QED BY <2>1, MethodsOfVerb
  <1>8. ASSUME Len(p) = 4 /\ p[1] = "l" /\ p[3] = "members"
        PROVE  MethodsFor("GET", p) = {"GetMember"}
    <2>1. /\ Matches(Patterns["GetMember"].path, p)
          /\ ~Matches(Patterns["TotalMembers"].path, p)
          /\ ~Matches(Patterns["GetMembers"].path, p)
          /\ ~Matches(Patterns["GetRank"].path, p)
          /\ ~Matches(Patterns["GetAroundMember"].path, p)
          /\ ~Matches(Patterns["GetAroundScore"].path, p)
          /\ ~Matches(Patterns["GetTopMembers"].path, p)
          /\ ~Matches(Patterns["GetTopPercentage"].path, p)
          /\ ~Matches(Patterns["GetRankMultiLeaderboards"].path, p)
      BY <1>8, PathsOf
    <2> QED BY <2>1, MethodsOfVerb
  <1>9. ASSUME Len(p) = 4 /\ p[1] = "l" /\ p[3] = "top"
        PROVE  MethodsFor("GET", p) = {"GetTopMembers"}
    <2>1. /\ Matches(Patterns["GetTopMembers"].path, p)
          /\ ~Matches(Patterns["TotalMembers"].path, p)
          /\ ~Matches(Patterns["GetMember"].path, p)
          /\ ~Matches(Patterns["GetMembers"].path, p)
          /\ ~Matches(Patterns["GetRank"].path, p)
          /\ ~Matches(Patterns["GetAroundMember"].path, p)
          /\ ~Matches(Patterns["GetAroundScore"].path, p)
          /\ ~Matches(Patterns["GetTopPercentage"].path, p)
          /\ ~Matches(Patterns["GetRankMultiLeaderboards"].path, p)
      BY <1>9, PathsOf
    <2> QED BY <2>1, MethodsOfVerb
  <1>10. ASSUME Len(p) = 4 /\ p[1] = "l" /\ p[3] = "top-percent"
        PROVE  MethodsFor("GET", p) = {"GetTopPercentage"}
    <2>1. /\ Matches(Patterns["GetTopPercentage"].path, p)
          /\ ~Matches(Patterns["TotalMembers"].path, p)
          /\ ~Matches(Patterns["GetMember"].path, p)
          /\ ~Matches(Patterns["GetMembers"].path, p)
          /\ ~Matches(Patterns["GetRank"].path, p)
          /\ ~Matches(Patterns["GetAroundMember"].path, p)
          /\ ~Matches(Patterns["GetAroundScore"].path, p)
          /\ ~Matches(Patterns["GetTopMembers"].path, p)
          /\ ~Matches(Patterns["GetRankMultiLeaderboards"].path, p)
      BY <1>10, PathsOf
    <2> QED BY <2>1, MethodsOfVerb
  <1>11. Len(p) = 5 /\ p[1] = "l" /\ p[3] = "members" /\ p[5] = "score" =>
          MethodsFor("PUT", p) = {"UpsertScore"}
    BY PathsOf, MethodsOfVerb
  <1>12. Len(p) = 5 /\ p[1] = "l" /\ p[3] = "members" /\ p[5] = "score" =>
          MethodsFor("PATCH", p) = {"IncrementScore"}
    BY PathsOf, MethodsOfVerb
  <1>13. ASSUME Len(p) = 5 /\ p[1] = "l" /\ p[3] = "members" /\ p[5] = "around"
        PROVE  MethodsFor("GET", p) = {"GetAroundMember"}
    <2>1. /\ Matches(Patterns["GetAroundMember"].path, p)
          /\ ~Matches(Patterns["TotalMembers"].path, p)
          /\ ~Matches(Patterns["GetMember"].path, p)
          /\ ~Matches(Patterns["GetMembers"].path, p)
          /\ ~Matches(Patterns["GetRank"].path, p)
          /\ ~Matches(Patterns["GetAroundScore"].path, p)
          /\ ~Matches(Patterns["GetTopMembers"].path, p)
          /\ ~Matches(Patterns["GetTopPercentage"].path, p)
          /\ ~Matches(Patterns["GetRankMultiLeaderboards"].path, p)
      BY <1>13, PathsOf
    <2> QED BY <2>1, MethodsOfVerb
  <1>14. ASSUME Len(p) = 5 /\ p[1] = "l" /\ p[3] = "members" /\ p[5] = "rank"
         PROVE  MethodsFor("GET", p) = {"GetRank"}
    <2>1. /\ Matches(Patterns["GetRank"].path, p)
          /\ ~Matches(Patterns["TotalMembers"].path, p)
          /\ ~Matches(Patterns["GetMember"].path, p)
          /\ ~Matches(Patterns["GetMembers"].path, p)
          /\ ~Matches(Patterns["GetAroundMember"].path, p)
          /\ ~Matches(Patterns["GetAroundScore"].path, p)
          /\ ~Matches(Patterns["GetTopMembers"].path, p)
          /\ ~Matches(Patterns["GetTopPercentage"].path, p)
          /\ ~Matches(Patterns["GetRankMultiLeaderboards"].path, p)
      BY <1>14, PathsOf
    <2> QED BY <2>1, MethodsOfVerb
  <1> QED BY <1>1, <1>2, <1>3, <1>4, <1>5, <1>6, <1>7, <1>8, <1>9, <1>10, <1>11, <1>12, <1>13,
             <1>14

\* A path of several segments, none of them empty, goes to the gateway as it is.
LEMMA FullPath ==
    ASSUME NEW p, Len(p) \in Nat \ {0, 1}, \A i \in 1 .. Len(p) : ~Empty(p[i])
    PROVE  IsClean(p) /\ p \notin Pages /\ RemoveTrailingSlash(p) = p
  <1>1. IsClean(p)
    BY DEF IsClean
  <1>2. Len(<<"healthcheck">>) = 1 /\ Len(<<"status">>) = 1
    OBVIOUS
  <1>3. p \notin Pages
    BY <1>2 DEF Pages
  <1>4. RemoveTrailingSlash(p) = p
    BY DEF RemoveTrailingSlash, Last
  <1> QED BY <1>1, <1>3, <1>4

\* Paths as the library writes them.
Stands(p) == IsClean(p) /\ p \notin Pages /\ RemoveTrailingSlash(p) = p

LEMMA PathOfTwo ==
    ASSUME NEW a, NEW b,
           ~Empty(a), ~Empty(b)
    PROVE  LET p == <<a, b>>
           IN  Stands(p) /\ Len(p) = 2 /\ p[1] = a /\ p[2] = b
  <1> DEFINE p == <<a, b>>
  <1>1. Len(p) = 2 /\ p[1] = a /\ p[2] = b
    OBVIOUS
  <1> HIDE DEF p
  <1>2. \A i \in 1 .. Len(p) : ~Empty(p[i])
    BY <1>1
  <1>3. Len(p) \in Nat \ {0, 1}
    BY <1>1
  <1>4. Stands(p)
    BY <1>2, <1>3, FullPath DEF Stands
  <1> QED BY <1>1, <1>4 DEF p

LEMMA PathOfThree ==
    ASSUME NEW a, NEW b, NEW d,
           ~Empty(a), ~Empty(b), ~Empty(d)
    PROVE  LET p == <<a, b, d>>
           IN  Stands(p) /\ Len(p) = 3 /\ p[1] = a /\ p[2] = b /\ p[3] = d
  <1> DEFINE p == <<a, b, d>>
  <1>1. Len(p) = 3 /\ p[1] = a /\ p[2] = b /\ p[3] = d
    OBVIOUS
  <1> HIDE DEF p
  <1>2. \A i \in 1 .. Len(p) : ~Empty(p[i])
    BY <1>1
  <1>3. Len(p) \in Nat \ {0, 1}
    BY <1>1
  <1>4. Stands(p)
    BY <1>2, <1>3, FullPath DEF Stands
  <1> QED BY <1>1, <1>4 DEF p

LEMMA PathOfFour ==
    ASSUME NEW a, NEW b, NEW d, NEW e,
           ~Empty(a), ~Empty(b), ~Empty(d), ~Empty(e)
    PROVE  LET p == <<a, b, d, e>>
           IN  Stands(p) /\ Len(p) = 4 /\ p[1] = a /\ p[2] = b /\ p[3] = d /\ p[4] = e
  <1> DEFINE p == <<a, b, d, e>>
  <1>1. Len(p) = 4 /\ p[1] = a /\ p[2] = b /\ p[3] = d /\ p[4] = e
    OBVIOUS
  <1> HIDE DEF p
  <1>2. \A i \in 1 .. Len(p) : ~Empty(p[i])
    BY <1>1
  <1>3. Len(p) \in Nat \ {0, 1}
    BY <1>1
  <1>4. Stands(p)
    BY <1>2, <1>3, FullPath DEF Stands
  <1> QED BY <1>1, <1>4 DEF p

LEMMA PathOfFive ==
    ASSUME NEW a, NEW b, NEW d, NEW e, NEW f,
           ~Empty(a), ~Empty(b), ~Empty(d), ~Empty(e), ~Empty(f)
    PROVE  LET p == <<a, b, d, e, f>>
           IN  /\ Stands(p) /\ Len(p) = 5
               /\ p[1] = a /\ p[2] = b /\ p[3] = d /\ p[4] = e /\ p[5] = f
  <1> DEFINE p == <<a, b, d, e, f>>
  <1>1. Len(p) = 5 /\ p[1] = a /\ p[2] = b /\ p[3] = d /\ p[4] = e /\ p[5] = f
    OBVIOUS
  <1> HIDE DEF p
  <1>2. \A i \in 1 .. Len(p) : ~Empty(p[i])
    BY <1>1
  <1>3. Len(p) \in Nat \ {0, 1}
    BY <1>1
  <1>4. Stands(p)
    BY <1>2, <1>3, FullPath DEF Stands
  <1> QED BY <1>1, <1>4 DEF p

LEMMA FullSegments ==
    /\ ~Empty("l") /\ ~Empty("m") /\ ~Empty("members") /\ ~Empty("scores") /\ ~Empty("score")
    /\ ~Empty("around") /\ ~Empty("rank") /\ ~Empty("top")
    /\ ~Empty("top-percent") /\ ~Empty("members-count")
    /\ \A n \in DOMAIN Digits : ~Empty(Digits[n])
  BY DigitsAssumption DEF Empty

-----------------------------------------------------------------------------
(* The message of each function                                            *)

\* What the library sends of w is for its handler, whose message says what w says.
Understood(w) ==
    LET r == Build(w)
        m == HandlerOf[w.fn]
        x == Request(m, r.path, r.query, r.body)
    IN  /\ IsClean(r.path) /\ r.path \notin Pages /\ RemoveTrailingSlash(r.path) = r.path
        /\ MethodsFor(r.verb, r.path) = {m}
        /\ x \in RequestOf[m] /\ Says(x, w)

LEMMA NamedCalls ==
    ASSUME NEW w, Named(w)
    PROVE  /\ "leaderboard" \in DOMAIN w => ~Empty(w.leaderboard)
           /\ "member" \in DOMAIN w => ~Empty(w.member)
  BY DEF Named, Empty

LEMMA LargestInt32 == MaxInt32 \in Nat
  BY SMT DEF MaxInt32

LEMMA FittingCalls ==
    ASSUME NEW w, Fits(w)
    PROVE  /\ "ttl" \in DOMAIN w /\ w.ttl \in Int =>
                 (IF w.ttl <= 0 THEN 0 ELSE w.ttl) \in Int32
           /\ "page" \in DOMAIN w => w.page \in Int32
           /\ "pageSize" \in DOMAIN w => w.pageSize \in Int32
           /\ "percentage" \in DOMAIN w => w.percentage \in Int32
  <1>1. "ttl" \in DOMAIN w /\ w.ttl \in Int => (IF w.ttl <= 0 THEN 0 ELSE w.ttl) \in Int32
    BY LargestInt32 DEF Fits, Int32
  <1> QED BY <1>1 DEF Fits

LEMMA TTLInQuery ==
    ASSUME NEW ttl \in Int
    PROVE  /\ Asked(AppendScoreTTLAndPrevRank(ttl), "prevRank", FALSE) = TRUE
           /\ Asked(AppendScoreTTLAndPrevRank(ttl), "scoreTTL", 0) = IF ttl <= 0 THEN 0 ELSE ttl
  BY DEF Asked, AppendScoreTTLAndPrevRank

LEMMA NothingInQuery == ASSUME NEW name, NEW zero PROVE Asked(NoQuery, name, zero) = zero
  BY DEF Asked, NoQuery

LEMMA NamedLists ==
    ASSUME NEW w, Named(w)
    PROVE  /\ "leaderboards" \in DOMAIN w => w.leaderboards # <<"">>
           /\ "ids" \in DOMAIN w => w.ids # <<"">>
  <1>1. ASSUME NEW e PROVE e \in ToSet(<<e>>)
    BY DEF ToSet
  <1>2. "" \in ToSet(<<"">>)
    BY <1>1
  <1> QED BY <1>2 DEF Named

LEMMA DoubledScores ==
    ASSUME NEW s \in Seq([PublicID : STRING, Score : Int])
    PROVE  [i \in DOMAIN s |-> [PublicID |-> s[i].PublicID, Score |-> 2 * s[i].Score]]
              \in Seq(MemberScore)
  <1>1. Len(s) \in Nat /\ DOMAIN s = 1 .. Len(s)
    BY LenProperties
  <1>2. \A i \in 1 .. Len(s) : s[i] \in [PublicID : STRING, Score : Int]
    BY ElementOfSeq
  <1>3. \A i \in 1 .. Len(s) :
           [PublicID |-> s[i].PublicID, Score |-> 2 * s[i].Score] \in MemberScore
    BY <1>2 DEF MemberScore, Double
  <1> QED BY <1>1, <1>3

\* The query has no order, or one of no letters.
NoText == ""

LEMMA NoTextIsText == NoText \in STRING
  BY ZeroText DEF NoText

LEMMA NumberOfDigits == ASSUME NEW n \in DOMAIN Digits PROVE Number(Digits[n]) = n
  BY DigitsAssumption DEF Number

LEMMA UpdateScoreUnderstood ==
    ASSUME NEW w \in CallOf["UpdateScore"], Named(w), Fits(w)
    PROVE  Understood(w)
  <1>1. /\ w = [fn |-> "UpdateScore", leaderboard |-> w.leaderboard, member |-> w.member,
                score |-> w.score, ttl |-> w.ttl]
        /\ w.leaderboard \in STRING /\ w.member \in STRING /\ w.score \in Int
        /\ w.ttl \in Int
    BY DEF CallOf
  <1>2. /\ ~Empty(w.leaderboard) /\ ~Empty(w.member)
        /\ (IF w.ttl <= 0 THEN 0 ELSE w.ttl) \in Int32
    BY <1>1, NamedCalls, FittingCalls
  <1> DEFINE p == <<"l", w.leaderboard, "members", w.member, "score">>
             q == AppendScoreTTLAndPrevRank(w.ttl)
             b == [Score |-> 2 * w.score]
             x == Request_UpsertScore(p, q, b)
  <1>3. /\ Stands(p) /\ Len(p) = 5 /\ p[1] = "l" /\ p[2] = w.leaderboard
        /\ p[3] = "members" /\ p[4] = w.member /\ p[5] = "score"
    BY <1>2, PathOfFive, FullSegments
  <1>4. Build(w) = Send("PUT", p, q, b) /\ HandlerOf[w.fn] = "UpsertScore"
    BY <1>1 DEF Build, BuildUpdateScore, HandlerOf
  <1>5. Request("UpsertScore", p, q, b) = x
    BY DEF Request
  <1>6. /\ Asked(q, "prevRank", FALSE) = TRUE
        /\ Asked(q, "scoreTTL", 0) = IF w.ttl <= 0 THEN 0 ELSE w.ttl
    BY <1>1, TTLInQuery
  <1>7. b \in ScoreChange
    BY <1>1 DEF ScoreChange, Double
  <1> HIDE DEF p, q, b
  <1>8. MethodsFor("PUT", p) = {"UpsertScore"}
    BY <1>3, RoutesOf
  <1>9. x = [LeaderboardId |-> w.leaderboard, MemberPublicId |-> w.member,
             ScoreChange |-> b, PrevRank |-> TRUE,
             ScoreTTL |-> IF w.ttl <= 0 THEN 0 ELSE w.ttl]
    BY <1>3, <1>6 DEF Request_UpsertScore
  <1> HIDE DEF x
  <1>10. x \in RequestOf["UpsertScore"]
    BY <1>1, <1>2, <1>7, <1>9 DEF RequestOf, UpsertScoreRequest, Optional
  <1>11. Says(x, w)
    BY <1>1, <1>9 DEF Says, ArgumentOf
  <1> QED BY <1>3, <1>4, <1>5, <1>8, <1>10, <1>11 DEF Understood, Stands, Send

LEMMA IncrementScoreUnderstood ==
    ASSUME NEW w \in CallOf["IncrementScore"], Named(w), Fits(w)
    PROVE  Understood(w)
  <1>1. /\ w = [fn |-> "IncrementScore", leaderboard |-> w.leaderboard, member |-> w.member,
                increment |-> w.increment, ttl |-> w.ttl]
        /\ w.leaderboard \in STRING /\ w.member \in STRING /\ w.increment \in Int
        /\ w.ttl \in Int
    BY DEF CallOf
  <1>2. /\ ~Empty(w.leaderboard) /\ ~Empty(w.member)
        /\ (IF w.ttl <= 0 THEN 0 ELSE w.ttl) \in Int32
    BY <1>1, NamedCalls, FittingCalls
  <1> DEFINE p == <<"l", w.leaderboard, "members", w.member, "score">>
             q == AppendScoreTTLAndPrevRank(w.ttl)
             b == [Increment |-> 2 * w.increment]
             x == Request_IncrementScore(p, q, b)
  <1>3. /\ Stands(p) /\ Len(p) = 5 /\ p[1] = "l" /\ p[2] = w.leaderboard
        /\ p[3] = "members" /\ p[4] = w.member /\ p[5] = "score"
    BY <1>2, PathOfFive, FullSegments
  <1>4. Build(w) = Send("PATCH", p, q, b) /\ HandlerOf[w.fn] = "IncrementScore"
    BY <1>1 DEF Build, BuildIncrementScore, HandlerOf
  <1>5. Request("IncrementScore", p, q, b) = x
    BY DEF Request
  <1>6. /\ Asked(q, "scoreTTL", 0) = IF w.ttl <= 0 THEN 0 ELSE w.ttl
    BY <1>1, TTLInQuery
  <1>7. b \in Body
    BY <1>1 DEF Body, Double
  <1> HIDE DEF p, q, b
  <1>8. MethodsFor("PATCH", p) = {"IncrementScore"}
    BY <1>3, RoutesOf
  <1>9. x = [LeaderboardId |-> w.leaderboard, MemberPublicId |-> w.member, Body |-> b,
             ScoreTTL |-> IF w.ttl <= 0 THEN 0 ELSE w.ttl]
    BY <1>3, <1>6 DEF Request_IncrementScore
  <1> HIDE DEF x
  <1>10. x \in RequestOf["IncrementScore"]
    BY <1>1, <1>2, <1>7, <1>9 DEF RequestOf, IncrementScoreRequest, Optional
  <1>11. Says(x, w)
    BY <1>1, <1>9 DEF Says, ArgumentOf
  <1> QED BY <1>3, <1>4, <1>5, <1>8, <1>10, <1>11 DEF Understood, Stands, Send

LEMMA UpdateScoresUnderstood ==
    ASSUME NEW w \in CallOf["UpdateScores"], Named(w), Fits(w)
    PROVE  Understood(w)
  <1>1. /\ w = [fn |-> "UpdateScores", leaderboards |-> w.leaderboards, member |-> w.member,
                score |-> w.score, ttl |-> w.ttl]
        /\ w.leaderboards \in Seq(STRING) /\ w.member \in STRING /\ w.score \in Int
        /\ w.ttl \in Int
    BY DEF CallOf, Names
  <1>2. /\ ~Empty(w.member) /\ (IF w.ttl <= 0 THEN 0 ELSE w.ttl) \in Int32
        /\ w.leaderboards # <<"">>
    BY <1>1, NamedCalls, FittingCalls, NamedLists
  <1> DEFINE p == <<"m", w.member, "scores">>
             q == AppendScoreTTLAndPrevRank(w.ttl)
             b == [Score |-> 2 * w.score, Leaderboards |-> w.leaderboards]
             x == Request_UpsertScoreMultiLeaderboards(p, q, b)
  <1>3. /\ Stands(p) /\ Len(p) = 3 /\ p[1] = "m" /\ p[2] = w.member /\ p[3] = "scores"
    BY <1>2, PathOfThree, FullSegments
  <1>4. Build(w) = Send("PUT", p, q, b) /\ HandlerOf[w.fn] = "UpsertScoreMultiLeaderboards"
    BY <1>1 DEF Build, BuildUpdateScores, HandlerOf
  <1>5. Request("UpsertScoreMultiLeaderboards", p, q, b) = x
    BY DEF Request
  <1>6. /\ Asked(q, "prevRank", FALSE) = TRUE
        /\ Asked(q, "scoreTTL", 0) = IF w.ttl <= 0 THEN 0 ELSE w.ttl
    BY <1>1, TTLInQuery
  <1>7. b \in ScoreMultiChange
    BY <1>1 DEF ScoreMultiChange, Double, Names
  <1> HIDE DEF p, q, b
  <1>8. MethodsFor("PUT", p) = {"UpsertScoreMultiLeaderboards"}
    BY <1>3, RoutesOf
  <1>9. x = [MemberPublicId |-> w.member, ScoreMultiChange |-> b, PrevRank |-> TRUE,
             ScoreTTL |-> IF w.ttl <= 0 THEN 0 ELSE w.ttl]
    BY <1>3, <1>6 DEF Request_UpsertScoreMultiLeaderboards
  <1> HIDE DEF x
  <1>10. x \in RequestOf["UpsertScoreMultiLeaderboards"]
    BY <1>1, <1>2, <1>7, <1>9 DEF RequestOf, UpsertScoreMultiLeaderboardsRequest, Optional
  <1>11. Says(x, w)
    BY <1>1, <1>9 DEF Says, ArgumentOf
  <1> QED BY <1>3, <1>4, <1>5, <1>8, <1>10, <1>11 DEF Understood, Stands, Send

LEMMA UpdateMembersScoreUnderstood ==
    ASSUME NEW w \in CallOf["UpdateMembersScore"], Named(w), Fits(w)
    PROVE  Understood(w)
  <1>1. /\ w = [fn |-> "UpdateMembersScore", leaderboard |-> w.leaderboard,
                members |-> w.members, ttl |-> w.ttl]
        /\ w.leaderboard \in STRING
        /\ w.members \in Seq([PublicID : STRING, Score : Int]) /\ w.ttl \in Int
    BY DEF CallOf
  <1>2. /\ ~Empty(w.leaderboard) /\ (IF w.ttl <= 0 THEN 0 ELSE w.ttl) \in Int32
    BY <1>1, NamedCalls, FittingCalls
  <1> DEFINE p == <<"l", w.leaderboard, "scores">>
             q == AppendScoreTTLAndPrevRank(w.ttl)
             b == [Members |-> [i \in DOMAIN w.members |->
                   [PublicID |-> w.members[i].PublicID, Score |-> 2 * w.members[i].Score]]]
             x == Request_BulkUpsertScores(p, q, b)
  <1>3. /\ Stands(p) /\ Len(p) = 3 /\ p[1] = "l" /\ p[2] = w.leaderboard /\ p[3] = "scores"
    BY <1>2, PathOfThree, FullSegments
  <1>4. Build(w) = Send("PUT", p, q, b) /\ HandlerOf[w.fn] = "BulkUpsertScores"
    BY <1>1 DEF Build, BuildUpdateMembersScore, HandlerOf
  <1>5. Request("BulkUpsertScores", p, q, b) = x
    BY DEF Request
  <1>6. /\ Asked(q, "prevRank", FALSE) = TRUE
        /\ Asked(q, "scoreTTL", 0) = IF w.ttl <= 0 THEN 0 ELSE w.ttl
    BY <1>1, TTLInQuery
  <1>7. b \in MemberScores
    BY <1>1, DoubledScores DEF MemberScores
  <1> HIDE DEF p, q, b
  <1>8. MethodsFor("PUT", p) = {"BulkUpsertScores"}
    BY <1>3, RoutesOf
  <1>9. x = [LeaderboardId |-> w.leaderboard, MemberScores |-> b, PrevRank |-> TRUE,
             ScoreTTL |-> IF w.ttl <= 0 THEN 0 ELSE w.ttl]
    BY <1>3, <1>6 DEF Request_BulkUpsertScores
  <1> HIDE DEF x
  <1>10. x \in RequestOf["BulkUpsertScores"]
    BY <1>1, <1>2, <1>7, <1>9 DEF RequestOf, BulkUpsertScoresRequest, Optional
  <1>11. Says(x, w)
    BY <1>1, <1>9 DEF Says, ArgumentOf
  <1> QED BY <1>3, <1>4, <1>5, <1>8, <1>10, <1>11 DEF Understood, Stands, Send

LEMMA RemoveMemberFromLeaderboardUnderstood ==
    ASSUME NEW w \in CallOf["RemoveMemberFromLeaderboard"], Named(w), Fits(w)
    PROVE  Understood(w)
  <1>1. /\ w = [fn |-> "RemoveMemberFromLeaderboard", leaderboard |-> w.leaderboard,
                member |-> w.member]
        /\ w.leaderboard \in STRING /\ w.member \in STRING
    BY DEF CallOf
  <1>2. /\ ~Empty(w.leaderboard) /\ ~Empty(w.member)
    BY <1>1, NamedCalls
  <1> DEFINE p == <<"l", w.leaderboard, "members", w.member>>
             q == NoQuery
             b == Nil
             x == Request_RemoveMember(p, q, b)
  <1>3. /\ Stands(p) /\ Len(p) = 4 /\ p[1] = "l" /\ p[2] = w.leaderboard
        /\ p[3] = "members" /\ p[4] = w.member
    BY <1>2, PathOfFour, FullSegments
  <1>4. Build(w) = Send("DELETE", p, q, b) /\ HandlerOf[w.fn] = "RemoveMember"
    BY <1>1 DEF Build, BuildRemoveMemberFromLeaderboard, HandlerOf
  <1>5. Request("RemoveMember", p, q, b) = x
    BY DEF Request
  <1> HIDE DEF p, q, b
  <1>6. MethodsFor("DELETE", p) = {"RemoveMember"}
    BY <1>3, RoutesOf
  <1>7. x = [LeaderboardId |-> w.leaderboard, MemberPublicId |-> w.member]
    BY <1>3 DEF Request_RemoveMember
  <1> HIDE DEF x
  <1>8. x \in RequestOf["RemoveMember"]
    BY <1>1, <1>2, <1>7 DEF RequestOf, RemoveMemberRequest
  <1>9. Says(x, w)
    BY <1>1, <1>7 DEF Says, ArgumentOf
  <1> QED BY <1>3, <1>4, <1>5, <1>6, <1>8, <1>9 DEF Understood, Stands, Send

LEMMA DeleteLeaderboardUnderstood ==
    ASSUME NEW w \in CallOf["DeleteLeaderboard"], Named(w), Fits(w)
    PROVE  Understood(w)
  <1>1. /\ w = [fn |-> "DeleteLeaderboard", leaderboard |-> w.leaderboard]
        /\ w.leaderboard \in STRING
    BY DEF CallOf
  <1>2. /\ ~Empty(w.leaderboard)
    BY <1>1, NamedCalls
  <1> DEFINE p == <<"l", w.leaderboard>>
             q == NoQuery
             b == Nil
             x == Request_RemoveLeaderboard(p, q, b)
  <1>3. /\ Stands(p) /\ Len(p) = 2 /\ p[1] = "l" /\ p[2] = w.leaderboard
    BY <1>2, PathOfTwo, FullSegments
  <1>4. Build(w) = Send("DELETE", p, q, b) /\ HandlerOf[w.fn] = "RemoveLeaderboard"
    BY <1>1 DEF Build, BuildDeleteLeaderboard, HandlerOf
  <1>5. Request("RemoveLeaderboard", p, q, b) = x
    BY DEF Request
  <1> HIDE DEF p, q, b
  <1>6. MethodsFor("DELETE", p) = {"RemoveLeaderboard"}
    BY <1>3, RoutesOf
  <1>7. x = [LeaderboardId |-> w.leaderboard]
    BY <1>3 DEF Request_RemoveLeaderboard
  <1> HIDE DEF x
  <1>8. x \in RequestOf["RemoveLeaderboard"]
    BY <1>1, <1>2, <1>7 DEF RequestOf, RemoveLeaderboardRequest
  <1>9. Says(x, w)
    BY <1>1, <1>7 DEF Says, ArgumentOf
  <1> QED BY <1>3, <1>4, <1>5, <1>6, <1>8, <1>9 DEF Understood, Stands, Send

LEMMA GetTopUnderstood ==
    ASSUME NEW w \in CallOf["GetTop"], Named(w), Fits(w)
    PROVE  Understood(w)
  <1>1. /\ w = [fn |-> "GetTop", leaderboard |-> w.leaderboard, page |-> w.page,
                pageSize |-> w.pageSize]
        /\ w.leaderboard \in STRING /\ w.page \in DOMAIN Digits /\ w.pageSize \in Int
    BY DEF CallOf
  <1>2. /\ ~Empty(w.leaderboard) /\ w.page \in Int32 /\ w.pageSize \in Int32
    BY <1>1, NamedCalls, FittingCalls
  <1> DEFINE p == <<"l", w.leaderboard, "top", Digits[w.page]>>
             q == [pageSize |-> w.pageSize]
             b == Nil
             x == Request_GetTopMembers(p, q, b)
  <1>3. /\ Stands(p) /\ Len(p) = 4 /\ p[1] = "l" /\ p[2] = w.leaderboard /\ p[3] = "top"
        /\ p[4] = Digits[w.page]
    BY <1>1, <1>2, PathOfFour, FullSegments
  <1>4. Build(w) = Send("GET", p, q, b) /\ HandlerOf[w.fn] = "GetTopMembers"
    BY <1>1 DEF Build, BuildGetTop, HandlerOf
  <1>5. Request("GetTopMembers", p, q, b) = x
    BY DEF Request
  <1>6. /\ Asked(q, "order", "") = NoText
        /\ Asked(q, "pageSize", 0) = w.pageSize
    BY DEF Asked, NoText
  <1> HIDE DEF p, q, b
  <1>7. MethodsFor("GET", p) = {"GetTopMembers"}
    BY <1>3, RoutesOf
  <1>8. x = [LeaderboardId |-> w.leaderboard, PageNumber |-> w.page, Order |-> NoText,
             PageSize |-> w.pageSize]
    BY <1>1, <1>3, <1>6, NumberOfDigits DEF Request_GetTopMembers
  <1> HIDE DEF x
  <1>9. x \in RequestOf["GetTopMembers"]
    BY <1>1, <1>2, <1>8, NoTextIsText DEF RequestOf, GetTopMembersRequest
  <1>10. Says(x, w)
    BY <1>1, <1>8 DEF Says, ArgumentOf
  <1> QED BY <1>3, <1>4, <1>5, <1>7, <1>9, <1>10 DEF Understood, Stands, Send

LEMMA GetTopPercentUnderstood ==
    ASSUME NEW w \in CallOf["GetTopPercent"], Named(w), Fits(w)
    PROVE  Understood(w)
  <1>1. /\ w = [fn |-> "GetTopPercent", leaderboard |-> w.leaderboard,
                percentage |-> w.percentage]
        /\ w.leaderboard \in STRING /\ w.percentage \in DOMAIN Digits
    BY DEF CallOf
  <1>2. /\ ~Empty(w.leaderboard) /\ w.percentage \in Int32
    BY <1>1, NamedCalls, FittingCalls
  <1> DEFINE p == <<"l", w.leaderboard, "top-percent", Digits[w.percentage]>>
             q == NoQuery
             b == Nil
             x == Request_GetTopPercentage(p, q, b)
  <1>3. /\ Stands(p) /\ Len(p) = 4 /\ p[1] = "l" /\ p[2] = w.leaderboard
        /\ p[3] = "top-percent" /\ p[4] = Digits[w.percentage]
    BY <1>1, <1>2, PathOfFour, FullSegments
  <1>4. Build(w) = Send("GET", p, q, b) /\ HandlerOf[w.fn] = "GetTopPercentage"
    BY <1>1 DEF Build, BuildGetTopPercent, HandlerOf
  <1>5. Request("GetTopPercentage", p, q, b) = x
    BY DEF Request
  <1>6. /\ Asked(q, "order", "") = NoText
    BY NothingInQuery DEF NoText
  <1> HIDE DEF p, q, b
  <1>7. MethodsFor("GET", p) = {"GetTopPercentage"}
    BY <1>3, RoutesOf
  <1>8. x = [LeaderboardId |-> w.leaderboard, Percentage |-> w.percentage, Order |-> NoText]
    BY <1>1, <1>3, <1>6, NumberOfDigits DEF Request_GetTopPercentage
  <1> HIDE DEF x
  <1>9. x \in RequestOf["GetTopPercentage"]
    BY <1>1, <1>2, <1>8, NoTextIsText DEF RequestOf, GetTopPercentageRequest
  <1>10. Says(x, w)
    BY <1>1, <1>8 DEF Says, ArgumentOf
  <1> QED BY <1>3, <1>4, <1>5, <1>7, <1>9, <1>10 DEF Understood, Stands, Send

LEMMA GetMemberUnderstood ==
    ASSUME NEW w \in CallOf["GetMember"], Named(w), Fits(w)
    PROVE  Understood(w)
  <1>1. /\ w = [fn |-> "GetMember", leaderboard |-> w.leaderboard, member |-> w.member]
        /\ w.leaderboard \in STRING /\ w.member \in STRING
    BY DEF CallOf
  <1>2. /\ ~Empty(w.leaderboard) /\ ~Empty(w.member)
    BY <1>1, NamedCalls
  <1> DEFINE p == <<"l", w.leaderboard, "members", w.member>>
             q == NoQuery
             b == Nil
             x == Request_GetMember(p, q, b)
  <1>3. /\ Stands(p) /\ Len(p) = 4 /\ p[1] = "l" /\ p[2] = w.leaderboard
        /\ p[3] = "members" /\ p[4] = w.member
    BY <1>2, PathOfFour, FullSegments
  <1>4. Build(w) = Send("GET", p, q, b) /\ HandlerOf[w.fn] = "GetMember"
    BY <1>1 DEF Build, BuildGetMember, HandlerOf
  <1>5. Request("GetMember", p, q, b) = x
    BY DEF Request
  <1>6. /\ Asked(q, "order", "") = NoText
        /\ Asked(q, "scoreTTL", FALSE) = FALSE
    BY NothingInQuery DEF NoText
  <1> HIDE DEF p, q, b
  <1>7. MethodsFor("GET", p) = {"GetMember"}
    BY <1>3, RoutesOf
  <1>8. x = [LeaderboardId |-> w.leaderboard, MemberPublicId |-> w.member, Order |-> NoText,
             ScoreTTL |-> FALSE]
    BY <1>3, <1>6 DEF Request_GetMember
  <1> HIDE DEF x
  <1>9. x \in RequestOf["GetMember"]
    BY <1>1, <1>2, <1>8, NoTextIsText DEF RequestOf, GetMemberRequest
  <1>10. Says(x, w)
    BY <1>1, <1>8 DEF Says, ArgumentOf
  <1> QED BY <1>3, <1>4, <1>5, <1>7, <1>9, <1>10 DEF Understood, Stands, Send

LEMMA GetMembersUnderstood ==
    ASSUME NEW w \in CallOf["GetMembers"], Named(w), Fits(w)
    PROVE  Understood(w)
  <1>1. /\ w = [fn |-> "GetMembers", leaderboard |-> w.leaderboard, ids |-> w.ids]
        /\ w.leaderboard \in STRING /\ w.ids \in Seq(STRING)
    BY DEF CallOf, Names
  <1>2. /\ ~Empty(w.leaderboard) /\ w.ids # <<"">>
    BY <1>1, NamedCalls, NamedLists
  <1> DEFINE p == <<"l", w.leaderboard, "members">>
             q == [ids |-> Csv(w.ids)]
             b == Nil
             x == Request_GetMembers(p, q, b)
  <1>3. /\ Stands(p) /\ Len(p) = 3 /\ p[1] = "l" /\ p[2] = w.leaderboard /\ p[3] = "members"
    BY <1>2, PathOfThree, FullSegments
  <1>4. Build(w) = Send("GET", p, q, b) /\ HandlerOf[w.fn] = "GetMembers"
    BY <1>1 DEF Build, BuildGetMembers, HandlerOf
  <1>5. Request("GetMembers", p, q, b) = x
    BY DEF Request
  <1>6. /\ Asked(q, "order", "") = NoText
        /\ Asked(q, "scoreTTL", FALSE) = FALSE
        /\ Asked(q, "ids", <<>>) = w.ids
    BY <1>2 DEF Asked, Csv, NoText
  <1> HIDE DEF p, q, b
  <1>7. MethodsFor("GET", p) = {"GetMembers"}
    BY <1>3, RoutesOf
  <1>8. x = [LeaderboardId |-> w.leaderboard, Order |-> NoText, ScoreTTL |-> FALSE,
             Ids |-> w.ids]
    BY <1>3, <1>6 DEF Request_GetMembers
  <1> HIDE DEF x
  <1>9. x \in RequestOf["GetMembers"]
    BY <1>1, <1>2, <1>8, NoTextIsText DEF RequestOf, GetMembersRequest, Names
  <1>10. Says(x, w)
    BY <1>1, <1>8 DEF Says, ArgumentOf
  <1> QED BY <1>3, <1>4, <1>5, <1>7, <1>9, <1>10 DEF Understood, Stands, Send

LEMMA GetMemberInLeaderboardsUnderstood ==
    ASSUME NEW w \in CallOf["GetMemberInLeaderboards"], Named(w), Fits(w)
    PROVE  Understood(w)
  <1>1. /\ w = [fn |-> "GetMemberInLeaderboards", leaderboards |-> w.leaderboards,
                member |-> w.member, order |-> w.order]
        /\ w.leaderboards \in Seq(STRING) /\ w.member \in STRING /\ w.order \in STRING
    BY DEF CallOf, Names
  <1>2. /\ ~Empty(w.member) /\ w.leaderboards # <<"">>
    BY <1>1, NamedCalls, NamedLists
  <1> DEFINE p == <<"m", w.member, "scores">>
             q == [leaderboardIds |-> Csv(w.leaderboards), order |-> w.order]
             b == Nil
             x == Request_GetRankMultiLeaderboards(p, q, b)
  <1>3. /\ Stands(p) /\ Len(p) = 3 /\ p[1] = "m" /\ p[2] = w.member /\ p[3] = "scores"
    BY <1>2, PathOfThree, FullSegments
  <1>4. Build(w) = Send("GET", p, q, b) /\ HandlerOf[w.fn] = "GetRankMultiLeaderboards"
    BY <1>1 DEF Build, BuildGetMemberInLeaderboards, HandlerOf
  <1>5. Request("GetRankMultiLeaderboards", p, q, b) = x
    BY DEF Request
  <1>6. /\ Asked(q, "order", "") = w.order
        /\ Asked(q, "scoreTTL", FALSE) = FALSE
        /\ Asked(q, "leaderboardIds", <<>>) = w.leaderboards
    BY <1>2 DEF Asked, Csv, NoText
  <1> HIDE DEF p, q, b
  <1>7. MethodsFor("GET", p) = {"GetRankMultiLeaderboards"}
    BY <1>3, RoutesOf
  <1>8. x = [MemberPublicId |-> w.member, LeaderboardIds |-> w.leaderboards,
             Order |-> w.order, ScoreTTL |-> FALSE]
    BY <1>3, <1>6 DEF Request_GetRankMultiLeaderboards
  <1> HIDE DEF x
  <1>9. x \in RequestOf["GetRankMultiLeaderboards"]
    BY <1>1, <1>2, <1>8 DEF RequestOf, GetRankMultiLeaderboardsRequest, Names
  <1>10. Says(x, w)
    BY <1>1, <1>8 DEF Says, ArgumentOf
  <1> QED BY <1>3, <1>4, <1>5, <1>7, <1>9, <1>10 DEF Understood, Stands, Send

LEMMA GetMembersAroundMemberUnderstood ==
    ASSUME NEW w \in CallOf["GetMembersAroundMember"], Named(w), Fits(w)
    PROVE  Understood(w)
  <1>1. /\ w = [fn |-> "GetMembersAroundMember", leaderboard |-> w.leaderboard,
                member |-> w.member, pageSize |-> w.pageSize,
                getLastIfNotFound |-> w.getLastIfNotFound, order |-> w.order]
        /\ w.leaderboard \in STRING /\ w.member \in STRING /\ w.pageSize \in Int
        /\ w.getLastIfNotFound \in BOOLEAN /\ w.order \in STRING
    BY DEF CallOf
  <1>2. /\ ~Empty(w.leaderboard) /\ ~Empty(w.member) /\ w.pageSize \in Int32
    BY <1>1, NamedCalls, FittingCalls
  <1> DEFINE p == <<"l", w.leaderboard, "members", w.member, "around">>
             q == [pageSize |-> w.pageSize, getLastIfNotFound |-> w.getLastIfNotFound,
                   order |-> w.order]
             b == Nil
             x == Request_GetAroundMember(p, q, b)
  <1>3. /\ Stands(p) /\ Len(p) = 5 /\ p[1] = "l" /\ p[2] = w.leaderboard
        /\ p[3] = "members" /\ p[4] = w.member /\ p[5] = "around"
    BY <1>2, PathOfFive, FullSegments
  <1>4. Build(w) = Send("GET", p, q, b) /\ HandlerOf[w.fn] = "GetAroundMember"
    BY <1>1 DEF Build, BuildGetMembersAroundMember, HandlerOf
  <1>5. Request("GetAroundMember", p, q, b) = x
    BY DEF Request
  <1>6. /\ Asked(q, "order", "") = w.order
        /\ Asked(q, "pageSize", 0) = w.pageSize
        /\ Asked(q, "getLastIfNotFound", FALSE) = w.getLastIfNotFound
    BY DEF Asked, NoText
  <1> HIDE DEF p, q, b
  <1>7. MethodsFor("GET", p) = {"GetAroundMember"}
    BY <1>3, RoutesOf
  <1>8. x = [LeaderboardId |-> w.leaderboard, MemberPublicId |-> w.member,
             Order |-> w.order, GetLastIfNotFound |-> w.getLastIfNotFound,
             PageSize |-> w.pageSize]
    BY <1>3, <1>6 DEF Request_GetAroundMember
  <1> HIDE DEF x
  <1>9. x \in RequestOf["GetAroundMember"]
    BY <1>1, <1>2, <1>8 DEF RequestOf, GetAroundMemberRequest
  <1>10. Says(x, w)
    BY <1>1, <1>8 DEF Says, ArgumentOf
  <1> QED BY <1>3, <1>4, <1>5, <1>7, <1>9, <1>10 DEF Understood, Stands, Send

LEMMA GetCountUnderstood ==
    ASSUME NEW w \in CallOf["GetCount"], Named(w), Fits(w)
    PROVE  Understood(w)
  <1>1. /\ w = [fn |-> "GetCount", leaderboard |-> w.leaderboard]
        /\ w.leaderboard \in STRING
    BY DEF CallOf
  <1>2. /\ ~Empty(w.leaderboard)
    BY <1>1, NamedCalls
  <1> DEFINE p == <<"l", w.leaderboard, "members-count">>
             q == NoQuery
             b == Nil
             x == Request_TotalMembers(p, q, b)
  <1>3. /\ Stands(p) /\ Len(p) = 3 /\ p[1] = "l" /\ p[2] = w.leaderboard
        /\ p[3] = "members-count"
    BY <1>2, PathOfThree, FullSegments
  <1>4. Build(w) = Send("GET", p, q, b) /\ HandlerOf[w.fn] = "TotalMembers"
    BY <1>1 DEF Build, BuildGetCount, HandlerOf
  <1>5. Request("TotalMembers", p, q, b) = x
    BY DEF Request
  <1> HIDE DEF p, q, b
  <1>6. MethodsFor("GET", p) = {"TotalMembers"}
    BY <1>3, RoutesOf
  <1>7. x = [LeaderboardId |-> w.leaderboard]
    BY <1>3 DEF Request_TotalMembers
  <1> HIDE DEF x
  <1>8. x \in RequestOf["TotalMembers"]
    BY <1>1, <1>2, <1>7 DEF RequestOf, TotalMembersRequest
  <1>9. Says(x, w)
    BY <1>1, <1>7 DEF Says, ArgumentOf
  <1> QED BY <1>3, <1>4, <1>5, <1>6, <1>8, <1>9 DEF Understood, Stands, Send

-----------------------------------------------------------------------------
(* From the function to its handler                                        *)

\* A function of the library, called with names and numbers that fit.
Sound(w) == w.fn \in DOMAIN HandlerOf /\ Named(w) /\ Fits(w)

LEMMA SoundCallsAreUnderstood ==
    ASSUME NEW c \in Callers, NEW w \in Wishes[c], Sound(w)
    PROVE  Understood(w) /\ RequestOfCall(w) = Build(w)
  <1>1. w.fn \in {"UpdateScore", "IncrementScore", "UpdateScores", "UpdateMembersScore",
                  "RemoveMemberFromLeaderboard", "DeleteLeaderboard", "GetTop", "GetTopPercent",
                  "GetMember", "GetMembers", "GetMemberInLeaderboards",
                  "GetMembersAroundMember", "GetCount"}
    BY DEF Sound, HandlerOf
  <1>2. w.fn # "request"
    BY <1>1
  <1>3. w \in CallOf[w.fn] /\ Named(w) /\ Fits(w)
    BY <1>2, WishesAssumption DEF Sound
  <1>4. Understood(w)
    <2> HIDE DEF Named, Fits, Understood
    <2>1. CASE w.fn \in {"UpdateScore", "IncrementScore", "UpdateScores", "UpdateMembersScore"}
      BY <1>3, <2>1, UpdateScoreUnderstood, IncrementScoreUnderstood, UpdateScoresUnderstood,
         UpdateMembersScoreUnderstood
    <2>2. CASE w.fn \in {"RemoveMemberFromLeaderboard", "DeleteLeaderboard", "GetTop",
                         "GetTopPercent"}
      BY <1>3, <2>2, RemoveMemberFromLeaderboardUnderstood, DeleteLeaderboardUnderstood,
         GetTopUnderstood, GetTopPercentUnderstood
    <2>3. CASE w.fn \in {"GetMember", "GetMembers", "GetMemberInLeaderboards",
                         "GetMembersAroundMember", "GetCount"}
      BY <1>3, <2>3, GetMemberUnderstood, GetMembersUnderstood,
         GetMemberInLeaderboardsUnderstood, GetMembersAroundMemberUnderstood,
         GetCountUnderstood
    <2> QED BY <1>1, <2>1, <2>2, <2>3
  <1> QED BY <1>2, <1>4 DEF RequestOfCall

\* What c asked for, and how it comes to the handler.
Reached(c) ==
    /\ server[c] # "idle" => call[c] \in Wishes[c]
    /\ server[c] = "received" /\ Sound(call[c]) => http[c] = Build(call[c])
    /\ server[c] \notin {"idle", "received"} /\ Sound(call[c]) =>
          /\ method[c] = HandlerOf[call[c].fn] /\ Says(msg[c], call[c])
          /\ answer[c].status # 301

ReachDomains == DOMAIN call = Callers /\ DOMAIN http = Callers

ReachInv == ReachDomains /\ \A c \in Callers : Reached(c)

LEMMA ReachInvInit == Init => ReachInv
  BY DEF Init, ReachInv, ReachDomains, Reached

\* Nothing but the caller's own steps changes what it asks and sends.
LEMMA OnlyCallersAsk ==
    ASSUME NEW c \in Callers, ServerStep(c) \/ GiveUp(c) \/ Deliver(c)
    PROVE  UNCHANGED <<call, http>>
  <1> USE DEF callerVars, Fails, Recover
  <1>1. CASE Redirect(c) \/ ServePage(c) \/ EnterGateway(c) \/ Unauthorized(c)
    BY <1>1 DEF Redirect, ServePage, EnterGateway, Unauthorized
  <1>2. CASE PanicWithoutBody(c) \/ Refuse(c) \/ Begin(c) \/ Respond(c)
    BY <1>2 DEF PanicWithoutBody, Refuse, Begin, Respond
  <1>3. CASE Read(c) \/ RemoveScores(c) \/ ReadPreviousRanks(c) \/ WriteScores(c)
    BY <1>3 DEF Read, RemoveScores, ReadPreviousRanks, WriteScores
  <1>4. CASE ReadWritten(c) \/ CommandFails(c) \/ PingFails(c) \/ WriteAgain(c)
    BY <1>4 DEF ReadWritten, CommandFails, PingFails, WriteAgain
  <1>5. CASE GiveUp(c) \/ Deliver(c)
    BY <1>5 DEF GiveUp, Deliver
  <1> QED BY <1>1, <1>2, <1>3, <1>4, <1>5 DEF ServerStep

LEMMA OthersStillReach ==
    ASSUME Domains, ReachInv, NEW c \in Callers,
           Ask(c) \/ GiveUp(c) \/ ServerStep(c) \/ Receive(c)
    PROVE  ReachDomains' /\ \A d \in Callers \ {c} : Reached(d)'
  <1>1. /\ DOMAIN call' = Callers /\ DOMAIN http' = Callers
        /\ \A d \in Callers \ {c} : call'[d] = call[d] /\ http'[d] = http[d]
    <2>1. CASE Ask(c) \/ FollowRedirection(c)
      BY <2>1 DEF Ask, FollowRedirection, ReachInv, ReachDomains
    <2>2. CASE GiveUp(c) \/ ServerStep(c) \/ Deliver(c)
      BY <2>2, OnlyCallersAsk DEF ReachInv, ReachDomains
    <2> QED BY <2>1, <2>2 DEF Receive
  <1>2. \A d \in Callers \ {c} : Untouched(d)
    BY OthersUntouched
  <1>3. ASSUME NEW d \in Callers \ {c} PROVE Reached(d)'
    BY <1>1, <1>2 DEF ReachInv, Reached, Untouched
  <1> QED BY <1>1, <1>3 DEF ReachDomains

\* In front of the handlers a sound call can only be routed.
LEMMA FrontReaches ==
    ASSUME CallInv, ReachInv, NEW c \in Callers,
           Redirect(c) \/ ServePage(c) \/ EnterGateway(c) \/ PingFails(c)
    PROVE  Reached(c)'
  <1>1. UNCHANGED <<call, http>>
    BY OnlyCallersAsk DEF ServerStep
  <1>2. server[c] = "received" /\ call[c] \in Wishes[c]
    BY DEF Redirect, ServePage, EnterGateway, PingFails, ReachInv, Reached
  <1>3. CASE ~Sound(call[c])
    BY <1>1, <1>2, <1>3 DEF Reached
  <1>4. CASE Sound(call[c])
    <2> DEFINE r == http[c]
               m == HandlerOf[call[c].fn]
               x == Request(m, r.path, r.query, r.body)
    <2>1. /\ IsClean(r.path) /\ r.path \notin Pages /\ RemoveTrailingSlash(r.path) = r.path
          /\ MethodsFor(r.verb, r.path) = {m}
          /\ x \in RequestOf[m] /\ Says(x, call[c])
      BY <1>2, <1>4, SoundCallsAreUnderstood DEF ReachInv, Reached, Understood
    <2> HIDE DEF r, m
    <2>2. EnterGateway(c)
      BY <2>1 DEF Redirect, ServePage, PingFails, Pages, r
    <2>3. m \in Methods
      BY <2>1 DEF MethodsFor
    <2>4. Decode(m, r.path, r.query, r.body) = x /\ x # Nil
      BY <2>1, <2>3, NilIsNoMessage DEF Decode
    <2>5. /\ method' = [method EXCEPT ![c] = m] /\ msg' = [msg EXCEPT ![c] = x]
          /\ server' = [server EXCEPT ![c] = "routed"] /\ UNCHANGED answer
      BY <2>1, <2>2, <2>4 DEF EnterGateway, r
    <2>6. answer[c].status # 301
      BY <1>2 DEF CallInv, Holds, AnswerFits
    <2> QED BY <1>1, <1>2, <2>1, <2>5, <2>6 DEF Reached, CallInv, Domains, m
  <1> QED BY <1>3, <1>4

\* The handlers keep their message, and redirect nobody.
LEMMA HandlersReach ==
    ASSUME CallInv, ReachInv, NEW c \in Callers,
           \/ Unauthorized(c) \/ PanicWithoutBody(c) \/ Refuse(c) \/ Begin(c) \/ Respond(c)
           \/ Read(c) \/ RemoveScores(c) \/ ReadPreviousRanks(c) \/ WriteScores(c)
           \/ ReadWritten(c) \/ CommandFails(c) \/ WriteAgain(c)
    PROVE  Reached(c)'
  <1> USE DEF CallInv, Domains
  <1>1. UNCHANGED <<call, http>>
    BY OnlyCallersAsk DEF ServerStep
  <1>2. server[c] \notin {"idle", "received"}
    BY DEF Unauthorized, PanicWithoutBody, Refuse, Begin, Respond, Read, RemoveScores,
           ReadPreviousRanks, WriteScores, ReadyToWrite, ReadWritten, CommandFails, AtRedis,
           WriteAgain, AtCall
  <1>3. ASSUME NEW status, NEW json, Reply(c, status, json), status # 301,
               UNCHANGED <<method, msg>>
        PROVE  Reached(c)'
    <2>1. server'[c] = "replied" /\ answer'[c].status # 301
      BY <1>3 DEF Reply
    <2> QED BY <1>1, <1>2, <1>3, <2>1 DEF ReachInv, Reached
  <1>4. ASSUME server'[c] \notin {"idle", "received"}, UNCHANGED <<method, msg, answer>>
        PROVE  Reached(c)'
    BY <1>1, <1>2, <1>4 DEF ReachInv, Reached
  <1>5. ASSUME NEW error, Fails(c, error) PROVE Reached(c)'
    <2>1. HTTPStatusFromCode[CodeOf(method[c], error)] # 301
      BY StatusOfError
    <2> QED BY <1>3, <1>5, <2>1 DEF Fails, handlerVars
  <1>6. ASSUME Recover(c) PROVE Reached(c)'
    BY <1>3, <1>6 DEF Recover, handlerVars, HTTPStatusFromCode
  <1>7. ASSUME NEW value, Gives(c, value), UNCHANGED <<method, msg, answer>> PROVE Reached(c)'
    BY <1>4, <1>7 DEF Gives
  <1>8. CASE Unauthorized(c) \/ Refuse(c) \/ Respond(c)
    BY <1>3, <1>8 DEF Unauthorized, Refuse, Respond, handlerVars, HTTPStatusFromCode
  <1>9. CASE PanicWithoutBody(c)
    BY <1>6, <1>9 DEF PanicWithoutBody
  <1>10. CASE Begin(c) \/ ReadPreviousRanks(c) \/ WriteScores(c)
    BY <1>4, <1>10 DEF Begin, ReadPreviousRanks, WriteScores
  <1>11. CASE Read(c)
    BY <1>5, <1>7, <1>11 DEF Read
  <1>12. CASE RemoveScores(c)
    BY <1>7, <1>12 DEF RemoveScores
  <1>13. CASE ReadWritten(c)
    BY <1>5, <1>6, <1>7, <1>13 DEF ReadWritten
  <1>14. CASE CommandFails(c)
    BY <1>5, <1>14 DEF CommandFails
  <1>15. CASE WriteAgain(c)
    BY <1>2, <1>4, <1>15 DEF WriteAgain, handlerVars
  <1> QED BY <1>8, <1>9, <1>10, <1>11, <1>12, <1>13, <1>14, <1>15

LEMMA CallersReach ==
    ASSUME CallInv, ReachInv, NEW c \in Callers,
           Ask(c) \/ GiveUp(c) \/ Deliver(c) \/ FollowRedirection(c)
    PROVE  Reached(c)'
  <1> USE DEF CallInv, Domains, handlerVars
  <1>1. CASE Ask(c)
    <2>1. PICK w \in Wishes[c] : /\ call' = [call EXCEPT ![c] = w]
                                 /\ http' = [http EXCEPT ![c] = RequestOfCall(w)]
      BY <1>1 DEF Ask
    <2>2. call'[c] = w /\ http'[c] = RequestOfCall(w) /\ server'[c] = "received"
      BY <1>1, <2>1 DEF Ask, ReachInv, ReachDomains
    <2>3. Sound(w) => RequestOfCall(w) = Build(w)
      BY <2>1, SoundCallsAreUnderstood
    <2> QED BY <2>1, <2>2, <2>3 DEF Reached
  <1>2. CASE GiveUp(c) \/ Deliver(c)
    BY <1>2 DEF GiveUp, Deliver, ReachInv, Reached
  <1>3. CASE FollowRedirection(c)
    <2>1. /\ call[c] \in Wishes[c] /\ ~Sound(call[c]) /\ call' = call
          /\ server'[c] = "received"
      BY <1>3 DEF FollowRedirection, ReachInv, Reached
    <2> QED BY <2>1 DEF Reached
  <1> QED BY <1>1, <1>2, <1>3

LEMMA ReachInvNext == CallInv /\ ReachInv /\ [Next]_vars => ReachInv'
  <1> SUFFICES ASSUME CallInv, ReachInv, [Next]_vars PROVE ReachInv'
    OBVIOUS
  <1>1. ASSUME NEW c \in Callers, Ask(c) \/ GiveUp(c) \/ ServerStep(c) \/ Receive(c)
        PROVE  ReachInv'
    <2>1. ReachDomains' /\ \A d \in Callers \ {c} : Reached(d)'
      BY <1>1, OthersStillReach DEF CallInv
    <2>2. Reached(c)'
      BY <1>1, FrontReaches, HandlersReach, CallersReach DEF ServerStep, Receive
    <2> QED BY <2>1, <2>2 DEF ReachInv
  <1>2. CASE UNCHANGED vars
    BY <1>2 DEF vars, callerVars, handlerVars, ReachInv, ReachDomains, Reached
  <1> QED BY <1>1, <1>2 DEF Next, Rest

\* Whatever a function of client/client.go is called with, as long as its names
\* are not empty and its numbers fit in a message, its request reaches the handler
\* that the function is for, with a message that says what the caller said.
THEOREM RequestsReachTheirHandlerAlways == Spec => []RequestsReachTheirHandler
  <1>1. CallInv /\ ReachInv => RequestsReachTheirHandler
    BY DEF ReachInv, Reached, RequestsReachTheirHandler, Sound
  <1> QED BY <1>1, CallInvInit, CallInvNext, ReachInvInit, ReachInvNext, PTL DEF Spec

-----------------------------------------------------------------------------
(* What a call wants written                                               *)

\* The functions that write.
Writers == {"UpdateScore", "IncrementScore", "UpdateScores", "UpdateMembersScore"}

\* The scores in a list of them.
Listed(s) == {s[i] : i \in DOMAIN s}

\* A call of the library is one of its functions', with what the function takes.
OfLibrary(w) == w.fn \in DOMAIN CallOf /\ w \in CallOf[w.fn]

LEMMA WantedIsList ==
    ASSUME NEW w, OfLibrary(w)
    PROVE  /\ Wanted(w) \in Seq(Listed(Wanted(w)))
           /\ w.fn \notin Writers => Wanted(w) = <<>>
  <1>1. CASE w.fn = "UpdateScore"
    <2>1. Wanted(w) = <<Score(w.leaderboard, w.member, w.score)>>
      BY <1>1 DEF Wanted
    <2> QED BY <1>1, <2>1, OneCall DEF Listed, Writers
  <1>2. CASE w.fn = "IncrementScore"
    <2>1. Wanted(w) = <<Score(w.leaderboard, w.member, w.increment)>>
      BY <1>2 DEF Wanted
    <2> QED BY <1>2, <2>1, OneCall DEF Listed, Writers
  <1>3. CASE w.fn = "UpdateScores"
    <2> DEFINE f == [i \in DOMAIN w.leaderboards |-> Score(w.leaderboards[i], w.member, w.score)]
    <2>1. w.leaderboards \in Seq(STRING)
      BY <1>3 DEF OfLibrary, CallOf, Names
    <2>2. DOMAIN f = DOMAIN w.leaderboards /\ f = [i \in DOMAIN w.leaderboards |-> f[i]]
      OBVIOUS
    <2>3. Wanted(w) = f
      BY <1>3 DEF Wanted
    <2> HIDE DEF f
    <2>4. f \in Seq({f[i] : i \in DOMAIN f})
      BY <2>1, <2>2, MappedSequence
    <2> QED BY <1>3, <2>3, <2>4 DEF Listed, Writers
  <1>4. CASE w.fn = "UpdateMembersScore"
    <2> DEFINE f == [i \in DOMAIN w.members |->
                       Score(w.leaderboard, w.members[i].PublicID, w.members[i].Score)]
    <2>1. w.members \in Seq([PublicID : STRING, Score : Int])
      BY <1>4 DEF OfLibrary, CallOf
    <2>2. DOMAIN f = DOMAIN w.members /\ f = [i \in DOMAIN w.members |-> f[i]]
      OBVIOUS
    <2>3. Wanted(w) = f
      BY <1>4 DEF Wanted
    <2> HIDE DEF f
    <2>4. f \in Seq({f[i] : i \in DOMAIN f})
      BY <2>1, <2>2, MappedSequence
    <2> QED BY <1>4, <2>3, <2>4 DEF Listed, Writers
  <1>5. CASE w.fn \notin Writers
    <2>1. Wanted(w) = <<>>
      BY <1>5 DEF Wanted, Writers
    <2> QED BY <1>5, <2>1, EmptySeq DEF Listed
  <1> QED BY <1>1, <1>2, <1>3, <1>4, <1>5 DEF Writers

LEMMA EmptyIsPrefix ==
    ASSUME NEW S, NEW t \in Seq(S)
    PROVE  IsPrefix(<<>>, t)
  <1>1. Len(t) \in Nat /\ Len(<<>>) = 0
    OBVIOUS
  <1>2. SubSeq(<<>>, 1, 0) = <<>> /\ SubSeq(t, 1, 0) = <<>>
    OBVIOUS
  <1> QED BY <1>1, <1>2 DEF IsPrefix

\* A prefix has the list's own elements.
LEMMA PrefixElements ==
    ASSUME NEW S, NEW s \in Seq(S), NEW t \in Seq(S)
    PROVE  IsPrefix(s, t) <=> Len(s) <= Len(t) /\ \A i \in 1 .. Len(s) : s[i] = t[i]
  <1>1. Len(s) \in Nat /\ Len(t) \in Nat
    OBVIOUS
  <1>2. SubSeq(s, 1, Len(s)) = s
    OBVIOUS
  <1>3. ASSUME Len(s) <= Len(t)
        PROVE  /\ SubSeq(t, 1, Len(s)) \in Seq(S) /\ Len(SubSeq(t, 1, Len(s))) = Len(s)
               /\ \A i \in 1 .. Len(s) : SubSeq(t, 1, Len(s))[i] = t[i]
    BY <1>1, <1>3
  <1>4. ASSUME Len(s) <= Len(t), \A i \in 1 .. Len(s) : s[i] = t[i]
        PROVE  s = SubSeq(t, 1, Len(s))
    BY <1>3, <1>4, SeqEqual
  <1> QED BY <1>2, <1>3, <1>4 DEF IsPrefix

LEMMA PrefixGrows ==
    ASSUME NEW S, NEW s \in Seq(S), NEW t \in Seq(S), IsPrefix(s, t), Len(s) < Len(t)
    PROVE  LET longer == s \o <<t[Len(s) + 1]>>
           IN  longer \in Seq(S) /\ IsPrefix(longer, t) /\ Len(longer) = Len(s) + 1
  <1> DEFINE next == t[Len(s) + 1]
             longer == s \o <<next>>
  <1>1. Len(s) \in Nat /\ Len(t) \in Nat
    OBVIOUS
  <1>2. next \in S
    BY <1>1, ElementOfSeq
  <1>3. /\ longer \in Seq(S) /\ Len(longer) = Len(s) + 1
        /\ \A i \in 1 .. Len(s) : longer[i] = s[i]
        /\ longer[Len(s) + 1] = next
    BY <1>2
  <1>4. \A i \in 1 .. Len(s) : s[i] = t[i]
    BY PrefixElements
  <1> HIDE DEF longer
  <1>5. \A i \in 1 .. Len(longer) : longer[i] = t[i]
    BY <1>1, <1>3, <1>4
  <1>6. IsPrefix(longer, t)
    BY <1>1, <1>3, <1>5, PrefixElements
  <1> QED BY <1>3, <1>6 DEF longer

LEMMA WholePrefix ==
    ASSUME NEW S, NEW s \in Seq(S), NEW t \in Seq(S), IsPrefix(s, t), Len(s) = Len(t)
    PROVE  s = t
  BY PrefixElements, SeqEqual

-----------------------------------------------------------------------------
(* What a call's service calls write                                       *)

\* The method m with the message x writes what w wants: all of it with one
\* service call, or one score with each.
Means(w, m, x) ==
    /\ m = HandlerOf[w.fn]
    /\ m \in SeasonMethods => ScoresOf(ServiceCalls(m, x)[1]) = Wanted(w)
    /\ m \notin SeasonMethods =>
          /\ Len(ServiceCalls(m, x)) = Len(Wanted(w))
          /\ \A i \in 1 .. Len(Wanted(w)) : ScoresOf(ServiceCalls(m, x)[i]) = <<Wanted(w)[i]>>

\* What the library sends of w is for its handler, and means what w wants.
Meant(w) ==
    LET r == Build(w)
        m == HandlerOf[w.fn]
    IN  /\ r.path \notin Pages
        /\ IsClean(r.path) =>
              /\ RemoveTrailingSlash(r.path) = r.path
              /\ MethodsFor(r.verb, r.path) = {m}
              /\ Means(w, m, Request(m, r.path, r.query, r.body))

LEMMA HalfOfDouble == ASSUME NEW n \in Int PROVE Int64(2 * n) = n
  BY DEF Int64

\* The scores of a service call for one score are one.
LEMMA OneScore ==
    ASSUME NEW s, NEW l, NEW m, NEW n,
           s.leaderboard = l, s.scores = <<[PublicID |-> m, Score |-> n]>>
    PROVE  ScoresOf(s) = <<Score(l, m, n)>>
  <1> DEFINE one == [PublicID |-> m, Score |-> n]
  <1>1. DOMAIN <<one>> = {1} /\ <<one>>[1] = one
    OBVIOUS
  <1>2. one.PublicID = m /\ one.Score = n
    OBVIOUS
  <1> HIDE DEF one
  <1>3. s.scores = <<one>>
    BY DEF one
  <1>4. ScoresOf(s) = [i \in {1} |-> Score(l, m, n)]
    BY <1>1, <1>2, <1>3 DEF ScoresOf
  <1>5. [i \in {1} |-> Score(l, m, n)] = <<Score(l, m, n)>>
    OBVIOUS
  <1> QED BY <1>4, <1>5

LEMMA UpdateScoreMeant ==
    ASSUME NEW w, OfLibrary(w), w.fn = "UpdateScore"
    PROVE  Meant(w)
  <1>1. w.score \in Int
    BY DEF OfLibrary, CallOf
  <1> DEFINE p == <<"l", w.leaderboard, "members", w.member, "score">>
             q == AppendScoreTTLAndPrevRank(w.ttl)
             b == [Score |-> 2 * w.score]
             x == Request_UpsertScore(p, q, b)
             s == SetScores(x.LeaderboardId,
                    <<[PublicID |-> x.MemberPublicId, Score |-> Int64(x.ScoreChange.Score)]>>,
                    x.PrevRank)
  <1>2. Build(w) = Send("PUT", p, q, b) /\ HandlerOf[w.fn] = "UpsertScore"
    BY DEF Build, BuildUpdateScore, HandlerOf
  <1>3. /\ Request("UpsertScore", p, q, b) = x
        /\ ServiceCalls("UpsertScore", x) = <<s>>
    BY DEF Request, ServiceCalls
  <1>4. Len(p) = 5 /\ p[1] = "l" /\ p[2] = w.leaderboard /\ p[3] = "members"
        /\ p[4] = w.member /\ p[5] = "score"
    OBVIOUS
  <1>5. b.Score = 2 * w.score
    OBVIOUS
  <1> HIDE DEF p, q, b
  <1>6. x.LeaderboardId = w.leaderboard /\ x.MemberPublicId = w.member
        /\ x.ScoreChange.Score = 2 * w.score
    BY <1>4, <1>5 DEF Request_UpsertScore
  <1> HIDE DEF x
  <1>7. /\ s.leaderboard = w.leaderboard
        /\ s.scores = <<[PublicID |-> w.member, Score |-> w.score]>>
    BY <1>1, <1>6, HalfOfDouble DEF SetScores
  <1> HIDE DEF s
  <1>8. ScoresOf(s) = <<Score(w.leaderboard, w.member, w.score)>>
    BY <1>7, OneScore
  <1>9. Wanted(w) = <<Score(w.leaderboard, w.member, w.score)>>
    BY DEF Wanted
  <1>10. Means(w, "UpsertScore", x)
    BY <1>2, <1>3, <1>8, <1>9 DEF Means, SeasonMethods
  <1>11. p \notin Pages
    BY <1>4 DEF Pages
  <1>12. ASSUME IsClean(p) PROVE RemoveTrailingSlash(p) = p
    BY <1>4, FullSegments DEF RemoveTrailingSlash, Last
  <1>13. MethodsFor("PUT", p) = {"UpsertScore"}
    BY <1>4, RoutesOf
  <1> QED BY <1>2, <1>3, <1>10, <1>11, <1>12, <1>13 DEF Meant, Send

LEMMA IncrementScoreMeant ==
    ASSUME NEW w, OfLibrary(w), w.fn = "IncrementScore"
    PROVE  Meant(w)
  <1>1. w.increment \in Int
    BY DEF OfLibrary, CallOf
  <1> DEFINE p == <<"l", w.leaderboard, "members", w.member, "score">>
             q == AppendScoreTTLAndPrevRank(w.ttl)
             b == [Increment |-> 2 * w.increment]
             x == Request_IncrementScore(p, q, b)
             s == Increment(x.LeaderboardId, x.MemberPublicId, Int64(x.Body.Increment))
  <1>2. Build(w) = Send("PATCH", p, q, b) /\ HandlerOf[w.fn] = "IncrementScore"
    BY DEF Build, BuildIncrementScore, HandlerOf
  <1>3. /\ Request("IncrementScore", p, q, b) = x
        /\ ServiceCalls("IncrementScore", x) = <<s>>
    BY DEF Request, ServiceCalls
  <1>4. Len(p) = 5 /\ p[1] = "l" /\ p[2] = w.leaderboard /\ p[3] = "members"
        /\ p[4] = w.member /\ p[5] = "score"
    OBVIOUS
  <1>5. b.Increment = 2 * w.increment
    OBVIOUS
  <1> HIDE DEF p, q, b
  <1>6. x.LeaderboardId = w.leaderboard /\ x.MemberPublicId = w.member
        /\ x.Body.Increment = 2 * w.increment
    BY <1>4, <1>5 DEF Request_IncrementScore
  <1> HIDE DEF x
  <1>7. /\ s.leaderboard = w.leaderboard
        /\ s.scores = <<[PublicID |-> w.member, Score |-> w.increment]>>
    BY <1>1, <1>6, HalfOfDouble DEF Increment
  <1> HIDE DEF s
  <1>8. ScoresOf(s) = <<Score(w.leaderboard, w.member, w.increment)>>
    BY <1>7, OneScore
  <1>9. Wanted(w) = <<Score(w.leaderboard, w.member, w.increment)>>
    BY DEF Wanted
  <1>10. Means(w, "IncrementScore", x)
    BY <1>2, <1>3, <1>8, <1>9 DEF Means, SeasonMethods
  <1>11. p \notin Pages
    BY <1>4 DEF Pages
  <1>12. ASSUME IsClean(p) PROVE RemoveTrailingSlash(p) = p
    BY <1>4, FullSegments DEF RemoveTrailingSlash, Last
  <1>13. MethodsFor("PATCH", p) = {"IncrementScore"}
    BY <1>4, RoutesOf
  <1> QED BY <1>2, <1>3, <1>10, <1>11, <1>12, <1>13 DEF Meant, Send

LEMMA UpdateScoresMeant ==
    ASSUME NEW w, OfLibrary(w), w.fn = "UpdateScores"
    PROVE  Meant(w)
  <1>1. w.score \in Int /\ w.leaderboards \in Seq(STRING)
    BY DEF OfLibrary, CallOf, Names
  <1> DEFINE p == <<"m", w.member, "scores">>
             q == AppendScoreTTLAndPrevRank(w.ttl)
             b == [Score |-> 2 * w.score, Leaderboards |-> w.leaderboards]
             x == Request_UpsertScoreMultiLeaderboards(p, q, b)
             wanted == Wanted(w)
             calls == MultiScores(x)
  <1>2. /\ Build(w) = Send("PUT", p, q, b)
        /\ HandlerOf[w.fn] = "UpsertScoreMultiLeaderboards"
    BY DEF Build, BuildUpdateScores, HandlerOf
  <1>3. /\ Request("UpsertScoreMultiLeaderboards", p, q, b) = x
        /\ ServiceCalls("UpsertScoreMultiLeaderboards", x) = calls
    BY DEF Request, ServiceCalls
  <1>4. Len(p) = 3 /\ p[1] = "m" /\ p[2] = w.member /\ p[3] = "scores"
    OBVIOUS
  <1>5. b.Score = 2 * w.score /\ b.Leaderboards = w.leaderboards
    OBVIOUS
  <1> HIDE DEF p, q, b
  <1>6. x.MemberPublicId = w.member /\ x.ScoreMultiChange.Score = 2 * w.score
        /\ x.ScoreMultiChange.Leaderboards = w.leaderboards
    BY <1>4, <1>5 DEF Request_UpsertScoreMultiLeaderboards
  <1> HIDE DEF x
  <1> DEFINE n == Len(w.leaderboards)
  <1>7. n \in Nat /\ DOMAIN w.leaderboards = 1 .. n
    BY <1>1, LenProperties
  <1>8. wanted = [i \in 1 .. n |-> Score(w.leaderboards[i], w.member, w.score)]
    BY <1>7 DEF Wanted
  <1>9. calls = [i \in 1 .. n |-> SetScores(w.leaderboards[i],
                   <<[PublicID |-> w.member, Score |-> w.score]>>, x.PrevRank)]
    BY <1>1, <1>6, <1>7, HalfOfDouble DEF MultiScores
  <1> HIDE DEF wanted, calls, n
  <1>10. Len(wanted) = n /\ Len(calls) = n
    BY <1>7, <1>8, <1>9
  <1>11. ASSUME NEW i \in 1 .. n PROVE ScoresOf(calls[i]) = <<wanted[i]>>
    <2>1. /\ calls[i].leaderboard = w.leaderboards[i]
          /\ calls[i].scores = <<[PublicID |-> w.member, Score |-> w.score]>>
      BY <1>9 DEF SetScores
    <2>2. ScoresOf(calls[i]) = <<Score(w.leaderboards[i], w.member, w.score)>>
      BY <2>1, OneScore
    <2> QED BY <1>8, <2>2
  <1>12. Means(w, "UpsertScoreMultiLeaderboards", x)
    BY <1>2, <1>3, <1>10, <1>11 DEF Means, SeasonMethods, wanted
  <1>13. p \notin Pages
    BY <1>4 DEF Pages
  <1>14. ASSUME IsClean(p) PROVE RemoveTrailingSlash(p) = p
    BY <1>4, FullSegments DEF RemoveTrailingSlash, Last
  <1>15. MethodsFor("PUT", p) = {"UpsertScoreMultiLeaderboards"}
    BY <1>4, RoutesOf
  <1> QED BY <1>2, <1>3, <1>12, <1>13, <1>14, <1>15 DEF Meant, Send

LEMMA UpdateMembersScoreMeant ==
    ASSUME NEW w, OfLibrary(w), w.fn = "UpdateMembersScore"
    PROVE  Meant(w)
  <1>1. w.members \in Seq([PublicID : STRING, Score : Int])
    BY DEF OfLibrary, CallOf
  <1> DEFINE p == <<"l", w.leaderboard, "scores">>
             q == AppendScoreTTLAndPrevRank(w.ttl)
             doubled == [i \in DOMAIN w.members |->
                   [PublicID |-> w.members[i].PublicID, Score |-> 2 * w.members[i].Score]]
             b == [Members |-> doubled]
             x == Request_BulkUpsertScores(p, q, b)
             s == SetScores(x.LeaderboardId, BulkScores(x.MemberScores.Members), x.PrevRank)
             wanted == Wanted(w)
  <1>2. Build(w) = Send("PUT", p, q, b) /\ HandlerOf[w.fn] = "BulkUpsertScores"
    BY DEF Build, BuildUpdateMembersScore, HandlerOf
  <1>3. /\ Request("BulkUpsertScores", p, q, b) = x
        /\ ServiceCalls("BulkUpsertScores", x) = <<s>>
    BY DEF Request, ServiceCalls
  <1>4. Len(p) = 3 /\ p[1] = "l" /\ p[2] = w.leaderboard /\ p[3] = "scores"
    OBVIOUS
  <1>5. \A i \in DOMAIN w.members : w.members[i].Score \in Int
    <2>1. \A i \in 1 .. Len(w.members) : w.members[i] \in [PublicID : STRING, Score : Int]
      BY <1>1, ElementOfSeq
    <2> QED BY <1>1, <2>1, LenProperties
  <1>6. wanted = [i \in DOMAIN w.members |->
                    Score(w.leaderboard, w.members[i].PublicID, w.members[i].Score)]
    BY DEF Wanted
  <1>7. /\ DOMAIN doubled = DOMAIN w.members
        /\ \A i \in DOMAIN w.members : /\ doubled[i].PublicID = w.members[i].PublicID
                                       /\ doubled[i].Score = 2 * w.members[i].Score
    OBVIOUS
  <1> HIDE DEF wanted, doubled
  <1>8. b.Members = doubled
    OBVIOUS
  <1> HIDE DEF p, q, b
  <1>9. x.LeaderboardId = w.leaderboard /\ x.MemberScores.Members = doubled
    BY <1>4, <1>8 DEF Request_BulkUpsertScores
  <1> HIDE DEF x
  <1> DEFINE scores == BulkScores(doubled)
  <1>10. /\ DOMAIN scores = DOMAIN w.members
         /\ \A i \in DOMAIN w.members : /\ scores[i].PublicID = w.members[i].PublicID
                                        /\ scores[i].Score = w.members[i].Score
    BY <1>5, <1>7, HalfOfDouble DEF BulkScores
  <1>11. s.leaderboard = w.leaderboard /\ s.scores = scores
    BY <1>9 DEF SetScores
  <1> HIDE DEF s, scores
  <1>12. ScoresOf(s) = wanted
    BY <1>6, <1>10, <1>11 DEF ScoresOf
  <1>13. Means(w, "BulkUpsertScores", x)
    BY <1>2, <1>3, <1>12 DEF Means, SeasonMethods, wanted
  <1>14. p \notin Pages
    BY <1>4 DEF Pages
  <1>15. ASSUME IsClean(p) PROVE RemoveTrailingSlash(p) = p
    BY <1>4, FullSegments DEF RemoveTrailingSlash, Last
  <1>16. MethodsFor("PUT", p) = {"BulkUpsertScores"}
    BY <1>4, RoutesOf
  <1> QED BY <1>2, <1>3, <1>13, <1>14, <1>15, <1>16 DEF Meant, Send

LEMMA WritersMeant ==
    ASSUME NEW w, OfLibrary(w), w.fn \in Writers
    PROVE  Meant(w)
  BY UpdateScoreMeant, IncrementScoreMeant, UpdateScoresMeant, UpdateMembersScoreMeant
  DEF Writers

-----------------------------------------------------------------------------
(* Redirections                                                            *)

LEMMA CountUpToFour ==
    /\ Cardinality({}) = 0 /\ Cardinality({1}) = 1 /\ Cardinality({1, 3}) = 2
    /\ Cardinality({1, 3, 4}) = 3 /\ Cardinality({1, 3, 4, 5}) = 4
  <1>1. IsFiniteSet({1}) /\ Cardinality({1}) = 1
    BY FS_Singleton
  <1>2. IsFiniteSet({1, 3}) /\ Cardinality({1, 3}) = 2
    <2>1. {1, 3} = {1} \cup {3} /\ 3 \notin {1}
      OBVIOUS
    <2> QED BY <1>1, <2>1, FS_AddElement
  <1>3. IsFiniteSet({1, 3, 4}) /\ Cardinality({1, 3, 4}) = 3
    <2>1. {1, 3, 4} = {1, 3} \cup {4} /\ 4 \notin {1, 3}
      OBVIOUS
    <2> QED BY <1>2, <2>1, FS_AddElement
  <1>4. Cardinality({1, 3, 4, 5}) = 4
    <2>1. {1, 3, 4, 5} = {1, 3, 4} \cup {5} /\ 5 \notin {1, 3, 4}
      OBVIOUS
    <2> QED BY <1>3, <2>1, FS_AddElement
  <1> QED BY <1>1, <1>2, <1>3, <1>4, FS_EmptySet

\* An empty name in the second place goes.
LEMMA CleanThree ==
    ASSUME NEW a, NEW b, ~Empty(a)
    PROVE  CleanPath(<<a, "", b>>) = <<a, b>>
  <1> DEFINE p == <<a, "", b>>
             kept == {i \in 1 .. Len(p) : i = Len(p) \/ ~Empty(p[i])}
             before(i) == Cardinality({j \in kept : j < i})
             nth(k) == CHOOSE i \in kept : before(i) = k - 1
  <1>1. CleanPath(p) = [k \in 1 .. Cardinality(kept) |-> p[nth(k)]]
    BY DEF CleanPath
  <1>2. Len(p) = 3 /\ p[1] = a /\ p[2] = "" /\ p[3] = b
    OBVIOUS
  <1>3. 1 .. 3 = {1, 2, 3}
    OBVIOUS
  <1> HIDE DEF p
  <1>4. kept = {1, 3}
    BY <1>2, <1>3 DEF Empty
  <1> HIDE DEF kept
  <1>5. {j \in kept : j < 1} = {} /\ {j \in kept : j < 3} = {1}
    BY <1>4
  <1>6. Cardinality(kept) = 2 /\ before(1) = 0 /\ before(3) = 1
    BY <1>4, <1>5, CountUpToFour
  <1> HIDE DEF before
  <1>7. nth(1) = 1 /\ nth(2) = 3
    BY <1>4, <1>6
  <1> HIDE DEF nth
  <1>8. [k \in 1 .. 2 |-> p[nth(k)]] = <<a, b>>
    <2> DEFINE q == [k \in 1 .. 2 |-> p[nth(k)]]
    <2>1. 1 .. 2 = {1, 2} /\ q[1] = p[nth(1)] /\ q[2] = p[nth(2)]
      OBVIOUS
    <2>2. q[1] = a /\ q[2] = b
      BY <1>2, <1>7, <2>1
    <2> QED BY <2>1, <2>2
  <1> QED BY <1>1, <1>6, <1>8 DEF p

LEMMA CleanFive ==
    ASSUME NEW a, NEW b, NEW d, NEW e, ~Empty(a), ~Empty(b), ~Empty(d)
    PROVE  CleanPath(<<a, "", b, d, e>>) = <<a, b, d, e>>
  <1> DEFINE p == <<a, "", b, d, e>>
             kept == {i \in 1 .. Len(p) : i = Len(p) \/ ~Empty(p[i])}
             before(i) == Cardinality({j \in kept : j < i})
             nth(k) == CHOOSE i \in kept : before(i) = k - 1
  <1>1. CleanPath(p) = [k \in 1 .. Cardinality(kept) |-> p[nth(k)]]
    BY DEF CleanPath
  <1>2. Len(p) = 5 /\ p[1] = a /\ p[2] = "" /\ p[3] = b /\ p[4] = d /\ p[5] = e
    OBVIOUS
  <1>3. 1 .. 5 = {1, 2, 3, 4, 5}
    OBVIOUS
  <1> HIDE DEF p
  <1>4. kept = {1, 3, 4, 5}
    BY <1>2, <1>3 DEF Empty
  <1> HIDE DEF kept
  <1>5. /\ {j \in kept : j < 1} = {} /\ {j \in kept : j < 3} = {1}
        /\ {j \in kept : j < 4} = {1, 3} /\ {j \in kept : j < 5} = {1, 3, 4}
    BY <1>4
  <1>6. Cardinality(kept) = 4 /\ before(1) = 0 /\ before(3) = 1 /\ before(4) = 2
        /\ before(5) = 3
    BY <1>4, <1>5, CountUpToFour
  <1> HIDE DEF before
  <1>7. nth(1) = 1 /\ nth(2) = 3 /\ nth(3) = 4 /\ nth(4) = 5
    BY <1>4, <1>6
  <1> HIDE DEF nth
  <1>8. [k \in 1 .. 4 |-> p[nth(k)]] = <<a, b, d, e>>
    <2> DEFINE q == [k \in 1 .. 4 |-> p[nth(k)]]
    <2>1. /\ 1 .. 4 = {1, 2, 3, 4} /\ q[1] = p[nth(1)] /\ q[2] = p[nth(2)]
          /\ q[3] = p[nth(3)] /\ q[4] = p[nth(4)]
      OBVIOUS
    <2>2. q[1] = a /\ q[2] = b /\ q[3] = d /\ q[4] = e
      BY <1>2, <1>7, <2>1
    <2> QED BY <2>1, <2>2
  <1> QED BY <1>1, <1>6, <1>8 DEF p

\* A request that writes nothing, and where a redirection takes a write.
Harmless(w, h) ==
    /\ DOMAIN h = {"verb", "path", "query", "body"}
    /\ h.verb \in {"GET", "DELETE"}
    /\ w.fn \in Writers => h.verb = "GET"
    /\ w.fn = "UpdateScore" => w.member = "" \/ h.path = <<"l", "members", w.member, "score">>
    /\ w.fn = "UpdateScores" => h.path = <<"m", "scores">>
    /\ w.fn = "UpdateMembersScore" => h.path = <<"l", "scores">>

LEMMA LibrarySends ==
    ASSUME NEW w, OfLibrary(w)
    PROVE  w.fn \notin Writers => Harmless(w, Build(w))
  <1> SUFFICES ASSUME w.fn \notin Writers PROVE Harmless(w, Build(w))
    OBVIOUS
  <1>1. w.fn \in {"RemoveMemberFromLeaderboard", "DeleteLeaderboard", "GetTop", "GetTopPercent",
                  "GetMember", "GetMembers", "GetMemberInLeaderboards",
                  "GetMembersAroundMember", "GetCount", "Healthcheck"}
    BY DEF OfLibrary, CallOf, Writers
  <1>2. DOMAIN Build(w) = {"verb", "path", "query", "body"} /\ Build(w).verb \in {"GET", "DELETE"}
    <2>1. CASE w.fn \in {"RemoveMemberFromLeaderboard", "DeleteLeaderboard"}
      BY <2>1 DEF Build, Send, BuildRemoveMemberFromLeaderboard, BuildDeleteLeaderboard
    <2>2. CASE w.fn \in {"GetTop", "GetTopPercent", "GetMember", "GetMembers"}
      BY <2>2 DEF Build, Send, BuildGetTop, BuildGetTopPercent, BuildGetMember, BuildGetMembers
    <2>3. CASE w.fn \in {"GetMemberInLeaderboards", "GetMembersAroundMember", "GetCount",
                         "Healthcheck"}
      BY <2>3 DEF Build, Send, BuildGetMemberInLeaderboards, BuildGetMembersAroundMember,
                  BuildGetCount, BuildHealthcheck
    <2> QED BY <1>1, <2>1, <2>2, <2>3
  <1> QED BY <1>2 DEF Harmless, Writers

LEMMA TwoAreClean ==
    ASSUME NEW a, NEW b
    PROVE  IsClean(<<a, b>>) <=> ~Empty(a)
  <1> DEFINE p == <<a, b>>
  <1>1. Len(p) = 2 /\ p[1] = a /\ p[2] = b
    OBVIOUS
  <1>2. 1 .. 1 = {1}
    OBVIOUS
  <1> HIDE DEF p
  <1>3. IsClean(p) <=> \A i \in 1 .. 1 : ~Empty(p[i])
    BY <1>1 DEF IsClean
  <1>4. IsClean(p) <=> ~Empty(a)
    BY <1>1, <1>2, <1>3
  <1> QED BY <1>4 DEF p

LEMMA ThreeAreClean ==
    ASSUME NEW a, NEW b, NEW d
    PROVE  IsClean(<<a, b, d>>) <=> ~Empty(a) /\ ~Empty(b)
  <1> DEFINE p == <<a, b, d>>
  <1>1. Len(p) = 3 /\ p[1] = a /\ p[2] = b /\ p[3] = d
    OBVIOUS
  <1>2. 1 .. 2 = {1, 2}
    OBVIOUS
  <1> HIDE DEF p
  <1>3. IsClean(p) <=> \A i \in 1 .. 2 : ~Empty(p[i])
    BY <1>1 DEF IsClean
  <1>4. IsClean(p) <=> ~Empty(a) /\ ~Empty(b)
    BY <1>1, <1>2, <1>3
  <1> QED BY <1>4 DEF p

LEMMA FourAreClean ==
    ASSUME NEW a, NEW b, NEW d, NEW e
    PROVE  IsClean(<<a, b, d, e>>) <=> ~Empty(a) /\ ~Empty(b) /\ ~Empty(d)
  <1> DEFINE p == <<a, b, d, e>>
  <1>1. Len(p) = 4 /\ p[1] = a /\ p[2] = b /\ p[3] = d /\ p[4] = e
    OBVIOUS
  <1>2. 1 .. 3 = {1, 2, 3}
    OBVIOUS
  <1> HIDE DEF p
  <1>3. IsClean(p) <=> \A i \in 1 .. 3 : ~Empty(p[i])
    BY <1>1 DEF IsClean
  <1>4. IsClean(p) <=> ~Empty(a) /\ ~Empty(b) /\ ~Empty(d)
    BY <1>1, <1>2, <1>3
  <1> QED BY <1>4 DEF p

LEMMA FiveAreClean ==
    ASSUME NEW a, NEW b, NEW d, NEW e, NEW f
    PROVE  IsClean(<<a, b, d, e, f>>) <=> ~Empty(a) /\ ~Empty(b) /\ ~Empty(d) /\ ~Empty(e)
  <1> DEFINE p == <<a, b, d, e, f>>
  <1>1. Len(p) = 5 /\ p[1] = a /\ p[2] = b /\ p[3] = d /\ p[4] = e /\ p[5] = f
    OBVIOUS
  <1>2. 1 .. 4 = {1, 2, 3, 4}
    OBVIOUS
  <1> HIDE DEF p
  <1>3. IsClean(p) <=> \A i \in 1 .. 4 : ~Empty(p[i])
    BY <1>1 DEF IsClean
  <1>4. IsClean(p) <=> ~Empty(a) /\ ~Empty(b) /\ ~Empty(d) /\ ~Empty(e)
    BY <1>1, <1>2, <1>3
  <1> QED BY <1>4 DEF p

LEMMA CleanPaths ==
    /\ IsClean(<<"m", "scores">>) /\ IsClean(<<"l", "scores">>)
    /\ \A m : ~Empty(m) => IsClean(<<"l", "members", m, "score">>)
  <1>1. ~Empty("m") /\ ~Empty("l") /\ ~Empty("members")
    BY DEF Empty
  <1> QED BY <1>1, TwoAreClean, FourAreClean

\* Where the first redirection of a write ends there is no second.
LEMMA RedirectedIsHarmless ==
    ASSUME NEW w, OfLibrary(w), NEW h, ~IsClean(h.path),
           (w.fn \in Writers /\ h = Build(w)) \/ Harmless(w, h)
    PROVE  Harmless(w, Redirected(h))
  <1> DEFINE r == Redirected(h)
  <1>1. ASSUME DOMAIN h = {"verb", "path", "query", "body"}
        PROVE  /\ DOMAIN r = {"verb", "path", "query", "body"}
               /\ r.verb = "GET" /\ r.path = CleanPath(h.path)
    BY <1>1 DEF Redirected
  <1> HIDE DEF r
  <1>2. CASE Harmless(w, h)
    <2>1. /\ w.fn \notin {"UpdateScores", "UpdateMembersScore"}
          /\ w.fn = "UpdateScore" => w.member = ""
      BY <1>2, CleanPaths DEF Harmless, Empty
    <2> QED BY <1>1, <1>2, <2>1 DEF Harmless, r
  <1>3. CASE w.fn \in Writers /\ h = Build(w)
    <2>1. CASE w.fn = "UpdateScore"
      <3>1. /\ h.path = <<"l", w.leaderboard, "members", w.member, "score">>
            /\ DOMAIN h = {"verb", "path", "query", "body"}
        BY <1>3, <2>1 DEF Build, BuildUpdateScore, Send
      <3>2. w.leaderboard = "" \/ w.member = ""
        <4>1. ~IsClean(<<"l", w.leaderboard, "members", w.member, "score">>)
          BY <3>1
        <4>2. Empty("l") \/ Empty(w.leaderboard) \/ Empty("members") \/ Empty(w.member)
          BY <4>1, FiveAreClean
        <4> QED BY <4>2 DEF Empty
      <3>3. w.leaderboard = "" /\ w.member # "" =>
              CleanPath(h.path) = <<"l", "members", w.member, "score">>
        BY <3>1, CleanFive DEF Empty
      <3> QED BY <1>1, <2>1, <3>1, <3>2, <3>3 DEF Harmless, r
    <2>2. CASE w.fn = "IncrementScore"
      <3>1. DOMAIN h = {"verb", "path", "query", "body"}
        BY <1>3, <2>2 DEF Build, BuildIncrementScore, Send
      <3> QED BY <1>1, <2>2, <3>1 DEF Harmless, r
    <2>3. CASE w.fn = "UpdateScores"
      <3>1. /\ h.path = <<"m", w.member, "scores">>
            /\ DOMAIN h = {"verb", "path", "query", "body"}
        BY <1>3, <2>3 DEF Build, BuildUpdateScores, Send
      <3>2. w.member = ""
        BY <3>1, ThreeAreClean DEF Empty
      <3>3. CleanPath(h.path) = <<"m", "scores">>
        BY <3>1, <3>2, CleanThree DEF Empty
      <3> QED BY <1>1, <2>3, <3>1, <3>3 DEF Harmless, r
    <2>4. CASE w.fn = "UpdateMembersScore"
      <3>1. /\ h.path = <<"l", w.leaderboard, "scores">>
            /\ DOMAIN h = {"verb", "path", "query", "body"}
        BY <1>3, <2>4 DEF Build, BuildUpdateMembersScore, Send
      <3>2. w.leaderboard = ""
        BY <3>1, ThreeAreClean DEF Empty
      <3>3. CleanPath(h.path) = <<"l", "scores">>
        BY <3>1, <3>2, CleanThree DEF Empty
      <3> QED BY <1>1, <2>4, <3>1, <3>3 DEF Harmless, r
    <2> QED BY <1>3, <2>1, <2>2, <2>3, <2>4 DEF Writers
  <1> QED BY <1>2, <1>3

\* A method that writes nothing, and does not answer that it did.
Strays(w, m, x) ==
    /\ m \notin WriteMethods
    /\ m # "none" => w.fn \notin {"UpdateScores", "UpdateMembersScore"}
    /\ m # "none" /\ w.fn = "UpdateScore" =>
          \/ w.member = ""
          \/ m = "GetMember" /\ w.member # x.MemberPublicId
          \/ m \in {"GetTopMembers", "GetTopPercentage"}

LEMMA HarmlessStrays ==
    ASSUME NEW w, OfLibrary(w), NEW h, Harmless(w, h),
           NEW p, p = RemoveTrailingSlash(h.path), NEW m \in MethodsFor(h.verb, p)
    PROVE  Strays(w, m, Request(m, p, h.query, h.body))
  <1>1. m \in {"RemoveLeaderboard", "RemoveMember", "RemoveMembers", "TotalMembers", "GetMember",
               "GetMembers", "GetRank", "GetAroundMember", "GetAroundScore", "GetTopMembers",
               "GetTopPercentage", "GetRankMultiLeaderboards"}
    <2>1. CASE h.verb = "GET"
      BY <2>1, MethodsOfVerb
    <2>2. CASE h.verb = "DELETE"
      BY <2>2, MethodsOfVerb
    <2> QED BY <2>1, <2>2 DEF Harmless
  <1>2. ASSUME w.fn \in Writers
        PROVE  /\ m \in {"TotalMembers", "GetMember", "GetMembers", "GetRank", "GetAroundMember",
                          "GetAroundScore", "GetTopMembers", "GetTopPercentage",
                          "GetRankMultiLeaderboards"}
               /\ Matches(Patterns[m].path, p)
    BY <1>2, MethodsOfVerb DEF Harmless
  <1>3. ASSUME w.fn \in Writers PROVE Len(p) # 2
    BY <1>2, <1>3, PathsOf
  <1>4. ASSUME w.fn \in Writers, Len(p) = 4
        PROVE  /\ m \in {"GetMember", "GetTopMembers", "GetTopPercentage"}
               /\ m = "GetMember" => p[3] = "members"
    BY <1>2, <1>4, PathsOf
  <1>5. w.fn \notin {"UpdateScores", "UpdateMembersScore"}
    <2>1. /\ RemoveTrailingSlash(<<"m", "scores">>) = <<"m", "scores">>
          /\ RemoveTrailingSlash(<<"l", "scores">>) = <<"l", "scores">>
      BY DEF RemoveTrailingSlash, Last, Empty
    <2>2. ASSUME w.fn \in {"UpdateScores", "UpdateMembersScore"} PROVE FALSE
      <3>1. p \in {<<"m", "scores">>, <<"l", "scores">>}
        BY <2>1, <2>2 DEF Harmless
      <3>2. Len(p) = 2
        BY <3>1
      <3> QED BY <1>3, <2>2, <3>2 DEF Writers
    <2> QED BY <2>2
  <1>6. ASSUME w.fn = "UpdateScore", w.member # ""
        PROVE  /\ m \in {"GetMember", "GetTopMembers", "GetTopPercentage"}
               /\ m = "GetMember" => w.member # Request(m, p, h.query, h.body).MemberPublicId
    <2>1. h.path = <<"l", "members", w.member, "score">>
      BY <1>6 DEF Harmless
    <2>2. p = <<"l", "members", w.member, "score">>
      BY <2>1 DEF RemoveTrailingSlash, Last, Empty
    <2>3. Len(p) = 4 /\ p[3] = w.member /\ p[4] = "score"
      BY <2>2
    <2>4. ASSUME m = "GetMember" PROVE Request(m, p, h.query, h.body).MemberPublicId = "score"
      BY <2>3, <2>4 DEF Request, Request_GetMember
    <2> QED BY <1>4, <1>6, <2>3, <2>4 DEF Writers
  <1> QED BY <1>1, <1>5, <1>6 DEF Strays, WriteMethods, SeasonMethods

-----------------------------------------------------------------------------
(* What is written follows the call                                        *)

\* c has called a function of the library.
CallsLibrary(c) == server[c] # "idle" /\ call[c].fn # "request"

\* What c sent last is what the function builds, or a request that writes nothing.
Sent(c) ==
    /\ server[c] = "received" \/ answer[c].status = 301 =>
          \/ call[c].fn \in Writers /\ http[c] = Build(call[c])
          \/ Harmless(call[c], http[c])
    /\ answer[c].status = 301 => ~IsClean(http[c].path)

Routed(c) ==
    \/ call[c].fn \in Writers /\ Means(call[c], method[c], msg[c])
    \/ Strays(call[c], method[c], msg[c])

\* How many of its service calls are made, where each writes one score.
Made(c) == IF server[c] = "written" THEN Len(carried[c]) - 1 ELSE Len(carried[c])

\* What is written is as much as the service calls that were made stand for.
Follows(c) ==
    /\ carried[c] \in Seq(Listed(Wanted(call[c])))
    /\ IsPrefix(carried[c], Wanted(call[c]))
    /\ server[c] \in InService /\ method[c] \in SeasonMethods =>
          (server[c] = "written" \/ todo[c] = <<>> => carried[c] = Wanted(call[c]))
    /\ server[c] \in InService /\ method[c] = "UpsertScoreMultiLeaderboards" =>
          /\ Made(c) + Len(todo[c]) = Len(Wanted(call[c]))
          /\ \A i \in 1 .. Len(todo[c]) :
                todo[c][i] = ServiceCalls(method[c], msg[c])[Made(c) + i]

\* An answer that says so comes when everything is written.
Confirmed(c) ==
    /\ answer[c].status = 200 /\ Confirms(call[c], Result(call[c], answer[c].json)) =>
          carried[c] = Wanted(call[c])
    /\ result[c] # Nil /\ Confirms(call[c], result[c]) => carried[c] = Wanted(call[c])

Unrouted(c) ==
    /\ server[c] = "idle" => call[c] = Nil /\ result[c] = Nil
    /\ server[c] \in {"idle", "received"} \/ answer[c].status = 301 =>
          method[c] = "none" /\ results[c] = <<>>
    /\ server[c] = "routed" => results[c] = <<>>

\* GetMember answers with the member it was asked for.
AnswersOwn(c) ==
    server[c] \in InService /\ method[c] = "GetMember" =>
        \/ todo[c] = ServiceCalls(method[c], msg[c]) /\ results[c] = <<>>
        \/ todo[c] = <<>> /\ results[c][1][1].PublicID = msg[c].MemberPublicId

Answered(c) ==
    /\ caller[c] = "answered" => server[c] = "replied"
    /\ result[c] # Nil => caller[c] = "answered"
    /\ server[c] = "replied" => answer[c].status \in Statuses \ {0}

Kept(c) ==
    /\ Unrouted(c) /\ AnswersOwn(c) /\ Answered(c)
    /\ CallsLibrary(c) => Sent(c) /\ Routed(c) /\ Follows(c) /\ Confirmed(c)

FollowDomains == DOMAIN result = Callers /\ DOMAIN results = Callers

FollowInv == FollowDomains /\ \A c \in Callers : Kept(c)

LEMMA FollowInvInit == Init => FollowInv
  <1> SUFFICES ASSUME Init PROVE FollowInv
    OBVIOUS
  <1>1. ASSUME NEW c \in Callers PROVE Kept(c)
    <2>1. /\ server[c] = "idle" /\ caller[c] = "idle" /\ call[c] = Nil /\ result[c] = Nil
          /\ method[c] = "none" /\ results[c] = <<>> /\ answer[c].status = 0
      BY DEF Init, NoAnswer
    <2> QED BY <2>1 DEF Kept, Unrouted, AnswersOwn, Answered, CallsLibrary, InService
  <1> QED BY <1>1 DEF Init, FollowInv, FollowDomains

LEMMA LibraryCalls ==
    ASSUME ReachInv, NEW c \in Callers, CallsLibrary(c)
    PROVE  OfLibrary(call[c])
  BY WishesAssumption DEF ReachInv, Reached, CallsLibrary, OfLibrary

\* While a handler of a write serves the library, it has what its caller wants.
LEMMA WritersMean ==
    ASSUME FollowInv, NEW c \in Callers, CallsLibrary(c), method[c] \in WriteMethods
    PROVE  call[c].fn \in Writers /\ Means(call[c], method[c], msg[c])
  BY DEF FollowInv, Kept, Routed, Strays

\* A step of c leaves the others' calls alone.
LEMMA OthersKeep ==
    ASSUME FollowInv, NEW c \in Callers, Ask(c) \/ GiveUp(c) \/ ServerStep(c) \/ Receive(c)
    PROVE  /\ FollowDomains'
           /\ \A d \in Callers \ {c} : result'[d] = result[d] /\ results'[d] = results[d]
  <1> USE DEF FollowInv, FollowDomains, callerVars, handlerVars, Fails, Recover, Gives
  <1>1. CASE Ask(c) \/ GiveUp(c) \/ Deliver(c) \/ FollowRedirection(c)
    BY <1>1 DEF Ask, GiveUp, Deliver, FollowRedirection
  <1>2. CASE Redirect(c) \/ ServePage(c) \/ EnterGateway(c) \/ Unauthorized(c)
    BY <1>2 DEF Redirect, ServePage, EnterGateway, Unauthorized
  <1>3. CASE PanicWithoutBody(c) \/ Refuse(c) \/ Begin(c) \/ Respond(c)
    BY <1>3 DEF PanicWithoutBody, Refuse, Begin, Respond
  <1>4. CASE Read(c) \/ RemoveScores(c) \/ ReadPreviousRanks(c) \/ WriteScores(c)
    BY <1>4 DEF Read, RemoveScores, ReadPreviousRanks, WriteScores
  <1>5. CASE ReadWritten(c) \/ CommandFails(c) \/ PingFails(c) \/ WriteAgain(c)
    BY <1>5 DEF ReadWritten, CommandFails, PingFails, WriteAgain
  <1> QED BY <1>1, <1>2, <1>3, <1>4, <1>5 DEF ServerStep, Receive

\* What is said of a caller stays true while its call is left alone.
Alike(c) ==
    /\ Untouched(c) /\ call'[c] = call[c] /\ http'[c] = http[c]
    /\ result'[c] = result[c] /\ results'[c] = results[c]

LEMMA AlikeIsKept ==
    ASSUME NEW c \in Callers, Kept(c), Alike(c)
    PROVE  Kept(c)'
  <1> USE DEF Alike, Untouched
  <1>1. Unrouted(c)'
    BY DEF Kept, Unrouted
  <1>2. AnswersOwn(c)' /\ Answered(c)'
    BY DEF Kept, AnswersOwn, Answered
  <1>3. CASE ~CallsLibrary(c)
    BY <1>1, <1>2, <1>3 DEF Kept, CallsLibrary
  <1>4. CASE CallsLibrary(c)
    <2>1. Sent(c)'
      BY <1>4 DEF Kept, Sent
    <2>2. Routed(c)'
      BY <1>4 DEF Kept, Routed
    <2>3. Follows(c)'
      BY <1>4 DEF Kept, Follows, Made
    <2>4. Confirmed(c)'
      BY <1>4 DEF Kept, Confirmed
    <2> QED BY <1>1, <1>2, <2>1, <2>2, <2>3, <2>4 DEF Kept
  <1> QED BY <1>3, <1>4

LEMMA OthersAreKept ==
    ASSUME CallInv, ReachInv, FollowInv, NEW c \in Callers,
           Ask(c) \/ GiveUp(c) \/ ServerStep(c) \/ Receive(c)
    PROVE  FollowDomains' /\ \A d \in Callers \ {c} : Kept(d)'
  <1>1. \A d \in Callers \ {c} : call'[d] = call[d] /\ http'[d] = http[d]
    <2>1. CASE Ask(c) \/ FollowRedirection(c)
      BY <2>1 DEF Ask, FollowRedirection, ReachInv, ReachDomains
    <2>2. CASE GiveUp(c) \/ ServerStep(c) \/ Deliver(c)
      BY <2>2, OnlyCallersAsk
    <2> QED BY <2>1, <2>2 DEF Receive
  <1>2. \A d \in Callers \ {c} : Untouched(d)
    BY OthersUntouched DEF CallInv
  <1>3. \A d \in Callers \ {c} : Alike(d)
    BY <1>1, <1>2, OthersKeep DEF Alike
  <1> QED BY <1>3, OthersKeep, AlikeIsKept DEF FollowInv

\* An answer that is no redirection, and confirms what is written if anything.
LEMMA RepliesAreKept ==
    ASSUME CallInv, FollowInv, NEW c \in Callers, server[c] \notin {"idle", "replied"},
           NEW status \in Statuses \ {0, 301}, NEW json, Reply(c, status, json),
           UNCHANGED <<callerVars, method, msg, carried>>,
           CallsLibrary(c) /\ status = 200 /\ Confirms(call[c], Result(call[c], json)) =>
              carried[c] = Wanted(call[c])
    PROVE  Kept(c)'
  <1>1. /\ server'[c] = "replied" /\ answer'[c].status = status /\ answer'[c].json = json
        /\ UNCHANGED <<caller, call, http, result, method, msg, carried>>
    BY DEF Reply, CallInv, Domains, callerVars
  <1>2. Kept(c)
    BY DEF FollowInv
  <1>3. Unrouted(c)' /\ AnswersOwn(c)'
    BY <1>1 DEF Unrouted, AnswersOwn, InService
  <1>4. Answered(c)'
    BY <1>1, <1>2 DEF Kept, Answered
  <1>5. ASSUME CallsLibrary(c)'
        PROVE  Sent(c)' /\ Routed(c)' /\ Follows(c)' /\ Confirmed(c)'
    <2>1. CallsLibrary(c)
      BY <1>1, <1>5 DEF CallsLibrary
    <2>2. Sent(c)'
      BY <1>1 DEF Sent
    <2>3. Routed(c)'
      BY <1>1, <1>2, <2>1 DEF Kept, Routed
    <2>4. Follows(c)'
      BY <1>1, <1>2, <2>1 DEF Kept, Follows, InService
    <2>5. Confirmed(c)'
      BY <1>1, <1>2, <2>1 DEF Kept, Confirmed
    <2> QED BY <2>2, <2>3, <2>4, <2>5
  <1> QED BY <1>3, <1>4, <1>5 DEF Kept

\* What a season's method and GetMember do is one service call.
LEMMA OneServiceCall ==
    ASSUME NEW m, m \in SeasonMethods \cup {"GetMember"}, NEW x \in RequestOf[m], ~LacksBody(m, x)
    PROVE  /\ \E s : ServiceCalls(m, x) = <<s>>
           /\ Tail(ServiceCalls(m, x)) = <<>> /\ ServiceCalls(m, x) # <<>>
  <1>1. \E s : ServiceCalls(m, x) = <<s>>
    <2>1. CASE m \in SeasonMethods
      BY <2>1, SeasonCalls
    <2>2. CASE m = "GetMember"
      BY <2>2 DEF ServiceCalls
    <2> QED BY <2>1, <2>2
  <1>2. PICK s : ServiceCalls(m, x) = <<s>>
    BY <1>1
  <1>3. Tail(<<s>>) = <<>> /\ <<s>> # <<>>
    OBVIOUS
  <1> QED BY <1>2, <1>3

\* A service call that went well, and wrote what there was to write.
LEMMA GivesAreKept ==
    ASSUME CallInv, FollowInv, NEW c \in Callers, server[c] \in InService, todo[c] # <<>>,
           method[c] \in WriteMethods <=> server[c] = "written",
           NEW value, Gives(c, value), UNCHANGED <<callerVars, method, msg, answer, carried>>,
           method[c] = "GetMember" => value[1].PublicID = msg[c].MemberPublicId
    PROVE  Kept(c)'
  <1>1. /\ server'[c] = "serving" /\ todo'[c] = Tail(todo[c])
        /\ results'[c] = Append(results[c], value)
        /\ UNCHANGED <<caller, call, http, result, method, msg, answer, carried>>
    BY DEF Gives, CallInv, Domains, callerVars, FollowInv, FollowDomains
  <1>2. /\ method[c] \in Methods /\ msg[c] \in RequestOf[method[c]]
        /\ ~LacksBody(method[c], msg[c]) /\ todo[c] \in Seq(CallsFor(method[c], msg[c]))
        /\ answer[c].status = 0
    BY DEF CallInv, Holds, FollowsMessage, AnswerFits, InService
  <1>3. Kept(c)
    BY DEF FollowInv
  <1>4. Unrouted(c)' /\ Answered(c)'
    <2>1. caller[c] # "answered"
      BY <1>3 DEF Kept, Answered, InService
    <2> QED BY <1>1, <1>2, <1>3, <2>1 DEF Unrouted, Kept, Answered
  <1>5. AnswersOwn(c)'
    <2> SUFFICES ASSUME method[c] = "GetMember"
                 PROVE  todo'[c] = <<>> /\ results'[c][1][1].PublicID = msg[c].MemberPublicId
      BY <1>1 DEF AnswersOwn
    <2>1. todo[c] = ServiceCalls(method[c], msg[c]) /\ results[c] = <<>>
      BY <1>3 DEF Kept, AnswersOwn
    <2>2. todo'[c] = <<>>
      BY <1>1, <1>2, <2>1, OneServiceCall
    <2>3. Append(<<>>, value)[1] = value
      OBVIOUS
    <2> QED BY <1>1, <2>1, <2>2, <2>3
  <1>6. ASSUME CallsLibrary(c)'
        PROVE  Sent(c)' /\ Routed(c)' /\ Follows(c)' /\ Confirmed(c)'
    <2>1. CallsLibrary(c)
      BY <1>6, <1>1 DEF CallsLibrary, InService
    <2>2. Sent(c)'
      BY <1>1, <1>2 DEF Sent
    <2>3. Routed(c)'
      BY <1>1, <1>3, <2>1 DEF Kept, Routed
    <2>4. Confirmed(c)'
      BY <1>1, <1>2, <1>3, <2>1 DEF Kept, Confirmed
    <2>5. method[c] \in SeasonMethods => carried[c] = Wanted(call[c])
      BY <1>3, <2>1 DEF Kept, Follows, WriteMethods
    <2>6. ASSUME method[c] = "UpsertScoreMultiLeaderboards"
          PROVE  /\ Made(c)' + Len(todo'[c]) = Len(Wanted(call[c]))
                 /\ \A i \in 1 .. Len(todo'[c]) :
                       todo'[c][i] = ServiceCalls(method[c], msg[c])[Made(c)' + i]
      <3>1. /\ Made(c) + Len(todo[c]) = Len(Wanted(call[c]))
            /\ \A i \in 1 .. Len(todo[c]) :
                  todo[c][i] = ServiceCalls(method[c], msg[c])[Made(c) + i]
        BY <1>3, <2>1, <2>6 DEF Kept, Follows
      <3>2. server[c] = "written" /\ carried[c] \in Seq(Listed(Wanted(call[c])))
        BY <1>3, <2>1, <2>6 DEF Kept, Follows, WriteMethods
      <3>3. Made(c) \in Int /\ Made(c)' = Made(c) + 1
        BY <1>1, <3>2, LenProperties DEF Made
      <3>4. /\ Len(todo[c]) \in Nat /\ Len(todo'[c]) = Len(todo[c]) - 1
            /\ \A i \in 1 .. Len(todo'[c]) : todo'[c][i] = todo[c][i + 1]
        BY <1>1, <1>2, HeadTailProperties, LenProperties
      <3>5. ASSUME NEW i \in 1 .. Len(todo'[c])
            PROVE  todo'[c][i] = ServiceCalls(method[c], msg[c])[Made(c)' + i]
        <4> DEFINE n == Len(todo[c])
                   k == Made(c)
        <4>1. n \in Nat /\ i \in 1 .. n - 1 /\ k \in Int /\ Made(c)' = k + 1
          BY <3>3, <3>4
        <4> HIDE DEF n, k
        <4>2. i + 1 \in 1 .. n /\ k + (i + 1) = Made(c)' + i
          BY <4>1
        <4> QED BY <3>1, <3>4, <4>2 DEF n, k
      <3> QED BY <3>1, <3>3, <3>4, <3>5
    <2>7. Follows(c)'
      BY <1>1, <1>3, <2>1, <2>5, <2>6 DEF Kept, Follows
    <2> QED BY <2>2, <2>3, <2>4, <2>7
  <1> QED BY <1>4, <1>5, <1>6 DEF Kept

LEMMA WriteIsKept ==
    ASSUME CallInv, ReachInv, FollowInv, NEW c \in Callers, WriteScores(c)
    PROVE  Kept(c)'
  <1>1. server[c] \in {"serving", "ranked"} /\ todo[c] # <<>>
    BY DEF WriteScores, ReadyToWrite, AtCall, CallInv, Holds, FollowsMessage
  <1>2. method[c] \in WriteMethods
    <2>1. CASE server[c] = "serving"
      BY <1>1, <2>1, NextCallWrites
      DEF WriteScores, ReadyToWrite, AtCall, WriteServices, CallInv, InService
    <2>2. CASE server[c] = "ranked"
      BY <2>2 DEF CallInv, Holds, FollowsMessage
    <2> QED BY <1>1, <2>1, <2>2
  <1>3. /\ server'[c] = "written" /\ carried'[c] = carried[c] \o ScoresOf(NextCall(c))
        /\ UNCHANGED <<caller, call, http, result, method, msg, todo, results, answer>>
    BY DEF WriteScores, CallInv, Domains, callerVars
  <1>4. /\ method[c] \in Methods /\ msg[c] \in RequestOf[method[c]]
        /\ ~LacksBody(method[c], msg[c]) /\ todo[c] \in Seq(CallsFor(method[c], msg[c]))
        /\ answer[c].status = 0
    BY <1>1 DEF CallInv, Holds, FollowsMessage, AnswerFits, InService
  <1>5. Kept(c)
    BY DEF FollowInv
  <1>6. Unrouted(c)' /\ AnswersOwn(c)' /\ Answered(c)'
    <2>1. caller[c] # "answered"
      BY <1>1, <1>5 DEF Kept, Answered
    <2>2. method[c] # "GetMember"
      BY <1>2 DEF WriteMethods, SeasonMethods
    <2> QED BY <1>3, <1>4, <1>5, <2>1, <2>2 DEF Kept, Unrouted, AnswersOwn, Answered
  <1>7. ASSUME CallsLibrary(c)'
        PROVE  Sent(c)' /\ Routed(c)' /\ Follows(c)' /\ Confirmed(c)'
    <2> DEFINE wanted == Wanted(call[c])
               calls == ServiceCalls(method[c], msg[c])
    <2>1. CallsLibrary(c)
      BY <1>1, <1>3, <1>7 DEF CallsLibrary
    <2>2. Sent(c)'
      BY <1>3, <1>4 DEF Sent
    <2>3. Routed(c)'
      BY <1>3, <1>5, <2>1 DEF Kept, Routed
    <2>4. Confirmed(c)'
      BY <1>3, <1>4, <1>5, <2>1 DEF Kept, Confirmed, Answered
    <2>5. Means(call[c], method[c], msg[c])
      BY <1>2, <2>1, WritersMean
    <2>6. /\ wanted \in Seq(Listed(wanted)) /\ carried[c] \in Seq(Listed(wanted))
          /\ IsPrefix(carried[c], wanted)
      BY <1>5, <2>1, LibraryCalls, WantedIsList DEF Kept, Follows
    <2>7. CASE method[c] \in SeasonMethods
      <3>1. carried[c] = <<>> /\ todo[c] = calls
        BY <1>1, <2>7 DEF CallInv, Holds, WrittenSoFar, InService
      <3>2. ScoresOf(NextCall(c)) = wanted
        <4>1. PICK s : calls = <<s>>
          BY <1>4, <2>7, OneServiceCall
        <4> QED BY <2>5, <2>7, <3>1, <4>1 DEF NextCall, Means
      <3> HIDE DEF wanted
      <3>3. carried'[c] = wanted
        BY <1>3, <2>6, <3>1, <3>2, ConcatEmptySeq
      <3>4. IsPrefix(wanted, wanted)
        BY <2>6, PrefixElements
      <3>5. method[c] # "UpsertScoreMultiLeaderboards"
        BY <2>7 DEF SeasonMethods
      <3>6. Follows(c)'
        BY <1>3, <2>6, <3>3, <3>4, <3>5 DEF Follows, wanted
      <3> QED BY <2>2, <2>3, <2>4, <3>6
    <2>8. CASE method[c] = "UpsertScoreMultiLeaderboards"
      <3>1. /\ Len(carried[c]) + Len(todo[c]) = Len(wanted)
            /\ \A i \in 1 .. Len(todo[c]) : todo[c][i] = calls[Len(carried[c]) + i]
        BY <1>1, <1>5, <2>1, <2>8 DEF Kept, Follows, Made, InService
      <3>2. Len(todo[c]) \in Nat \ {0} /\ NextCall(c) = todo[c][1]
        BY <1>1, <1>4, HeadTailProperties, LenProperties, EmptySeq DEF NextCall
      <3>3. \A i \in 1 .. Len(wanted) : ScoresOf(calls[i]) = <<wanted[i]>>
        BY <2>5, <2>8 DEF Means, SeasonMethods
      <3> HIDE DEF wanted, calls
      <3> DEFINE k == Len(carried[c])
      <3>4. k \in Nat /\ Len(wanted) \in Nat /\ k < Len(wanted)
        <4>1. k \in Nat /\ Len(wanted) \in Nat
          BY <2>6, LenProperties
        <4> DEFINE n == Len(todo[c])
        <4>2. n \in Nat \ {0} /\ k + n = Len(wanted)
          BY <3>1, <3>2
        <4> HIDE DEF k, n
        <4> QED BY <4>1, <4>2
      <3>5. ScoresOf(NextCall(c)) = <<wanted[k + 1]>>
        <4>1. 1 \in 1 .. Len(todo[c]) /\ k + 1 \in 1 .. Len(wanted)
          BY <3>2, <3>4
        <4> QED BY <3>1, <3>2, <3>3, <4>1
      <3>6. /\ carried'[c] \in Seq(Listed(wanted)) /\ IsPrefix(carried'[c], wanted)
            /\ Len(carried'[c]) = k + 1
        BY <1>3, <2>6, <3>4, <3>5, PrefixGrows
      <3>7. Made(c)' = k
        BY <1>3, <3>4, <3>6 DEF Made
      <3>8. method[c] \notin SeasonMethods
        BY <2>8 DEF SeasonMethods
      <3>9. Follows(c)'
        BY <1>3, <3>1, <3>6, <3>7, <3>8 DEF Follows, wanted, calls
      <3> QED BY <2>2, <2>3, <2>4, <3>9
    <2> QED BY <1>2, <2>7, <2>8 DEF WriteMethods
  <1> QED BY <1>6, <1>7 DEF Kept

-----------------------------------------------------------------------------
(* Answers that confirm nothing                                            *)

LEMMA NoMembers == AsMembers(<<>>) = <<>>
  BY DEF AsMembers

LEMMA NothingIsConfirmed ==
    ASSUME NEW w, NEW json,
           "PublicID" \in DOMAIN json => json["PublicID"] = "",
           "Scores" \in DOMAIN json => json["Scores"] = <<>>,
           "Members" \in DOMAIN json => json["Members"] = <<>>
    PROVE  ~Confirms(w, Result(w, json))
  <1>1. /\ Field(json, "PublicID", "") = "" /\ Field(json, "Scores", <<>>) = <<>>
        /\ Field(json, "Members", <<>>) = <<>>
    BY DEF Field
  <1>2. AsMembers(<<>>) = <<>>
    BY NoMembers
  <1>3. CASE w.fn = "UpdateScore"
    <2>1. Result(w, json).PublicID = ""
      BY <1>1, <1>3 DEF Result, AsMember
    <2> QED BY <1>3, <2>1 DEF Confirms
  <1>4. CASE w.fn = "UpdateScores"
    <2>1. Result(w, json).Scores = <<>>
      BY <1>1, <1>2, <1>4 DEF Result, AsScoreList
    <2> QED BY <1>4, <2>1 DEF Confirms
  <1>5. CASE w.fn = "UpdateMembersScore"
    <2>1. Result(w, json).Members = <<>>
      BY <1>1, <1>2, <1>5 DEF Result, AsMemberList
    <2> QED BY <1>5, <2>1 DEF Confirms
  <1>6. CASE w.fn \notin {"UpdateScore", "UpdateScores", "UpdateMembersScore"}
    BY <1>6 DEF Confirms
  <1> QED BY <1>3, <1>4, <1>5, <1>6

LEMMA PageConfirmsNothing ==
    ASSUME NEW w PROVE ~Confirms(w, Result(w, [Text |-> "WORKING"]))
  <1>1. DOMAIN [Text |-> "WORKING"] = {"Text"}
    OBVIOUS
  <1> QED BY <1>1, NothingIsConfirmed

LEMMA PanicConfirmsNothing ==
    ASSUME NEW w, NEW m \in WriteMethods PROVE ~Confirms(w, Result(w, EmptyResponse[m]))
  <1> DEFINE json == EmptyResponse[m]
  <1>1. /\ "PublicID" \in DOMAIN json => json["PublicID"] = ""
        /\ "Scores" \in DOMAIN json => json["Scores"] = <<>>
        /\ "Members" \in DOMAIN json => json["Members"] = <<>>
    <2>1. CASE m = "UpsertScore"
      BY <2>1 DEF EmptyResponse
    <2>2. CASE m = "IncrementScore"
      BY <2>2 DEF EmptyResponse
    <2>3. CASE m = "BulkUpsertScores"
      BY <2>3 DEF EmptyResponse
    <2>4. CASE m = "UpsertScoreMultiLeaderboards"
      BY <2>4 DEF EmptyResponse
    <2> QED BY <2>1, <2>2, <2>3, <2>4 DEF WriteMethods, SeasonMethods
  <1> HIDE DEF json
  <1>2. ~Confirms(w, Result(w, json))
    BY <1>1, NothingIsConfirmed
  <1> QED BY <1>2 DEF json

LEMMA StrayConfirmsNothing ==
    ASSUME NEW w, NEW m \in Methods, NEW x, Strays(w, m, x), NEW given,
           m = "GetMember" => given[1][1].PublicID = x.MemberPublicId
    PROVE  ~Confirms(w, Result(w, Response(m, x, given)))
  <1>1. m # "none"
    BY EachMethod DEF SeasonMethods
  <1>2. w.fn \notin {"UpdateScores", "UpdateMembersScore"}
    BY <1>1 DEF Strays
  <1>3. CASE w.fn = "UpdateScore"
    <2> DEFINE json == Response(m, x, given)
    <2>1. Result(w, json).PublicID = Field(json, "PublicID", "")
      BY <1>3 DEF Result, AsMember
    <2>2. CASE w.member = ""
      BY <1>3, <2>2 DEF Confirms
    <2>3. CASE m = "GetMember" /\ w.member # x.MemberPublicId
      <3>1. "PublicID" \in DOMAIN json /\ json["PublicID"] = x.MemberPublicId
        BY <2>3 DEF Response, NamedResponse
      <3>2. Field(json, "PublicID", "") = x.MemberPublicId
        BY <3>1 DEF Field
      <3> QED BY <1>3, <2>1, <2>3, <3>2 DEF Confirms
    <2>4. CASE m \in {"GetTopMembers", "GetTopPercentage"}
      <3>1. DOMAIN json = {"Success", "Members"}
        BY <2>4 DEF Response, NewMemberRankResponseList
      <3>2. Field(json, "PublicID", "") = ""
        BY <3>1 DEF Field
      <3> QED BY <1>3, <2>1, <3>2 DEF Confirms
    <2> QED BY <1>1, <1>3, <2>2, <2>3, <2>4 DEF Strays
  <1>4. CASE w.fn # "UpdateScore"
    BY <1>2, <1>4 DEF Confirms
  <1> QED BY <1>3, <1>4

-----------------------------------------------------------------------------
(* Steps                                                                   *)

LEMMA RedirectIsKept ==
    ASSUME CallInv, FollowInv, NEW c \in Callers, Redirect(c)
    PROVE  Kept(c)'
  <1>1. /\ server[c] = "received" /\ ~IsClean(http[c].path)
        /\ server'[c] = "replied" /\ answer'[c].status = 301
        /\ UNCHANGED <<caller, call, http, result, method, msg, results, carried>>
    BY DEF Redirect, Reply, CallInv, Domains, callerVars, handlerVars, worldVars
  <1>2. Kept(c)
    BY DEF FollowInv
  <1>3. Unrouted(c)' /\ AnswersOwn(c)' /\ Answered(c)'
    <2>1. 301 \in Statuses \ {0}
      BY DEF Statuses
    <2> QED BY <1>1, <1>2, <2>1 DEF Kept, Unrouted, AnswersOwn, Answered, InService
  <1>4. ASSUME CallsLibrary(c)'
        PROVE  Sent(c)' /\ Routed(c)' /\ Follows(c)' /\ Confirmed(c)'
    <2>1. CallsLibrary(c)
      BY <1>1, <1>4 DEF CallsLibrary
    <2>2. Sent(c)'
      BY <1>1, <1>2, <2>1 DEF Kept, Sent
    <2>3. Routed(c)'
      BY <1>1, <1>2, <2>1 DEF Kept, Routed
    <2>4. Follows(c)'
      BY <1>1, <1>2, <2>1 DEF Kept, Follows, InService
    <2>5. Confirmed(c)'
      BY <1>1, <1>2, <2>1 DEF Kept, Confirmed
    <2> QED BY <2>2, <2>3, <2>4, <2>5
  <1> QED BY <1>3, <1>4 DEF Kept

\* The gateway finds the handler that a write means, or one that only reads or removes.
LEMMA GatewayRoutes ==
    ASSUME ReachInv, FollowInv, NEW c \in Callers, CallsLibrary(c), server[c] = "received",
           IsClean(http[c].path),
           NEW p, p = RemoveTrailingSlash(http[c].path), NEW m \in MethodsFor(http[c].verb, p),
           NEW x, x = Request(m, p, http[c].query, http[c].body)
    PROVE  (call[c].fn \in Writers /\ Means(call[c], m, x)) \/ Strays(call[c], m, x)
  <1>1. OfLibrary(call[c])
    BY LibraryCalls
  <1>2. \/ call[c].fn \in Writers /\ http[c] = Build(call[c])
        \/ Harmless(call[c], http[c])
    BY DEF FollowInv, Kept, Sent
  <1>3. CASE call[c].fn \in Writers /\ http[c] = Build(call[c])
    BY <1>1, <1>3, WritersMeant DEF Meant
  <1>4. CASE Harmless(call[c], http[c])
    BY <1>1, <1>4, HarmlessStrays
  <1> QED BY <1>2, <1>3, <1>4

LEMMA EnterGatewayIsKept ==
    ASSUME CallInv, ReachInv, FollowInv, NEW c \in Callers, EnterGateway(c)
    PROVE  Kept(c)'
  <1> DEFINE p == RemoveTrailingSlash(http[c].path)
             methods == MethodsFor(http[c].verb, p)
             decoded(m) == Decode(m, p, http[c].query, http[c].body)
  <1>1. server[c] = "received" /\ IsClean(http[c].path) /\ UNCHANGED <<callerVars, carried>>
    BY DEF EnterGateway, worldVars
  <1>2. ASSUME NEW status \in {400, 404, 405}, Reply(c, status, Nil), UNCHANGED <<method, msg>>
        PROVE  Kept(c)'
    <2>1. status \in Statuses \ {0, 301} /\ status # 200
      BY DEF Statuses
    <2> QED BY <1>1, <1>2, <2>1, RepliesAreKept
  <1>3. CASE Reply(c, UnroutedStatus(p), Nil) /\ UNCHANGED <<method, msg>>
    BY <1>2, <1>3 DEF UnroutedStatus
  <1>4. CASE Reply(c, 400, Nil) /\ UNCHANGED <<method, msg>>
    BY <1>2, <1>4
  <1>5. ASSUME NEW m \in methods, decoded(m) # Nil, method' = [method EXCEPT ![c] = m],
               msg' = [msg EXCEPT ![c] = decoded(m)], server' = [server EXCEPT ![c] = "routed"],
               UNCHANGED <<answer, results>>
        PROVE  Kept(c)'
    <2> DEFINE x == Request(m, p, http[c].query, http[c].body)
    <2>1. decoded(m) = x
      BY <1>5 DEF Decode
    <2>2. /\ server'[c] = "routed" /\ method'[c] = m /\ msg'[c] = x
          /\ UNCHANGED <<caller, call, http, result, answer, results, carried>>
      BY <1>1, <1>5, <2>1 DEF CallInv, Domains, callerVars
    <2>3. Kept(c) /\ answer[c].status = 0
      BY <1>1 DEF FollowInv, CallInv, Holds, AnswerFits
    <2>4. Unrouted(c)' /\ AnswersOwn(c)' /\ Answered(c)'
      BY <1>1, <2>2, <2>3 DEF Kept, Unrouted, AnswersOwn, Answered, InService
    <2>5. ASSUME CallsLibrary(c)'
          PROVE  Sent(c)' /\ Routed(c)' /\ Follows(c)' /\ Confirmed(c)'
      <3>1. CallsLibrary(c)
        BY <1>1, <2>2, <2>5 DEF CallsLibrary
      <3>2. Sent(c)'
        BY <2>2, <2>3 DEF Sent
      <3>3. Routed(c)'
        BY <1>1, <1>5, <2>2, <3>1, GatewayRoutes DEF Routed
      <3>4. Follows(c)'
        BY <2>2, <2>3, <3>1 DEF Kept, Follows, InService
      <3>5. Confirmed(c)'
        BY <2>2, <2>3, <3>1 DEF Kept, Confirmed
      <3> QED BY <3>2, <3>3, <3>4, <3>5
    <2> QED BY <2>4, <2>5 DEF Kept
  <1> QED BY <1>3, <1>4, <1>5 DEF EnterGateway

LEMMA BeginIsKept ==
    ASSUME CallInv, ReachInv, FollowInv, NEW c \in Callers, Begin(c)
    PROVE  Kept(c)'
  <1> DEFINE calls == ServiceCalls(method[c], msg[c])
  <1>1. /\ server[c] = "routed" /\ ~LacksBody(method[c], msg[c])
        /\ server'[c] = "serving" /\ todo'[c] = calls
        /\ UNCHANGED <<caller, call, http, result, method, msg, results, answer, carried>>
    BY DEF Begin, CallInv, Domains, callerVars, worldVars
  <1>2. /\ carried[c] = <<>> /\ answer[c].status = 0
        /\ method[c] \in Methods /\ msg[c] \in RequestOf[method[c]]
    BY <1>1 DEF CallInv, Holds, WrittenSoFar, AnswerFits, FollowsMessage
  <1>3. Kept(c)
    BY DEF FollowInv
  <1>4. Unrouted(c)' /\ AnswersOwn(c)' /\ Answered(c)'
    BY <1>1, <1>2, <1>3 DEF Kept, Unrouted, AnswersOwn, Answered
  <1>5. ASSUME CallsLibrary(c)'
        PROVE  Sent(c)' /\ Routed(c)' /\ Follows(c)' /\ Confirmed(c)'
    <2>1. CallsLibrary(c)
      BY <1>1, <1>5 DEF CallsLibrary
    <2>2. Sent(c)'
      BY <1>1, <1>2 DEF Sent
    <2>3. Routed(c)'
      BY <1>1, <1>3, <2>1 DEF Kept, Routed
    <2>4. Follows(c)'
      <3>1. method[c] \in SeasonMethods => todo'[c] # <<>>
        BY <1>1, <1>2, OneServiceCall
      <3>2. method[c] = "UpsertScoreMultiLeaderboards" => Len(calls) = Len(Wanted(call[c]))
        BY <2>1, WritersMean DEF Means, SeasonMethods, WriteMethods
      <3>3. /\ calls \in Seq(CallsFor(method[c], msg[c]))
            /\ \A i \in 1 .. Len(calls) : 0 + i = i
        BY <1>1, <1>2, CallsOfMessage
      <3>4. Made(c)' = 0
        BY <1>1, <1>2 DEF Made
      <3> HIDE DEF calls
      <3>5. 0 + Len(calls) = Len(calls)
        BY <3>3, LenProperties
      <3>6. /\ carried[c] \in Seq(Listed(Wanted(call[c])))
            /\ IsPrefix(carried[c], Wanted(call[c]))
        BY <1>3, <2>1 DEF Kept, Follows
      <3> QED BY <1>1, <3>1, <3>2, <3>3, <3>4, <3>5, <3>6 DEF Follows, calls
    <2>5. Confirmed(c)'
      BY <1>1, <1>3, <2>1 DEF Kept, Confirmed
    <2> QED BY <2>2, <2>3, <2>4, <2>5
  <1> QED BY <1>4, <1>5 DEF Kept

\* An error confirms nothing, and neither does what is served for a panic.
LEMMA ErrorIsKept ==
    ASSUME CallInv, FollowInv, NEW c \in Callers, server[c] \notin {"idle", "replied"},
           NEW status \in {400, 401, 404, 405, 500}, Reply(c, status, Nil),
           UNCHANGED <<callerVars, method, msg, carried>>
    PROVE  Kept(c)'
  <1>1. status \in Statuses \ {0, 301} /\ status # 200
    BY DEF Statuses
  <1> QED BY <1>1, RepliesAreKept

LEMMA FailureIsKept ==
    ASSUME CallInv, FollowInv, NEW c \in Callers, server[c] \in InService, NEW error,
           Fails(c, error), UNCHANGED carried
    PROVE  Kept(c)'
  <1>1. HTTPStatusFromCode[CodeOf(method[c], error)] \in {400, 404, 500}
    BY StatusOfError
  <1> QED BY <1>1, ErrorIsKept DEF Fails, handlerVars, InService

LEMMA PanicIsKept ==
    ASSUME CallInv, FollowInv, NEW c \in Callers, server[c] \notin {"idle", "replied"},
           method[c] \in WriteMethods, Recover(c), UNCHANGED carried
    PROVE  Kept(c)'
  <1>1. /\ Reply(c, 200, EmptyResponse[method[c]]) /\ 200 \in Statuses \ {0, 301}
        /\ UNCHANGED <<callerVars, method, msg, carried>>
    BY DEF Recover, HTTPStatusFromCode, Statuses, handlerVars
  <1>2. ~Confirms(call[c], Result(call[c], EmptyResponse[method[c]]))
    BY PanicConfirmsNothing
  <1> QED BY <1>1, <1>2, RepliesAreKept

LEMMA FrontIsKept ==
    ASSUME CallInv, ReachInv, FollowInv, NEW c \in Callers,
           Redirect(c) \/ ServePage(c) \/ EnterGateway(c) \/ Unauthorized(c)
             \/ PanicWithoutBody(c) \/ Refuse(c) \/ PingFails(c) \/ Begin(c)
    PROVE  Kept(c)'
  <1> USE DEF handlerVars, worldVars
  <1>1. CASE Redirect(c)
    BY <1>1, RedirectIsKept
  <1>2. CASE ServePage(c)
    <2>1. ~Confirms(call[c], Result(call[c], [Text |-> "WORKING"]))
      BY PageConfirmsNothing
    <2>2. 200 \in Statuses \ {0, 301}
      BY DEF Statuses
    <2> QED BY <1>2, <2>1, <2>2, RepliesAreKept DEF ServePage
  <1>3. CASE EnterGateway(c)
    BY <1>3, EnterGatewayIsKept
  <1>4. CASE Unauthorized(c)
    BY <1>4, ErrorIsKept DEF Unauthorized, HTTPStatusFromCode
  <1>5. CASE PanicWithoutBody(c)
    <2>1. method[c] \in WriteMethods
      BY <1>5 DEF PanicWithoutBody, LacksBody, BodyField, WriteMethods, SeasonMethods
    <2> QED BY <1>5, <2>1, PanicIsKept DEF PanicWithoutBody
  <1>6. CASE Refuse(c)
    BY <1>6, ErrorIsKept DEF Refuse, HTTPStatusFromCode
  <1>7. CASE PingFails(c)
    BY <1>7, ErrorIsKept DEF PingFails
  <1>8. CASE Begin(c)
    BY <1>8, BeginIsKept
  <1> QED BY <1>1, <1>2, <1>3, <1>4, <1>5, <1>6, <1>7, <1>8

LEMMA RespondIsKept ==
    ASSUME CallInv, ReachInv, FollowInv, NEW c \in Callers, Respond(c)
    PROVE  Kept(c)'
  <1> DEFINE json == Response(method[c], msg[c], results[c])
  <1>1. /\ server[c] = "serving" /\ todo[c] = <<>> /\ Reply(c, 200, json)
        /\ 200 \in Statuses \ {0, 301} /\ UNCHANGED <<callerVars, method, msg, carried>>
    BY DEF Respond, HTTPStatusFromCode, Statuses, handlerVars, worldVars
  <1>2. /\ method[c] \in Methods /\ msg[c] \in RequestOf[method[c]]
        /\ ~LacksBody(method[c], msg[c])
    BY <1>1 DEF CallInv, Holds, FollowsMessage, InService
  <1>3. Kept(c)
    BY DEF FollowInv
  <1> HIDE DEF json
  <1>4. ASSUME CallsLibrary(c), Confirms(call[c], Result(call[c], json))
        PROVE  carried[c] = Wanted(call[c])
    <2>1. CASE Strays(call[c], method[c], msg[c])
      <3>1. ASSUME method[c] = "GetMember"
            PROVE  results[c][1][1].PublicID = msg[c].MemberPublicId
        <4>1. todo[c] # ServiceCalls(method[c], msg[c])
          BY <1>1, <1>2, <3>1, OneServiceCall
        <4> QED BY <1>1, <1>3, <3>1, <4>1 DEF Kept, AnswersOwn, InService
      <3> QED BY <1>2, <1>4, <2>1, <3>1, StrayConfirmsNothing DEF json
    <2>2. CASE call[c].fn \in Writers /\ Means(call[c], method[c], msg[c])
      <3>1. method[c] \in WriteMethods
        BY <2>2 DEF Means, Writers, HandlerOf, WriteMethods, SeasonMethods
      <3>2. CASE method[c] \in SeasonMethods
        BY <1>1, <1>3, <1>4, <3>2 DEF Kept, Follows, InService
      <3>3. CASE method[c] = "UpsertScoreMultiLeaderboards"
        <4> DEFINE wanted == Wanted(call[c])
        <4>1. /\ Len(carried[c]) + Len(todo[c]) = Len(wanted)
              /\ carried[c] \in Seq(Listed(wanted)) /\ IsPrefix(carried[c], wanted)
          BY <1>1, <1>3, <1>4, <3>3 DEF Kept, Follows, Made, InService
        <4>2. wanted \in Seq(Listed(wanted))
          BY <1>4, LibraryCalls, WantedIsList
        <4> HIDE DEF wanted
        <4>3. Len(carried[c]) \in Nat /\ Len(todo[c]) = 0
          BY <1>1, <4>1, EmptySeq, LenProperties
        <4>4. Len(carried[c]) = Len(wanted)
          BY <4>1, <4>3
        <4>5. carried[c] = wanted
          BY <4>1, <4>2, <4>4, WholePrefix
        <4> QED BY <4>5 DEF wanted
      <3> QED BY <3>1, <3>2, <3>3 DEF WriteMethods
    <2> QED BY <1>3, <1>4, <2>1, <2>2 DEF Kept, Routed
  <1> QED BY <1>1, <1>4, RepliesAreKept DEF json

LEMMA ReadIsKept ==
    ASSUME CallInv, FollowInv, NEW c \in Callers, Read(c) \/ RemoveScores(c)
    PROVE  Kept(c)'
  <1>1. /\ server[c] = "serving" /\ todo[c] # <<>> /\ UNCHANGED carried
        /\ NextCall(c).service \notin WriteServices
    BY DEF Read, RemoveScores, AtCall, Reads, WriteServices, worldVars
  <1>2. method[c] \notin WriteMethods
    BY <1>1, NextCallWrites DEF CallInv, InService
  <1>3. ASSUME method[c] = "GetMember"
        PROVE  NextCall(c) = Lookup("GetMember", msg[c].LeaderboardId, <<msg[c].MemberPublicId>>,
                                    msg[c].Order)
    <2>1. todo[c] = ServiceCalls(method[c], msg[c])
      BY <1>1, <1>3 DEF FollowInv, Kept, AnswersOwn, InService
    <2> QED BY <1>3, <2>1 DEF ServiceCalls, NextCall
  <1>4. CASE RemoveScores(c)
    <2>1. method[c] # "GetMember"
      BY <1>3, <1>4 DEF RemoveScores, AtCall, Lookup
    <2> QED BY <1>1, <1>2, <1>4, <2>1, GivesAreKept DEF RemoveScores, InService
  <1>5. CASE Read(c)
    <2> DEFINE b == board[NextCall(c).leaderboard]
               value == ReadResult(b, NextCall(c))
    <2>1. ASSUME method[c] = "GetMember" PROVE value[1].PublicID = msg[c].MemberPublicId
      <3>1. NextCall(c).service = "GetMember" /\ NextCall(c).members[1] = msg[c].MemberPublicId
        BY <1>3, <2>1 DEF Lookup
      <3>2. value = <<ModelMember(b, NextCall(c).order, NextCall(c).members[1])>>
        BY <3>1 DEF ReadResult
      <3> HIDE DEF value
      <3>3. value[1] = ModelMember(b, NextCall(c).order, NextCall(c).members[1])
        BY <3>2
      <3> QED BY <3>1, <3>3 DEF ModelMember
    <2> HIDE DEF b, value
    <2>2. CASE Gives(c, value) /\ UNCHANGED <<callerVars, method, msg, previous, answer, errors>>
      BY <1>1, <1>2, <2>1, <2>2, GivesAreKept DEF InService
    <2>3. ASSUME NEW error, Fails(c, error) PROVE Kept(c)'
      BY <1>1, <2>3, FailureIsKept DEF InService
    <2> QED BY <1>5, <2>2, <2>3 DEF Read, b, value
  <1> QED BY <1>4, <1>5

LEMMA RanksAreKept ==
    ASSUME CallInv, FollowInv, NEW c \in Callers, ReadPreviousRanks(c)
    PROVE  Kept(c)'
  <1>1. /\ server[c] = "serving" /\ todo[c] # <<>> /\ server'[c] = "ranked"
        /\ NextCall(c).service \in WriteServices
        /\ UNCHANGED <<caller, call, http, result, method, msg, todo, results, answer, carried>>
    BY DEF ReadPreviousRanks, AtCall, WriteServices, CallInv, Domains, callerVars, worldVars
  <1>2. method[c] \in WriteMethods /\ answer[c].status = 0
    BY <1>1, NextCallWrites DEF CallInv, InService, Holds, AnswerFits
  <1>3. Kept(c)
    BY DEF FollowInv
  <1>4. Unrouted(c)' /\ AnswersOwn(c)' /\ Answered(c)'
    BY <1>1, <1>2, <1>3
    DEF Kept, Unrouted, AnswersOwn, Answered, WriteMethods, SeasonMethods
  <1>5. ASSUME CallsLibrary(c)'
        PROVE  Sent(c)' /\ Routed(c)' /\ Follows(c)' /\ Confirmed(c)'
    <2>1. CallsLibrary(c)
      BY <1>1, <1>5 DEF CallsLibrary
    <2>2. Sent(c)'
      BY <1>1, <1>2 DEF Sent
    <2>3. Routed(c)'
      BY <1>1, <1>3, <2>1 DEF Kept, Routed
    <2>4. Made(c)' = Made(c)
      BY <1>1 DEF Made
    <2>5. Follows(c)'
      BY <1>1, <1>3, <2>1, <2>4 DEF Kept, Follows, InService
    <2>6. Confirmed(c)'
      BY <1>1, <1>3, <2>1 DEF Kept, Confirmed
    <2> QED BY <2>2, <2>3, <2>5, <2>6
  <1> QED BY <1>4, <1>5 DEF Kept

LEMMA ServiceIsKept ==
    ASSUME CallInv, ReachInv, FollowInv, NEW c \in Callers,
           Respond(c) \/ Read(c) \/ RemoveScores(c) \/ ReadPreviousRanks(c) \/ WriteScores(c)
             \/ ReadWritten(c) \/ CommandFails(c) \/ WriteAgain(c)
    PROVE  Kept(c)'
  <1>1. CASE Respond(c)
    BY <1>1, RespondIsKept
  <1>2. CASE Read(c) \/ RemoveScores(c)
    BY <1>2, ReadIsKept
  <1>3. CASE ReadPreviousRanks(c)
    BY <1>3, RanksAreKept
  <1>4. CASE WriteScores(c)
    BY <1>4, WriteIsKept
  <1>5. CASE ReadWritten(c)
    <2>1. /\ server[c] = "written" /\ todo[c] # <<>> /\ method[c] \in WriteMethods
          /\ UNCHANGED carried
      BY <1>5 DEF ReadWritten, CallInv, Holds, FollowsMessage, worldVars
    <2>2. CASE Recover(c)
      BY <2>1, <2>2, PanicIsKept
    <2>3. ASSUME NEW error, Fails(c, error) PROVE Kept(c)'
      BY <2>1, <2>3, FailureIsKept DEF InService
    <2>4. ASSUME NEW value, Gives(c, value), UNCHANGED <<callerVars, method, msg, answer>>
          PROVE  Kept(c)'
      <3>1. method[c] # "GetMember"
        BY <2>1 DEF WriteMethods, SeasonMethods
      <3> QED BY <2>1, <2>4, <3>1, GivesAreKept DEF InService
    <2> QED BY <1>5, <2>2, <2>3, <2>4 DEF ReadWritten
  <1>6. CASE CommandFails(c)
    <2>1. server[c] \in InService
      BY <1>6 DEF CommandFails, AtRedis, InService
    <2> QED BY <1>6, <2>1, FailureIsKept DEF CommandFails
  <1>7. CASE WriteAgain(c)
    <2>1. Alike(c)
      BY <1>7 DEF WriteAgain, Alike, Untouched, callerVars, handlerVars
    <2> QED BY <2>1, AlikeIsKept DEF FollowInv
  <1> QED BY <1>1, <1>2, <1>3, <1>4, <1>5, <1>6, <1>7

LEMMA CallersAreKept ==
    ASSUME CallInv, ReachInv, FollowInv, NEW c \in Callers,
           Ask(c) \/ GiveUp(c) \/ Deliver(c) \/ FollowRedirection(c)
    PROVE  Kept(c)'
  <1> USE DEF CallInv, Domains, ReachInv, ReachDomains, FollowDomains, handlerVars, worldVars
  <1>1. Kept(c) /\ Holds(c) /\ Reached(c)
    BY DEF FollowInv
  <1>2. CASE Ask(c)
    <2>1. PICK w \in Wishes[c] : call' = [call EXCEPT ![c] = w]
                                 /\ http' = [http EXCEPT ![c] = RequestOfCall(w)]
      BY <1>2 DEF Ask
    <2>2. /\ server[c] = "idle" /\ caller'[c] = "waiting" /\ server'[c] = "received"
          /\ call'[c] = w /\ http'[c] = RequestOfCall(w)
          /\ UNCHANGED <<result, method, msg, results, answer, carried>>
      BY <1>1, <1>2, <2>1 DEF Ask, Holds, WrittenSoFar
    <2>3. /\ answer[c].status = 0 /\ carried[c] = <<>> /\ result[c] = Nil
          /\ method[c] = "none" /\ results[c] = <<>>
      BY <1>1, <2>2 DEF Holds, WrittenSoFar, AnswerFits, Kept, Unrouted
    <2>4. Unrouted(c)' /\ AnswersOwn(c)' /\ Answered(c)'
      BY <2>2, <2>3 DEF Unrouted, AnswersOwn, Answered, InService
    <2>5. ASSUME CallsLibrary(c)'
          PROVE  Sent(c)' /\ Routed(c)' /\ Follows(c)' /\ Confirmed(c)'
      <3>1. OfLibrary(w) /\ RequestOfCall(w) = Build(w)
        BY <2>2, <2>5, WishesAssumption DEF CallsLibrary, OfLibrary, RequestOfCall
      <3>2. Sent(c)'
        BY <2>2, <2>3, <3>1, LibrarySends DEF Sent
      <3>3. Routed(c)'
        BY <2>2, <2>3 DEF Routed, Strays, WriteMethods, SeasonMethods
      <3>4. Follows(c)'
        <4>1. Wanted(w) \in Seq(Listed(Wanted(w)))
          BY <3>1, WantedIsList
        <4>2. <<>> \in Seq(Listed(Wanted(w))) /\ IsPrefix(<<>>, Wanted(w))
          BY <4>1, EmptyIsPrefix, EmptySeq
        <4> QED BY <2>2, <2>3, <4>2 DEF Follows, InService
      <3>5. Confirmed(c)'
        BY <2>2, <2>3 DEF Confirmed
      <3> QED BY <3>2, <3>3, <3>4, <3>5
    <2> QED BY <2>4, <2>5 DEF Kept
  <1>3. CASE GiveUp(c)
    <2>1. /\ caller[c] = "waiting" /\ caller'[c] = "gaveUp"
          /\ UNCHANGED <<call, http, result, server, method, msg, todo, results, answer, carried>>
      BY <1>3 DEF GiveUp
    <2> QED BY <1>1, <2>1 DEF Kept, Unrouted, AnswersOwn, Answered, CallsLibrary, Sent, Routed,
                              Follows, Made, Confirmed
  <1>4. CASE Deliver(c)
    <2> DEFINE given == IF answer[c].status > 399 \/ call[c].fn = "request" THEN Nil
                        ELSE Result(call[c], answer[c].json)
    <2>1. /\ server[c] = "replied" /\ answer[c].status # 301
          /\ caller'[c] = "answered" /\ result'[c] = given
          /\ UNCHANGED <<call, http, server, method, msg, todo, results, answer, carried>>
      BY <1>4 DEF Deliver, FollowInv
    <2>2. answer[c].status \in {200, 400, 401, 404, 405, 500}
      BY <1>1, <2>1 DEF Kept, Answered, Statuses
    <2>3. given # Nil => answer[c].status = 200 /\ given = Result(call[c], answer[c].json)
      BY <2>2
    <2> HIDE DEF given
    <2>4. Unrouted(c)' /\ AnswersOwn(c)' /\ Answered(c)'
      BY <1>1, <2>1 DEF Kept, Unrouted, AnswersOwn, Answered, InService
    <2>5. ASSUME CallsLibrary(c)'
          PROVE  Sent(c)' /\ Routed(c)' /\ Follows(c)' /\ Confirmed(c)'
      <3>1. CallsLibrary(c)
        BY <2>1, <2>5 DEF CallsLibrary
      <3>2. Sent(c)' /\ Routed(c)'
        BY <1>1, <2>1, <3>1 DEF Kept, Sent, Routed
      <3>3. Follows(c)'
        BY <1>1, <2>1, <3>1 DEF Kept, Follows, InService
      <3>4. Confirmed(c)'
        BY <1>1, <2>1, <2>3, <3>1 DEF Kept, Confirmed
      <3> QED BY <3>2, <3>3, <3>4
    <2> QED BY <2>4, <2>5 DEF Kept
  <1>5. CASE FollowRedirection(c)
    <2>1. /\ caller[c] = "waiting" /\ server[c] = "replied" /\ answer[c].status = 301
          /\ server'[c] = "received" /\ http'[c] = Redirected(http[c]) /\ answer'[c].status = 0
          /\ UNCHANGED <<caller, call, result, method, msg, results, carried>>
      BY <1>5 DEF FollowRedirection, NoAnswer
    <2>2. Unrouted(c)' /\ AnswersOwn(c)' /\ Answered(c)'
      BY <1>1, <2>1 DEF Kept, Unrouted, AnswersOwn, Answered, InService
    <2>3. ASSUME CallsLibrary(c)'
          PROVE  Sent(c)' /\ Routed(c)' /\ Follows(c)' /\ Confirmed(c)'
      <3>1. CallsLibrary(c) /\ OfLibrary(call[c])
        BY <2>1, <2>3, LibraryCalls DEF CallsLibrary
      <3>2. Sent(c)'
        BY <1>1, <2>1, <3>1, RedirectedIsHarmless DEF Kept, Sent
      <3>3. Routed(c)'
        BY <1>1, <2>1, <3>1 DEF Kept, Routed
      <3>4. Follows(c)'
        BY <1>1, <2>1, <3>1 DEF Kept, Follows, InService
      <3>5. Confirmed(c)'
        BY <1>1, <2>1, <3>1 DEF Kept, Confirmed
      <3> QED BY <3>2, <3>3, <3>4, <3>5
    <2> QED BY <2>2, <2>3 DEF Kept
  <1> QED BY <1>2, <1>3, <1>4, <1>5

LEMMA FollowInvNext == CallInv /\ ReachInv /\ FollowInv /\ [Next]_vars => FollowInv'
  <1> SUFFICES ASSUME CallInv, ReachInv, FollowInv, [Next]_vars PROVE FollowInv'
    OBVIOUS
  <1>1. ASSUME NEW c \in Callers, Ask(c) \/ GiveUp(c) \/ ServerStep(c) \/ Receive(c)
        PROVE  FollowInv'
    <2>1. FollowDomains' /\ \A d \in Callers \ {c} : Kept(d)'
      BY <1>1, OthersAreKept
    <2>2. Kept(c)'
      BY <1>1, FrontIsKept, ServiceIsKept, CallersAreKept DEF ServerStep, Receive
    <2> QED BY <2>1, <2>2 DEF FollowInv
  <1>2. CASE UNCHANGED vars
    <2>1. \A d \in Callers : Alike(d)
      BY <1>2 DEF Alike, Untouched, vars, callerVars, handlerVars, worldVars
    <2> QED BY <1>2, <2>1, AlikeIsKept
             DEF FollowInv, FollowDomains, vars, callerVars, handlerVars
  <1> QED BY <1>1, <1>2 DEF Next, Rest

\* Whoever else calls, gives up, fails or panics, what the server writes for a call
\* of client/client.go is what its caller wanted, in that order and from the first
\* on, and all of it once the function has returned a result that says so, also
\* where a redirection made another request of it.
THEOREM WritesFollowTheCallAlways == Spec => []WritesFollowTheCall
  <1>1. CallInv /\ ReachInv /\ FollowInv => WritesFollowTheCall
    BY DEF FollowInv, Kept, Unrouted, CallsLibrary, Follows, Confirmed, WritesFollowTheCall
  <1> QED BY <1>1, CallInvInit, CallInvNext, ReachInvInit, ReachInvNext, FollowInvInit,
              FollowInvNext, PTL DEF Spec

=============================================================================
