-------------------------- MODULE LeaderboardService --------------------------
(***************************************************************************)
(* What one call of the leaderboard service gives on a board that holds    *)
(* still, for callers that look at whole calls.  ScoreWrites and ScoreReads *)
(* have the same calls command by command, on a board that changes.        *)
(*                                                                         *)
(* A board b is a function from names to scores, None for no score.  A     *)
(* call is one of those that ApiHandlers makes.  Deadlines are Podium's;   *)
(* ExpireAt stays 0 here.                                                  *)
(***************************************************************************)
EXTENDS ApiHandlers

CONSTANTS
    MemberNames,   \* the members' public ids, in the order Redis has names in
    None           \* no score

ASSUME MemberNamesAssumption ==
    /\ MemberNames \in Seq(STRING) /\ None \notin Int
    /\ \A i, j \in DOMAIN MemberNames : MemberNames[i] = MemberNames[j] => i = j

PublicIDs == {MemberNames[i] : i \in DOMAIN MemberNames}

NameOrder(m) == CHOOSE i \in DOMAIN MemberNames : MemberNames[i] = m

EmptyBoard == [m \in PublicIDs |-> None]

Entries(b) == {m \in DOMAIN b : b[m] # None}

ZCard(b) == Cardinality(Entries(b))

Before(b, order, m, n) ==
    \/ order = "asc" /\ (b[m] < b[n] \/ (b[m] = b[n] /\ NameOrder(m) < NameOrder(n)))
    \/ order = "desc" /\ (b[m] > b[n] \/ (b[m] = b[n] /\ NameOrder(m) > NameOrder(n)))

Position(b, order, m) == Cardinality({n \in Entries(b) : Before(b, order, n, m)})

ModelMember(b, order, m) ==
    [PublicID |-> m, Score |-> b[m], Rank |-> Position(b, order, m) + 1,
     PreviousRank |-> 0, ExpireAt |-> 0]

\* In the order they were asked for; nothing for a name that is not on the board.
DatabaseMembers(b, order, names) ==
    LET found == SelectSeq(names, LAMBDA m : m \in Entries(b))
    IN  [i \in DOMAIN found |-> ModelMember(b, order, found[i])]

ByRank(members) == SortSeq(members, LAMBDA x, y : x.Rank < y.Rank)

\* Positions below 0 are counted from the end, and the ranks from start on.
OrderedMembers(b, order, index) ==
    LET fromEnd(i) == IF i < 0 THEN ZCard(b) + i ELSE i
        first == AtLeast(0, fromEnd(index.Start))
        inside == {m \in Entries(b) : Position(b, order, m) \in first .. fromEnd(index.Stop)}
        page == SetToSortSeq(inside, LAMBDA m, n : Before(b, order, m, n))
    IN  [i \in DOMAIN page |->
            [ModelMember(b, order, page[i]) EXCEPT !.Rank = index.Start + i]]

\* The rank about which a page is wanted: a member that is not there is behind
\* the last.
RankOrLast(b, order, m) ==
    IF m \in Entries(b) THEN Position(b, order, m) + 1 ELSE ZCard(b) + 1

Around(b, call, m) ==
    OrderedMembers(b, call.order,
        CalculateIndexesAroundMemberRank(ZCard(b), RankOrLast(b, call.order, m), call.pageSize))

\* The highest of the scores that are no higher, or "" if there is none.
ClosestTo(b, score) ==
    LET below == {m \in Entries(b) : b[m] <= score}
    IN  IF below = {} THEN ""
        ELSE CHOOSE m \in below : \A n \in below : n = m \/ Before(b, "desc", m, n)

Leaders(b, call) ==
    IF ValidPage(ZCard(b), call.pageSize, call.page)
    THEN OrderedMembers(b, call.order, GetIndexesByPage(call.pageSize, call.page))
    ELSE <<>>

-----------------------------------------------------------------------------
(* Calls that read                                                         *)

Reads == {"GetMember", "GetRank", "GetMembers", "GetLeaders", "GetAroundMe",
          "GetAroundScore", "GetTopPercentage", "TotalMembers"}

\* The error of a call that reads, or "none".
ReadError(b, call) ==
    CASE /\ call.service \in {"GetMember", "GetRank"}
         /\ call.members[1] \notin Entries(b) -> "MemberNotFound"
      [] /\ call.service = "GetAroundMe"
         /\ call.member \notin Entries(b) /\ ~call.getLastIfNotFound -> "MemberNotFound"
      [] /\ call.service = "GetTopPercentage"
         /\ call.percentage \notin 1 .. 100 -> "Percentage"
      [] OTHER -> "none"

\* What it gives without one.
ReadResult(b, call) ==
    CASE call.service \in {"GetMember", "GetRank"} ->
            <<ModelMember(b, call.order, call.members[1])>>
      [] call.service = "GetMembers" -> ByRank(DatabaseMembers(b, call.order, call.members))
      [] call.service = "GetLeaders" -> Leaders(b, call)
      [] call.service = "GetAroundMe" -> Around(b, call, call.member)
      [] call.service = "GetAroundScore" -> Around(b, call, ClosestTo(b, call.score))
      [] call.service = "GetTopPercentage" ->
            OrderedMembers(b, call.order, GetTopPercentageIndexes(ZCard(b), call.percentage))
      [] call.service = "TotalMembers" -> ZCard(b)

-----------------------------------------------------------------------------
(* Calls that write                                                        *)

\* The last of several scores of one member counts.
LastScoreOf(scores, m) ==
    scores[CHOOSE i \in DOMAIN scores :
        /\ scores[i].PublicID = m
        /\ \A j \in DOMAIN scores : scores[j].PublicID = m => j <= i].Score

\* ZADD
Persisted(b, scores) ==
    [m \in DOMAIN b |->
        IF \E i \in DOMAIN scores : scores[i].PublicID = m THEN LastScoreOf(scores, m) ELSE b[m]]

\* ZINCRBY
Incremented(b, scores) ==
    LET m == scores[1].PublicID
    IN  [b EXCEPT ![m] = IF @ = None THEN scores[1].Score ELSE @ + scores[1].Score]

\* Mutant of Written: an increment is written as the score.
WrittenOver(b, call) == Persisted(b, call.scores)

Written(b, call) ==
    IF call.service = "IncrementMemberScore" THEN Incremented(b, call.scores)
                                             ELSE Persisted(b, call.scores)

\* ZREM, DEL
Without(b, call) ==
    [m \in DOMAIN b |->
        IF call.service = "RemoveLeaderboard" \/ m \in ToSet(call.members) THEN None ELSE b[m]]

\* The ranks the members had, -1 for one that was not there.
PreviousRanks(b, scores) ==
    [i \in DOMAIN scores |->
        IF scores[i].PublicID \in Entries(b)
        THEN Position(b, "desc", scores[i].PublicID) + 1 ELSE -1]

\* The members that were written, as they are now.
MembersValues(b, scores, previous) ==
    [i \in DOMAIN scores |->
        [ModelMember(b, "desc", scores[i].PublicID) EXCEPT !.PreviousRank = previous[i]]]

=============================================================================
