------------------------------- MODULE MCPodium -------------------------------
(* Small instances of Podium for TLC.                                      *)
EXTENDS PodiumClaims, TLC

CONSTANTS b1, b2, m1, m2, r1, r2, r3, w1, w2

MCSymmetry == Permutations(Members) \cup Permutations(Requests) \cup Permutations(Workers)

\* No seasons; one season, beside a name that denotes no period.
NoSeason == [l \in Boards |-> None]
BadAndSeason == [l \in Boards |-> IF l = b1 THEN 1 ELSE Invalid]

Upserts(members, prevRanks, ttls) ==
    [op : {"upsert"}, board : Boards, members : {{m} : m \in members},
     prevRank : prevRanks, scoreTTL : ttls]
Bulks(prevRanks, ttls) ==
    [op : {"bulk"}, board : Boards, members : {Members},
     prevRank : prevRanks, scoreTTL : ttls]
Increments(ttls) ==
    [op : {"increment"}, board : Boards, members : {{m} : m \in Members},
     prevRank : {FALSE}, scoreTTL : ttls]

ShortJobs == Upserts(Members, {FALSE}, {0, 1})
TimedJobs == Upserts(Members, {FALSE}, {-1, 0, 2}) \cup Increments({0})
DueJobs == {j \in Bulks({FALSE}, {1}) : j.board = b1} \cup Upserts({m1}, {FALSE}, {0, 2})
SeasonJobs == Bulks({FALSE}, {0, 1}) \cup Upserts(Members, {FALSE}, {0}) \cup Increments({0})
RankedJobs == Bulks({TRUE}, {0, 1}) \cup Upserts(Members, {TRUE}, {0}) \cup Increments({1})

=============================================================================
