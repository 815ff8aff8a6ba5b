------------------------------ MODULE ScoreReads ------------------------------
(***************************************************************************)
(* The API calls that read several members of a leaderboard, one Redis     *)
(* command per step, while other calls write to it.                        *)
(*                                                                         *)
(*   around a member    ZRANK (ZCARD, if absent), ZCARD, ZRANGE            *)
(*   around a score     ZREVRANGEBYSCORE, then as around a member          *)
(*   top, percentage    ZCARD, ZRANGE                                      *)
(*   members            ZSCORE, ZRANK of each                              *)
(*                                                                         *)
(* Readers change nothing, so one call is enough.  What writers, removers  *)
(* and workers do to the board is one ZADD, ZINCRBY, ZREM or DEL at a time.*)
(* Redis orders equal scores by name; Members are numbers in that order.   *)
(***************************************************************************)
EXTENDS Paging, FiniteSets

CONSTANTS
    Members,      \* member public ids, as numbers in the order of their names
    ScoreValues,  \* the numbers that are scores
    None,         \* no member, no score
    Calls,        \* the calls a client may make
    MaxWrites     \* bound on the writes while the call lasts

ASSUME NamesAssumption == Members \subseteq Nat /\ IsFiniteSet(Members) /\ None \notin Members
ASSUME ValuesAssumption == ScoreValues \subseteq Int /\ None \notin Int /\ None \notin Calls
ASSUME ReadingAssumption == None \notin [member : Members, score : ScoreValues]
ASSUME MaxWritesAssumption == MaxWrites \in Nat

VARIABLES
    board,    \* board[m]: the score of m
    writes,   \* how many writes there were
    call,     \* the call
    pc,       \* its next command, and where it stopped
    outcome,  \* how it ended
    member,   \* the member whose surroundings it wants
    rank,     \* that member's rank
    total,    \* what ZCARD said
    index,    \* the positions to ask for
    toRead,   \* members GetMembers has still to look up
    reading,  \* the one whose score it found, and that score
    answer,   \* the members it answers with
    steady    \* history: the board has not changed since the call began

callVars == <<call, pc, outcome, member, rank, total, index, toRead, reading, answer>>
vars == <<board, writes, callVars, steady>>

Orders == {"asc", "desc"}

Ops == {"around", "score", "top", "percentage", "members"}

\* The calls with a page size.
Paged == {"around", "score", "top"}

\* What each handler asks Redis first.
FirstStep == [around |-> "rank", score |-> "closest", top |-> "total",
              percentage |-> "total", members |-> "read"]

ASSUME CallsAssumption ==
    Calls \subseteq [op : Ops, order : Orders, pageSize : Int, page : Nat \ {0},
                    amount : 1..100, score : Int, members : SUBSET Members,
                    getLastIfNotFound : BOOLEAN]

-----------------------------------------------------------------------------
(* The board as Redis orders it                                            *)

Entries == {m \in Members : board[m] # None}

ZCard == Cardinality(Entries)

\* m comes before n.
Before(order, m, n) ==
    \/ order = "asc" /\ (board[m] < board[n] \/ (board[m] = board[n] /\ m < n))
    \/ order = "desc" /\ (board[m] > board[n] \/ (board[m] = board[n] /\ m > n))

\* ZRANK and ZREVRANK of an entry.
Position(order, m) == Cardinality({n \in Entries : Before(order, n, m)})

\* ZRANGE and ZREVRANGE: a negative position is counted from the end.
FromEnd(i) == IF i < 0 THEN ZCard + i ELSE i

ZRange(order, start, stop) ==
    {m \in Entries : AtLeast(0, FromEnd(start)) <= Position(order, m)
                     /\ Position(order, m) <= FromEnd(stop)}

\* GetOrderedMembers numbers what it got from start on.
GetOrderedMembers(order, start, stop) ==
    {[member |-> m, score |-> board[m],
      rank |-> start + (Position(order, m) - AtLeast(0, FromEnd(start))) + 1] :
        m \in ZRange(order, start, stop)}

\* Mutant of WithClosestScore: the first in ascending order.
WithLowestScore(score) ==
    {m \in Entries : /\ board[m] <= score
                     /\ \A n \in Entries : board[n] <= score => n = m \/ Before("asc", m, n)}

\* ZREVRANGEBYSCORE score -inf LIMIT 0 1
WithClosestScore(score) ==
    {m \in Entries : /\ board[m] <= score
                     /\ \A n \in Entries : board[n] <= score => n = m \/ Before("desc", m, n)}

-----------------------------------------------------------------------------
Init ==
    /\ board \in [Members -> ScoreValues \cup {None}]
    /\ writes = 0
    /\ call = None
    /\ pc = "idle"
    /\ outcome = "none"
    /\ member = None
    /\ rank = 0
    /\ total = 0
    /\ index = [Start |-> 0, Stop |-> 0]
    /\ toRead = {}
    /\ reading = None
    /\ answer = {}
    /\ steady = TRUE

Steps == {"idle", "closest", "rank", "last", "total", "range", "read", "done"}
Outcomes == {"none", "ok", "invalid", "notFound", "error"}
Row == [member : Members, score : ScoreValues, rank : Int]

\* Every variable keeps the shape the code's types give it.
TypeOK ==
    /\ board \in [Members -> ScoreValues \cup {None}]
    /\ writes \in 0..MaxWrites
    /\ call \in Calls \cup {None}
    /\ pc \in Steps
    /\ outcome \in Outcomes
    /\ member \in Members \cup {None}
    /\ rank \in Nat
    /\ total \in Nat
    /\ index \in Index
    /\ toRead \subseteq Members
    /\ reading \in [member : Members, score : ScoreValues] \cup {None}
    /\ answer \subseteq Row
    /\ steady \in BOOLEAN
    /\ call = None <=> pc = "idle"

PageSize == GetPageSize(call.pageSize)

At(step) == pc = step /\ outcome = "none"

End(how) == pc' = "done" /\ outcome' = how

-----------------------------------------------------------------------------
(* The call                                                                *)

\* The handler checks the request and begins with its first command.
Start ==
    /\ pc = "idle"
    /\ \E c \in Calls :
          /\ call' = c
          /\ IF c.op \in Paged /\ GetPageSize(c.pageSize) > MaxReturnedMembers
             THEN End("invalid")
             ELSE pc' = FirstStep[c.op] /\ UNCHANGED outcome
          /\ IF c.op = "around" THEN member' \in c.members ELSE member' = None
          /\ toRead' = IF c.op = "members" THEN c.members ELSE {}
    /\ UNCHANGED <<board, writes, rank, total, index, reading, answer, steady>>

\* With no such score the member is "", which is on no board.
GetMemberIDWithClosestScore ==
    /\ At("closest")
    /\ IF WithClosestScore(call.score) = {}
       THEN member' = None
       ELSE member' \in WithClosestScore(call.score)
    /\ pc' = "rank"
    /\ UNCHANGED <<board, writes, call, outcome, rank, total, index, toRead, reading, answer,
                   steady>>

\* Mutant of GetRank: -1, the rank that comes with an error, is taken for a rank.
GetRankUnchecked ==
    /\ At("rank")
    /\ rank' = IF member \in Entries THEN Position(call.order, member) + 1 ELSE -1
    /\ pc' = "total"
    /\ UNCHANGED <<board, writes, call, outcome, member, total, index, toRead, reading, answer,
                   steady>>

\* fetchMemberRank; around a score it always goes on with the last rank.
GetRank ==
    /\ At("rank")
    /\ \/ /\ member \in Entries
          /\ rank' = Position(call.order, member) + 1
          /\ pc' = "total" /\ UNCHANGED outcome
       \/ /\ member \notin Entries
          /\ call.op = "score" \/ call.getLastIfNotFound
          /\ pc' = "last" /\ UNCHANGED <<rank, outcome>>
       \/ /\ member \notin Entries
          /\ ~(call.op = "score" \/ call.getLastIfNotFound)
          /\ End("notFound") /\ UNCHANGED rank
    /\ UNCHANGED <<board, writes, call, member, total, index, toRead, reading, answer, steady>>

GetLastRank ==
    /\ At("last")
    /\ rank' = ZCard + 1
    /\ pc' = "total"
    /\ UNCHANGED <<board, writes, call, outcome, member, total, index, toRead, reading, answer,
                   steady>>

\* Every page is cut by the total; a page past the last is answered empty.
GetTotalMembers ==
    /\ At("total")
    /\ total' = ZCard
    /\ \/ /\ call.op \in {"around", "score"}
          /\ index' = CalculateIndexesAroundMemberRank(ZCard, rank, PageSize)
          /\ pc' = "range" /\ UNCHANGED outcome
       \/ /\ call.op = "top" /\ ValidPage(ZCard, PageSize, call.page)
          /\ index' = GetIndexesByPage(PageSize, call.page)
          /\ pc' = "range" /\ UNCHANGED outcome
       \/ /\ call.op = "top" /\ ~ValidPage(ZCard, PageSize, call.page)
          /\ End("ok") /\ UNCHANGED index
       \/ /\ call.op = "percentage"
          /\ index' = GetTopPercentageIndexes(ZCard, call.amount)
          /\ pc' = "range" /\ UNCHANGED outcome
    /\ UNCHANGED <<board, writes, call, member, rank, toRead, reading, answer, steady>>

GetRange ==
    /\ At("range")
    /\ answer' = GetOrderedMembers(call.order, index.Start, index.Stop)
    /\ End("ok")
    /\ UNCHANGED <<board, writes, call, member, rank, total, index, toRead, reading, steady>>

\* GetMembers leaves out the members without a score.
ReadScore ==
    /\ At("read") /\ reading = None
    /\ \E m \in toRead :
          /\ toRead' = toRead \ {m}
          /\ reading' = IF m \in Entries THEN [member |-> m, score |-> board[m]] ELSE None
    /\ UNCHANGED <<board, writes, call, pc, outcome, member, rank, total, index, answer, steady>>

\* Mutant of ReadRank: ranks are numbered as they come.
ReadRankInOrderOfArrival ==
    /\ At("read") /\ reading # None
    /\ reading' = None
    /\ answer' = answer \cup
          {[member |-> reading.member, score |-> reading.score, rank |-> Cardinality(answer) + 1]}
    /\ UNCHANGED <<board, writes, call, pc, outcome, member, rank, total, index, toRead, steady>>

\* A member that has gone since its score was read is an error.
ReadRank ==
    /\ At("read") /\ reading # None
    /\ reading' = None
    /\ IF reading.member \in Entries
       THEN /\ answer' = answer \cup
                  {[member |-> reading.member, score |-> reading.score,
                    rank |-> Position(call.order, reading.member) + 1]}
            /\ UNCHANGED <<pc, outcome>>
       ELSE /\ End("error")
            /\ UNCHANGED answer
    /\ UNCHANGED <<board, writes, call, member, rank, total, index, toRead, steady>>

AllRead ==
    /\ At("read") /\ reading = None /\ toRead = {}
    /\ End("ok")
    /\ UNCHANGED <<board, writes, call, member, rank, total, index, toRead, reading, answer,
                   steady>>

-----------------------------------------------------------------------------
(* The others, while the call lasts: Init stands for what they did before. *)

\* ZADD, with a score for each member of S, and ZINCRBY.
OthersWrite ==
    /\ writes < MaxWrites /\ pc \notin {"idle", "done"}
    /\ \E S \in (SUBSET Members) \ {{}} : \E f \in [S -> ScoreValues] :
          board' = [m \in Members |-> IF m \in S THEN f[m] ELSE board[m]]
    /\ writes' = writes + 1
    /\ steady' = (steady /\ board' = board)
    /\ UNCHANGED callVars

\* ZREM, by a removal or a worker, and with S = Members DEL and key expiry.
OthersRemove ==
    /\ writes < MaxWrites /\ pc \notin {"idle", "done"}
    /\ \E S \in (SUBSET Members) \ {{}} :
          board' = [m \in Members |-> IF m \in S THEN None ELSE board[m]]
    /\ writes' = writes + 1
    /\ steady' = (steady /\ board' = board)
    /\ UNCHANGED callVars

Next ==
    \/ Start
    \/ GetMemberIDWithClosestScore
    \/ GetRank
    \/ GetLastRank
    \/ GetTotalMembers
    \/ GetRange
    \/ ReadScore
    \/ ReadRank
    \/ AllRead
    \/ OthersWrite
    \/ OthersRemove

Spec == Init /\ [][Next]_vars

-----------------------------------------------------------------------------
(* Properties                                                              *)

Answered(op) == outcome = "ok" /\ call.op = op
Answers(m) == \E row \in answer : row.member = m
Smaller(i, j) == IF i < j THEN i ELSE j

\* The pages are the board cut in pieces: a page has those members whose rank is
\* on it, each with its rank, as the board is at the last command that reads it,
\* and there is none for a page beyond those ZCARD counted (getIndexesByPage,
\* ensureValidPage).
TopPagesPartition ==
    Answered("top") /\ PageSize > 0 =>
        answer = {[member |-> m, score |-> board[m], rank |-> Position(call.order, m) + 1] :
                    m \in {n \in Entries : Position(call.order, n) \div PageSize = call.page - 1}}

\* The surroundings of a member on a board that nobody changes: full, up to the
\* size of the board, without gaps, and with the member, or else the last one
\* (calculateIndexesAroundMemberRank).  A page of one is another matter: it
\* begins behind the member.
SurroundingsAreFull ==
    Answered("around") /\ steady /\ PageSize > 1 =>
        /\ Cardinality(answer) = Smaller(PageSize, ZCard)
        /\ \A row \in answer : row.rank = Position(call.order, row.member) + 1
        /\ \A m \in Entries : (m = member \/ (member \notin Entries
                                 /\ Position(call.order, m) = ZCard - 1)) => Answers(m)
        /\ \A m, n \in Entries : Answers(m) /\ Answers(n) =>
              \A k \in Entries : Before(call.order, m, k) /\ Before(call.order, k, n) => Answers(k)

\* Whatever happens to the board between the commands, a page has no more than
\* pageSize members, unless ZCARD found the board empty.
PagesAreBounded ==
    /\ outcome = "ok" /\ call.op \in Paged /\ PageSize > 0 /\ total # 0
          => Cardinality(answer) <= PageSize
    /\ Answered("percentage") => Cardinality(answer) <= MaxReturnedMembers

\* On a board that nobody changes, with scores in descending order, the members
\* around a score include the one with the next score below, or the last one.
SurroundingsHoldScore ==
    Answered("score") /\ steady /\ call.order = "desc" /\ PageSize > 1 =>
        \A m \in Entries :
            (/\ \A n \in Entries : Before("desc", n, m) => board[n] > call.score
             /\ board[m] <= call.score \/ Position("desc", m) = ZCard - 1)
                => Answers(m)

\* GetMembers of a board that nobody changes: those of the list that are on it,
\* with the board's scores and ranks.
MembersAsOnBoard ==
    Answered("members") /\ steady =>
        answer = {[member |-> m, score |-> board[m], rank |-> Position(call.order, m) + 1] :
                    m \in call.members \cap Entries}

=============================================================================
