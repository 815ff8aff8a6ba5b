-------------------------------- MODULE Paging --------------------------------
(***************************************************************************)
(* Which ranks the readers ask for.  An index is a pair of positions,      *)
(* counted from 0, that ZRANGE or ZREVRANGE takes; a rank counts from 1.   *)
(*                                                                         *)
(* The code divides in floating point and rounds.  The quotients here are  *)
(* exact: ceil(total / pageSize) is, for any total below 2^53, and the     *)
(* share of GetTopPercentage is for boards that TLC can hold (the smallest *)
(* it gets wrong is 29 per cent of 100, which is 28 for it).               *)
(***************************************************************************)
EXTENDS Integers

CONSTANTS
    DefaultPageSize,     \* for a request without one
    MaxReturnedMembers   \* api.maxReturnedMembers

ASSUME DefaultPageSizeAssumption == DefaultPageSize \in Nat \ {0}
ASSUME MaxReturnedMembersAssumption == MaxReturnedMembers \in Nat \ {0}

Index == [Start : Int, Stop : Int]

AtLeast(bound, i) == IF i < bound THEN bound ELSE i

\* Go's pageSize / 2 rounds towards 0.
Half(pageSize) == IF pageSize >= 0 THEN pageSize \div 2 ELSE -((-pageSize) \div 2)

GetPageSize(pageSize) == IF pageSize = 0 THEN DefaultPageSize ELSE pageSize

\* Mutant of GetIndexesByPage: the end is not inclusive.
GetIndexesPastPage(pageSize, page) ==
    LET start == (page - 1) * pageSize
    IN  [Start |-> start, Stop |-> start + pageSize]

\* Of a page that there is, the positions of its members.
GetIndexesByPage(pageSize, page) ==
    LET start == (page - 1) * pageSize
    IN  [Start |-> start, Stop |-> start + pageSize - 1]

\* Mutant of TotalPages: the last page counts only if it is full.
TotalFullPages(total, pageSize) ==
    IF pageSize > 0 THEN total \div pageSize ELSE -(total \div (-pageSize))

\* ceil(total / pageSize), also for a negative pageSize.
TotalPages(total, pageSize) ==
    IF pageSize > 0 THEN (total + pageSize - 1) \div pageSize
                    ELSE -(total \div (-pageSize))

\* ensureValidPage, for the page that GetTopMembers asks for, which is at least 1.
ValidPage(total, pageSize, page) == page <= TotalPages(total, pageSize)

\* Mutant of CalculateIndexesAroundMemberRank: the end of the board cuts the
\* page short.
CalculateIndexesCutShort(total, rank, pageSize) ==
    LET start == AtLeast(0, rank - Half(pageSize))
        stop == start + pageSize - 1
    IN  [Start |-> start, Stop |-> IF stop >= total THEN total - 1 ELSE stop]

\* The page about a rank; at the end of the board it is moved up to keep its size.
CalculateIndexesAroundMemberRank(total, rank, pageSize) ==
    LET start == AtLeast(0, rank - Half(pageSize))
        stop == start + pageSize - 1
    IN  IF stop >= total
        THEN [Start |-> AtLeast(0, total - pageSize), Stop |-> total - 1]
        ELSE [Start |-> start, Stop |-> stop]

\* The first amount per cent, at least one member and at most the maximum.
GetTopPercentageIndexes(total, amount) ==
    LET share == AtLeast(1, (total * amount) \div 100)
    IN  [Start |-> 0,
         Stop |-> (IF share > MaxReturnedMembers THEN MaxReturnedMembers ELSE share) - 1]

=============================================================================
