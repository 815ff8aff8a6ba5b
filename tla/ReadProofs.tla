------------------------------ MODULE ReadProofs ------------------------------
(***************************************************************************)
(* What holds of the readers for all boards, calls, page sizes and numbers *)
(* of writes between their commands: type correctness, that a page is never*)
(* longer than asked for, that GetMembers answers what is on the board,    *)
(* that the pages of GetTopMembers cut the board in pieces, and that the   *)
(* surroundings of a member or of a score are full and hold what they are  *)
(* about, if nobody changes the board meanwhile.                           *)
(***************************************************************************)
EXTENDS ScoreReads, FiniteSetTheorems, TLAPS

Boards == [Members -> ScoreValues \cup {None}]

-----------------------------------------------------------------------------
(* Which positions are asked for                                           *)

\* Half of a page size is an integer, not negative if the size is not.
LEMMA HalfType ==
    ASSUME NEW size \in Int
    PROVE  Half(size) \in Int /\ (size > 0 => Half(size) \in Nat)
  BY DEF Half

\* The page about a rank is an index.
LEMMA AroundType ==
    ASSUME NEW t \in Nat, NEW r \in Int, NEW size \in Int
    PROVE  CalculateIndexesAroundMemberRank(t, r, size) \in Index
  <1> DEFINE start == AtLeast(0, r - Half(size))
  <1>1. start \in Int
    BY HalfType DEF AtLeast
  <1>2. AtLeast(0, t - size) \in Int
    BY DEF AtLeast
  <1> HIDE DEF start
  <1>3. CalculateIndexesAroundMemberRank(t, r, size) =
          IF start + size - 1 >= t
          THEN [Start |-> AtLeast(0, t - size), Stop |-> t - 1]
          ELSE [Start |-> start, Stop |-> start + size - 1]
    BY DEF CalculateIndexesAroundMemberRank, start
  <1> QED  BY <1>1, <1>2, <1>3 DEF Index

\* On a board with members the page about a rank starts and ends at positions
\* of the board and holds no more than size of them.
LEMMA AroundWidth ==
    ASSUME NEW t \in Nat \ {0}, NEW r \in Int, NEW size \in Nat \ {0}
    PROVE  LET i == CalculateIndexesAroundMemberRank(t, r, size)
           IN  i.Start >= 0 /\ i.Stop >= 0 /\ i.Stop - i.Start + 1 <= size
  <1> DEFINE start == AtLeast(0, r - Half(size))
  <1>1. start \in Nat
    BY HalfType DEF AtLeast
  <1>2. AtLeast(0, t - size) \in Nat /\ t - AtLeast(0, t - size) <= size
    BY DEF AtLeast
  <1> HIDE DEF start
  <1>3. CalculateIndexesAroundMemberRank(t, r, size) =
          IF start + size - 1 >= t
          THEN [Start |-> AtLeast(0, t - size), Stop |-> t - 1]
          ELSE [Start |-> start, Stop |-> start + size - 1]
    BY DEF CalculateIndexesAroundMemberRank, start
  <1>4. CASE start + size - 1 >= t
    BY <1>2, <1>3, <1>4
  <1>5. CASE ~(start + size - 1 >= t)
    BY <1>1, <1>3, <1>5
  <1> QED  BY <1>4, <1>5

\* A product of integers is one, and not negative if its factors are not.
LEMMA Product ==
    ASSUME NEW a \in Int, NEW b \in Int
    PROVE  a * b \in Int /\ (a >= 0 /\ b >= 0 => a * b >= 0)
  OBVIOUS

\* A page by number is an index, and one of a positive size has that width.
LEMMA PageWidth ==
    ASSUME NEW size \in Int, NEW page \in Nat \ {0}
    PROVE  LET i == GetIndexesByPage(size, page)
           IN  /\ i \in Index
               /\ size > 0 => i.Start >= 0 /\ i.Stop >= 0 /\ i.Stop - i.Start + 1 <= size
  <1> DEFINE start == (page - 1) * size
  <1>1. start \in Int /\ (size > 0 => start >= 0)
    BY Product
  <1> HIDE DEF start
  <1>2. GetIndexesByPage(size, page) = [Start |-> start, Stop |-> start + size - 1]
    BY DEF GetIndexesByPage, start
  <1> QED  BY <1>1, <1>2 DEF Index

\* A share of the board starts at its top and is cut at the maximum.
LEMMA ShareWidth ==
    ASSUME NEW t \in Nat, NEW amount \in 1..100
    PROVE  LET i == GetTopPercentageIndexes(t, amount)
           IN  i \in Index /\ i.Start = 0 /\ i.Stop >= 0 /\ i.Stop < MaxReturnedMembers
  <1> DEFINE share == AtLeast(1, (t * amount) \div 100)
  <1>1. (t * amount) \div 100 \in Int
    <2>1. t * amount \in Int
      BY Product
    <2> QED  BY <2>1
  <1>2. share \in Nat \ {0}
    BY <1>1 DEF AtLeast
  <1> HIDE DEF share
  <1>3. GetTopPercentageIndexes(t, amount) =
          [Start |-> 0,
           Stop |-> (IF share > MaxReturnedMembers THEN MaxReturnedMembers ELSE share) - 1]
    BY DEF GetTopPercentageIndexes, share
  <1> QED  BY <1>2, <1>3, MaxReturnedMembersAssumption DEF Index

-----------------------------------------------------------------------------
(* The sorted set                                                          *)

\* An entry has a score.
LEMMA EntryScore ==
    ASSUME board \in Boards, NEW m \in Entries
    PROVE  m \in Members /\ m \in Nat /\ board[m] \in ScoreValues /\ board[m] \in Int
  BY NamesAssumption, ValuesAssumption DEF Boards, Entries

\* There are finitely many entries.
LEMMA EntriesFinite ==
    IsFiniteSet(Entries) /\ ZCard \in Nat
  <1>1. Entries \in SUBSET Members
    BY DEF Entries
  <1>2. IsFiniteSet(Entries)
    BY <1>1, NamesAssumption, FS_Subset
  <1> QED  BY <1>2, FS_CardinalityType DEF ZCard

\* The entries before another are finitely many.
LEMMA PositionType ==
    ASSUME NEW o, NEW m
    PROVE  IsFiniteSet({n \in Entries : Before(o, n, m)}) /\ Position(o, m) \in Nat
  <1> DEFINE P == {n \in Entries : Before(o, n, m)}
  <1>1. P \in SUBSET Entries
    OBVIOUS
  <1>2. IsFiniteSet(P)
    BY <1>1, EntriesFinite, FS_Subset
  <1>3. Cardinality(P) \in Nat
    BY <1>2, FS_CardinalityType
  <1> QED  BY <1>2, <1>3 DEF Position

\* Two different entries are one before the other.
LEMMA Trichotomy ==
    ASSUME board \in Boards, NEW o \in Orders, NEW m \in Entries, NEW n \in Entries, m # n
    PROVE  Before(o, m, n) \/ Before(o, n, m)
  <1>1. /\ m \in Nat /\ board[m] \in Int
        /\ n \in Nat /\ board[n] \in Int
    BY EntryScore
  <1> QED  BY <1>1 DEF Before, Orders

\* The order has no cycle of one and is transitive.
LEMMA StrictOrder ==
    ASSUME board \in Boards, NEW o \in Orders,
           NEW k \in Entries, NEW m \in Entries, NEW n \in Entries
    PROVE  /\ ~Before(o, m, m)
           /\ Before(o, k, m) /\ Before(o, m, n) => Before(o, k, n)
  <1>1. /\ k \in Nat /\ board[k] \in Int
        /\ m \in Nat /\ board[m] \in Int
        /\ n \in Nat /\ board[n] \in Int
    BY EntryScore
  <1> QED  BY <1>1 DEF Before, Orders

\* An entry before another has the smaller position.
LEMMA PositionMonotonic ==
    ASSUME board \in Boards, NEW o \in Orders, NEW m \in Entries, NEW n \in Entries,
           Before(o, m, n)
    PROVE  Position(o, m) # Position(o, n)
  <1> DEFINE P(e) == {x \in Entries : Before(o, x, e)}
  <1>1. P(m) \in SUBSET P(n)
    BY StrictOrder
  <1>2. m \in P(n) /\ m \notin P(m)
    BY StrictOrder
  <1>3. IsFiniteSet(P(n))
    BY PositionType
  <1>4. Cardinality(P(n)) = Cardinality(P(m)) => P(n) = P(m)
    BY <1>1, <1>3, FS_Subset
  <1>5. Cardinality(P(n)) # Cardinality(P(m))
    BY <1>2, <1>4
  <1> QED  BY <1>5 DEF Position

\* So no two entries have the same position.
LEMMA PositionInjective ==
    ASSUME board \in Boards, NEW o \in Orders, NEW m \in Entries, NEW n \in Entries,
           Position(o, m) = Position(o, n)
    PROVE  m = n
  BY Trichotomy, PositionMonotonic

\* What GetOrderedMembers returns for a window of positions is no longer than
\* the window, whatever is on the board.
LEMMA WindowBound ==
    ASSUME board \in Boards, NEW o \in Orders,
           NEW start \in Nat, NEW stop \in Nat,
           NEW size \in Nat, stop - start + 1 <= size
    PROVE  Cardinality(GetOrderedMembers(o, start, stop)) <= size
  <1> DEFINE rows == GetOrderedMembers(o, start, stop)
             window == start..stop
             f == [row \in rows |-> Position(o, row.member)]
  <1>1. ZRange(o, start, stop) =
          {m \in Entries : start <= Position(o, m) /\ Position(o, m) <= stop}
    BY DEF ZRange, FromEnd, AtLeast
  <1>2. \A row \in rows :
           /\ row.member \in Entries
           /\ Position(o, row.member) \in window
           /\ row = [member |-> row.member, score |-> board[row.member],
                     rank |-> start + (Position(o, row.member)
                                         - AtLeast(0, FromEnd(start))) + 1]
    <2> SUFFICES ASSUME NEW row \in rows
                 PROVE  /\ row.member \in Entries
                        /\ Position(o, row.member) \in window
                        /\ row = [member |-> row.member, score |-> board[row.member],
                                  rank |-> start + (Position(o, row.member)
                                                      - AtLeast(0, FromEnd(start))) + 1]
      OBVIOUS
    <2>1. PICK m \in ZRange(o, start, stop) :
            row = [member |-> m, score |-> board[m],
                   rank |-> start + (Position(o, m) - AtLeast(0, FromEnd(start))) + 1]
      BY DEF GetOrderedMembers
    <2>2. row.member = m
      BY <2>1
    <2>3. m \in Entries /\ start <= Position(o, m) /\ Position(o, m) <= stop
      BY <1>1
    <2>4. Position(o, m) \in Nat
      BY PositionType
    <2>5. Position(o, m) \in window
      BY <2>3, <2>4
    <2> QED  BY <2>1, <2>2, <2>3, <2>5
  <1> HIDE DEF rows
  <1>3. f \in [rows -> window]
    BY <1>2
  <1>4. \A x, y \in rows : f[x] = f[y] => x = y
    <2> SUFFICES ASSUME NEW x \in rows, NEW y \in rows, f[x] = f[y]
                 PROVE  x = y
      OBVIOUS
    <2>1. x.member = y.member
      BY <1>2, PositionInjective
    <2> QED  BY <1>2, <2>1
  <1>5. f \in Injection(rows, window)
    BY <1>3, <1>4 DEF Injection, IsInjective
  <1>6. IsFiniteSet(window) /\ Cardinality(window) <= size
    <2>1. start \in Int /\ stop \in Int
      OBVIOUS
    <2>2. /\ IsFiniteSet(window)
          /\ Cardinality(window) = IF start > stop THEN 0 ELSE stop - start + 1
      BY <2>1, FS_Interval
    <2> QED  BY <2>2
  <1>7. IsFiniteSet(rows) /\ Cardinality(rows) <= Cardinality(window)
    BY <1>5, <1>6, FS_Injection
  <1>8. Cardinality(rows) \in Nat /\ Cardinality(window) \in Nat
    BY <1>6, <1>7, FS_CardinalityType
  <1>9. Cardinality(rows) <= size
    BY <1>6, <1>7, <1>8
  <1> QED  BY <1>9 DEF rows

-----------------------------------------------------------------------------
(* Type correctness                                                        *)

\* What TypeOK says of a call that has been made.
LEMMA CallType ==
    ASSUME TypeOK, pc # "idle"
    PROVE  /\ call \in Calls
           /\ call.op \in Ops /\ call.order \in Orders
           /\ call.pageSize \in Int /\ call.page \in Nat \ {0}
           /\ call.amount \in 1..100 /\ call.members \subseteq Members
           /\ PageSize \in Int
  <1>1. call \in Calls
    BY DEF TypeOK
  <1>2. /\ call.op \in Ops /\ call.order \in Orders
        /\ call.pageSize \in Int /\ call.page \in Nat \ {0}
        /\ call.amount \in 1..100 /\ call.members \subseteq Members
    BY <1>1, CallsAssumption
  <1>3. PageSize \in Int
    BY <1>2, DefaultPageSizeAssumption DEF PageSize, GetPageSize
  <1> QED  BY <1>1, <1>2, <1>3

\* What GetOrderedMembers returns is rows.
LEMMA RowsType ==
    ASSUME board \in Boards, NEW o, NEW start \in Int, NEW stop \in Int
    PROVE  GetOrderedMembers(o, start, stop) \subseteq Row
  <1>1. AtLeast(0, FromEnd(start)) \in Int
    BY EntriesFinite DEF AtLeast, FromEnd
  <1>2. ASSUME NEW m \in ZRange(o, start, stop)
        PROVE  [member |-> m, score |-> board[m],
                rank |-> start + (Position(o, m) - AtLeast(0, FromEnd(start))) + 1] \in Row
    <2>1. m \in Entries
      BY DEF ZRange
    <2>2. m \in Members /\ board[m] \in ScoreValues
      BY <2>1, EntryScore
    <2>3. Position(o, m) \in Nat
      BY PositionType
    <2> QED  BY <1>1, <2>2, <2>3 DEF Row
  <1> QED  BY <1>2 DEF GetOrderedMembers

\* The program starts with variables of their types.
LEMMA InitTypeOK == Init => TypeOK
  BY ValuesAssumption, MaxWritesAssumption
  DEF Init, TypeOK, Steps, Outcomes, Index, Row

\* Every step keeps the types.
LEMMA NextTypeOK == TypeOK /\ [Next]_vars => TypeOK'
  <1> SUFFICES ASSUME TypeOK, [Next]_vars
               PROVE  TypeOK'
    OBVIOUS
  <1> USE DEF End, At
  <1>1. CASE Start
    <2>1. PICK c \in Calls :
             /\ call' = c
             /\ IF c.op \in Paged /\ GetPageSize(c.pageSize) > MaxReturnedMembers
                THEN End("invalid")
                ELSE pc' = FirstStep[c.op] /\ UNCHANGED outcome
             /\ IF c.op = "around" THEN member' \in c.members ELSE member' = None
             /\ toRead' = IF c.op = "members" THEN c.members ELSE {}
      BY <1>1 DEF Start
    <2>2. c.members \subseteq Members
      BY CallsAssumption
    <2>3. /\ call' \in Calls \cup {None} /\ call' # None
          /\ member' \in Members \cup {None}
          /\ toRead' \subseteq Members
      <3>1. /\ call' = c /\ c # None
            /\ member' \in c.members \cup {None}
            /\ toRead' \in {c.members, {}}
        BY <2>1, ValuesAssumption
      <3> QED  BY <2>2, <3>1
    <2>4. pc' \in Steps /\ pc' # "idle" /\ outcome' \in Outcomes
      <3>1. FirstStep[c.op] \in Steps /\ FirstStep[c.op] # "idle"
        <4>1. c.op \in Ops
          BY CallsAssumption
        <4> QED  BY <4>1 DEF FirstStep, Ops, Steps
      <3>2. pc' \in {"done", FirstStep[c.op]} /\ outcome' \in {"invalid", outcome}
        BY <2>1
      <3> QED  BY <3>1, <3>2 DEF TypeOK, Steps, Outcomes
    <2> QED  BY <1>1, <2>3, <2>4 DEF Start, TypeOK
  <1>2. CASE GetMemberIDWithClosestScore
    <2>1. member' \in Members \cup {None}
      BY <1>2 DEF GetMemberIDWithClosestScore, WithClosestScore, Entries
    <2> QED  BY <1>2, <2>1 DEF GetMemberIDWithClosestScore, TypeOK, Steps
  <1>3. CASE GetRank
    <2>1. Position(call.order, member) \in Nat
      BY PositionType
    <2>2. rank' \in Nat
      BY <1>3, <2>1 DEF GetRank, TypeOK
    <2>3. pc' \in Steps /\ pc' # "idle" /\ outcome' \in Outcomes
      BY <1>3 DEF GetRank, TypeOK, Steps, Outcomes
    <2> QED  BY <1>3, <2>2, <2>3 DEF GetRank, TypeOK
  <1>4. CASE GetLastRank
    <2>1. rank' \in Nat
      BY <1>4, EntriesFinite DEF GetLastRank
    <2> QED  BY <1>4, <2>1 DEF GetLastRank, TypeOK, Steps
  <1>5. CASE GetTotalMembers
    <2>1. total' \in Nat
      BY <1>5, EntriesFinite DEF GetTotalMembers
    <2>2. /\ PageSize \in Int /\ call.page \in Nat \ {0} /\ call.amount \in 1..100
      BY <1>5, CallType DEF GetTotalMembers
    <2>3. /\ CalculateIndexesAroundMemberRank(ZCard, rank, PageSize) \in Index
          /\ GetIndexesByPage(PageSize, call.page) \in Index
          /\ GetTopPercentageIndexes(ZCard, call.amount) \in Index
      <3>1. rank \in Int
        BY DEF TypeOK
      <3> QED  BY <2>2, <3>1, EntriesFinite, AroundType, PageWidth, ShareWidth
    <2>4. index' \in Index
      BY <1>5, <2>3 DEF GetTotalMembers, TypeOK
    <2>5. pc' \in Steps /\ pc' # "idle" /\ outcome' \in Outcomes
      BY <1>5 DEF GetTotalMembers, TypeOK, Steps, Outcomes
    <2> QED  BY <1>5, <2>1, <2>4, <2>5 DEF GetTotalMembers, TypeOK
  <1>6. CASE GetRange
    <2>1. answer' \subseteq Row
      BY <1>6, RowsType DEF GetRange, TypeOK, Boards, Index
    <2> QED  BY <1>6, <2>1 DEF GetRange, TypeOK, Steps, Outcomes
  <1>7. CASE ReadScore
    <2>1. PICK m \in toRead :
             /\ toRead' = toRead \ {m}
             /\ reading' = IF m \in Entries THEN [member |-> m, score |-> board[m]] ELSE None
      BY <1>7 DEF ReadScore
    <2>2. reading' \in [member : Members, score : ScoreValues] \cup {None}
      BY <2>1, EntryScore DEF TypeOK, Boards
    <2>3. toRead' \subseteq Members
      BY <2>1 DEF TypeOK
    <2> QED  BY <1>7, <2>2, <2>3 DEF ReadScore, TypeOK
  <1>8. CASE ReadRank
    <2>1. reading \in [member : Members, score : ScoreValues]
      BY <1>8 DEF ReadRank, TypeOK
    <2>2. Position(call.order, reading.member) \in Nat
      BY PositionType
    <2>3. [member |-> reading.member, score |-> reading.score,
           rank |-> Position(call.order, reading.member) + 1] \in Row
      BY <2>1, <2>2 DEF Row
    <2>4. answer' \subseteq Row
      BY <1>8, <2>3 DEF ReadRank, TypeOK
    <2>5. pc' \in Steps /\ pc' # "idle" /\ outcome' \in Outcomes /\ reading' = None
      BY <1>8 DEF ReadRank, TypeOK, Steps, Outcomes
    <2> QED  BY <1>8, <2>4, <2>5 DEF ReadRank, TypeOK
  <1>9. CASE AllRead
    BY <1>9 DEF AllRead, TypeOK, Steps, Outcomes
  <1>10. CASE OthersWrite
    <2>1. board' \in Boards
      BY <1>10 DEF OthersWrite, TypeOK, Boards
    <2>2. writes' \in 0..MaxWrites /\ steady' \in BOOLEAN
      BY <1>10, MaxWritesAssumption DEF OthersWrite, TypeOK
    <2> QED  BY <1>10, <2>1, <2>2 DEF OthersWrite, TypeOK, Boards, callVars
  <1>11. CASE OthersRemove
    <2>1. board' \in Boards
      BY <1>11 DEF OthersRemove, TypeOK, Boards
    <2>2. writes' \in 0..MaxWrites /\ steady' \in BOOLEAN
      BY <1>11, MaxWritesAssumption DEF OthersRemove, TypeOK
    <2> QED  BY <1>11, <2>1, <2>2 DEF OthersRemove, TypeOK, Boards, callVars
  <1>12. CASE UNCHANGED vars
    BY <1>12 DEF vars, callVars, TypeOK
  <1> QED
    BY <1>1, <1>2, <1>3, <1>4, <1>5, <1>6, <1>7, <1>8, <1>9, <1>10, <1>11, <1>12 DEF Next

\* Every variable of a reader keeps the shape the code's types give it.
THEOREM ReadTypeCorrect == Spec => []TypeOK
  BY InitTypeOK, NextTypeOK, PTL DEF Spec

-----------------------------------------------------------------------------
(* No page is too long                                                     *)

\* A window of positions from the top or further down, of at most size members.
Window(size) == index.Start >= 0 /\ index.Stop >= 0 /\ index.Stop - index.Start + 1 <= size

\* PagesAreBounded speaks of answers.  Before there is one, the positions that
\* the last command will ask for have the right width, and nothing else answers.
ReadInv ==
    /\ TypeOK
    /\ outcome = "ok" => pc = "done"
    /\ pc \in {"idle", "closest", "rank", "last", "total", "range"} => answer = {}
    /\ pc = "read" => call.op = "members"
    /\ pc = "range" =>
          /\ call.op \in Paged /\ PageSize > 0 /\ total # 0
                => Window(PageSize)
          /\ call.op = "percentage" => Window(MaxReturnedMembers)
    /\ PagesAreBounded

LEMMA InitReadInv == Init => ReadInv
  BY InitTypeOK DEF Init, ReadInv, PagesAreBounded, Answered

\* ZCARD fixes the window, or the answer is empty.
LEMMA TotalKeepsReadInv ==
    ASSUME ReadInv, TypeOK', GetTotalMembers
    PROVE  ReadInv'
  <1>1. /\ call \in Calls /\ call.op \in Ops
        /\ PageSize \in Int /\ call.page \in Nat \ {0} /\ call.amount \in 1..100
    BY CallType DEF ReadInv, GetTotalMembers, At
  <1>2. answer = {} /\ answer' = {} /\ call' = call /\ PageSize' = PageSize /\ total' = ZCard
    BY DEF ReadInv, GetTotalMembers, At, PageSize
  <1>3. ZCard \in Nat /\ rank \in Int
    BY EntriesFinite DEF ReadInv, TypeOK
  <1>4. CASE pc' = "range" /\ outcome' = outcome
    <2>1. outcome' = "none" /\ index' \in Index
      BY <1>4 DEF GetTotalMembers, At, TypeOK
    <2>2. ASSUME call.op \in {"around", "score"}, PageSize > 0, total' # 0
          PROVE  Window(PageSize)'
      <3>1. index' = CalculateIndexesAroundMemberRank(ZCard, rank, PageSize)
        BY <2>2 DEF GetTotalMembers
      <3>2. ZCard \in Nat \ {0} /\ PageSize \in Nat \ {0}
        BY <1>1, <1>2, <1>3, <2>2
      <3>3. index'.Start >= 0 /\ index'.Stop >= 0 /\ index'.Stop - index'.Start + 1 <= PageSize
        BY <1>3, <3>1, <3>2, AroundWidth
      <3> QED  BY <1>2, <3>3 DEF Window
    <2>3. ASSUME call.op = "top", PageSize > 0
          PROVE  Window(PageSize)'
      <3>1. index' = GetIndexesByPage(PageSize, call.page)
        BY <1>4, <2>3 DEF GetTotalMembers, End
      <3> QED  BY <1>1, <1>2, <2>3, <3>1, PageWidth DEF Window
    <2>4. ASSUME call.op = "percentage"
          PROVE  Window(MaxReturnedMembers)'
      <3>1. index' = GetTopPercentageIndexes(ZCard, call.amount)
        BY <2>4 DEF GetTotalMembers
      <3>2. index'.Start = 0 /\ index'.Stop >= 0 /\ index'.Stop < MaxReturnedMembers
        BY <1>1, <1>3, <3>1, ShareWidth
      <3>3. index'.Stop \in Int
        BY <2>1 DEF Index
      <3> QED  BY <3>2, <3>3, MaxReturnedMembersAssumption DEF Window
    <2> QED
      BY <1>2, <1>4, <2>1, <2>2, <2>3, <2>4 DEF Paged, ReadInv, PagesAreBounded, Answered
  <1>5. CASE End("ok")
    <2>1. call.op = "top"
      BY <1>5 DEF GetTotalMembers, At, End
    <2>2. Cardinality(answer') = 0
      BY <1>2, FS_EmptySet
    <2>3. PagesAreBounded'
      BY <1>1, <1>2, <2>1, <2>2 DEF Paged, PagesAreBounded, Answered
    <2> QED  BY <1>5, <2>3 DEF ReadInv, End
  <1> QED  BY <1>4, <1>5 DEF GetTotalMembers

\* ZRANGE answers with no more rows than the window has positions.
LEMMA RangeKeepsReadInv ==
    ASSUME ReadInv, TypeOK', GetRange
    PROVE  ReadInv'
  <1>1. /\ pc = "range" /\ pc' = "done" /\ outcome' = "ok"
        /\ call' = call /\ total' = total /\ PageSize' = PageSize
        /\ answer' = GetOrderedMembers(call.order, index.Start, index.Stop)
    BY DEF GetRange, At, End, PageSize
  <1>2. /\ call.order \in Orders /\ PageSize \in Int
        /\ board \in Boards /\ index.Start \in Int /\ index.Stop \in Int
    BY <1>1, CallType DEF ReadInv, TypeOK, Boards, Index
  <1>3. ASSUME NEW size \in Nat, Window(size)
        PROVE  Cardinality(answer') <= size
    BY <1>1, <1>2, <1>3, WindowBound DEF Window
  <1>4. call.op \in Paged /\ PageSize > 0 /\ total # 0
          => Cardinality(answer') <= PageSize
    BY <1>1, <1>2, <1>3 DEF ReadInv
  <1>5. call.op = "percentage" => Cardinality(answer') <= MaxReturnedMembers
    BY <1>1, <1>3, MaxReturnedMembersAssumption DEF ReadInv
  <1>6. PagesAreBounded'
    BY <1>1, <1>4, <1>5 DEF PagesAreBounded, Answered
  <1> QED  BY <1>1, <1>6 DEF ReadInv

\* Every step keeps the invariant.
LEMMA NextReadInv == ReadInv /\ [Next]_vars => ReadInv'
  <1> SUFFICES ASSUME ReadInv, [Next]_vars
               PROVE  ReadInv'
    OBVIOUS
  <1>0. TypeOK'
    BY NextTypeOK DEF ReadInv
  <1>1. CASE Start
    <2>1. PICK c \in Calls : /\ call' = c
                              /\ \/ pc' = "done" /\ outcome' = "invalid"
                                 \/ pc' = FirstStep[c.op] /\ outcome' = outcome
      BY <1>1 DEF Start, End
    <2>2. c.op \in Ops
      BY CallsAssumption
    <2>3. outcome' # "ok" /\ answer' = {}
      BY <1>1, <2>1 DEF Start, ReadInv
    <2>4. pc' # "range" /\ (pc' = "read" => call'.op = "members")
      BY <2>1, <2>2 DEF Ops, FirstStep
    <2>5. PagesAreBounded'
      BY <2>3 DEF PagesAreBounded, Answered
    <2> QED  BY <1>0, <2>3, <2>4, <2>5 DEF ReadInv
  <1>2. CASE GetMemberIDWithClosestScore
    BY <1>0, <1>2 DEF GetMemberIDWithClosestScore, At, ReadInv, PagesAreBounded, Answered
  <1>3. CASE GetRank
    <2>1. outcome' # "ok" /\ pc' \in {"total", "last", "done"} /\ answer' = {}
      BY <1>3 DEF GetRank, At, End, ReadInv
    <2>2. PagesAreBounded'
      BY <2>1 DEF PagesAreBounded, Answered
    <2> QED  BY <1>0, <2>1, <2>2 DEF ReadInv
  <1>4. CASE GetLastRank
    BY <1>0, <1>4 DEF GetLastRank, At, ReadInv, PagesAreBounded, Answered
  <1>5. CASE GetTotalMembers
    BY <1>0, <1>5, TotalKeepsReadInv
  <1>6. CASE GetRange
    BY <1>0, <1>6, RangeKeepsReadInv
  <1>7. CASE ReadScore
    BY <1>0, <1>7 DEF ReadScore, At, ReadInv, PagesAreBounded, Answered
  <1>8. CASE ReadRank
    <2>1. outcome' # "ok" /\ pc' \in {"read", "done"} /\ call'.op = "members"
      BY <1>8 DEF ReadRank, At, End, ReadInv
    <2>2. PagesAreBounded'
      BY <2>1 DEF PagesAreBounded, Answered
    <2> QED  BY <1>0, <2>1, <2>2 DEF ReadInv
  <1>9. CASE AllRead
    <2>1. pc' = "done" /\ call'.op = "members"
      BY <1>9 DEF AllRead, At, End, ReadInv
    <2>2. PagesAreBounded'
      BY <2>1 DEF Paged, PagesAreBounded, Answered
    <2> QED  BY <1>0, <2>1, <2>2 DEF ReadInv
  <1>10. CASE UNCHANGED callVars
    <2>1. PagesAreBounded' = PagesAreBounded
      BY <1>10 DEF callVars, PagesAreBounded, Answered, PageSize
    <2> QED  BY <1>0, <1>10, <2>1 DEF callVars, ReadInv, PageSize, Window
  <1>11. OthersWrite \/ OthersRemove \/ UNCHANGED vars => UNCHANGED callVars
    BY DEF OthersWrite, OthersRemove, vars
  <1> QED
    BY <1>1, <1>2, <1>3, <1>4, <1>5, <1>6, <1>7, <1>8, <1>9, <1>10, <1>11 DEF Next

\* Whatever happens to the board between the commands of a call, its page has no
\* more members than it asked for, unless ZCARD found the board empty
\* (calculateIndexesAroundMemberRank, getIndexesByPage, GetTopPercentage).
THEOREM PagesAreBoundedAlways == Spec => []PagesAreBounded
  <1>1. ReadInv => PagesAreBounded
    BY DEF ReadInv
  <1> QED  BY <1>1, InitReadInv, NextReadInv, PTL DEF Spec

-----------------------------------------------------------------------------
(* GetMembers returns what is on the board                                 *)

\* The row of a member, as the board is now.
RowOf(m) == [member |-> m, score |-> board[m], rank |-> Position(call.order, m) + 1]

RowsOf(S) == {RowOf(m) : m \in S \cap Entries}

\* The members of the call that GetMembers is done with.
LookedUp ==
    {m \in call.members : m \notin toRead /\ (reading = None \/ m # reading.member)}

\* While the board stays as it is, the answer so far is the rows of the members
\* looked up, and the score that waits for its rank is still the board's.
Lookups ==
    /\ toRead \subseteq call.members
    /\ reading # None =>
          /\ reading.member \in call.members \cap Entries
          /\ reading.member \notin toRead
          /\ reading.score = board[reading.member]
    /\ answer = RowsOf(LookedUp)

\* MembersAsOnBoard speaks of answers.  Lookups holds on the way to them, and no
\* other command answers a call for members.
MembersInv ==
    /\ ReadInv
    /\ pc = "idle" => reading = None
    /\ pc \in {"closest", "rank", "last", "total", "range"} => call.op # "members"
    /\ pc = "read" /\ steady => Lookups
    /\ MembersAsOnBoard

LEMMA InitMembersInv == Init => MembersInv
  BY InitReadInv DEF Init, MembersInv, MembersAsOnBoard, Answered

\* On the same board, for the same call, rows are the same.
LEMMA SameRows ==
    ASSUME board' = board, call' = call
    PROVE  /\ Entries' = Entries
           /\ \A m : RowOf(m)' = RowOf(m)
           /\ \A S : RowsOf(S)' = RowsOf(S)
  <1>1. Entries' = Entries
    BY DEF Entries
  <1>2. ASSUME NEW m
        PROVE  RowOf(m)' = RowOf(m)
    <2>1. {n \in Entries : Before(call.order, n, m)}'
            = {n \in Entries : Before(call.order, n, m)}
      BY <1>1 DEF Before
    <2> QED  BY <2>1 DEF RowOf, Position
  <1> QED  BY <1>1, <1>2 DEF RowsOf

\* A member whose score is asked for is on its way to a rank, or has none.
LEMMA ReadScoreKeepsLookups ==
    ASSUME MembersInv, TypeOK', ReadScore, steady
    PROVE  Lookups'
  <1>1. PICK m \in toRead :
           /\ toRead' = toRead \ {m}
           /\ reading' = IF m \in Entries THEN [member |-> m, score |-> board[m]] ELSE None
    BY DEF ReadScore
  <1>2. /\ pc = "read" /\ reading = None
        /\ board' = board /\ call' = call /\ answer' = answer
    BY DEF ReadScore, At
  <1>3. Lookups
    BY <1>2 DEF MembersInv
  <1>4. m \in Entries => [member |-> m, score |-> board[m]] # None
    <2>1. ASSUME m \in Entries
          PROVE  [member |-> m, score |-> board[m]] \in [member : Members, score : ScoreValues]
      BY <2>1, EntryScore DEF MembersInv, ReadInv, TypeOK, Boards
    <2> QED  BY <2>1, ReadingAssumption
  <1>5. LookedUp' \cap Entries = LookedUp \cap Entries
    <2>1. CASE m \in Entries
      <3>1. reading' = [member |-> m, score |-> board[m]] /\ reading'.member = m
        BY <1>1, <2>1
      <3> QED  BY <1>1, <1>2, <1>3, <1>4, <3>1 DEF LookedUp, Lookups
    <2>2. CASE m \notin Entries
      BY <1>1, <1>2, <2>2 DEF LookedUp
    <2> QED  BY <2>1, <2>2
  <1>6. answer' = RowsOf(LookedUp)
    BY <1>2, <1>3 DEF Lookups
  <1>7. RowsOf(LookedUp') = RowsOf(LookedUp)
    BY <1>5 DEF RowsOf
  <1>8. answer' = RowsOf(LookedUp)'
    BY <1>2, <1>6, <1>7, SameRows DEF RowsOf
  <1>9. Entries' = Entries
    BY <1>2, SameRows
  <1>10. toRead' \subseteq call'.members
    BY <1>1, <1>2, <1>3 DEF Lookups
  <1>11. ASSUME reading' # None
         PROVE  /\ reading'.member \in call'.members \cap Entries
                /\ reading'.member \notin toRead'
                /\ reading'.score = board'[reading'.member]
    <2>1. m \in Entries /\ reading' = [member |-> m, score |-> board[m]]
      BY <1>1, <1>11
    <2>2. reading'.member = m /\ reading'.score = board[m]
      BY <2>1
    <2>3. m \in call.members
      BY <1>3 DEF Lookups
    <2> QED  BY <1>1, <1>2, <2>1, <2>2, <2>3
  <1> QED  BY <1>8, <1>9, <1>10, <1>11 DEF Lookups

\* A member with a score and a rank is answered with both.
LEMMA ReadRankKeepsLookups ==
    ASSUME MembersInv, ReadRank, steady
    PROVE  Lookups'
  <1>1. /\ pc = "read" /\ reading # None /\ reading' = None
        /\ board' = board /\ call' = call /\ toRead' = toRead
    BY DEF ReadRank, At
  <1>2. Lookups
    BY <1>1 DEF MembersInv
  <1> DEFINE m == reading.member
  <1>3. m \in call.members \cap Entries /\ m \notin toRead /\ reading.score = board[m]
    BY <1>1, <1>2 DEF Lookups
  <1>4. answer' = answer \cup {RowOf(m)}
    BY <1>3 DEF ReadRank, RowOf
  <1>5. LookedUp' \cap Entries = (LookedUp \cap Entries) \cup {m}
    BY <1>1, <1>3 DEF LookedUp
  <1>6. RowsOf(LookedUp') = RowsOf(LookedUp) \cup {RowOf(m)}
    BY <1>5 DEF RowsOf
  <1>7. answer' = RowsOf(LookedUp')
    BY <1>2, <1>4, <1>6 DEF Lookups
  <1>8. answer' = RowsOf(LookedUp)'
    BY <1>1, <1>7, SameRows DEF RowsOf
  <1> QED  BY <1>1, <1>2, <1>8 DEF Lookups

\* When nothing is left to look up the answer is complete.
LEMMA AllReadAnswers ==
    ASSUME MembersInv, AllRead
    PROVE  MembersAsOnBoard'
  <1>1. /\ pc = "read" /\ reading = None /\ toRead = {}
        /\ board' = board /\ call' = call /\ answer' = answer /\ steady' = steady
    BY DEF AllRead, At
  <1>2. ASSUME steady
        PROVE  answer' = {RowOf(m) : m \in call.members \cap Entries}'
    <2>1. Lookups
      BY <1>1, <1>2 DEF MembersInv
    <2>2. LookedUp = call.members
      BY <1>1 DEF LookedUp
    <2>3. answer = {RowOf(m) : m \in call.members \cap Entries}
      BY <2>1, <2>2 DEF Lookups, RowsOf
    <2> QED  BY <1>1, <2>3, SameRows
  <1> QED  BY <1>1, <1>2 DEF MembersAsOnBoard, RowOf

\* Every step keeps the invariant.
LEMMA NextMembersInv == MembersInv /\ [Next]_vars => MembersInv'
  <1> SUFFICES ASSUME MembersInv, [Next]_vars
               PROVE  MembersInv'
    OBVIOUS
  <1>0. ReadInv' /\ TypeOK'
    BY NextReadInv, NextTypeOK DEF MembersInv, ReadInv
  <1>a. ASSUME pc' # "done" \/ call'.op # "members" \/ outcome' # "ok"
        PROVE  MembersAsOnBoard'
    BY <1>0, <1>a DEF ReadInv, MembersAsOnBoard, Answered
  <1>1. CASE Start
    <2>1. PICK c \in Calls :
             /\ call' = c
             /\ \/ pc' = "done" /\ outcome' = "invalid"
                \/ pc' = FirstStep[c.op] /\ outcome' = outcome
             /\ toRead' = IF c.op = "members" THEN c.members ELSE {}
      BY <1>1 DEF Start, End
    <2>2. c.op \in Ops
      BY CallsAssumption
    <2>3. /\ pc' # "idle" /\ (pc' # "done" => outcome' = outcome)
          /\ pc' \in {"closest", "rank", "last", "total", "range"} => c.op # "members"
          /\ pc' = "read" => c.op = "members"
      BY <2>1, <2>2 DEF Ops, FirstStep
    <2>4. pc = "idle" /\ reading' = None /\ answer' = {}
      BY <1>1 DEF Start, MembersInv, ReadInv
    <2>5. ASSUME pc' = "read"
          PROVE  Lookups'
      <3>1. toRead' = call'.members
        BY <2>1, <2>3, <2>5
      <3>2. LookedUp' = {}
        BY <3>1 DEF LookedUp
      <3> QED  BY <2>4, <3>1, <3>2 DEF Lookups, RowsOf
    <2>6. MembersAsOnBoard'
      <3>1. outcome' # "ok"
        BY <1>0, <2>1, <2>2, <2>4 DEF MembersInv, ReadInv, Ops, FirstStep
      <3> QED  BY <1>a, <3>1
    <2> QED  BY <1>0, <2>1, <2>3, <2>5, <2>6 DEF MembersInv
  <1>2. CASE GetMemberIDWithClosestScore
    <2>1. pc' = "rank" /\ call' = call /\ call.op # "members"
      BY <1>2 DEF GetMemberIDWithClosestScore, At, MembersInv
    <2> QED  BY <1>0, <1>a, <2>1 DEF MembersInv
  <1>3. CASE GetRank
    <2>1. pc' \in {"total", "last", "done"} /\ call' = call /\ call.op # "members"
      BY <1>3 DEF GetRank, At, End, MembersInv
    <2> QED  BY <1>0, <1>a, <2>1 DEF MembersInv
  <1>4. CASE GetLastRank
    <2>1. pc' = "total" /\ call' = call /\ call.op # "members"
      BY <1>4 DEF GetLastRank, At, MembersInv
    <2> QED  BY <1>0, <1>a, <2>1 DEF MembersInv
  <1>5. CASE GetTotalMembers
    <2>1. pc' \in {"range", "done"} /\ call' = call /\ call.op # "members"
      BY <1>5 DEF GetTotalMembers, At, End, MembersInv
    <2> QED  BY <1>0, <1>a, <2>1 DEF MembersInv
  <1>6. CASE GetRange
    <2>1. pc' = "done" /\ call' = call /\ call.op # "members"
      BY <1>6 DEF GetRange, At, End, MembersInv
    <2> QED  BY <1>0, <1>a, <2>1 DEF MembersInv
  <1>7. CASE ReadScore
    <2>1. pc' = "read" /\ steady' = steady
      BY <1>7 DEF ReadScore, At
    <2>2. steady => Lookups'
      BY <1>0, <1>7, ReadScoreKeepsLookups
    <2> QED  BY <1>0, <1>a, <2>1, <2>2 DEF MembersInv
  <1>8. CASE ReadRank
    <2>1. pc' \in {"read", "done"} /\ outcome' # "ok" /\ steady' = steady
      BY <1>8 DEF ReadRank, At, End
    <2>2. steady => Lookups'
      BY <1>8, ReadRankKeepsLookups
    <2> QED  BY <1>0, <1>a, <2>1, <2>2 DEF MembersInv
  <1>9. CASE AllRead
    <2>1. pc' = "done"
      BY <1>9 DEF AllRead, End
    <2>2. MembersAsOnBoard'
      BY <1>9, AllReadAnswers
    <2> QED  BY <1>0, <2>1, <2>2 DEF MembersInv
  <1>10. CASE OthersWrite \/ OthersRemove
    <2>1. /\ pc = pc' /\ call' = call /\ reading' = reading /\ toRead' = toRead
          /\ answer' = answer /\ outcome' = outcome
          /\ steady' = (steady /\ board' = board)
          /\ pc # "done" /\ pc # "idle"
      BY <1>10 DEF OthersWrite, OthersRemove, callVars
    <2>2. ASSUME pc = "read", steady'
          PROVE  Lookups'
      <3>1. steady /\ board' = board
        BY <2>1, <2>2
      <3>2. Lookups
        BY <2>2, <3>1 DEF MembersInv
      <3> QED  BY <2>1, <3>1, <3>2 DEF Lookups, LookedUp, RowsOf, RowOf, Position, Entries, Before
    <2> QED  BY <1>0, <1>a, <2>1, <2>2 DEF MembersInv
  <1>11. CASE UNCHANGED vars
    <2>1. /\ pc = pc' /\ call' = call /\ reading' = reading /\ toRead' = toRead
          /\ answer' = answer /\ outcome' = outcome /\ steady' = steady /\ board' = board
      BY <1>11 DEF vars, callVars
    <2>2. Lookups' = Lookups
      BY <2>1 DEF Lookups, LookedUp, RowsOf, RowOf, Position, Entries, Before
    <2>3. MembersAsOnBoard' = MembersAsOnBoard
      BY <2>1 DEF MembersAsOnBoard, Answered, Position, Entries, Before
    <2> QED  BY <1>0, <2>1, <2>2, <2>3 DEF MembersInv
  <1> QED
    BY <1>1, <1>2, <1>3, <1>4, <1>5, <1>6, <1>7, <1>8, <1>9, <1>10, <1>11 DEF Next

\* GetMembers of a board that nobody changes answers with those of its list that
\* are on it, each with the board's score and rank, in whichever order they are
\* looked up (GetMembers, redis.go).
THEOREM MembersAsOnBoardAlways == Spec => []MembersAsOnBoard
  <1>1. MembersInv => MembersAsOnBoard
    BY DEF MembersInv
  <1> QED  BY <1>1, InitMembersInv, NextMembersInv, PTL DEF Spec

-----------------------------------------------------------------------------
(* The positions of a board have no gaps                                   *)

\* An entry is before another if and only if its position is smaller.
LEMMA PositionOrder ==
    ASSUME board \in Boards, NEW o \in Orders, NEW m \in Entries, NEW n \in Entries
    PROVE  Before(o, m, n) <=> Position(o, m) < Position(o, n)
  <1> DEFINE P(e) == {x \in Entries : Before(o, x, e)}
  <1>1. \A e : Position(o, e) = Cardinality(P(e)) /\ Position(o, e) \in Nat
               /\ IsFiniteSet(P(e))
    BY PositionType DEF Position
  <1>2. ASSUME NEW d \in Entries, NEW e \in Entries, Before(o, d, e)
        PROVE  Position(o, d) < Position(o, e)
    <2>1. P(d) \in SUBSET P(e)
      BY <1>2, StrictOrder
    <2>2. Cardinality(P(d)) <= Cardinality(P(e))
      BY <1>1, <2>1, FS_Subset
    <2>3. Position(o, d) # Position(o, e)
      BY <1>2, PositionMonotonic
    <2>4. Position(o, d) <= Position(o, e)
      BY <1>1, <2>2
    <2>5. Position(o, d) \in Nat /\ Position(o, e) \in Nat
      BY <1>1
    <2> HIDE DEF P
    <2> QED  BY <2>3, <2>4, <2>5
  <1> HIDE DEF P
  <1>3. ASSUME Position(o, m) < Position(o, n)
        PROVE  Before(o, m, n)
    <2>1. ~(Position(o, n) < Position(o, m)) /\ Position(o, m) # Position(o, n)
      BY <1>1, <1>3
    <2>2. m # n /\ ~Before(o, n, m)
      BY <1>2, <2>1
    <2> QED  BY <2>2, Trichotomy
  <1> QED  BY <1>2, <1>3

\* Positions are below the number of entries.
LEMMA PositionBelow ==
    ASSUME board \in Boards, NEW o \in Orders, NEW m \in Entries
    PROVE  Position(o, m) \in 0 .. (ZCard - 1)
  <1> DEFINE P == {x \in Entries : Before(o, x, m)}
  <1>1. P \in SUBSET (Entries \ {m})
    BY StrictOrder
  <1>2. IsFiniteSet(Entries \ {m}) /\ Cardinality(Entries \ {m}) = ZCard - 1
    BY EntriesFinite, FS_RemoveElement DEF ZCard
  <1>3. Cardinality(P) <= Cardinality(Entries \ {m})
    BY <1>1, <1>2, FS_Subset
  <1>4. Position(o, m) = Cardinality(P) /\ Position(o, m) \in Nat
    BY PositionType DEF Position
  <1> HIDE DEF P
  <1> QED  BY <1>2, <1>3, <1>4, EntriesFinite

\* And every number below it is the position of an entry: as many different
\* positions as there are entries leave none of them free.
LEMMA PositionsFill ==
    ASSUME board \in Boards, NEW o \in Orders, NEW i \in 0 .. (ZCard - 1)
    PROVE  \E m \in Entries : Position(o, m) = i
  <1> DEFINE T == 0 .. (ZCard - 1)
             f == [m \in Entries |-> Position(o, m)]
  <1>1. f \in [Entries -> T]
    BY PositionBelow
  <1>2. \A m, n \in Entries : f[m] = f[n] => m = n
    BY PositionInjective
  <1>3. f \in Injection(Entries, T)
    BY <1>1, <1>2 DEF Injection, IsInjective
  <1>4. IsFiniteSet(T) /\ Cardinality(T) = ZCard
    <2>1. IsFiniteSet(T) /\ Cardinality(T) = IF 0 > ZCard - 1 THEN 0 ELSE (ZCard - 1) - 0 + 1
      BY EntriesFinite, FS_Interval
    <2> QED  BY <2>1, EntriesFinite
  <1> HIDE DEF T, f
  <1>5. f \in Surjection(Entries, T)
    BY <1>3, <1>4, FS_Injection DEF ZCard
  <1>6. PICK m \in Entries : f[m] = i
    BY <1>5 DEF Surjection, T
  <1> QED  BY <1>6 DEF f

-----------------------------------------------------------------------------
(* What ZRANGE answers                                                     *)

LEMMA PositionNat == \A o, m : Position(o, m) \in Nat
  BY PositionType

\* The entries at the positions from start to stop.
Between(start, stop) ==
    {m \in Entries : start <= Position(call.order, m) /\ Position(call.order, m) <= stop}

\* Of positions from the top or further down, ZRANGE gives the rows of the
\* entries that are there.
LEMMA RangeRows ==
    ASSUME board \in Boards, NEW start \in Nat, NEW stop \in Int, stop >= 0 \/ Entries = {}
    PROVE  GetOrderedMembers(call.order, start, stop) = {RowOf(m) : m \in Between(start, stop)}
  <1>1. AtLeast(0, FromEnd(start)) = start
    BY DEF AtLeast, FromEnd
  <1>2. ZRange(call.order, start, stop) = Between(start, stop)
    <2>1. CASE stop >= 0
      BY <1>1, <2>1 DEF ZRange, Between, FromEnd
    <2>2. CASE Entries = {}
      BY <2>2 DEF ZRange, Between
    <2> QED  BY <2>1, <2>2
  <1>3. ASSUME NEW m
        PROVE  start + (Position(call.order, m) - start) + 1 = Position(call.order, m) + 1
    <2>1. Position(call.order, m) \in Nat
      BY PositionNat
    <2> QED  BY <2>1
  <1>4. GetOrderedMembers(call.order, start, stop) =
          {[member |-> m, score |-> board[m],
            rank |-> start + (Position(call.order, m) - start) + 1] : m \in Between(start, stop)}
    BY <1>1, <1>2 DEF GetOrderedMembers
  <1>5. \A m : [member |-> m, score |-> board[m],
                rank |-> start + (Position(call.order, m) - start) + 1] = RowOf(m)
    BY <1>3 DEF RowOf
  <1> QED  BY <1>4, <1>5

\* A window within the board is answered by as many rows as it is long.
LEMMA RowsFill ==
    ASSUME board \in Boards, call.order \in Orders,
           NEW start \in Nat, NEW stop \in Nat, start <= stop, stop < ZCard
    PROVE  Cardinality({RowOf(m) : m \in Between(start, stop)}) = stop - start + 1
  <1> DEFINE rows == {RowOf(m) : m \in Between(start, stop)}
             T == start .. stop
             f == [row \in rows |-> Position(call.order, row.member)]
  <1>0. \A m : RowOf(m).member = m
    BY DEF RowOf
  <1>1. \A row \in rows : row.member \in Between(start, stop) /\ row = RowOf(row.member)
    BY <1>0
  <1>2. ASSUME NEW m \in Between(start, stop)
        PROVE  m \in Entries /\ Position(call.order, m) \in T /\ RowOf(m) \in rows
    <2>1. Position(call.order, m) \in Nat
      BY PositionNat
    <2> QED  BY <2>1 DEF Between
  <1> HIDE DEF rows
  <1>3. f \in [rows -> T]
    BY <1>1, <1>2
  <1>4. \A x, y \in rows : f[x] = f[y] => x = y
    <2> SUFFICES ASSUME NEW x \in rows, NEW y \in rows, f[x] = f[y]
                 PROVE  x = y
      OBVIOUS
    <2>1. x.member = y.member
      BY <1>1, <1>2, PositionInjective
    <2> QED  BY <1>1, <2>1
  <1>5. \A i \in T : \E row \in rows : f[row] = i
    <2> SUFFICES ASSUME NEW i \in T
                 PROVE  \E row \in rows : f[row] = i
      OBVIOUS
    <2>1. i \in 0 .. (ZCard - 1) /\ start <= i /\ i <= stop
      BY EntriesFinite
    <2>2. PICK m \in Entries : Position(call.order, m) = i
      BY <2>1, PositionsFill
    <2>3. m \in Between(start, stop)
      BY <2>1, <2>2 DEF Between
    <2> QED  BY <1>0, <1>2, <2>2, <2>3
  <1>6. IsFiniteSet(T) /\ Cardinality(T) = stop - start + 1
    <2>1. IsFiniteSet(T) /\ Cardinality(T) = IF start > stop THEN 0 ELSE stop - start + 1
      BY FS_Interval
    <2> QED  BY <2>1
  <1> HIDE DEF T, f
  <1>7. f \in Injection(rows, T) /\ f \in Surjection(rows, T)
    BY <1>3, <1>4, <1>5 DEF Injection, IsInjective, Surjection
  <1>8. Cardinality(rows) = Cardinality(T)
    BY <1>6, <1>7, FS_Injection
  <1> QED  BY <1>6, <1>8 DEF rows

-----------------------------------------------------------------------------
(* Which positions are asked for                                           *)

\* Products of a positive factor grow with the other one.
LEMMA ProductGrows ==
    ASSUME NEW a \in Int, NEW b \in Int, NEW size \in Nat \ {0}, a < b
    PROVE  a * size + size <= b * size
  <1>1. PICK d \in Nat : b = a + 1 + d
    <2>1. b - a - 1 \in Nat /\ b = a + 1 + (b - a - 1)
      OBVIOUS
    <2> QED  BY <2>1
  <1>2. b * size = a * size + size + d * size
    BY <1>1
  <1>3. d * size >= 0 /\ d * size \in Int /\ a * size \in Int
    BY Product
  <1> QED  BY <1>2, <1>3

\* The quotient by the page size tells on which page a position is.
LEMMA PageOfPosition ==
    ASSUME NEW size \in Nat \ {0}, NEW page \in Nat \ {0}, NEW p \in Nat
    PROVE  LET i == GetIndexesByPage(size, page)
           IN  p \div size = page - 1 <=> i.Start <= p /\ p <= i.Stop
  <1> DEFINE q == p \div size
             start == (page - 1) * size
  <1>1. q \in Int /\ q * size <= p /\ p < q * size + size
    OBVIOUS
  <1>2. start \in Int /\ q * size \in Int
    BY <1>1, Product
  <1>3. GetIndexesByPage(size, page) = [Start |-> start, Stop |-> start + size - 1]
    BY DEF GetIndexesByPage
  <1>4. q < page - 1 => q * size + size <= start
    BY <1>1, ProductGrows
  <1>5. page - 1 < q => start + size <= q * size
    BY <1>1, ProductGrows
  <1>6. q = page - 1 => q * size = start
    OBVIOUS
  <1> DEFINE below == q * size
  <1>7. below \in Int /\ below <= p /\ p < below + size
    BY <1>1, <1>2
  <1>8. /\ q < page - 1 => below + size <= start
        /\ page - 1 < q => start + size <= below
        /\ q = page - 1 => below = start
    BY <1>4, <1>5, <1>6
  <1> HIDE DEF q, start, below
  <1>9. q = page - 1 <=> start <= p /\ p <= start + size - 1
    BY <1>1, <1>2, <1>7, <1>8
  <1> QED  BY <1>3, <1>9 DEF q

\* Of a page that does not exist no position is on the board.
LEMMA InvalidPageIsBeyond ==
    ASSUME NEW t \in Nat, NEW size \in Nat \ {0}, NEW page \in Nat \ {0},
           ~ValidPage(t, size, page)
    PROVE  t <= GetIndexesByPage(size, page).Start
  <1> DEFINE pages == (t + size - 1) \div size
             start == (page - 1) * size
  <1>1. pages \in Int /\ t + size - 1 < pages * size + size
    OBVIOUS
  <1>2. pages <= page - 1
    BY <1>1 DEF ValidPage, TotalPages
  <1>3. pages * size \in Int /\ start \in Int
    BY <1>1, Product
  <1>4. pages * size <= start
    <2>1. CASE pages = page - 1
      BY <2>1
    <2>2. CASE pages < page - 1
      <3>1. pages * size + size <= start
        BY <1>1, <2>2, ProductGrows
      <3> HIDE DEF pages, start
      <3> QED  BY <1>3, <3>1
    <2> HIDE DEF start, pages
    <2> QED  BY <1>1, <1>2, <2>1, <2>2
  <1> DEFINE below == pages * size
  <1>5. t + size - 1 < below + size /\ below \in Int /\ below <= start
    BY <1>1, <1>3, <1>4
  <1>6. GetIndexesByPage(size, page).Start = start
    BY DEF GetIndexesByPage
  <1> HIDE DEF below, start
  <1> QED  BY <1>3, <1>5, <1>6

\* About a rank of the board, or the one after its last, the positions asked for
\* are within the board, as many as there may be, and hold that of the rank, or
\* else the last one.
LEMMA AroundCovers ==
    ASSUME NEW t \in Nat \ {0}, NEW r \in 1 .. (t + 1), NEW size \in Nat, size > 1
    PROVE  LET i == CalculateIndexesAroundMemberRank(t, r, size)
               wanted == IF r > t THEN t - 1 ELSE r - 1
           IN  /\ i.Start \in Nat /\ i.Stop \in Nat
               /\ i.Start <= wanted /\ wanted <= i.Stop /\ i.Stop < t
               /\ i.Stop - i.Start + 1 = Smaller(size, t)
  <1> DEFINE half == Half(size)
             start == AtLeast(0, r - half)
             wanted == IF r > t THEN t - 1 ELSE r - 1
             first == AtLeast(0, t - size)
  <1>1. half \in Nat /\ 1 <= half /\ half < size
    BY DEF Half
  <1> HIDE DEF half
  <1>2. start \in Nat /\ (start = 0 \/ start = r - half) /\ start >= r - half
    BY <1>1 DEF AtLeast
  <1>3. first \in Nat /\ (first = 0 \/ first = t - size) /\ first >= t - size
    BY DEF AtLeast
  <1>4. CalculateIndexesAroundMemberRank(t, r, size) =
          IF start + size - 1 >= t
          THEN [Start |-> first, Stop |-> t - 1]
          ELSE [Start |-> start, Stop |-> start + size - 1]
    BY DEF CalculateIndexesAroundMemberRank, half
  <1>5. wanted \in Nat /\ wanted < t /\ (r <= t => wanted = r - 1) /\ (r > t => wanted = t - 1)
    OBVIOUS
  <1> HIDE DEF start, first, wanted
  <1>6. CASE start + size - 1 >= t
    <2>1. first <= wanted
      BY <1>1, <1>2, <1>3, <1>5, <1>6
    <2>2. (t - 1) - first + 1 = Smaller(size, t)
      BY <1>2, <1>3, <1>6 DEF Smaller
    <2> QED  BY <1>3, <1>4, <1>5, <1>6, <2>1, <2>2 DEF wanted
  <1>7. CASE ~(start + size - 1 >= t)
    <2>1. start <= wanted /\ wanted <= start + size - 1
      BY <1>1, <1>2, <1>5, <1>7
    <2>2. size = Smaller(size, t)
      BY <1>2, <1>7 DEF Smaller
    <2> QED  BY <1>2, <1>4, <1>5, <1>7, <2>1, <2>2 DEF wanted
  <1> QED  BY <1>6, <1>7

-----------------------------------------------------------------------------
(* What a reader has found out, as long as it is true                      *)

Surrounding == {"around", "score"}

\* member is the one GetMemberIDWithClosestScore looks for.
Closest ==
    IF WithClosestScore(call.score) = {}
    THEN member = None
    ELSE member \in WithClosestScore(call.score)

RankWanted == IF member \in Entries THEN Position(call.order, member) + 1 ELSE ZCard + 1

IndexWanted == CalculateIndexesAroundMemberRank(ZCard, RankWanted, PageSize)

Surroundings == GetOrderedMembers(call.order, IndexWanted.Start, IndexWanted.Stop)

\* While nobody changes the board the reader knows the member, then its rank,
\* then the positions about it, and answers with what is there.  The page of
\* GetTopMembers depends on the request alone.
PageInv ==
    /\ ReadInv
    /\ steady /\ pc \in {"rank", "last", "total", "range"} /\ call.op = "score" => Closest
    /\ steady /\ pc = "last" => member \notin Entries
    /\ steady /\ pc \in {"total", "range"} /\ call.op \in Surrounding => rank = RankWanted
    /\ steady /\ pc = "range" /\ call.op \in Surrounding => index = IndexWanted
    /\ steady /\ outcome = "ok" /\ call.op \in Surrounding => answer = Surroundings
    /\ steady /\ outcome = "ok" /\ call.op = "score" => Closest
    /\ pc = "range" /\ call.op = "top" => index = GetIndexesByPage(PageSize, call.page)
    /\ TopPagesPartition

\* What a reader of the same board for the same call may find out is the same.
LEMMA SameView ==
    ASSUME board' = board, call' = call
    PROVE  /\ Entries' = Entries /\ ZCard' = ZCard /\ PageSize' = PageSize
           /\ \A m : Position(call.order, m)' = Position(call.order, m)
           /\ WithClosestScore(call.score)' = WithClosestScore(call.score)
  <1>1. Entries' = Entries /\ PageSize' = PageSize
    BY DEF Entries, PageSize
  <1>2. ASSUME NEW m
        PROVE  Position(call.order, m)' = Position(call.order, m)
    <2>1. {n \in Entries : Before(call.order, n, m)}'
            = {n \in Entries : Before(call.order, n, m)}
      BY <1>1 DEF Before
    <2> QED  BY <2>1 DEF Position
  <1>3. WithClosestScore(call.score)' = WithClosestScore(call.score)
    BY <1>1 DEF WithClosestScore, Before
  <1> QED  BY <1>1, <1>2, <1>3 DEF ZCard

\* What is to be known of the same member, too.
LEMMA SameSurroundings ==
    ASSUME board' = board, call' = call, member' = member
    PROVE  /\ Closest' = Closest /\ RankWanted' = RankWanted
           /\ IndexWanted' = IndexWanted /\ Surroundings' = Surroundings
  <1>1. /\ Entries' = Entries /\ ZCard' = ZCard /\ PageSize' = PageSize
        /\ \A m : Position(call.order, m)' = Position(call.order, m)
        /\ WithClosestScore(call.score)' = WithClosestScore(call.score)
    BY SameView
  <1>2. Closest' = Closest
    BY <1>1 DEF Closest
  <1>3. RankWanted' = RankWanted
    BY <1>1 DEF RankWanted
  <1>4. IndexWanted' = IndexWanted
    BY <1>1, <1>3 DEF IndexWanted
  <1>5. ASSUME NEW start, NEW stop
        PROVE  GetOrderedMembers(call.order, start, stop)' = GetOrderedMembers(call.order, start, stop)
    <2>1. FromEnd(start)' = FromEnd(start) /\ FromEnd(stop)' = FromEnd(stop)
      BY <1>1 DEF FromEnd
    <2>2. ZRange(call.order, start, stop)' = ZRange(call.order, start, stop)
      BY <1>1, <2>1 DEF ZRange
    <2> QED  BY <1>1, <2>1, <2>2 DEF GetOrderedMembers
  <1>6. Surroundings' = Surroundings
    BY <1>4, <1>5 DEF Surroundings
  <1> QED  BY <1>2, <1>3, <1>4, <1>6

\* The page of a request, as the board is now.
TopPage ==
    LET i == GetIndexesByPage(PageSize, call.page)
    IN  {RowOf(m) : m \in Between(i.Start, i.Stop)}

\* It is the piece of the board that TopPagesPartition speaks of.
LEMMA TopPageIsPiece ==
    ASSUME PageSize \in Nat \ {0}, call.page \in Nat \ {0}
    PROVE  TopPage = {[member |-> m, score |-> board[m], rank |-> Position(call.order, m) + 1] :
                        m \in {n \in Entries : Position(call.order, n) \div PageSize = call.page - 1}}
  <1> DEFINE i == GetIndexesByPage(PageSize, call.page)
             piece == {n \in Entries : Position(call.order, n) \div PageSize = call.page - 1}
  <1>1. \A m : Position(call.order, m) \div PageSize = call.page - 1
                 <=> i.Start <= Position(call.order, m) /\ Position(call.order, m) <= i.Stop
    BY PositionNat, PageOfPosition
  <1> HIDE DEF i
  <1>2. Between(i.Start, i.Stop) = piece
    BY <1>1 DEF Between
  <1> QED  BY <1>2 DEF TopPage, RowOf, i

LEMMA InitPageInv == Init => PageInv
  BY InitReadInv DEF Init, PageInv, TopPagesPartition, Answered

\* The piece of the board that is asked for is the one that is answered.
LEMMA RangeAnswersPage ==
    ASSUME PageInv, GetRange
    PROVE  TopPagesPartition'
  <1>1. /\ pc = "range" /\ board' = board /\ call' = call
        /\ answer' = GetOrderedMembers(call.order, index.Start, index.Stop)
    BY DEF GetRange, At
  <1>2. /\ board \in Boards /\ PageSize \in Int /\ call.page \in Nat \ {0}
    BY <1>1, CallType DEF PageInv, ReadInv, TypeOK, Boards
  <1>3. ASSUME call.op = "top", PageSize > 0
        PROVE  answer' = {[member |-> m, score |-> board[m], rank |-> Position(call.order, m) + 1] :
                 m \in {n \in Entries : Position(call.order, n) \div PageSize = call.page - 1}}
    <2>1. PageSize \in Nat \ {0}
      BY <1>2, <1>3
    <2>2. index = GetIndexesByPage(PageSize, call.page)
      BY <1>1, <1>3 DEF PageInv
    <2>3. index.Start \in Nat /\ index.Stop \in Nat
      <3>1. index \in Index /\ index.Start >= 0 /\ index.Stop >= 0
        BY <1>2, <1>3, <2>2, PageWidth
      <3> QED  BY <3>1 DEF Index
    <2>4. answer' = TopPage
      BY <1>1, <1>2, <2>2, <2>3, RangeRows DEF TopPage
    <2> QED  BY <1>2, <2>1, <2>4, TopPageIsPiece
  <1>4. /\ Entries' = Entries /\ PageSize' = PageSize
        /\ \A m : Position(call.order, m)' = Position(call.order, m)
    BY <1>1, SameView
  <1> QED  BY <1>1, <1>3, <1>4 DEF TopPagesPartition, Answered

\* A page beyond those ZCARD counts is answered empty, and has no member.
LEMMA NoPageAnswersPage ==
    ASSUME PageInv, GetTotalMembers, pc' = "done"
    PROVE  TopPagesPartition'
  <1>1. /\ pc = "total" /\ board' = board /\ call' = call /\ answer' = answer
        /\ call.op = "top" /\ ~ValidPage(ZCard, PageSize, call.page)
    BY DEF GetTotalMembers, At
  <1>2. /\ board \in Boards /\ PageSize \in Int /\ call.page \in Nat \ {0}
        /\ call.order \in Orders
    BY <1>1, CallType DEF PageInv, ReadInv, TypeOK, Boards
  <1>3. answer = {}
    BY <1>1 DEF PageInv, ReadInv
  <1>4. ASSUME PageSize > 0
        PROVE  answer' = {[member |-> m, score |-> board[m], rank |-> Position(call.order, m) + 1] :
                 m \in {n \in Entries : Position(call.order, n) \div PageSize = call.page - 1}}
    <2>1. PageSize \in Nat \ {0}
      BY <1>2, <1>4
    <2> DEFINE i == GetIndexesByPage(PageSize, call.page)
    <2>2. ZCard <= i.Start /\ i.Start \in Int
      BY <1>1, <1>2, <2>1, EntriesFinite, InvalidPageIsBeyond, PageWidth DEF Index
    <2> HIDE DEF i
    <2>3. Between(i.Start, i.Stop) = {}
      <3>1. ASSUME NEW m \in Entries
            PROVE  ~(i.Start <= Position(call.order, m))
        <4>1. Position(call.order, m) \in 0 .. (ZCard - 1)
          BY <1>2, PositionBelow
        <4> QED  BY <2>2, <4>1, EntriesFinite
      <3> QED  BY <3>1 DEF Between
    <2>4. TopPage = {}
      BY <2>3 DEF TopPage, i
    <2> QED  BY <1>1, <1>2, <1>3, <2>1, <2>4, TopPageIsPiece
  <1>5. /\ Entries' = Entries /\ PageSize' = PageSize
        /\ \A m : Position(call.order, m)' = Position(call.order, m)
    BY <1>1, SameView
  <1> QED  BY <1>1, <1>4, <1>5 DEF TopPagesPartition, Answered

\* Every step keeps the invariant.
LEMMA NextPageInv == PageInv /\ [Next]_vars => PageInv'
  <1> SUFFICES ASSUME PageInv, [Next]_vars
               PROVE  PageInv'
    OBVIOUS
  <1>0. ReadInv' /\ ReadInv
    BY NextReadInv DEF PageInv
  <1>a. ASSUME outcome' # "ok" \/ call'.op # "top"
        PROVE  TopPagesPartition'
    BY <1>a DEF TopPagesPartition, Answered
  <1>1. CASE Start
    <2>1. PICK c \in Calls :
             /\ call' = c
             /\ \/ pc' = "done" /\ outcome' = "invalid"
                \/ pc' = FirstStep[c.op] /\ outcome' = outcome
      BY <1>1 DEF Start, End
    <2>2. c.op \in Ops
      BY CallsAssumption
    <2>3. /\ pc' \in {"done", "closest", "rank", "total", "read"}
          /\ pc' = "rank" => call'.op # "score"
          /\ pc' = "total" => call'.op \notin Surrounding
      BY <2>1, <2>2 DEF Ops, FirstStep, Surrounding
    <2>4. pc = "idle" /\ outcome # "ok"
      BY <1>0, <1>1 DEF Start, ReadInv
    <2>5. outcome' # "ok"
      BY <2>1, <2>4
    <2>6. TopPagesPartition'
      BY <1>a, <2>5
    <2>7. call'.op = "score" => call'.op \in Surrounding
      BY DEF Surrounding
    <2> QED  BY <1>0, <2>3, <2>5, <2>6, <2>7 DEF PageInv
  <1>2. CASE GetMemberIDWithClosestScore
    <2>1. /\ pc' = "rank" /\ outcome' = "none" /\ board' = board /\ call' = call
      BY <1>2 DEF GetMemberIDWithClosestScore, At
    <2>2. Closest'
      <3>1. WithClosestScore(call.score)' = WithClosestScore(call.score)
        BY <2>1, SameView
      <3> QED  BY <1>2, <2>1, <3>1 DEF GetMemberIDWithClosestScore, Closest
    <2>3. TopPagesPartition'
      BY <1>a, <2>1
    <2> QED  BY <1>0, <2>1, <2>2, <2>3 DEF PageInv
  <1>3. CASE GetRank
    <2>1. /\ pc = "rank" /\ outcome' # "ok" /\ board' = board /\ call' = call
          /\ member' = member /\ steady' = steady
          /\ \/ pc' = "total" /\ member \in Entries /\ rank' = Position(call.order, member) + 1
             \/ pc' = "last" /\ member \notin Entries
             \/ pc' = "done"
      BY <1>3 DEF GetRank, At, End
    <2>2. Closest' = Closest /\ RankWanted' = RankWanted /\ Entries' = Entries
      BY <2>1, SameSurroundings, SameView
    <2>3. pc' = "total" => rank' = RankWanted'
      BY <2>1, <2>2 DEF RankWanted
    <2>4. TopPagesPartition'
      BY <1>a, <2>1
    <2> QED  BY <1>0, <2>1, <2>2, <2>3, <2>4 DEF PageInv
  <1>4. CASE GetLastRank
    <2>1. /\ pc = "last" /\ pc' = "total" /\ outcome' # "ok" /\ board' = board /\ call' = call
          /\ member' = member /\ steady' = steady /\ rank' = ZCard + 1
      BY <1>4 DEF GetLastRank, At
    <2>2. Closest' = Closest /\ RankWanted' = RankWanted
      BY <2>1, SameSurroundings
    <2>3. steady => rank' = RankWanted'
      BY <2>1, <2>2 DEF PageInv, RankWanted
    <2>4. TopPagesPartition'
      BY <1>a, <2>1
    <2> QED  BY <1>0, <2>1, <2>2, <2>3, <2>4 DEF PageInv
  <1>5. CASE GetTotalMembers
    <2>1. /\ pc = "total" /\ board' = board /\ call' = call /\ member' = member
          /\ steady' = steady /\ rank' = rank
      BY <1>5 DEF GetTotalMembers, At
    <2>2. /\ Closest' = Closest /\ RankWanted' = RankWanted /\ IndexWanted' = IndexWanted
          /\ PageSize' = PageSize
      BY <2>1, SameSurroundings, SameView
    <2>3. \/ pc' = "range" /\ outcome' = "none"
          \/ pc' = "done" /\ outcome' = "ok" /\ call.op = "top"
      BY <1>5 DEF GetTotalMembers, At, End
    <2>4. ASSUME steady, call.op \in Surrounding
          PROVE  rank' = RankWanted' /\ index' = IndexWanted'
      <3>1. rank = RankWanted
        BY <2>1, <2>4 DEF PageInv
      <3>2. index' = CalculateIndexesAroundMemberRank(ZCard, rank, PageSize)
        BY <1>5, <2>4 DEF GetTotalMembers, Surrounding
      <3> QED  BY <2>1, <2>2, <3>1, <3>2 DEF IndexWanted
    <2>5. pc' = "range" /\ call.op = "top" => index' = GetIndexesByPage(PageSize, call.page)
      BY <1>5 DEF GetTotalMembers, End
    <2>6. TopPagesPartition'
      BY <1>5, <1>a, <2>3, NoPageAnswersPage
    <2> QED  BY <1>0, <2>1, <2>2, <2>3, <2>4, <2>5, <2>6 DEF PageInv, Surrounding
  <1>6. CASE GetRange
    <2>1. /\ pc = "range" /\ pc' = "done" /\ board' = board /\ call' = call /\ member' = member
          /\ steady' = steady
          /\ answer' = GetOrderedMembers(call.order, index.Start, index.Stop)
      BY <1>6 DEF GetRange, At, End
    <2>2. Closest' = Closest /\ Surroundings' = Surroundings
      BY <2>1, SameSurroundings
    <2>3. steady /\ call.op \in Surrounding => answer' = Surroundings'
      BY <2>1, <2>2 DEF PageInv, Surroundings
    <2>4. TopPagesPartition'
      BY <1>6, RangeAnswersPage
    <2> QED  BY <1>0, <2>1, <2>2, <2>3, <2>4 DEF PageInv
  <1>7. CASE ReadScore \/ ReadRank
    <2>1. pc' \in {"read", "done"} /\ outcome' # "ok"
      BY <1>7 DEF ReadScore, ReadRank, At, End
    <2>2. TopPagesPartition'
      BY <1>a, <2>1
    <2> QED  BY <1>0, <2>1, <2>2 DEF PageInv
  <1>8. CASE AllRead
    <2>1. pc' = "done" /\ call'.op = "members"
      BY <1>0, <1>8 DEF AllRead, At, End, ReadInv
    <2>2. TopPagesPartition'
      BY <1>a, <2>1
    <2> QED  BY <1>0, <2>1, <2>2 DEF PageInv, Surrounding
  <1>9. CASE OthersWrite \/ OthersRemove
    <2>1. /\ pc' = pc /\ pc # "done" /\ outcome' = outcome /\ call' = call /\ member' = member
          /\ rank' = rank /\ index' = index /\ steady' = (steady /\ board' = board)
      BY <1>9 DEF OthersWrite, OthersRemove, callVars
    <2>2. outcome' # "ok"
      BY <1>0, <2>1 DEF ReadInv
    <2>3. steady' => /\ steady /\ Entries' = Entries
                     /\ Closest' = Closest /\ RankWanted' = RankWanted
                     /\ IndexWanted' = IndexWanted
      BY <2>1, SameSurroundings, SameView
    <2>4. PageSize' = PageSize
      BY <2>1 DEF PageSize
    <2>5. TopPagesPartition'
      BY <1>a, <2>2
    <2> QED  BY <1>0, <2>1, <2>2, <2>3, <2>4, <2>5 DEF PageInv
  <1>10. CASE UNCHANGED vars
    <2>1. /\ UNCHANGED <<board, pc, outcome, call, member, rank, index, answer, steady>>
      BY <1>10 DEF vars, callVars
    <2>2. /\ Closest' = Closest /\ RankWanted' = RankWanted /\ IndexWanted' = IndexWanted
          /\ Surroundings' = Surroundings
      BY <2>1, SameSurroundings
    <2>3. /\ Entries' = Entries /\ PageSize' = PageSize
          /\ \A m : Position(call.order, m)' = Position(call.order, m)
      BY <2>1, SameView
    <2>4. TopPagesPartition' = TopPagesPartition
      BY <2>1, <2>3 DEF TopPagesPartition, Answered
    <2> QED  BY <1>0, <2>1, <2>2, <2>3, <2>4 DEF PageInv
  <1> QED
    BY <1>1, <1>2, <1>3, <1>4, <1>5, <1>6, <1>7, <1>8, <1>9, <1>10 DEF Next

\* The pages of GetTopMembers are the board cut in pieces, each member on its
\* page and with its own rank, as the board is at the last command that reads it,
\* whatever happened to it before (getIndexesByPage, ensureValidPage).
THEOREM TopPagesPartitionAlways == Spec => []TopPagesPartition
  <1>1. PageInv => TopPagesPartition
    BY DEF PageInv
  <1> QED  BY <1>1, InitPageInv, NextPageInv, PTL DEF Spec

-----------------------------------------------------------------------------
(* The surroundings of a member, and of a score                            *)

\* The position that the surroundings are about: the member's, or else the last.
PositionWanted == IF member \in Entries THEN Position(call.order, member) ELSE ZCard - 1

\* A rank that is wanted is one of the board's, or the one after its last.
LEMMA RankWantedType ==
    ASSUME board \in Boards, call.order \in Orders
    PROVE  /\ RankWanted \in 1 .. (ZCard + 1)
           /\ Entries # {} =>
                PositionWanted = IF RankWanted > ZCard THEN ZCard - 1 ELSE RankWanted - 1
  <1>1. CASE member \in Entries
    <2>1. Position(call.order, member) \in 0 .. (ZCard - 1)
      BY <1>1, PositionBelow
    <2>2. RankWanted = Position(call.order, member) + 1
          /\ PositionWanted = Position(call.order, member)
      BY <1>1 DEF RankWanted, PositionWanted
    <2> QED  BY <2>1, <2>2, EntriesFinite
  <1>2. CASE member \notin Entries
    <2>1. RankWanted = ZCard + 1 /\ PositionWanted = ZCard - 1
      BY <1>2 DEF RankWanted, PositionWanted
    <2> QED  BY <2>1, EntriesFinite
  <1> QED  BY <1>1, <1>2

\* The surroundings are a window of the board: as wide as the page or the board,
\* and about the position wanted.
LEMMA SurroundingsAreWindow ==
    ASSUME board \in Boards, call.order \in Orders, PageSize \in Int, PageSize > 1
    PROVE  LET i == IndexWanted
           IN  /\ i.Start \in Nat /\ i.Stop \in Int
               /\ Surroundings = {RowOf(m) : m \in Between(i.Start, i.Stop)}
               /\ Cardinality(Surroundings) = Smaller(PageSize, ZCard)
               /\ \A m \in Entries : Position(call.order, m) = PositionWanted
                                        => m \in Between(i.Start, i.Stop)
  <1> DEFINE i == IndexWanted
  <1>1. PageSize \in Nat /\ ZCard \in Nat /\ RankWanted \in 1 .. (ZCard + 1)
    BY EntriesFinite, RankWantedType
  <1>2. CASE Entries = {}
    <2>1. ZCard = 0
      BY <1>2, EntriesFinite, FS_EmptySet DEF ZCard
    <2>2. RankWanted = 1
      BY <1>1, <2>1
    <2>3. i = [Start |-> 0, Stop |-> -1]
      <3>1. Half(PageSize) \in Nat /\ Half(PageSize) >= 1
        BY <1>1 DEF Half
      <3>2. AtLeast(0, RankWanted - Half(PageSize)) = 0
        BY <2>2, <3>1 DEF AtLeast
      <3>3. AtLeast(0, ZCard - PageSize) = 0
        BY <1>1, <2>1 DEF AtLeast
      <3>4. 0 + PageSize - 1 >= ZCard
        BY <1>1, <2>1
      <3> QED  BY <2>1, <3>2, <3>3, <3>4 DEF IndexWanted, CalculateIndexesAroundMemberRank
    <2>4. Surroundings = {RowOf(m) : m \in Between(i.Start, i.Stop)}
      BY <1>2, <2>3, RangeRows DEF Surroundings
    <2>5. Surroundings = {}
      BY <1>2, <2>4 DEF Between
    <2>6. Cardinality(Surroundings) = Smaller(PageSize, ZCard)
      BY <1>1, <2>1, <2>5, FS_EmptySet DEF Smaller
    <2> QED  BY <1>2, <2>3, <2>4, <2>6
  <1>3. CASE Entries # {}
    <2>1. ZCard \in Nat \ {0}
      BY <1>1, <1>3, EntriesFinite, FS_EmptySet DEF ZCard
    <2>2. /\ i.Start \in Nat /\ i.Stop \in Nat
          /\ i.Start <= PositionWanted /\ PositionWanted <= i.Stop /\ i.Stop < ZCard
          /\ i.Stop - i.Start + 1 = Smaller(PageSize, ZCard)
      BY <1>1, <1>3, <2>1, AroundCovers, RankWantedType DEF IndexWanted
    <2>3. PositionWanted \in Int
      BY PositionNat, EntriesFinite DEF PositionWanted
    <2> HIDE DEF i
    <2>4. i.Start <= i.Stop
      BY <2>2, <2>3
    <2>5. Surroundings = {RowOf(m) : m \in Between(i.Start, i.Stop)}
      BY <2>2, RangeRows DEF Surroundings, i
    <2>6. Cardinality(Surroundings) = i.Stop - i.Start + 1
      BY <2>2, <2>4, <2>5, RowsFill
    <2>7. \A m \in Entries : Position(call.order, m) = PositionWanted => m \in Between(i.Start, i.Stop)
      BY <2>2 DEF Between
    <2> QED  BY <2>2, <2>5, <2>6, <2>7 DEF i
  <1> QED  BY <1>2, <1>3

\* An answer that is the surroundings tells of those in the window and no others.
LEMMA SurroundingsAnswer ==
    ASSUME NEW start, NEW stop, answer = {RowOf(m) : m \in Between(start, stop)}
    PROVE  /\ \A m : Answers(m) <=> m \in Between(start, stop)
           /\ \A row \in answer : row.rank = Position(call.order, row.member) + 1
  <1>1. \A m : RowOf(m).member = m /\ RowOf(m).rank = Position(call.order, m) + 1
    BY DEF RowOf
  <1>2. \A row \in answer : \E m \in Between(start, stop) : row = RowOf(m)
    OBVIOUS
  <1>3. \A m \in Between(start, stop) : RowOf(m) \in answer
    OBVIOUS
  <1> QED  BY <1>1, <1>2, <1>3 DEF Answers

\* What PageInv says of a call that was answered.
LEMMA AnsweredSurroundings ==
    ASSUME PageInv, outcome = "ok", steady, call.op \in Surrounding, PageSize > 1
    PROVE  /\ board \in Boards /\ call.order \in Orders /\ PageSize \in Int
           /\ call \in Calls
           /\ answer = Surroundings
           /\ call.op = "score" => Closest
  <1>1. TypeOK /\ pc # "idle"
    BY DEF PageInv, ReadInv
  <1> QED  BY <1>1, CallType DEF PageInv, TypeOK, Boards

\* The surroundings of a member on a board that nobody changes are full, up to
\* the size of the board, without gaps, and hold the member, or else the last
\* one (calculateIndexesAroundMemberRank).
THEOREM SurroundingsAreFullAlways == Spec => []SurroundingsAreFull
  <1>1. ASSUME PageInv
        PROVE  SurroundingsAreFull
    <2>1. SUFFICES ASSUME outcome = "ok", call.op = "around", steady, PageSize > 1
                   PROVE  /\ Cardinality(answer) = Smaller(PageSize, ZCard)
                          /\ \A row \in answer : row.rank = Position(call.order, row.member) + 1
                          /\ \A m \in Entries :
                                (m = member \/ (member \notin Entries
                                   /\ Position(call.order, m) = ZCard - 1)) => Answers(m)
                          /\ \A m, n \in Entries : Answers(m) /\ Answers(n) =>
                                \A k \in Entries : Before(call.order, m, k)
                                                     /\ Before(call.order, k, n) => Answers(k)
      BY DEF SurroundingsAreFull, Answered
    <2>2. /\ board \in Boards /\ call.order \in Orders /\ PageSize \in Int
          /\ answer = Surroundings
      BY <1>1, <2>1, AnsweredSurroundings DEF Surrounding
    <2> DEFINE start == IndexWanted.Start
               stop == IndexWanted.Stop
    <2>3. /\ start \in Nat /\ stop \in Int
          /\ answer = {RowOf(m) : m \in Between(start, stop)}
          /\ Cardinality(answer) = Smaller(PageSize, ZCard)
          /\ \A m \in Entries : Position(call.order, m) = PositionWanted => m \in Between(start, stop)
      BY <2>1, <2>2, SurroundingsAreWindow
    <2> HIDE DEF start, stop
    <2>4. /\ \A m : Answers(m) <=> m \in Between(start, stop)
          /\ \A row \in answer : row.rank = Position(call.order, row.member) + 1
      BY <2>3, SurroundingsAnswer
    <2>5. \A m \in Entries : (m = member \/ (member \notin Entries
                                /\ Position(call.order, m) = ZCard - 1)) => Answers(m)
      BY <2>3, <2>4 DEF PositionWanted
    <2>6. ASSUME NEW m \in Entries, NEW n \in Entries, NEW k \in Entries,
                 Answers(m), Answers(n), Before(call.order, m, k), Before(call.order, k, n)
          PROVE  Answers(k)
      <3>1. /\ Position(call.order, m) < Position(call.order, k)
            /\ Position(call.order, k) < Position(call.order, n)
        BY <2>2, <2>6, PositionOrder
      <3>2. start <= Position(call.order, m) /\ Position(call.order, n) <= stop
        BY <2>4, <2>6 DEF Between
      <3>3. /\ Position(call.order, m) \in Nat /\ Position(call.order, k) \in Nat
            /\ Position(call.order, n) \in Nat
        BY PositionNat
      <3>4. start <= Position(call.order, k) /\ Position(call.order, k) <= stop
        BY <2>3, <3>1, <3>2, <3>3
      <3> QED  BY <2>4, <3>4 DEF Between
    <2> QED  BY <2>3, <2>4, <2>5, <2>6
  <1> QED  BY <1>1, InitPageInv, NextPageInv, PTL DEF Spec

\* In descending order an entry at the last position comes after all the others.
LEMMA LastEntry ==
    ASSUME board \in Boards, NEW o \in Orders, NEW m \in Entries, NEW n \in Entries, m # n,
           Position(o, m) = ZCard - 1
    PROVE  Before(o, n, m)
  <1>1. Position(o, n) \in 0 .. (ZCard - 1) /\ Position(o, n) # Position(o, m)
    BY PositionBelow, PositionInjective
  <1>2. Position(o, n) < Position(o, m)
    BY <1>1, EntriesFinite
  <1> QED  BY <1>2, PositionOrder

\* The entry with the next score below is the one the call found, and there is
\* none to be found if the last entry has a score above.
LEMMA ClosestIsWanted ==
    ASSUME board \in Boards, call \in Calls, Closest, NEW m \in Entries, call.order = "desc",
           \A n \in Entries : Before("desc", n, m) => board[n] > call.score,
           board[m] <= call.score \/ Position("desc", m) = ZCard - 1
    PROVE  Position(call.order, m) = PositionWanted
  <1>0. "desc" \in Orders /\ call.score \in Int
    BY CallsAssumption DEF Orders
  <1>1. CASE board[m] <= call.score
    <2>1. ASSUME NEW n \in Entries, board[n] <= call.score, n # m
          PROVE  Before("desc", m, n)
      <3>1. ~(board[n] > call.score)
        BY <1>0, <2>1, EntryScore
      <3>2. ~Before("desc", n, m)
        BY <3>1
      <3> QED  BY <1>0, <2>1, <3>2, Trichotomy
    <2>2. m \in WithClosestScore(call.score)
      BY <1>1, <2>1 DEF WithClosestScore
    <2>3. member \in WithClosestScore(call.score)
      BY <2>2 DEF Closest
    <2>4. member \in Entries /\ board[member] <= call.score
          /\ (m = member \/ Before("desc", member, m))
      BY <1>1, <2>3 DEF WithClosestScore
    <2>5. ~(board[member] > call.score)
      BY <1>0, <2>4, EntryScore
    <2>6. m = member
      BY <2>4, <2>5
    <2> QED  BY <2>6 DEF PositionWanted
  <1>2. CASE ~(board[m] <= call.score)
    <2>1. Position("desc", m) = ZCard - 1
      BY <1>2
    <2>2. \A n \in Entries : ~(board[n] <= call.score)
      <3> SUFFICES ASSUME NEW n \in Entries, n # m
                   PROVE  ~(board[n] <= call.score)
        BY <1>2
      <3>1. board[n] > call.score
        BY <1>0, <2>1, LastEntry
      <3> QED  BY <1>0, <3>1, EntryScore
    <2>3. WithClosestScore(call.score) = {}
      BY <2>2 DEF WithClosestScore
    <2>4. member \notin Entries
      BY <2>3, NamesAssumption DEF Closest, Entries
    <2> QED  BY <2>1, <2>4 DEF PositionWanted
  <1> QED  BY <1>1, <1>2

\* On a board that nobody changes, with scores in descending order, the members
\* around a score include the one with the next score below, or the last one
\* (GetMemberIDWithClosestScore, then the surroundings of that member).
THEOREM SurroundingsHoldScoreAlways == Spec => []SurroundingsHoldScore
  <1>1. ASSUME PageInv
        PROVE  SurroundingsHoldScore
    <2>1. SUFFICES ASSUME outcome = "ok", call.op = "score", steady, call.order = "desc",
                          PageSize > 1,
                          NEW m \in Entries,
                          \A n \in Entries : Before("desc", n, m) => board[n] > call.score,
                          board[m] <= call.score \/ Position("desc", m) = ZCard - 1
                   PROVE  Answers(m)
      BY DEF SurroundingsHoldScore, Answered
    <2>2. /\ board \in Boards /\ call.order \in Orders /\ PageSize \in Int /\ call \in Calls
          /\ answer = Surroundings /\ Closest
      BY <1>1, <2>1, AnsweredSurroundings DEF Surrounding
    <2>3. Position(call.order, m) = PositionWanted
      BY <2>1, <2>2, ClosestIsWanted
    <2> DEFINE start == IndexWanted.Start
               stop == IndexWanted.Stop
    <2>4. /\ answer = {RowOf(e) : e \in Between(start, stop)}
          /\ \A e \in Entries : Position(call.order, e) = PositionWanted => e \in Between(start, stop)
      BY <2>1, <2>2, SurroundingsAreWindow
    <2> HIDE DEF start, stop
    <2>5. m \in Between(start, stop)
      BY <2>3, <2>4
    <2> QED  BY <2>4, <2>5, SurroundingsAnswer
  <1> QED  BY <1>1, InitPageInv, NextPageInv, PTL DEF Spec

=============================================================================
