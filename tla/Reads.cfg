\* Pages and members of a board that may change under the reader.
SPECIFICATION Spec
CONSTANTS
    None = None
    Calls <- AllReads
    Members = {1, 2, 3, 4}
    ScoreValues = {1, 2}
    DefaultPageSize = 3
    MaxReturnedMembers = 3
    MaxWrites = 1
INVARIANTS
    TypeOK PagesAreBounded
    TopPagesPartition SurroundingsAreFull SurroundingsHoldScore MembersAsOnBoard
\* Once the call is answered nothing is left to do.
CHECK_DEADLOCK FALSE
