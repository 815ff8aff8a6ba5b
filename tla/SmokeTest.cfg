\* The smoke test beside another caller.
SPECIFICATION SmokeSpec
CONSTANTS
    Nil = Nil
    None = None
    Digits <- DigitsOf
    DefaultPageSize = 2
    MaxReturnedMembers = 2
    MemberNames <- InNameOrder
    smoke = "smoke"
    SmokeBoard = "smoke"
    Callers = {"smoke", "other"}
    Wishes <- WishesOf
    Boards = {"smoke", "other", "over"}
    SeasonOver = {"over"}
    Scoreboards <- NobodyYet
    MaxFaults = 1
INVARIANTS
    SmokeFailsForAReason
PROPERTIES
    SmokeEnds
