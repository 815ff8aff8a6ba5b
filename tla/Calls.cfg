\* Two calls from end to end.
SPECIFICATION FairSpec
CONSTANTS
    Nil = Nil
    None = None
    Digits <- DigitsOf
    DefaultPageSize = 2
    MaxReturnedMembers = 2
    MemberNames <- InNameOrder
    Callers = {"first", "second"}
    Wishes <- WishesOf
    Boards = {"b", "over"}
    SeasonOver = {"over"}
    Scoreboards <- NobodyYet
    MaxFaults = 1
INVARIANTS
    TypeOK RequestsReachTheirHandler WritesFollowTheCall ClientErrorsWroteNothing
    IncrementsAddUp
PROPERTIES
    CallersAreAnswered
