-------------------------------- MODULE MCSmoke --------------------------------
(* A small instance of Smoke for TLC. *)
EXTENDS Smoke

DigitsOf == [n \in {0, 1, 5} |-> CASE n = 0 -> "0" [] n = 1 -> "1" [] n = 5 -> "5"]

InNameOrder == <<"member-0", "member-1", "member-2">>

\* Another caller writes to another leaderboard, and may meet a panic there.
WishesOf == [c \in Callers |->
    IF c = smoke THEN {}
    ELSE {[fn |-> "IncrementScore", leaderboard |-> "other", member |-> "member-1",
           increment |-> 1, ttl |-> 0],
          [fn |-> "UpdateScore", leaderboard |-> "over", member |-> "member-2", score |-> 1,
           ttl |-> 1],
          [fn |-> "DeleteLeaderboard", leaderboard |-> "other"]}]

NobodyYet == {[l \in Boards |-> EmptyBoard]}

=============================================================================
