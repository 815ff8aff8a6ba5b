-------------------------------- MODULE MCReads --------------------------------
(* Small instances of ScoreReads for TLC. *)
EXTENDS ScoreReads

CallsOf(ops, orders, sizes) ==
    [op : ops, order : orders, pageSize : sizes, page : {1}, amount : {1}, score : {1},
     members : {{}}, getLastIfNotFound : {FALSE}]

Around(sizes) ==
    {[c EXCEPT !.members = {m}, !.getLastIfNotFound = b] :
        c \in CallsOf({"around"}, Orders, sizes), m \in Members, b \in BOOLEAN}

AroundScore(sizes) ==
    {[c EXCEPT !.score = i] : c \in CallsOf({"score"}, Orders, sizes), i \in 0..3}

Top(sizes) ==
    {[c EXCEPT !.page = i] : c \in CallsOf({"top"}, Orders, sizes), i \in 1..3}

Percentage ==
    {[c EXCEPT !.amount = i] : c \in CallsOf({"percentage"}, Orders, {0}), i \in {1, 40, 100}}

MembersOf ==
    {[c EXCEPT !.members = S] :
        c \in CallsOf({"members"}, Orders, {0}), S \in (SUBSET Members) \ {{}}}

AllReads == Around(0..4) \cup AroundScore({0, 1, 2}) \cup Top(-1..4) \cup Percentage \cup MembersOf

=============================================================================
