------------------------------ MODULE Scoreboard ------------------------------
(***************************************************************************)
(* What Podium promises its callers about scores, whatever happens to      *)
(* ranks, seasons and deadlines on the way: a call that writes scores      *)
(* writes those it was asked for, all of them at once, and before it is    *)
(* answered with success.  It writes them once; but when the answer to the *)
(* write is lost it may write them again, for as long as it waits for one  *)
(* and no longer, over whatever others have written or removed since.      *)
(* Everything else that happens to a board takes scores off it and changes *)
(* none.                                                                   *)
(***************************************************************************)
EXTENDS Naturals

CONSTANTS Boards, Members, Requests, None

VARIABLES
    board,    \* board[l][m]: the request whose score m has in l, or None
    asked,    \* asked[r]: the board and members r is to write, or None
    written,  \* the requests that have written
    settled,  \* the requests that write no more
    acked,    \* the requests answered with success
    faults    \* what has gone wrong so far

scoreboardVars == <<board, asked, written, settled, acked, faults>>

Wishes == [on : Boards, members : (SUBSET Members) \ {{}}]

Init ==
    /\ board = [l \in Boards |-> [m \in Members |-> None]]
    /\ asked = [r \in Requests |-> None]
    /\ written = {}
    /\ settled = {}
    /\ acked = {}
    /\ faults = 0

Ask(r) ==
    /\ asked[r] = None
    /\ \E wish \in Wishes : asked' = [asked EXCEPT ![r] = wish]
    /\ UNCHANGED <<board, written, settled, acked, faults>>

\* An answer to the write settles r; a lost one is a fault, and leaves r free to
\* write again.
Write(r) ==
    /\ asked[r] # None
    /\ r \notin settled
    /\ board' = [board EXCEPT ![asked[r].on] =
                    [m \in Members |-> IF m \in asked[r].members THEN r ELSE @[m]]]
    /\ written' = written \cup {r}
    /\ \/ settled' = settled \cup {r} /\ UNCHANGED faults
       \/ faults' = faults + 1 /\ UNCHANGED settled
    /\ UNCHANGED <<asked, acked>>

\* r is answered with an error that comes before its write, or in its place.
GiveUp(r) ==
    /\ asked[r] # None
    /\ settled' = settled \cup {r}
    /\ faults' \in {faults, faults + 1}
    /\ UNCHANGED <<board, asked, written, acked>>

Ack(r) ==
    /\ r \in written \cap settled
    /\ acked' = acked \cup {r}
    /\ UNCHANGED <<asked, written, settled, faults>>

\* Removed, expired or gone with its board.
ScoresOnlyLeave ==
    /\ board' \in [Boards -> [Members -> Requests \cup {None}]]
    /\ \A l \in Boards, m \in Members : board'[l][m] \in {board[l][m], None}

\* An answer may come with the last command, and that one may take scores away.
Next ==
    \/ \E r \in Requests : Ask(r) \/ Write(r) \/ GiveUp(r) \/ (Ack(r) /\ ScoresOnlyLeave)
    \/ /\ ScoresOnlyLeave
       /\ faults' \in {faults, faults + 1}
       /\ UNCHANGED <<asked, written, settled, acked>>

Spec == Init /\ [][Next]_scoreboardVars

=============================================================================
