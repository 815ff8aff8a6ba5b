----------------------------- MODULE PodiumClaims -----------------------------
(***************************************************************************)
(* What the documentation says of scores and leaderboards that expire,     *)
(* stated over Podium.  Each of these is refuted by a run: see the         *)
(* findings in the README.                                                 *)
(***************************************************************************)
EXTENDS Podium

\* w's ZREM takes m's score off the board it visits.
RemovesScore(w, m) ==
    /\ wpc[w] = "expireScores" /\ wpc'[w] = "expireDeadlines"
    /\ scores[current[w]][m] # None

\* docs/API.md:64: without a scoreTTL the score never expires.  Said of
\* ExpireMembers: it never removes a score whose call asked for none.
UntimedScoresStay ==
    [][\A w \in Workers, m \in Members :
         RemovesScore(w, m) => Timed(scores[current[w]][m])]_vars

\* docs/API.md:62: a timed score whose deadline has come is expired.  Said
\* of the worker that goes on running: it gets to every such score.
DueScoresLeave ==
    \A l \in Boards, m \in Members, r \in Requests :
        (scores[l][m] = r /\ outcome[r] = "ok" /\ Timed(r) /\ Due(l, m))
            ~> (scores[l][m] # r \/ ~Due(l, m))

=============================================================================
