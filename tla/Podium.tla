-------------------------------- MODULE Podium --------------------------------
(***************************************************************************)
(* The system: API calls that write and remove scores, the expiration      *)
(* workers and the clock, over one Redis.                                  *)
(***************************************************************************)
EXTENDS ScoreWrites, ExpirationWorker

CONSTANTS
    MaxRemovals,  \* bound on the calls that remove members or a leaderboard
    MaxFaults     \* bound on failing commands, lost answers and dying workers

ASSUME BoundsAssumption == MaxRemovals \in Nat /\ MaxFaults \in Nat
ASSUME NoneIsNoWish == None \notin [on : Boards, members : SUBSET Members]
ASSUME NoneIsNoWorker == None \notin Workers /\ None \notin Boards

VARIABLES
    removals, faults,   \* how many there were
    touched,   \* history: members of the board w visits that others changed
    dropped    \* history: boards a worker took off the list, deadlines and all

boundVars == <<removals, faults>>
historyVars == <<touched, dropped>>
vars == <<storeVars, writeVars, workerVars, boundVars, historyVars>>

Init ==
    /\ StoreInit
    /\ WriteInit
    /\ WorkerInit
    /\ removals = 0
    /\ faults = 0
    /\ touched = [w \in Workers |-> {}]
    /\ dropped = {}

-----------------------------------------------------------------------------
(* The history variables: no action reads them.                            *)

Changed(l) ==
    {m \in Members : \/ scores'[l][m] # scores[l][m]
                     \/ deadlines'[l][m] # deadlines[l][m]}

\* self took this step: its own changes are not an overlap.
Observe(self) ==
    /\ touched' = [w \in Workers |->
                     IF wpc'[w] \in {"sleep", "next"} THEN {}
                     ELSE IF w = self THEN touched[w]
                     ELSE touched[w] \cup Changed(current[w])]
    /\ dropped' = {l \in dropped \cup (expirationSets \ expirationSets') :
                     l \notin expirationSets' /\ Exists(deadlines'[l])}

-----------------------------------------------------------------------------
(* The steps of the system                                                 *)

CallStep(r) ==
    /\ WriteStep(r)
    /\ UNCHANGED <<workerVars, boundVars>>
    /\ Observe(None)

CallStarts(r) ==
    /\ Start(r)
    /\ UNCHANGED <<workerVars, boundVars>>
    /\ Observe(None)

CallFails(r) ==
    /\ faults < MaxFaults
    /\ faults' = faults + 1
    /\ CommandFails(r)
    /\ UNCHANGED <<workerVars, removals>>
    /\ Observe(None)

CallIsUnanswered(r) ==
    /\ faults < MaxFaults
    /\ faults' = faults + 1
    /\ LoseAnswer(r)
    /\ UNCHANGED <<workerVars, removals>>
    /\ Observe(None)

\* The API calls RemoveMember and RemoveMembers: one ZREM.  Sent again for want
\* of an answer, it is another one.
RemoveSomeMembers ==
    /\ removals < MaxRemovals
    /\ removals' = removals + 1
    /\ \E l \in Boards, S \in (SUBSET Members) \ {{}} : RemoveMembers(l, S)
    /\ UNCHANGED <<writeVars, workerVars, faults>>
    /\ Observe(None)

\* The API call RemoveLeaderboard: one DEL.
RemoveWholeLeaderboard ==
    /\ removals < MaxRemovals
    /\ removals' = removals + 1
    /\ \E l \in Boards : RemoveLeaderboard(l)
    /\ UNCHANGED <<writeVars, workerVars, faults>>
    /\ Observe(None)

WorkerMoves(w) ==
    /\ WorkerStep(w)
    /\ UNCHANGED <<writeVars, boundVars>>
    /\ Observe(w)

WorkerAborts(w) ==
    /\ faults < MaxFaults
    /\ faults' = faults + 1
    /\ AbortRun(w)
    /\ UNCHANGED <<writeVars, removals>>
    /\ Observe(w)

WorkerIsUnanswered(w) ==
    /\ faults < MaxFaults
    /\ faults' = faults + 1
    /\ LoseWorkerAnswer(w)
    /\ UNCHANGED <<writeVars, removals>>
    /\ Observe(w)

TimePasses ==
    /\ Tick
    /\ UNCHANGED <<writeVars, workerVars, boundVars>>
    /\ Observe(None)

Next ==
    \/ \E r \in Requests : CallStarts(r) \/ CallStep(r) \/ CallFails(r) \/ CallIsUnanswered(r)
    \/ RemoveSomeMembers
    \/ RemoveWholeLeaderboard
    \/ \E w \in Workers : WorkerMoves(w) \/ WorkerAborts(w) \/ WorkerIsUnanswered(w)
    \/ TimePasses

Spec == Init /\ [][Next]_vars

\* A call that was started goes on, and a worker's ticker goes on firing.  No
\* call has to be made, no command has to fail and no second has to pass.
FairSpec ==
    /\ Spec
    /\ \A r \in Requests : WF_vars(CallStep(r))
    /\ \A w \in Workers : WF_vars(WorkerMoves(w))

-----------------------------------------------------------------------------
(* What all of this comes to for a caller                                  *)

Wish(r) == [on |-> job[r].board, members |-> job[r].members]

\* r has come behind the command that writes its scores, or ended before it.
Settled(r) == pc[r] \notin {"idle", "previousRanks"} \/ outcome[r] # "none"

HasWritten(r) == pc[r] \notin {"idle", "previousRanks"} \/ (pc[r] = "previousRanks" /\ unanswered[r])

Promise == INSTANCE Scoreboard WITH
    board <- scores,
    asked <- [r \in Requests |-> IF job[r] = None THEN None ELSE Wish(r)],
    written <- {r \in Requests : HasWritten(r)},
    settled <- {r \in Requests : Settled(r)},
    acked <- {r \in Requests : outcome[r] = "ok"}

-----------------------------------------------------------------------------
(* Properties                                                              *)

\* The commands of the calls, interleaved with removals, workers, seasons and
\* faults, add up to the scoreboard: no partial write, none but the call's own,
\* a repeated one only for a lost answer and only before the call goes on, no
\* success without one, and no score changed by anything else.
ImplementsScoreboard == Promise!Spec

\* Every variable keeps the shape the code's types and lists give it.
TypeOK ==
    /\ StoreTypeOK
    /\ WriteTypeOK
    /\ WorkerTypeOK
    /\ removals \in Nat
    /\ faults \in Nat
    /\ touched \in [Workers -> SUBSET Members]
    /\ dropped \subseteq Boards

\* A call of l stands, or stopped for good, after its write and before the
\* board's expiry was found or set.
BetweenWriteAndExpiry(l) ==
    \E r \in Requests :
        /\ job[r] # None /\ BoardOf(r) = l
        /\ HasWritten(r) /\ pc[r] \in {"previousRanks", "values", "ttl", "expireAt"}

\* Whatever calls, removals, workers and the clock do, a seasonal board that
\* exists has its expiry, unless a call that wrote to it has not come to
\* EXPIREAT yet or ended before it (persistLeaderboardExpirationTime comes
\* last, and only the TTL of the moment tells whether the key needs one).
SeasonalBoardsExpire ==
    \A l \in Boards :
        Seasonal(l) /\ Exists(scores[l]) /\ expireAt[l] = None
            => BetweenWriteAndExpiry(l)

\* A seasonal board outlives its season only through such a call: one that wrote
\* and stopped short of EXPIREAT, LeaderboardExpiredError included.
SeasonsEnd ==
    \A l \in Boards :
        Seasonal(l) /\ Exists(scores[l]) /\ ExpireAtOf[l] <= now
            => BetweenWriteAndExpiry(l)

\* A board is on the worker's list while it has deadlines, unless a call stands
\* or stopped between the ZADD and the SADD of SetMembersTTL, or a worker took
\* the board off the list with the deadlines there.
DeadlinesRegistered ==
    \A l \in Boards :
        Exists(deadlines[l]) /\ l \notin expirationSets
            => \/ l \in dropped
               \/ \E r \in Requests :
                     /\ job[r] # None /\ BoardOf(r) = l
                     /\ pc[r] = "register" \/ (pc[r] = "addDeadlines" /\ unanswered[r])

\* The worker does harm only to what others changed while it visited: it
\* removes a score only if its deadline has come, removes a deadline only if it
\* has come and its score is gone, and takes a board off the list only if it has
\* no deadlines (expireMembersFromLeaderboard acts on what EXISTS and
\* ZRANGEBYSCORE said earlier).
HarmlessStep(w) ==
    LET l == current[w] IN
    /\ wpc[w] = "expireScores" =>
          \A m \in Members \ touched[w] :
             scores'[l][m] # scores[l][m] => Due(l, m)
    /\ wpc[w] = "expireDeadlines" =>
          \A m \in Members \ touched[w] :
             deadlines'[l][m] # deadlines[l][m] => Due(l, m) /\ scores[l][m] = None
    /\ wpc[w] = "unregister" /\ l \notin expirationSets' /\ touched[w] = {} =>
          ~Exists(deadlines[l])

HarmlessUnlessOverlapped ==
    [][\A w \in Workers :
          WorkerMoves(w) \/ WorkerIsUnanswered(w) => HarmlessStep(w)]_vars

\* The deadline of a member whose board is on the list is met: the worker gets
\* to it, whatever runs failed before, or the board is taken off the list.
DueScoresAreExpired ==
    \A l \in Boards, m \in Members :
        (Due(l, m) /\ l \in expirationSets)
            ~> (~Due(l, m) \/ l \notin expirationSets)

\* Calls that only write never make each other fail.
NoCallFails == \A r \in Requests : outcome[r] \in {"none", "ok"}

\* A score whose call asked for a scoreTTL and succeeded has a deadline.
TimedScoresHaveDeadlines ==
    \A l \in Boards, m \in Members, r \in Requests :
        scores[l][m] = r /\ outcome[r] = "ok" /\ Timed(r)
            => deadlines[l][m] # None

=============================================================================
