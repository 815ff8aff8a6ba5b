--------------------------- MODULE ExpirationWorker ---------------------------
(***************************************************************************)
(* The expiration worker: the process that removes the scores whose        *)
(* deadline has come.  On every tick it visits the registered boards one   *)
(* after the other; on each it sends                                       *)
(*                                                                         *)
(*   EXISTS l:ttl                                                          *)
(*     gone:   SREM expiration-sets l:ttl                                  *)
(*     there:  ZRANGEBYSCORE l:ttl -inf time LIMIT 0 limit                 *)
(*             ZREM l members, ZREM l:ttl members                          *)
(*                                                                         *)
(* with the clock read once, before EXISTS.  Several workers may run.      *)
(***************************************************************************)
EXTENDS PodiumStore

CONSTANTS
    Workers,                \* the worker processes
    ExpirationLimitPerRun   \* members expired per board and run, at most

ASSUME LimitAssumption == ExpirationLimitPerRun \in Nat \ {0}

VARIABLES
    wpc,      \* wpc[w]: the next step of w
    queue,    \* queue[w]: the boards of this run it has not visited yet
    current,  \* current[w]: the board it is visiting
    maxTime,  \* maxTime[w]: the time it took when it began the visit
    batch     \* batch[w]: the members it read as due

workerVars == <<wpc, queue, current, maxTime, batch>>

WorkerSteps == {"sleep", "next", "exists", "unregister", "range",
                "expireScores", "expireDeadlines"}

WorkerInit ==
    /\ wpc = [w \in Workers |-> "sleep"]
    /\ queue = [w \in Workers |-> {}]
    /\ current = [w \in Workers |-> None]
    /\ maxTime = [w \in Workers |-> 0]
    /\ batch = [w \in Workers |-> {}]

Visiting(w) == wpc[w] \notin {"sleep", "next"}

WorkerTypeOK ==
    /\ wpc \in [Workers -> WorkerSteps]
    /\ queue \in [Workers -> SUBSET Boards]
    /\ current \in [Workers -> Boards \cup {None}]
    /\ maxTime \in [Workers -> Nat]
    /\ batch \in [Workers -> SUBSET Members]
    /\ \A w \in Workers : Visiting(w) => current[w] \in Boards

-----------------------------------------------------------------------------
WGoto(w, step) == wpc' = [wpc EXCEPT ![w] = step]

\* The visit is over, and its local variables with it.
EndVisit(w, step) ==
    /\ WGoto(w, step)
    /\ current' = [current EXCEPT ![w] = None]
    /\ maxTime' = [maxTime EXCEPT ![w] = 0]
    /\ batch' = [batch EXCEPT ![w] = {}]

\* The ticker fires: SMEMBERS expiration-sets.
BeginRun(w) ==
    /\ wpc[w] = "sleep"
    /\ queue' = [queue EXCEPT ![w] = expirationSets]
    /\ WGoto(w, "next")
    /\ UNCHANGED <<storeVars, current, maxTime, batch>>

\* The next board, in the order SMEMBERS gave: any.
VisitNext(w) ==
    /\ wpc[w] = "next"
    /\ \E l \in queue[w] :
          /\ current' = [current EXCEPT ![w] = l]
          /\ queue' = [queue EXCEPT ![w] = @ \ {l}]
    /\ maxTime' = [maxTime EXCEPT ![w] = now]
    /\ WGoto(w, "exists")
    /\ UNCHANGED <<storeVars, batch>>

EndRun(w) ==
    /\ wpc[w] = "next"
    /\ queue[w] = {}
    /\ WGoto(w, "sleep")
    /\ UNCHANGED <<storeVars, queue, current, maxTime, batch>>

\* EXISTS l:ttl
CheckExists(w) ==
    /\ wpc[w] = "exists"
    /\ WGoto(w, IF Exists(deadlines[current[w]]) THEN "range" ELSE "unregister")
    /\ UNCHANGED <<storeVars, queue, current, maxTime, batch>>

\* SREM expiration-sets l:ttl
TakeOffList(w) ==
    /\ wpc[w] = "unregister"
    /\ expirationSets' = expirationSets \ {current[w]}
    /\ UNCHANGED <<now, scores, expireAt, deadlines>>

RemoveLeaderboardFromExpireList(w) ==
    /\ TakeOffList(w)
    /\ EndVisit(w, "next")
    /\ UNCHANGED queue

\* Mutant of GetMembersToExpire: the bound is a second ahead.
GetMembersToExpireEarly(w) ==
    /\ wpc[w] = "range"
    /\ \E due \in ZRangeByScore(deadlines[current[w]], maxTime[w] + 1, ExpirationLimitPerRun) :
          IF due = {}
          THEN EndVisit(w, "next")
          ELSE /\ batch' = [batch EXCEPT ![w] = due]
               /\ WGoto(w, "expireScores")
               /\ UNCHANGED <<current, maxTime>>
    /\ UNCHANGED <<storeVars, queue>>

\* ZRANGEBYSCORE l:ttl; with nothing due the visit is over.
GetMembersToExpire(w) ==
    /\ wpc[w] = "range"
    /\ \E due \in ZRangeByScore(deadlines[current[w]], maxTime[w], ExpirationLimitPerRun) :
          IF due = {}
          THEN EndVisit(w, "next")
          ELSE /\ batch' = [batch EXCEPT ![w] = due]
               /\ WGoto(w, "expireScores")
               /\ UNCHANGED <<current, maxTime>>
    /\ UNCHANGED <<storeVars, queue>>

\* Mutant of ExpireScores: the deadlines are left in l:ttl.
ExpireScoresOnly(w) ==
    /\ wpc[w] = "expireScores"
    /\ RemoveMembers(current[w], batch[w])
    /\ EndVisit(w, "next")
    /\ UNCHANGED queue

\* ZREM l, the first command of ExpireMembers.
RemoveScores(w) ==
    /\ wpc[w] = "expireScores"
    /\ RemoveMembers(current[w], batch[w])

ExpireScores(w) ==
    /\ RemoveScores(w)
    /\ WGoto(w, "expireDeadlines")
    /\ UNCHANGED <<queue, current, maxTime, batch>>

\* ZREM l:ttl, the second.
RemoveDeadlines(w) ==
    /\ wpc[w] = "expireDeadlines"
    /\ deadlines' = [deadlines EXCEPT ![current[w]] = ZRem(@, batch[w])]
    /\ UNCHANGED <<now, scores, expireAt, expirationSets>>

ExpireDeadlines(w) ==
    /\ RemoveDeadlines(w)
    /\ EndVisit(w, "next")
    /\ UNCHANGED queue

\* The answer to one of these three is lost, and it is sent again.
LoseWorkerAnswer(w) ==
    /\ TakeOffList(w) \/ RemoveScores(w) \/ RemoveDeadlines(w)
    /\ UNCHANGED workerVars

\* A command fails and the run returns, the boards behind this one unvisited;
\* or the process dies and is started again.  Both leave it asleep with what it
\* had done in Redis done.
AbortRun(w) ==
    /\ wpc[w] # "sleep"
    /\ EndVisit(w, "sleep")
    /\ queue' = [queue EXCEPT ![w] = {}]
    /\ UNCHANGED storeVars

WorkerStep(w) ==
    \/ BeginRun(w)
    \/ VisitNext(w)
    \/ EndRun(w)
    \/ CheckExists(w)
    \/ RemoveLeaderboardFromExpireList(w)
    \/ GetMembersToExpire(w)
    \/ ExpireScores(w)
    \/ ExpireDeadlines(w)

=============================================================================
