----------------------------- MODULE PodiumProofs -----------------------------
(***************************************************************************)
(* What holds of Podium for all leaderboards, members, calls, workers,     *)
(* seasons and bounds: type correctness, the expiry of seasonal boards,    *)
(* the registration of deadlines and what a worker may remove; and, in its *)
(* second half, what the calls come to for their callers.                  *)
(***************************************************************************)
EXTENDS Podium, TLAPS

ScoreSets == [Members -> Requests \cup {None}]
DeadlineSets == [Members -> Int \cup {None}]

-----------------------------------------------------------------------------
(* Sorted sets and the store                                               *)

\* ZADD of a value of the set's kind gives a sorted set of that kind.
LEMMA ZAddType ==
    ASSUME NEW V, NEW z \in [Members -> V \cup {None}], NEW S, NEW v \in V
    PROVE  ZAdd(z, S, v) \in [Members -> V \cup {None}]
  BY DEF ZAdd

\* ZREM leaves a sorted set of the same kind.
LEMMA ZRemType ==
    ASSUME NEW V, NEW z \in [Members -> V \cup {None}], NEW S
    PROVE  ZRem(z, S) \in [Members -> V \cup {None}]
  BY DEF ZRem

\* The empty sorted set is of every kind.
LEMMA EmptyZsetType ==
    ASSUME NEW V
    PROVE  EmptyZset \in [Members -> V \cup {None}]
  BY DEF EmptyZset

\* Replacing the content of a leaderboard's key keeps the store well typed.
LEMMA ReplaceScoresType ==
    ASSUME StoreTypeOK, NEW l \in Boards, NEW z \in ScoreSets, ReplaceScores(l, z),
           UNCHANGED <<now, deadlines, expirationSets>>
    PROVE  StoreTypeOK'
  BY DEF StoreTypeOK, ScoreSets, ReplaceScores

\* Every command that writes to a leaderboard's key keeps the store well typed.
LEMMA StoreCommandsType ==
    ASSUME StoreTypeOK, NEW l \in Boards, NEW r \in Requests
    PROVE  /\ \A S : SetMembers(l, S, r) => StoreTypeOK'
           /\ \A m : IncrementMemberScore(l, m, r) => StoreTypeOK'
           /\ \A S : RemoveMembers(l, S) => StoreTypeOK'
           /\ RemoveLeaderboard(l) => StoreTypeOK'
           /\ \A t \in Nat : SetLeaderboardExpiration(l, t) => StoreTypeOK'
  <1>1. scores[l] \in ScoreSets
    BY DEF StoreTypeOK, ScoreSets
  <1>2. EmptyZset \in ScoreSets
    BY EmptyZsetType DEF ScoreSets
  <1>3. \A S : ZAdd(scores[l], S, r) \in ScoreSets
    BY <1>1, ZAddType DEF ScoreSets
  <1>4. \A S : ZRem(scores[l], S) \in ScoreSets
    BY <1>1, ZRemType DEF ScoreSets
  <1>5. ASSUME NEW t \in Nat, SetLeaderboardExpiration(l, t)
        PROVE  StoreTypeOK'
    <2>1. CASE t > now
      BY <1>5, <2>1 DEF SetLeaderboardExpiration, StoreTypeOK
    <2>2. CASE ~(t > now)
      BY <1>5, <2>2, <1>2, ReplaceScoresType DEF SetLeaderboardExpiration
    <2> QED BY <2>1, <2>2
  <1> QED
    BY <1>2, <1>3, <1>4, <1>5, ReplaceScoresType
    DEF SetMembers, IncrementMemberScore, RemoveMembers, RemoveLeaderboard

\* The same for removals, which no call's request is part of.
LEMMA RemovalsType ==
    ASSUME StoreTypeOK, NEW l \in Boards
    PROVE  /\ \A S : RemoveMembers(l, S) => StoreTypeOK'
           /\ RemoveLeaderboard(l) => StoreTypeOK'
  <1>1. scores[l] \in ScoreSets
    BY DEF StoreTypeOK, ScoreSets
  <1>2. EmptyZset \in ScoreSets
    BY EmptyZsetType DEF ScoreSets
  <1>3. \A S : ZRem(scores[l], S) \in ScoreSets
    BY <1>1, ZRemType DEF ScoreSets
  <1> QED
    BY <1>2, <1>3, ReplaceScoresType DEF RemoveMembers, RemoveLeaderboard

\* The passing of a second keeps the store well typed.
LEMMA TickType ==
    ASSUME StoreTypeOK, Tick
    PROVE  StoreTypeOK'
  <1>1. EmptyZset \in ScoreSets
    BY EmptyZsetType DEF ScoreSets
  <1> QED
    BY <1>1, MaxTimeAssumption DEF StoreTypeOK, ScoreSets, Tick

-----------------------------------------------------------------------------
(* Calls                                                                   *)

\* The parameters of a call.
LEMMA JobTypes ==
    ASSUME NEW j \in Jobs
    PROVE  /\ j.board \in Boards
           /\ j.members \in SUBSET Members
           /\ j.scoreTTL \in Int
  BY JobsAssumption DEF UpsertScore, BulkUpsertScores, IncrementScore, Job

\* A call that has started has its parameters.
LEMMA StartedCall ==
    ASSUME WriteTypeOK, NEW r \in Requests, pc[r] # "idle"
    PROVE  /\ job[r] \in Jobs
           /\ BoardOf(r) \in Boards
           /\ job[r].members \in SUBSET Members
           /\ job[r].scoreTTL \in Int
  <1>1. job[r] \in Jobs
    BY DEF WriteTypeOK
  <1> QED
    BY <1>1, JobTypes DEF BoardOf

\* What a step of a call does to Redis is one of five commands, or nothing.
LEMMA CallCommands ==
    ASSUME NEW r \in Requests, WriteStep(r) \/ LoseAnswer(r)
    PROVE  \/ SetScores(r) \/ IncrementScoreBy(r) \/ ExpireBoard(r)
           \/ SetDeadlines(r) \/ PutOnList(r) \/ UNCHANGED storeVars
  <1>1. CASE WriteStep(r)
    BY <1>1 DEF WriteStep, ReadScore, ReadRank, PersistMembers, IncrementMember,
       DereferenceMissing, GetExpireAt, GetLeaderboardExpiration,
       PersistLeaderboardExpiration, StampDeadline, AddDeadlines, Register, storeVars
  <1>2. CASE LoseAnswer(r)
    BY <1>2 DEF LoseAnswer
  <1> QED BY <1>1, <1>2

\* A step of a call keeps the calls well typed.
LEMMA CallTypes ==
    ASSUME TypeOK, NEW r \in Requests, WriteStep(r)
    PROVE  WriteTypeOK'
  <1> USE DEF TypeOK
  <1>1. pc[r] # "idle"
    BY DEF WriteStep, At, ReadScore, ReadRank, PersistMembers, SetScores,
           IncrementMember, IncrementScoreBy, DereferenceMissing, GetExpireAt,
           GetLeaderboardExpiration, PersistLeaderboardExpiration, ExpireBoard,
           StampDeadline, AddDeadlines, SetDeadlines, Register, PutOnList, place
  <1>2. job[r] \in Jobs /\ job[r].members \in SUBSET Members /\ job[r].scoreTTL \in Int
    BY <1>1, StartedCall
  <1>3. job[r] # None
    BY <1>1 DEF WriteTypeOK
  <1> USE DEF BoardOf
  <1>4. CASE ReadScore(r)
    BY <1>4 DEF ReadScore, WriteTypeOK, place
  <1>5. CASE ReadRank(r)
    BY <1>5 DEF ReadRank, WriteTypeOK, End, Outcomes, place
  <1>6. CASE PersistMembers(r) \/ IncrementMember(r)
    BY <1>2, <1>3, <1>6 DEF PersistMembers, SetScores, IncrementMember,
           IncrementScoreBy, ThenReadValues, Goto, StartReading, WriteTypeOK, Steps
  <1>7. CASE DereferenceMissing(r)
    BY <1>7 DEF DereferenceMissing, WriteTypeOK, End, Outcomes, place
  <1>8. CASE GetExpireAt(r)
    <2>1. pc[r] = "values" /\ (UNCHANGED place \/ ThenPersistTTL(r)
                                  \/ (Seasonal(BoardOf(r)) /\ Goto(r, "ttl")))
      BY <1>8 DEF GetExpireAt, At
    <2>2. outcome' \in [Requests -> Outcomes]
      BY <1>8 DEF GetExpireAt, ThenPersistTTL, End, WriteTypeOK, Outcomes
    <2>3. CASE UNCHANGED place
      BY <1>8, <2>2, <2>3 DEF GetExpireAt, WriteTypeOK, place
    <2>4. CASE ThenPersistTTL(r)
      BY <1>3, <1>8, <2>1, <2>2, <2>4 DEF GetExpireAt, ThenPersistTTL, Goto, WriteTypeOK, Steps
    <2>5. CASE Seasonal(BoardOf(r)) /\ Goto(r, "ttl")
      BY <1>3, <1>8, <2>1, <2>2, <2>5 DEF GetExpireAt, Goto, WriteTypeOK, Steps
    <2> QED BY <2>1, <2>3, <2>4, <2>5
  <1>9. CASE GetLeaderboardExpiration(r)
    <2>1. pc[r] = "ttl" /\ (UNCHANGED place \/ ThenPersistTTL(r) \/ Goto(r, "expireAt"))
      BY <1>9 DEF GetLeaderboardExpiration, At
    <2>2. outcome' \in [Requests -> Outcomes]
      BY <1>9 DEF GetLeaderboardExpiration, ThenPersistTTL, End, WriteTypeOK, Outcomes
    <2>3. CASE UNCHANGED place
      BY <1>9, <2>2, <2>3 DEF GetLeaderboardExpiration, WriteTypeOK, place
    <2>4. CASE ThenPersistTTL(r) \/ Goto(r, "expireAt")
      BY <1>3, <1>9, <2>1, <2>2, <2>4
      DEF GetLeaderboardExpiration, ThenPersistTTL, Goto, WriteTypeOK, Steps
    <2> QED BY <2>1, <2>3, <2>4
  <1>10. CASE PersistLeaderboardExpiration(r)
    <2>1. CASE Exists(scores[BoardOf(r)])
      BY <1>3, <1>10, <2>1 DEF PersistLeaderboardExpiration, ExpireBoard,
           ThenPersistTTL, Goto, End, WriteTypeOK, Steps, Outcomes, place
    <2>2. CASE ~Exists(scores[BoardOf(r)])
      BY <1>10, <2>2 DEF PersistLeaderboardExpiration, ExpireBoard, End, WriteTypeOK,
           Outcomes, place
    <2> QED BY <2>1, <2>2
  <1>11. CASE StampDeadline(r)
    BY <1>2, <1>3, <1>11 DEF StampDeadline, Goto, WriteTypeOK, StoreTypeOK, Steps
  <1>12. CASE AddDeadlines(r)
    BY <1>3, <1>12 DEF AddDeadlines, SetDeadlines, Goto, WriteTypeOK, Steps
  <1>13. CASE Register(r)
    BY <1>3, <1>13 DEF Register, PutOnList, Goto, End, WriteTypeOK, Steps, Outcomes
  <1> QED
    BY <1>4, <1>5, <1>6, <1>7, <1>8, <1>9, <1>10, <1>11, <1>12, <1>13 DEF WriteStep

\* So do the start of a call, the failure of its command and the loss of an answer.
LEMMA StartAndFailureTypes ==
    ASSUME TypeOK, NEW r \in Requests
    PROVE  Start(r) \/ CommandFails(r) \/ LoseAnswer(r) => WriteTypeOK'
  <1> USE DEF TypeOK, BoardOf
  <1>1. CASE Start(r)
    <2>1. PICK j \in Jobs :
             /\ job' = [job EXCEPT ![r] = j]
             /\ StartReading(r, IF j.prevRank THEN j.members ELSE {})
      BY <1>1 DEF Start
    <2>2. j.members \in SUBSET Members /\ j # None
      BY JobTypes, NoneIsNoJob
    <2> QED
      BY <1>1, <2>1, <2>2 DEF Start, StartReading, Goto, WriteTypeOK, Steps
  <1>2. CASE CommandFails(r)
    BY <1>2 DEF CommandFails, End, WriteTypeOK, Outcomes, place
  <1>3. CASE LoseAnswer(r)
    BY <1>3 DEF LoseAnswer, WriteTypeOK
  <1> QED BY <1>1, <1>2, <1>3

\* A step of a call keeps the store well typed, answered or not.
LEMMA CallStoreTypes ==
    ASSUME TypeOK, NEW r \in Requests, WriteStep(r) \/ LoseAnswer(r)
    PROVE  StoreTypeOK'
  <1> USE DEF TypeOK
  <1>1. ASSUME pc[r] # "idle"
        PROVE  BoardOf(r) \in Boards /\ job[r].members \in SUBSET Members
    BY <1>1, StartedCall
  <1>2. CASE SetScores(r) \/ IncrementScoreBy(r)
    BY <1>1, <1>2, StoreCommandsType DEF SetScores, IncrementScoreBy, At
  <1>3. CASE ExpireBoard(r)
    <2>1. BoardOf(r) \in Boards
      BY <1>1, <1>3 DEF ExpireBoard, At
    <2>2. ExpireAtOf[BoardOf(r)] \in Nat
      BY <2>1, <1>3, ExpireAtOfAssumption DEF ExpireBoard, At, WriteTypeOK, Seasonal
    <2> QED BY <1>3, <2>1, <2>2, StoreCommandsType DEF ExpireBoard
  <1>4. CASE SetDeadlines(r)
    <2>1. timeToExpire[r] \in Int /\ BoardOf(r) \in Boards
      BY <1>1, <1>4 DEF SetDeadlines, At, WriteTypeOK
    <2>2. deadlines[BoardOf(r)] \in DeadlineSets
      BY <2>1 DEF StoreTypeOK, DeadlineSets
    <2>3. ZAdd(deadlines[BoardOf(r)], job[r].members, timeToExpire[r]) \in DeadlineSets
      BY <2>1, <2>2, ZAddType DEF DeadlineSets
    <2> QED
      BY <2>1, <1>4, <2>3 DEF SetDeadlines, StoreTypeOK, DeadlineSets
  <1>5. CASE PutOnList(r)
    BY <1>1, <1>5 DEF PutOnList, At, StoreTypeOK
  <1>6. CASE UNCHANGED storeVars
    BY <1>6 DEF storeVars, StoreTypeOK
  <1> QED
    BY <1>2, <1>3, <1>4, <1>5, <1>6, CallCommands

-----------------------------------------------------------------------------
(* What a step of a call leaves alone                                      *)

\* A step of one call leaves the variables of the others alone.
LEMMA OtherCallsStand ==
    ASSUME WriteTypeOK, NEW r \in Requests, NEW s \in Requests, s # r,
           Start(r) \/ WriteStep(r) \/ CommandFails(r) \/ LoseAnswer(r)
    PROVE  /\ job'[s] = job[s] /\ pc'[s] = pc[s] /\ outcome'[s] = outcome[s]
           /\ unanswered'[s] = unanswered[s]
           /\ toRead'[s] = toRead[s] /\ reading'[s] = reading[s]
           /\ missing'[s] = missing[s] /\ timeToExpire'[s] = timeToExpire[s]
  <1> USE DEF WriteTypeOK
  <1>1. CASE Start(r) \/ CommandFails(r)
    BY <1>1 DEF Start, CommandFails, StartReading, Goto, End, place
  <1>2. CASE ReadScore(r) \/ ReadRank(r) \/ DereferenceMissing(r)
    BY <1>2 DEF ReadScore, ReadRank, DereferenceMissing, End, place
  <1>3. CASE PersistMembers(r) \/ IncrementMember(r)
    BY <1>3 DEF PersistMembers, IncrementMember, ThenReadValues, StartReading, Goto
  <1>4. CASE GetExpireAt(r) \/ GetLeaderboardExpiration(r)
    BY <1>4 DEF GetExpireAt, GetLeaderboardExpiration, ThenPersistTTL, Goto, End, place
  <1>5. CASE PersistLeaderboardExpiration(r)
    BY <1>5 DEF PersistLeaderboardExpiration, ThenPersistTTL, Goto, End, place
  <1>6. CASE StampDeadline(r) \/ AddDeadlines(r) \/ Register(r)
    BY <1>6 DEF StampDeadline, AddDeadlines, Register, Goto, End
  <1>7. CASE LoseAnswer(r)
    BY <1>7 DEF LoseAnswer
  <1> QED BY <1>1, <1>2, <1>3, <1>4, <1>5, <1>6, <1>7 DEF WriteStep

\* Once it has started, a call keeps its parameters.
LEMMA JobStands ==
    ASSUME NEW r \in Requests, WriteStep(r) \/ CommandFails(r) \/ LoseAnswer(r)
    PROVE  job' = job
  BY DEF WriteStep, ReadScore, ReadRank, PersistMembers, IncrementMember, ThenReadValues,
         DereferenceMissing, GetExpireAt, GetLeaderboardExpiration,
         PersistLeaderboardExpiration, StampDeadline, AddDeadlines, Register,
         CommandFails, LoseAnswer

-----------------------------------------------------------------------------
(* Workers                                                                 *)

\* What ZRANGEBYSCORE returns are members of the set, up to the maximum.
LEMMA ZRangeByScoreReturns ==
    ASSUME NEW z, NEW max, NEW limit, NEW S \in ZRangeByScore(z, max, limit)
    PROVE  S \subseteq Members /\ \A m \in S : z[m] # None /\ z[m] <= max
  BY DEF ZRangeByScore, Entries

\* What a step of a worker does to Redis is one of three commands, or nothing.
LEMMA WorkerCommands ==
    ASSUME NEW w \in Workers, WorkerStep(w) \/ AbortRun(w) \/ LoseWorkerAnswer(w)
    PROVE  TakeOffList(w) \/ RemoveScores(w) \/ RemoveDeadlines(w) \/ UNCHANGED storeVars
  BY DEF WorkerStep, AbortRun, LoseWorkerAnswer, BeginRun, VisitNext, EndRun, CheckExists,
         RemoveLeaderboardFromExpireList, GetMembersToExpire, ExpireScores, ExpireDeadlines,
         storeVars

\* A step of a worker, or its end, keeps the workers well typed.
LEMMA WorkerTypes ==
    ASSUME TypeOK, NEW w \in Workers, WorkerStep(w) \/ AbortRun(w) \/ LoseWorkerAnswer(w)
    PROVE  WorkerTypeOK'
  <1> USE DEF TypeOK, Visiting
  <1>1. CASE BeginRun(w)
    BY <1>1 DEF BeginRun, WGoto, WorkerTypeOK, StoreTypeOK, WorkerSteps
  <1>2. CASE VisitNext(w)
    BY <1>2 DEF VisitNext, WGoto, WorkerTypeOK, StoreTypeOK, WorkerSteps
  <1>3. CASE EndRun(w)
    BY <1>3 DEF EndRun, WGoto, WorkerTypeOK, WorkerSteps
  <1>4. CASE CheckExists(w)
    BY <1>4 DEF CheckExists, WGoto, WorkerTypeOK, WorkerSteps
  <1>5. CASE RemoveLeaderboardFromExpireList(w) \/ ExpireDeadlines(w)
    BY <1>5 DEF RemoveLeaderboardFromExpireList, ExpireDeadlines, EndVisit, WGoto,
           WorkerTypeOK, WorkerSteps
  <1>6. CASE GetMembersToExpire(w)
    <2>1. PICK due \in ZRangeByScore(deadlines[current[w]], maxTime[w],
                                     ExpirationLimitPerRun) :
             IF due = {}
             THEN EndVisit(w, "next")
             ELSE /\ batch' = [batch EXCEPT ![w] = due]
                  /\ WGoto(w, "expireScores")
                  /\ UNCHANGED <<current, maxTime>>
      BY <1>6 DEF GetMembersToExpire
    <2>2. due \in SUBSET Members
      BY ZRangeByScoreReturns
    <2>3. CASE due = {}
      BY <1>6, <2>1, <2>3 DEF GetMembersToExpire, EndVisit, WGoto, WorkerTypeOK, WorkerSteps
    <2>4. CASE due # {}
      BY <1>6, <2>1, <2>2, <2>4 DEF GetMembersToExpire, WGoto, WorkerTypeOK, WorkerSteps
    <2> QED BY <2>3, <2>4
  <1>7. CASE ExpireScores(w)
    BY <1>7 DEF ExpireScores, RemoveScores, WGoto, WorkerTypeOK, WorkerSteps
  <1>8. CASE AbortRun(w)
    BY <1>8 DEF AbortRun, EndVisit, WGoto, WorkerTypeOK, WorkerSteps
  <1>9. CASE LoseWorkerAnswer(w)
    BY <1>9 DEF LoseWorkerAnswer, workerVars, WorkerTypeOK
  <1> QED
    BY <1>1, <1>2, <1>3, <1>4, <1>5, <1>6, <1>7, <1>8, <1>9 DEF WorkerStep

\* And the store.
LEMMA WorkerStoreTypes ==
    ASSUME TypeOK, NEW w \in Workers, WorkerStep(w) \/ AbortRun(w) \/ LoseWorkerAnswer(w)
    PROVE  StoreTypeOK'
  <1> USE DEF TypeOK
  <1>1. Visiting(w) => current[w] \in Boards
    BY DEF WorkerTypeOK
  <1>2. CASE TakeOffList(w)
    BY <1>2 DEF TakeOffList, StoreTypeOK
  <1>3. CASE RemoveScores(w)
    <2>1. current[w] \in Boards
      BY <1>1, <1>3 DEF RemoveScores, Visiting
    <2> QED BY <1>3, <2>1, RemovalsType DEF RemoveScores
  <1>4. CASE RemoveDeadlines(w)
    <2>1. current[w] \in Boards
      BY <1>1, <1>4 DEF RemoveDeadlines, Visiting
    <2>2. ZRem(deadlines[current[w]], batch[w]) \in DeadlineSets
      BY <2>1, ZRemType DEF StoreTypeOK, DeadlineSets
    <2> QED BY <1>4, <2>1, <2>2 DEF RemoveDeadlines, StoreTypeOK, DeadlineSets
  <1>5. CASE UNCHANGED storeVars
    BY <1>5 DEF storeVars, StoreTypeOK
  <1> QED
    BY <1>2, <1>3, <1>4, <1>5, WorkerCommands

-----------------------------------------------------------------------------
(* The system                                                              *)

\* The history variables stay well typed, whoever moves.
LEMMA HistoryTypes ==
    ASSUME TypeOK, StoreTypeOK', WorkerTypeOK', NEW self, Observe(self)
    PROVE  touched' \in [Workers -> SUBSET Members] /\ dropped' \subseteq Boards
  <1>1. \A l : Changed(l) \in SUBSET Members
    BY DEF Changed
  <1>2. touched' \in [Workers -> SUBSET Members]
    BY <1>1 DEF TypeOK, Observe
  <1>3. dropped' \subseteq Boards
    BY DEF TypeOK, StoreTypeOK, Observe
  <1> QED BY <1>2, <1>3

\* TypeOK is inductive.
LEMMA TypeStep ==
    ASSUME TypeOK, [Next]_vars
    PROVE  TypeOK'
  <1> USE DEF TypeOK
  <1>1. ASSUME StoreTypeOK', WriteTypeOK', WorkerTypeOK', removals' \in Nat, faults' \in Nat,
               \E self : Observe(self)
        PROVE  TypeOK'
    BY <1>1, HistoryTypes
  <1>2. ASSUME NEW r \in Requests, CallStarts(r)
        PROVE  TypeOK'
    <2>1. StoreTypeOK' /\ WorkerTypeOK'
      BY <1>2 DEF CallStarts, Start, storeVars, workerVars, StoreTypeOK, WorkerTypeOK, Visiting
    <2> QED BY <1>1, <1>2, <2>1, StartAndFailureTypes DEF CallStarts, boundVars
  <1>3. ASSUME NEW r \in Requests, CallStep(r)
        PROVE  TypeOK'
    <2>1. WorkerTypeOK'
      BY <1>3 DEF CallStep, workerVars, WorkerTypeOK, Visiting
    <2> QED BY <1>1, <1>3, <2>1, CallTypes, CallStoreTypes DEF CallStep, boundVars
  <1>4. ASSUME NEW r \in Requests, CallIsUnanswered(r)
         PROVE  TypeOK'
    <2>1. WorkerTypeOK'
      BY <1>4 DEF CallIsUnanswered, workerVars, WorkerTypeOK, Visiting
    <2> QED BY <1>1, <1>4, <2>1, StartAndFailureTypes, CallStoreTypes DEF CallIsUnanswered
  <1>5. ASSUME NEW r \in Requests, CallFails(r)
        PROVE  TypeOK'
    <2>1. StoreTypeOK' /\ WorkerTypeOK'
      BY <1>5 DEF CallFails, CommandFails, storeVars, workerVars, StoreTypeOK,
           WorkerTypeOK, Visiting, place
    <2> QED BY <1>1, <1>5, <2>1, StartAndFailureTypes DEF CallFails
  <1>6. CASE RemoveSomeMembers \/ RemoveWholeLeaderboard
    <2>1. WriteTypeOK' /\ WorkerTypeOK'
      BY <1>6 DEF RemoveSomeMembers, RemoveWholeLeaderboard, writeVars, place,
           workerVars, WriteTypeOK, WorkerTypeOK, Visiting, BoardOf, Seasonal
    <2>2. StoreTypeOK'
      BY <1>6, RemovalsType DEF RemoveSomeMembers, RemoveWholeLeaderboard
    <2> QED BY <1>1, <1>6, <2>1, <2>2 DEF RemoveSomeMembers, RemoveWholeLeaderboard
  <1>7. ASSUME NEW w \in Workers, WorkerMoves(w)
        PROVE  TypeOK'
    <2>1. WriteTypeOK'
      BY <1>7 DEF WorkerMoves, writeVars, place, WriteTypeOK, BoardOf, Seasonal
    <2> QED BY <1>1, <1>7, <2>1, WorkerTypes, WorkerStoreTypes DEF WorkerMoves, boundVars
  <1>8. ASSUME NEW w \in Workers, WorkerAborts(w) \/ WorkerIsUnanswered(w)
        PROVE  TypeOK'
    <2>1. WriteTypeOK'
      BY <1>8 DEF WorkerAborts, WorkerIsUnanswered, writeVars, place, WriteTypeOK,
           BoardOf, Seasonal
    <2> QED BY <1>1, <1>8, <2>1, WorkerTypes, WorkerStoreTypes
            DEF WorkerAborts, WorkerIsUnanswered
  <1>9. CASE TimePasses
    <2>1. WriteTypeOK' /\ WorkerTypeOK'
      BY <1>9 DEF TimePasses, writeVars, place, workerVars, WriteTypeOK, WorkerTypeOK,
           Visiting, BoardOf, Seasonal
    <2> QED BY <1>1, <1>9, <2>1, TickType DEF TimePasses, boundVars
  <1>10. CASE UNCHANGED vars
    BY <1>10 DEF vars, storeVars, writeVars, place, workerVars, boundVars, historyVars,
           StoreTypeOK, WriteTypeOK, WorkerTypeOK, Visiting, BoardOf, Seasonal
  <1> QED
    BY <1>2, <1>3, <1>5, <1>6, <1>7, <1>8, <1>9, <1>10, <1>4 DEF Next

\* Every variable has its type in every reachable state, for all boards,
\* members, calls, workers, seasons and bounds.
THEOREM TypeCorrect == Spec => []TypeOK
  <1>1. Init => TypeOK
    <2> SUFFICES ASSUME Init PROVE TypeOK
      OBVIOUS
    <2>1. StoreTypeOK
      BY EmptyZsetType DEF Init, StoreInit, StoreTypeOK
    <2>2. WriteTypeOK
      BY NoneIsNoJob DEF Init, WriteInit, WriteTypeOK, Steps, Outcomes
    <2>3. WorkerTypeOK
      BY DEF Init, WorkerInit, WorkerTypeOK, WorkerSteps, Visiting
    <2> QED BY <2>1, <2>2, <2>3 DEF Init, TypeOK
  <1>2. TypeOK /\ [Next]_vars => TypeOK'
    BY TypeStep
  <1> QED BY <1>1, <1>2, PTL DEF Spec


-----------------------------------------------------------------------------
(* Seasonal boards                                                         *)

\* An expiry is the end of the board's season, and is still ahead: Redis drops
\* the key when it comes.  With SeasonalBoardsExpire this is inductive, and the
\* two give SeasonsEnd.
ExpiryIsSeasonEnd ==
    \A l \in Boards :
        expireAt[l] # None =>
            Seasonal(l) /\ expireAt[l] = ExpireAtOf[l] /\ now < expireAt[l]

SeasonInv == TypeOK /\ SeasonalBoardsExpire /\ ExpiryIsSeasonEnd

\* s wrote to l and has not found or set its expiry.
Holder(s, l) ==
    /\ job[s] # None /\ BoardOf(s) = l
    /\ HasWritten(s) /\ pc[s] \in {"previousRanks", "values", "ttl", "expireAt"}

\* ZREM and DEL create no key, ZADD of nobody aside.
LEMMA RemovalsCreateNothing ==
    ASSUME NEW z, NEW S
    PROVE  /\ Exists(ZRem(z, S)) => Exists(z)
           /\ ~Exists(EmptyZset)
  BY DEF Exists, Entries, ZRem, EmptyZset

\* A call that stays a holder goes on excusing the missing expiry.
LEMMA HoldersStay ==
    ASSUME NEW l, BetweenWriteAndExpiry(l),
           \A s \in Requests : Holder(s, l) => Holder(s, l)'
    PROVE  BetweenWriteAndExpiry(l)'
  BY DEF BetweenWriteAndExpiry, Holder, BoardOf

\* A holder whose own step it is not stays one.
LEMMA OthersHold ==
    ASSUME WriteTypeOK, NEW l, NEW r \in Requests, NEW s \in Requests, s # r, Holder(s, l),
           Start(r) \/ WriteStep(r) \/ CommandFails(r) \/ LoseAnswer(r)
    PROVE  Holder(s, l)'
  <1>1. job'[s] = job[s] /\ pc'[s] = pc[s] /\ unanswered'[s] = unanswered[s]
    BY OtherCallsStand
  <1> QED BY <1>1 DEF Holder, HasWritten, BoardOf

\* EXPIREAT leaves no seasonal board without an expiry.
LEMMA ExpiryIsSet ==
    ASSUME StoreTypeOK, NEW r \in Requests, ExpireBoard(r), NEW l \in Boards,
           Seasonal(l), Exists(scores[l])', expireAt'[l] = None
    PROVE  BoardOf(r) # l /\ scores'[l] = scores[l] /\ expireAt'[l] = expireAt[l]
  <1>1. SetLeaderboardExpiration(BoardOf(r), ExpireAtOf[BoardOf(r)])
    BY DEF ExpireBoard
  <1>2. BoardOf(r) # l
    <2>1. SUFFICES ASSUME BoardOf(r) = l PROVE FALSE
      OBVIOUS
    <2>2. CASE ExpireAtOf[l] > now
      BY <1>1, <2>1, <2>2 DEF SetLeaderboardExpiration, StoreTypeOK, Seasonal
    <2>3. CASE ~(ExpireAtOf[l] > now)
      <3>1. ReplaceScores(l, EmptyZset)
        BY <1>1, <2>1, <2>3 DEF SetLeaderboardExpiration
      <3>2. scores'[l] = EmptyZset
        BY <3>1 DEF ReplaceScores, StoreTypeOK
      <3> QED BY <3>2, RemovalsCreateNothing
    <2> QED BY <2>2, <2>3
  <1> QED
    BY <1>1, <1>2 DEF SetLeaderboardExpiration, ReplaceScores, StoreTypeOK

\* A write to one board leaves the others as they are.
LEMMA OtherBoardsStand ==
    ASSUME StoreTypeOK, NEW r \in Requests, SetScores(r) \/ IncrementScoreBy(r),
           NEW l \in Boards, BoardOf(r) # l
    PROVE  scores'[l] = scores[l] /\ expireAt'[l] = expireAt[l]
  BY DEF SetScores, IncrementScoreBy, SetMembers, IncrementMemberScore, ReplaceScores,
         StoreTypeOK

\* A step of a call leaves a board without an expiry only if there is a holder.
LEMMA CallKeepsSeasons ==
    ASSUME SeasonInv, NEW r \in Requests, WriteStep(r) \/ LoseAnswer(r), NEW l \in Boards,
           Seasonal(l), Exists(scores[l])', expireAt'[l] = None
    PROVE  BetweenWriteAndExpiry(l)'
  <1>1. WriteTypeOK /\ StoreTypeOK
    BY DEF SeasonInv, TypeOK
  <1>2. ASSUME scores'[l] = scores[l], expireAt'[l] = expireAt[l],
               Holder(r, l) => Holder(r, l)'
        PROVE  BetweenWriteAndExpiry(l)'
    <2>1. BetweenWriteAndExpiry(l)
      BY <1>2 DEF SeasonInv, SeasonalBoardsExpire
    <2>2. \A s \in Requests : Holder(s, l) => Holder(s, l)'
      BY <1>1, <1>2, OthersHold
    <2> QED BY <2>1, <2>2, HoldersStay
  <1>3. CASE ReadScore(r) \/ ReadRank(r) \/ DereferenceMissing(r)
    <2>1. Holder(r, l) => Holder(r, l)'
      BY <1>3 DEF ReadScore, ReadRank, DereferenceMissing, Holder, HasWritten, BoardOf, place
    <2> QED
      BY <1>2, <1>3, <2>1 DEF ReadScore, ReadRank, DereferenceMissing, storeVars
  <1>4. CASE StampDeadline(r) \/ AddDeadlines(r) \/ Register(r)
    BY <1>2, <1>4 DEF StampDeadline, AddDeadlines, SetDeadlines, Register, PutOnList, At,
       Holder, storeVars
  <1>5. CASE PersistMembers(r) \/ IncrementMember(r)
    <2>1. job[r] # None /\ At(r, "previousRanks") /\ (SetScores(r) \/ IncrementScoreBy(r))
      BY <1>1, <1>5 DEF PersistMembers, SetScores, IncrementMember, IncrementScoreBy, At,
         WriteTypeOK
    <2>2. pc'[r] = "values" /\ job' = job
      BY <1>1, <1>5 DEF PersistMembers, IncrementMember, ThenReadValues, Goto, WriteTypeOK
    <2>3. CASE BoardOf(r) = l
      <3>1. Holder(r, l)'
        BY <2>1, <2>2, <2>3 DEF Holder, HasWritten, BoardOf
      <3> QED BY <3>1 DEF BetweenWriteAndExpiry, Holder, BoardOf
    <2>4. CASE BoardOf(r) # l
      BY <1>1, <1>2, <2>1, <2>4, OtherBoardsStand DEF Holder
    <2> QED BY <2>3, <2>4
  <1>6. CASE GetExpireAt(r)
    <2>1. BoardOf(r) = l => pc'[r] \in {"values", "ttl"}
      BY <1>1, <1>6 DEF GetExpireAt, At, Goto, Seasonal, WriteTypeOK, place
    <2>2. Holder(r, l) => Holder(r, l)'
      BY <1>6, <2>1 DEF GetExpireAt, Holder, HasWritten, BoardOf
    <2> QED BY <1>2, <1>6, <2>2 DEF GetExpireAt, storeVars
  <1>7. CASE GetLeaderboardExpiration(r)
    <2>1. scores'[l] = scores[l] /\ expireAt'[l] = expireAt[l]
      BY <1>7 DEF GetLeaderboardExpiration, storeVars
    <2>2. BoardOf(r) = l => pc'[r] = "expireAt"
      BY <1>1, <1>7, <2>1 DEF GetLeaderboardExpiration, Goto, WriteTypeOK
    <2>3. Holder(r, l) => Holder(r, l)'
      BY <1>7, <2>2 DEF GetLeaderboardExpiration, Holder, HasWritten, BoardOf
    <2> QED BY <1>2, <2>1, <2>3
  <1>8. CASE PersistLeaderboardExpiration(r)
    <2>1. CASE ExpireBoard(r)
      BY <1>1, <1>2, <2>1, ExpiryIsSet DEF Holder
    <2>2. CASE ~ExpireBoard(r)
      <3>1. UNCHANGED storeVars /\ ~Exists(scores[BoardOf(r)])
        BY <1>8, <2>2 DEF PersistLeaderboardExpiration
      <3>2. BoardOf(r) # l
        BY <3>1 DEF storeVars
      <3> QED BY <1>2, <3>1, <3>2 DEF Holder, storeVars
    <2> QED BY <2>1, <2>2
  <1>9. CASE LoseAnswer(r)
    <2>1. UNCHANGED <<job, pc>> /\ unanswered'[r] = TRUE
      BY <1>1, <1>9 DEF LoseAnswer, WriteTypeOK
    <2>2. Holder(r, l) => Holder(r, l)'
      BY <2>1 DEF Holder, HasWritten, BoardOf
    <2>3. CASE SetScores(r) \/ IncrementScoreBy(r)
      <3>1. pc[r] = "previousRanks" /\ job[r] # None
        BY <1>1, <2>3 DEF SetScores, IncrementScoreBy, At, WriteTypeOK
      <3>2. CASE BoardOf(r) = l
        <4>1. Holder(r, l)'
          BY <2>1, <3>1, <3>2 DEF Holder, HasWritten, BoardOf
        <4> QED BY <4>1 DEF BetweenWriteAndExpiry, Holder, BoardOf
      <3>3. CASE BoardOf(r) # l
        BY <1>1, <1>2, <2>2, <2>3, <3>3, OtherBoardsStand
      <3> QED BY <3>2, <3>3
    <2>4. CASE ExpireBoard(r)
      BY <1>1, <1>2, <2>2, <2>4, ExpiryIsSet
    <2>5. CASE SetDeadlines(r) \/ PutOnList(r)
      BY <1>2, <2>2, <2>5 DEF SetDeadlines, PutOnList
    <2> QED BY <1>9, <2>3, <2>4, <2>5 DEF LoseAnswer
  <1> QED
    BY <1>3, <1>4, <1>5, <1>6, <1>7, <1>8, <1>9 DEF WriteStep

\* A removal on a board, by a client or a worker, keeps its expiry while it
\* keeps the board.
LEMMA RemovalKeepsSeasons ==
    ASSUME SeasonInv, NEW k \in Boards, NEW l \in Boards,
           \/ \E S : RemoveMembers(k, S)
           \/ RemoveLeaderboard(k),
           Exists(scores[l])', expireAt'[l] = None
    PROVE  Exists(scores[l]) /\ expireAt[l] = None
  <1> USE DEF SeasonInv
  <1>1. StoreTypeOK
    BY DEF TypeOK
  <1>2. CASE k # l
    BY <1>1, <1>2 DEF RemoveMembers, RemoveLeaderboard, ReplaceScores, StoreTypeOK
  <1>3. CASE k = l
    <2>1. ~RemoveLeaderboard(l)
      BY <1>1, RemovalsCreateNothing DEF RemoveLeaderboard, ReplaceScores, StoreTypeOK
    <2>2. PICK S : RemoveMembers(l, S)
      BY <1>3, <2>1
    <2>3. scores'[l] = ZRem(scores[l], S)
      BY <1>1, <2>2 DEF RemoveMembers, ReplaceScores, StoreTypeOK
    <2>4. Exists(scores[l]) /\ Exists(ZRem(scores[l], S))
      BY <2>3, RemovalsCreateNothing
    <2>5. expireAt'[l] = expireAt[l]
      BY <1>1, <2>2, <2>4 DEF RemoveMembers, ReplaceScores, StoreTypeOK
    <2> QED BY <2>4, <2>5
  <1> QED BY <1>2, <1>3

\* SeasonalBoardsExpire is preserved: only a write creates a board, and its call
\* is the holder.
LEMMA SeasonalStep ==
    ASSUME SeasonInv, [Next]_vars
    PROVE  SeasonalBoardsExpire'
  <1> SUFFICES ASSUME NEW l \in Boards, Seasonal(l), Exists(scores[l])', expireAt'[l] = None
               PROVE  BetweenWriteAndExpiry(l)'
    BY DEF SeasonalBoardsExpire, Seasonal, BetweenWriteAndExpiry, BoardOf
  <1>1. StoreTypeOK /\ WriteTypeOK /\ WorkerTypeOK
    BY DEF SeasonInv, TypeOK
  <1>2. ASSUME Exists(scores[l]), expireAt[l] = None,
               \A s \in Requests : Holder(s, l) => Holder(s, l)'
        PROVE  BetweenWriteAndExpiry(l)'
    BY <1>2, HoldersStay DEF SeasonInv, SeasonalBoardsExpire
  <1>3. UNCHANGED writeVars => \A s \in Requests : Holder(s, l) => Holder(s, l)'
    BY DEF writeVars, place, Holder, HasWritten, BoardOf
  <1>4. ASSUME NEW r \in Requests, CallStarts(r) \/ CallFails(r)
        PROVE  BetweenWriteAndExpiry(l)'
    <2>1. Holder(r, l) => Holder(r, l)'
      BY <1>1, <1>4 DEF CallStarts, CallFails, Start, CommandFails, Holder, HasWritten,
           BoardOf, WriteTypeOK, place
    <2>2. \A s \in Requests : Holder(s, l) => Holder(s, l)'
      BY <1>1, <1>4, <2>1, OthersHold DEF CallStarts, CallFails
    <2> QED BY <1>2, <1>4, <2>2 DEF CallStarts, CallFails, Start, CommandFails, storeVars
  <1>5. ASSUME NEW r \in Requests, CallStep(r) \/ CallIsUnanswered(r)
        PROVE  BetweenWriteAndExpiry(l)'
    BY <1>5, CallKeepsSeasons DEF CallStep, CallIsUnanswered
  <1>6. CASE RemoveSomeMembers \/ RemoveWholeLeaderboard
    <2>1. Exists(scores[l]) /\ expireAt[l] = None
      BY <1>6, RemovalKeepsSeasons DEF RemoveSomeMembers, RemoveWholeLeaderboard
    <2> QED BY <1>2, <1>3, <1>6, <2>1 DEF RemoveSomeMembers, RemoveWholeLeaderboard
  <1>7. ASSUME NEW w \in Workers,
               WorkerMoves(w) \/ WorkerAborts(w) \/ WorkerIsUnanswered(w)
        PROVE  BetweenWriteAndExpiry(l)'
    <2>1. CASE RemoveScores(w)
      <3>1. current[w] \in Boards
        BY <1>1, <2>1 DEF RemoveScores, WorkerTypeOK, Visiting
      <3>2. Exists(scores[l]) /\ expireAt[l] = None
        BY <2>1, <3>1, RemovalKeepsSeasons DEF RemoveScores
      <3> QED BY <1>2, <1>3, <1>7, <3>2 DEF WorkerMoves, WorkerAborts, WorkerIsUnanswered
    <2>2. CASE ~RemoveScores(w)
      <3>1. UNCHANGED <<scores, expireAt>>
        BY <1>7, <2>2, WorkerCommands DEF WorkerMoves, WorkerAborts, WorkerIsUnanswered,
           TakeOffList, RemoveDeadlines, storeVars
      <3> QED BY <1>2, <1>3, <1>7, <3>1 DEF WorkerMoves, WorkerAborts, WorkerIsUnanswered
    <2> QED BY <2>1, <2>2
  <1>8. CASE TimePasses
    <2>1. ~Elapsed(l, now + 1)
      BY <1>8, RemovalsCreateNothing DEF TimePasses, Tick
    <2>2. Exists(scores[l]) /\ expireAt[l] = None
      BY <1>8, <2>1 DEF TimePasses, Tick
    <2> QED BY <1>2, <1>3, <1>8, <2>2 DEF TimePasses
  <1>9. CASE UNCHANGED vars
    BY <1>2, <1>3, <1>9 DEF vars, storeVars
  <1> QED
    BY <1>4, <1>5, <1>6, <1>7, <1>8, <1>9 DEF Next

\* So is ExpiryIsSeasonEnd: EXPIREAT is sent for a seasonal name with its
\* season's end, a past one deletes the key, and the clock drops the others.
LEMMA ExpiryStep ==
    ASSUME SeasonInv, [Next]_vars
    PROVE  ExpiryIsSeasonEnd'
  <1> SUFFICES ASSUME NEW l \in Boards, expireAt'[l] # None
               PROVE  (Seasonal(l) /\ expireAt[l] = ExpireAtOf[l] /\ now < expireAt[l])'
    BY DEF ExpiryIsSeasonEnd
  <1>1. StoreTypeOK /\ WriteTypeOK /\ WorkerTypeOK
    BY DEF SeasonInv, TypeOK
  <1>2. ASSUME expireAt'[l] = expireAt[l], now' = now
        PROVE  (Seasonal(l) /\ expireAt[l] = ExpireAtOf[l] /\ now < expireAt[l])'
    BY <1>2 DEF SeasonInv, ExpiryIsSeasonEnd, Seasonal
  <1>3. ASSUME NEW k \in Boards, NEW z, ReplaceScores(k, z), now' = now
        PROVE  (Seasonal(l) /\ expireAt[l] = ExpireAtOf[l] /\ now < expireAt[l])'
    BY <1>1, <1>2, <1>3 DEF ReplaceScores, StoreTypeOK
  <1>4. ASSUME NEW r \in Requests, CallStarts(r) \/ CallFails(r)
        PROVE  (Seasonal(l) /\ expireAt[l] = ExpireAtOf[l] /\ now < expireAt[l])'
    BY <1>2, <1>4 DEF CallStarts, CallFails, Start, CommandFails, storeVars, place
  <1>5. ASSUME NEW r \in Requests, CallStep(r) \/ CallIsUnanswered(r)
        PROVE  (Seasonal(l) /\ expireAt[l] = ExpireAtOf[l] /\ now < expireAt[l])'
    <2>1. CASE SetScores(r) \/ IncrementScoreBy(r)
      <3>1. BoardOf(r) \in Boards
        BY <1>1, <2>1, StartedCall DEF SetScores, IncrementScoreBy, At
      <3> QED
        BY <1>3, <2>1, <3>1 DEF SetScores, IncrementScoreBy, SetMembers, IncrementMemberScore
    <2>2. CASE ExpireBoard(r)
      <3>1. BoardOf(r) \in Boards /\ Seasonal(BoardOf(r))
        BY <1>1, <2>2, StartedCall DEF ExpireBoard, At, WriteTypeOK
      <3>2. CASE ExpireAtOf[BoardOf(r)] > now
        <4>1. now' = now /\ expireAt' = [expireAt EXCEPT ![BoardOf(r)] = ExpireAtOf[BoardOf(r)]]
          BY <2>2, <3>2 DEF ExpireBoard, SetLeaderboardExpiration
        <4>2. CASE BoardOf(r) = l
          <5>1. expireAt'[l] = ExpireAtOf[l]
            BY <1>1, <4>1, <4>2 DEF StoreTypeOK
          <5>2. ExpireAtOf[l] \in Nat /\ now \in Nat /\ ExpireAtOf[l] > now
            BY <1>1, <3>1, <3>2, <4>2, ExpireAtOfAssumption DEF Seasonal, StoreTypeOK
          <5> QED BY <3>1, <4>1, <4>2, <5>1, <5>2 DEF Seasonal
        <4>3. CASE BoardOf(r) # l
          BY <1>1, <1>2, <4>1, <4>3 DEF StoreTypeOK
        <4> QED BY <4>2, <4>3
      <3>3. CASE ~(ExpireAtOf[BoardOf(r)] > now)
        BY <1>3, <2>2, <3>1, <3>3 DEF ExpireBoard, SetLeaderboardExpiration
      <3> QED BY <3>2, <3>3
    <2>3. CASE SetDeadlines(r) \/ PutOnList(r) \/ UNCHANGED storeVars
      BY <1>2, <2>3 DEF SetDeadlines, PutOnList, storeVars
    <2> QED
      BY <1>5, <2>1, <2>2, <2>3, CallCommands DEF CallStep, CallIsUnanswered
  <1>6. CASE RemoveSomeMembers \/ RemoveWholeLeaderboard
    BY <1>3, <1>6 DEF RemoveSomeMembers, RemoveWholeLeaderboard, RemoveMembers,
       RemoveLeaderboard
  <1>7. ASSUME NEW w \in Workers,
               WorkerMoves(w) \/ WorkerAborts(w) \/ WorkerIsUnanswered(w)
        PROVE  (Seasonal(l) /\ expireAt[l] = ExpireAtOf[l] /\ now < expireAt[l])'
    <2>1. CASE RemoveScores(w)
      <3>1. current[w] \in Boards
        BY <1>1, <2>1 DEF RemoveScores, WorkerTypeOK, Visiting
      <3> QED BY <1>3, <2>1, <3>1 DEF RemoveScores, RemoveMembers
    <2>2. CASE ~RemoveScores(w)
      BY <1>2, <1>7, <2>2, WorkerCommands DEF WorkerMoves, WorkerAborts,
         WorkerIsUnanswered, TakeOffList, RemoveDeadlines, storeVars
    <2> QED BY <2>1, <2>2
  <1>8. CASE TimePasses
    <2>1. /\ now' = now + 1
          /\ expireAt'[l] = IF Elapsed(l, now + 1) THEN None ELSE expireAt[l]
      BY <1>8 DEF TimePasses, Tick
    <2>2. ~Elapsed(l, now + 1) /\ expireAt'[l] = expireAt[l] /\ expireAt[l] # None
      BY <2>1
    <2>3. Seasonal(l) /\ expireAt[l] = ExpireAtOf[l] /\ now < expireAt[l]
      BY <2>2 DEF SeasonInv, ExpiryIsSeasonEnd
    <2>4. now \in Nat /\ expireAt[l] \in Nat
      BY <1>1, <2>2 DEF StoreTypeOK
    <2>5. now' < expireAt'[l]
      BY <2>1, <2>2, <2>4 DEF Elapsed
    <2> QED BY <2>2, <2>3, <2>5 DEF Seasonal
  <1>9. CASE UNCHANGED vars
    BY <1>2, <1>9 DEF vars, storeVars
  <1> QED
    BY <1>4, <1>5, <1>6, <1>7, <1>8, <1>9 DEF Next

\* SeasonInv holds in every reachable state.
LEMMA SeasonInvariant == Spec => []SeasonInv
  <1>1. Init /\ TypeOK => SeasonInv
    BY RemovalsCreateNothing DEF Init, StoreInit, SeasonInv, SeasonalBoardsExpire,
       ExpiryIsSeasonEnd
  <1>2. SeasonInv /\ [Next]_vars => SeasonInv'
    BY SeasonalStep, ExpiryStep, TypeStep DEF SeasonInv
  <1> QED BY <1>1, <1>2, TypeCorrect, PTL DEF Spec

\* Whatever the calls, the removals, the workers and the clock do, a seasonal
\* board has its expiry unless a call holds it between its write and EXPIREAT.
THEOREM SeasonalBoardsExpireAlways == Spec => []SeasonalBoardsExpire
  <1>1. SeasonInv => SeasonalBoardsExpire
    BY DEF SeasonInv
  <1> QED BY <1>1, SeasonInvariant, PTL

\* A board whose season's data should be gone still exists only through a call
\* that holds it so.
THEOREM SeasonsEndAlways == Spec => []SeasonsEnd
  <1>1. SeasonInv => SeasonsEnd
    <2> SUFFICES ASSUME SeasonInv, NEW l \in Boards,
                        Seasonal(l), Exists(scores[l]), ExpireAtOf[l] <= now
                 PROVE  BetweenWriteAndExpiry(l)
      BY DEF SeasonsEnd
    <2>1. now \in Nat /\ ExpireAtOf[l] \in Nat
      BY ExpireAtOfAssumption DEF SeasonInv, TypeOK, StoreTypeOK, Seasonal
    <2>2. expireAt[l] = None
      BY <2>1 DEF SeasonInv, ExpiryIsSeasonEnd
    <2> QED BY <2>2 DEF SeasonInv, SeasonalBoardsExpire
  <1> QED BY <1>1, SeasonInvariant, PTL


-----------------------------------------------------------------------------
(* The worker's list                                                       *)

\* r has added deadlines to l and not registered l.
Registering(r, l) ==
    /\ job[r] # None /\ BoardOf(r) = l
    /\ pc[r] = "register" \/ (pc[r] = "addDeadlines" /\ unanswered[r])

\* Deadlines come to a board only from a call that registers it next.
LEMMA DeadlinesCome ==
    ASSUME TypeOK, [Next]_vars, NEW l \in Boards,
           ~Exists(deadlines[l]), Exists(deadlines[l])'
    PROVE  \E r \in Requests : Registering(r, l)'
  <1>1. StoreTypeOK /\ WriteTypeOK /\ WorkerTypeOK
    BY DEF TypeOK
  <1>2. deadlines'[l] # deadlines[l]
    OBVIOUS
  <1>3. ASSUME NEW r \in Requests, SetDeadlines(r), WriteStep(r) \/ LoseAnswer(r)
        PROVE  Registering(r, l)'
    <2>1. BoardOf(r) = l
      BY <1>1, <1>2, <1>3, StartedCall DEF SetDeadlines, At, StoreTypeOK
    <2>2. job[r] # None /\ pc[r] = "addDeadlines"
      BY <1>1, <1>3 DEF SetDeadlines, At, WriteTypeOK
    <2>3. AddDeadlines(r) \/ LoseAnswer(r)
      BY <1>3, <2>2 DEF WriteStep, ReadScore, ReadRank, PersistMembers, SetScores,
         IncrementMember, IncrementScoreBy, DereferenceMissing, GetExpireAt,
         GetLeaderboardExpiration, PersistLeaderboardExpiration, ExpireBoard,
         StampDeadline, Register, PutOnList, At
    <2> QED
      BY <1>1, <2>1, <2>2, <2>3 DEF AddDeadlines, LoseAnswer, Goto, Registering, BoardOf,
         WriteTypeOK
  <1>4. ASSUME NEW w \in Workers, RemoveDeadlines(w)
        PROVE  FALSE
    <2>1. current[w] = l
      BY <1>1, <1>2, <1>4 DEF RemoveDeadlines, StoreTypeOK
    <2>2. deadlines'[l] = ZRem(deadlines[l], batch[w])
      BY <1>1, <1>4, <2>1 DEF RemoveDeadlines, StoreTypeOK
    <2> QED BY <2>2, RemovalsCreateNothing
  <1>5. CASE \E r \in Requests : CallStarts(r) \/ CallFails(r)
    BY <1>2, <1>5 DEF CallStarts, CallFails, Start, CommandFails, storeVars
  <1>6. ASSUME NEW r \in Requests, CallStep(r) \/ CallIsUnanswered(r)
        PROVE  SetDeadlines(r) /\ (WriteStep(r) \/ LoseAnswer(r))
    BY <1>2, <1>6, CallCommands DEF CallStep, CallIsUnanswered, SetScores, SetMembers,
       IncrementScoreBy, IncrementMemberScore, ExpireBoard, SetLeaderboardExpiration,
       PutOnList, storeVars
  <1>7. ASSUME RemoveSomeMembers \/ RemoveWholeLeaderboard \/ TimePasses \/ UNCHANGED vars
        PROVE  FALSE
    BY <1>2, <1>7 DEF RemoveSomeMembers, RemoveWholeLeaderboard, RemoveMembers,
       RemoveLeaderboard, TimePasses, Tick, vars, storeVars
  <1>8. ASSUME NEW w \in Workers,
               WorkerMoves(w) \/ WorkerAborts(w) \/ WorkerIsUnanswered(w)
        PROVE  RemoveDeadlines(w)
    BY <1>2, <1>8, WorkerCommands DEF WorkerMoves, WorkerAborts, WorkerIsUnanswered,
       TakeOffList, RemoveScores, RemoveMembers, storeVars
  <1> QED
    BY <1>3, <1>4, <1>5, <1>6, <1>7, <1>8 DEF Next

\* A call between its ZADD and its SADD stays there until the board is on the
\* list.
LEMMA RegisteringStays ==
    ASSUME TypeOK, [Next]_vars, NEW l \in Boards, NEW r \in Requests,
           Registering(r, l), l \notin expirationSets'
    PROVE  Registering(r, l)'
  <1>1. StoreTypeOK /\ WriteTypeOK
    BY DEF TypeOK
  <1>2. CASE UNCHANGED writeVars
    BY <1>2 DEF writeVars, place, Registering, BoardOf
  <1>3. CASE CallStarts(r) \/ CallFails(r) \/ CallIsUnanswered(r)
    BY <1>1, <1>3 DEF CallStarts, CallFails, CallIsUnanswered, Start, CommandFails,
       LoseAnswer, Registering, BoardOf, WriteTypeOK, place
  <1>4. CASE CallStep(r)
    <2>1. Register(r) \/ AddDeadlines(r)
      BY <1>4 DEF CallStep, WriteStep, ReadScore, ReadRank, PersistMembers, SetScores,
         IncrementMember, IncrementScoreBy, DereferenceMissing, GetExpireAt,
         GetLeaderboardExpiration, PersistLeaderboardExpiration, ExpireBoard,
         StampDeadline, At, Registering
    <2>2. ~Register(r)
      BY DEF Register, PutOnList, Registering
    <2> QED
      BY <1>1, <2>1, <2>2 DEF AddDeadlines, Goto, Registering, BoardOf, WriteTypeOK
  <1>5. ASSUME NEW s \in Requests, s # r,
               CallStarts(s) \/ CallStep(s) \/ CallFails(s) \/ CallIsUnanswered(s)
        PROVE  Registering(r, l)'
    <2>1. job'[r] = job[r] /\ pc'[r] = pc[r] /\ unanswered'[r] = unanswered[r]
      BY <1>1, <1>5, OtherCallsStand DEF CallStarts, CallStep, CallFails, CallIsUnanswered
    <2> QED BY <2>1 DEF Registering, BoardOf
  <1> QED
    BY <1>2, <1>3, <1>4, <1>5 DEF Next, RemoveSomeMembers, RemoveWholeLeaderboard,
       WorkerMoves, WorkerAborts, WorkerIsUnanswered, TimePasses, vars

\* A board that leaves the list with deadlines is in dropped, and stays there
\* as long as it has deadlines and is off the list.
LEMMA DroppedStays ==
    ASSUME [Next]_vars, NEW l \in Boards, l \in dropped \cup expirationSets,
           Exists(deadlines[l])', l \notin expirationSets'
    PROVE  l \in dropped'
  <1>1. CASE UNCHANGED vars
    BY <1>1 DEF vars, storeVars, historyVars
  <1>2. CASE Next
    <2>1. \E self : Observe(self)
      BY <1>2 DEF Next, CallStarts, CallStep, CallFails, CallIsUnanswered,
         RemoveSomeMembers, RemoveWholeLeaderboard, WorkerMoves, WorkerAborts,
         WorkerIsUnanswered, TimePasses
    <2> QED BY <2>1 DEF Observe
  <1> QED BY <1>1, <1>2

\* A board with deadlines is on the worker's list, or a call is between ZADD and
\* SADD, or a worker dropped it: nothing else loses a board's deadlines.
THEOREM DeadlinesRegisteredAlways == Spec => []DeadlinesRegistered
  <1>1. Init => DeadlinesRegistered
    BY RemovalsCreateNothing DEF Init, StoreInit, DeadlinesRegistered
  <1>2. TypeOK /\ DeadlinesRegistered /\ [Next]_vars => DeadlinesRegistered'
    <2> SUFFICES ASSUME TypeOK, DeadlinesRegistered, [Next]_vars, NEW l \in Boards,
                        Exists(deadlines[l])', l \notin expirationSets'
                 PROVE  l \in dropped' \/ \E r \in Requests : Registering(r, l)'
      BY DEF DeadlinesRegistered, Registering, BoardOf
    <2>1. CASE l \in dropped \cup expirationSets
      BY <2>1, DroppedStays
    <2>2. CASE l \notin dropped \cup expirationSets /\ Exists(deadlines[l])
      <3>1. PICK r \in Requests : Registering(r, l)
        BY <2>2 DEF DeadlinesRegistered, Registering
      <3> QED BY <3>1, RegisteringStays
    <2>3. CASE ~Exists(deadlines[l])
      BY <2>3, DeadlinesCome
    <2> QED BY <2>1, <2>2, <2>3
  <1> QED BY <1>1, <1>2, TypeCorrect, PTL DEF Spec


-----------------------------------------------------------------------------
(* What a worker may remove                                                *)

\* What w read still holds for what nobody else changed since: the members of
\* its batch are due and, once it has removed their scores, have none, and no
\* deadline either if it has removed them and waits for the answer; and the
\* board it found without deadlines has none.
WorkerView(w) ==
    /\ Visiting(w) => maxTime[w] <= now
    /\ wpc[w] = "expireScores" =>
          \A m \in batch[w] \ touched[w] : Due(current[w], m)
    /\ wpc[w] = "expireDeadlines" =>
          \A m \in batch[w] \ touched[w] :
             /\ deadlines[current[w]][m] # None => Due(current[w], m)
             /\ scores[current[w]][m] = None
    /\ wpc[w] = "unregister" /\ touched[w] = {} => ~Exists(deadlines[current[w]])

ViewInv == TypeOK /\ \A w \in Workers : WorkerView(w)

\* The view survives a step of anyone else.
LEMMA OthersKeepView ==
    ASSUME ViewInv, TypeOK', NEW w \in Workers, NEW self, Observe(self), self # w,
           wpc'[w] = wpc[w], current'[w] = current[w], maxTime'[w] = maxTime[w],
           batch'[w] = batch[w], now' \in Nat, now <= now'
    PROVE  WorkerView(w)'
  <1>1. WorkerView(w) /\ now \in Nat /\ maxTime[w] \in Nat
    BY DEF ViewInv, TypeOK, StoreTypeOK, WorkerTypeOK
  <1>2. CASE ~Visiting(w)
    BY <1>2 DEF WorkerView, Visiting
  <1>3. CASE Visiting(w)
    <2> DEFINE l == current[w]
    <2>1. l \in Boards /\ current'[w] = l
      BY <1>3 DEF ViewInv, TypeOK, WorkerTypeOK
    <2>2. touched'[w] = touched[w] \cup Changed(l)
      BY <1>3 DEF Observe, Visiting
    <2>3. \A m \in Members \ touched'[w] :
             scores'[l][m] = scores[l][m] /\ deadlines'[l][m] = deadlines[l][m]
      BY <2>2 DEF Changed
    <2>4. batch[w] \subseteq Members
      BY DEF ViewInv, TypeOK, WorkerTypeOK
    <2>5. \A m \in Members : deadlines[l][m] \in Int \cup {None}
      BY <2>1 DEF ViewInv, TypeOK, StoreTypeOK
    <2>6. (Visiting(w) => maxTime[w] <= now)'
      BY <1>1, <1>3 DEF WorkerView, Visiting
    <2>7. ASSUME NEW m \in batch[w] \ touched'[w], Due(l, m)
          PROVE  Due(l, m)'
      <3>1. deadlines'[l][m] = deadlines[l][m] /\ deadlines[l][m] \in Int
        BY <2>3, <2>4, <2>5, <2>7 DEF Due
      <3> QED BY <1>1, <2>7, <3>1 DEF Due
    <2>8. ASSUME wpc[w] = "expireDeadlines", NEW m \in batch[w] \ touched'[w]
          PROVE  /\ deadlines'[l][m] # None => Due(l, m)
                 /\ scores'[l][m] = None
      BY <1>1, <2>2, <2>3, <2>4, <2>8 DEF WorkerView
    <2>9. ASSUME wpc[w] = "expireScores", NEW m \in batch[w] \ touched'[w]
           PROVE  Due(l, m)
      BY <1>1, <2>2, <2>9 DEF WorkerView
    <2>10. ASSUME wpc[w] = "unregister", touched'[w] = {}
          PROVE  ~Exists(deadlines[l])'
      BY <1>1, <2>2, <2>3, <2>10 DEF WorkerView, Exists, Entries
    <2> QED
      BY <2>1, <2>6, <2>7, <2>8, <2>10, <2>9 DEF WorkerView, Due
  <1> QED BY <1>2, <1>3

\* And a step of its own.
LEMMA OwnStepKeepsView ==
    ASSUME ViewInv, TypeOK', NEW w \in Workers,
           WorkerMoves(w) \/ WorkerAborts(w) \/ WorkerIsUnanswered(w)
    PROVE  WorkerView(w)'
  <1>1. WorkerView(w) /\ WorkerTypeOK /\ StoreTypeOK
    BY DEF ViewInv, TypeOK
  <1>2. WorkerTypeOK'
    BY DEF TypeOK
  <1>3. /\ Observe(w)
        /\ wpc'[w] \notin {"sleep", "next"} => touched'[w] = touched[w]
    BY DEF WorkerMoves, WorkerAborts, WorkerIsUnanswered, Observe
  <1>4. CASE wpc'[w] \in {"sleep", "next"}
    BY <1>4 DEF WorkerView, Visiting
  <1>5. CASE VisitNext(w)
    <2>1. wpc'[w] = "exists" /\ maxTime'[w] = now /\ now' = now /\ now \in Nat
      BY <1>1, <1>5 DEF VisitNext, WGoto, storeVars, WorkerTypeOK, StoreTypeOK
    <2> QED BY <2>1 DEF WorkerView, Visiting
  <1>6. CASE CheckExists(w)
    <2>1. /\ wpc'[w] = IF Exists(deadlines[current[w]]) THEN "range" ELSE "unregister"
          /\ wpc[w] = "exists"
          /\ UNCHANGED <<storeVars, current, maxTime, batch>>
      BY <1>1, <1>6 DEF CheckExists, WGoto, WorkerTypeOK
    <2> QED BY <1>1, <2>1 DEF WorkerView, Visiting, storeVars
  <1>7. CASE GetMembersToExpire(w)
    <2>1. PICK due \in ZRangeByScore(deadlines[current[w]], maxTime[w],
                                     ExpirationLimitPerRun) :
             IF due = {}
             THEN EndVisit(w, "next")
             ELSE /\ batch' = [batch EXCEPT ![w] = due]
                  /\ WGoto(w, "expireScores")
                  /\ UNCHANGED <<current, maxTime>>
      BY <1>7 DEF GetMembersToExpire
    <2>2. CASE due = {}
      BY <1>1, <1>4, <2>1, <2>2 DEF EndVisit, WGoto, WorkerTypeOK
    <2>3. CASE due # {}
      <3>1. /\ wpc'[w] = "expireScores" /\ batch'[w] = due
            /\ current' = current /\ maxTime' = maxTime
        BY <1>1, <2>1, <2>3 DEF WGoto, WorkerTypeOK
      <3>2. UNCHANGED storeVars /\ wpc[w] = "range"
        BY <1>7 DEF GetMembersToExpire
      <3>3. current[w] \in Boards /\ maxTime[w] <= now /\ maxTime[w] \in Nat /\ now \in Nat
        BY <1>1, <3>2 DEF WorkerView, WorkerTypeOK, Visiting, StoreTypeOK
      <3>4. \A m \in due : m \in Members /\ deadlines[current[w]][m] # None
                           /\ deadlines[current[w]][m] <= maxTime[w]
        BY ZRangeByScoreReturns
      <3>5. \A m \in due : deadlines[current[w]][m] \in Int
        BY <1>1, <3>3, <3>4 DEF StoreTypeOK
      <3>6. \A m \in due : Due(current[w], m)
        BY <3>3, <3>4, <3>5 DEF Due
      <3> QED BY <3>1, <3>2, <3>3, <3>6 DEF WorkerView, Visiting, Due, storeVars
    <2> QED BY <2>2, <2>3
  <1>8. CASE ExpireScores(w)
    <2>1. /\ wpc'[w] = "expireDeadlines" /\ wpc[w] = "expireScores"
          /\ UNCHANGED <<now, deadlines, current, maxTime, batch>>
      BY <1>1, <1>8 DEF ExpireScores, RemoveScores, WGoto, RemoveMembers, WorkerTypeOK
    <2>2. current[w] \in Boards
      BY <1>1, <2>1 DEF WorkerTypeOK, Visiting
    <2>3. scores'[current[w]] = ZRem(scores[current[w]], batch[w])
      BY <1>1, <1>8, <2>2 DEF ExpireScores, RemoveScores, RemoveMembers, ReplaceScores,
           StoreTypeOK
    <2>4. \A m \in batch[w] : scores'[current[w]][m] = None
      BY <1>1, <2>3 DEF ZRem, WorkerTypeOK
    <2>5. touched'[w] = touched[w]
      BY <1>3, <2>1
    <2> QED BY <1>1, <2>1, <2>4, <2>5 DEF WorkerView, Visiting, Due
  <1>9. CASE BeginRun(w) \/ EndRun(w) \/ RemoveLeaderboardFromExpireList(w)
             \/ ExpireDeadlines(w) \/ AbortRun(w)
    BY <1>1, <1>4, <1>9 DEF BeginRun, EndRun, RemoveLeaderboardFromExpireList,
           ExpireDeadlines, AbortRun, EndVisit, WGoto, WorkerTypeOK
  <1>10. CASE LoseWorkerAnswer(w)
    <2>1. UNCHANGED <<wpc, current, maxTime, batch>>
      BY <1>10 DEF LoseWorkerAnswer, workerVars
    <2>2. wpc[w] \notin {"sleep", "next"} => touched'[w] = touched[w]
      BY <1>3, <2>1
    <2>3. CASE TakeOffList(w)
      BY <1>1, <2>1, <2>2, <2>3 DEF TakeOffList, WorkerView, Visiting, Due
    <2>4. CASE RemoveScores(w)
      BY <1>1, <2>1, <2>2, <2>4 DEF RemoveScores, RemoveMembers, WorkerView, Visiting, Due
    <2>5. CASE RemoveDeadlines(w)
      <3>1. wpc[w] = "expireDeadlines" /\ UNCHANGED <<now, scores>>
        BY <2>5 DEF RemoveDeadlines
      <3>2. current[w] \in Boards
        BY <1>1, <3>1 DEF WorkerTypeOK, Visiting
      <3>3. deadlines'[current[w]] = ZRem(deadlines[current[w]], batch[w])
        BY <1>1, <2>5, <3>2 DEF RemoveDeadlines, StoreTypeOK
      <3>4. \A m \in batch[w] : deadlines'[current[w]][m] = None
        BY <1>1, <3>3 DEF ZRem, WorkerTypeOK
      <3> QED BY <1>1, <2>1, <2>2, <3>1, <3>4 DEF WorkerView, Visiting
    <2> QED BY <1>10, <2>3, <2>4, <2>5 DEF LoseWorkerAnswer
  <1> QED
    BY <1>5, <1>6, <1>7, <1>8, <1>9, <1>10 DEF WorkerMoves, WorkerAborts,
       WorkerIsUnanswered, WorkerStep

\* So it survives every step.
LEMMA ViewStep ==
    ASSUME ViewInv, TypeOK', [Next]_vars, NEW w \in Workers
    PROVE  WorkerView(w)'
  <1>1. now \in Nat /\ WorkerTypeOK
    BY DEF ViewInv, TypeOK, StoreTypeOK
  <1>2. CASE UNCHANGED vars
    BY <1>2 DEF ViewInv, WorkerView, Visiting, Due, Exists, Entries, vars, storeVars,
       workerVars, historyVars
  <1>3. ASSUME NEW r \in Requests,
               CallStarts(r) \/ CallStep(r) \/ CallFails(r) \/ CallIsUnanswered(r)
        PROVE  WorkerView(w)'
    <2>1. UNCHANGED workerVars /\ Observe(None)
      BY <1>3 DEF CallStarts, CallStep, CallFails, CallIsUnanswered
    <2>2. CASE CallStarts(r) \/ CallFails(r)
      <3>1. now' = now
        BY <2>2 DEF CallStarts, CallFails, Start, CommandFails, storeVars
      <3> QED BY <1>1, <2>1, <3>1, OthersKeepView, NoneIsNoWorker DEF workerVars
    <2>3. CASE CallStep(r) \/ CallIsUnanswered(r)
      <3>1. now' = now
        BY <2>3, CallCommands DEF CallStep, CallIsUnanswered, SetScores, SetMembers,
           IncrementScoreBy, IncrementMemberScore, ExpireBoard, SetLeaderboardExpiration,
           SetDeadlines, PutOnList, storeVars
      <3> QED BY <1>1, <2>1, <3>1, OthersKeepView, NoneIsNoWorker DEF workerVars
    <2> QED BY <1>3, <2>2, <2>3
  <1>4. CASE RemoveSomeMembers \/ RemoveWholeLeaderboard \/ TimePasses
    <2>1. UNCHANGED workerVars /\ Observe(None)
      BY <1>4 DEF RemoveSomeMembers, RemoveWholeLeaderboard, TimePasses
    <2>2. now' \in Nat /\ now <= now'
      BY <1>1, <1>4 DEF RemoveSomeMembers, RemoveWholeLeaderboard, TimePasses, RemoveMembers,
         RemoveLeaderboard, Tick
    <2> QED BY <2>1, <2>2, OthersKeepView, NoneIsNoWorker DEF workerVars
  <1>5. ASSUME NEW v \in Workers,
               WorkerMoves(v) \/ WorkerAborts(v) \/ WorkerIsUnanswered(v)
        PROVE  WorkerView(w)'
    <2>1. CASE v = w
      BY <1>5, <2>1, OwnStepKeepsView
    <2>2. CASE v # w
      <3>1. Observe(v) /\ now' = now
        BY <1>5, WorkerCommands DEF WorkerMoves, WorkerAborts, WorkerIsUnanswered,
           TakeOffList, RemoveScores, RemoveMembers, RemoveDeadlines, storeVars
      <3>2. /\ wpc'[w] = wpc[w] /\ current'[w] = current[w]
            /\ maxTime'[w] = maxTime[w] /\ batch'[w] = batch[w]
        BY <1>1, <1>5, <2>2 DEF WorkerMoves, WorkerAborts, WorkerIsUnanswered, WorkerStep,
           BeginRun, VisitNext, EndRun, CheckExists, RemoveLeaderboardFromExpireList,
           GetMembersToExpire, ExpireScores, ExpireDeadlines, AbortRun, LoseWorkerAnswer,
           EndVisit, WGoto, WorkerTypeOK, workerVars
      <3> QED BY <1>1, <2>2, <3>1, <3>2, OthersKeepView
    <2> QED BY <2>1, <2>2
  <1> QED BY <1>2, <1>3, <1>4, <1>5 DEF Next

LEMMA ViewInvariant == Spec => []ViewInv
  <1>1. Init => \A w \in Workers : WorkerView(w)
    BY DEF Init, WorkerInit, WorkerView, Visiting
  <1>2. ViewInv /\ TypeOK' /\ [Next]_vars => (\A w \in Workers : WorkerView(w))'
    BY ViewStep
  <1>3. TypeOK /\ (\A w \in Workers : WorkerView(w)) <=> ViewInv
    BY DEF ViewInv
  <1> QED BY <1>1, <1>2, <1>3, TypeCorrect, PTL DEF Spec

\* With that view, the step it takes does no harm, answered or not.
LEMMA ViewIsHarmless ==
    ASSUME ViewInv, NEW w \in Workers, WorkerMoves(w) \/ WorkerIsUnanswered(w)
    PROVE  HarmlessStep(w)
  <1>1. WorkerView(w) /\ WorkerTypeOK /\ StoreTypeOK
    BY DEF ViewInv, TypeOK
  <1>2. TakeOffList(w) \/ RemoveScores(w) \/ RemoveDeadlines(w) \/ UNCHANGED storeVars
    BY WorkerCommands DEF WorkerMoves, WorkerIsUnanswered
  <1>3. CASE UNCHANGED storeVars
    BY <1>1, <1>3 DEF storeVars, HarmlessStep, WorkerView
  <1>4. CASE RemoveScores(w)
    <2>1. wpc[w] = "expireScores" /\ current[w] \in Boards
      BY <1>1, <1>4 DEF RemoveScores, WorkerTypeOK, Visiting
    <2>2. scores'[current[w]] = ZRem(scores[current[w]], batch[w])
      BY <1>1, <1>4, <2>1 DEF RemoveScores, RemoveMembers, ReplaceScores, StoreTypeOK
    <2>3. \A m \in Members : scores'[current[w]][m] # scores[current[w]][m] => m \in batch[w]
      BY <2>2 DEF ZRem
    <2> QED BY <1>1, <2>1, <2>3 DEF HarmlessStep, WorkerView
  <1>5. CASE RemoveDeadlines(w)
    <2>1. wpc[w] = "expireDeadlines" /\ current[w] \in Boards
      BY <1>1, <1>5 DEF RemoveDeadlines, WorkerTypeOK, Visiting
    <2>2. deadlines'[current[w]] = ZRem(deadlines[current[w]], batch[w])
      BY <1>1, <1>5, <2>1 DEF RemoveDeadlines, StoreTypeOK
    <2>3. \A m \in Members :
             deadlines'[current[w]][m] # deadlines[current[w]][m] =>
                m \in batch[w] /\ deadlines[current[w]][m] # None
      BY <2>2 DEF ZRem
    <2> QED BY <1>1, <2>1, <2>3 DEF HarmlessStep, WorkerView
  <1>6. CASE TakeOffList(w)
    BY <1>1, <1>6 DEF TakeOffList, HarmlessStep, WorkerView
  <1> QED
    BY <1>2, <1>3, <1>4, <1>5, <1>6

\* The worker expires what is due and loses nothing but what changed under its
\* hands, for any number of workers, boards, members and calls.
THEOREM HarmlessAlways == Spec => HarmlessUnlessOverlapped
  <1>1. ViewInv /\ [Next]_vars
            => [\A w \in Workers :
                  WorkerMoves(w) \/ WorkerIsUnanswered(w) => HarmlessStep(w)]_vars
    BY ViewIsHarmless
  <1> QED BY <1>1, ViewInvariant, PTL DEF Spec, HarmlessUnlessOverlapped

-----------------------------------------------------------------------------
(***************************************************************************)
(* What the calls of Podium come to for their callers.  With removals,     *)
(* workers and seasons, command by command, they implement the scoreboard  *)
(* of module Scoreboard; and while nothing is taken away, no call makes    *)
(* another fail and a timed score has its deadline.                        *)
(***************************************************************************)

\* The scoreboard's variables, as Podium has them.
Asked == [r \in Requests |-> IF job[r] = None THEN None ELSE Wish(r)]
Written == {r \in Requests : HasWritten(r)}
SettledCalls == {r \in Requests : Settled(r)}
Acked == {r \in Requests : outcome[r] = "ok"}

OnlyLeave ==
    /\ scores' \in [Boards -> [Members -> Requests \cup {None}]]
    /\ \A l \in Boards, m \in Members : scores'[l][m] \in {scores[l][m], None}

-----------------------------------------------------------------------------
(* The store: what is not a write only takes scores away                   *)

\* Removing members or a board, setting an expiry and the passing of a second
\* take scores off boards and change none.
LEMMA RemovalsLeave ==
    ASSUME StoreTypeOK, StoreTypeOK'
    PROVE  /\ \A l \in Boards : \A S : RemoveMembers(l, S) => OnlyLeave
           /\ \A l \in Boards : RemoveLeaderboard(l) => OnlyLeave
           /\ \A l \in Boards : \A t : SetLeaderboardExpiration(l, t) => OnlyLeave
           /\ Tick => OnlyLeave
           /\ UNCHANGED scores => OnlyLeave
  <1> USE DEF StoreTypeOK, OnlyLeave
  <1>1. \A l \in Boards : \A S : RemoveMembers(l, S) => OnlyLeave
    BY DEF RemoveMembers, ReplaceScores, ZRem
  <1>2. \A l \in Boards : ReplaceScores(l, EmptyZset) => OnlyLeave
    BY DEF ReplaceScores, EmptyZset
  <1>3. \A l \in Boards : RemoveLeaderboard(l) => OnlyLeave
    BY <1>2 DEF RemoveLeaderboard
  <1>4. UNCHANGED scores => OnlyLeave
    OBVIOUS
  <1>5. \A l \in Boards : \A t : SetLeaderboardExpiration(l, t) => OnlyLeave
    BY <1>2, <1>4 DEF SetLeaderboardExpiration
  <1>6. Tick => OnlyLeave
    BY DEF Tick, EmptyZset
  <1> QED BY <1>1, <1>3, <1>4, <1>5, <1>6

-----------------------------------------------------------------------------
(* Steps of a call                                                         *)

\* Every call writes someone's score, an increment one member's.
LEMMA JobWritesSomeone ==
    ASSUME NEW j \in Jobs
    PROVE  /\ j.members # {}
           /\ j.op = "increment" => \A m \in j.members : j.members = {m}
  <1>1. CASE j \in UpsertScore
    BY <1>1 DEF UpsertScore, Job
  <1>2. CASE j \in BulkUpsertScores
    BY <1>2 DEF BulkUpsertScores, Job
  <1>3. CASE j \in IncrementScore
    BY <1>3 DEF IncrementScore, Job
  <1> QED BY <1>1, <1>2, <1>3, JobsAssumption

\* The start of a call asks the scoreboard for its write.
LEMMA StartAsks ==
    ASSUME TypeOK, NEW r \in Requests, Start(r), UNCHANGED faults
    PROVE  Promise!Ask(r)
  <1> USE DEF TypeOK
  <1>1. PICK j \in Jobs : job' = [job EXCEPT ![r] = j]
    BY DEF Start
  <1>2. j.board \in Boards /\ j.members \in SUBSET Members /\ j.members # {} /\ j # None
    BY NoneIsNoJob, JobTypes, JobWritesSomeone
  <1>3. job \in [Requests -> Jobs \cup {None}] /\ pc \in [Requests -> Steps] /\ job[r] = None
    BY DEF Start, WriteTypeOK
  <1>4. /\ UNCHANGED <<scores, outcome>> /\ pc[r] = "idle"
        /\ pc' = [pc EXCEPT ![r] = "previousRanks"]
        /\ unanswered' = [unanswered EXCEPT ![r] = FALSE]
    BY DEF Start, storeVars, Goto
  <1> DEFINE wish == [on |-> j.board, members |-> j.members]
  <1>5. wish \in Promise!Wishes
    BY <1>2 DEF Promise!Wishes
  <1>6. Asked' = [Asked EXCEPT ![r] = wish]
    BY <1>1, <1>2, <1>3 DEF Asked, Wish
  <1>7. Asked[r] = None
    BY <1>3 DEF Asked
  <1>8. UNCHANGED Written
    BY <1>3, <1>4 DEF Written, HasWritten, WriteTypeOK
  <1>9. UNCHANGED <<SettledCalls, Acked>>
    BY <1>3, <1>4 DEF Settled, SettledCalls, Acked
  <1> QED
    BY <1>4, <1>5, <1>6, <1>7, <1>8, <1>9
    DEF Promise!Ask, Asked, Written, SettledCalls, Acked

\* The command that writes gives every member of the call its score.
LEMMA WriteCommands ==
    ASSUME TypeOK, NEW r \in Requests, SetScores(r) \/ IncrementScoreBy(r)
    PROVE  /\ pc[r] = "previousRanks" /\ outcome[r] = "none"
           /\ job[r] \in Jobs /\ job[r] # None /\ job[r].board \in Boards
           /\ scores' = [scores EXCEPT ![job[r].board] = ZAdd(@, job[r].members, r)]
  <1> USE DEF TypeOK
  <1>1. pc[r] = "previousRanks" /\ outcome[r] = "none"
    BY DEF SetScores, IncrementScoreBy, At
  <1>2. job[r] \in Jobs /\ job[r] # None
    BY <1>1 DEF WriteTypeOK
  <1>3. job[r].board \in Boards
    BY <1>2, JobTypes
  <1>4. CASE SetScores(r)
    BY <1>1, <1>2, <1>3, <1>4 DEF SetScores, SetMembers, ReplaceScores, BoardOf
  <1>5. CASE IncrementScoreBy(r)
    <2>1. PICK m \in job[r].members : IncrementMemberScore(BoardOf(r), m, r)
      BY <1>5 DEF IncrementScoreBy
    <2>2. job[r].members = {m}
      BY <1>2, <1>5, <2>1, JobWritesSomeone DEF IncrementScoreBy
    <2>3. scores' = [scores EXCEPT ![job[r].board] = ZAdd(@, job[r].members, r)]
      BY <2>1, <2>2 DEF IncrementMemberScore, ReplaceScores, BoardOf
    <2> QED BY <1>1, <1>2, <1>3, <2>3
  <1> QED BY <1>4, <1>5

\* Answered, it lets the call go on.
LEMMA WriteSets ==
    ASSUME TypeOK, NEW r \in Requests, PersistMembers(r) \/ IncrementMember(r)
    PROVE  /\ SetScores(r) \/ IncrementScoreBy(r)
           /\ pc' = [pc EXCEPT ![r] = "values"]
           /\ unanswered' = [unanswered EXCEPT ![r] = FALSE]
           /\ UNCHANGED <<job, outcome>>
  BY DEF PersistMembers, IncrementMember, ThenReadValues, Goto

\* Either way it is the scoreboard's write: the call is settled, or something
\* has gone wrong.
LEMMA WriteWrites ==
    ASSUME TypeOK, NEW r \in Requests,
           \/ (PersistMembers(r) \/ IncrementMember(r)) /\ UNCHANGED faults
           \/ (SetScores(r) \/ IncrementScoreBy(r)) /\ LoseAnswer(r) /\ faults' = faults + 1
    PROVE  Promise!Write(r)
  <1> USE DEF TypeOK
  <1>1. SetScores(r) \/ IncrementScoreBy(r)
    BY WriteSets
  <1>2. /\ pc[r] = "previousRanks" /\ outcome[r] = "none"
        /\ job[r] \in Jobs /\ job[r] # None /\ job[r].board \in Boards
        /\ scores' = [scores EXCEPT ![job[r].board] = ZAdd(@, job[r].members, r)]
    BY <1>1, WriteCommands
  <1>3. Asked[r] = [on |-> job[r].board, members |-> job[r].members] /\ Asked[r] # None
    BY <1>2, NoneIsNoWish, JobTypes DEF Asked, Wish
  <1>4. scores' = [scores EXCEPT ![Asked[r].on] =
                      [m \in Members |-> IF m \in Asked[r].members THEN r ELSE @[m]]]
    BY <1>2, <1>3 DEF ZAdd
  <1>5. pc \in [Requests -> Steps] /\ unanswered \in [Requests -> BOOLEAN]
    BY DEF WriteTypeOK
  <1>6. r \notin SettledCalls
    BY <1>2 DEF SettledCalls, Settled
  <1>7. /\ UNCHANGED <<Asked, Acked>>
        /\ Written' = Written \cup {r}
        /\ \/ SettledCalls' = SettledCalls \cup {r} /\ UNCHANGED faults
           \/ faults' = faults + 1 /\ UNCHANGED SettledCalls
    <2>1. CASE (PersistMembers(r) \/ IncrementMember(r)) /\ UNCHANGED faults
      <3>1. /\ pc' = [pc EXCEPT ![r] = "values"]
            /\ unanswered' = [unanswered EXCEPT ![r] = FALSE]
            /\ UNCHANGED <<job, outcome>>
        BY <2>1, WriteSets
      <3>2. UNCHANGED <<Asked, Acked>>
        BY <3>1 DEF Asked, Wish, Acked
      <3>3. Written' = Written \cup {r}
        BY <1>5, <3>1 DEF Written, HasWritten
      <3>4. SettledCalls' = SettledCalls \cup {r}
        BY <1>5, <3>1 DEF SettledCalls, Settled
      <3> QED BY <2>1, <3>2, <3>3, <3>4
    <2>2. CASE LoseAnswer(r) /\ faults' = faults + 1
      <3>1. UNCHANGED <<pc, job, outcome>> /\ unanswered' = [unanswered EXCEPT ![r] = TRUE]
        BY <2>2 DEF LoseAnswer
      <3>2. UNCHANGED <<Asked, Acked, SettledCalls>>
        BY <3>1 DEF Asked, Wish, Acked, SettledCalls, Settled
      <3>3. Written' = Written \cup {r}
        BY <1>2, <1>5, <3>1 DEF Written, HasWritten
      <3> QED BY <2>2, <3>2, <3>3
    <2> QED BY <2>1, <2>2
  <1> QED
    BY <1>3, <1>4, <1>6, <1>7 DEF Promise!Write, Asked, Written, SettledCalls, Acked

\* What a step of the scoreboard that writes nothing looks like from Podium.
Quiet ==
    /\ OnlyLeave
    /\ UNCHANGED <<Asked, Written>>
    /\ \/ UNCHANGED <<SettledCalls, Acked>> /\ faults' \in {faults, faults + 1}
       \/ /\ \E r \in Written \cap SettledCalls : Acked' = Acked \cup {r}
          /\ UNCHANGED <<SettledCalls, faults>>
       \/ /\ \E r \in Requests : Asked[r] # None /\ SettledCalls' = SettledCalls \cup {r}
          /\ UNCHANGED <<scores, Acked>>
          /\ faults' \in {faults, faults + 1}

\* Such a step is one of the scoreboard's: scores leave, and perhaps a call is
\* answered, with success only after its write.
LEMMA QuietIsAllowed ==
    ASSUME Quiet
    PROVE  Promise!Next
  <1>1. Promise!ScoresOnlyLeave
    BY DEF Quiet, OnlyLeave, Promise!ScoresOnlyLeave
  <1>2. CASE UNCHANGED <<SettledCalls, Acked>> /\ faults' \in {faults, faults + 1}
    BY <1>1, <1>2 DEF Quiet, Promise!Next, Asked, Written, SettledCalls, Acked
  <1>3. CASE /\ \E r \in Written \cap SettledCalls : Acked' = Acked \cup {r}
             /\ UNCHANGED <<SettledCalls, faults>>
    <2>1. PICK r \in Written \cap SettledCalls : Acked' = Acked \cup {r}
      BY <1>3
    <2>2. r \in Requests
      BY <2>1 DEF Written
    <2>3. Promise!Ack(r)
      BY <1>3, <2>1 DEF Quiet, Promise!Ack, Asked, Written, SettledCalls, Acked
    <2> QED BY <1>1, <2>2, <2>3 DEF Promise!Next
  <1>4. CASE /\ \E r \in Requests : Asked[r] # None /\ SettledCalls' = SettledCalls \cup {r}
             /\ UNCHANGED <<scores, Acked>>
             /\ faults' \in {faults, faults + 1}
    <2>1. PICK r \in Requests : Asked[r] # None /\ SettledCalls' = SettledCalls \cup {r}
      BY <1>4
    <2>2. Promise!GiveUp(r)
      BY <1>4, <2>1 DEF Quiet, Promise!GiveUp, Asked, Written, SettledCalls, Acked
    <2> QED BY <2>2 DEF Promise!Next
  <1> QED BY <1>2, <1>3, <1>4 DEF Quiet

\* The steps of a call other than its start and its write.
OtherStep(r) ==
    \/ ReadScore(r) \/ ReadRank(r) \/ DereferenceMissing(r)
    \/ GetExpireAt(r) \/ GetLeaderboardExpiration(r) \/ PersistLeaderboardExpiration(r)
    \/ StampDeadline(r) \/ AddDeadlines(r) \/ Register(r) \/ CommandFails(r)

\* These steps leave what was asked and written alone, and answer with success
\* only after the write.
LEMMA OtherStepsBooks ==
    ASSUME TypeOK, NEW r \in Requests, OtherStep(r)
    PROVE  /\ UNCHANGED job /\ pc[r] # "idle"
           /\ \/ UNCHANGED place
              \/ /\ pc[r] \notin {"idle", "previousRanks"}
                 /\ \E step \in Steps \ {"idle", "previousRanks"} : Goto(r, step)
           /\ \/ UNCHANGED outcome
              \/ /\ outcome[r] = "none"
                 /\ pc[r] = "previousRanks" => UNCHANGED scores
                 /\ \E how \in {"error", "expired", "panic"} :
                       outcome' = [outcome EXCEPT ![r] = how]
              \/ /\ pc[r] \notin {"idle", "previousRanks"} /\ ~CommandFails(r)
                 /\ outcome' = [outcome EXCEPT ![r] = "ok"]
  <1> USE DEF TypeOK
  <1>1. CASE ReadScore(r)
    BY <1>1 DEF ReadScore, At
  <1>2. CASE ReadRank(r)
    BY <1>2 DEF ReadRank, At, End, storeVars
  <1>3. CASE DereferenceMissing(r)
    BY <1>3 DEF DereferenceMissing, At, End
  <1>4. CASE GetExpireAt(r)
    <2>1. pc[r] = "values" /\ outcome[r] = "none" /\ UNCHANGED job
          /\ (pc[r] = "values" => ~CommandFails(r))
      BY <1>4 DEF GetExpireAt, At, CommandFails
    <2> QED BY <1>4, <2>1 DEF GetExpireAt, End, ThenPersistTTL, Steps
  <1>5. CASE GetLeaderboardExpiration(r)
    <2>1. pc[r] = "ttl" /\ outcome[r] = "none" /\ UNCHANGED job
      BY <1>5 DEF GetLeaderboardExpiration, At
    <2>2. CASE UNCHANGED place /\ End(r, "error")
      BY <2>1, <2>2 DEF End
    <2>3. CASE ThenPersistTTL(r)
      <3>1. ~UNCHANGED place
        BY <2>1, <2>3 DEF ThenPersistTTL, Goto, WriteTypeOK, place
      <3>2. ~CommandFails(r)
        BY <3>1 DEF CommandFails
      <3> QED BY <2>1, <2>3, <3>2 DEF ThenPersistTTL, End, Steps
    <2>4. CASE Goto(r, "expireAt") /\ UNCHANGED outcome
      BY <2>1, <2>4 DEF Steps
    <2> QED BY <1>5, <2>2, <2>3, <2>4 DEF GetLeaderboardExpiration
  <1>6. CASE PersistLeaderboardExpiration(r)
    <2>1. pc[r] = "expireAt" /\ outcome[r] = "none" /\ UNCHANGED job
      BY <1>6 DEF PersistLeaderboardExpiration, ExpireBoard, At
    <2>2. CASE UNCHANGED place /\ End(r, "error")
      BY <2>1, <2>2 DEF End
    <2>3. CASE ThenPersistTTL(r)
      <3>1. ~UNCHANGED place
        BY <2>1, <2>3 DEF ThenPersistTTL, Goto, WriteTypeOK, place
      <3>2. ~CommandFails(r)
        BY <3>1 DEF CommandFails
      <3> QED BY <2>1, <2>3, <3>2 DEF ThenPersistTTL, End, Steps
    <2> QED BY <1>6, <2>2, <2>3 DEF PersistLeaderboardExpiration
  <1>7. CASE StampDeadline(r)
    BY <1>7 DEF StampDeadline, At, Steps
  <1>8. CASE AddDeadlines(r)
    BY <1>8 DEF AddDeadlines, SetDeadlines, At, Steps
  <1>9. CASE Register(r)
    <2>1. pc[r] = "register" /\ UNCHANGED job /\ Goto(r, "done") /\ End(r, "ok")
      BY <1>9 DEF Register, PutOnList, At
    <2>2. ~UNCHANGED place
      BY <2>1 DEF Goto, WriteTypeOK, place
    <2>3. ~CommandFails(r)
      BY <2>2 DEF CommandFails
    <2> QED BY <2>1, <2>3 DEF End, Steps
  <1>10. CASE CommandFails(r)
    BY <1>10 DEF CommandFails, End, storeVars
  <1> QED
    BY <1>1, <1>2, <1>3, <1>4, <1>5, <1>6, <1>7, <1>8, <1>9, <1>10 DEF OtherStep

\* They change no score either, except that EXPIREAT may end the board.
LEMMA OtherStepsLeave ==
    ASSUME TypeOK, TypeOK', NEW r \in Requests, OtherStep(r)
    PROVE  OnlyLeave
  <1> USE DEF TypeOK
  <1>1. \/ UNCHANGED scores
        \/ pc[r] = "expireAt" /\ \E t : SetLeaderboardExpiration(BoardOf(r), t)
    BY DEF OtherStep, ReadScore, ReadRank, DereferenceMissing, GetExpireAt,
           GetLeaderboardExpiration, PersistLeaderboardExpiration, ExpireBoard,
           StampDeadline, AddDeadlines, SetDeadlines, Register, PutOnList,
           CommandFails, At, storeVars
  <1>2. pc[r] = "expireAt" => BoardOf(r) \in Boards
    BY StartedCall
  <1> QED BY <1>1, <1>2, RemovalsLeave

\* So the scoreboard sees at most scores leaving and an answer.
LEMMA OtherStepsAreQuiet ==
    ASSUME TypeOK, TypeOK', NEW r \in Requests, OtherStep(r),
           UNCHANGED faults \/ (CommandFails(r) /\ faults' = faults + 1)
    PROVE  Quiet
  <1>1. OnlyLeave
    BY OtherStepsLeave
  <1>2. /\ pc \in [Requests -> Steps] /\ outcome \in [Requests -> Outcomes]
        /\ unanswered \in [Requests -> BOOLEAN]
        /\ pc[r] # "idle"
    BY OtherStepsBooks DEF TypeOK, WriteTypeOK
  <1>3. UNCHANGED Asked
    BY OtherStepsBooks DEF Asked, Wish
  <1>4. UNCHANGED Written
    BY <1>2, OtherStepsBooks DEF Written, HasWritten, Goto, place
  <1>5. UNCHANGED outcome => UNCHANGED <<SettledCalls, Acked>>
    BY <1>2, OtherStepsBooks DEF SettledCalls, Settled, Acked, Goto, place
  <1>6. faults' \in {faults, faults + 1}
    OBVIOUS
  <1>7. CASE UNCHANGED outcome
    BY <1>1, <1>3, <1>4, <1>5, <1>6, <1>7 DEF Quiet
  <1>8. ASSUME outcome[r] = "none", pc[r] = "previousRanks" => UNCHANGED scores,
               NEW how \in {"error", "expired", "panic"},
               outcome' = [outcome EXCEPT ![r] = how]
        PROVE  Quiet
    <2>1. UNCHANGED Acked
      BY <1>2, <1>8 DEF Acked
    <2>2. CASE pc[r] = "previousRanks"
      <3>1. UNCHANGED pc
        BY <2>2, OtherStepsBooks DEF place
      <3>2. SettledCalls' = SettledCalls \cup {r}
        BY <1>2, <1>8, <3>1 DEF SettledCalls, Settled
      <3>3. Asked[r] # None
        <4>1. job[r] \in Jobs /\ job[r] # None
          BY <1>2 DEF TypeOK, WriteTypeOK
        <4> QED BY <4>1, NoneIsNoWish, JobTypes DEF Asked, Wish
      <3> QED BY <1>1, <1>3, <1>4, <1>6, <1>8, <2>1, <2>2, <3>2, <3>3 DEF Quiet
    <2>3. CASE pc[r] # "previousRanks"
      <3>1. UNCHANGED SettledCalls
        BY <1>2, <1>8, <2>3, OtherStepsBooks DEF SettledCalls, Settled, Goto, place
      <3> QED BY <1>1, <1>3, <1>4, <1>6, <2>1, <3>1 DEF Quiet
    <2> QED BY <2>2, <2>3
  <1>9. ASSUME pc[r] \notin {"idle", "previousRanks"}, ~CommandFails(r),
               outcome' = [outcome EXCEPT ![r] = "ok"]
        PROVE  Quiet
    <2>1. r \in Written \cap SettledCalls
      BY <1>9 DEF Written, HasWritten, SettledCalls, Settled
    <2>2. Acked' = Acked \cup {r}
      BY <1>2, <1>9 DEF Acked
    <2>3. UNCHANGED SettledCalls
      BY <1>2, <1>9, OtherStepsBooks DEF SettledCalls, Settled, Goto, place
    <2> QED BY <1>1, <1>3, <1>4, <1>9, <2>1, <2>2, <2>3 DEF Quiet
  <1> QED BY <1>7, <1>8, <1>9, OtherStepsBooks

\* So is the loss of an answer to another command than the write.
LEMMA OtherLossesAreQuiet ==
    ASSUME TypeOK, TypeOK', NEW r \in Requests, LoseAnswer(r),
           ~SetScores(r), ~IncrementScoreBy(r), faults' = faults + 1
    PROVE  Quiet
  <1>1. UNCHANGED <<job, pc, outcome>> /\ unanswered' = [unanswered EXCEPT ![r] = TRUE]
    BY DEF LoseAnswer
  <1>2. ExpireBoard(r) \/ SetDeadlines(r) \/ PutOnList(r)
    BY DEF LoseAnswer
  <1>3. pc[r] \in {"expireAt", "addDeadlines", "register"}
    BY <1>2 DEF ExpireBoard, SetDeadlines, PutOnList, At
  <1>4. UNCHANGED <<Asked, SettledCalls, Acked>>
    BY <1>1 DEF Asked, Wish, SettledCalls, Settled, Acked
  <1>5. UNCHANGED Written
    BY <1>1, <1>3 DEF Written, HasWritten, TypeOK, WriteTypeOK
  <1>6. OnlyLeave
    <2>1. BoardOf(r) \in Boards
      BY <1>3, StartedCall DEF TypeOK
    <2>2. UNCHANGED scores \/ \E t : SetLeaderboardExpiration(BoardOf(r), t)
      BY <1>2 DEF ExpireBoard, SetDeadlines, PutOnList
    <2> QED BY <2>1, <2>2, RemovalsLeave DEF TypeOK
  <1> QED BY <1>4, <1>5, <1>6 DEF Quiet

-----------------------------------------------------------------------------
(* The other actors                                                        *)

\* A worker's step takes scores away at most.
LEMMA WorkerLeaves ==
    ASSUME TypeOK, TypeOK', NEW w \in Workers,
           WorkerStep(w) \/ AbortRun(w) \/ LoseWorkerAnswer(w)
    PROVE  OnlyLeave
  <1> USE DEF TypeOK
  <1>1. \/ UNCHANGED scores
        \/ wpc[w] = "expireScores" /\ RemoveMembers(current[w], batch[w])
    BY WorkerCommands DEF TakeOffList, RemoveScores, RemoveDeadlines, storeVars
  <1>2. wpc[w] = "expireScores" => current[w] \in Boards
    BY DEF WorkerTypeOK, Visiting
  <1> QED BY <1>1, <1>2, RemovalsLeave

\* Steps that leave the calls alone are quiet if they only take scores away.
LEMMA CallsUntouched ==
    ASSUME OnlyLeave, UNCHANGED writeVars, faults' \in {faults, faults + 1}
    PROVE  Quiet
  BY DEF writeVars, place, Quiet, Asked, Written, SettledCalls, Acked, Wish, HasWritten,
         Settled

-----------------------------------------------------------------------------
(* The refinement                                                          *)

\* A step of Podium is a step of the scoreboard or changes nothing there.
LEMMA StepRefines ==
    ASSUME TypeOK, TypeOK', [Next]_vars
    PROVE  [Promise!Next]_(Promise!scoreboardVars)
  <1>1. ASSUME NEW r \in Requests, CallStarts(r)
        PROVE  Promise!Next
    BY <1>1, StartAsks DEF CallStarts, boundVars, Promise!Next
  <1>2. ASSUME NEW r \in Requests, CallStep(r) \/ CallFails(r)
        PROVE  Promise!Next
    <2>1. CASE CallStep(r) /\ (PersistMembers(r) \/ IncrementMember(r))
      BY <2>1, WriteWrites DEF CallStep, boundVars, Promise!Next
    <2>2. CASE OtherStep(r)
      BY <1>2, <2>2, OtherStepsAreQuiet, QuietIsAllowed DEF CallStep, CallFails, boundVars
    <2> QED
      BY <1>2, <2>1, <2>2 DEF CallStep, CallFails, WriteStep, OtherStep
  <1>3. ASSUME NEW r \in Requests, CallIsUnanswered(r)
        PROVE  Promise!Next
    <2>1. LoseAnswer(r) /\ faults' = faults + 1
      BY <1>3 DEF CallIsUnanswered
    <2>2. CASE SetScores(r) \/ IncrementScoreBy(r)
      BY <2>1, <2>2, WriteWrites DEF Promise!Next
    <2>3. CASE ~SetScores(r) /\ ~IncrementScoreBy(r)
      BY <2>1, <2>3, OtherLossesAreQuiet, QuietIsAllowed
    <2> QED BY <2>2, <2>3
  <1>4. CASE RemoveSomeMembers \/ RemoveWholeLeaderboard \/ TimePasses
    <2>1. OnlyLeave
      BY <1>4, RemovalsLeave DEF TypeOK, RemoveSomeMembers, RemoveWholeLeaderboard, TimePasses
    <2>2. UNCHANGED <<writeVars, faults>>
      BY <1>4 DEF RemoveSomeMembers, RemoveWholeLeaderboard, TimePasses, boundVars
    <2> QED BY <2>1, <2>2, CallsUntouched, QuietIsAllowed
  <1>5. ASSUME NEW w \in Workers,
               WorkerMoves(w) \/ WorkerAborts(w) \/ WorkerIsUnanswered(w)
        PROVE  Promise!Next
    <2>1. OnlyLeave
      BY <1>5, WorkerLeaves DEF WorkerMoves, WorkerAborts, WorkerIsUnanswered
    <2>2. UNCHANGED writeVars /\ faults' \in {faults, faults + 1}
      BY <1>5 DEF WorkerMoves, WorkerAborts, WorkerIsUnanswered, boundVars
    <2> QED BY <2>1, <2>2, CallsUntouched, QuietIsAllowed
  <1>6. CASE UNCHANGED vars
    <2>1. UNCHANGED <<scores, Asked, Written, SettledCalls, Acked, faults>>
      BY <1>6 DEF vars, storeVars, writeVars, place, boundVars, Asked, Written,
           SettledCalls, Acked, Wish, HasWritten, Settled
    <2> QED BY <2>1 DEF Promise!scoreboardVars, Asked, Written, SettledCalls, Acked
  <1> QED
    BY <1>1, <1>2, <1>4, <1>5, <1>6, <1>3 DEF Next

\* Podium starts as an empty scoreboard.
LEMMA InitRefines == Init => Promise!Init
  BY DEF Init, StoreInit, WriteInit, EmptyZset, Promise!Init, HasWritten, Settled

\* For all leaderboards, members, calls, workers and seasons: what Podium does
\* command by command (leaderboard/service, leaderboard/database, worker) is
\* what the scoreboard allows.  A call writes all its scores at once and none
\* but its own, again only while the answer to the write is lost, never after
\* it went on or failed, and before it succeeds; nothing else changes a score.
THEOREM PodiumImplementsScoreboard == Spec => ImplementsScoreboard
  BY TypeCorrect, InitRefines, StepRefines, PTL DEF Spec, Promise!Spec, ImplementsScoreboard

-----------------------------------------------------------------------------
(* While nothing is taken away                                             *)

\* There is no worker, or no deadline comes as long as the clock runs.
NoDeadlineComes ==
    \/ Workers = {}
    \/ \A j \in Jobs : j.scoreTTL = NoTTL \/ j.scoreTTL > MaxTime

\* No name is malformed, and no season ends as long as the clock runs.
NoSeasonEnds ==
    \A l \in Boards :
        /\ ExpireAtOf[l] # Invalid
        /\ Seasonal(l) => ExpireAtOf[l] > MaxTime

\* Nothing takes scores away and no command fails: calls only write.
OnlyWrites ==
    /\ MaxRemovals = 0
    /\ MaxFaults = 0
    /\ NoSeasonEnds
    /\ NoDeadlineComes

-----------------------------------------------------------------------------
(* The inductive invariants                                                *)

\* No worker has read a member as due, or will.
NothingIsDue ==
    /\ now <= MaxTime
    /\ Workers # {} =>
          /\ \A l \in Boards, m \in Members :
                deadlines[l][m] # None => deadlines[l][m] > MaxTime
          /\ \A r \in Requests :
                /\ pc[r] = "stamp" => Timed(r)
                /\ pc[r] = "addDeadlines" => timeToExpire[r] > MaxTime
    /\ \A w \in Workers :
          /\ maxTime[w] <= MaxTime
          /\ wpc[w] \notin {"expireScores", "expireDeadlines"}

\* A score is on the board and of a member of the call that wrote it.
ScoresAreOfCalls ==
    \A l \in Boards, m \in Members, r \in Requests :
        scores[l][m] = r => job[r] # None /\ BoardOf(r) = l /\ m \in job[r].members

\* A timed call has set its deadlines before it registers them and succeeds.
DeadlinesAreSet(r) ==
    /\ outcome[r] = "ok" => pc[r] = "done"
    /\ pc[r] = "register" \/ (outcome[r] = "ok" /\ Timed(r)) =>
          \A m \in job[r].members : deadlines[BoardOf(r)][m] # None

DeadlineInv ==
    /\ TypeOK
    /\ NothingIsDue
    /\ ScoresAreOfCalls
    /\ \A r \in Requests : DeadlinesAreSet(r)

\* What a call that has not failed finds from its write on: its members are on
\* the board, the one it has read included, and it has missed none.
CallIsWell(r) ==
    /\ outcome[r] \in {"none", "ok"}
    /\ pc[r] = "idle" => reading[r] = None
    /\ pc[r] \notin {"idle", "previousRanks"} =>
          job[r].members \subseteq Entries(scores[BoardOf(r)])
    /\ pc[r] # "idle" /\ reading[r] # None => scores[BoardOf(r)][reading[r]] # None
    /\ pc[r] = "values" => missing[r] = {} /\ toRead[r] \subseteq job[r].members

WellInv ==
    /\ TypeOK
    /\ ExpiryIsSeasonEnd
    /\ NothingIsDue
    /\ removals = 0 /\ faults = 0
    /\ \A r \in Requests : CallIsWell(r)

-----------------------------------------------------------------------------
(* What steps leave alone                                                  *)

\* The steps of a call: a start, a write, another, or one without an answer.
LEMMA StepOfCall ==
    ASSUME NEW r \in Requests,
           CallStarts(r) \/ CallStep(r) \/ CallFails(r) \/ CallIsUnanswered(r)
    PROVE  /\ \/ Start(r) \/ PersistMembers(r) \/ IncrementMember(r) \/ OtherStep(r)
              \/ LoseAnswer(r)
           /\ UNCHANGED workerVars
  BY DEF CallStarts, CallStep, CallFails, CallIsUnanswered, WriteStep, OtherStep

\* A call does not turn the clock, and sets deadlines with one command only.
LEMMA CallsAndDeadlines ==
    ASSUME NEW r \in Requests,
           \/ Start(r) \/ PersistMembers(r) \/ IncrementMember(r) \/ OtherStep(r)
           \/ LoseAnswer(r)
    PROVE  now' = now /\ (UNCHANGED deadlines \/ SetDeadlines(r))
  <1>1. CASE Start(r) \/ CommandFails(r)
    BY <1>1 DEF Start, CommandFails, storeVars
  <1>2. CASE WriteStep(r) \/ LoseAnswer(r)
    BY <1>2, CallCommands DEF SetScores, SetMembers, IncrementScoreBy, IncrementMemberScore,
       ExpireBoard, SetLeaderboardExpiration, SetDeadlines, PutOnList, storeVars
  <1> QED BY <1>1, <1>2 DEF WriteStep, OtherStep

\* Every step takes scores away at most, or is the write of one call.
LEMMA ScoresStep ==
    ASSUME TypeOK, TypeOK', [Next]_vars
    PROVE  OnlyLeave \/ \E r \in Requests : /\ SetScores(r) \/ IncrementScoreBy(r)
                                            /\ UNCHANGED job
  <1> USE DEF TypeOK
  <1>1. CASE UNCHANGED vars
    BY <1>1, RemovalsLeave DEF vars, storeVars
  <1>2. ASSUME NEW r \in Requests,
               CallStarts(r) \/ CallStep(r) \/ CallFails(r) \/ CallIsUnanswered(r)
        PROVE  OnlyLeave \/ ((SetScores(r) \/ IncrementScoreBy(r)) /\ UNCHANGED job)
    <2>1. Start(r) => OnlyLeave
      BY RemovalsLeave DEF Start, storeVars
    <2>2. PersistMembers(r) \/ IncrementMember(r)
             => (SetScores(r) \/ IncrementScoreBy(r)) /\ UNCHANGED job
      BY WriteSets
    <2>3. CASE LoseAnswer(r)
      <3>1. UNCHANGED job
        BY <2>3, JobStands
      <3>2. CASE ExpireBoard(r)
        <4>1. BoardOf(r) \in Boards
          BY <3>2, StartedCall DEF ExpireBoard, At
        <4> QED BY <3>2, <4>1, RemovalsLeave DEF ExpireBoard
      <3>3. CASE SetDeadlines(r) \/ PutOnList(r)
        BY <3>3, RemovalsLeave DEF SetDeadlines, PutOnList
      <3> QED BY <2>3, <3>1, <3>2, <3>3 DEF LoseAnswer
    <2> QED BY <1>2, <2>1, <2>2, <2>3, StepOfCall, OtherStepsLeave
  <1>3. CASE RemoveSomeMembers \/ RemoveWholeLeaderboard \/ TimePasses
    BY <1>3, RemovalsLeave DEF RemoveSomeMembers, RemoveWholeLeaderboard, TimePasses
  <1>4. ASSUME NEW w \in Workers,
               WorkerMoves(w) \/ WorkerAborts(w) \/ WorkerIsUnanswered(w)
        PROVE  OnlyLeave
    BY <1>4, WorkerLeaves DEF WorkerMoves, WorkerAborts, WorkerIsUnanswered
  <1> QED BY <1>1, <1>2, <1>3, <1>4 DEF Next

-----------------------------------------------------------------------------
(* No deadline comes                                                       *)

\* No step of a call makes something due.
LEMMA CallsMakeNothingDue ==
    ASSUME NoDeadlineComes, TypeOK, TypeOK', NothingIsDue, NEW r \in Requests,
           \/ Start(r) \/ PersistMembers(r) \/ IncrementMember(r) \/ OtherStep(r)
           \/ LoseAnswer(r),
           UNCHANGED workerVars
    PROVE  NothingIsDue'
  <1>1. WriteTypeOK /\ WriteTypeOK' /\ StoreTypeOK /\ StoreTypeOK'
    BY DEF TypeOK
  <1>2. now' = now /\ (UNCHANGED deadlines \/ SetDeadlines(r))
    BY CallsAndDeadlines
  <1>3. ASSUME NEW s \in Requests, s # r
        PROVE  /\ job'[s] = job[s] /\ pc'[s] = pc[s]
               /\ timeToExpire'[s] = timeToExpire[s]
    BY <1>1, <1>3, OtherCallsStand DEF OtherStep, WriteStep
  <1>4. ASSUME Workers # {}, NEW l \in Boards, NEW m \in Members, deadlines'[l][m] # None
        PROVE  deadlines'[l][m] > MaxTime
    <2>1. CASE UNCHANGED deadlines
      BY <1>4, <2>1 DEF NothingIsDue
    <2>2. CASE SetDeadlines(r)
      <3>1. timeToExpire[r] > MaxTime
        BY <1>4, <2>2 DEF NothingIsDue, SetDeadlines, At
      <3>2. BoardOf(r) \in Boards
        BY <1>1, <2>2, StartedCall DEF SetDeadlines, At
      <3>3. deadlines' = [deadlines EXCEPT ![BoardOf(r)] =
                             ZAdd(@, job[r].members, timeToExpire[r])]
        BY <2>2 DEF SetDeadlines
      <3>4. deadlines'[l][m] \in {timeToExpire[r], deadlines[l][m]}
        BY <1>1, <3>2, <3>3 DEF ZAdd, StoreTypeOK
      <3> QED BY <1>4, <3>1, <3>4 DEF NothingIsDue
    <2> QED BY <1>2, <2>1, <2>2
  <1>5. ASSUME Workers # {}, pc'[r] = "stamp"
        PROVE  job'[r].scoreTTL # NoTTL
    <2>1. pc[r] = "stamp" => Timed(r)
      BY <1>5 DEF NothingIsDue
    <2>2. CASE Start(r) \/ PersistMembers(r) \/ IncrementMember(r)
      BY <1>1, <1>5, <2>2 DEF Start, PersistMembers, SetScores, IncrementMember,
           IncrementScoreBy, ThenReadValues, Goto, WriteTypeOK
    <2>3. CASE \/ ReadScore(r) \/ ReadRank(r) \/ DereferenceMissing(r) \/ CommandFails(r)
               \/ LoseAnswer(r)
      BY <1>5, <2>1, <2>3 DEF ReadScore, ReadRank, DereferenceMissing, CommandFails,
           LoseAnswer, Timed, place
    <2>4. CASE GetExpireAt(r)
      BY <1>1, <1>5, <2>4 DEF GetExpireAt, ThenPersistTTL, At, Goto, Timed,
           WriteTypeOK, place
    <2>5. CASE GetLeaderboardExpiration(r)
      BY <1>1, <1>5, <2>5
      DEF GetLeaderboardExpiration, ThenPersistTTL, At, Goto, Timed, WriteTypeOK, place
    <2>6. CASE PersistLeaderboardExpiration(r)
      BY <1>1, <1>5, <2>6
      DEF PersistLeaderboardExpiration, ExpireBoard, ThenPersistTTL, At, Goto, Timed,
          WriteTypeOK, place
    <2>7. CASE StampDeadline(r) \/ AddDeadlines(r) \/ Register(r)
      BY <1>1, <1>5, <2>7 DEF StampDeadline, AddDeadlines, SetDeadlines, Register,
           PutOnList, Goto, WriteTypeOK
    <2> QED BY <2>2, <2>3, <2>4, <2>5, <2>6, <2>7 DEF OtherStep
  <1>6. ASSUME Workers # {}, pc'[r] = "addDeadlines"
        PROVE  timeToExpire'[r] > MaxTime
    <2>1. CASE StampDeadline(r)
      <3>1. pc[r] = "stamp" /\ timeToExpire'[r] = now + job[r].scoreTTL
        BY <1>1, <2>1 DEF StampDeadline, At, WriteTypeOK
      <3>2. job[r] \in Jobs /\ job[r].scoreTTL \in Int /\ Timed(r)
        BY <1>1, <1>6, <3>1, StartedCall DEF NothingIsDue
      <3>3. job[r].scoreTTL > MaxTime
        BY <1>6, <3>2 DEF NoDeadlineComes, Timed
      <3> QED BY <1>1, <3>1, <3>2, <3>3, MaxTimeAssumption DEF StoreTypeOK
    <2>2. CASE ~StampDeadline(r)
      <3>1. pc[r] = "addDeadlines" /\ timeToExpire'[r] = timeToExpire[r]
        <4>1. CASE Start(r) \/ PersistMembers(r) \/ IncrementMember(r)
          BY <1>1, <1>6, <4>1 DEF Start, PersistMembers, SetScores, IncrementMember,
           IncrementScoreBy, ThenReadValues, Goto, WriteTypeOK
        <4>2. CASE \/ ReadScore(r) \/ ReadRank(r) \/ DereferenceMissing(r)
                   \/ CommandFails(r) \/ LoseAnswer(r)
          BY <1>6, <4>2 DEF ReadScore, ReadRank, DereferenceMissing, CommandFails,
           LoseAnswer, place
        <4>3. CASE GetExpireAt(r) \/ GetLeaderboardExpiration(r)
          BY <1>1, <1>6, <4>3 DEF GetExpireAt, GetLeaderboardExpiration,
           ThenPersistTTL, At, Goto, WriteTypeOK, place
        <4>4. CASE PersistLeaderboardExpiration(r)
          BY <1>1, <1>6, <4>4 DEF PersistLeaderboardExpiration, ExpireBoard,
           ThenPersistTTL, At, Goto, WriteTypeOK, place
        <4>5. CASE AddDeadlines(r) \/ Register(r)
          BY <1>1, <1>6, <4>5 DEF AddDeadlines, SetDeadlines, Register, PutOnList,
           Goto, WriteTypeOK
        <4> QED BY <2>2, <4>1, <4>2, <4>3, <4>4, <4>5 DEF OtherStep
      <3> QED BY <1>6, <3>1 DEF NothingIsDue
    <2> QED BY <2>1, <2>2
  <1>7. ASSUME Workers # {}, NEW s \in Requests
        PROVE  /\ pc'[s] = "stamp" => job'[s].scoreTTL # NoTTL
               /\ pc'[s] = "addDeadlines" => timeToExpire'[s] > MaxTime
    BY <1>3, <1>5, <1>6, <1>7 DEF NothingIsDue, Timed
  <1>8. \A w \in Workers : maxTime'[w] <= MaxTime
                            /\ wpc'[w] \notin {"expireScores", "expireDeadlines"}
    BY DEF NothingIsDue, workerVars
  <1> QED BY <1>2, <1>4, <1>7, <1>8 DEF NothingIsDue, Timed

\* Nor does a worker, which finds nothing to remove.
LEMMA WorkersMakeNothingDue ==
    ASSUME TypeOK, NothingIsDue, NEW w \in Workers,
           WorkerStep(w) \/ AbortRun(w) \/ LoseWorkerAnswer(w),
           UNCHANGED writeVars
    PROVE  NothingIsDue' /\ UNCHANGED <<scores, deadlines, now>>
  <1>1. WorkerTypeOK /\ StoreTypeOK
    BY DEF TypeOK
  <1>2. wpc[w] \notin {"expireScores", "expireDeadlines"}
    BY DEF NothingIsDue
  <1>3. ~RemoveScores(w) /\ ~RemoveDeadlines(w) /\ ~ExpireScores(w) /\ ~ExpireDeadlines(w)
    BY <1>2 DEF ExpireScores, RemoveScores, ExpireDeadlines, RemoveDeadlines
  <1>4. UNCHANGED <<scores, deadlines, now>>
    BY <1>3, WorkerCommands DEF TakeOffList, storeVars
  <1>5. ASSUME NEW v \in Workers, v # w
        PROVE  maxTime'[v] = maxTime[v] /\ wpc'[v] = wpc[v]
    BY <1>1, <1>3, <1>5 DEF WorkerStep, AbortRun, LoseWorkerAnswer, BeginRun, VisitNext,
           EndRun, CheckExists, RemoveLeaderboardFromExpireList,
           GetMembersToExpire, EndVisit, WGoto, WorkerTypeOK, workerVars
  <1>6. maxTime'[w] <= MaxTime /\ wpc'[w] \notin {"expireScores", "expireDeadlines"}
    <2>1. CASE BeginRun(w) \/ EndRun(w) \/ CheckExists(w)
      BY <1>1, <2>1 DEF BeginRun, EndRun, CheckExists, WGoto, WorkerTypeOK, NothingIsDue
    <2>2. CASE RemoveLeaderboardFromExpireList(w) \/ AbortRun(w)
      BY <1>1, <2>2, MaxTimeAssumption DEF RemoveLeaderboardFromExpireList,
           AbortRun, EndVisit, WGoto, WorkerTypeOK
    <2>3. CASE LoseWorkerAnswer(w)
      BY <2>3 DEF LoseWorkerAnswer, workerVars, NothingIsDue
    <2>4. CASE VisitNext(w)
      BY <1>1, <2>4 DEF VisitNext, WGoto, WorkerTypeOK, NothingIsDue
    <2>5. CASE GetMembersToExpire(w)
      <3>1. PICK due \in ZRangeByScore(deadlines[current[w]], maxTime[w],
                                       ExpirationLimitPerRun) :
               IF due = {}
               THEN EndVisit(w, "next")
               ELSE /\ batch' = [batch EXCEPT ![w] = due]
                    /\ WGoto(w, "expireScores")
                    /\ UNCHANGED <<current, maxTime>>
        BY <2>5 DEF GetMembersToExpire
      <3>2. current[w] \in Boards
        BY <1>1, <2>5 DEF GetMembersToExpire, WorkerTypeOK, Visiting
      <3>3. ASSUME NEW m \in due
            PROVE  FALSE
        <4>1. /\ m \in Members
              /\ deadlines[current[w]][m] # None
              /\ deadlines[current[w]][m] <= maxTime[w]
          BY <3>3, ZRangeByScoreReturns
        <4>2. deadlines[current[w]][m] > MaxTime /\ maxTime[w] <= MaxTime
          BY <3>2, <4>1 DEF NothingIsDue
        <4>3. deadlines[current[w]][m] \in Int /\ maxTime[w] \in Nat
          BY <1>1, <3>2, <4>1 DEF StoreTypeOK, WorkerTypeOK
        <4> QED BY <4>1, <4>2, <4>3, MaxTimeAssumption
      <3>4. EndVisit(w, "next")
        BY <3>1, <3>3
      <3> QED BY <1>1, <3>4, MaxTimeAssumption DEF EndVisit, WGoto, WorkerTypeOK
    <2> QED BY <1>3, <2>1, <2>2, <2>4, <2>5, <2>3 DEF WorkerStep
  <1>7. \A v \in Workers : maxTime'[v] <= MaxTime
                            /\ wpc'[v] \notin {"expireScores", "expireDeadlines"}
    BY <1>5, <1>6 DEF NothingIsDue
  <1> QED BY <1>4, <1>7 DEF NothingIsDue, Timed, writeVars, place

\* So nothing ever is due, whoever moves.
LEMMA NothingIsDueStep ==
    ASSUME NoDeadlineComes, TypeOK, TypeOK', NothingIsDue, [Next]_vars
    PROVE  NothingIsDue'
  <1>1. CASE UNCHANGED vars
    BY <1>1 DEF vars, storeVars, writeVars, place, workerVars, NothingIsDue, Timed
  <1>2. ASSUME NEW r \in Requests,
               CallStarts(r) \/ CallStep(r) \/ CallFails(r) \/ CallIsUnanswered(r)
        PROVE  NothingIsDue'
    BY <1>2, StepOfCall, CallsMakeNothingDue
  <1>3. CASE RemoveSomeMembers \/ RemoveWholeLeaderboard
    <2>1. UNCHANGED <<now, deadlines, writeVars, workerVars>>
      BY <1>3 DEF RemoveSomeMembers, RemoveWholeLeaderboard, RemoveMembers, RemoveLeaderboard
    <2> QED BY <2>1 DEF NothingIsDue, Timed, writeVars, place, workerVars
  <1>4. ASSUME NEW w \in Workers,
               WorkerMoves(w) \/ WorkerAborts(w) \/ WorkerIsUnanswered(w)
        PROVE  NothingIsDue'
    BY <1>4, WorkersMakeNothingDue DEF WorkerMoves, WorkerAborts, WorkerIsUnanswered
  <1>5. CASE TimePasses
    <2>1. UNCHANGED <<deadlines, writeVars, workerVars>>
      BY <1>5 DEF TimePasses, Tick
    <2>2. now' <= MaxTime
      BY <1>5, MaxTimeAssumption DEF TimePasses, Tick, TypeOK, StoreTypeOK
    <2> QED BY <2>1, <2>2 DEF NothingIsDue, Timed, writeVars, place, workerVars
  <1> QED BY <1>1, <1>2, <1>3, <1>4, <1>5 DEF Next

\* A deadline that is set stays set.
LEMMA DeadlinesStay ==
    ASSUME TypeOK, TypeOK', NothingIsDue, [Next]_vars, NEW l \in Boards, NEW m \in Members,
           deadlines[l][m] # None
    PROVE  deadlines'[l][m] # None
  <1>1. CASE UNCHANGED deadlines
    BY <1>1
  <1>2. ASSUME NEW r \in Requests, SetDeadlines(r)
        PROVE  deadlines'[l][m] # None
    <2>1. BoardOf(r) \in Boards /\ timeToExpire[r] \in Int
      BY <1>2, StartedCall DEF SetDeadlines, At, TypeOK, WriteTypeOK
    <2>2. deadlines' = [deadlines EXCEPT ![BoardOf(r)] =
                           ZAdd(@, job[r].members, timeToExpire[r])]
      BY <1>2 DEF SetDeadlines
    <2>3. deadlines'[l][m] \in {timeToExpire[r], deadlines[l][m]}
      BY <2>1, <2>2 DEF ZAdd, TypeOK, StoreTypeOK
    <2> QED BY <2>1, <2>3, NoneAssumption
  <1>3. ASSUME NEW r \in Requests,
               CallStarts(r) \/ CallStep(r) \/ CallFails(r) \/ CallIsUnanswered(r)
        PROVE  UNCHANGED deadlines \/ SetDeadlines(r)
    BY <1>3, StepOfCall, CallsAndDeadlines
  <1>4. CASE RemoveSomeMembers \/ RemoveWholeLeaderboard \/ TimePasses
    BY <1>1, <1>4 DEF RemoveSomeMembers, RemoveWholeLeaderboard, RemoveMembers,
       RemoveLeaderboard, TimePasses, Tick
  <1>5. ASSUME NEW w \in Workers,
               WorkerMoves(w) \/ WorkerAborts(w) \/ WorkerIsUnanswered(w)
        PROVE  UNCHANGED deadlines
    BY <1>5, WorkersMakeNothingDue DEF WorkerMoves, WorkerAborts, WorkerIsUnanswered
  <1>6. CASE UNCHANGED vars
    BY <1>1, <1>6 DEF vars, storeVars
  <1> QED BY <1>1, <1>2, <1>3, <1>4, <1>5, <1>6 DEF Next

\* A score is of the call that wrote it, since only its write puts it there.
LEMMA ScoresAreOfCallsStep ==
    ASSUME TypeOK, TypeOK', ScoresAreOfCalls, [Next]_vars
    PROVE  ScoresAreOfCalls'
  <1>1. StoreTypeOK /\ WriteTypeOK
    BY DEF TypeOK
  <1>2. ASSUME NEW r \in Requests, job[r] # None
        PROVE  job'[r] = job[r]
    <2>1. ASSUME NEW s \in Requests,
                 CallStarts(s) \/ CallStep(s) \/ CallFails(s) \/ CallIsUnanswered(s)
          PROVE  job'[r] = job[r]
      <3>1. CASE Start(s)
        BY <1>1, <1>2, <3>1, OtherCallsStand DEF Start, WriteTypeOK
      <3>2. CASE WriteStep(s) \/ CommandFails(s) \/ LoseAnswer(s)
        BY <3>2, JobStands
      <3> QED BY <2>1, <3>1, <3>2 DEF CallStarts, CallStep, CallFails, CallIsUnanswered
    <2>2. CASE RemoveSomeMembers \/ RemoveWholeLeaderboard \/ TimePasses \/ UNCHANGED vars
      BY <2>2 DEF RemoveSomeMembers, RemoveWholeLeaderboard, TimePasses, vars,
           writeVars, place
    <2>3. ASSUME NEW w \in Workers,
                 WorkerMoves(w) \/ WorkerAborts(w) \/ WorkerIsUnanswered(w)
          PROVE  job'[r] = job[r]
      BY <2>3 DEF WorkerMoves, WorkerAborts, WorkerIsUnanswered, writeVars
    <2> QED BY <2>1, <2>2, <2>3 DEF Next
  <1>3. CASE OnlyLeave
    <2> SUFFICES ASSUME NEW l \in Boards, NEW m \in Members, NEW r \in Requests,
                        scores'[l][m] = r
                 PROVE  job'[r] # None /\ job'[r].board = l /\ m \in job'[r].members
      BY DEF ScoresAreOfCalls, BoardOf
    <2>1. scores[l][m] = r
      BY <1>3, NoneAssumption DEF OnlyLeave
    <2> QED BY <1>2, <2>1 DEF ScoresAreOfCalls, BoardOf
  <1>4. ASSUME NEW s \in Requests, SetScores(s) \/ IncrementScoreBy(s), UNCHANGED job
        PROVE  ScoresAreOfCalls'
    <2>1. /\ job' = job /\ job[s] # None /\ job[s].board \in Boards
          /\ scores' = [scores EXCEPT ![job[s].board] = ZAdd(@, job[s].members, s)]
      BY <1>4, WriteCommands
    <2> SUFFICES ASSUME NEW l \in Boards, NEW m \in Members, NEW r \in Requests,
                        scores'[l][m] = r
                 PROVE  job[r] # None /\ job[r].board = l /\ m \in job[r].members
      BY <2>1 DEF ScoresAreOfCalls, BoardOf
    <2>2. CASE l = job[s].board /\ m \in job[s].members
      BY <1>1, <2>1, <2>2 DEF ZAdd, StoreTypeOK
    <2>3. CASE ~(l = job[s].board /\ m \in job[s].members)
      <3>1. scores[l][m] = r
        BY <1>1, <2>1, <2>3 DEF ZAdd, StoreTypeOK
      <3> QED BY <3>1 DEF ScoresAreOfCalls, BoardOf
    <2> QED BY <2>2, <2>3
  <1> QED BY <1>3, <1>4, ScoresStep

\* A call that registers or has succeeded has set its deadlines: they come with
\* the command before, and stay.
LEMMA DeadlinesAreSetStep ==
    ASSUME DeadlineInv, TypeOK', [Next]_vars, NEW r \in Requests
    PROVE  DeadlinesAreSet(r)'
  <1>1. TypeOK /\ StoreTypeOK /\ WriteTypeOK /\ NothingIsDue /\ DeadlinesAreSet(r)
    BY DEF DeadlineInv, TypeOK
  <1>2. ASSUME job'[r] = job[r], pc'[r] = pc[r], outcome'[r] = outcome[r]
        PROVE  DeadlinesAreSet(r)'
    <2>1. ASSUME pc[r] = "register" \/ (outcome[r] = "ok" /\ Timed(r)), NEW m \in job[r].members
          PROVE  deadlines'[BoardOf(r)][m] # None
      <3>1. pc[r] # "idle" /\ deadlines[BoardOf(r)][m] # None
        BY <1>1, <2>1 DEF DeadlinesAreSet
      <3>2. BoardOf(r) \in Boards /\ m \in Members
        BY <1>1, <2>1, <3>1, StartedCall
      <3> QED BY <1>1, <3>1, <3>2, DeadlinesStay
    <2> QED BY <1>1, <1>2, <2>1 DEF DeadlinesAreSet, Timed, BoardOf
  <1>3. CASE Start(r)
    BY <1>1, <1>3 DEF Start, Goto, DeadlinesAreSet, WriteTypeOK
  <1>4. CASE PersistMembers(r) \/ IncrementMember(r)
    BY <1>1, <1>4 DEF PersistMembers, SetScores, IncrementMember, IncrementScoreBy,
           ThenReadValues, At, Goto, DeadlinesAreSet, WriteTypeOK
  <1>5. CASE ReadScore(r)
    BY <1>2, <1>5 DEF ReadScore, place
  <1>6. CASE ReadRank(r) \/ DereferenceMissing(r)
    BY <1>1, <1>2, <1>6 DEF ReadRank, DereferenceMissing, At, End, DeadlinesAreSet,
           WriteTypeOK, place
  <1>7. CASE GetExpireAt(r)
    BY <1>1, <1>7 DEF GetExpireAt, ThenPersistTTL, At, Goto, End, Timed,
           DeadlinesAreSet, WriteTypeOK, place
  <1>8. CASE GetLeaderboardExpiration(r)
    BY <1>1, <1>8 DEF GetLeaderboardExpiration, ThenPersistTTL, At, Goto, End, Timed,
           DeadlinesAreSet, WriteTypeOK, place
  <1>9. CASE PersistLeaderboardExpiration(r)
    BY <1>1, <1>9 DEF PersistLeaderboardExpiration, ExpireBoard, ThenPersistTTL, At,
           Goto, End, Timed, DeadlinesAreSet, WriteTypeOK, place
  <1>10. CASE StampDeadline(r)
    BY <1>1, <1>10 DEF StampDeadline, At, Goto, DeadlinesAreSet, WriteTypeOK
  <1>11. CASE AddDeadlines(r)
    <2>1. /\ pc'[r] = "register" /\ job' = job /\ outcome'[r] = "none"
          /\ BoardOf(r) \in Boards /\ job[r].members \in SUBSET Members
          /\ timeToExpire[r] \in Int
          /\ deadlines' = [deadlines EXCEPT ![BoardOf(r)] =
                               ZAdd(@, job[r].members, timeToExpire[r])]
      BY <1>1, <1>11, StartedCall DEF AddDeadlines, SetDeadlines, At, Goto, WriteTypeOK
    <2>2. \A m \in job[r].members : deadlines'[BoardOf(r)][m] = timeToExpire[r]
      BY <1>1, <2>1 DEF ZAdd, StoreTypeOK
    <2> QED BY <2>1, <2>2, NoneAssumption DEF DeadlinesAreSet, BoardOf
  <1>12. CASE Register(r)
    <2>1. /\ pc[r] = "register" /\ pc'[r] = "done" /\ job' = job /\ deadlines' = deadlines
      BY <1>1, <1>12 DEF Register, PutOnList, At, Goto, WriteTypeOK
    <2> QED BY <1>1, <2>1 DEF DeadlinesAreSet, BoardOf
  <1>13. CASE CommandFails(r)
    <2>1. UNCHANGED <<job, pc, deadlines>> /\ outcome'[r] = "error"
      BY <1>1, <1>13 DEF CommandFails, End, WriteTypeOK, storeVars, place
    <2> QED BY <1>1, <2>1 DEF DeadlinesAreSet, BoardOf
  <1>14. CASE LoseAnswer(r)
    BY <1>2, <1>14 DEF LoseAnswer
  <1>15. ASSUME NEW s \in Requests,
                CallStarts(s) \/ CallStep(s) \/ CallFails(s) \/ CallIsUnanswered(s)
         PROVE  DeadlinesAreSet(r)'
    <2>1. CASE s = r
      BY <1>3, <1>4, <1>5, <1>6, <1>7, <1>8, <1>9, <1>10, <1>11, <1>12, <1>13, <1>15, <1>14,
         <2>1, StepOfCall DEF OtherStep
    <2>2. CASE s # r
      BY <1>1, <1>2, <1>15, <2>2, OtherCallsStand DEF CallStarts, CallStep, CallFails,
         CallIsUnanswered
    <2> QED BY <2>1, <2>2
  <1>16. CASE UNCHANGED writeVars
    BY <1>2, <1>16 DEF writeVars, place
  <1> QED
    BY <1>15, <1>16 DEF Next, RemoveSomeMembers, RemoveWholeLeaderboard, WorkerMoves,
       WorkerAborts, WorkerIsUnanswered, TimePasses, vars

\* Together these are inductive.
LEMMA DeadlineInvStep ==
    ASSUME NoDeadlineComes, DeadlineInv, TypeOK', [Next]_vars
    PROVE  DeadlineInv'
  <1>1. TypeOK /\ NothingIsDue /\ ScoresAreOfCalls
    BY DEF DeadlineInv
  <1>2. NothingIsDue'
    BY <1>1, NothingIsDueStep
  <1>3. ScoresAreOfCalls'
    BY <1>1, ScoresAreOfCallsStep
  <1>4. \A r \in Requests : DeadlinesAreSet(r)'
    BY DeadlinesAreSetStep
  <1> QED BY <1>2, <1>3, <1>4 DEF DeadlineInv

\* Nothing is due when the system starts.
LEMMA InitNothingIsDue ==
    ASSUME Init
    PROVE  NothingIsDue
  BY MaxTimeAssumption DEF Init, StoreInit, WriteInit, WorkerInit, EmptyZset, NothingIsDue

\* A score whose call asked for a scoreTTL and succeeded has a deadline, for any
\* number of calls, boards, seasons, removals and failing commands, as long as
\* no deadline comes: no order of the commands of two calls loses one
\* (SetMembersTTL adds to l:ttl and never replaces it).
THEOREM TimedScoresHaveDeadlinesAlways ==
    ASSUME NoDeadlineComes
    PROVE  Spec => []TimedScoresHaveDeadlines
  <1>1. Init /\ TypeOK => DeadlineInv
    BY InitNothingIsDue, NoneAssumption
    DEF Init, StoreInit, WriteInit, EmptyZset, ScoresAreOfCalls, DeadlinesAreSet, DeadlineInv
  <1>2. DeadlineInv /\ TypeOK' /\ [Next]_vars => DeadlineInv'
    BY DeadlineInvStep
  <1>3. DeadlineInv => TimedScoresHaveDeadlines
    BY DEF DeadlineInv, ScoresAreOfCalls, DeadlinesAreSet, TimedScoresHaveDeadlines
  <1> QED BY <1>1, <1>2, <1>3, TypeCorrect, PTL DEF Spec

-----------------------------------------------------------------------------
(* Nothing is taken away                                                   *)

\* EXPIREAT finds the season's end ahead, and takes no score away.
LEMMA ExpireAtTakesNothing ==
    ASSUME NoSeasonEnds, TypeOK, NothingIsDue, NEW r \in Requests,
           PersistLeaderboardExpiration(r)
    PROVE  UNCHANGED scores
  <1>1. CASE Exists(scores[BoardOf(r)])
    <2>1. pc[r] = "expireAt" /\ SetLeaderboardExpiration(BoardOf(r), ExpireAtOf[BoardOf(r)])
      BY <1>1 DEF PersistLeaderboardExpiration, ExpireBoard, At, place
    <2>2. BoardOf(r) \in Boards /\ Seasonal(BoardOf(r))
      BY <2>1, StartedCall DEF TypeOK, WriteTypeOK
    <2>3. ExpireAtOf[BoardOf(r)] \in Nat /\ ExpireAtOf[BoardOf(r)] > MaxTime
      BY <2>2, ExpireAtOfAssumption DEF NoSeasonEnds, Seasonal
    <2>4. ExpireAtOf[BoardOf(r)] > now
      BY <2>3, MaxTimeAssumption DEF NothingIsDue, TypeOK, StoreTypeOK
    <2> QED BY <2>1, <2>4 DEF SetLeaderboardExpiration
  <1>2. CASE ~Exists(scores[BoardOf(r)])
    BY <1>2 DEF PersistLeaderboardExpiration, ExpireBoard, storeVars, place
  <1> QED BY <1>1, <1>2

\* The clock ends no season.
LEMMA TickTakesNothing ==
    ASSUME NoSeasonEnds, TypeOK, ExpiryIsSeasonEnd, Tick
    PROVE  UNCHANGED scores
  <1>1. ASSUME NEW l \in Boards
        PROVE  ~Elapsed(l, now + 1)
    <2>1. CASE expireAt[l] # None
      <3>1. Seasonal(l) /\ expireAt[l] = ExpireAtOf[l] /\ expireAt[l] > MaxTime
        BY <2>1 DEF ExpiryIsSeasonEnd, NoSeasonEnds
      <3>2. expireAt[l] \in Nat /\ now \in Nat
        BY <2>1 DEF TypeOK, StoreTypeOK
      <3> QED BY <3>1, <3>2, MaxTimeAssumption DEF Tick, Elapsed
    <2>2. CASE expireAt[l] = None
      BY <2>2 DEF Elapsed
    <2> QED BY <2>1, <2>2
  <1> QED BY <1>1 DEF Tick, TypeOK, StoreTypeOK

\* A score that is on a board stays there, perhaps as another call's.
LEMMA ScoresStay ==
    ASSUME OnlyWrites, WellInv, [Next]_vars, NEW l \in Boards, NEW m \in Members,
           scores[l][m] # None
    PROVE  scores'[l][m] # None
  <1>1. TypeOK /\ StoreTypeOK /\ NothingIsDue /\ ExpiryIsSeasonEnd
    BY DEF WellInv, TypeOK
  <1>2. CASE UNCHANGED scores
    BY <1>2
  <1>3. ASSUME NEW r \in Requests, PersistMembers(r) \/ IncrementMember(r)
        PROVE  scores'[l][m] # None
    <2>1. /\ job[r].board \in Boards
          /\ scores' = [scores EXCEPT ![job[r].board] = ZAdd(@, job[r].members, r)]
      BY <1>1, <1>3, WriteSets, WriteCommands
    <2>2. scores'[l][m] \in {r, scores[l][m]}
      BY <1>1, <2>1 DEF ZAdd, StoreTypeOK
    <2> QED BY <2>2, NoneAssumption
  <1>4. ASSUME NEW r \in Requests, Start(r) \/ OtherStep(r)
        PROVE  UNCHANGED scores
    <2>1. CASE PersistLeaderboardExpiration(r)
      BY <1>1, <2>1, ExpireAtTakesNothing DEF OnlyWrites
    <2>2. CASE ~PersistLeaderboardExpiration(r)
      BY <1>4, <2>2 DEF OtherStep, Start, ReadScore, ReadRank, DereferenceMissing,
           GetExpireAt, GetLeaderboardExpiration, StampDeadline, AddDeadlines,
           SetDeadlines, Register, PutOnList, CommandFails, storeVars, place
    <2> QED BY <2>1, <2>2
  <1>5. ASSUME NEW r \in Requests
         PROVE  ~CallIsUnanswered(r)
    BY DEF OnlyWrites, WellInv, CallIsUnanswered
  <1>6. ASSUME NEW r \in Requests, CallStarts(r) \/ CallStep(r) \/ CallFails(r)
        PROVE  scores'[l][m] # None
    <2>1. Start(r) \/ PersistMembers(r) \/ IncrementMember(r) \/ OtherStep(r)
      BY <1>6 DEF CallStarts, CallStep, CallFails, WriteStep, OtherStep
    <2> QED BY <1>2, <1>3, <1>4, <2>1
  <1>7. ~RemoveSomeMembers /\ ~RemoveWholeLeaderboard
    BY DEF OnlyWrites, WellInv, RemoveSomeMembers, RemoveWholeLeaderboard
  <1>8. ASSUME NEW w \in Workers,
               WorkerMoves(w) \/ WorkerAborts(w) \/ WorkerIsUnanswered(w)
        PROVE  UNCHANGED scores
    BY <1>1, <1>8, WorkersMakeNothingDue DEF WorkerMoves, WorkerAborts, WorkerIsUnanswered
  <1>9. TimePasses => UNCHANGED scores
    BY <1>1, TickTakesNothing DEF OnlyWrites, TimePasses
  <1>10. UNCHANGED vars => UNCHANGED scores
    BY DEF vars, storeVars
  <1> QED BY <1>2, <1>6, <1>7, <1>8, <1>9, <1>10, <1>5 DEF Next

\* A call that stands still goes on being well.
LEMMA StandingCallIsWell ==
    ASSUME OnlyWrites, WellInv, TypeOK', [Next]_vars, NEW r \in Requests,
           job'[r] = job[r], pc'[r] = pc[r], outcome'[r] = outcome[r],
           toRead'[r] = toRead[r], reading'[r] = reading[r], missing'[r] = missing[r]
    PROVE  CallIsWell(r)'
  <1>1. CallIsWell(r) /\ WriteTypeOK
    BY DEF WellInv, TypeOK
  <1>2. CASE pc[r] = "idle"
    BY <1>1, <1>2 DEF CallIsWell
  <1>3. CASE pc[r] # "idle"
    <2>1. BoardOf(r) \in Boards /\ job[r].members \in SUBSET Members
      BY <1>1, <1>3, StartedCall
    <2>2. Entries(scores[BoardOf(r)]) \subseteq Entries(scores'[BoardOf(r)])
      BY <2>1, ScoresStay DEF Entries
    <2>3. reading[r] # None => reading[r] \in Members
      BY <1>1 DEF WriteTypeOK
    <2>4. reading[r] # None => scores'[BoardOf(r)][reading[r]] # None
      BY <1>1, <1>3, <2>1, <2>3, ScoresStay DEF CallIsWell
    <2> QED BY <1>1, <1>3, <2>2, <2>4 DEF CallIsWell, BoardOf
  <1> QED BY <1>2, <1>3

\* So does one that takes a step.
LEMMA SteppingCallIsWell ==
    ASSUME OnlyWrites, WellInv, TypeOK', [Next]_vars, NEW r \in Requests,
           Start(r) \/ WriteStep(r)
    PROVE  CallIsWell(r)'
  <1>1. CallIsWell(r) /\ TypeOK /\ WriteTypeOK /\ StoreTypeOK /\ NothingIsDue
    BY DEF WellInv, TypeOK
  <1>2. CASE Start(r)
    <2>1. /\ pc[r] = "idle" /\ pc'[r] = "previousRanks"
          /\ reading' = reading /\ outcome' = outcome
      BY <1>1, <1>2 DEF Start, Goto, WriteTypeOK
    <2> QED BY <1>1, <2>1 DEF CallIsWell
  <1>3. CASE PersistMembers(r) \/ IncrementMember(r)
    <2>1. /\ job' = job /\ job[r] \in Jobs /\ job[r].board \in Boards
          /\ scores' = [scores EXCEPT ![job[r].board] = ZAdd(@, job[r].members, r)]
      BY <1>1, <1>3, WriteSets, WriteCommands
    <2>2. job[r].members \in SUBSET Members
      BY <2>1, JobTypes
    <2>3. job[r].members \subseteq Entries(scores'[job[r].board])
      BY <1>1, <2>1, <2>2, NoneAssumption DEF ZAdd, Entries, StoreTypeOK
    <2>4. /\ pc'[r] = "values" /\ outcome' = outcome /\ reading'[r] = None
          /\ missing'[r] = {} /\ toRead'[r] = job[r].members
      BY <1>1, <1>3 DEF PersistMembers, SetScores, IncrementMember, IncrementScoreBy,
           ThenReadValues, StartReading, ReadAll, Goto, WriteTypeOK
    <2> QED BY <1>1, <2>1, <2>3, <2>4 DEF CallIsWell, BoardOf
  <1>4. ASSUME OtherStep(r)
        PROVE  /\ pc[r] # "idle" /\ BoardOf(r) \in Boards
               /\ job[r].members \in SUBSET Members /\ job' = job
               /\ Entries(scores[BoardOf(r)]) \subseteq Entries(scores'[BoardOf(r)])
    <2>1. pc[r] # "idle"
      BY <1>4 DEF OtherStep, ReadScore, ReadRank, DereferenceMissing, GetExpireAt,
           GetLeaderboardExpiration, PersistLeaderboardExpiration, ExpireBoard,
           StampDeadline, AddDeadlines, SetDeadlines, Register, PutOnList,
           CommandFails, At, place
    <2>2. BoardOf(r) \in Boards /\ job[r].members \in SUBSET Members
      BY <1>1, <2>1, StartedCall
    <2>3. Entries(scores[BoardOf(r)]) \subseteq Entries(scores'[BoardOf(r)])
      BY <2>2, ScoresStay DEF Entries
    <2> QED BY <1>1, <1>4, <2>1, <2>2, <2>3, OtherStepsBooks
  <1>5. CASE ReadScore(r)
    <2>1. PICK m \in toRead[r] :
             IF scores[BoardOf(r)][m] # None
             THEN /\ reading' = [reading EXCEPT ![r] = m]
                  /\ UNCHANGED <<toRead, missing>>
             ELSE /\ toRead' = [toRead EXCEPT ![r] = @ \ {m}]
                  /\ missing' = [missing EXCEPT ![r] = @ \cup {m}]
                  /\ UNCHANGED reading
      BY <1>5 DEF ReadScore, place
    <2>2. UNCHANGED <<scores, job, pc, outcome>> /\ pc[r] \in {"previousRanks", "values"}
          /\ reading[r] = None
      BY <1>5 DEF ReadScore, At, storeVars, place
    <2>3. CASE scores[BoardOf(r)][m] # None
      BY <1>1, <2>1, <2>2, <2>3 DEF CallIsWell, BoardOf, WriteTypeOK
    <2>4. CASE scores[BoardOf(r)][m] = None
      <3>1. pc[r] = "previousRanks"
        BY <1>1, <2>1, <2>2, <2>4 DEF CallIsWell, Entries
      <3> QED BY <1>1, <2>1, <2>2, <2>4, <3>1 DEF CallIsWell
    <2> QED BY <2>3, <2>4
  <1>6. CASE ReadRank(r)
    <2>1. pc[r] \in {"previousRanks", "values"} /\ scores[BoardOf(r)][reading[r]] # None
      BY <1>1, <1>6 DEF ReadRank, At, CallIsWell, place
    <2>2. /\ UNCHANGED <<scores, job, pc, outcome, missing>> /\ reading'[r] = None
          /\ toRead'[r] \subseteq toRead[r]
      BY <1>1, <1>6, <2>1 DEF ReadRank, storeVars, WriteTypeOK, place
    <2> QED BY <1>1, <2>1, <2>2 DEF CallIsWell, BoardOf
  <1>7. CASE DereferenceMissing(r)
    BY <1>1, <1>7 DEF DereferenceMissing, At, CallIsWell, place
  <1>8. ASSUME OtherStep(r), pc[r] # "previousRanks",
               pc'[r] \notin {"idle", "previousRanks", "values"},
               outcome'[r] \in {"none", "ok"}, reading' = reading
        PROVE  CallIsWell(r)'
    <2>1. job[r].members \subseteq Entries(scores'[BoardOf(r)])
      BY <1>1, <1>4, <1>8 DEF CallIsWell
    <2>2. reading[r] # None => scores'[BoardOf(r)][reading[r]] # None
      BY <1>1, <1>4, <1>8, ScoresStay DEF CallIsWell, WriteTypeOK
    <2> QED BY <1>4, <1>8, <2>1, <2>2 DEF CallIsWell, BoardOf
  <1>9. CASE GetExpireAt(r)
    <2>1. OtherStep(r) /\ pc[r] = "values" /\ reading' = reading
      BY <1>9 DEF OtherStep, GetExpireAt, At, place
    <2>2. ExpireAtOf[BoardOf(r)] # Invalid
          /\ (Seasonal(BoardOf(r)) => ~(ExpireAtOf[BoardOf(r)] <= now))
      BY <1>1, <1>4, <2>1, ExpireAtOfAssumption, MaxTimeAssumption
      DEF OnlyWrites, NoSeasonEnds, NothingIsDue, StoreTypeOK, Seasonal
    <2>3. \/ ThenPersistTTL(r)
          \/ Goto(r, "ttl") /\ UNCHANGED outcome
      BY <1>9, <2>2 DEF GetExpireAt, place
    <2>4. pc'[r] \in {"stamp", "done", "ttl"} /\ outcome'[r] \in {"none", "ok"}
      BY <1>1, <2>3 DEF ThenPersistTTL, Goto, End, CallIsWell, WriteTypeOK
    <2> QED BY <1>8, <2>1, <2>4
  <1>10. ASSUME OtherStep(r), pc[r] \in {"ttl", "expireAt"}
         PROVE  Exists(scores[BoardOf(r)])
    <2>1. job[r].members # {}
      BY <1>1, <1>10, StartedCall, JobWritesSomeone
    <2> QED BY <1>1, <1>10, <2>1 DEF CallIsWell, Exists
  <1>11. CASE GetLeaderboardExpiration(r)
    <2>1. OtherStep(r) /\ pc[r] = "ttl" /\ reading' = reading
      BY <1>11 DEF OtherStep, GetLeaderboardExpiration, At, place
    <2>2. \/ ThenPersistTTL(r)
          \/ Goto(r, "expireAt") /\ UNCHANGED outcome
      BY <1>10, <1>11, <2>1 DEF GetLeaderboardExpiration, place
    <2>3. pc'[r] \in {"stamp", "done", "expireAt"} /\ outcome'[r] \in {"none", "ok"}
      BY <1>1, <2>2 DEF ThenPersistTTL, Goto, End, CallIsWell, WriteTypeOK
    <2> QED BY <1>8, <2>1, <2>3
  <1>12. CASE PersistLeaderboardExpiration(r)
    <2>1. OtherStep(r) /\ pc[r] = "expireAt" /\ reading' = reading
      BY <1>12 DEF OtherStep, PersistLeaderboardExpiration, ExpireBoard, At, place
    <2>2. ThenPersistTTL(r)
      BY <1>10, <1>12, <2>1 DEF PersistLeaderboardExpiration, ExpireBoard, place
    <2>3. pc'[r] \in {"stamp", "done"} /\ outcome'[r] \in {"none", "ok"}
      BY <1>1, <2>2 DEF ThenPersistTTL, Goto, End, CallIsWell, WriteTypeOK
    <2> QED BY <1>8, <2>1, <2>3
  <1>13. CASE StampDeadline(r) \/ AddDeadlines(r) \/ Register(r)
    <2>1. /\ OtherStep(r) /\ pc[r] \in {"stamp", "addDeadlines", "register"}
          /\ reading' = reading
      BY <1>13 DEF OtherStep, StampDeadline, AddDeadlines, SetDeadlines, Register,
           PutOnList, At
    <2>2. pc'[r] \in {"addDeadlines", "register", "done"} /\ outcome'[r] \in {"none", "ok"}
      BY <1>1, <1>13 DEF StampDeadline, AddDeadlines, SetDeadlines, Register,
           PutOnList, Goto, End, CallIsWell, WriteTypeOK
    <2> QED BY <1>8, <2>1, <2>2
  <1> QED
    BY <1>2, <1>3, <1>5, <1>6, <1>7, <1>9, <1>11, <1>12, <1>13 DEF WriteStep

\* No call fails, whoever moves.
LEMMA WellInvStep ==
    ASSUME OnlyWrites, WellInv, TypeOK', ExpiryIsSeasonEnd', [Next]_vars
    PROVE  WellInv'
  <1>1. TypeOK /\ WriteTypeOK /\ NothingIsDue /\ removals = 0 /\ faults = 0
    BY DEF WellInv, TypeOK
  <1>2. NothingIsDue'
    BY <1>1, NothingIsDueStep DEF OnlyWrites
  <1>3. ~RemoveSomeMembers /\ ~RemoveWholeLeaderboard
    BY <1>1 DEF OnlyWrites, RemoveSomeMembers, RemoveWholeLeaderboard
  <1>4. \A r \in Requests : ~CallFails(r) /\ ~CallIsUnanswered(r)
    BY <1>1 DEF OnlyWrites, CallFails, CallIsUnanswered
  <1>5. \A w \in Workers : ~WorkerAborts(w) /\ ~WorkerIsUnanswered(w)
    BY <1>1 DEF OnlyWrites, WorkerAborts, WorkerIsUnanswered
  <1>6. removals' = 0 /\ faults' = 0
    BY <1>1, <1>3, <1>4, <1>5 DEF Next, CallStarts, CallStep, WorkerMoves, TimePasses,
       boundVars, vars
  <1>7. ASSUME NEW r \in Requests
        PROVE  CallIsWell(r)'
    <2>1. CASE UNCHANGED writeVars
      BY <2>1, StandingCallIsWell DEF writeVars, place
    <2>2. ASSUME NEW s \in Requests, CallStarts(s) \/ CallStep(s)
          PROVE  CallIsWell(r)'
      <3>1. Start(s) \/ WriteStep(s)
        BY <2>2 DEF CallStarts, CallStep
      <3>2. CASE s = r
        BY <3>1, <3>2, SteppingCallIsWell
      <3>3. CASE s # r
        BY <1>1, <3>1, <3>3, OtherCallsStand, StandingCallIsWell
      <3> QED BY <3>2, <3>3
    <2> QED
      BY <1>3, <1>4, <1>5, <2>1, <2>2 DEF Next, WorkerMoves, TimePasses, vars
  <1> QED BY <1>2, <1>6, <1>7 DEF WellInv

\* Calls that only write never make each other fail: whatever the order of
\* their commands, every nil, missing key or lost member that would end one in
\* an error or a panic (GetMembers, setMembersValues,
\* persistLeaderboardExpirationTime) takes a removal, an expiry or a failing
\* command.  For any number of calls, members, boards and workers.
THEOREM NoCallFailsAlways ==
    ASSUME OnlyWrites
    PROVE  Spec => []NoCallFails
  <1>1. Init /\ TypeOK /\ ExpiryIsSeasonEnd => WellInv
    BY InitNothingIsDue DEF Init, WriteInit, CallIsWell, WellInv
  <1>2. WellInv /\ TypeOK' /\ ExpiryIsSeasonEnd' /\ [Next]_vars => WellInv'
    BY WellInvStep
  <1>3. WellInv => NoCallFails
    BY DEF WellInv, CallIsWell, NoCallFails
  <1>4. SeasonInv => TypeOK /\ ExpiryIsSeasonEnd
    BY DEF SeasonInv
  <1> QED BY <1>1, <1>2, <1>3, <1>4, SeasonInvariant, PTL DEF Spec

=============================================================================
