----------------------------- MODULE ScoreWrites -----------------------------
(***************************************************************************)
(* The API calls that write scores, one Redis command per step.            *)
(*                                                                         *)
(* A call sends its commands one after the other and keeps nothing locked  *)
(* between them:                                                           *)
(*                                                                         *)
(*   GetMembers*      previous ranks, if asked for                         *)
(*   ZADD | ZINCRBY   the scores                                           *)
(*   GetMembers*      the new ranks and scores, for the answer             *)
(*   GetExpireAt      local: the season in the leaderboard's name          *)
(*   TTL, EXPIREAT    the season's expiry, on the first write              *)
(*   time.Now         local: the deadline of a timed score                 *)
(*   ZADD, SADD       the deadlines, and their registration                *)
(*                                                                         *)
(* pc[r] is the next command of r and stays where it was when r stopped;   *)
(* outcome[r] says how r ended.  The Redis client sends a command again    *)
(* whose answer did not come (go-redis retries by default), whether Redis  *)
(* carried it out or not; unanswered[r] says that it did.                  *)
(***************************************************************************)
EXTENDS PodiumStore

CONSTANT Jobs     \* the calls that clients may make

NoTTL == 0        \* scoreTTL = 0 in a request means none was asked for

Job(op, memberSets, prevRanks) ==
    [op : {op}, board : Boards, members : memberSets,
     prevRank : prevRanks, scoreTTL : Int]

UpsertScore == Job("upsert", {{m} : m \in Members}, BOOLEAN)

BulkUpsertScores == Job("bulk", (SUBSET Members) \ {{}}, BOOLEAN)

IncrementScore == Job("increment", {{m} : m \in Members}, {FALSE})

ASSUME JobsAssumption == Jobs \subseteq UpsertScore \cup BulkUpsertScores \cup IncrementScore
ASSUME NoneIsNoJob == None \notin Jobs /\ None \notin Members

VARIABLES
    job,        \* job[r]: the call r carries out
    pc,         \* pc[r]: the next step of r
    outcome,    \* outcome[r]: how r ended
    unanswered, \* unanswered[r]: the command at pc[r] was carried out, its answer lost
    toRead,     \* toRead[r]: members GetMembers has still to look up
    reading,    \* reading[r]: the member whose score it found and rank it wants
    missing,    \* missing[r]: members it returned nil for
    timeToExpire  \* timeToExpire[r]: the deadline r gives its members

place == <<pc, unanswered>>
writeVars == <<job, place, outcome, toRead, reading, missing, timeToExpire>>

Steps == {"idle", "previousRanks", "values", "ttl", "expireAt", "stamp",
          "addDeadlines", "register", "done"}

Outcomes == {"none", "ok", "error", "expired", "panic"}

BoardOf(r) == job[r].board

WriteInit ==
    /\ job = [r \in Requests |-> None]
    /\ pc = [r \in Requests |-> "idle"]
    /\ outcome = [r \in Requests |-> "none"]
    /\ unanswered = [r \in Requests |-> FALSE]
    /\ toRead = [r \in Requests |-> {}]
    /\ reading = [r \in Requests |-> None]
    /\ missing = [r \in Requests |-> {}]
    /\ timeToExpire = [r \in Requests |-> None]

WriteTypeOK ==
    /\ job \in [Requests -> Jobs \cup {None}]
    /\ pc \in [Requests -> Steps]
    /\ outcome \in [Requests -> Outcomes]
    /\ unanswered \in [Requests -> BOOLEAN]
    /\ toRead \in [Requests -> SUBSET Members]
    /\ reading \in [Requests -> Members \cup {None}]
    /\ missing \in [Requests -> SUBSET Members]
    /\ timeToExpire \in [Requests -> Int \cup {None}]
    /\ \A r \in Requests :
          /\ job[r] = None <=> pc[r] = "idle"
          /\ pc[r] \in {"ttl", "expireAt"} => Seasonal(BoardOf(r))
          /\ pc[r] = "addDeadlines" => timeToExpire[r] \in Int

-----------------------------------------------------------------------------
At(r, step) == pc[r] = step /\ outcome[r] = "none"

Goto(r, step) ==
    /\ pc' = [pc EXCEPT ![r] = step]
    /\ unanswered' = [unanswered EXCEPT ![r] = FALSE]

End(r, how) == outcome' = [outcome EXCEPT ![r] = how]

\* GetMembers has a nil or a complete entry for every member of its list.
ReadAll(r) == toRead[r] = {} /\ reading[r] = None

StartReading(r, S) == toRead' = [toRead EXCEPT ![r] = S]

Timed(r) == job[r].scoreTTL # NoTTL

-----------------------------------------------------------------------------
(* One API call                                                            *)

Start(r) ==
    /\ pc[r] = "idle"
    /\ \E j \in Jobs :
          /\ job' = [job EXCEPT ![r] = j]
          /\ StartReading(r, IF j.prevRank THEN j.members ELSE {})
    /\ Goto(r, "previousRanks")
    /\ UNCHANGED <<storeVars, outcome, reading, missing, timeToExpire>>

\* ZSCORE of the next member in the list of GetMembers; nil if it is absent.
\* The list's order is the caller's, so any order is possible.
ReadScore(r) ==
    /\ At(r, "previousRanks") \/ At(r, "values")
    /\ reading[r] = None
    /\ \E m \in toRead[r] :
          IF scores[BoardOf(r)][m] # None
          THEN /\ reading' = [reading EXCEPT ![r] = m]
               /\ UNCHANGED <<toRead, missing>>
          ELSE /\ toRead' = [toRead EXCEPT ![r] = @ \ {m}]
               /\ missing' = [missing EXCEPT ![r] = @ \cup {m}]
               /\ UNCHANGED reading
    /\ UNCHANGED <<storeVars, job, place, outcome, timeToExpire>>

\* ZREVRANK of the member whose score was just read.  Absent now, it is an
\* error, not a nil.  The lookup of its deadline that follows is discarded by
\* every caller here, so it changes nothing.
ReadRank(r) ==
    /\ At(r, "previousRanks") \/ At(r, "values")
    /\ reading[r] # None
    /\ IF scores[BoardOf(r)][reading[r]] # None
       THEN /\ toRead' = [toRead EXCEPT ![r] = @ \ {reading[r]}]
            /\ reading' = [reading EXCEPT ![r] = None]
            /\ UNCHANGED outcome
       ELSE /\ End(r, "error")
            /\ UNCHANGED <<toRead, reading>>
    /\ UNCHANGED <<storeVars, job, place, missing, timeToExpire>>

\* What follows a write's command: the new ranks are read from the first member.
ThenReadValues(r) ==
    /\ Goto(r, "values")
    /\ StartReading(r, job[r].members)
    /\ missing' = [missing EXCEPT ![r] = {}]
    /\ UNCHANGED <<job, outcome, reading, timeToExpire>>

\* Mutant of PersistMembers: the members are written one by one.
PersistMembersSingly(r) ==
    /\ At(r, "previousRanks") /\ ReadAll(r)
    /\ job[r].op \in {"upsert", "bulk"}
    /\ \E m \in {n \in job[r].members : scores[BoardOf(r)][n] # r} :
          /\ SetMembers(BoardOf(r), {m}, r)
          /\ IF \A n \in job[r].members \ {m} : scores[BoardOf(r)][n] = r
             THEN ThenReadValues(r)
             ELSE UNCHANGED writeVars

\* ZADD of all the scores, in one command.
SetScores(r) ==
    /\ At(r, "previousRanks") /\ ReadAll(r)
    /\ job[r].op \in {"upsert", "bulk"}
    /\ SetMembers(BoardOf(r), job[r].members, r)

\* ZINCRBY of the one score.
IncrementScoreBy(r) ==
    /\ At(r, "previousRanks") /\ ReadAll(r)
    /\ job[r].op = "increment"
    /\ \E m \in job[r].members : IncrementMemberScore(BoardOf(r), m, r)

PersistMembers(r) == SetScores(r) /\ ThenReadValues(r)

IncrementMember(r) == IncrementScoreBy(r) /\ ThenReadValues(r)

\* setMembersValues dereferences the entry of every member, a nil one too.
DereferenceMissing(r) ==
    /\ At(r, "values") /\ ReadAll(r)
    /\ missing[r] # {}
    /\ End(r, "panic")
    /\ UNCHANGED <<storeVars, job, place, toRead, reading, missing, timeToExpire>>

\* What follows the leaderboard's expiry: deadlines, if a scoreTTL was given.
ThenPersistTTL(r) ==
    IF Timed(r)
    THEN Goto(r, "stamp") /\ UNCHANGED outcome
    ELSE Goto(r, "done") /\ End(r, "ok")

\* GetExpireAt: local, but it reads the clock.  A name that denotes no period
\* is an error, and so is a season whose data should be gone by now.
GetExpireAt(r) ==
    /\ At(r, "values") /\ ReadAll(r)
    /\ missing[r] = {}
    /\ LET time == ExpireAtOf[BoardOf(r)] IN
       \/ time = None /\ ThenPersistTTL(r)
       \/ time = Invalid /\ End(r, "error") /\ UNCHANGED place
       \/ Seasonal(BoardOf(r)) /\ time <= now /\ End(r, "expired") /\ UNCHANGED place
       \/ Seasonal(BoardOf(r)) /\ time > now /\ Goto(r, "ttl") /\ UNCHANGED outcome
    /\ UNCHANGED <<storeVars, job, toRead, reading, missing, timeToExpire>>

\* Mutant of GetLeaderboardExpiration: no expiry is not told from having one.
GetLeaderboardExpirationIgnored(r) ==
    /\ At(r, "ttl")
    /\ ThenPersistTTL(r)
    /\ UNCHANGED <<storeVars, job, toRead, reading, missing, timeToExpire>>

\* TTL: an expiry is left as it is, a key without one gets one, and a key that
\* is gone is an error.
GetLeaderboardExpiration(r) ==
    /\ At(r, "ttl")
    /\ \/ ~Exists(scores[BoardOf(r)]) /\ End(r, "error") /\ UNCHANGED place
       \/ Exists(scores[BoardOf(r)]) /\ expireAt[BoardOf(r)] # None /\ ThenPersistTTL(r)
       \/ /\ Exists(scores[BoardOf(r)]) /\ expireAt[BoardOf(r)] = None
          /\ Goto(r, "expireAt") /\ UNCHANGED outcome
    /\ UNCHANGED <<storeVars, job, toRead, reading, missing, timeToExpire>>

\* EXPIREAT of the season's time, on a key that is there.
ExpireBoard(r) ==
    /\ At(r, "expireAt")
    /\ Exists(scores[BoardOf(r)])
    /\ SetLeaderboardExpiration(BoardOf(r), ExpireAtOf[BoardOf(r)])

\* On a key that is gone it is an error.
PersistLeaderboardExpiration(r) ==
    /\ \/ ExpireBoard(r) /\ ThenPersistTTL(r)
       \/ /\ At(r, "expireAt") /\ ~Exists(scores[BoardOf(r)])
          /\ End(r, "error")
          /\ UNCHANGED <<storeVars, place>>
    /\ UNCHANGED <<job, toRead, reading, missing, timeToExpire>>

\* Mutant of StampDeadline: the deadline is never computed.
StampDeadlineUnset(r) ==
    /\ At(r, "stamp")
    /\ Goto(r, "addDeadlines")
    /\ UNCHANGED <<storeVars, job, outcome, toRead, reading, missing, timeToExpire>>

\* The deadline is computed before it is sent.
StampDeadline(r) ==
    /\ At(r, "stamp")
    /\ timeToExpire' = [timeToExpire EXCEPT ![r] = now + job[r].scoreTTL]
    /\ Goto(r, "addDeadlines")
    /\ UNCHANGED <<storeVars, job, outcome, toRead, reading, missing>>

\* Mutant of SetDeadlines: the call's deadlines replace those of the others.
SetDeadlinesReplacing(r) ==
    /\ At(r, "addDeadlines")
    /\ deadlines' = [deadlines EXCEPT ![BoardOf(r)] =
                        ZAdd(EmptyZset, job[r].members, timeToExpire[r])]
    /\ UNCHANGED <<now, scores, expireAt, expirationSets>>

\* ZADD l:ttl, the first command of SetMembersTTL.
SetDeadlines(r) ==
    /\ At(r, "addDeadlines")
    /\ deadlines' = [deadlines EXCEPT ![BoardOf(r)] =
                        ZAdd(@, job[r].members, timeToExpire[r])]
    /\ UNCHANGED <<now, scores, expireAt, expirationSets>>

AddDeadlines(r) ==
    /\ SetDeadlines(r)
    /\ Goto(r, "register")
    /\ UNCHANGED <<job, outcome, toRead, reading, missing, timeToExpire>>

\* Mutant of PutOnList: only the call that seems to have made l:ttl registers it.
PutOnListIfFirst(r) ==
    /\ At(r, "register")
    /\ expirationSets' = IF Entries(deadlines[BoardOf(r)]) \subseteq job[r].members
                         THEN expirationSets \cup {BoardOf(r)}
                         ELSE expirationSets
    /\ UNCHANGED <<now, scores, expireAt, deadlines>>

\* SADD expiration-sets l:ttl, the second.
PutOnList(r) ==
    /\ At(r, "register")
    /\ expirationSets' = expirationSets \cup {BoardOf(r)}
    /\ UNCHANGED <<now, scores, expireAt, deadlines>>

Register(r) ==
    /\ PutOnList(r)
    /\ Goto(r, "done") /\ End(r, "ok")
    /\ UNCHANGED <<job, toRead, reading, missing, timeToExpire>>

\* The answer to a command that changes something is lost: the Redis client
\* sends the command again, whatever others have done by then, or gives up.
LoseAnswer(r) ==
    /\ \/ SetScores(r) \/ IncrementScoreBy(r) \/ ExpireBoard(r)
       \/ SetDeadlines(r) \/ PutOnList(r)
    /\ unanswered' = [unanswered EXCEPT ![r] = TRUE]
    /\ UNCHANGED <<job, pc, outcome, toRead, reading, missing, timeToExpire>>

\* A command fails, or the caller goes away and its context is cancelled: the
\* call returns an error and what it has done so far stays done.
CommandFails(r) ==
    /\ pc[r] \in {"previousRanks", "values", "ttl", "expireAt", "addDeadlines", "register"}
    /\ outcome[r] = "none"
    /\ pc[r] = "values" => ~ReadAll(r)
    /\ End(r, "error")
    /\ UNCHANGED <<storeVars, job, place, toRead, reading, missing, timeToExpire>>

WriteStep(r) ==
    \/ ReadScore(r)
    \/ ReadRank(r)
    \/ PersistMembers(r)
    \/ IncrementMember(r)
    \/ DereferenceMissing(r)
    \/ GetExpireAt(r)
    \/ GetLeaderboardExpiration(r)
    \/ PersistLeaderboardExpiration(r)
    \/ StampDeadline(r)
    \/ AddDeadlines(r)
    \/ Register(r)

=============================================================================
