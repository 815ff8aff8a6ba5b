----------------------------- MODULE PodiumStore -----------------------------
(***************************************************************************)
(* What Podium keeps in Redis, and the commands it sends there.            *)
(*                                                                         *)
(* A leaderboard l is three keys:                                          *)
(*   l                 a sorted set of scores, with an optional expiry     *)
(*   l:ttl             a sorted set of deadlines, one per timed member     *)
(*   expiration-sets   the set of the l:ttl keys the worker visits         *)
(*                                                                         *)
(* Every command is atomic in Redis and nothing larger is: Podium uses     *)
(* neither MULTI nor scripts.  A sorted set is a function on Members with  *)
(* None where the member is absent, and, as in Redis, an empty sorted set  *)
(* is a key that does not exist.                                           *)
(*                                                                         *)
(* A score is abstracted to the request that wrote it: the properties of   *)
(* these modules need to know whose write is on the board, not its number. *)
(***************************************************************************)
EXTENDS Integers, FiniteSets

CONSTANTS
    Boards,      \* leaderboard public ids
    Members,     \* member public ids
    Requests,    \* identities of the score-writing API calls
    None,        \* no member, no deadline, no expiry, no season
    Invalid,     \* the name has a season suffix that does not denote a period
    ExpireAtOf,  \* when a name says its season's data goes, else None, Invalid
    MaxTime      \* bound on the clock

ASSUME NoneAssumption == None \notin Int /\ None \notin Requests
ASSUME InvalidAssumption == Invalid \notin Int /\ Invalid # None
ASSUME ExpireAtOfAssumption == ExpireAtOf \in [Boards -> Nat \cup {None, Invalid}]
ASSUME MaxTimeAssumption == MaxTime \in Nat

VARIABLES
    now,            \* the clock, in seconds
    scores,         \* scores[l][m]: the request whose write is m's score in l
    expireAt,       \* expireAt[l]: expiry of the key l
    deadlines,      \* deadlines[l][m]: score of m in l:ttl
    expirationSets  \* the boards whose l:ttl is in expiration-sets

storeVars == <<now, scores, expireAt, deadlines, expirationSets>>

-----------------------------------------------------------------------------
(* Sorted sets                                                             *)

Entries(zset) == {m \in Members : zset[m] # None}

EmptyZset == [m \in Members |-> None]

ZAdd(zset, S, value) == [m \in Members |-> IF m \in S THEN value ELSE zset[m]]

ZRem(zset, S) == [m \in Members |-> IF m \in S THEN None ELSE zset[m]]

Exists(zset) == Entries(zset) # {}

\* ZRANGEBYSCORE -inf max LIMIT 0 limit: some limit lowest entries up to max
\* (equal entries come in the order of their names, which is left open).
ZRangeByScore(zset, max, limit) ==
    LET inRange == {m \in Entries(zset) : zset[m] <= max}
    IN  {S \in SUBSET inRange :
            /\ Cardinality(S) <= limit
            /\ S # inRange => Cardinality(S) = limit
            /\ \A m \in S, n \in inRange \ S : zset[m] <= zset[n]}

-----------------------------------------------------------------------------
(* What the database layer changes                                         *)

\* The key l gets the content zset; a key whose last member goes is gone, and
\* its expiry with it.
ReplaceScores(l, zset) ==
    /\ scores' = [scores EXCEPT ![l] = zset]
    /\ expireAt' = [expireAt EXCEPT ![l] = IF Exists(zset) THEN @ ELSE None]

\* Mutant of SetMembers: the bulk replaces the board.
SetMembersReplacing(l, S, r) ==
    /\ ReplaceScores(l, ZAdd(EmptyZset, S, r))
    /\ UNCHANGED <<now, deadlines, expirationSets>>

SetMembers(l, S, r) ==
    /\ ReplaceScores(l, ZAdd(scores[l], S, r))
    /\ UNCHANGED <<now, deadlines, expirationSets>>

IncrementMemberScore(l, m, r) ==
    /\ ReplaceScores(l, ZAdd(scores[l], {m}, r))
    /\ UNCHANGED <<now, deadlines, expirationSets>>

\* ZREM on l; the members' deadlines in l:ttl stay.
RemoveMembers(l, S) ==
    /\ ReplaceScores(l, ZRem(scores[l], S))
    /\ UNCHANGED <<now, deadlines, expirationSets>>

\* DEL on l; l:ttl and its registration stay.
RemoveLeaderboard(l) ==
    /\ ReplaceScores(l, EmptyZset)
    /\ UNCHANGED <<now, deadlines, expirationSets>>

\* Mutant of SetLeaderboardExpiration: the expiry is a second late.
SetLeaderboardExpirationLate(l, time) ==
    /\ expireAt' = [expireAt EXCEPT ![l] = time + 1]
    /\ UNCHANGED <<now, scores, deadlines, expirationSets>>

\* EXPIREAT on an existing key; a time that has passed deletes the key at once.
SetLeaderboardExpiration(l, time) ==
    /\ IF time > now
       THEN expireAt' = [expireAt EXCEPT ![l] = time] /\ UNCHANGED scores
       ELSE ReplaceScores(l, EmptyZset)
    /\ UNCHANGED <<now, deadlines, expirationSets>>

-----------------------------------------------------------------------------
(* The clock: Redis drops the keys whose expiry has come                   *)

Elapsed(l, time) == expireAt[l] # None /\ expireAt[l] <= time

Tick ==
    /\ now < MaxTime
    /\ now' = now + 1
    /\ scores' = [l \in Boards |->
                    IF Elapsed(l, now + 1) THEN EmptyZset ELSE scores[l]]
    /\ expireAt' = [l \in Boards |->
                    IF Elapsed(l, now + 1) THEN None ELSE expireAt[l]]
    /\ UNCHANGED <<deadlines, expirationSets>>

-----------------------------------------------------------------------------
StoreInit ==
    /\ now = 0
    /\ scores = [l \in Boards |-> EmptyZset]
    /\ expireAt = [l \in Boards |-> None]
    /\ deadlines = [l \in Boards |-> EmptyZset]
    /\ expirationSets = {}

StoreTypeOK ==
    /\ now \in Nat
    /\ scores \in [Boards -> [Members -> Requests \cup {None}]]
    /\ expireAt \in [Boards -> Nat \cup {None}]
    /\ deadlines \in [Boards -> [Members -> Int \cup {None}]]
    /\ expirationSets \subseteq Boards

\* The deadline of m in l has come: the worker may remove m.
Due(l, m) == deadlines[l][m] # None /\ deadlines[l][m] <= now

\* The name l has a season, and the time at which its data is to go is known.
Seasonal(l) == ExpireAtOf[l] \notin {None, Invalid}

=============================================================================
