# Podium in TLA+

Podium is a leaderboard service: an API in front of Redis, and a worker that
removes scores whose time is over. This directory holds its TLA+ model, the
configurations TLC checks it with, and the theorems TLAPS proves about it.
Paths below are relative to `src/`.

## The system

### Components

| Component | State it keeps | Operations | What makes it correct |
|---|---|---|---|
| Redis store, `leaderboard/database` | per board `l` a sorted set of scores with an optional expiry, a sorted set `l:ttl` of deadlines; `expiration-sets`, the list of the `l:ttl` keys | one Redis command each; `SetMembersTTL`, `ExpireMembers`, `GetMembers`, `GetMembersToExpire` are several | the three keys stay consistent though no two are changed together |
| Score writes, `api/leaderboard.go`, `leaderboard/service` | the locals of a handler between two commands | `UpsertScore`, `BulkUpsertScores`, `IncrementScore`, `UpsertScoreMultiLeaderboards` | a call's scores are written whole, and again only for want of an answer; a score has the season's expiry and its own deadline, whatever else runs; an error says whether anything was written |
| Removals | none | `RemoveMember`, `RemoveMembers`, `RemoveLeaderboard` | what is gone is gone |
| Expiration worker, `worker/expiration_worker.go`, `database/redis_expiration.go` | the boards of the run, the batch of a visit; channels between `Run`, `runWorker` and `Stop` | a run at every tick; `Run`, `Stop` | it removes what is due, only what is due, and gets to everything that is; it stops when told, and does not panic |
| Season names, `leaderboard/expiration` | none (it reads the clock) | `GetExpireAt` | the time it returns is the one the documentation gives, and later calls agree on it |
| Readers and paging, `leaderboard/service` | the locals of a handler | `GetMember(s)`, `GetRank`, `GetTopMembers`, `GetAroundMember`, `GetAroundScore`, `GetTopPercentage`, `TotalMembers`, `GetRankMultiLeaderboards` | a page is inside the board and holds who was asked for; ranks and scores agree |
| Protocol and gateway, `proto/podium/api/v1` | none | the service's messages with their zero values, the URL patterns, the decoders | a request reaches the handler it is for, and the handler's message says what the caller said |
| Middleware, `api/middleware.go`, `api/server.go` | none | authentication, panic recovery, trailing slashes | every request has one answer |
| HTTP client library, `client/` | one HTTP client per process | one HTTP call each, with a timeout | what it sends is what it was called with; what it returns is what happened |
| App, `api/app.go`, `cmd/start.go` | servers, readiness and error channels, error rate | `New`, `Start`, `WaitForReady`, `GracefullStop`, `AddError` | start and stop end, in any order, and cut nobody off; the error rate is a rate |
| Smoke test, `cmd/smoke.go` | none | its script | it fails only when something is wrong |
| Redis cluster client, logging, configuration files, benchmarks, mocks | | | not modelled: see the end |

API processes and workers share nothing but Redis. A handler runs a sequence of
Redis commands in its own goroutine, keeps no lock, uses neither `MULTI` nor
scripts, and answers with an error at the first command that fails, leaving done
what it has done. A worker is a process that does the same at every tick of its
interval. So the first thing that is hard here is the *interleaving of Redis
commands*: of two calls, of a call and a worker, of two workers, of either with
a removal, with the clock, with a crash. The second is the *way of a call* through
client, `net/http`, gateway, interceptors and handler, each of which may refuse,
redirect, panic, time out or resend. The third is the *beginning and end of a
process*, where goroutines and signals meet on channels.

### What is hard to test

`PROJECT.json` lists the hazards with their lines. The main ones:

- the worker acts on what it read two commands ago (`redis_expiration.go:44`
  then `:68`, `:73`; `:34` then `:56`);
- a timed write is up to six commands and may stop after any of them;
- `l:ttl` outlives the scores it is about: an untimed update, a removal and a
  `DEL` of the board leave it (`redis.go:222-237`);
- the season is looked at after the score has been written
  (`set_member_score.go:30`, `:40`);
- an error may come before the write or after it, and the caller sees only a
  status (`api/leaderboard.go:64`);
- the Redis client sends a command again whose answer was lost
  (`redis/standalone_client.go:26` leaves its retries on), whatever others have
  written or removed since;
- the caller's timeout, and the handler of an increment that goes on after its
  caller has left (`api/leaderboard.go:158`);
- `GracefullStop` and `Stop` may come at any moment of a start, a run or another
  stop (`api/app.go:487`, `worker/expiration_worker.go:128`).

## Modules

| Module | Models | Lines |
|---|---|---|
| `PodiumStore` | the keys in Redis, the commands on sorted sets, key expiry, the clock | `database/redis.go`, `database/redis/standalone_client.go` |
| `ScoreWrites` | the score-writing API calls, one command per step | `api/leaderboard.go`, `service/set_member_score.go`, `set_members_score.go`, `increment_member_score.go`, `members.go`, `leaderboard.go`, `expiration/expiration.go` |
| `ExpirationWorker` | the worker's run, one command per step | `worker/expiration_worker.go`, `database/redis_expiration.go` |
| `Podium` | their composition with removals, failures, crashes and time; the properties | |
| `Scoreboard` | the abstract specification of the writes, which `Podium` implements | |
| `PodiumClaims` | what the documentation promises and the code does not keep | |
| `Paging` | the index arithmetic of pages, as operators | `service/indexes.go`, `get_leaders.go`, `total_pages.go`, `get_top_percentage.go` |
| `ScoreReads` | the calls that read several members, one command per step, on a board that others change | `api/leaderboard.go`, `database/redis.go`, `service/get_around_me.go`, `get_around_score.go`, `members.go`, `get_members.go` |
| `Protocol` | the messages of the gRPC service and their zero values | `proto/podium/api/v1/podium.pb.go` |
| `Gateway` | from verb, path, query and body to a method and its message | `proto/podium/api/v1/podium.pb.gw.go`, `api/` |
| `PodiumClient` | the request each function of the client sends, and its result | `client/client.go` |
| `ApiHandlers` | what each handler refuses, which service calls it makes, what it answers | `api/leaderboard.go` |
| `LeaderboardService` | what a service call gives on a board that holds still | `leaderboard/service` |
| `ApiCalls` | calls from end to end, of several callers; health check and status page | `api/`, `client/` |
| `Smoke` | the smoke test beside other callers, over `ApiCalls` | `cmd/smoke.go` |
| `Calendar` | `GetExpireAt` with the calendar behind it, and a clock | `leaderboard/expiration/expiration.go` |
| `Process` | an operating system process: its command, signals and end | `cmd/start.go`, `cmd/worker.go` |
| `AppLifecycle` | `New`, `Start`, both servers, `WaitForReady`, `GracefullStop`, the error rate | `api/app.go`, `cmd/start.go`, `testing/` |
| `WorkerLifecycle` | `Run`, `runWorker`, `Stop` and their channels | `worker/expiration_worker.go`, `cmd/worker.go` |
| `PodiumProcess` | a process of either kind; the properties of both | |
| `PodiumProofs` | theorems about `Podium`: its books and workers, then what calls come to | |
| `ReadProofs` | theorems about `ScoreReads`: the rows of an answer, then what is on its pages | |
| `CallProofs`, `RequestProofs`, `IncrementProofs` | theorems about `ApiCalls`: what was written, what was asked, what adds up | |
| `SmokeProofs` | the theorem about `Smoke` | |
| `CalendarProofs`, `ProcessProofs` | theorems about `Calendar` and `PodiumProcess` | |
| `MCPodium`, `MCReads`, `MCCalls`, `MCSmoke`, `MCCalendar`, `MCProcess` | the instances for TLC | |

There are four models. `Podium` composes `ScoreWrites` and `ExpirationWorker` over
`PodiumStore`: everything that changes the keys, command by command. `ScoreReads`
uses `Paging` and stands beside it: readers change nothing, so one of them is
enough, and all they can see of the rest is that the board changes between two of
their commands, by one write or removal at a time. `ApiCalls` composes
`PodiumClient`, `Gateway`, `ApiHandlers` and `LeaderboardService` over `Protocol`:
whole calls, whose service calls are as coarse as the question allows, and
`Smoke` adds a caller with a script. `PodiumProcess` composes `AppLifecycle` and
`WorkerLifecycle` over `Process`; a worker's pass is what `ExpirationWorker` has in
detail. `Calendar` gives the times that `ScoreWrites` takes as a constant.

### How state and actions correspond to the code

**State.** `scores[l]`, `deadlines[l]` are the sorted sets `l` and `l:ttl`,
functions on `Members` with `None` for an absent member; `expireAt[l]` is the
expiry of the key `l`; `expirationSets` the list the workers read. An empty
sorted set is a key that does not exist, and loses its expiry, as in Redis. `now`
is the Unix clock that Redis, API and workers share.

**Scores are abstracted to the call that wrote them** in `Podium`. None of its
properties depends on a score's number, and "whose score is this" is what they
ask. In `ScoreReads` scores are numbers, as order and ties are what readers are
about; members are numbers in the order of their names, by which Redis orders
ties. In `ApiCalls` members are names and scores numbers, a double being counted
in halves, so that a fraction is there to be cut off.

**Calls, command by command.** `pc[r]` names the next command of call `r`,
`outcome[r]` how it ended; `pc[r]` stays where the call stopped, so that "a call
stopped between ZADD and SADD" can be said. A call `"upsert"`, `"bulk"` or
`"increment"` carries its board, its members, whether previous ranks are wanted
and its `scoreTTL`, 0 meaning none as in `getScoreTTL`, and negative ones accepted
as the code does. The order in which `GetMembers` looks up its list is the
caller's, so the model takes any. `ReadScore` and `ReadRank` are its ZSCORE and
ZREVRANK; the third lookup, the deadline's, is thrown away by these callers and
left out. `GetExpireAt` is local and one step; the season of a name is the
constant `ExpireAtOf`: a time, `None`, or `Invalid`.

**Worker.** A run takes the list (`BeginRun`), then visits the boards in any
order (`SMEMBERS` has none). A visit reads the clock, then sends its commands.
When `SMEMBERS` fails the code goes on with an empty list, which is a run that
is aborted before its first board.

**Readers.** `pc` names the next command of the one call, `index` the positions it
will ask for, `answer` the rows it returns. The handler's checks are part of
`Start`, the index arithmetic part of the step that reads the total. `ZRange`
counts negative positions from the end, as Redis does; `GetOrderedMembers`
numbers rows from the start it was given, which need not be their rank. Quotients
are exact: the code's floating-point ceiling is, below 2^53, and its share of
`GetTopPercentage` is on boards of the size checked here, though not always
(29 per cent of 100 members is 28 for it).

**Calls from end to end.** A call of the library becomes a request (`Build`): a
verb, the segments of a path, a query, a body. `Redirect` is what `net/http` does
with an empty segment, and `FollowRedirection` what the client makes of it: a GET
without a body. `EnterGateway` finds the method by the gateway's patterns and
decodes the message, or answers 400, 404 or 405. Then come the interceptors
(`Unauthorized`), the handler's checks (`PanicWithoutBody`, `Refuse`, `Begin`),
and its service calls, `todo`, one after the other until one fails. A service
call that reads is one step; one that writes is up to three, ranks before, the
write, the members as they are then, because other calls come in between.
`Respond` makes the response of the results. A panic is recovered with neither
response nor error, which the gateway sends as 200 with an empty message.
`answer` is what is on its way back, `result` what the function returns.

**Processes.** Goroutines of a process are program counters (`main`, `grpc`,
`http`, `stopper`, `waiter`, `run`, `runner`), and channels are what they hold:
`errch` of capacity 2, the readiness tokens, `stop` and `shouldEnd` of capacity 1
that may be full, empty or closed. A goroutine that found nothing ready in its
`select` is parked, and the first send or close decides which branch it takes.
How `grpc.Server` and `http.Server` drain is external: told to stop they take no
new calls and are stopped when those they have are done; told to stop before they
serve they refuse to. A component runs as its own command, which signals stop, or
embedded in a program, as in the repository's tests, which stops it with a call.

**Calendar.** Time is counted in days from the epoch; no period begins or ends
within one but those of Unix timestamps, whose arithmetic is the same in any unit.
Kinds of names are those that the regular expressions of `GetExpireAt` tell apart;
the numbers in them are unrestricted, as the expressions leave them. Two errors
that the code ignores make numbers of their own: `ParseInt` stops at 32 bits, which
is the day `DayMax` for a timestamp and the number `IntMax` for a week or a quarter
(a small one in the run, as TLC's own arithmetic has 32 bits), and of a year below
1000 `strconv.Itoa` leaves fewer digits than `time.Parse` wants, so that weeks and
quarters are counted from the year 1 (`ParsedYear`). The properties are about names
that such errors do not touch (`Denotes`). `NewYear`, `FirstOf` and
`ISOWeekOfNewYear` are `time.Date` and `ISOWeek`. `Period` is the documentation's
side and uses `MondayOf`, which the code has not.

**Failures.** In `Podium`, `CallFails` is a failing command or a cancelled context:
the call ends in an error, and what it had Redis do stays done. `CallIsUnanswered`
is a command that was carried out and whose answer was lost. The repository makes
its Redis client with the defaults of go-redis, which then sends the command again,
so the call stays where it was and repeats it when its turn comes, others' commands
between the two; `unanswered[r]` says that it was carried out already. When it
gives up, `CallFails` follows. A lookup that is repeated changes nothing and
needs no step; a removal that is repeated is another removal. What is assumed
is that the client has given up a connection, and Redis with it the command that
came that way, when it sends the command by another: a late stray copy that Redis
carries out after the call has gone on is outside the model. How often a command is
sent is bounded by the faults only; the client's own bound, three times more, is
not used. `WorkerAborts` is a failing command (the run returns) and a dying process
(it is started again) in one, as both leave the worker asleep with what it did
done; `WorkerIsUnanswered` is a worker's command that is sent again.
In `ApiCalls`, `CommandFails` also stands for the cancelled context of a
caller that gave up, which an increment does not look at, and for the ZADD of an
empty list that Redis refuses; `WriteAgain` is a command that the Redis client
sends again because its answer was lost. In `PodiumProcess` listening, configuring
and serving may fail, and so may a board of a worker's pass.

**History.** `touched[w]` collects what others changed of the board `w` visits,
`dropped` the boards taken off the list with their deadlines, `steady` whether the
board changed under a reader, `carried[c]` the scores written for a call. No
action reads them; properties do.

## Runs

| Run | Checks | States | Instance |
|---|---|---|---|
| `Expiry` | `TypeOK`, `DeadlinesRegistered`, `HarmlessUnlessOverlapped` | 860,000 | 1 board, 2 members, 2 calls, 2 workers, batch 1, clock to 2, 1 removal, 1 fault |
| `Seasons` | `SeasonalBoardsExpire`, `SeasonsEnd`, `ImplementsScoreboard` | 750,000 | a seasonal board and one with a bad name, 2 members, 2 calls, 1 worker, season over at 1, clock to 2, 1 removal, 1 fault |
| `WritesOnly` | `NoCallFails`, `TimedScoresHaveDeadlines` | 340,000 | 2 members, 3 calls with previous ranks, no worker |
| `Liveness` | `DueScoresAreExpired` | 330,000 | 2 boards, 2 members, 2 calls, 1 worker, batch 1, clock to 2, 1 fault |
| `Reads` | `TypeOK`, `PagesAreBounded`, `TopPagesPartition`, `SurroundingsAreFull`, `SurroundingsHoldScore`, `MembersAsOnBoard` | 940,000 | 4 members, scores 1 and 2, page sizes -1 to 4, maximum 3, 1 write |
| `Calls` | `TypeOK`, `RequestsReachTheirHandler`, `WritesFollowTheCall`, `ClientErrorsWroteNothing`, `IncrementsAddUp`, `CallersAreAnswered` | 150,000 | 2 callers, one that writes and one that does anything, a board and one whose season is over, 2 members, 1 fault |
| `SmokeTest` | `SmokeFailsForAReason`, `SmokeEnds` | 16,000 | the script on 3 members, another caller, 1 fault |
| `Calendar` | `TypeOK`, `SeasonsLastTwice`, `DataOutlastsItsPeriod`, `SeasonsStay` | 14,000 | names of every kind in the years 2015 to 2028, some about the bounds of year and number, four days |
| `Processes` | `TypeOK`, `OneStopNeverPanics`, `GracefulExitCutsNothing`, `ReadyMeansStoppable`, `StopEndsWorker`, `StartReturns` | 340,000 | server and worker, as commands and embedded, 1 call, 2 signals, 2 stops, 1 fault, 1 board |
| `UntimedScore`, `LostRegistration`, `ErrorRate` | a claim each, refuted | | see below |

**Why the bounds are enough.** Two calls make every pairwise overlap, the third
in `WritesOnly` lets two write while one reads. Two members with a batch of one
make a worker come back for the second, and two workers visit a board at the
same time. With a clock to 2 and a TTL of 1 a deadline is set, is over, and is
moved ahead again, before, during or after a visit. One removal and one fault
each hit any point of any call or visit, a command sent again among them. In
`Liveness` two members of one board are due together, so that a batch of one is cut
and the second waits for the next run. Elsewhere TTLs -1, 0 and 2 are one that
is over when it begins, none, and one that a second call can refresh in time.
For readers, two scores among four members make boards of every size up to that,
with ties and without; page sizes reach the board's size and go past the maximum
and below zero; scores asked for are below, among and above the board's. One
write changes, adds or removes any number of members between any two commands;
that more of them make no difference is proved of every property of `ScoreReads`.

In `Calls` every function of the library is called, those that write with arguments that
are refused, empty or without effect too, and requests of other clients come without
bodies, with fractions, trailing slashes and paths that lead nowhere. Two callers are
enough for a removal to come between another's write and its answer, for a panic beside
a call that works, and for two increments of one member. One fault is one lost or failed
command at any point; that it does not depend on the number of callers, calls or faults
is proved of `RequestsReachTheirHandler`, `WritesFollowTheCall`,
`ClientErrorsWroteNothing` and `IncrementsAddUp`. The script of `SmokeTest` has three
members, so that a page of two is not the board; the code has a hundred, and
`SmokeFailsForAReason` is proved of any number of them. The fourteen years of `Calendar` begin on every weekday, leap
and not; the proofs are about all years the code reads as they are. In `Processes` two signals and two stops are the least that can panic a worker;
capacities of channels are the code's.

**Symmetry.** Members, calls and workers are interchangeable where a run
declares it; the runs of temporal properties declare none, with the exception of
properties about single steps (`HarmlessUnlessOverlapped`, `ImplementsScoreboard`),
whose formulas treat members, calls and workers alike.

**Fairness.** `Podium`'s `FairSpec` lets a started call go on and a worker's ticker
fire, nothing more. No client has to call, no command has to fail, no second has
to pass. A goroutine that is runnable runs, and the ticker of `runWorker` fires for
as long as the process is there; the model's fault bound stands for a Redis that
does not fail for ever. `DueScoresAreExpired` needs the fairness of the worker
only: without a bound on failing runs it would be false, as a board in front of
the others that fails every time starves those behind it (`worker:180`).
In `ApiCalls` a request that was received is served and an answer arrives: a
handler runs in its goroutine until it returns, and the timeouts of the Redis
client end a command. No caller has to call or to wait. `Smoke` adds that the
script goes on; the other callers have no fairness, so they may stop anywhere.
In `PodiumProcess` every goroutine that can go on does, each by itself. One needs
more: in `runWorker`'s `select` the ticker may be ready whenever `shouldEnd` is;
Go picks among ready branches at random, so the branch of `shouldEnd` is taken if
it is ready again and again, which is strong fairness of that branch alone.

**Deadlock.** `WritesOnly` turns the check off: it has no worker, and with every
call done and the clock at its bound nothing is left to do. So does `Reads`, whose
one call has then been answered, and so do `Processes` and `ErrorRate`, where a
process that has ended takes no step. In `Podium`'s other runs the worker's ticker
always has a next step; in `Calls` only a state in which every call has ended on
both sides may rest (`Rest`), in `SmokeTest` one with a verdict.

### What the passing runs show

- `DeadlinesRegistered`: deadlines are forgotten in two ways only: a call that
  stopped between ZADD and SADD, and a worker that dropped a board it had seen
  empty. A removal, a crash, a season's end, a repeated command or another call
  loses none.
- `HarmlessUnlessOverlapped`: what a worker removes is due, whose score it
  removes first, unless somebody else changed that member during the visit. Two
  workers on one board do each other no harm beyond that.
- `SeasonalBoardsExpire`, `SeasonsEnd`: the test with TTL and the later EXPIREAT
  may race with removals, with other calls and with the season's end, and still
  leave a seasonal board without its expiry only while a call that wrote to it
  is under way or has failed.
- `ImplementsScoreboard`: seen from its callers, a board is simple. The scores of
  one call appear together, before its success, and nothing but its own; what
  removals, workers, seasons and other calls' failures do can only take scores
  away. They appear once, unless the answer to the write was lost: then they may
  come back over what others wrote or removed meanwhile, but only until the call
  goes on or fails. That an error says nothing of whether the write was made is
  part of it.
- `NoCallFails`, `TimedScoresHaveDeadlines`: without removals and workers,
  overlapping calls neither fail nor lose deadlines.
- `PagesAreBounded`: whatever is written between a reader's commands, its page is
  not longer than asked for, except of a board that ZCARD found empty.
- `TopPagesPartition`: the pages of the top cut the board in pieces, so no member is
  on two pages or on none. Only one command of such a call reads members, so this
  holds of the board as that command finds it, whatever was written before.
- `SurroundingsAreFull`, `SurroundingsHoldScore`, `MembersAsOnBoard`: on a board that
  stays as it is the arithmetic is right at every rank and size: the page about a
  member keeps its size at both ends and holds the member unless its size is one.
- `DueScoresAreExpired`: a batch that is cut, a command that is sent again and a
  run that fails delay a due score, and never for ever.
- `RequestsReachTheirHandler`: for every function, the URL the client makes is
  routed to that function's handler with the arguments it was given, as long as
  the leaderboard and the member have names and the numbers fit in a message.
- `WritesFollowTheCall`: what is written for a call is a beginning of what its
  caller wanted, in order, and all of it when the function returned it, though
  others call, panic and fail meanwhile. `UpsertScoreMultiLeaderboards` is where
  the beginning is not the whole.
- `ClientErrorsWroteNothing`: a status from 400 to 499 means that nothing was
  written, with one exception, a leaderboard whose season is over
  (`api/leaderboard.go` answers 400 after the write).
- `IncrementsAddUp`: a member's score is exactly the sum of increments that were asked
  for, each as often as it was sent to Redis: a confirmed one at least once, one whose
  caller gave up perhaps, and twice only after a fault. The bounds on the number of
  times go for each increment, not for the sum, as increments may be negative.
- `CallersAreAnswered`: redirections end, a panic is an answer, and no handler
  waits on another.
- `SmokeFailsForAReason`, `SmokeEnds`: each line of the script finds what the
  lines before it have left, whoever else calls; a failure means that Redis
  failed or credentials are wanted.
- `SeasonsLastTwice`, `DataOutlastsItsPeriod`, `SeasonsStay`: months, quarters,
  years and ranges are kept for twice their period, to the end of the following
  one; weeks are never lost early, even in the years whose first of January
  belongs to the last week of the year before; calls made at different times
  agree on the end.
- `OneStopNeverPanics`, `StopEndsWorker`: one `Stop` or signal at any moment, before
  `Run` has come to wait or during a pass, ends both goroutines and sends on no
  closed channel. Two may: see below.
- `GracefulExitCutsNothing`, `ReadyMeansStoppable`, `StartReturns`: stopping gRPC
  before HTTP is no danger for calls that come through the gateway, as those are
  drained too; only a stop that comes before a server exists misses it, and
  after `WaitForReady` none does.

### Disagreements between code and documentation

Each run below checks one claim of the documentation and TLC refutes it.

| Run | Claim | What happens |
|---|---|---|
| `UntimedScore` | without `scoreTTL` a score never expires (`docs/API.md:64`) | it takes over the deadline of an earlier, timed update (`set_member_score.go:48`) |
| `LostRegistration` | a timed score expires (`docs/API.md:62`) | a board written between EXISTS and SREM is off the list with a deadline (`redis_expiration.go:56`) |
| `ErrorRate` | `errorRate` is a moving average of errors (`docs/API.md:46`) | the goroutine ticks it once and is over (`app.go:282`), so what it showed then it shows for ever |

Also known from the models, without a run of their own:

- a timed score that is refreshed between ZRANGEBYSCORE and ZREM is removed, and
  one refreshed between the two ZREMs keeps its score and loses its deadline
  (`redis_expiration.go:44`, `:68`, `:73`), so that it never expires: the overlaps
  that `HarmlessUnlessOverlapped` leaves out;
- two timed upserts of one member that overlap can leave the score of one with
  the deadline of the other (`database/redis.go:280`);
- a write to a board whose season is over is refused after it was made, and
  recreates the board without an expiry (`set_member_score.go:30`, `:40`);
- a removal between a write and the read of its answer makes `setMembersValues`
  dereference nil (`members.go:92`); the panic is recovered and answered with 200
  and an empty message, as is a request that comes without its body;
- a board that ZCARD finds empty and ZRANGE does not is answered whole, its page
  being 0 to -1 (`indexes.go:31`), the case `PagesAreBounded` leaves out;
- a page of one around a member holds the member behind it (`indexes.go:25`);
- a negative page size passes the check against the maximum
  (`api/leaderboard.go:402`) and can return more;
- around a score below all others, in ascending order, are the members with the
  highest scores (`get_around_score.go:48`);
- two members of one `GetMembers` answer can have the same rank, when the board
  changed between their lookups (`database/redis.go:80`);
- `UpsertScoreMultiLeaderboards` stops at the first board that fails
  (`api/leaderboard.go:716`), though `docs/API.md:807` calls it atomic;
- the client's `IncrementScore` decodes the answer into a type it does not have
  and returns an empty list (`client/client.go:341`);
- a PUT or DELETE of the client with an empty name is redirected and becomes a
  GET, which writes nothing and may be answered 200 (`client/client.go:229`);
- the Redis client sends a command again whose answer was lost (`standalone_client.go:26`),
  so that an increment may count twice, and a score that was overwritten or removed
  meanwhile may come back;
- an increment between -1 and 1 passes the check against zero and is carried out
  as zero (`api/leaderboard.go:159`);
- weeks are counted from 1 January instead of the Monday the first ISO week begins
  with (`expiration.go:44`): most years' end up to a week later than documented, and
  one or two days earlier in years whose 1 January lies in week 53, as that of 2016
  or 2021 does. The second period is cut short then, never the first;
- weeks and quarters of a year below 1000 are counted from the year 1, and numbers
  beyond 32 bits stop there (`expiration.go:42`, `:55`, `:110`, `:115`);
- a second signal, or `Stop` after a signal, can send on a channel that `Run` has
  closed and panic the worker (`expiration_worker.go:128`).

## Proofs

For all values of the constants: boards, members, calls, callers, workers, seasons,
scores, page sizes, numbers of writes, signals, stops, faults, years and days.

| Theorem | Module | Property |
|---|---|---|
| `TypeCorrect` | `PodiumProofs` | `TypeOK` |
| `SeasonalBoardsExpireAlways` | | `SeasonalBoardsExpire` |
| `SeasonsEndAlways` | | `SeasonsEnd` |
| `DeadlinesRegisteredAlways` | | `DeadlinesRegistered` |
| `HarmlessAlways` | | `HarmlessUnlessOverlapped` |
| `PodiumImplementsScoreboard` | | `ImplementsScoreboard` |
| `TimedScoresHaveDeadlinesAlways` | | `TimedScoresHaveDeadlines`, if no deadline comes |
| `NoCallFailsAlways` | | `NoCallFails`, if calls only write |
| `ReadTypeCorrect` | `ReadProofs` | `TypeOK` |
| `PagesAreBoundedAlways` | | `PagesAreBounded` |
| `MembersAsOnBoardAlways` | | `MembersAsOnBoard` |
| `TopPagesPartitionAlways` | | `TopPagesPartition` |
| `SurroundingsAreFullAlways` | | `SurroundingsAreFull` |
| `SurroundingsHoldScoreAlways` | | `SurroundingsHoldScore` |
| `ClientErrorsWroteNothingEver` | `CallProofs` | `ClientErrorsWroteNothing` |
| `RequestsReachTheirHandlerAlways` | `RequestProofs` | `RequestsReachTheirHandler` |
| `WritesFollowTheCallAlways` | | `WritesFollowTheCall` |
| `IncrementsAddUpAlways` | `IncrementProofs` | `IncrementsAddUp` |
| `SmokeFailsForAReasonAlways` | `SmokeProofs` | `SmokeFailsForAReason` |
| `CalendarTypeCorrect` | `CalendarProofs` | `TypeOK` |
| `SeasonsLastTwiceAlways` | | `SeasonsLastTwice` |
| `DataOutlastsItsPeriodAlways` | | `DataOutlastsItsPeriod` |
| `SeasonsStayAlways` | | `SeasonsStay` |
| `ProcessTypeCorrect` | `ProcessProofs` | `TypeOK` |
| `OneStopNeverPanicsEver` | | `OneStopNeverPanics` |
| `ReadyMeansStoppableAlways` | | `ReadyMeansStoppable` |
| `GracefulExitCutsNothingEver` | | `GracefulExitCutsNothing` |

They use the assumptions the modules name, all of them about constants: the
special values are distinct from the ordinary ones, a season's time is a natural
number, a call is one of the kinds there are, a batch is not empty; for readers,
that there are finitely many members, that page size and maximum are positive, and
that pages count from 1; for calls from end to end, that the boards at first hold
scores, that the functions are called with what their types allow and no call is the
value that stands for none, that different
numbers have different texts, none of them empty, and that no message, nor any part of
one, is the value that stands for none; for names, that their numbers are numbers;
bounds are natural numbers. The smoke test has some of its own: the name it made up is
a text without a season; it has a member at least, and none without a name; the
server's default page is not above the server's maximum, or else it would refuse each
request that asks for no size; and what others call changes nothing on its
leaderboard, whose name is a fresh UUID (`NameAssumption`). TLC evaluates all of them
on its instances.

Two theorems are about a part of the system and say so in their hypotheses.
`NoDeadlineComes` says that there is no worker, or that every TTL is longer than the
clock runs; without it a worker's two ZREMs may have a newer timed call between them.
`OnlyWrites` adds that there are no removals and no faults, and that no season ends
or is malformed: each of these makes a call fail, as it should. Both leave the number
of calls, boards and members open, which is what the theorems are about.

- **TypeCorrect** is inductive as it stands because it says what the locals hold
  when a step uses them: a call at TTL or EXPIREAT has a season, one at ZADD
  `l:ttl` has computed its deadline, a visiting worker has a board.
- **SeasonalBoardsExpire** and **SeasonsEnd** need `SeasonInv`: besides the
  former, an expiry is always the season's own time and lies ahead
  (`ExpiryIsSeasonEnd`), for a board that has the wrong expiry would outlive its
  season. A call that created or kept a board is its *holder*; `HoldersStay` says
  that holders end in EXPIREAT or in failure only.
- **DeadlinesRegistered** is inductive with `TypeOK`: deadlines come from ZADD
  only, a call between ZADD and SADD leaves by SADD or stays, and a board that
  left the list with deadlines is in `dropped`.
- **HarmlessUnlessOverlapped** is an action property and rests on `ViewInv`, what
  a worker still knows of the board it visits: batch members that nobody else
  touched are due, have no score once it removed them, and a board it saw empty
  is empty. Others' steps keep it because they add to `touched` what they change
  (`OthersKeepView`), its own because its reads establish it (`OwnStepKeepsView`).
- **ImplementsScoreboard** maps `scores` to the board, a call's job to what it asked
  for, `faults` to what has gone wrong, and "has written" and "is settled" to where
  its `pc`, `unanswered` and `outcome` are: a call that lost its write's answer has
  written and is not settled, so it may write again. `Start` is `Ask` (`StartAsks`),
  ZADD and ZINCRBY are `Write`, answered (`WriteWrites`) or not, an error before or
  in place of the write is `GiveUp`, a call's last command is `Ack` together with
  whatever its EXPIREAT takes off the board, and every other step leaves the books
  alone (`OtherStepsBooks`) and only takes scores off (`RemovalsLeave`,
  `WorkerLeaves`).
- **TimedScoresHaveDeadlines** rests on `DeadlineInv`: a score is of a call that is on
  that board and has that member (`ScoresAreOfCalls`), a timed call has its deadlines
  in place from ZADD `l:ttl` on (`DeadlinesAreSet`), and no worker holds anything it
  could remove (`NothingIsDue`), so that deadlines, once there, stay (`DeadlinesStay`).
- **NoCallFails** rests on `WellInv`, what a call in flight finds (`CallIsWell`): its
  members are on the board from its write on, and so is the one whose rank it is about
  to read. A call's own step keeps it by what the call did before
  (`SteppingCallIsWell`), another's because nothing takes scores away (`ScoresStay`).
- **PagesAreBounded** rests on `ReadInv`: once the total is known, the positions to
  ask for are a window of the right width (`AroundWidth`, `PageWidth`,
  `ShareWidth`), and no call that has a page answers before that. The board may
  have changed when the window is used, which does not matter: on any board no two
  entries have the same position (`PositionInjective`, from the order being total
  and strict), so rows map one to one into the window (`WindowBound`).
- **TopPagesPartition**, **SurroundingsAreFull** and **SurroundingsHoldScore** need to
  know that the positions of a board have no gaps: entries are before each other as
  their positions are (`PositionOrder`), positions are below the number of entries
  (`PositionBelow`), and an injection of a finite set into one of the same size covers
  it (`PositionsFill`). A window that lies within the board therefore comes back full
  (`RowsFill`). `PageInv` says that the window is the wanted page, and while the board
  stays that of the wanted rank; `PageOfPosition` and `AroundCovers` are the arithmetic:
  a position is on exactly one page, and in the window around its rank.
- **MembersAsOnBoard** rests on `MembersInv`: while the board stays as it is, the
  answer so far is the rows of the members looked up, and the score that waits for
  its rank is still the board's (`Lookups`); no other command answers such a call.
- **ClientErrorsWroteNothing** rests on `CallInv`, one conjunct per caller: what is
  left to do follows from the message (`FollowsMessage`), what was carried out is
  what the service calls already made ask for (`WrittenSoFar`), and an answer fits
  that (`AnswerFits`). The point is `StatusOfError` with `SeasonCalls`: the only
  error of a service call that is answered as the client's mistake, by a method that
  writes, is the end of a season, and all its service calls before were on the same
  leaderboard. A caller's steps leave the others' conjuncts alone
  (`OthersUntouched`).
- **RequestsReachTheirHandler** rests on `ReachInv`, one conjunct per caller: a sound
  call's request stays what the function builds, for it is never redirected, and behind
  the gateway there is the method it is for and a message that says what the caller
  said. `PathsOf` has the paths each pattern takes, and `RoutesOf` the one method that
  each function's paths lead to: none of the others of that verb takes them, though
  `members` and `scores` may also be names. One lemma per function (`GetTopUnderstood`
  and twelve more) says that the message decoded from path, query and body holds what
  the call said, which needs numbers to come back from their texts, and a TTL below zero
  to be left out.
- **WritesFollowTheCall** rests on `FollowInv`: what a caller sent last is what its
  function builds, or a request that writes nothing (`Sent`, `Harmless`). An empty name
  is why there may be others: the mux redirects such a path, and what the HTTP client
  sends then is a GET of a clean one (`RedirectedIsHarmless`, `CleanThree`, `CleanFive`).
  The method behind it is the one the call means (`Means`, a lemma per function that
  writes: `UpdateScoreMeant` and three more), or one that neither writes nor answers as if
  it had (`Strays`, `HarmlessStrays`, `StrayConfirmsNothing`): a GET of the member
  `score`, say. As many scores are written as service calls were made (`Follows`,
  `Made`), each in its place (`PrefixGrows`). An answer that confirms comes only when
  nothing is left to do (`RespondIsKept`), and the empty one of a panic is none
  (`PanicConfirmsNothing`).
- **IncrementsAddUp** needs sums over any finite set of callers: that `SumFunction` is
  defined by unfolding it (`SumByFirst`), takes its summands in any order (`SumByAny`)
  and depends on nothing else (`SumOfAgreeing`). `AddInv` has a witness: how often each
  increment was written (`Tally`). A caller who joins adds zero of its own
  (`TallyWithAnother`), a write adds one to its own count (`TallyGrows`), and a second
  write of the same increment costs a fault, which is the bound on the count. That a
  handler which is about to write holds its caller's increment, and that none removes,
  comes from `FollowInv` (`IncrementsNext`, `HandlersIncrement`); that success implies a
  write, for calls with both names, from `Counting`. TLC found `AddInv` to hold of three
  callers with increments of both signs and a fault before it was proved.
- **SmokeFailsForAReason** has two halves. `ScriptIs` reads the script, for any members:
  after the health check come the lines that add a member each, then those that read,
  then those that remove, and each of them leads, behind the gateway, to one message
  that is not refused and one service call on the smoke test's own leaderboard
  (`Leads`, a lemma per kind of line: `AddMemberScoreAdds`, `SmokeGetMembersReads` and
  others). `SmokeInv` then follows the script. Of the other callers it says that none
  has a request, or a message, that changes that leaderboard (`Elsewhere`; a redirected
  request only reads, `RedirectedKeepsOff`), so that the board is the smoke test's own
  (`BoardOfItsOwn`). Of the smoke test, as long as no command failed and the server is
  open (`Undisturbed`): the server is idle or at the line that was sent last, a request
  on its way is for that line's service call (`OnTheWay`), and each member is there from
  its line on until the first line that removes (`Present`), a line counting as done from
  its write on, for its answer already reads the member. So every read finds every member
  (`FullForReads`), every write finds its own (`ReadWrittenServes`), and a line is sent
  only when the server is done with the one before (`SendsSmoke`).
- **The calendar** is linear arithmetic with quotients. `CalendarInv` says that an
  answer is the end the name has for all time, or an error that stays; the lemmas
  `YearsPass`, `MonthsPass` and `WeeksPass` bound how long years, months and weeks
  are, whatever weekday a year begins on, and `EndBehindPeriod` puts them together.
- **The processes**: types need two facts that go beyond types, at most one error of
  each server in `errch` (`OneErrorEach`), and no server before `Start` has come that
  far (`NoServerYet`). `StopInv` counts who may have closed `stop` against who asked
  for it; `ReadyInv` says that a token on a readiness channel has a server behind it;
  `GracefulInv` follows a stop that nothing disturbs through both servers, and says
  of each stage which calls can be left.

The library's induction theorems take an operator as a parameter, which the provers
cannot instantiate. Where an induction is needed it is made of `WFMin`, with a set in the
place of the predicate: `NaturalsInduct` and `SubsetsInduct` are the two forms used, and
sums are the one operator defined by recursion whose meaning had to be proved.

Model-checked only: `TypeOK` of `ApiCalls`, for which every answer of every reader, and
with them the sorting of boards, would have to be typed; everything with fairness
(`DueScoresAreExpired`, `CallersAreAnswered`, `SmokeEnds`, `StopEndsWorker`,
`StartReturns`), as liveness is beyond TLAPS here; and the refuted claims.

## Not modelled, and why

- The cluster client (`database/redis/cluster_client.go`) sends the same single-key
  commands as the standalone one; what a cluster does when its slots move is not
  the repository's code.
- Sentry, New Relic, StatsD and Jaeger change nothing the rest can see: in the model
  each is a part of the configuration that may fail. Logging likewise.
- Flags, configuration files, the version command, descriptors and reflection of the
  generated code, benchmarks, test helpers and mocks: input and output, data, or
  stand-ins for what is modelled.
- The deadlines that `GetMember` and `GetMembers` return on request, and their width
  of 32 bits (`api/leaderboard.go:138`), which shows from 2038 on.
- `GetMembersByRange` is not used by any handler.
- Names of boards are distinct values, so the collision of a board called `x:ttl`
  with the deadlines of `x` is outside the model; names hold neither slashes nor
  commas, nor anything else with a meaning of its own in a URL.
- Rounding of floating-point numbers.
- A copy of a command that Redis carries out after the client has given up its
  connection and the call has gone on.

What would come next, in order of what is most likely to be wrong: the deadlines
that readers return, read by a command of their own; several API processes that are
stopped and started while calls are on their way.
