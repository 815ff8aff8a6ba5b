------------------------------- MODULE Calendar -------------------------------
(***************************************************************************)
(* When the data of a seasonal leaderboard goes: GetExpireAt               *)
(* (leaderboard/expiration), which Podium has as the constant ExpireAtOf.  *)
(*                                                                         *)
(* A name is the record of what the regular expressions find in it.  Times *)
(* are days since 1970 began; a timestamp in a name is one of the seconds  *)
(* a day begins with.  ParseInt stops at 32 bits: that is a day, DayMax,   *)
(* for a timestamp, and a number, IntMax, for a week or a quarter.         *)
(***************************************************************************)
EXTENDS Integers

CONSTANTS
    Names,     \* names of leaderboards
    Days,      \* when GetExpireAt may be asked
    DayMax,    \* where ParseInt stops, of timestamps
    IntMax     \* and of other numbers

ASSUME IntMaxAssumption == DayMax \in Nat \ {0} /\ IntMax \in Nat \ {0} /\ Days \subseteq Nat

\* What the regular expressions let through: a name of one of seven kinds, with
\* numbers in it.
ASSUME NamesAssumption ==
    \A n \in Names :
        /\ n.kind \in {"unix", "dates", "year", "month", "week", "quarter", "none"}
        /\ n.kind = "unix" => n.from \in Nat /\ n.to \in Nat
        /\ n.kind = "dates" =>
              \A d \in {n.from, n.to} : d.year \in Nat /\ d.month \in Nat /\ d.day \in Nat
        /\ n.kind \in {"year", "month", "week", "quarter"} => n.year \in Nat
        /\ n.kind \in {"month", "week", "quarter"} => n.number \in Nat

VARIABLES
    now,       \* the clock
    name,      \* the leaderboard
    answer     \* what GetExpireAt said of it last

vars == <<now, name, answer>>

-----------------------------------------------------------------------------
(* Dates of package time                                                   *)

IsLeap(y) == (y % 4 = 0 /\ y % 100 # 0) \/ y % 400 = 0

DaysOfMonth(y, m) ==
    CASE m = 2 -> IF IsLeap(y) THEN 29 ELSE 28
      [] m \in {4, 6, 9, 11} -> 30
      [] OTHER -> 31

\* Days from the first of January to the first of month m.
DaysBefore(y, m) ==
    LET before == <<0, 31, 59, 90, 120, 151, 181, 212, 243, 273, 304, 334>>
    IN  before[m] + (IF m > 2 /\ IsLeap(y) THEN 1 ELSE 0)

NewYear(y) ==
    LET past == y - 1 IN
    365 * past + (past \div 4) - (past \div 100) + (past \div 400) - 719162

\* The first of a month; one beyond the twelfth or before the first is another
\* year's, as in AddDate.
FirstOf(y, m) ==
    LET year == y + ((m - 1) \div 12)
        month == ((m - 1) % 12) + 1
    IN  NewYear(year) + DaysBefore(year, month)

\* Monday is 1; the epoch began on a Thursday.
Weekday(day) == ((day + 3) % 7) + 1

\* The year and week of ISO 8601 that the first of January of y belongs to.
ISOWeekOfNewYear(y) ==
    LET weekday == Weekday(NewYear(y))
        long == \/ Weekday(NewYear(y - 1)) = 4
                \/ IsLeap(y - 1) /\ Weekday(NewYear(y - 1)) = 3
    IN  IF weekday <= 4 THEN [year |-> y, week |-> 1]
                        ELSE [year |-> y - 1, week |-> IF long THEN 53 ELSE 52]

\* time.Parse of YYYYMMDD.
IsDate(d) == d.month \in 1 .. 12 /\ d.day \in 1 .. DaysOfMonth(d.year, d.month)

DayOf(d) == FirstOf(d.year, d.month) + d.day - 1

\* ParseInt with 32 bits, its error ignored.
ParseInt(n, max) == IF n > max THEN max ELSE n

\* The year of time.Parse("2006", strconv.Itoa(year)), its error ignored: Itoa
\* writes a year below 1000 with too few digits, and the zero Time is of year 1.
ParsedYear(year) == IF year < 1000 THEN 1 ELSE year

-----------------------------------------------------------------------------
(* GetExpireAt                                                             *)

Ends(time) == [time |-> time, error |-> "none"]

\* Mutant of Error: the time is left at 0.
ErrorAtZero(kind) == [time |-> 0, error |-> kind]

Error(kind) == [time |-> -1, error |-> kind]

NotExpired(time) == IF time <= now THEN Error("expired") ELSE Ends(time)

\* Mutant of CheckExpireAtErrors: the second period begins now.
CheckFromNow(start, end) ==
    IF end - start <= 0 THEN Error("duration") ELSE NotExpired(now + (end - start))

CheckExpireAtErrors(start, end) ==
    IF end - start <= 0 THEN Error("duration") ELSE NotExpired(end + (end - start))

\* Mutant of WeeklyExpiration: the year that the first of January belongs to
\* does not matter.
WeeklyExpirationInYear(year, week) ==
    NewYear(year) + 7 * (week - ISOWeekOfNewYear(year).week) + 14

WeeklyExpiration(year, week) ==
    LET parsed == ParsedYear(year)
        dummy == ISOWeekOfNewYear(parsed)
    IN  NewYear(parsed + (year - dummy.year)) + 7 * (week - dummy.week) + 14

MonthlyExpiration(year, month) == FirstOf(year, month + 2)

\* Mutant of QuarterlyExpiration: quarters are counted from 0.
QuarterlyExpirationFromZero(year, quarter) == FirstOf(year, 3 * quarter + 1 + 6)

QuarterlyExpiration(year, quarter) == FirstOf(ParsedYear(year), 3 * (quarter - 1) + 1 + 6)

YearlyExpiration(year) == NewYear(year + 2)

\* A month is two digits.
IsMonth(n) == n.digits = 2 /\ n.number \in 1 .. 12

GetExpireAt(n) ==
    CASE n.kind = "unix" ->
            CheckExpireAtErrors(ParseInt(n.from, DayMax), ParseInt(n.to, DayMax))
      [] n.kind = "dates" ->
            IF IsDate(n.from) /\ IsDate(n.to) THEN CheckExpireAtErrors(DayOf(n.from), DayOf(n.to))
                                              ELSE Error("parse")
      [] n.kind = "year" -> NotExpired(YearlyExpiration(n.year))
      [] n.kind = "month" ->
            IF IsMonth(n) THEN NotExpired(MonthlyExpiration(n.year, n.number))
                          ELSE Error("parse")
      [] n.kind = "week" ->
            NotExpired(WeeklyExpiration(n.year, ParseInt(n.number, IntMax)))
      [] n.kind = "quarter" ->
            NotExpired(QuarterlyExpiration(n.year, ParseInt(n.number, IntMax)))
      [] n.kind = "none" -> Ends(-1)

-----------------------------------------------------------------------------
Init ==
    /\ now \in Days
    /\ name \in Names
    /\ answer = Ends(-1)

\* A call writes to the leaderboard.
Write ==
    /\ answer' = GetExpireAt(name)
    /\ UNCHANGED <<now, name>>

Later ==
    /\ now' \in {d \in Days : d > now}
    /\ UNCHANGED <<name, answer>>

Next == Write \/ Later

Spec == Init /\ [][Next]_vars

-----------------------------------------------------------------------------
(* The documented periods                                                  *)

\* The Monday of a week of ISO 8601: week 1 has the year's first Thursday.
MondayOf(year, week) ==
    LET fourth == NewYear(year) + 3
    IN  fourth - (Weekday(fourth) - 1) + 7 * (week - 1)

Month(year, m) == [start |-> FirstOf(year, m), end |-> FirstOf(year, m + 1)]

Quarter(year, q) ==
    [start |-> FirstOf(year, 3 * q - 2), end |-> FirstOf(year, 3 * (q + 1) - 2)]

\* Where a period starts and ends (docs/leaderboard-names.md).
Period(n) ==
    CASE n.kind = "unix" -> [start |-> n.from, end |-> n.to]
      [] n.kind = "dates" -> [start |-> DayOf(n.from), end |-> DayOf(n.to)]
      [] n.kind = "year" -> [start |-> NewYear(n.year), end |-> NewYear(n.year + 1)]
      [] n.kind = "month" -> Month(n.year, n.number)
      [] n.kind = "quarter" -> Quarter(n.year, n.number)
      [] n.kind = "week" ->
            [start |-> MondayOf(n.year, n.number), end |-> MondayOf(n.year, n.number) + 7]

\* The name says when: its dates exist, its period is not empty, its numbers are
\* ones that 32 bits hold, and its weeks and quarters are of a year that
\* strconv.Itoa writes with four digits.
Denotes(n) ==
    CASE n.kind = "none" -> FALSE
      [] n.kind = "unix" -> n.from < n.to /\ n.to <= DayMax
      [] n.kind = "dates" -> IsDate(n.from) /\ IsDate(n.to) /\ DayOf(n.from) < DayOf(n.to)
      [] n.kind = "month" -> IsMonth(n)
      [] n.kind \in {"week", "quarter"} -> n.year >= 1000 /\ n.number <= IntMax
      [] n.kind = "year" -> TRUE

-----------------------------------------------------------------------------
(* Properties                                                              *)

\* Answers are of their type.
TypeOK ==
    /\ now \in Days /\ name \in Names
    /\ answer.time \in Int
    /\ answer.error \in {"none", "expired", "duration", "parse"}
    /\ answer.error # "none" => answer.time = -1

\* The day a leaderboard's data goes is the end of the period that follows on its
\* own and is as long: for months and years one of the calendar's (AddDate,
\* checkExpireAtErrors).  Weeks are another matter.
SeasonsLastTwice ==
    Denotes(name) /\ name.kind # "week" /\ answer.time # -1 =>
        LET period == Period(name) IN
        answer.time =
            CASE name.kind \in {"unix", "dates"} -> 2 * period.end - period.start
              [] name.kind = "year" -> NewYear(name.year + 2)
              [] name.kind = "month" -> Month(name.year, name.number + 1).end
              [] name.kind = "quarter" -> Quarter(name.year, name.number + 1).end

\* No data goes while its period lasts, the weeks of ISO 8601 included, in years
\* that begin on any day, leap or not (WeeklyExpiration).
DataOutlastsItsPeriod ==
    Denotes(name) =>
        /\ answer.time # -1 => answer.time > Period(name).end
        /\ answer.error = "expired" => now > Period(name).end

\* Two writes to a leaderboard agree on its end, whenever they are made, unless it
\* is over; and once over it stays over.
SeasonsStay ==
    [][answer # Ends(-1) => answer' \in {answer, Error("expired")}]_vars

=============================================================================
