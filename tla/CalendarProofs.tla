---------------------------- MODULE CalendarProofs ----------------------------
(***************************************************************************)
(* Theorems about Calendar, for all names and all days.                    *)
(*                                                                         *)
(* What GetExpireAt says of a name depends on the clock in one way only:   *)
(* whether the time it has worked out is over.  That time, EndOf, and      *)
(* whether there is one, Timed, are the name's alone.                      *)
(***************************************************************************)
EXTENDS Calendar, TLAPS

\* A time is worked out for the name.
Timed(n) ==
    \/ n.kind \in {"year", "week", "quarter"}
    \/ n.kind = "unix" /\ ParseInt(n.to, DayMax) - ParseInt(n.from, DayMax) > 0
    \/ n.kind = "dates" /\ IsDate(n.from) /\ IsDate(n.to) /\ DayOf(n.to) - DayOf(n.from) > 0
    \/ n.kind = "month" /\ IsMonth(n)

EndOf(n) ==
    CASE n.kind = "unix" ->
            ParseInt(n.to, DayMax) + (ParseInt(n.to, DayMax) - ParseInt(n.from, DayMax))
      [] n.kind = "dates" -> DayOf(n.to) + (DayOf(n.to) - DayOf(n.from))
      [] n.kind = "year" -> YearlyExpiration(n.year)
      [] n.kind = "month" -> MonthlyExpiration(n.year, n.number)
      [] n.kind = "week" -> WeeklyExpiration(n.year, ParseInt(n.number, IntMax))
      [] n.kind = "quarter" -> QuarterlyExpiration(n.year, ParseInt(n.number, IntMax))

\* What is said of a name without a time, whenever it is asked for.
Untimed(n) ==
    CASE n.kind = "none" -> Ends(-1)
      [] n.kind = "unix" -> Error("duration")
      [] n.kind = "dates" /\ IsDate(n.from) /\ IsDate(n.to) -> Error("duration")
      [] OTHER -> Error("parse")

\* The last answer is the one that the name has, as of some day that was.
CalendarInv ==
    /\ now \in Days /\ name \in Names
    /\ \/ answer = Ends(-1)
       \/ ~Timed(name) /\ answer = Untimed(name)
       \/ Timed(name) /\ answer = Ends(EndOf(name)) /\ EndOf(name) > 0
       \/ Timed(name) /\ answer = Error("expired") /\ EndOf(name) <= now

-----------------------------------------------------------------------------
(* Dates are numbers                                                       *)

LEMMA NewYearIsInt == \A y \in Int : NewYear(y) \in Int
BY DEF NewYear

LEMMA FirstIsInt == \A y, m \in Int : FirstOf(y, m) \in Int
<1>1. SUFFICES ASSUME NEW y \in Int, NEW m \in Int
               PROVE  FirstOf(y, m) \in Int
  OBVIOUS
<1>2. y + ((m - 1) \div 12) \in Int
  OBVIOUS
<1>3. ((m - 1) % 12) + 1 \in 1 .. 12
  OBVIOUS
<1>4. \A k \in 1 .. 12, z \in Int : DaysBefore(z, k) \in Int
  BY DEF DaysBefore
<1>5. NewYear(y + ((m - 1) \div 12)) \in Int
  BY <1>2, NewYearIsInt
<1>6. DaysBefore(y + ((m - 1) \div 12), ((m - 1) % 12) + 1) \in Int
  BY <1>2, <1>3, <1>4
<1>7. FirstOf(y, m) = NewYear(y + ((m - 1) \div 12))
                      + DaysBefore(y + ((m - 1) \div 12), ((m - 1) % 12) + 1)
  BY DEF FirstOf
<1>8. QED
  BY <1>5, <1>6, <1>7

LEMMA DayIsInt ==
    ASSUME NEW d, d.year \in Nat, d.month \in Nat, d.day \in Nat
    PROVE  DayOf(d) \in Int
<1>1. d.year \in Int /\ d.month \in Int
  OBVIOUS
<1>2. FirstOf(d.year, d.month) \in Int
  BY <1>1, FirstIsInt
<1>3. QED
  BY <1>2 DEF DayOf

LEMMA WeekIsInt ==
    \A y \in Int : ISOWeekOfNewYear(y).year \in Int /\ ISOWeekOfNewYear(y).week \in Int
BY DEF ISOWeekOfNewYear

\* A name's time is a number.
LEMMA EndIsInt == ASSUME NEW n \in Names PROVE Timed(n) => EndOf(n) \in Int
<1>1. SUFFICES ASSUME Timed(n) PROVE EndOf(n) \in Int
  OBVIOUS
<1>2. \A k \in Nat : ParseInt(k, DayMax) \in Int /\ ParseInt(k, IntMax) \in Int
  BY IntMaxAssumption DEF ParseInt
<1>3. n.kind = "dates" => DayOf(n.from) \in Int /\ DayOf(n.to) \in Int
  BY NamesAssumption, DayIsInt
<1>4. CASE n.kind = "unix"
  BY <1>2, <1>4, NamesAssumption DEF EndOf
<1>5. CASE n.kind = "dates"
  BY <1>3, <1>5, NamesAssumption DEF EndOf
<1>6. CASE n.kind = "year"
  BY <1>6, NamesAssumption, NewYearIsInt DEF EndOf, YearlyExpiration
<1>7. CASE n.kind = "month"
  BY <1>7, NamesAssumption, FirstIsInt DEF EndOf, MonthlyExpiration
<1>8. CASE n.kind = "week"
  <2> DEFINE week == ParseInt(n.number, IntMax)
             parsed == ParsedYear(n.year)
             dummy == ISOWeekOfNewYear(parsed)
             first == NewYear(parsed + (n.year - dummy.year))
  <2>1. n.year \in Int /\ week \in Int /\ parsed \in Int
    BY <1>2, <1>8, NamesAssumption DEF ParsedYear
  <2>2. dummy.year \in Int /\ dummy.week \in Int
    BY <2>1, WeekIsInt
  <2>3. first \in Int
    <3>1. parsed + (n.year - dummy.year) \in Int
      BY <2>1, <2>2
    <3>2. QED
      BY <3>1, NewYearIsInt
  <2>4. WeeklyExpiration(n.year, week) = first + 7 * (week - dummy.week) + 14
    BY DEF WeeklyExpiration
  <2>5. first + 7 * (week - dummy.week) + 14 \in Int
    <3> HIDE DEF dummy, first, parsed, week
    <3>1. QED
      BY <2>1, <2>2, <2>3
  <2>6. EndOf(n) = WeeklyExpiration(n.year, week)
    BY <1>8 DEF EndOf
  <2>7. QED
    BY <2>4, <2>5, <2>6
<1>9. CASE n.kind = "quarter"
  <2> DEFINE quarter == ParseInt(n.number, IntMax)
  <2>1. quarter \in Int /\ ParsedYear(n.year) \in Int
    BY <1>2, <1>9, NamesAssumption DEF ParsedYear
  <2>2. 3 * (quarter - 1) + 1 + 6 \in Int
    <3> HIDE DEF quarter
    <3>1. QED
      BY <2>1
  <2>3. EndOf(n) = FirstOf(ParsedYear(n.year), 3 * (quarter - 1) + 1 + 6)
    BY <1>9 DEF EndOf, QuarterlyExpiration
  <2>4. QED
    BY <2>1, <2>2, <2>3, FirstIsInt
<1>10. QED
  BY <1>1, <1>4, <1>5, <1>6, <1>7, <1>8, <1>9 DEF Timed

-----------------------------------------------------------------------------
(* Periods follow one another                                              *)

LEMMA YearsPass ==
    ASSUME NEW y \in Int
    PROVE  NewYear(y + 1) - NewYear(y) >= 364
<1>1. ((y + 1) - 1) \div 4 >= (y - 1) \div 4
  OBVIOUS
<1>2. ((y + 1) - 1) \div 100 <= ((y - 1) \div 100) + 1
  OBVIOUS
<1>3. ((y + 1) - 1) \div 400 >= (y - 1) \div 400
  OBVIOUS
<1>4. QED
  BY <1>1, <1>2, <1>3 DEF NewYear

LEMMA MonthsPass ==
    ASSUME NEW y \in Int, NEW m \in Int
    PROVE  FirstOf(y, m + 1) > FirstOf(y, m)
<1> DEFINE year == y + ((m - 1) \div 12)
           month == ((m - 1) % 12) + 1
<1>1. year \in Int /\ month \in 1 .. 12
  OBVIOUS
<1>2. FirstOf(y, m) = NewYear(year) + DaysBefore(year, month)
  BY DEF FirstOf
<1>3. FirstOf(y, m + 1) = NewYear(y + (((m + 1) - 1) \div 12))
                          + DaysBefore(y + (((m + 1) - 1) \div 12), (((m + 1) - 1) % 12) + 1)
  BY DEF FirstOf
<1>4. NewYear(year) \in Int /\ NewYear(year + 1) \in Int
  BY <1>1, NewYearIsInt
<1>5. CASE month < 12
  <2>1. y + (((m + 1) - 1) \div 12) = year /\ (((m + 1) - 1) % 12) + 1 = month + 1
    BY <1>5
  <2>2. \A k \in 1 .. 11 :
           /\ DaysBefore(year, k) \in Int /\ DaysBefore(year, k + 1) \in Int
           /\ DaysBefore(year, k + 1) > DaysBefore(year, k)
    BY <1>1 DEF DaysBefore
  <2>3. month \in 1 .. 11
    BY <1>1, <1>5
  <2>4. QED
    BY <1>2, <1>3, <1>4, <2>1, <2>2, <2>3
<1>6. CASE month = 12
  <2>1. y + (((m + 1) - 1) \div 12) = year + 1 /\ (((m + 1) - 1) % 12) + 1 = 1
    BY <1>6
  <2>2. DaysBefore(year + 1, 1) = 0 /\ DaysBefore(year, 12) \in {334, 335}
    BY <1>1 DEF DaysBefore
  <2>3. NewYear(year + 1) - NewYear(year) >= 364
    BY <1>1, YearsPass
  <2>4. QED
    BY <1>2, <1>3, <1>4, <1>6, <2>1, <2>2, <2>3
<1>7. QED
  BY <1>1, <1>5, <1>6

\* The day worked out for a week is behind the week of ISO 8601, whichever weekday
\* the year begins on.
LEMMA WeeksPass ==
    ASSUME NEW y \in Int, y >= 1000, NEW w \in Int
    PROVE  WeeklyExpiration(y, w) > MondayOf(y, w) + 7
<1> DEFINE dummy == ISOWeekOfNewYear(y)
<1>1. WeeklyExpiration(y, w) = NewYear(y + (y - dummy.year)) + 7 * (w - dummy.week) + 14
  BY DEF WeeklyExpiration, ParsedYear
<1>2. NewYear(y) \in Int /\ NewYear(y + 1) \in Int
  BY NewYearIsInt
<1>3. NewYear(y + 1) - NewYear(y) >= 364
  BY YearsPass
<1>4. Weekday(NewYear(y)) \in 1 .. 7
  BY <1>2 DEF Weekday
<1>5. MondayOf(y, w) = NewYear(y) + 3 - (Weekday(NewYear(y) + 3) - 1) + 7 * (w - 1)
  <2>1. NewYear(y) + 3 \in Int /\ Weekday(NewYear(y) + 3) \in Int
    BY <1>2 DEF Weekday
  <2>2. QED
    BY <1>2, <2>1 DEF MondayOf
<1>6. CASE Weekday(NewYear(y)) <= 4
  <2>1. ISOWeekOfNewYear(y).year = y /\ ISOWeekOfNewYear(y).week = 1
    BY <1>6 DEF ISOWeekOfNewYear
  <2>2. WeeklyExpiration(y, w) = NewYear(y) + 7 * (w - 1) + 14
    BY <1>1, <2>1
  <2>3. Weekday(NewYear(y) + 3) \in 4 .. 7
    BY <1>2, <1>6 DEF Weekday
  <2>4. QED
    BY <1>2, <1>5, <2>2, <2>3
<1>7. CASE Weekday(NewYear(y)) > 4
  <2>1. ISOWeekOfNewYear(y).year = y - 1 /\ ISOWeekOfNewYear(y).week \in {52, 53}
    BY <1>4, <1>7 DEF ISOWeekOfNewYear
  <2>2. WeeklyExpiration(y, w) = NewYear(y + 1) + 7 * (w - ISOWeekOfNewYear(y).week) + 14
    BY <1>1, <2>1
  <2>3. Weekday(NewYear(y) + 3) \in 1 .. 3 /\ Weekday(NewYear(y) + 3) = Weekday(NewYear(y)) - 4
    BY <1>2, <1>7 DEF Weekday
  <2>4. QED
    BY <1>2, <1>3, <1>5, <1>7, <2>1, <2>2, <2>3
<1>8. QED
  BY <1>4, <1>6, <1>7

\* So the time of every name that says when lies behind its period.
LEMMA EndBehindPeriod ==
    ASSUME NEW n \in Names, Denotes(n)
    PROVE  Timed(n) /\ Period(n).end \in Int /\ EndOf(n) > Period(n).end
<1>1. CASE n.kind = "unix"
  <2>1. n.from \in Nat /\ n.to \in Nat /\ n.from < n.to /\ n.to <= DayMax
    BY <1>1, NamesAssumption DEF Denotes
  <2>2. ParseInt(n.from, DayMax) = n.from /\ ParseInt(n.to, DayMax) = n.to
    BY <2>1, IntMaxAssumption DEF ParseInt
  <2>3. EndOf(n) = n.to + (n.to - n.from) /\ Period(n).end = n.to
    BY <1>1, <2>2 DEF EndOf, Period
  <2>4. QED
    BY <1>1, <2>1, <2>2, <2>3 DEF Timed
<1>2. CASE n.kind = "dates"
  <2>1. DayOf(n.from) \in Int /\ DayOf(n.to) \in Int
    BY <1>2, NamesAssumption, DayIsInt
  <2>2. IsDate(n.from) /\ IsDate(n.to) /\ DayOf(n.from) < DayOf(n.to)
    BY <1>2 DEF Denotes
  <2>3. EndOf(n) = DayOf(n.to) + (DayOf(n.to) - DayOf(n.from)) /\ Period(n).end = DayOf(n.to)
    BY <1>2 DEF EndOf, Period
  <2>4. DayOf(n.to) - DayOf(n.from) > 0
    BY <2>1, <2>2
  <2>5. QED
    BY <1>2, <2>1, <2>2, <2>3, <2>4 DEF Timed
<1>3. CASE n.kind = "year"
  <2>1. n.year \in Int /\ n.year + 1 \in Int /\ (n.year + 1) + 1 = n.year + 2
    BY <1>3, NamesAssumption
  <2>2. NewYear(n.year + 1) \in Int /\ NewYear(n.year + 2) \in Int
    BY <2>1, NewYearIsInt
  <2>3. NewYear(n.year + 2) - NewYear(n.year + 1) >= 364
    BY <2>1, YearsPass
  <2>4. QED
    BY <1>3, <2>2, <2>3 DEF Timed, EndOf, Period, YearlyExpiration
<1>4. CASE n.kind = "month"
  <2>1. n.year \in Int /\ n.number + 1 \in Int /\ (n.number + 1) + 1 = n.number + 2
    BY <1>4, NamesAssumption
  <2>2. FirstOf(n.year, n.number + 2) > FirstOf(n.year, n.number + 1)
    BY <2>1, MonthsPass
  <2>3. FirstOf(n.year, n.number + 1) \in Int
    BY <2>1, FirstIsInt
  <2>4. QED
    BY <1>4, <2>2, <2>3 DEF Denotes, Timed, EndOf, Period, Month, MonthlyExpiration
<1>5. CASE n.kind = "quarter"
  <2> DEFINE m == 3 * (n.number + 1) - 2
  <2>1. n.year \in Int /\ m \in Int /\ m + 1 \in Int /\ m + 2 \in Int /\ m + 3 \in Int
    BY <1>5, NamesAssumption
  <2>2. (m + 1) + 1 = m + 2 /\ (m + 2) + 1 = m + 3 /\ 3 * (n.number - 1) + 1 + 6 = m + 3
    BY <1>5, NamesAssumption
  <2>3. /\ FirstOf(n.year, m) \in Int /\ FirstOf(n.year, m + 1) \in Int
        /\ FirstOf(n.year, m + 2) \in Int /\ FirstOf(n.year, m + 3) \in Int
    <3> HIDE DEF m
    <3>1. QED
      BY <2>1, FirstIsInt
  <2>4. /\ FirstOf(n.year, m + 1) > FirstOf(n.year, m)
        /\ FirstOf(n.year, m + 2) > FirstOf(n.year, m + 1)
        /\ FirstOf(n.year, m + 3) > FirstOf(n.year, m + 2)
    <3>1. FirstOf(n.year, m + 1) > FirstOf(n.year, m)
      BY <2>1, MonthsPass
    <3>2. FirstOf(n.year, (m + 1) + 1) > FirstOf(n.year, m + 1)
      BY <2>1, MonthsPass
    <3>3. FirstOf(n.year, (m + 2) + 1) > FirstOf(n.year, m + 2)
      BY <2>1, MonthsPass
    <3>4. QED
      BY <2>2, <3>1, <3>2, <3>3
  <2>5. EndOf(n) = FirstOf(n.year, m + 3)
    <3>1. EndOf(n) = QuarterlyExpiration(n.year, ParseInt(n.number, IntMax))
      BY <1>5 DEF EndOf
    <3>2. ParseInt(n.number, IntMax) = n.number /\ ParsedYear(n.year) = n.year
      BY <1>5, NamesAssumption, IntMaxAssumption DEF Denotes, ParseInt, ParsedYear
    <3>3. QED
      BY <2>2, <3>1, <3>2 DEF QuarterlyExpiration
  <2>6. Period(n).end = FirstOf(n.year, m)
    BY <1>5 DEF Period, Quarter
  <2> HIDE DEF m
  <2>7. QED
    BY <1>5, <2>3, <2>4, <2>5, <2>6 DEF Timed
<1>6. CASE n.kind = "week"
  <2>1. n.year \in Int /\ n.number \in Int /\ n.year >= 1000
    BY <1>6, NamesAssumption DEF Denotes
  <2>2. WeeklyExpiration(n.year, n.number) > MondayOf(n.year, n.number) + 7
    BY <2>1, WeeksPass
  <2>3. NewYear(n.year) \in Int
    BY <2>1, NewYearIsInt
  <2>4. MondayOf(n.year, n.number) + 7 \in Int
    BY <2>1, <2>3 DEF MondayOf, Weekday
  <2>5. ParseInt(n.number, IntMax) = n.number
    BY <1>6, NamesAssumption, IntMaxAssumption DEF Denotes, ParseInt
  <2>6. QED
    BY <1>6, <2>2, <2>4, <2>5 DEF Timed, EndOf, Period
<1>7. QED
  BY <1>1, <1>2, <1>3, <1>4, <1>5, <1>6, NamesAssumption DEF Denotes

-----------------------------------------------------------------------------
(* What GetExpireAt says                                                   *)

\* A name with a time: the time, or that it is over.
LEMMA TimedAnswer ==
    ASSUME NEW n \in Names, Timed(n)
    PROVE  GetExpireAt(n) = NotExpired(EndOf(n))
<1>1. CASE n.kind = "unix"
  <2>1. ParseInt(n.from, DayMax) \in Int /\ ParseInt(n.to, DayMax) \in Int
    BY <1>1, NamesAssumption, IntMaxAssumption DEF ParseInt
  <2>2. ~(ParseInt(n.to, DayMax) - ParseInt(n.from, DayMax) <= 0)
    BY <1>1, <2>1 DEF Timed
  <2>3. QED
    BY <1>1, <2>2 DEF GetExpireAt, CheckExpireAtErrors, EndOf
<1>2. CASE n.kind = "dates"
  <2>1. DayOf(n.from) \in Int /\ DayOf(n.to) \in Int
    BY <1>2, NamesAssumption, DayIsInt
  <2>2. ~(DayOf(n.to) - DayOf(n.from) <= 0) /\ IsDate(n.from) /\ IsDate(n.to)
    BY <1>2, <2>1 DEF Timed
  <2>3. QED
    BY <1>2, <2>2 DEF GetExpireAt, CheckExpireAtErrors, EndOf
<1>3. CASE n.kind = "month"
  BY <1>3 DEF Timed, GetExpireAt, EndOf
<1>4. CASE n.kind \in {"year", "week", "quarter"}
  BY <1>4 DEF GetExpireAt, EndOf
<1>5. QED
  BY <1>1, <1>2, <1>3, <1>4 DEF Timed

\* A name without one: the same on every day.
LEMMA UntimedAnswer ==
    ASSUME NEW n \in Names, ~Timed(n)
    PROVE  GetExpireAt(n) = Untimed(n)
<1>1. CASE n.kind = "unix"
  <2>1. ParseInt(n.from, DayMax) \in Int /\ ParseInt(n.to, DayMax) \in Int
    BY <1>1, NamesAssumption, IntMaxAssumption DEF ParseInt
  <2>2. ParseInt(n.to, DayMax) - ParseInt(n.from, DayMax) <= 0
    BY <1>1, <2>1 DEF Timed
  <2>3. QED
    BY <1>1, <2>2 DEF GetExpireAt, CheckExpireAtErrors, Untimed
<1>2. CASE n.kind = "dates"
  <2>1. DayOf(n.from) \in Int /\ DayOf(n.to) \in Int
    BY <1>2, NamesAssumption, DayIsInt
  <2>2. CASE IsDate(n.from) /\ IsDate(n.to)
    <3>1. DayOf(n.to) - DayOf(n.from) <= 0
      BY <1>2, <2>1, <2>2 DEF Timed
    <3>2. QED
      BY <1>2, <2>2, <3>1 DEF GetExpireAt, CheckExpireAtErrors, Untimed
  <2>3. CASE ~(IsDate(n.from) /\ IsDate(n.to))
    BY <1>2, <2>3 DEF GetExpireAt, Untimed
  <2>4. QED
    BY <2>2, <2>3
<1>3. CASE n.kind = "month"
  BY <1>3 DEF Timed, GetExpireAt, Untimed
<1>4. CASE n.kind = "none"
  BY <1>4 DEF GetExpireAt, Untimed
<1>5. QED
  BY <1>1, <1>2, <1>3, <1>4, NamesAssumption DEF Timed

-----------------------------------------------------------------------------
(* The invariant                                                           *)

LEMMA InvInit == Init => CalendarInv
BY DEF Init, CalendarInv

LEMMA InvNext == CalendarInv /\ [Next]_vars => CalendarInv'
<1>1. SUFFICES ASSUME CalendarInv, [Next]_vars PROVE CalendarInv'
  OBVIOUS
<1>2. CASE Write
  <2>1. now' = now /\ name' = name /\ answer' = GetExpireAt(name)
    BY <1>2 DEF Write
  <2>2. now \in Nat /\ now \in Days /\ name \in Names
    BY <1>1, IntMaxAssumption DEF CalendarInv
  <2>3. CASE Timed(name)
    <3>1. EndOf(name) \in Int /\ answer' = NotExpired(EndOf(name))
      BY <2>1, <2>2, <2>3, EndIsInt, TimedAnswer
    <3>2. CASE EndOf(name) <= now
      BY <2>1, <2>2, <2>3, <3>1, <3>2 DEF NotExpired, CalendarInv
    <3>3. CASE ~(EndOf(name) <= now)
      <4>1. EndOf(name) > 0
        BY <2>2, <3>1, <3>3
      <4>2. QED
        BY <2>1, <2>2, <2>3, <3>1, <3>3, <4>1 DEF NotExpired, CalendarInv
    <3>4. QED
      BY <3>2, <3>3
  <2>4. CASE ~Timed(name)
    <3>1. answer' = Untimed(name)
      BY <2>1, <2>2, <2>4, UntimedAnswer
    <3>2. QED
      BY <2>1, <2>2, <2>4, <3>1 DEF CalendarInv
  <2>5. QED
    BY <2>3, <2>4
<1>3. CASE Later
  <2>1. now' \in Days /\ now' > now /\ name' = name /\ answer' = answer
    BY <1>3 DEF Later
  <2>2. now \in Nat /\ now' \in Nat /\ name \in Names
    BY <1>1, <2>1, IntMaxAssumption DEF CalendarInv
  <2>3. Timed(name) /\ EndOf(name) <= now => EndOf(name) <= now'
    BY <2>1, <2>2, EndIsInt
  <2>4. QED
    BY <1>1, <2>1, <2>2, <2>3 DEF CalendarInv
<1>4. CASE UNCHANGED vars
  BY <1>1, <1>4 DEF CalendarInv, vars
<1>5. QED
  BY <1>1, <1>2, <1>3, <1>4 DEF Next

LEMMA InvAlways == Spec => []CalendarInv
BY InvInit, InvNext, PTL DEF Spec

-----------------------------------------------------------------------------
(* Theorems                                                                *)

\* Whatever the names, an answer is a number or an error, never both (GetExpireAt).
THEOREM CalendarTypeCorrect == Spec => []TypeOK
<1>1. CalendarInv => TypeOK
  <2>1. SUFFICES ASSUME CalendarInv PROVE TypeOK
    OBVIOUS
  <2>2. name \in Names /\ now \in Days
    BY <2>1 DEF CalendarInv
  <2>3. Timed(name) => EndOf(name) \in Int
    BY <2>2, EndIsInt
  <2>4. Untimed(name) \in {Ends(-1), Error("duration"), Error("parse")}
    BY DEF Untimed
  <2>5. QED
    BY <2>1, <2>2, <2>3, <2>4 DEF CalendarInv, TypeOK, Ends, Error
<1>2. QED
  BY <1>1, InvAlways, PTL

\* For all years, months, quarters, dates and timestamps, the data goes at the end
\* of a second period (AddDate, checkExpireAtErrors).
THEOREM SeasonsLastTwiceAlways == Spec => []SeasonsLastTwice
<1>1. CalendarInv => SeasonsLastTwice
  <2>1. SUFFICES ASSUME CalendarInv, Denotes(name), name.kind # "week", answer.time # -1
                 PROVE  SeasonsLastTwice
    BY DEF SeasonsLastTwice
  <2>2. name \in Names
    BY <2>1 DEF CalendarInv
  <2>3. Untimed(name).time = -1
    BY DEF Untimed, Ends, Error
  <2>4. answer.time = EndOf(name)
    BY <2>1, <2>3 DEF CalendarInv, Ends, Error
  <2>5. CASE name.kind = "unix"
    <3>1. name.from \in Nat /\ name.to \in Nat /\ name.from < name.to /\ name.to <= DayMax
      BY <2>1, <2>2, <2>5, NamesAssumption DEF Denotes
    <3>2. ParseInt(name.from, DayMax) = name.from /\ ParseInt(name.to, DayMax) = name.to
      BY <3>1, IntMaxAssumption DEF ParseInt
    <3>3. EndOf(name) = name.to + (name.to - name.from)
      BY <2>5, <3>2 DEF EndOf
    <3>4. Period(name).end = name.to /\ Period(name).start = name.from
      BY <2>5 DEF Period
    <3>5. QED
      BY <2>4, <2>5, <3>1, <3>3, <3>4 DEF SeasonsLastTwice
  <2>6. CASE name.kind = "dates"
    <3>1. DayOf(name.from) \in Int /\ DayOf(name.to) \in Int
      BY <2>2, <2>6, NamesAssumption, DayIsInt
    <3>2. EndOf(name) = DayOf(name.to) + (DayOf(name.to) - DayOf(name.from))
      BY <2>6 DEF EndOf
    <3>3. Period(name).end = DayOf(name.to) /\ Period(name).start = DayOf(name.from)
      BY <2>6 DEF Period
    <3>4. QED
      BY <2>4, <2>6, <3>1, <3>2, <3>3 DEF SeasonsLastTwice
  <2>7. CASE name.kind = "year"
    BY <2>4, <2>7 DEF SeasonsLastTwice, EndOf, YearlyExpiration
  <2>8. CASE name.kind = "month"
    <3>1. name.number \in Nat
      BY <2>2, <2>8, NamesAssumption
    <3>2. EndOf(name) = FirstOf(name.year, name.number + 2)
      BY <2>8 DEF EndOf, MonthlyExpiration
    <3>3. Month(name.year, name.number + 1).end = FirstOf(name.year, name.number + 2)
      BY <3>1 DEF Month
    <3>4. QED
      BY <2>4, <2>8, <3>2, <3>3 DEF SeasonsLastTwice
  <2>9. CASE name.kind = "quarter"
    <3>1. name.number \in Nat
      BY <2>2, <2>9, NamesAssumption
    <3>2. 3 * (name.number - 1) + 1 + 6 = 3 * ((name.number + 1) + 1) - 2
      BY <3>1
    <3>3. EndOf(name) = FirstOf(name.year, 3 * (name.number - 1) + 1 + 6)
      <4>1. /\ ParseInt(name.number, IntMax) = name.number
            /\ ParsedYear(name.year) = name.year
        BY <2>1, <2>2, <2>9, NamesAssumption, IntMaxAssumption
        DEF Denotes, ParseInt, ParsedYear
      <4>2. QED
        BY <2>9, <4>1 DEF EndOf, QuarterlyExpiration
    <3>4. Quarter(name.year, name.number + 1).end
            = FirstOf(name.year, 3 * ((name.number + 1) + 1) - 2)
      BY DEF Quarter
    <3>5. QED
      BY <2>4, <2>9, <3>2, <3>3, <3>4 DEF SeasonsLastTwice
  <2>10. QED
    BY <2>1, <2>2, <2>5, <2>6, <2>7, <2>8, <2>9, NamesAssumption DEF Denotes
<1>2. QED
  BY <1>1, InvAlways, PTL

\* For all names, weeks included, the data outlasts the period, whichever weekday a
\* year begins on and wherever leap years fall (WeeklyExpiration, AddDate).
THEOREM DataOutlastsItsPeriodAlways == Spec => []DataOutlastsItsPeriod
<1>1. CalendarInv => DataOutlastsItsPeriod
  <2>1. SUFFICES ASSUME CalendarInv, Denotes(name) PROVE DataOutlastsItsPeriod
    BY DEF DataOutlastsItsPeriod
  <2>2. name \in Names /\ now \in Nat
    BY <2>1, IntMaxAssumption DEF CalendarInv
  <2>3. /\ Timed(name) /\ Period(name).end \in Int /\ EndOf(name) \in Int
        /\ EndOf(name) > Period(name).end
    BY <2>1, <2>2, EndBehindPeriod, EndIsInt
  <2>4. answer.time # -1 => answer.time = EndOf(name)
    BY <2>1, <2>3 DEF CalendarInv, Ends, Error
  <2>5. answer.error = "expired" => EndOf(name) <= now
    BY <2>1, <2>3 DEF CalendarInv, Ends, Error
  <2>6. QED
    BY <2>2, <2>3, <2>4, <2>5 DEF DataOutlastsItsPeriod
<1>2. QED
  BY <1>1, InvAlways, PTL

\* Whenever writes are made, they agree on the end of the season, until it is over
\* and for good then (GetExpireAt reads the clock anew for each).
THEOREM SeasonsStayAlways == Spec => SeasonsStay
<1>1. CalendarInv /\ [Next]_vars =>
        [answer # Ends(-1) => answer' \in {answer, Error("expired")}]_vars
  <2>1. SUFFICES ASSUME CalendarInv, Write, answer # Ends(-1)
                 PROVE  answer' \in {answer, Error("expired")}
    BY DEF Next, Later, vars
  <2>2. now \in Nat /\ name \in Names /\ answer' = GetExpireAt(name)
    BY <2>1, IntMaxAssumption DEF CalendarInv, Write
  <2>3. CASE Timed(name)
    <3>1. EndOf(name) \in Int /\ answer' = NotExpired(EndOf(name))
      BY <2>2, <2>3, EndIsInt, TimedAnswer
    <3>2. answer \in {Ends(EndOf(name)), Error("expired")}
      BY <2>1, <2>3 DEF CalendarInv
    <3>3. answer = Error("expired") => EndOf(name) <= now
      BY <2>1, <2>3 DEF CalendarInv, Ends, Error
    <3>4. QED
      BY <3>1, <3>2, <3>3 DEF NotExpired
  <2>4. CASE ~Timed(name)
    <3>1. answer' = Untimed(name)
      BY <2>2, <2>4, UntimedAnswer
    <3>2. answer = Untimed(name)
      BY <2>1, <2>4 DEF CalendarInv
    <3>3. QED
      BY <3>1, <3>2
  <2>5. QED
    BY <2>3, <2>4
<1>2. QED
  BY <1>1, InvAlways, PTL DEF Spec, SeasonsStay

=============================================================================
