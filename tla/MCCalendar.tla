------------------------------- MODULE MCCalendar -------------------------------
(* Names of fourteen years, in which the year begins on every weekday, leap or *)
(* not, and of the days about them; and some about the year 1000 and IntMax,   *)
(* which is small here, since the arithmetic of TLC stops at 32 bits too.      *)
EXTENDS Calendar

Years == 2015 .. 2028

Numbered(kind, numbers) ==
    [kind : {kind}, year : Years, number : numbers, digits : {2}]

Dates == [year : {2019, 2020}, month : {2, 12}, day : {1, 28, 29, 30, 31}]

SeasonNames ==
    Numbered("month", 1 .. 13) \cup Numbered("quarter", 1 .. 4) \cup Numbered("week", 1 .. 53)
    \cup [kind : {"week", "quarter"}, year : {0, 999, 1000, 2020},
           number : {0, 1, 8200, 59999, 60000, 60001}, digits : {5}]
    \cup [kind : {"month"}, year : {2020}, number : {1}, digits : {1}]
    \cup [kind : {"year"}, year : Years]
    \cup [kind : {"unix"}, from : {18000, 24853, 24855, 24857}, to : {18001, 24854, 24858}]
    \cup [kind : {"dates"}, from : Dates, to : Dates]
    \cup {[kind |-> "none"]}

\* 1 January 2015, 15 July 2020, 1 January 2021, 31 December 2028
SomeDays == {16436, 18458, 18628, 21549}

=============================================================================
