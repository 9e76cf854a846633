------------------------------ MODULE MCPacTime ------------------------------
(* PacTime for TLC.  The clocks: the first and the last days of every month *)
(* of two years, the second leap,  late enough in the evening for GMT to   *)
(* be a day ahead; and the times around the bounds the calls name, at the    *)
(* end of a year.  The calls: every form with one, two, four or six          *)
(* arguments, the fields of a date in any order, years 64 bits of            *)
(* nanoseconds cannot count to, and some that are none.                      *)
EXTENDS PacTime

(* Days and weekdays since 1 January 2015, a Thursday.                       *)
DayNumber(y, m, d) ==
    LET before[k \in 1..m] == IF k = 1 THEN 0 ELSE before[k - 1] + DaysIn(y, k - 1)
    IN  365 * (y - 2015) + (IF y > 2016 THEN 1 ELSE 0) + before[m] + d - 1

Clock(y, m, d, h, min, s) ==
    [year |-> y, month |-> m, day |-> d, hour |-> h, minute |-> min, second |-> s,
     weekday |-> (DayNumber(y, m, d) + 4) % 7]

(* GMT is five hours ahead.                                                  *)
Tomorrow(y, m, d) == IF d < DaysIn(y, m) THEN <<y, m, d + 1>>
                     ELSE IF m < 12 THEN <<y, m + 1, 1>> ELSE <<y + 1, 1, 1>>
Both(y, m, d, h, min, s) ==
    [local |-> Clock(y, m, d, h, min, s),
     GMT |-> IF h < 19 THEN Clock(y, m, d, h + 5, min, s)
             ELSE LET t == Tomorrow(y, m, d) IN Clock(t[1], t[2], t[3], h - 19, min, s)]

MCClocks ==
    {Both(y, m, d, 22, 15, 30) : <<y, m, d>> \in
        {t \in (2015..2016) \X (1..12) \X {1, 3, 28, 29, 30, 31} : t[3] <= DaysIn(t[1], t[2])}}
    \cup {Both(2016, 12, 31, h, m, s) : h \in {0, 10, 23}, m \in {0, 30}, s \in {0, 15}}

Range(name, values) == {[name |-> name, args |-> args] : args \in values}
OrGmt(values) == values \cup {Append(args, Gmt) : args \in values}

Days   == {Number(1), Number(3), Number(29), Number(31)}
Months == {Month(1), Month(2), Month(3), Month(12)}
Years  == {Number(2015), Number(2016)}
DayMonth == Days \X Months \cup Months \X Days
FarYears == {Number(1500), Number(1700), Number(2250), Number(2300), Number(9999)}
HalfDates == {<<x>> : x \in Days \cup Months \cup Years \cup FarYears} \cup DayMonth \cup Years \X Months
          \cup {<<d, m, y>> : d \in {Number(29), Number(31)}, m \in {Month(2), Month(12)}, y \in Years}
          \cup {<<m, d, y>> : d \in {Number(29), Number(31)}, m \in {Month(2), Month(12)}, y \in Years}
DateArgs == HalfDates \cup {<< >>, <<Other>>, <<Number(3), Other>>}
            \cup UNION {{a \o b : a, b \in {h \in HalfDates : Len(h) = k}} : k \in 1..3}

TimeArgs == {<< >>, <<Other>>}
    \cup {<<Number(h)>> : h \in {0, 10, 23}}
    \cup {<<Number(h1), Number(h2)>> : h1, h2 \in {0, 9, 10, 23}}
    \cup {<<Number(h1), Number(m1), Number(h2), Number(m2)>> :
            h1, h2 \in {0, 10, 23}, m1, m2 \in {0, 30, 59}}
    \cup {<<Number(h1), Number(m1), Number(s1), Number(h2), Number(m2), Number(s2)>> :
            h1, h2 \in {10, 23}, m1, m2 \in {0, 30}, s1, s2 \in {0, 15, 59}}

WeekdayArgs == ({Weekday(d) : d \in 0..6} \cup {Other})
               \X ({Weekday(d) : d \in 0..6} \cup {Gmt, Missing, Other}) \X {Gmt, Missing}

MCCalls == Range("dateRange", OrGmt(DateArgs)) \cup Range("timeRange", OrGmt(TimeArgs))
           \cup Range("weekdayRange", WeekdayArgs)
=============================================================================
