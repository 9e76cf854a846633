------------------------------ MODULE PacTime ------------------------------
(***************************************************************************)
(* The PAC predicates that ask for the time (pacfunc/pacfunc.go):          *)
(* weekdayRange, dateRange and timeRange.                                  *)
(*                                                                         *)
(* A reading of the clock is a record of calendar fields.  The clock has   *)
(* two, in the machine's zone and in GMT; they differ by a fixed offset,   *)
(* that is, no shift to or from daylight saving time happens within a      *)
(* range.  Fractions of a second are left out: every bound has now's own.  *)
(*                                                                         *)
(* An argument is what the code makes of its string: a number (Atoi        *)
(* succeeds), the name of a month or of a weekday, "GMT", nothing, or any  *)
(* other string.                                                           *)
(*                                                                         *)
(* Bounds: the years are 1 to LastYear, and no number in a dateRange is 0. *)
(***************************************************************************)
EXTENDS Integers, Sequences

CONSTANTS Clocks,   \* readings [local, GMT] at which the script may ask
          Calls,    \* the calls [name, args] it makes
          Nil

IsLeap(y) == y % 4 = 0 /\ (y % 100 = 0 => y % 400 = 0)
DaysIn(y, m) == IF m = 2 THEN IF IsLeap(y) THEN 29 ELSE 28
                ELSE IF m \in {4, 6, 9, 11} THEN 30 ELSE 31

Dated(form) == {r \in form : r.day <= DaysIn(r.year, r.month)}
Readings == Dated([year : Nat, month : 1..12, day : 1..31, hour : 0..23, minute : 0..59,
                   second : 0..59, weekday : 0..6])
Dates    == Dated([year : Nat, month : 1..12, day : 1..31])

LastYear == 9999

(* The days since 1 January 1970, in time.Date's calendar.                 *)
DaysBefore == <<0, 31, 59, 90, 120, 151, 181, 212, 243, 273, 304, 334>>
NewYear(y) == 365 * y + (y + 3) \div 4 - (y + 99) \div 100 + (y + 399) \div 400 - 719528
Day(date)  == NewYear(date.year) + DaysBefore[date.month] + date.day - 1
              + (IF date.month > 2 /\ IsLeap(date.year) THEN 1 ELSE 0)

Args == [is : {"number", "month", "weekday", "GMT", "missing", "other"}, value : Nat]

(* No zone is a day from GMT.                                              *)
ASSUME ClocksAssumption ==
    /\ Clocks \subseteq [local : Readings, GMT : Readings]
    /\ \A c \in Clocks : c.GMT.year \in 1..LastYear /\ Day(c.GMT) - Day(c.local) \in -1..1
ASSUME CallsAssumption ==
    \A c \in Calls : /\ c \in [name : {"weekdayRange", "dateRange", "timeRange"}, args : Seq(Args)]
                     /\ c.name = "weekdayRange" => Len(c.args) = 3
                     /\ c.name = "dateRange" =>
                          \A i \in 1..Len(c.args) :
                             c.args[i].is = "number" => c.args[i].value \in 1..LastYear
ASSUME NilAssumption == Nil \notin Calls

Number(n)  == [is |-> "number", value |-> n]
Month(n)   == [is |-> "month", value |-> n]
Weekday(n) == [is |-> "weekday", value |-> n]    \* Sunday is 0
Gmt        == [is |-> "GMT", value |-> 0]
Missing    == [is |-> "missing", value |-> 0]
Other      == [is |-> "other", value |-> 0]

VARIABLES clock,    \* what DefaultNower.Now() says
          call,     \* the call being evaluated, or Nil
          answer

vars == <<clock, call, answer>>

-----------------------------------------------------------------------------
(* The trailing "GMT" selects the reading and is no further argument.      *)
EndsInGmt(args) == args # << >> /\ args[Len(args)].is = "GMT"
Given(args)     == IF EndsInGmt(args) THEN SubSeq(args, 1, Len(args) - 1) ELSE args
Reading(gmt)    == IF gmt THEN clock.GMT ELSE clock.local

(* Bounds are swapped into order; the upper one belongs to the range ...   *)
Closed(a, n, b)   == IF b < a THEN b <= n /\ n <= a ELSE a <= n /\ n <= b

(* Mutant of HalfOpen: the upper bound belongs to the range.               *)
HalfOpenClosed(a, n, b) == IF b < a THEN b <= n /\ n <= a ELSE a <= n /\ n <= b

(* ... or does not.                                                        *)
HalfOpen(a, n, b) == IF b < a THEN b <= n /\ n < a ELSE a <= n /\ n < b

(* Mutant of SaysGmt: only the third argument may say GMT.                 *)
SaysGmtThird(wd2, gmt) == gmt.is = "GMT"

(* WeekdayRange: "GMT" may stand in the second or the third place.         *)
SaysGmt(wd2, gmt) == wd2.is = "GMT" \/ gmt.is = "GMT"

WeekdayRange(wd1, wd2, gmt) ==
    LET last == IF wd2.is \in {"GMT", "missing"} THEN wd1 ELSE wd2
    IN  /\ wd1.is = "weekday" /\ last.is = "weekday"
        /\ Closed(wd1.value, Reading(SaysGmt(wd2, gmt)).weekday, last.value)

-----------------------------------------------------------------------------
(* time.Date carries the days that a month does not have into the next     *)
(* one.  No day exceeds 31, so December carries nothing.                   *)
Normal(date) ==
    LET n == DaysIn(date.year, date.month)
    IN  IF date.day <= n THEN date ELSE [date EXCEPT !.day = @ - n, !.month = @ + 1]

(* What an argument of dateRange sets.                                     *)
Field(arg) == IF arg.is = "month" THEN "month" ELSE IF arg.value <= 31 THEN "day" ELSE "year"

(* Mutant of With: the field is set and nothing is carried.                *)
WithRaw(date, arg) == [date EXCEPT ![Field(arg)] = arg.value]

With(date, arg) == Normal([date EXCEPT ![Field(arg)] = arg.value])

(* A bound is now with one field after the other set.                      *)
Bound(now, half) ==
    LET date[i \in 0..Len(half)] == IF i = 0 THEN now ELSE With(date[i - 1], half[i])
    IN  date[Len(half)]

(* Seconds after midnight.                                                 *)
At(h, m, s) == 3600 * h + 60 * m + s

(* UnixNano counts nanoseconds in 64 bits.  The count passes from the      *)
(* largest to the smallest number at every odd multiple of 2^63, which is  *)
(* 106752 days less 763.145 seconds.                                       *)
Half == 106752

Passed(k, days, second) ==
    LET left == days - (2 * k - 1) * Half
    IN  \/ left > 0
        \/ left >= -1 /\ 86400000 * left + 1000 * second + 763145 * (2 * k - 1) >= 0

(* wraps: how often it has, on a date whose time is now's.  The count then *)
(* is of 2 * Half days fewer for each time, and of so many times 1526      *)
(* seconds more; those decide only between equal days.                     *)
UnixNano(now, date) ==
    LET days   == Day(clock.GMT) + Day(date) - Day(now)
        second == At(clock.GMT.hour, clock.GMT.minute, clock.GMT.second)
        about  == (days + Half) \div (2 * Half)
        wraps  == CHOOSE k \in about - 1..about + 1 :
                     Passed(k, days, second) /\ ~ Passed(k + 1, days, second)
    IN  [days |-> days - 2 * Half * wraps, wraps |-> wraps]

Earlier(a, b) == a.days < b.days \/ (a.days = b.days /\ a.wraps < b.wraps)

(* Mutant of ClosedDates: the bounds are taken as they come.               *)
ClosedDatesUnsorted(a, now, b) == ~ Earlier(now, a) /\ ~ Earlier(b, now)

ClosedDates(a, now, b) ==
    IF Earlier(b, a) THEN ~ Earlier(now, b) /\ ~ Earlier(a, now)
                     ELSE ~ Earlier(now, a) /\ ~ Earlier(b, now)

DateRange(args) ==
    LET now   == Reading(EndsInGmt(args))
        given == Given(args)
        n     == Len(given)
        nano(date) == UnixNano(now, date)
    IN  /\ args # << >>
        /\ \A i \in 1..n : given[i].is \in {"number", "month"}
        /\ IF n = 1 THEN now[Field(given[1])] = given[1].value
                    ELSE ClosedDates(nano(Bound(now, SubSeq(given, 1, n \div 2))), nano(now),
                                     nano(Bound(now, SubSeq(given, n \div 2 + 1, n))))

(* time.Date sets the second first; what it carries out of the minute and  *)
(* the hour is lost when those are set next, a carried day is not.         *)
TimeBound(now, h, m, s) == 86400 * (At(now.hour, now.minute, s) \div 86400) + At(h, m, s % 60)

TimeRange(args) ==
    LET now  == Reading(EndsInGmt(args))
        n    == Len(Given(args))
        v(i) == Given(args)[i].value
        From(s1, s2, middle) ==
            HalfOpen(TimeBound(now, v(1), v(2), s1),
                     At(now.hour, now.minute, now.second),
                     TimeBound(now, v(middle + 1), v(middle + 2), s2))
    IN  /\ \A i \in 1..n : Given(args)[i].is = "number"
        /\ CASE n = 1 -> now.hour = v(1)
             [] n = 2 -> HalfOpen(v(1), now.hour, v(2))
             [] n = 4 -> From(now.second, now.second, 2)
             [] n = 6 -> From(v(3), v(6), 3)
             [] OTHER -> FALSE

-----------------------------------------------------------------------------
Answer(c) ==
    CASE c.name = "weekdayRange" -> WeekdayRange(c.args[1], c.args[2], c.args[3])
      [] c.name = "dateRange"    -> DateRange(c.args)
      [] c.name = "timeRange"    -> TimeRange(c.args)

Init ==
    /\ clock \in Clocks
    /\ call = Nil
    /\ answer = FALSE

(* The script calls one of the three.                                      *)
Ask ==
    /\ call = Nil
    /\ \E c \in Calls : call' = c /\ answer' = Answer(c)
    /\ UNCHANGED clock

Return ==
    /\ call # Nil
    /\ call' = Nil
    /\ UNCHANGED <<clock, answer>>

Next == Ask \/ Return

Spec == Init /\ [][Next]_vars

-----------------------------------------------------------------------------
Between(a, n, b)     == (a <= n /\ n <= b) \/ (b <= n /\ n <= a)
BetweenUpTo(a, n, b) == (a <= n /\ n < b) \/ (b <= n /\ n < a)

LegalDateArg(arg) == \/ arg.is = "month" /\ arg.value \in 1..12
                     \/ arg.is = "number" /\ arg.value \in Nat \ {0}

(* The two halves of dateRange's arguments and the clock they are read on. *)
Halves(args) == LET given == Given(args)
                    n     == Len(given)
                IN  {SubSeq(given, 1, n \div 2), SubSeq(given, n \div 2 + 1, n)}

(* The script's call and the answer it has; the bounds dateRange compares  *)
(* now with are days of the calendar, whatever was set in whichever order. *)
TypeOK ==
    /\ clock \in [local : Readings, GMT : Readings]
    /\ call # Nil => call.args \in Seq(Args)
    /\ answer \in BOOLEAN
    /\ call # Nil /\ call.name = "dateRange" =>
         \A half \in Halves(call.args) :
            Len(half) <= 3 /\ (\A i \in 1..Len(half) : LegalDateArg(half[i])) =>
                Bound(Reading(EndsInGmt(call.args)), half) \in Readings

(* weekdayRange of one or two days says whether today, on the clock that   *)
(* GMT in either place chooses, is that day or lies between the two in the *)
(* order of the week, whichever of them is named first.                    *)
WeekdayMeansBetween ==
    call # Nil /\ call.name = "weekdayRange" =>
        LET days(set) == {call.args[i].value : i \in {k \in set : call.args[k].is = "weekday"}}
            today     == Reading(\E i \in 2..3 : call.args[i].is = "GMT").weekday
        IN  call.args[1].is = "weekday" /\ call.args[2].is \in {"weekday", "GMT", "missing"} =>
              (answer <=> \E a, b \in days({1, 2}) : a <= today /\ today <= b)

(* What a half of dateRange's arguments says, and today otherwise.         *)
Names(half, f) == \E i \in 1..Len(half) : Field(half[i]) = f
Named(now, half) ==
    [f \in {"year", "month", "day"} |->
        IF Names(half, f) THEN half[CHOOSE i \in 1..Len(half) : Field(half[i]) = f].value
                          ELSE now[f]]

(* Each field at most once, and no 30 February where day and month are     *)
(* both named.                                                             *)
LegalHalf(now, half) ==
    /\ \A i \in 1..Len(half) : LegalDateArg(half[i])
    /\ \A i, j \in 1..Len(half) : Field(half[i]) = Field(half[j]) => i = j
    /\ Names(half, "day") /\ Names(half, "month") => Named(now, half) \in Dates

Stamp(date) == 400 * date.year + 32 * date.month + date.day

(* dateRange of two days, months, years or dates says whether today lies   *)
(* between them in the order of the calendar, whichever is named first and *)
(* in whichever order its fields stand: that the bounds are made by        *)
(* setting one field of today after the other, a day too many for the      *)
(* month on the way carried into the next, never shows in the answer.      *)
(* That is so of the years 64 bits of nanoseconds count in order; with     *)
(* others it may not be: dateRange(2015, 9999) is false in 2016.           *)
Counted == 1678..2261

DateMeansBetween ==
    call # Nil /\ call.name = "dateRange" =>
        LET given == Given(call.args)
            now   == Reading(EndsInGmt(call.args))
            n     == Len(given)
            a     == SubSeq(given, 1, n \div 2)
            b     == SubSeq(given, n \div 2 + 1, n)
        IN  /\ n > 0 /\ n % 2 = 0 /\ LegalHalf(now, a) /\ LegalHalf(now, b)
            /\ {now.year, Named(now, a).year, Named(now, b).year} \subseteq Counted
            => (answer <=> Between(Stamp(Named(now, a)), Stamp(now), Stamp(Named(now, b))))

(* timeRange of two hours, minutes or seconds of the day says whether now  *)
(* is at or after the earlier and before the later one, to the precision   *)
(* they are given in; an hour on its own is all of that hour.              *)
TimeMeansBetween ==
    call # Nil /\ call.name = "timeRange" =>
        LET given == Given(call.args)
            now   == Reading(EndsInGmt(call.args))
            v(i)  == given[i].value
        IN  (\A i \in 1..Len(given) : given[i].is = "number" /\ v(i) \in 0..59) =>
              /\ Len(given) = 1 => (answer <=> BetweenUpTo(v(1), now.hour, v(1) + 1))
              /\ Len(given) = 2 => (answer <=> BetweenUpTo(v(1), now.hour, v(2)))
              /\ Len(given) = 4 =>
                   (answer <=> BetweenUpTo(60 * v(1) + v(2), 60 * now.hour + now.minute,
                                           60 * v(3) + v(4)))
              /\ Len(given) = 6 =>
                   (answer <=> BetweenUpTo(At(v(1), v(2), v(3)), At(now.hour, now.minute, now.second),
                                           At(v(4), v(5), v(6))))

(* What the comment says (pacfunc.go:232): dateRange of one date is true   *)
(* during that date.  It is not: an even number of arguments is two halves,*)
(* so (3, JAN) is everything from the 3rd of this month to this day of     *)
(* January.                                                                *)
OneDateMeansThatDate ==
    call # Nil /\ call.name = "dateRange" =>
        LET given == Given(call.args)
            now   == Reading(EndsInGmt(call.args))
        IN  LegalHalf(now, given) => (answer => Stamp(now) = Stamp(Named(now, given)))
=============================================================================
