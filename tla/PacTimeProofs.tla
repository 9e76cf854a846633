--------------------------- MODULE PacTimeProofs ---------------------------
(***************************************************************************)
(* What the three predicates answer, for every reading of the clock and    *)
(* every call.                                                             *)
(***************************************************************************)
EXTENDS PacTime, TLAPS

(* Months have 28 to 31 days, and December has 31.                         *)
LEMMA DaysInBounds ==
    \A y \in Nat, m \in 1..12 : DaysIn(y, m) \in 28..31 /\ DaysIn(y, 12) = 31
  BY DEF DaysIn

ReadingShape == [year : Nat, month : 1..12, day : 1..31, hour : 0..23, minute : 0..59,
                 second : 0..59, weekday : 0..6]

LEMMA ReadingFacts ==
    ASSUME NEW r
    PROVE  r \in Readings <=> r \in ReadingShape /\ r.day <= DaysIn(r.year, r.month)
  BY DEF Readings, Dated, ReadingShape

(* What time.Date makes of a day the month may not have.                   *)
LEMMA NormalReading ==
    ASSUME NEW s \in ReadingShape
    PROVE  /\ Normal(s) \in Readings
           /\ Normal(s).year = s.year
           /\ s.day <= DaysIn(s.year, s.month) =>
                Normal(s).month = s.month /\ Normal(s).day = s.day
           /\ s.day > DaysIn(s.year, s.month) =>
                /\ Normal(s).month = s.month + 1
                /\ Normal(s).day = s.day - DaysIn(s.year, s.month)
  <1> DEFINE n == DaysIn(s.year, s.month)
  <1>1. s.year \in Nat /\ s.month \in 1..12 /\ s.day \in 1..31
    BY DEF ReadingShape
  <1>2. n \in 28..31 /\ (s.month = 12 => n = 31)
    BY <1>1, DaysInBounds
  <1>3. CASE s.day <= n
    <2>1. Normal(s) = s
      BY <1>3 DEF Normal
    <2> QED  BY <1>1, <1>2, <1>3, <2>1, ReadingFacts
  <1>4. CASE s.day > n
    <2>1. PICK d \in 1..31, m \in 1..12 : d = s.day - n /\ d <= 3 /\ m = s.month + 1
      BY <1>1, <1>2, <1>4
    <2> DEFINE t == [s EXCEPT !.day = d, !.month = m]
    <2>2. Normal(s) = t
      BY <1>1, <1>2, <1>4, <2>1 DEF Normal
    <2>3. t \in ReadingShape /\ t.year = s.year /\ t.month = m /\ t.day = d
      BY DEF ReadingShape
    <2> HIDE DEF t, n
    <2>4. DaysIn(t.year, t.month) \in 28..31
      BY <1>1, <2>3, DaysInBounds
    <2>5. t \in Readings
      BY <2>1, <2>3, <2>4, ReadingFacts
    <2> QED  BY <1>1, <1>2, <1>4, <2>1, <2>2, <2>3, <2>5 DEF n
  <1> QED  BY <1>1, <1>2, <1>3, <1>4

(* What setting one field does.                                            *)
LEMMA WithField ==
    ASSUME NEW r \in Readings, NEW arg, LegalDateArg(arg)
    PROVE  /\ Field(arg) \in {"day", "month", "year"}
           /\ Field(arg) = "day"   => arg.value \in 1..31
           /\ Field(arg) = "month" => arg.value \in 1..12
           /\ Field(arg) = "year"  => arg.value \in Nat
           /\ \E s \in ReadingShape :
                 /\ s.year  = IF Field(arg) = "year"  THEN arg.value ELSE r.year
                 /\ s.month = IF Field(arg) = "month" THEN arg.value ELSE r.month
                 /\ s.day   = IF Field(arg) = "day"   THEN arg.value ELSE r.day
                 /\ With(r, arg) = Normal(s)
  <1>1. r \in ReadingShape
    BY ReadingFacts
  <1>2. /\ Field(arg) \in {"day", "month", "year"}
        /\ Field(arg) = "day"   => arg.value \in 1..31
        /\ Field(arg) = "month" => arg.value \in 1..12
        /\ Field(arg) = "year"  => arg.value \in Nat
    BY DEF LegalDateArg, Field
  <1> DEFINE s == [r EXCEPT ![Field(arg)] = arg.value]
  <1>3. With(r, arg) = Normal(s)
    BY DEF With
  <1>4. CASE Field(arg) = "day"
    <2>1. s = [r EXCEPT !.day = arg.value]  BY <1>4
    <2>2. s \in ReadingShape /\ s.year = r.year /\ s.month = r.month /\ s.day = arg.value
      BY <1>1, <1>2, <1>4, <2>1 DEF ReadingShape
    <2> QED  BY <1>2, <1>3, <1>4, <2>2
  <1>5. CASE Field(arg) = "month"
    <2>1. s = [r EXCEPT !.month = arg.value]  BY <1>5
    <2>2. s \in ReadingShape /\ s.year = r.year /\ s.month = arg.value /\ s.day = r.day
      BY <1>1, <1>2, <1>5, <2>1 DEF ReadingShape
    <2> QED  BY <1>2, <1>3, <1>5, <2>2
  <1>6. CASE Field(arg) = "year"
    <2>1. s = [r EXCEPT !.year = arg.value]  BY <1>6
    <2>2. s \in ReadingShape /\ s.year = arg.value /\ s.month = r.month /\ s.day = r.day
      BY <1>1, <1>2, <1>6, <2>1 DEF ReadingShape
    <2> QED  BY <1>2, <1>3, <1>6, <2>2
  <1> QED  BY <1>2, <1>4, <1>5, <1>6

(* The same, as numbers.                                                   *)
Carried(y, m, d, Y, M, D) ==
    /\ Y \in Nat /\ M \in 1..12 /\ D \in 1..31
    /\ Y = y
    /\ d <= DaysIn(y, m) => M = m /\ D = d
    /\ d > DaysIn(y, m)  => M = m + 1 /\ D = d - DaysIn(y, m)

Sets(f, v, y, m, d, Y, M, D) ==
    /\ f \in {"day", "month", "year"}
    /\ f = "day"   => v \in 1..31 /\ Carried(y, m, v, Y, M, D)
    /\ f = "month" => v \in 1..12 /\ Carried(y, v, d, Y, M, D)
    /\ f = "year"  => v \in Nat /\ Carried(v, m, d, Y, M, D)

LEMMA WithSets ==
    ASSUME NEW r \in Readings, NEW arg, LegalDateArg(arg), NEW b, b = With(r, arg)
    PROVE  /\ b \in Readings
           /\ Sets(Field(arg), arg.value, r.year, r.month, r.day, b.year, b.month, b.day)
  <1>1. PICK s \in ReadingShape :
                 /\ s.year  = IF Field(arg) = "year"  THEN arg.value ELSE r.year
                 /\ s.month = IF Field(arg) = "month" THEN arg.value ELSE r.month
                 /\ s.day   = IF Field(arg) = "day"   THEN arg.value ELSE r.day
                 /\ b = Normal(s)
    BY WithField
  <1>2. b \in Readings
    BY <1>1, NormalReading
  <1>3. b.year \in Nat /\ b.month \in 1..12 /\ b.day \in 1..31
    BY <1>2, ReadingFacts DEF ReadingShape
  <1>4. Carried(s.year, s.month, s.day, b.year, b.month, b.day)
    BY <1>1, <1>3, NormalReading DEF Carried
  <1> QED  BY <1>1, <1>2, <1>4, WithField DEF Sets

(* The loop over a half, written out.                                      *)
LEMMA BoundUnrolled ==
    ASSUME NEW now, NEW half, Len(half) \in 0..3
    PROVE  /\ Len(half) = 0 => Bound(now, half) = now
           /\ Len(half) = 1 => Bound(now, half) = With(now, half[1])
           /\ Len(half) = 2 => Bound(now, half) = With(With(now, half[1]), half[2])
           /\ Len(half) = 3 =>
                Bound(now, half) = With(With(With(now, half[1]), half[2]), half[3])
  <1> DEFINE IsDate(f) == f = [i \in 0..Len(half) |-> IF i = 0 THEN now ELSE With(f[i - 1], half[i])]
             date == CHOOSE f : IsDate(f)
             b1 == With(now, half[1])
             b2 == With(b1, half[2])
             b3 == With(b2, half[3])
             g  == [i \in 0..Len(half) |-> IF i = 0 THEN now ELSE IF i = 1 THEN b1
                                          ELSE IF i = 2 THEN b2 ELSE b3]
  <1>1. Bound(now, half) = date[Len(half)]
    BY DEF Bound
  <1>2. IsDate(g)
    <2> SUFFICES \A i \in 0..Len(half) : g[i] = IF i = 0 THEN now ELSE With(g[i - 1], half[i])
      OBVIOUS
    <2> TAKE i \in 0..Len(half)
    <2> HIDE DEF b1, b2, b3
    <2>1. g[0] = now /\ (i = 1 => g[i] = b1) /\ (i = 2 => g[i] = b2) /\ (i = 3 => g[i] = b3)
      OBVIOUS
    <2>2. i = 1 => g[i - 1] = now
      OBVIOUS
    <2>3. i = 2 => g[i - 1] = b1
      OBVIOUS
    <2>4. i = 3 => g[i - 1] = b2
      OBVIOUS
    <2>5. \A k \in 0..3 : 0..k \subseteq 0..3
      OBVIOUS
    <2>6. i \in 0..3
      BY <2>5
    <2> HIDE DEF g
    <2> QED  BY <2>1, <2>2, <2>3, <2>4, <2>6 DEF b1, b2, b3
  <1>3. IsDate(date)
    <2> HIDE DEF g
    <2> QED  BY <1>2
  <1> HIDE DEF date
  <1>4. /\ date[0] = now
        /\ Len(half) >= 1 => date[1] = With(date[0], half[1])
        /\ Len(half) >= 2 => date[2] = With(date[1], half[2])
        /\ Len(half) >= 3 => date[3] = With(date[2], half[3])
    BY <1>3
  <1> HIDE DEF b1, b2, b3, g
  <1>5. CASE Len(half) = 0  BY <1>1, <1>4, <1>5
  <1>6. CASE Len(half) = 1  BY <1>1, <1>4, <1>6
  <1>7. CASE Len(half) = 2  BY <1>1, <1>4, <1>7
  <1>8. CASE Len(half) = 3  BY <1>1, <1>4, <1>8
  <1> QED  BY <1>5, <1>6, <1>7, <1>8

(* What a half names, where no field is named twice.                       *)
LEMMA NamedFields ==
    ASSUME NEW now, NEW half, Len(half) \in 0..3, LegalHalf(now, half)
    PROVE  /\ \A i \in 1..Len(half) : Field(half[i]) \in {"year", "month", "day"} /\
                 Named(now, half)[Field(half[i])] = half[i].value
           /\ \A f \in {"year", "month", "day"} :
                 ~ Names(half, f) => Named(now, half)[f] = now[f]
  <1>1. \A f \in {"year", "month", "day"} : Named(now, half)[f] =
          IF Names(half, f) THEN half[CHOOSE i \in 1..Len(half) : Field(half[i]) = f].value
                            ELSE now[f]
    BY DEF Named
  <1>2. ASSUME NEW i \in 1..Len(half)
        PROVE  Field(half[i]) \in {"year", "month", "day"} /\
               Named(now, half)[Field(half[i])] = half[i].value
    <2> DEFINE f == Field(half[i])
               j == CHOOSE k \in 1..Len(half) : Field(half[k]) = f
    <2>1. f \in {"year", "month", "day"}
      BY DEF Field
    <2>2. j \in 1..Len(half) /\ Field(half[j]) = f
      OBVIOUS
    <2>3. j = i
      BY <2>2 DEF LegalHalf
    <2>4. Names(half, f)
      BY DEF Names
    <2> QED  BY <1>1, <2>1, <2>3, <2>4
  <1> QED  BY <1>1, <1>2

(* Where a date lies from now.                                             *)
SameSide(y, m, d, Y, M, D, YY, MM, DD) ==
    LET now   == 400 * y + 32 * m + d
        bound == 400 * Y + 32 * M + D
        named == 400 * YY + 32 * MM + DD
    IN  /\ bound < now <=> named < now
        /\ bound > now <=> named > now

SameSideOf(now, b, nm) ==
    SameSide(now.year, now.month, now.day, b.year, b.month, b.day, nm.year, nm.month, nm.day)

(* A date P-Q-R that names one, two or three fields and now's others, and  *)
(* the one that setting them one after the other makes of now.             *)
Says(f, v, P, Q, R) ==
    (f = "year" => P = v) /\ (f = "month" => Q = v) /\ (f = "day" => R = v)

LEMMA SideOfOne ==
    ASSUME NEW y \in Nat, NEW m \in 1..12, NEW d \in 1..31, d <= DaysIn(y, m),
           NEW f1, NEW v1, NEW Y1, NEW M1, NEW D1, Sets(f1, v1, y, m, d, Y1, M1, D1),
           NEW P, NEW Q, NEW R, Says(f1, v1, P, Q, R),
           f1 # "year" => P = y, f1 # "month" => Q = m, f1 # "day" => R = d
    PROVE  SameSide(y, m, d, Y1, M1, D1, P, Q, R)
  <1>1. CASE f1 = "day"
    BY <1>1, DaysInBounds DEF Sets, Says, Carried, SameSide
  <1>2. CASE f1 = "month"
    BY <1>2, DaysInBounds DEF Sets, Says, Carried, SameSide
  <1>3. CASE f1 = "year"
    BY <1>3, DaysInBounds DEF Sets, Says, Carried, SameSide
  <1> QED  BY <1>1, <1>2, <1>3 DEF Sets

LEMMA SideOfTwo ==
    ASSUME NEW y \in Nat, NEW m \in 1..12, NEW d \in 1..31, d <= DaysIn(y, m),
           NEW f1, NEW v1, NEW Y1, NEW M1, NEW D1, Sets(f1, v1, y, m, d, Y1, M1, D1),
           NEW f2, NEW v2, NEW Y2, NEW M2, NEW D2, Sets(f2, v2, Y1, M1, D1, Y2, M2, D2),
           f1 # f2,
           NEW P, NEW Q, NEW R, Says(f1, v1, P, Q, R), Says(f2, v2, P, Q, R),
           f1 # "year" /\ f2 # "year" => P = y,
           f1 # "month" /\ f2 # "month" => Q = m,
           f1 # "day" /\ f2 # "day" => R = d,
           {"day", "month"} = {f1, f2} => R <= DaysIn(P, Q)
    PROVE  SameSide(y, m, d, Y2, M2, D2, P, Q, R)
  <1>1. CASE f1 = "day" /\ f2 = "month"
    BY <1>1, DaysInBounds DEF Sets, Says, Carried, SameSide
  <1>2. CASE f1 = "day" /\ f2 = "year"
    BY <1>2, DaysInBounds DEF Sets, Says, Carried, SameSide
  <1>3. CASE f1 = "month" /\ f2 = "day"
    BY <1>3, DaysInBounds DEF Sets, Says, Carried, SameSide
  <1>4. CASE f1 = "month" /\ f2 = "year"
    BY <1>4, DaysInBounds DEF Sets, Says, Carried, SameSide
  <1>5. CASE f1 = "year" /\ f2 = "day"
    BY <1>5, DaysInBounds DEF Sets, Says, Carried, SameSide
  <1>6. CASE f1 = "year" /\ f2 = "month"
    BY <1>6, DaysInBounds DEF Sets, Says, Carried, SameSide
  <1> QED  BY <1>1, <1>2, <1>3, <1>4, <1>5, <1>6 DEF Sets

LEMMA SideOfThree ==
    ASSUME NEW y \in Nat, NEW m \in 1..12, NEW d \in 1..31, d <= DaysIn(y, m),
           NEW f1, NEW v1, NEW Y1, NEW M1, NEW D1, Sets(f1, v1, y, m, d, Y1, M1, D1),
           NEW f2, NEW v2, NEW Y2, NEW M2, NEW D2, Sets(f2, v2, Y1, M1, D1, Y2, M2, D2),
           NEW f3, NEW v3, NEW Y3, NEW M3, NEW D3, Sets(f3, v3, Y2, M2, D2, Y3, M3, D3),
           f1 # f2, f1 # f3, f2 # f3,
           NEW P, NEW Q, NEW R, R <= DaysIn(P, Q),
           Says(f1, v1, P, Q, R), Says(f2, v2, P, Q, R), Says(f3, v3, P, Q, R)
    PROVE  SameSide(y, m, d, Y3, M3, D3, P, Q, R)
  <1>1. CASE f1 = "day" /\ f2 = "month" /\ f3 = "year"
    BY <1>1, DaysInBounds DEF Sets, Says, Carried, SameSide
  <1>2. CASE f1 = "day" /\ f2 = "year" /\ f3 = "month"
    BY <1>2, DaysInBounds DEF Sets, Says, Carried, SameSide
  <1>3. CASE f1 = "month" /\ f2 = "day" /\ f3 = "year"
    BY <1>3, DaysInBounds DEF Sets, Says, Carried, SameSide
  <1>4. CASE f1 = "month" /\ f2 = "year" /\ f3 = "day"
    BY <1>4, DaysInBounds DEF Sets, Says, Carried, SameSide
  <1>5. CASE f1 = "year" /\ f2 = "day" /\ f3 = "month"
    <2>1. /\ P \in Nat /\ Q \in 1..12 /\ R \in 1..31
          /\ Carried(P, m, d, Y1, M1, D1) /\ Carried(Y1, M1, R, Y2, M2, D2)
          /\ Carried(Y2, Q, D2, Y3, M3, D3)
      BY <1>5 DEF Sets, Says
    <2>2. CASE P = y
      BY <2>1, <2>2, DaysInBounds DEF Carried, SameSide
    <2>3. CASE P # y
      BY <2>1, <2>3 DEF Carried, SameSide
    <2> QED  BY <2>2, <2>3
  <1>6. CASE f1 = "year" /\ f2 = "month" /\ f3 = "day"
    <2>1. /\ P \in Nat /\ Q \in 1..12 /\ R \in 1..31
          /\ Carried(P, m, d, Y1, M1, D1) /\ Carried(Y1, Q, D1, Y2, M2, D2)
          /\ Carried(Y2, M2, R, Y3, M3, D3)
      BY <1>6 DEF Sets, Says
    <2>2. CASE P = y
      BY <2>1, <2>2, DaysInBounds DEF Carried, SameSide
    <2>3. CASE P # y
      BY <2>1, <2>3 DEF Carried, SameSide
    <2> QED  BY <2>2, <2>3
  <1> QED  BY <1>1, <1>2, <1>3, <1>4, <1>5, <1>6 DEF Sets

LEMMA NowFields ==
    ASSUME NEW now \in Readings
    PROVE  \E y \in Nat, m \in 1..12, d \in 1..31 :
              now.year = y /\ now.month = m /\ now.day = d /\ d <= DaysIn(y, m)
  BY ReadingFacts DEF ReadingShape

(* Every bound is a day of the calendar.                                   *)
LEMMA BoundIsReading ==
    ASSUME NEW now \in Readings, NEW half, Len(half) \in 0..3,
           \A i \in 1..Len(half) : LegalDateArg(half[i])
    PROVE  Bound(now, half) \in Readings
  <1>1. \A r \in Readings : \A i \in 1..Len(half) : With(r, half[i]) \in Readings
    BY WithSets
  <1>2. CASE Len(half) = 0  BY <1>2, BoundUnrolled
  <1>3. CASE Len(half) = 1  BY <1>1, <1>3, BoundUnrolled
  <1>4. CASE Len(half) = 2
    <2>1. 1 \in 1..Len(half) /\ 2 \in 1..Len(half)  BY <1>4
    <2> QED  BY <1>1, <1>4, <2>1, BoundUnrolled
  <1>5. CASE Len(half) = 3
    <2>1. 1 \in 1..Len(half) /\ 2 \in 1..Len(half) /\ 3 \in 1..Len(half)  BY <1>5
    <2> QED  BY <1>1, <1>5, <2>1, BoundUnrolled
  <1> QED  BY <1>2, <1>3, <1>4, <1>5

(* It lies on the side of now the half names, and in the year.             *)
LEMMA BoundSide ==
    ASSUME NEW now \in Readings, NEW half, Len(half) \in 1..3, LegalHalf(now, half)
    PROVE  /\ SameSideOf(now, Bound(now, half), Named(now, half))
           /\ Bound(now, half).year = Named(now, half).year
  <1>1. PICK y \in Nat, m \in 1..12, d \in 1..31 :
              now.year = y /\ now.month = m /\ now.day = d /\ d <= DaysIn(y, m)
    BY NowFields
  <1>2. PICK P, Q, R : /\ P = Named(now, half).year
                       /\ Q = Named(now, half).month
                       /\ R = Named(now, half).day
    OBVIOUS
  <1> DEFINE f(i) == Field(half[i])
             v(i) == half[i].value
  <1>3. \A i \in 1..Len(half) : LegalDateArg(half[i]) /\ Says(f(i), v(i), P, Q, R)
    BY <1>2, NamedFields DEF LegalHalf, Says
  <1>4. \A i, j \in 1..Len(half) : i # j => f(i) # f(j)
    BY DEF LegalHalf
  <1>5. Names(half, "day") /\ Names(half, "month") => R <= DaysIn(P, Q)
    BY <1>2 DEF LegalHalf, Dates, Dated
  <1>6. /\ Names(half, "year") \/ P = y
        /\ Names(half, "month") \/ Q = m
        /\ Names(half, "day") \/ R = d
    BY <1>1, <1>2, NamedFields
  <1>7. \A g \in {"year", "month", "day"} : Names(half, g) <=> \E i \in 1..Len(half) : f(i) = g
    BY DEF Names
  <1>8. PICK b1 : b1 = With(now, half[1])
    OBVIOUS
  <1>9. PICK b2 : b2 = With(b1, half[2])
    OBVIOUS
  <1>10. PICK b3 : b3 = With(b2, half[3])
    OBVIOUS
  <1>11. b1 \in Readings /\ Sets(f(1), v(1), y, m, d, b1.year, b1.month, b1.day)
    BY <1>1, <1>3, <1>8, WithSets
  <1>12. Len(half) >= 2 =>
           b2 \in Readings /\ Sets(f(2), v(2), b1.year, b1.month, b1.day, b2.year, b2.month, b2.day)
    BY <1>3, <1>9, <1>11, WithSets
  <1>13. Len(half) = 3 =>
           b3 \in Readings /\ Sets(f(3), v(3), b2.year, b2.month, b2.day, b3.year, b3.month, b3.day)
    <2> SUFFICES ASSUME Len(half) = 3
                 PROVE  b3 \in Readings /\ Sets(f(3), v(3), b2.year, b2.month, b2.day,
                                               b3.year, b3.month, b3.day)
      OBVIOUS
    <2>1. LegalDateArg(half[3])
      BY <1>3
    <2>2. b2 \in Readings
      BY <1>12
    <2> QED  BY <1>10, <2>1, <2>2, WithSets
  <1> HIDE DEF f, v
  <1>14. CASE Len(half) = 1
    <2>1. 1..Len(half) = {1}  BY <1>14
    <2>2. SameSide(y, m, d, b1.year, b1.month, b1.day, P, Q, R)
      BY <1>1, <1>3, <1>6, <1>7, <1>11, <2>1, SideOfOne
    <2>3. b1.year = P
      BY <1>3, <1>6, <1>7, <1>11, <2>1 DEF Sets, Carried, Says
    <2> QED  BY <1>1, <1>2, <1>8, <1>14, <2>2, <2>3, BoundUnrolled DEF SameSideOf
  <1>15. CASE Len(half) = 2
    <2>1. 1..Len(half) = {1, 2}  BY <1>15
    <2>2. f(1) # f(2)
      BY <1>4, <2>1
    <2>3. {"day", "month"} = {f(1), f(2)} => R <= DaysIn(P, Q)
      BY <1>5, <1>7, <2>1
    <2>4. /\ f(1) # "year" /\ f(2) # "year" => P = y
          /\ f(1) # "month" /\ f(2) # "month" => Q = m
          /\ f(1) # "day" /\ f(2) # "day" => R = d
      BY <1>6, <1>7, <2>1
    <2>5. Says(f(1), v(1), P, Q, R) /\ Says(f(2), v(2), P, Q, R)
      BY <1>3, <2>1
    <2>6. SameSide(y, m, d, b2.year, b2.month, b2.day, P, Q, R)
      <3>1. /\ d <= DaysIn(y, m)
            /\ Sets(f(1), v(1), y, m, d, b1.year, b1.month, b1.day)
            /\ Sets(f(2), v(2), b1.year, b1.month, b1.day, b2.year, b2.month, b2.day)
        BY <1>1, <1>11, <1>12, <1>15
      <3> QED  BY <3>1, <2>2, <2>3, <2>4, <2>5, SideOfTwo
    <2>7. b2.year = P
      <3>1. /\ Sets(f(1), v(1), y, m, d, b1.year, b1.month, b1.day)
            /\ Sets(f(2), v(2), b1.year, b1.month, b1.day, b2.year, b2.month, b2.day)
        BY <1>11, <1>12, <1>15
      <3> QED  BY <2>2, <2>4, <2>5, <3>1 DEF Sets, Carried, Says
    <2> QED  BY <1>1, <1>2, <1>8, <1>9, <1>15, <2>6, <2>7, BoundUnrolled DEF SameSideOf
  <1>16. CASE Len(half) = 3
    <2>1. 1..Len(half) = {1, 2, 3}  BY <1>16
    <2>2. f(1) # f(2) /\ f(1) # f(3) /\ f(2) # f(3)
      BY <1>4, <2>1
    <2>3. \A i \in {1, 2, 3} : f(i) \in {"day", "month", "year"}
      BY <1>11, <1>12, <1>13, <1>16 DEF Sets
    <2>4. "day" \in {f(1), f(2), f(3)} /\ "month" \in {f(1), f(2), f(3)}
      BY <2>2, <2>3
    <2>5. R <= DaysIn(P, Q)
      BY <1>5, <1>7, <2>1, <2>4
    <2>6. Says(f(1), v(1), P, Q, R) /\ Says(f(2), v(2), P, Q, R) /\ Says(f(3), v(3), P, Q, R)
      BY <1>3, <2>1
    <2>7. SameSide(y, m, d, b3.year, b3.month, b3.day, P, Q, R)
      <3>1. /\ d <= DaysIn(y, m)
            /\ Sets(f(1), v(1), y, m, d, b1.year, b1.month, b1.day)
            /\ Sets(f(2), v(2), b1.year, b1.month, b1.day, b2.year, b2.month, b2.day)
            /\ Sets(f(3), v(3), b2.year, b2.month, b2.day, b3.year, b3.month, b3.day)
        BY <1>1, <1>11, <1>12, <1>13, <1>16
      <3> QED  BY <3>1, <2>2, <2>5, <2>6, SideOfThree
    <2>8. b3.year = P
      <3>1. /\ Sets(f(1), v(1), y, m, d, b1.year, b1.month, b1.day)
            /\ Sets(f(2), v(2), b1.year, b1.month, b1.day, b2.year, b2.month, b2.day)
            /\ Sets(f(3), v(3), b2.year, b2.month, b2.day, b3.year, b3.month, b3.day)
        BY <1>11, <1>12, <1>13, <1>16
      <3>2. "year" \in {f(1), f(2), f(3)}
        BY <2>2, <2>3
      <3> QED  BY <2>2, <2>6, <3>1, <3>2 DEF Sets, Carried, Says
    <2> QED  BY <1>1, <1>2, <1>8, <1>9, <1>10, <1>16, <2>7, <2>8, BoundUnrolled DEF SameSideOf
  <1> QED  BY <1>14, <1>15, <1>16

-----------------------------------------------------------------------------
(* The answer is the one to the call, by the clock at the time: inductive, *)
(* since the clock stands still while a predicate is evaluated.            *)
Answered ==
    /\ clock \in Clocks
    /\ call = Nil \/ (call \in Calls /\ answer = Answer(call))
    /\ answer \in BOOLEAN

LEMMA ReadingType ==
    ASSUME Answered, NEW gmt
    PROVE  Reading(gmt) \in Readings
  BY ClocksAssumption DEF Answered, Reading

LEMMA CallType ==
    ASSUME NEW c \in Calls
    PROVE  /\ c.name \in {"weekdayRange", "dateRange", "timeRange"}
           /\ c.args \in Seq(Args)
           /\ c.name = "weekdayRange" => Len(c.args) = 3
  BY CallsAssumption

LEMMA GivenType ==
    ASSUME NEW args \in Seq(Args)
    PROVE  Given(args) \in Seq(Args) /\ Len(Given(args)) \in Nat
  <1>1. CASE EndsInGmt(args)
    <2>1. Len(args) - 1 \in 0..Len(args) /\ Len(args) \in Nat
      BY <1>1 DEF EndsInGmt
    <2> QED  BY <1>1, <2>1 DEF Given
  <1>2. CASE ~ EndsInGmt(args)
    BY <1>2 DEF Given
  <1> QED  BY <1>1, <1>2

LEMMA AnswerIsBoolean ==
    ASSUME NEW c \in Calls
    PROVE  Answer(c) \in BOOLEAN
  <1>1. \A a, b, g : WeekdayRange(a, b, g) \in BOOLEAN
    BY DEF WeekdayRange
  <1>2. \A args : DateRange(args) \in BOOLEAN
    BY DEF DateRange
  <1>3. \A args : TimeRange(args) \in BOOLEAN
    BY DEF TimeRange
  <1> QED  BY <1>1, <1>2, <1>3, CallType DEF Answer

LEMMA AnsweredInvariant == Spec => []Answered
  <1>1. Init => Answered
    BY DEF Init, Answered
  <1>2. Answered /\ [Next]_vars => Answered'
    <2> SUFFICES ASSUME Answered, [Next]_vars PROVE Answered'
      OBVIOUS
    <2>1. CASE Ask
      <3>1. PICK c \in Calls : call' = c /\ answer' = Answer(c)
        BY <2>1 DEF Ask
      <3>2. clock' = clock
        BY <2>1 DEF Ask
      <3>3. Answer(c)' = Answer(c)
        BY <3>2 DEF Answer, WeekdayRange, DateRange, TimeRange, UnixNano, Reading
      <3> QED  BY <3>1, <3>2, <3>3, AnswerIsBoolean DEF Answered
    <2>2. CASE Return
      BY <2>2 DEF Return, Answered
    <2>3. CASE UNCHANGED vars
      <3>1. Answer(call)' = Answer(call)
        BY <2>3 DEF vars, Answer, WeekdayRange, DateRange, TimeRange, UnixNano, Reading
      <3> QED  BY <2>3, <3>1 DEF vars, Answered
    <2> QED  BY <2>1, <2>2, <2>3 DEF Next
  <1> QED  BY <1>1, <1>2, PTL DEF Spec

LEMMA RangesMeanBetween ==
    /\ \A a, n, b \in Int : Closed(a, n, b) <=> Between(a, n, b)
    /\ \A a, n, b \in Int : HalfOpen(a, n, b) <=> BetweenUpTo(a, n, b)
  BY DEF Closed, HalfOpen, Between, BetweenUpTo

(* weekdayRange says whether today lies between the two days.              *)
THEOREM WeekdayTheorem == Spec => []WeekdayMeansBetween
  <1>1. Answered => WeekdayMeansBetween
    <2> DEFINE args == call.args
               days == {call.args[i].value : i \in {k \in {1, 2} : call.args[k].is = "weekday"}}
               today == Reading(\E i \in 2..3 : call.args[i].is = "GMT").weekday
    <2> SUFFICES ASSUME Answered, call # Nil, call.name = "weekdayRange",
                        args[1].is = "weekday", args[2].is \in {"weekday", "GMT", "missing"}
                 PROVE  answer <=> \E a, b \in days : a <= today /\ today <= b
      BY DEF WeekdayMeansBetween
    <2>1. call \in Calls /\ answer \in BOOLEAN
      BY DEF Answered
    <2>2. answer <=> WeekdayRange(args[1], args[2], args[3])
      BY DEF Answered, Answer
    <2>3. args[1] \in Args /\ args[2] \in Args /\ args[3] \in Args
      <3>1. args \in Seq(Args) /\ Len(args) = 3
        BY <2>1, CallType
      <3> QED  BY <3>1
    <2>4. today = Reading(SaysGmt(args[2], args[3])).weekday
      <3>1. SaysGmt(args[2], args[3]) <=> \E i \in 2..3 : args[i].is = "GMT"
        BY DEF SaysGmt
      <3> QED  BY <3>1 DEF Reading
    <2>5. today \in 0..6
      BY ReadingType DEF Readings, Dated
    <2>6. PICK w1, w2 \in Nat : w1 = args[1].value /\ w2 = args[2].value
      BY <2>3 DEF Args
    <2>7. CASE args[2].is \in {"GMT", "missing"}
      <3>1. days = {w1}
        BY <2>6, <2>7
      <3>2. answer <=> Closed(w1, today, w1)
        BY <2>2, <2>4, <2>6, <2>7 DEF WeekdayRange
      <3> HIDE DEF days, today
      <3> QED  BY <2>5, <3>1, <3>2 DEF Closed
    <2>8. CASE args[2].is = "weekday"
      <3>1. days = {w1, w2}
        BY <2>6, <2>8
      <3>2. answer <=> Closed(w1, today, w2)
        BY <2>2, <2>4, <2>6, <2>8 DEF WeekdayRange
      <3> HIDE DEF days, today
      <3> QED  BY <2>5, <3>1, <3>2 DEF Closed
    <2> QED  BY <2>7, <2>8
  <1> QED  BY <1>1, AnsweredInvariant, PTL

(* timeRange says whether now is between the two times, up to the later.   *)
THEOREM TimeTheorem == Spec => []TimeMeansBetween
  <1>1. Answered => TimeMeansBetween
    <2> DEFINE args == call.args
               given == Given(args)
               now == Reading(EndsInGmt(args))
               v(i) == given[i].value
               n == Len(given)
    <2> SUFFICES ASSUME Answered, call # Nil, call.name = "timeRange",
                        \A i \in 1..n : given[i].is = "number" /\ v(i) \in 0..59
                 PROVE  /\ n = 1 => (answer <=> BetweenUpTo(v(1), now.hour, v(1) + 1))
                        /\ n = 2 => (answer <=> BetweenUpTo(v(1), now.hour, v(2)))
                        /\ n = 4 =>
                             (answer <=> BetweenUpTo(60 * v(1) + v(2), 60 * now.hour + now.minute,
                                                     60 * v(3) + v(4)))
                        /\ n = 6 =>
                             (answer <=> BetweenUpTo(At(v(1), v(2), v(3)),
                                                     At(now.hour, now.minute, now.second),
                                                     At(v(4), v(5), v(6))))
      BY DEF TimeMeansBetween
    <2>1. answer \in BOOLEAN /\ n \in Nat /\ (answer <=> TimeRange(args))
      BY CallType, GivenType DEF Answered, Answer
    <2>2. PICK h \in 0..23, m \in 0..59, s \in 0..59 : now.hour = h /\ now.minute = m /\ now.second = s
      BY ReadingType DEF Readings, Dated
    <2>3. \A a, b, c \in 0..59 : TimeBound(now, a, b, c) = At(a, b, c)
      BY <2>2 DEF TimeBound, At
    <2>4. CASE n = 1
      <3>1. PICK v1 \in 0..59 : v(1) = v1
        BY <2>4
      <3>2. answer <=> h = v1
        BY <2>1, <2>2, <2>4, <3>1 DEF TimeRange
      <3>3. BetweenUpTo(v1, h, v1 + 1) <=> h = v1
        BY DEF BetweenUpTo
      <3> QED  BY <2>2, <2>4, <3>1, <3>2, <3>3
    <2>5. CASE n = 2
      <3>1. PICK v1, v2 \in 0..59 : v(1) = v1 /\ v(2) = v2
        <4>1. 1..n = {1, 2}
          BY <2>5
        <4>2. v(1) \in 0..59 /\ v(2) \in 0..59
          BY <4>1
        <4> HIDE DEF v
        <4> QED  BY <4>2
      <3>2. answer <=> HalfOpen(v1, h, v2)
        BY <2>1, <2>2, <2>5, <3>1 DEF TimeRange
      <3> QED  BY <2>2, <2>5, <3>1, <3>2, RangesMeanBetween
    <2>6. CASE n = 4
      <3>1. PICK v1, v2, v3, v4 \in 0..59 : v(1) = v1 /\ v(2) = v2 /\ v(3) = v3 /\ v(4) = v4
        <4>1. 1..n = {1, 2, 3, 4}
          BY <2>6
        <4>2. v(1) \in 0..59 /\ v(2) \in 0..59 /\ v(3) \in 0..59 /\ v(4) \in 0..59
          BY <4>1
        <4> HIDE DEF v
        <4> QED  BY <4>2
      <3>2. answer <=> HalfOpen(TimeBound(now, v1, v2, s), At(h, m, s), TimeBound(now, v3, v4, s))
        BY <2>1, <2>2, <2>6, <3>1 DEF TimeRange
      <3>3. answer <=> HalfOpen(At(v1, v2, s), At(h, m, s), At(v3, v4, s))
        <4> HIDE DEF now, v, n, given, args
        <4>1. TimeBound(now, v1, v2, s) = At(v1, v2, s) /\ TimeBound(now, v3, v4, s) = At(v3, v4, s)
          BY <2>3
        <4> QED  BY <3>2, <4>1, Zenon
      <3>4. HalfOpen(At(v1, v2, s), At(h, m, s), At(v3, v4, s))
              <=> BetweenUpTo(60 * v1 + v2, 60 * h + m, 60 * v3 + v4)
        BY DEF HalfOpen, BetweenUpTo, At
      <3> QED  BY <2>2, <2>6, <3>1, <3>3, <3>4
    <2>7. CASE n = 6
      <3>1. PICK v1, v2, v3, v4, v5, v6 \in 0..59 :
               v(1) = v1 /\ v(2) = v2 /\ v(3) = v3 /\ v(4) = v4 /\ v(5) = v5 /\ v(6) = v6
        <4>1. 1..n = {1, 2, 3, 4, 5, 6}
          BY <2>7
        <4>2. v(1) \in 0..59 /\ v(2) \in 0..59 /\ v(3) \in 0..59 /\ v(4) \in 0..59 /\ v(5) \in 0..59 /\ v(6) \in 0..59
          BY <4>1
        <4> HIDE DEF v
        <4> QED  BY <4>2
      <3>2. answer <=> HalfOpen(TimeBound(now, v1, v2, v3), At(h, m, s), TimeBound(now, v4, v5, v6))
        BY <2>1, <2>2, <2>7, <3>1 DEF TimeRange
      <3>3. answer <=> HalfOpen(At(v1, v2, v3), At(h, m, s), At(v4, v5, v6))
        <4> HIDE DEF now, v, n, given, args
        <4>1. TimeBound(now, v1, v2, v3) = At(v1, v2, v3) /\ TimeBound(now, v4, v5, v6) = At(v4, v5, v6)
          BY <2>3
        <4> QED  BY <3>2, <4>1, Zenon
      <3>4. HalfOpen(At(v1, v2, v3), At(h, m, s), At(v4, v5, v6))
              <=> BetweenUpTo(At(v1, v2, v3), At(h, m, s), At(v4, v5, v6))
        BY DEF HalfOpen, BetweenUpTo, At
      <3> QED  BY <2>2, <2>7, <3>1, <3>3, <3>4
    <2> QED  BY <2>4, <2>5, <2>6, <2>7
  <1> QED  BY <1>1, AnsweredInvariant, PTL

(* Days are counted in the order of the calendar: within a year ...        *)
Into(y, m, d) == DaysBefore[m] + d - 1 + (IF m > 2 /\ IsLeap(y) THEN 1 ELSE 0)
YearLength(y) == 365 + (IF IsLeap(y) THEN 1 ELSE 0)

LEMMA IntoYear ==
    ASSUME NEW y \in Nat, NEW m \in 1..12, NEW d \in 1..31, d <= DaysIn(y, m)
    PROVE  /\ Into(y, m, d) \in Int /\ 0 <= Into(y, m, d) /\ Into(y, m, d) < YearLength(y)
           /\ \A M \in 1..12, D \in 1..31 :
                D <= DaysIn(y, M) =>
                  (Into(y, m, d) < Into(y, M, D) <=> m < M \/ (m = M /\ d < D))
  <1>1. /\ DaysBefore[1] = 0 /\ DaysBefore[2] = 31 /\ DaysBefore[3] = 59 /\ DaysBefore[4] = 90
        /\ DaysBefore[5] = 120 /\ DaysBefore[6] = 151 /\ DaysBefore[7] = 181 /\ DaysBefore[8] = 212
        /\ DaysBefore[9] = 243 /\ DaysBefore[10] = 273 /\ DaysBefore[11] = 304 /\ DaysBefore[12] = 334
    BY DEF DaysBefore
  <1>2. PICK leap \in 0..1 : (IsLeap(y) => leap = 1) /\ (~ IsLeap(y) => leap = 0)
    OBVIOUS
  <1> DEFINE Base(M) == DaysBefore[M] + (IF M > 2 THEN leap ELSE 0)
  <1>3. /\ Base(1) = 0 /\ Base(2) = 31 /\ Base(3) = 59 + leap /\ Base(4) = 90 + leap
        /\ Base(5) = 120 + leap /\ Base(6) = 151 + leap /\ Base(7) = 181 + leap
        /\ Base(8) = 212 + leap /\ Base(9) = 243 + leap /\ Base(10) = 273 + leap
        /\ Base(11) = 304 + leap /\ Base(12) = 334 + leap
    BY <1>1
  <1>4. \A M \in 1..12, D \in 1..31 : Into(y, M, D) = Base(M) + D - 1
    <2> TAKE M \in 1..12, D \in 1..31
    <2>1. DaysBefore[M] \in Int
      BY <1>1
    <2>2. CASE IsLeap(y)
      BY <1>2, <2>1, <2>2 DEF Into
    <2>3. CASE ~ IsLeap(y)
      BY <1>2, <2>1, <2>3 DEF Into
    <2> QED  BY <2>2, <2>3
  <1> HIDE DEF Base
  <1>5. \A M \in 1..12 : /\ Base(M) \in Int /\ 0 <= Base(M)
                          /\ DaysIn(y, M) \in 28..31
                          /\ Base(M) + DaysIn(y, M) = IF M = 12 THEN 365 + leap ELSE Base(M + 1)
    <2> TAKE M \in 1..12
    <2>1. CASE M = 2  BY <1>2, <1>3, <2>1 DEF DaysIn
    <2>2. CASE M # 2
      <3>1. DaysIn(y, M) = IF M \in {4, 6, 9, 11} THEN 30 ELSE 31
        BY <2>2 DEF DaysIn
      <3> QED  BY <1>3, <2>2, <3>1
    <2> QED  BY <2>1, <2>2
  <1>6. \A M, N \in 1..12 : M < N => Base(M) + DaysIn(y, M) <= Base(N)
    <2> TAKE M \in 1..12, N \in 1..12
    <2>1. \A K \in 2..12 : K <= N => Base(K) <= Base(N)
      BY <1>3
    <2>2. M < N => M + 1 \in 2..12 /\ M + 1 <= N /\ M # 12
      OBVIOUS
    <2> QED  BY <1>5, <2>1, <2>2
  <1>7. \A M \in 1..12 : Base(M) + DaysIn(y, M) <= 365 + leap
    BY <1>3, <1>5
  <1>8. Into(y, m, d) \in Int /\ 0 <= Into(y, m, d) /\ Into(y, m, d) < YearLength(y)
    <2>1. YearLength(y) = 365 + leap
      BY <1>2 DEF YearLength
    <2>2. Base(m) \in Int /\ 0 <= Base(m) /\ DaysIn(y, m) \in Int /\ Base(m) + DaysIn(y, m) <= 365 + leap
      BY <1>5, <1>7
    <2> QED  BY <1>4, <2>1, <2>2
  <1>9. ASSUME NEW M \in 1..12, NEW D \in 1..31, D <= DaysIn(y, M)
        PROVE  Into(y, m, d) < Into(y, M, D) <=> m < M \/ (m = M /\ d < D)
    <2>1. PICK a, b, p, q \in Int : /\ a = Base(m) /\ b = Base(M)
                                    /\ p = DaysIn(y, m) /\ q = DaysIn(y, M)
      <3>1. Base(m) \in Int /\ Base(M) \in Int /\ DaysIn(y, m) \in Int /\ DaysIn(y, M) \in Int
        BY <1>5
      <3> QED  BY <3>1, Zenon
    <2>2. Into(y, m, d) = a + d - 1 /\ Into(y, M, D) = b + D - 1
      BY <1>4, <2>1
    <2>3. /\ m < M => a + p <= b
          /\ M < m => b + q <= a
          /\ m = M => a = b
      BY <1>6, <2>1
    <2>4. d <= p /\ D <= q
      BY <1>9, <2>1
    <2> QED  BY <2>2, <2>3, <2>4
  <1> QED  BY <1>8, <1>9

LEMMA YearType ==
    ASSUME NEW y \in Nat
    PROVE  NewYear(y) \in Int /\ YearLength(y) \in 365..366
  BY SMT DEF NewYear, YearLength

(* ... and from year to year.                                              *)
LEMMA YearsFollow ==
    ASSUME NEW y \in Nat, NEW Y \in Nat, y < Y
    PROVE  NewYear(y) \in Int /\ NewYear(y) + YearLength(y) <= NewYear(Y)
  <1>1. /\ (y + 4) \div 4 = (y + 3) \div 4 + (IF y % 4 = 0 THEN 1 ELSE 0)
        /\ (y + 100) \div 100 = (y + 99) \div 100 + (IF y % 100 = 0 THEN 1 ELSE 0)
        /\ (y + 400) \div 400 = (y + 399) \div 400 + (IF y % 400 = 0 THEN 1 ELSE 0)
    OBVIOUS
  <1>2. (y % 400 = 0 => y % 100 = 0) /\ (y % 100 = 0 => y % 4 = 0)
    OBVIOUS
  <1>3. PICK a, b, c \in Int : /\ a = (y + 4) \div 4 /\ b = (y + 100) \div 100
                               /\ c = (y + 400) \div 400
    OBVIOUS
  <1>4. NewYear(y) + YearLength(y) = 365 * (y + 1) + a - b + c - 719528
    BY <1>1, <1>2, <1>3, SMT DEF NewYear, YearLength, IsLeap
  <1>5. PICK A, B, C \in Int : /\ A = (Y + 3) \div 4 /\ B = (Y + 99) \div 100
                               /\ C = (Y + 399) \div 400
    OBVIOUS
  <1>6. a <= A /\ c <= C /\ B - b <= Y - (y + 1)
    BY <1>3, <1>5
  <1>7. NewYear(Y) = 365 * Y + A - B + C - 719528
    BY <1>5, SMT DEF NewYear
  <1> QED  BY <1>3, <1>4, <1>5, <1>6, <1>7, YearType, SMT

LEMMA DayByStamp ==
    ASSUME NEW a \in Readings, NEW b \in Readings
    PROVE  /\ Day(a) \in Int /\ Stamp(a) \in Int
           /\ Day(a) < Day(b) <=> Stamp(a) < Stamp(b)
  <1>1. PICK y \in Nat, m \in 1..12, d \in 1..31 :
              a.year = y /\ a.month = m /\ a.day = d /\ d <= DaysIn(y, m)
    BY NowFields
  <1>2. PICK Y \in Nat, M \in 1..12, D \in 1..31 :
              b.year = Y /\ b.month = M /\ b.day = D /\ D <= DaysIn(Y, M)
    BY NowFields
  <1>3. PICK i, I, l, L, n, N \in Int :
           /\ i = Into(y, m, d) /\ I = Into(Y, M, D) /\ l = YearLength(y) /\ L = YearLength(Y)
           /\ n = NewYear(y) /\ N = NewYear(Y)
    <2>1. Into(y, m, d) \in Int /\ Into(Y, M, D) \in Int
      BY <1>1, <1>2, IntoYear
    <2>2. /\ YearLength(y) \in Int /\ YearLength(Y) \in Int
          /\ NewYear(y) \in Int /\ NewYear(Y) \in Int
      BY YearType
    <2> QED  BY <2>1, <2>2, Zenon
  <1>4. 0 <= i /\ i < l /\ 0 <= I /\ I < L
    BY <1>1, <1>2, <1>3, IntoYear
  <1>5. Day(a) = n + i /\ Day(b) = N + I
    <2>1. DaysBefore[m] \in Int /\ DaysBefore[M] \in Int
      BY DEF DaysBefore
    <2> QED  BY <1>1, <1>2, <1>3, <2>1 DEF Day, Into
  <1>6. Stamp(a) = 400 * y + 32 * m + d /\ Stamp(b) = 400 * Y + 32 * M + D
    BY <1>1, <1>2 DEF Stamp
  <1>7. CASE y = Y
    <2>1. i < I <=> m < M \/ (m = M /\ d < D)
      BY <1>1, <1>2, <1>3, <1>7, IntoYear
    <2> QED  BY <1>3, <1>5, <1>6, <1>7, <2>1
  <1>8. CASE y < Y
    BY <1>3, <1>4, <1>5, <1>6, <1>8, YearsFollow
  <1>9. CASE Y < y
    BY <1>3, <1>4, <1>5, <1>6, <1>9, YearsFollow
  <1> QED  BY <1>7, <1>8, <1>9

(* Of the years it counts in order, UnixNano is the day in GMT.            *)
LEMMA CountedDays ==
    ASSUME Answered, NEW gmt \in BOOLEAN, NEW date \in Readings,
           Reading(gmt).year \in Counted, date.year \in Counted
    PROVE  UnixNano(Reading(gmt), date) =
             [days |-> Day(clock.GMT) - Day(Reading(gmt)) + Day(date), wraps |-> 0]
  <1> DEFINE now == Reading(gmt)
             days == Day(clock.GMT) + Day(date) - Day(now)
             second == At(clock.GMT.hour, clock.GMT.minute, clock.GMT.second)
             about == (days + Half) \div (2 * Half)
  <1>1. /\ clock.GMT \in Readings /\ now \in Readings
        /\ Day(clock.GMT) - Day(clock.local) \in -1..1
    BY ClocksAssumption, ReadingType DEF Answered
  <1>2. Day(clock.GMT) \in Int /\ Day(now) \in Int /\ Day(date) \in Int
    BY <1>1, DayByStamp
  <1>3. Day(clock.GMT) - Day(now) \in -1..1
    BY <1>1, <1>2 DEF Reading
  <1>4. -106650 <= Day(date) /\ Day(date) <= 106650
    <2>1. PICK y \in Nat, m \in 1..12, d \in 1..31 :
                date.year = y /\ date.month = m /\ date.day = d /\ d <= DaysIn(y, m)
      BY NowFields
    <2>2. PICK i, l, n \in Int : i = Into(y, m, d) /\ l = YearLength(y) /\ n = NewYear(y)
      <3>1. Into(y, m, d) \in Int
        BY <2>1, IntoYear
      <3>2. YearLength(y) \in Int /\ NewYear(y) \in Int
        BY YearType
      <3> QED  BY <3>1, <3>2, Zenon
    <2>3. 0 <= i /\ i < l
      BY <2>1, <2>2, IntoYear
    <2>4. Day(date) = n + i
      <3>1. DaysBefore[m] \in Int
        BY DEF DaysBefore
      <3> QED  BY <2>1, <2>2, <3>1 DEF Day, Into
    <2>5. 1678 <= y /\ y <= 2261
      BY <2>1 DEF Counted
    <2>6. NewYear(1678) = -106650 /\ NewYear(2262) = 106651
      BY SMT DEF NewYear
    <2>7. NewYear(1678) <= n /\ n + l <= NewYear(2262)
      <3>1. y # 1678 => NewYear(1678) + YearLength(1678) <= n
        BY <2>2, <2>5, YearsFollow
      <3>2. n + l <= NewYear(2262)
        BY <2>2, <2>5, YearsFollow
      <3> QED  BY <2>2, <2>5, <2>6, <3>1, <3>2, YearType, SMT
    <2> QED  BY <2>2, <2>3, <2>4, <2>6, <2>7, SMT
  <1>5. days \in Int /\ -106651 <= days /\ days <= 106651
    BY <1>2, <1>3, <1>4, SMT
  <1>6. second \in Int
    <2>1. PICK h \in 0..23, m \in 0..59, s \in 0..59 :
                clock.GMT.hour = h /\ clock.GMT.minute = m /\ clock.GMT.second = s
      BY <1>1 DEF Readings, Dated
    <2> QED  BY <2>1, SMT DEF At
  <1>7. about = 0
    BY <1>5, SMT DEF Half
  <1>8. Passed(0, days, second) /\ ~ Passed(1, days, second)
    BY <1>5, <1>6, SMT DEF Passed, Half
  <1>9. (CHOOSE k \in about - 1..about + 1 :
            Passed(k, days, second) /\ ~ Passed(k + 1, days, second)) = 0
    <2> HIDE DEF days, second, about
    <2>1. about - 1..about + 1 = {-1, 0, 1}
      BY <1>7
    <2>2. \A k \in {-1, 0, 1} :
             Passed(k, days, second) /\ ~ Passed(k + 1, days, second) <=> k = 0
      BY <1>8
    <2> QED  BY <2>1, <2>2
  <1>10. UnixNano(now, date) = [days |-> days - 2 * Half * 0, wraps |-> 0]
    BY <1>9 DEF UnixNano
  <1> QED  BY <1>2, <1>10, SMT DEF Half

LEMMA NamedStamp ==
    ASSUME NEW now \in Readings, NEW half, Len(half) \in 0..3, LegalHalf(now, half)
    PROVE  Stamp(Named(now, half)) \in Int
  <1>1. \A f \in {"year", "month", "day"} : Named(now, half)[f] \in Int
    <2> TAKE f \in {"year", "month", "day"}
    <2>1. CASE Names(half, f)
      <3>1. PICK i \in 1..Len(half) : Field(half[i]) = f
        BY <2>1 DEF Names
      <3>2. half[i].value \in Int
        BY DEF LegalHalf, LegalDateArg
      <3> QED  BY <3>1, <3>2, NamedFields
    <2>2. CASE ~ Names(half, f)
      <3>1. now[f] \in Int
        BY DEF Readings, Dated
      <3> QED  BY <2>2, <3>1, NamedFields
    <2> QED  BY <2>1, <2>2
  <1>2. PICK P, Q, R \in Int : /\ Named(now, half).year = P
                             /\ Named(now, half).month = Q
                             /\ Named(now, half).day = R
    BY <1>1
  <1> QED  BY <1>2 DEF Stamp

(* A half that is legal has no more than three arguments.                  *)
LEMMA LegalHalfIsShort ==
    ASSUME NEW now, NEW half, Len(half) \in Nat, LegalHalf(now, half)
    PROVE  Len(half) <= 3
  <1> SUFFICES ASSUME Len(half) >= 4 PROVE FALSE
    OBVIOUS
  <1>1. {1, 2, 3, 4} \subseteq 1..Len(half)
    OBVIOUS
  <1>2. \A i, j \in {1, 2, 3, 4} : i # j => Field(half[i]) # Field(half[j])
    BY <1>1 DEF LegalHalf
  <1>3. \A i \in {1, 2, 3, 4} : Field(half[i]) \in {"day", "month", "year"}
    BY DEF Field
  <1> QED  BY <1>2, <1>3

LEMMA HalvesOf ==
    ASSUME NEW given \in Seq(Args), NEW k \in Nat, Len(given) = 2 * k
    PROVE  /\ Len(given) \div 2 = k
           /\ Len(SubSeq(given, 1, k)) = k /\ Len(SubSeq(given, k + 1, 2 * k)) = k
           /\ \A i \in 1..k : /\ SubSeq(given, 1, k)[i] = given[i]
                             /\ SubSeq(given, k + 1, 2 * k)[i] = given[i + k]
  OBVIOUS

(* dateRange says whether today lies between the two dates, where all      *)
(* three are of the years that UnixNano counts in order.                   *)
THEOREM DateTheorem == Spec => []DateMeansBetween
  <1>1. Answered => DateMeansBetween
    <2> DEFINE args == call.args
               given == Given(args)
               now == Reading(EndsInGmt(args))
               n == Len(given)
               a == SubSeq(given, 1, n \div 2)
               b == SubSeq(given, n \div 2 + 1, n)
    <2> SUFFICES ASSUME Answered, call # Nil, call.name = "dateRange",
                        n > 0, n % 2 = 0, LegalHalf(now, a), LegalHalf(now, b),
                        {now.year, Named(now, a).year, Named(now, b).year} \subseteq Counted
                 PROVE  answer <=> Between(Stamp(Named(now, a)), Stamp(now), Stamp(Named(now, b)))
      BY DEF DateMeansBetween
    <2>1. answer \in BOOLEAN /\ n \in Nat /\ given \in Seq(Args) /\ (answer <=> DateRange(args))
      BY CallType, GivenType DEF Answered, Answer
    <2>2. now \in Readings
      BY ReadingType
    <2>3. PICK k \in Nat : n = 2 * k /\ k > 0
      <3>1. n = 2 * (n \div 2) /\ n \div 2 \in Nat /\ n \div 2 > 0
        BY <2>1
      <3> HIDE DEF n
      <3> QED  BY <3>1
    <2>4. /\ a = SubSeq(given, 1, k) /\ b = SubSeq(given, k + 1, 2 * k)
          /\ Len(a) = k /\ Len(b) = k
          /\ \A i \in 1..k : a[i] = given[i] /\ b[i] = given[i + k]
      BY <2>1, <2>3, HalvesOf
    <2> HIDE DEF a, b, now, n, given
    <2>5. k \in 1..3 /\ k \in 0..3
      <3>1. Len(a) \in Nat
        BY <2>4
      <3>2. k <= 3
        BY <2>4, <3>1, LegalHalfIsShort
      <3> QED  BY <2>3, <3>2
    <2>6. \A i \in 1..n : given[i].is \in {"number", "month"}
      <3>1. \A i \in 1..k : a[i].is \in {"number", "month"} /\ b[i].is \in {"number", "month"}
        BY <2>4 DEF LegalHalf, LegalDateArg
      <3> TAKE i \in 1..n
      <3>2. CASE i \in 1..k  BY <2>4, <3>1, <3>2
      <3>3. CASE i - k \in 1..k
        <4>1. b[i - k] = given[(i - k) + k]
          BY <2>4, <3>3
        <4> QED  BY <3>1, <3>3, <4>1
      <3> QED  BY <2>3, <3>2, <3>3
    <2>7. answer <=> ClosedDates(UnixNano(now, Bound(now, a)), UnixNano(now, now),
                                 UnixNano(now, Bound(now, b)))
      <3>1. args # << >>
        BY <2>1, <2>3 DEF n, given, Given
      <3>2. n # 1
        BY <2>3
      <3> QED  BY <2>1, <2>6, <3>1, <3>2 DEF DateRange, n, given, now, a, b
    <2>8. /\ Bound(now, a) \in Readings /\ Bound(now, b) \in Readings
          /\ SameSideOf(now, Bound(now, a), Named(now, a))
          /\ SameSideOf(now, Bound(now, b), Named(now, b))
          /\ Bound(now, a).year \in Counted /\ Bound(now, b).year \in Counted
      <3>1. Len(a) \in 0..3 /\ Len(a) \in 1..3 /\ Len(b) \in 0..3 /\ Len(b) \in 1..3
        BY <2>4, <2>5
      <3>2. /\ \A i \in 1..Len(a) : LegalDateArg(a[i])
            /\ \A i \in 1..Len(b) : LegalDateArg(b[i])
        BY DEF LegalHalf
      <3>3. Bound(now, a) \in Readings /\ Bound(now, b) \in Readings
        BY <2>2, <3>1, <3>2, BoundIsReading
      <3>4. Bound(now, a).year \in Counted /\ Bound(now, b).year \in Counted
        BY <2>2, <3>1, BoundSide
      <3> QED  BY <2>2, <3>1, <3>3, <3>4, BoundSide
    <2>9. PICK A, B, N \in Int : A = Stamp(Bound(now, a)) /\ B = Stamp(Bound(now, b)) /\ N = Stamp(now)
      BY <2>2, <2>8, DayByStamp
    <2>10. ClosedDates(UnixNano(now, Bound(now, a)), UnixNano(now, now), UnixNano(now, Bound(now, b)))
             <=> (A <= N /\ N <= B) \/ (B <= N /\ N <= A)
      <3>1. PICK i, j, m, g \in Int : /\ i = Day(Bound(now, a)) /\ j = Day(Bound(now, b))
                                      /\ m = Day(now) /\ g = Day(clock.GMT)
        BY <2>2, <2>8, ClocksAssumption, DayByStamp DEF Answered
      <3>2. /\ (j < i <=> B < A) /\ (i < j <=> A < B)
            /\ (m < i <=> N < A) /\ (m < j <=> N < B)
            /\ (i < m <=> A < N) /\ (j < m <=> B < N)
        <4>1. (j < i <=> B < A) /\ (m < i <=> N < A)
          BY <2>2, <2>8, <2>9, <3>1, DayByStamp
        <4>2. (i < j <=> A < B) /\ (m < j <=> N < B)
          BY <2>2, <2>8, <2>9, <3>1, DayByStamp
        <4>3. (i < m <=> A < N) /\ (j < m <=> B < N)
          BY <2>2, <2>8, <2>9, <3>1, DayByStamp
        <4> QED  BY <4>1, <4>2, <4>3
      <3>3. /\ UnixNano(now, Bound(now, a)) = [days |-> g - m + i, wraps |-> 0]
            /\ UnixNano(now, Bound(now, b)) = [days |-> g - m + j, wraps |-> 0]
            /\ UnixNano(now, now) = [days |-> g - m + m, wraps |-> 0]
        <4>1. EndsInGmt(args) \in BOOLEAN
          BY DEF EndsInGmt
        <4> QED  BY <2>2, <2>8, <3>1, <4>1, CountedDays DEF now
      <3>4. ClosedDates(UnixNano(now, Bound(now, a)), UnixNano(now, now), UnixNano(now, Bound(now, b)))
              <=> IF j < i THEN j <= m /\ m <= i ELSE i <= m /\ m <= j
        BY <3>3 DEF ClosedDates, Earlier
      <3> QED  BY <3>2, <3>4
    <2>11. PICK P, Q \in Int : P = Stamp(Named(now, a)) /\ Q = Stamp(Named(now, b))
      <3>1. Len(a) \in 0..3 /\ Len(b) \in 0..3
        BY <2>4, <2>5
      <3> QED  BY <2>2, <3>1, NamedStamp
    <2>12. (A < N <=> P < N) /\ (A > N <=> P > N) /\ (B < N <=> Q < N) /\ (B > N <=> Q > N)
      BY <2>8, <2>9, <2>11 DEF SameSideOf, SameSide, Stamp
    <2> QED  BY <2>7, <2>9, <2>10, <2>11, <2>12 DEF Between
  <1> QED  BY <1>1, AnsweredInvariant, PTL

(* The type invariant.                                                     *)
THEOREM TypeTheorem == Spec => []TypeOK
  <1>1. Answered => TypeOK
    <2> SUFFICES ASSUME Answered PROVE TypeOK
      OBVIOUS
    <2>1. clock \in [local : Readings, GMT : Readings] /\ answer \in BOOLEAN
      BY ClocksAssumption DEF Answered
    <2>2. call # Nil => call \in Calls /\ call.args \in Seq(Args)
      BY CallType DEF Answered
    <2>3. ASSUME call # Nil, NEW half \in Halves(call.args), Len(half) <= 3,
                 \A i \in 1..Len(half) : LegalDateArg(half[i])
          PROVE  Bound(Reading(EndsInGmt(call.args)), half) \in Readings
      <3>1. Given(call.args) \in Seq(Args) /\ Len(Given(call.args)) \in Nat
        BY <2>2, <2>3, GivenType
      <3>2. Len(half) \in Nat
        BY <2>3, <3>1 DEF Halves
      <3>3. Len(half) \in 0..3
        <4>1. \A k \in Nat : k <= 3 => k \in 0..3
          OBVIOUS
        <4> QED  BY <2>3, <3>2, <4>1
      <3> QED  BY <2>3, <3>3, ReadingType, BoundIsReading
    <2> QED  BY <2>1, <2>2, <2>3 DEF TypeOK
  <1> QED  BY <1>1, AnsweredInvariant, PTL
=============================================================================
