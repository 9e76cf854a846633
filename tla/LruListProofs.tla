--------------------------- MODULE LruListProofs ---------------------------
(***************************************************************************)
(* What the list operations of LruList do to the positions and the members *)
(* of a list.                                                              *)
(***************************************************************************)
EXTENDS LruList, SequenceTheorems, TLAPS

(* PushFront puts the new element first and moves the others back by one.  *)
LEMMA PushFrontFacts ==
    ASSUME NEW S, NEW s \in Seq(S), NEW e \in S
    PROVE  /\ PushFront(s, e) \in Seq(S)
           /\ Len(PushFront(s, e)) = Len(s) + 1
           /\ PushFront(s, e)[1] = e
           /\ \A i \in 2..(Len(s) + 1) : PushFront(s, e)[i] = s[i - 1]
BY DEF PushFront, Cons

(* An element of a list without duplicates has one position.               *)
LEMMA PositionFacts ==
    ASSUME NEW S, NEW s \in Seq(S), Distinct(s), NEW p \in 1..Len(s)
    PROVE  PositionOf(s, s[p]) = p
BY DEF PositionOf, Distinct

(* Unlink closes the gap and keeps the order of the other elements.        *)
LEMMA UnlinkFacts ==
    ASSUME NEW S, NEW s \in Seq(S), Distinct(s), NEW p \in 1..Len(s)
    PROVE  /\ Unlink(s, s[p]) \in Seq(S)
           /\ Len(Unlink(s, s[p])) = Len(s) - 1
           /\ \A i \in 1..(Len(s) - 1) :
                 Unlink(s, s[p])[i] = IF i < p THEN s[i] ELSE s[i + 1]
<1> DEFINE front == SubSeq(s, 1, p - 1)
           back  == SubSeq(s, p + 1, Len(s))
<1>1. Unlink(s, s[p]) = front \o back
  BY PositionFacts DEF Unlink, RemoveAt
<1>2. /\ front \in Seq(S) /\ Len(front) = p - 1
      /\ \A i \in 1..(p - 1) : front[i] = s[i]
  BY SubSeqProperties
<1>3. /\ back \in Seq(S) /\ Len(back) = Len(s) - p
      /\ \A i \in 1..(Len(s) - p) : back[i] = s[p + i]
  BY SubSeqProperties
<1> HIDE DEF front, back
<1>4. /\ front \o back \in Seq(S) /\ Len(front \o back) = Len(front) + Len(back)
      /\ \A i \in 1..(Len(front) + Len(back)) :
            (front \o back)[i] = IF i <= Len(front) THEN front[i] ELSE back[i - Len(front)]
  <2>1. front \in Seq(S) /\ back \in Seq(S)
    BY <1>2, <1>3
  <2> QED BY <2>1, ConcatProperties, Zenon
<1>5. ASSUME NEW i \in 1..(Len(s) - 1)
      PROVE  (front \o back)[i] = IF i < p THEN s[i] ELSE s[i + 1]
  <2>1. CASE i < p
    BY <2>1, <1>2, <1>4
  <2>2. CASE ~ (i < p)
    <3>1. i - (p - 1) \in 1..(Len(s) - p)
      BY <2>2
    <3>2. p + (i - (p - 1)) = i + 1
      OBVIOUS
    <3>3. back[i - (p - 1)] = s[i + 1]
      BY <3>1, <3>2, <1>3
    <3>4. (front \o back)[i] = back[i - (p - 1)]
      BY <2>2, <1>2, <1>3, <1>4
    <3> QED BY <2>2, <3>3, <3>4
  <2> QED BY <2>1, <2>2
<1>6. Len(front \o back) = Len(s) - 1
  BY <1>2, <1>3, <1>4
<1> QED BY <1>1, <1>4, <1>5, <1>6, Zenon

(* MoveToFront puts p's element first; those behind it stay where they are.*)
LEMMA MoveToFrontFacts ==
    ASSUME NEW S, NEW s \in Seq(S), Distinct(s), NEW p \in 1..Len(s)
    PROVE  /\ MoveToFront(s, s[p]) \in Seq(S)
           /\ Len(MoveToFront(s, s[p])) = Len(s)
           /\ MoveToFront(s, s[p])[1] = s[p]
           /\ \A i \in 2..Len(s) :
                 MoveToFront(s, s[p])[i] = IF i <= p THEN s[i - 1] ELSE s[i]
<1> DEFINE rest == Unlink(s, s[p])
<1>1. /\ rest \in Seq(S) /\ Len(rest) = Len(s) - 1
      /\ \A i \in 1..(Len(s) - 1) : rest[i] = IF i < p THEN s[i] ELSE s[i + 1]
  BY UnlinkFacts
<1>2. MoveToFront(s, s[p]) = PushFront(rest, s[p])
  BY DEF MoveToFront
<1> HIDE DEF rest
<1>3. s[p] \in S
  OBVIOUS
<1>4. /\ PushFront(rest, s[p]) \in Seq(S)
      /\ Len(PushFront(rest, s[p])) = Len(rest) + 1
      /\ PushFront(rest, s[p])[1] = s[p]
      /\ \A i \in 2..(Len(rest) + 1) : PushFront(rest, s[p])[i] = rest[i - 1]
  <2>1. rest \in Seq(S)
    BY <1>1
  <2>2. \A r \in Seq(S), e \in S :
           /\ PushFront(r, e) \in Seq(S)
           /\ Len(PushFront(r, e)) = Len(r) + 1
           /\ PushFront(r, e)[1] = e
           /\ \A i \in 2..(Len(r) + 1) : PushFront(r, e)[i] = r[i - 1]
    BY PushFrontFacts
  <2> QED BY <2>1, <2>2, <1>3
<1>5. ASSUME NEW i \in 2..Len(s)
      PROVE  PushFront(rest, s[p])[i] = IF i <= p THEN s[i - 1] ELSE s[i]
  <2>1. /\ i \in 2..(Len(rest) + 1)
        /\ i - 1 \in 1..(Len(s) - 1)
        /\ (i - 1 < p) <=> (i <= p)
        /\ (i - 1) + 1 = i
    BY <1>1
  <2> QED BY <2>1, <1>1, <1>4
<1> QED BY <1>1, <1>2, <1>4, <1>5

(* Keep is a prefix no longer than asked for.                              *)
LEMMA KeepFacts ==
    ASSUME NEW S, NEW s \in Seq(S), NEW n \in Nat
    PROVE  /\ Keep(s, n) \in Seq(S)
           /\ Len(Keep(s, n)) = IF Len(s) > n THEN n ELSE Len(s)
           /\ \A i \in 1..Len(Keep(s, n)) : Keep(s, n)[i] = s[i]
BY DEF Keep

-----------------------------------------------------------------------------
(* The same for lists without duplicates, in terms of their members.       *)

(* PushFront adds its element, which the list must not hold yet.           *)
LEMMA LinkMembers ==
    ASSUME NEW S, NEW s \in Seq(S), Distinct(s), NEW e \in S, e \notin ToSet(s)
    PROVE  /\ PushFront(s, e) \in Seq(S)
           /\ Len(PushFront(s, e)) = Len(s) + 1
           /\ Distinct(PushFront(s, e))
           /\ ToSet(PushFront(s, e)) = ToSet(s) \cup {e}
<1> DEFINE t == PushFront(s, e)
<1>1. /\ t \in Seq(S) /\ Len(t) = Len(s) + 1 /\ t[1] = e
      /\ \A i \in 2..(Len(s) + 1) : t[i] = s[i - 1]
  BY PushFrontFacts
<1> HIDE DEF t
<1>2. \A i \in 1..Len(s) : s[i] # e
  BY DEF ToSet
<1>3. Distinct(t)
  <2> SUFFICES ASSUME NEW i \in 1..Len(t), NEW j \in 1..Len(t), t[i] = t[j]
               PROVE  i = j
    BY DEF Distinct
  <2>0. ASSUME NEW k \in 1..Len(t), k # 1 PROVE t[k] # e
    <3>1. k - 1 \in 1..Len(s) /\ t[k] = s[k - 1]
      BY <2>0, <1>1
    <3> QED BY <3>1, <1>2
  <2>1. CASE i = 1 \/ j = 1
    BY <2>0, <2>1, <1>1
  <2>2. CASE i # 1 /\ j # 1
    <3>1. s[i - 1] = s[j - 1] /\ i - 1 \in 1..Len(s) /\ j - 1 \in 1..Len(s)
      BY <2>2, <1>1
    <3>2. i - 1 = j - 1
      BY <3>1 DEF Distinct
    <3> QED BY <3>2
  <2> QED BY <2>1, <2>2
<1>4. ToSet(t) \subseteq ToSet(s) \cup {e}
  <2> SUFFICES ASSUME NEW i \in 1..Len(t), t[i] # e PROVE t[i] \in ToSet(s)
    BY <1>1 DEF ToSet
  <2>1. t[i] = s[i - 1] /\ i - 1 \in 1..Len(s)
    BY <1>1
  <2> QED BY <2>1 DEF ToSet
<1>5. ToSet(s) \cup {e} \subseteq ToSet(t)
  <2>1. e \in ToSet(t)
    BY <1>1 DEF ToSet
  <2>2. ASSUME NEW i \in 1..Len(s) PROVE s[i] \in ToSet(t)
    <3>1. i + 1 \in 1..Len(t) /\ t[i + 1] = s[i]
      BY <1>1
    <3> QED BY <3>1, <1>1 DEF ToSet
  <2> QED BY <2>1, <2>2 DEF ToSet
<1> QED BY <1>1, <1>3, <1>4, <1>5 DEF t

(* Unlink takes exactly its element out.                                   *)
LEMMA UnlinkMembers ==
    ASSUME NEW S, NEW s \in Seq(S), Distinct(s), NEW e \in ToSet(s)
    PROVE  /\ Unlink(s, e) \in Seq(S)
           /\ Len(Unlink(s, e)) = Len(s) - 1
           /\ Distinct(Unlink(s, e))
           /\ ToSet(Unlink(s, e)) = ToSet(s) \ {e}
<1>1. PICK p \in 1..Len(s) : e = s[p]
  BY DEF ToSet
<1> DEFINE t == Unlink(s, e)
<1>2. /\ t \in Seq(S) /\ Len(t) = Len(s) - 1
      /\ \A i \in 1..(Len(s) - 1) : t[i] = IF i < p THEN s[i] ELSE s[i + 1]
  BY <1>1, UnlinkFacts
<1> HIDE DEF t
<1>3. Distinct(t)
  <2> SUFFICES ASSUME NEW i \in 1..Len(t), NEW j \in 1..Len(t), t[i] = t[j]
               PROVE  i = j
    BY DEF Distinct
  <2> DEFINE at(k) == IF k < p THEN k ELSE k + 1
  <2>1. /\ at(i) \in 1..Len(s) /\ at(j) \in 1..Len(s)
        /\ t[i] = s[at(i)] /\ t[j] = s[at(j)]
    BY <1>2
  <2>2. at(i) = at(j)
    BY <2>1 DEF Distinct
  <2> QED BY <2>2
<1>4. ASSUME NEW i \in 1..Len(t) PROVE t[i] \in ToSet(s) \ {e}
  <2> DEFINE k == IF i < p THEN i ELSE i + 1
  <2>1. k \in 1..Len(s) /\ t[i] = s[k] /\ k # p
    BY <1>2
  <2>2. s[k] # s[p]
    BY <2>1 DEF Distinct
  <2> QED BY <2>1, <2>2, <1>1 DEF ToSet
<1>5. ASSUME NEW i \in 1..Len(s), s[i] # e PROVE s[i] \in ToSet(t)
  <2> DEFINE k == IF i < p THEN i ELSE i - 1
  <2>1. i # p
    BY <1>1, <1>5
  <2>2. k \in 1..Len(t) /\ t[k] = s[i]
    BY <2>1, <1>2
  <2> QED BY <2>2, <1>2 DEF ToSet
<1>6. ToSet(t) = ToSet(s) \ {e}
  BY <1>4, <1>5, <1>2 DEF ToSet
<1> QED BY <1>2, <1>3, <1>6 DEF t

(* MoveToFront neither adds nor loses an element.                          *)
LEMMA MoveToFrontMembers ==
    ASSUME NEW S, NEW s \in Seq(S), Distinct(s), NEW e \in ToSet(s)
    PROVE  /\ MoveToFront(s, e) \in Seq(S)
           /\ Len(MoveToFront(s, e)) = Len(s)
           /\ Distinct(MoveToFront(s, e))
           /\ ToSet(MoveToFront(s, e)) = ToSet(s)
<1> DEFINE rest == Unlink(s, e)
<1>1. /\ rest \in Seq(S) /\ Len(rest) = Len(s) - 1
      /\ Distinct(rest) /\ ToSet(rest) = ToSet(s) \ {e}
  BY UnlinkMembers
<1>2. e \in S
  BY DEF ToSet
<1>3. MoveToFront(s, e) = PushFront(rest, e)
  BY DEF MoveToFront
<1> HIDE DEF rest
<1>4. e \notin ToSet(rest)
  BY <1>1
<1>5. /\ PushFront(rest, e) \in Seq(S) /\ Len(PushFront(rest, e)) = Len(rest) + 1
      /\ Distinct(PushFront(rest, e)) /\ ToSet(PushFront(rest, e)) = ToSet(rest) \cup {e}
  BY <1>1, <1>2, <1>4, LinkMembers
<1> QED BY <1>1, <1>3, <1>5

(* Keep loses exactly what is evicted.                                     *)
LEMMA KeepMembers ==
    ASSUME NEW S, NEW s \in Seq(S), Distinct(s), NEW n \in Nat
    PROVE  /\ Keep(s, n) \in Seq(S)
           /\ Len(Keep(s, n)) <= n
           /\ Distinct(Keep(s, n))
           /\ ToSet(Keep(s, n)) = ToSet(s) \ Evicted(s, n)
<1> DEFINE t == Keep(s, n)
<1>1. /\ t \in Seq(S) /\ Len(t) = IF Len(s) > n THEN n ELSE Len(s)
      /\ \A i \in 1..Len(t) : t[i] = s[i]
  BY KeepFacts
<1> HIDE DEF t
<1>2. Distinct(t)
  BY <1>1 DEF Distinct
<1>3. ASSUME NEW i \in 1..Len(t) PROVE t[i] \in ToSet(s) \ Evicted(s, n)
  <2>1. i \in 1..Len(s) /\ t[i] = s[i] /\ i <= n
    BY <1>1
  <2>2. \A j \in (n + 1)..Len(s) : s[j] # s[i]
    BY <2>1 DEF Distinct
  <2> QED BY <2>1, <2>2 DEF ToSet, Evicted
<1>4. ASSUME NEW i \in 1..Len(s), s[i] \notin Evicted(s, n) PROVE s[i] \in ToSet(t)
  <2>1. i <= n
    BY <1>4 DEF Evicted
  <2>2. i \in 1..Len(t) /\ t[i] = s[i]
    BY <2>1, <1>1
  <2> QED BY <2>2, <1>1 DEF ToSet
<1>5. ToSet(t) \subseteq ToSet(s) \ Evicted(s, n)
  <2>1. \A x \in ToSet(t) : \E i \in 1..Len(t) : x = t[i]
    BY <1>1 DEF ToSet
  <2> QED BY <2>1, <1>3
<1>6. ToSet(s) \ Evicted(s, n) \subseteq ToSet(t)
  <2>1. \A x \in ToSet(s) : \E i \in 1..Len(s) : x = s[i]
    BY DEF ToSet
  <2> QED BY <2>1, <1>4
<1>7. ToSet(t) = ToSet(s) \ Evicted(s, n)
  BY <1>5, <1>6
<1> QED BY <1>1, <1>2, <1>7 DEF t
=============================================================================
