-------------------------- MODULE ProxyCacheProofs --------------------------
(***************************************************************************)
(* Proofs about ProxyCache, for every number of callers and keys, every    *)
(* size and every TTL.                                                     *)
(***************************************************************************)
EXTENDS ProxyCache, LruListProofs, FiniteSetTheorems

(* No element outlives its TTL: what makes a new element the last of its   *)
(* key to expire.                                                          *)
Horizon == \A i \in 1..Len(order) : order[i].expires <= now + TTL

(* What is linked was decided for its key; part of AnswerFitsKey, by index.*)
LinkedFits == \A i \in 1..Len(order) : order[i].answer \in Decide[order[i].key]

AnsweredFits == \A r \in Callers : answer[r] # Nil => answer[r] \in Decide[asked[r]]

(* The list and the index.                                                 *)
StoreType == order \in Seq(Element) /\ items \in [Keys -> Element \cup {Nil}]

StoreInv == IndexSound /\ Bounded /\ NewestWins /\ Horizon /\ LinkedFits

(* The inductive invariant.                                                *)
IInv == TypeOK /\ StoreInv /\ AnsweredFits

-----------------------------------------------------------------------------
(* What is linked has a position.                                          *)
LEMMA LinkedPosition ==
    ASSUME NEW e \in Linked
    PROVE  \E p \in 1..Len(order) : order[p] = e
BY DEF Linked

LEMMA BoundedDistinct ==
    ASSUME StoreType, Bounded
    PROVE  Distinct(order)
BY DEF StoreType, Bounded, Distinct

(* What a key is indexed to has a position, and it is the first of its key.*)
LEMMA IndexPosition ==
    ASSUME StoreType, StoreInv, NEW k \in Keys, items[k] # Nil
    PROVE  \E p \in 1..Len(order) :
              /\ order[p] = items[k]
              /\ order[p].key = k
              /\ \A q \in 1..Len(order) : order[q].key = k => p <= q
<1>1. items[k] \in Linked /\ items[k].key = k
  BY DEF StoreInv, IndexSound
<1>2. PICK p \in 1..Len(order) : order[p] = items[k]
  BY <1>1, LinkedPosition
<1>3. ASSUME NEW q \in 1..Len(order), order[q].key = k, q < p
      PROVE  FALSE
  <2>1. items[order[p].key] # order[p]
    BY <1>1, <1>2, <1>3 DEF StoreInv, NewestWins
  <2> QED BY <2>1, <1>1, <1>2
<1>4. Len(order) \in Nat
  BY DEF StoreType
<1> QED BY <1>1, <1>2, <1>3, <1>4

(* Unlinking what a key is indexed to, and its index entry with it.        *)
LEMMA UnlinkKeeps ==
    ASSUME CacheAssumption, NilAssumption, StoreType, StoreInv,
           NEW k \in Keys, items[k] # Nil,
           order' = Unlink(order, items[k]),
           items' = [items EXCEPT ![k] = Nil],
           now' = now
    PROVE  StoreType' /\ StoreInv'
<1>1. PICK p \in 1..Len(order) : order[p] = items[k] /\ order[p].key = k
  BY IndexPosition
<1>2. Distinct(order)
  BY BoundedDistinct DEF StoreInv
<1>3. /\ order \in Seq(Element)
      /\ Len(order) \in Nat
  BY DEF StoreType
<1>4. /\ order' \in Seq(Element)
      /\ Len(order') = Len(order) - 1
      /\ \A i \in 1..(Len(order) - 1) :
            order'[i] = IF i < p THEN order[i] ELSE order[i + 1]
  BY <1>1, <1>2, <1>3, UnlinkFacts
<1> DEFINE h(i) == IF i < p THEN i ELSE i + 1
<1>5. \A i \in 1..Len(order') :
         h(i) \in 1..Len(order) /\ h(i) # p /\ order'[i] = order[h(i)]
  BY <1>3, <1>4
<1>6. \A i, j \in 1..Len(order') : i < j => h(i) < h(j)
  BY <1>3, <1>4
<1>7. \A q \in 1..Len(order) : q # p => \E i \in 1..Len(order') : h(i) = q
  <2>1. SUFFICES ASSUME NEW q \in 1..Len(order), q # p
                 PROVE  \E i \in 1..Len(order') : h(i) = q
    OBVIOUS
  <2>2. CASE q < p
    BY <2>1, <2>2, <1>3, <1>4
  <2>3. CASE q > p
    <3>1. q - 1 \in 1..Len(order') /\ h(q - 1) = q
      BY <2>1, <2>3, <1>3, <1>4
    <3> QED BY <3>1
  <2> QED BY <2>1, <2>2, <2>3
<1> HIDE DEF h
<1>8. StoreType'
  BY <1>4 DEF StoreType
<1>9. IndexSound'
  <2>1. SUFFICES ASSUME NEW l \in Keys, items'[l] # Nil
                 PROVE  items'[l] \in Linked' /\ items'[l].key = l
    BY DEF IndexSound
  <2>2. l # k /\ items'[l] = items[l]
    BY <2>1 DEF StoreType
  <2>3. PICK q \in 1..Len(order) : order[q] = items[l] /\ order[q].key = l
    BY <2>1, <2>2, IndexPosition
  <2>4. PICK i \in 1..Len(order') : h(i) = q
    BY <2>2, <2>3, <1>1, <1>7
  <2>5. order'[i] = items'[l]
    BY <2>2, <2>3, <2>4, <1>5
  <2> QED BY <2>2, <2>3, <2>5 DEF Linked
<1>10. Bounded'
  <2>1. Len(order') <= MaxSize
    BY <1>3, <1>4 DEF StoreInv, Bounded, CacheAssumption
  <2>2. \A i, j \in 1..Len(order') : h(i) = h(j) => i = j
    BY <1>3, <1>4 DEF h
  <2>3. \A i, j \in 1..Len(order') : order'[i].id = order'[j].id => i = j
    <3>1. SUFFICES ASSUME NEW i \in 1..Len(order'), NEW j \in 1..Len(order'),
                          order'[i].id = order'[j].id
                   PROVE  h(i) = h(j)
      BY <2>2
    <3>2. h(i) \in 1..Len(order) /\ h(j) \in 1..Len(order)
      BY <1>5
    <3>3. order[h(i)].id = order[h(j)].id
      BY <3>1, <1>5
    <3> QED BY <3>2, <3>3 DEF StoreInv, Bounded
  <2> QED BY <2>1, <2>3 DEF Bounded
<1>11. NewestWins'
  <2>1. SUFFICES ASSUME NEW i \in 1..Len(order'), NEW j \in 1..Len(order'),
                        i < j, order'[i].key = order'[j].key
                 PROVE  /\ items'[order'[j].key] # order'[j]
                        /\ order'[j].expires <= order'[i].expires
    BY DEF NewestWins
  <2>2. /\ h(i) \in 1..Len(order) /\ order'[i] = order[h(i)]
        /\ h(j) \in 1..Len(order) /\ order'[j] = order[h(j)]
        /\ h(i) < h(j)
    BY <2>1, <1>5, <1>6
  <2>3. /\ items[order[h(j)].key] # order[h(j)]
        /\ order[h(j)].expires <= order[h(i)].expires
    BY <2>1, <2>2 DEF StoreInv, NewestWins
  <2>4. order[h(j)] \in Element
    BY <2>2, <1>3
  <2>5. order[h(j)].key \in Keys /\ order[h(j)] # Nil
    BY <2>4 DEF NilAssumption, Element
  <2> QED BY <2>2, <2>3, <2>5 DEF StoreType
<1>12. Horizon' /\ LinkedFits'
  BY <1>5 DEF StoreInv, Horizon, LinkedFits
<1> QED BY <1>8, <1>9, <1>10, <1>11, <1>12 DEF StoreInv

(* Moving what a key is indexed to, which is the first of its key, to the  *)
(* front.                                                                  *)
LEMMA MoveToFrontKeeps ==
    ASSUME CacheAssumption, StoreType, StoreInv,
           NEW k \in Keys, items[k] # Nil,
           order' = MoveToFront(order, items[k]),
           items' = items,
           now' = now
    PROVE  StoreType' /\ StoreInv'
<1>1. PICK p \in 1..Len(order) :
              /\ order[p] = items[k]
              /\ order[p].key = k
              /\ \A q \in 1..Len(order) : order[q].key = k => p <= q
  BY IndexPosition
<1>2. Distinct(order)
  BY BoundedDistinct DEF StoreInv
<1>3. /\ order \in Seq(Element)
      /\ Len(order) \in Nat
  BY DEF StoreType
<1>4. /\ order' \in Seq(Element)
      /\ Len(order') = Len(order)
      /\ order'[1] = order[p]
      /\ \A i \in 2..Len(order) :
            order'[i] = IF i <= p THEN order[i - 1] ELSE order[i]
  BY <1>1, <1>2, <1>3, MoveToFrontFacts
<1> DEFINE h(i) == IF i = 1 THEN p ELSE IF i <= p THEN i - 1 ELSE i
<1>5. \A i \in 1..Len(order') : h(i) \in 1..Len(order) /\ order'[i] = order[h(i)]
  BY <1>3, <1>4
<1>6. \A i, j \in 1..Len(order') : i < j /\ i # 1 => h(i) < h(j)
  BY <1>3, <1>4
<1>7. \A q \in 1..Len(order) : \E i \in 1..Len(order') : h(i) = q
  <2>1. SUFFICES ASSUME NEW q \in 1..Len(order)
                 PROVE  \E i \in 1..Len(order') : h(i) = q
    OBVIOUS
  <2>2. CASE q < p
    <3>1. q + 1 \in 1..Len(order') /\ h(q + 1) = q
      BY <2>1, <2>2, <1>3, <1>4
    <3> QED BY <3>1
  <2>3. CASE q = p
    <3>1. 1 \in 1..Len(order') /\ h(1) = q
      BY <2>1, <2>3, <1>3, <1>4
    <3> QED BY <3>1
  <2>4. CASE q > p
    <3>1. q \in 1..Len(order') /\ h(q) = q
      BY <2>1, <2>4, <1>3, <1>4
    <3> QED BY <3>1
  <2> QED BY <2>2, <2>3, <2>4
<1>8. \A i, j \in 1..Len(order') : h(i) = h(j) => i = j
  BY <1>3, <1>4
<1>9. h(1) = p
  OBVIOUS
<1> HIDE DEF h
<1>10. StoreType'
  BY <1>4 DEF StoreType
<1>11. IndexSound'
  <2>1. SUFFICES ASSUME NEW l \in Keys, items[l] # Nil
                 PROVE  items[l] \in Linked' /\ items[l].key = l
    BY DEF IndexSound
  <2>2. PICK q \in 1..Len(order) : order[q] = items[l] /\ order[q].key = l
    BY <2>1, IndexPosition
  <2>3. PICK i \in 1..Len(order') : h(i) = q
    BY <2>2, <1>7
  <2>4. order'[i] = items[l]
    BY <2>2, <2>3, <1>5
  <2> QED BY <2>2, <2>4 DEF Linked
<1>12. Bounded'
  <2>1. Len(order') <= MaxSize
    BY <1>3, <1>4 DEF StoreInv, Bounded, CacheAssumption
  <2>2. \A i, j \in 1..Len(order') : order'[i].id = order'[j].id => i = j
    <3>1. SUFFICES ASSUME NEW i \in 1..Len(order'), NEW j \in 1..Len(order'),
                          order'[i].id = order'[j].id
                   PROVE  h(i) = h(j)
      BY <1>8
    <3>2. h(i) \in 1..Len(order) /\ h(j) \in 1..Len(order)
      BY <1>5
    <3>3. order[h(i)].id = order[h(j)].id
      BY <3>1, <1>5
    <3> QED BY <3>2, <3>3 DEF StoreInv, Bounded
  <2> QED BY <2>1, <2>2 DEF Bounded
<1>13. NewestWins'
  <2>1. SUFFICES ASSUME NEW i \in 1..Len(order'), NEW j \in 1..Len(order'),
                        i < j, order'[i].key = order'[j].key
                 PROVE  /\ items[order'[j].key] # order'[j]
                        /\ order'[j].expires <= order'[i].expires
    BY DEF NewestWins
  <2>2. /\ h(i) \in 1..Len(order) /\ order'[i] = order[h(i)]
        /\ h(j) \in 1..Len(order) /\ order'[j] = order[h(j)]
    BY <1>5
  <2>3. h(i) < h(j)
    <3>1. CASE i # 1
      BY <2>1, <3>1, <1>6
    <3>2. CASE i = 1
      <4>1. order[h(j)].key = k
        BY <2>1, <2>2, <3>2, <1>1, <1>9
      <4>2. p <= h(j)
        BY <4>1, <2>2, <1>1
      <4>3. h(j) # p
        BY <2>1, <3>2, <1>8, <1>9
      <4> QED BY <4>2, <4>3, <3>2, <1>9, <2>2
    <3> QED BY <3>1, <3>2
  <2> QED BY <2>1, <2>2, <2>3 DEF StoreInv, NewestWins
<1>14. Horizon' /\ LinkedFits'
  BY <1>5 DEF StoreInv, Horizon, LinkedFits
<1> QED BY <1>10, <1>11, <1>12, <1>13, <1>14 DEF StoreInv

(* The bounded list always leaves an identity for one more element.        *)
LEMMA FreshId ==
    ASSUME CacheAssumption, StoreType, Bounded
    PROVE  \E n \in 0..MaxSize : \A i \in 1..Len(order) : order[i].id # n
<1>1. Len(order) \in Nat /\ Len(order) <= MaxSize /\ MaxSize \in Nat
  BY DEF StoreType, Bounded, CacheAssumption
<1> DEFINE used == {order[i].id : i \in 1..Len(order)}
           id   == [i \in 1..Len(order) |-> order[i].id]
<1>3. IsFiniteSet(used) /\ Cardinality(used) <= Len(order)
  <2>1. id \in [1..Len(order) -> used] /\ \A t \in used : \E i \in 1..Len(order) : id[i] = t
    OBVIOUS
  <2> HIDE DEF id, used
  <2>2. ExistsSurjection(1..Len(order), used)
    BY <2>1 DEF ExistsSurjection, Surjection
  <2> QED BY <2>2, <1>1, FS_NatSurjection, FS_SurjCardinalityBound
<1>4. IsFiniteSet(0..MaxSize) /\ Cardinality(0..MaxSize) = MaxSize + 1
  <2>1. Cardinality(0..MaxSize) = IF 0 > MaxSize THEN 0 ELSE MaxSize - 0 + 1
    BY <1>1, FS_Interval
  <2> QED BY <2>1, <1>1, FS_Interval
<1>5. ~ (0..MaxSize \subseteq used)
  <2>1. SUFFICES ASSUME 0..MaxSize \subseteq used
                 PROVE  FALSE
    OBVIOUS
  <2>2. Cardinality(0..MaxSize) <= Cardinality(used)
    BY <2>1, <1>3, FS_Subset
  <2>3. Cardinality(used) \in Nat
    BY <1>3, FS_CardinalityType
  <2> QED BY <2>2, <2>3, <1>1, <1>3, <1>4
<1> QED BY <1>5

LEMMA NewElementFacts ==
    ASSUME CacheAssumption, TypeOK, Bounded, NEW k \in Keys, NEW a \in Answers
    PROVE  /\ NewElement(k, a) \in Element
           /\ NewElement(k, a).key = k
           /\ NewElement(k, a).answer = a
           /\ NewElement(k, a).expires = now + TTL
           /\ \A i \in 1..Len(order) : order[i].id # NewElement(k, a).id
<1> DEFINE n == CHOOSE n \in 0..MaxSize : \A i \in 1..Len(order) : order[i].id # n
<1>1. n \in 0..MaxSize /\ \A i \in 1..Len(order) : order[i].id # n
  BY FreshId DEF TypeOK, StoreType
<1>2. NewElement(k, a) = [id |-> n, key |-> k, answer |-> a, expires |-> now + TTL]
  BY DEF NewElement
<1> HIDE DEF n
<1>3. now + TTL \in Nat
  BY DEF TypeOK, CacheAssumption
<1> QED BY <1>1, <1>2, <1>3 DEF Element

(* Linking a new element in front, whatever its key, and evicting.         *)
LEMMA InsertKeeps ==
    ASSUME CacheAssumption, NilAssumption, TypeOK, StoreInv, AnsweredFits,
           NEW r \in Callers, Insert(r)
    PROVE  StoreType' /\ StoreInv'
<1>1. StoreType
  BY DEF TypeOK, StoreType
<1>2. CASE ~ (MaxSize > 0)
  BY <1>1, <1>2 DEF Insert, StoreType, StoreInv, IndexSound, Linked, Bounded,
                    NewestWins, Horizon, LinkedFits
<1>3. CASE MaxSize > 0
  <2> DEFINE k       == asked[r]
             el      == NewElement(k, answer[r])
             linked  == PushFront(order, el)
             evicted == EvictedKeys(linked)
  <2>1. /\ k \in Keys /\ answer[r] \in Answers /\ answer[r] \in Decide[k]
        /\ now' = now
        /\ order' = Keep(linked, MaxSize)
        /\ items' = [l \in Keys |-> IF l \in evicted THEN Nil
                                    ELSE IF l = k THEN el ELSE items[l]]
    BY <1>3 DEF Insert, TypeOK, AnsweredFits
  <2>2. /\ el \in Element /\ el.key = k /\ el.answer = answer[r]
        /\ el.expires = now + TTL
        /\ \A i \in 1..Len(order) : order[i].id # el.id
    BY <2>1, NewElementFacts DEF StoreInv
  <2> HIDE DEF el
  <2>3. /\ order \in Seq(Element) /\ Len(order) \in Nat /\ Len(order) <= MaxSize
        /\ MaxSize \in Nat
    BY <1>1 DEF StoreType, StoreInv, Bounded, CacheAssumption
  <2>4. /\ linked \in Seq(Element) /\ Len(linked) = Len(order) + 1
        /\ linked[1] = el
        /\ \A i \in 2..(Len(order) + 1) : linked[i] = order[i - 1]
    BY <2>2, <2>3, PushFrontFacts
  <2> HIDE DEF linked
  <2>5. /\ order' \in Seq(Element)
        /\ Len(order') = IF Len(order) + 1 > MaxSize THEN MaxSize ELSE Len(order) + 1
        /\ \A i \in 1..Len(order') : order'[i] = linked[i]
    BY <2>1, <2>3, <2>4, KeepFacts
  <2>6. /\ Len(order') \in 1..(Len(order) + 1)
        /\ order'[1] = el
        /\ \A i \in 2..Len(order') : order'[i] = order[i - 1] /\ i - 1 \in 1..Len(order)
    BY <1>3, <2>3, <2>4, <2>5
  <2>7. \A q \in 1..Len(order) :
           order[q].key \notin evicted => q + 1 \in 1..Len(order') /\ order'[q + 1] = order[q]
    <3>1. SUFFICES ASSUME NEW q \in 1..Len(order), order[q].key \notin evicted
                   PROVE  q + 1 \in 1..Len(order') /\ order'[q + 1] = order[q]
      OBVIOUS
    <3>2. linked[q + 1] = order[q]
      BY <2>3, <2>4
    <3>3. q + 1 \notin (MaxSize + 1)..Len(linked)
      BY <3>1, <3>2 DEF EvictedKeys, Evicted
    <3>4. q + 1 \in 1..Len(order')
      BY <3>3, <2>3, <2>4, <2>5
    <3> QED BY <3>2, <3>4, <2>5
  <2> HIDE DEF evicted, k
  <2>8. StoreType'
    BY <1>1, <2>1, <2>2, <2>5 DEF StoreType
  <2>9. IndexSound'
    <3>1. SUFFICES ASSUME NEW l \in Keys, items'[l] # Nil
                   PROVE  items'[l] \in Linked' /\ items'[l].key = l
      BY DEF IndexSound
    <3>2. l \notin evicted
      BY <2>1, <3>1
    <3>3. CASE l = k
      BY <2>1, <2>2, <2>6, <3>2, <3>3 DEF Linked
    <3>4. CASE l # k
      <4>1. items'[l] = items[l]
        BY <2>1, <3>2, <3>4
      <4>2. PICK q \in 1..Len(order) : order[q] = items[l] /\ order[q].key = l
        BY <1>1, <3>1, <4>1, IndexPosition
      <4>3. q + 1 \in 1..Len(order') /\ order'[q + 1] = items[l]
        BY <2>7, <3>2, <4>2
      <4> QED BY <4>1, <4>2, <4>3 DEF Linked
    <3> QED BY <3>3, <3>4
  <2>10. Bounded'
    <3>1. Len(order') <= MaxSize
      BY <2>3, <2>5
    <3>2. ASSUME NEW i \in 1..Len(order'), NEW j \in 1..Len(order'),
                 order'[i].id = order'[j].id
          PROVE  i = j
      <4>1. CASE i = 1 \/ j = 1
        BY <3>2, <4>1, <2>2, <2>6
      <4>2. CASE i # 1 /\ j # 1
        <5>1. /\ i \in 2..Len(order') /\ j \in 2..Len(order')
          BY <4>2, <2>6
        <5>2. /\ i - 1 \in 1..Len(order) /\ order'[i] = order[i - 1]
              /\ j - 1 \in 1..Len(order) /\ order'[j] = order[j - 1]
          BY <5>1, <2>6
        <5>3. i - 1 = j - 1
          BY <3>2, <5>2 DEF StoreInv, Bounded
        <5> QED BY <5>3
      <4> QED BY <4>1, <4>2
    <3>3. MaxSize' = MaxSize
      OBVIOUS
    <3> QED BY <3>1, <3>2, <3>3 DEF Bounded
  <2>11. NewestWins'
    <3>1. SUFFICES ASSUME NEW i \in 1..Len(order'), NEW j \in 1..Len(order'),
                          i < j, order'[i].key = order'[j].key
                   PROVE  /\ items'[order'[j].key] # order'[j]
                          /\ order'[j].expires <= order'[i].expires
      BY DEF NewestWins
    <3>2. j - 1 \in 1..Len(order) /\ order'[j] = order[j - 1]
      <4>1. j \in 2..Len(order')
        BY <3>1, <2>6
      <4> QED BY <4>1, <2>6
    <3>3. order[j - 1] \in Element
      BY <3>2, <2>3
    <3>4. order[j - 1].key \in Keys /\ order[j - 1] # Nil /\ order[j - 1] # el
      BY <3>2, <3>3, <2>2 DEF Element, NilAssumption
    <3>5. items'[order[j - 1].key] \in {Nil, el, items[order[j - 1].key]}
      BY <2>1, <3>4
    <3>6. CASE i = 1
      <4>1. order[j - 1].key = k
        BY <3>1, <3>2, <3>6, <2>2, <2>6
      <4>2. items'[order[j - 1].key] # order[j - 1]
        BY <4>1, <2>1, <3>4
      <4>3. order[j - 1].expires <= el.expires
        BY <3>2, <2>2 DEF StoreInv, Horizon
      <4> QED BY <4>2, <4>3, <3>2, <3>6, <2>6
    <3>7. CASE i # 1
      <4>1. i - 1 \in 1..Len(order) /\ order'[i] = order[i - 1]
        <5>1. i \in 2..Len(order')
          BY <3>7
        <5> QED BY <5>1, <2>6
      <4>2. i - 1 < j - 1
        BY <3>1
      <4>3. /\ items[order[j - 1].key] # order[j - 1]
            /\ order[j - 1].expires <= order[i - 1].expires
        BY <3>1, <3>2, <4>1, <4>2 DEF StoreInv, NewestWins
      <4> QED BY <4>1, <4>3, <3>2, <3>4, <3>5
    <3> QED BY <3>6, <3>7
  <2>12. Horizon'
    <3>1. ASSUME NEW i \in 1..Len(order')
          PROVE  order'[i].expires <= now' + TTL
      <4>1. CASE i = 1
        BY <4>1, <2>1, <2>2, <2>6 DEF TypeOK, CacheAssumption
      <4>2. CASE i # 1
        BY <4>2, <2>1, <2>6 DEF StoreInv, Horizon
      <4> QED BY <4>1, <4>2
    <3> QED BY <3>1 DEF Horizon
  <2>13. LinkedFits'
    <3>1. ASSUME NEW i \in 1..Len(order')
          PROVE  order'[i].answer \in Decide[order'[i].key]
      <4>1. CASE i = 1
        BY <4>1, <2>1, <2>2, <2>6
      <4>2. CASE i # 1
        BY <4>2, <2>6 DEF StoreInv, LinkedFits
      <4> QED BY <4>1, <4>2
    <3> QED BY <3>1 DEF LinkedFits
  <2> QED BY <2>8, <2>9, <2>10, <2>11, <2>12, <2>13 DEF StoreInv
<1> QED BY <1>2, <1>3

-----------------------------------------------------------------------------
LEMMA InitInv ==
    ASSUME CacheAssumption, Init
    PROVE  IInv
<1>1. TypeOK
  BY DEF Init, TypeOK, PcStates, CacheAssumption
<1>2. StoreInv
  BY DEF Init, StoreInv, IndexSound, Bounded, NewestWins, Horizon, LinkedFits, CacheAssumption
<1>3. AnsweredFits
  BY DEF Init, AnsweredFits
<1> QED BY <1>1, <1>2, <1>3 DEF IInv

(* A step that leaves the store and the clock alone leaves StoreInv alone. *)
LEMMA StoreUnchanged ==
    ASSUME StoreType, StoreInv, UNCHANGED <<now, items, order>>
    PROVE  StoreType' /\ StoreInv'
BY DEF StoreType, StoreInv, IndexSound, Linked, Bounded, NewestWins, Horizon, LinkedFits

(* What starting a lookup does to the caller.                              *)
LEMMA LooksKeeps ==
    ASSUME CacheAssumption, TypeOK, AnsweredFits, NEW r \in Callers,
           NEW k \in Keys \cup {NoKey}, NEW s \in {"idle", "inner", "bypass"},
           NEW a \in Answers \cup {Nil}, a # Nil => a \in Decide[k],
           s = "inner" => k \in Keys,
           Looks(r, k, s, a), StoreType'
    PROVE  TypeOK' /\ AnsweredFits'
<1>1. AnsweredFits'
  BY DEF Looks, AnsweredFits, TypeOK
<1>2. \A q \in Callers :
         /\ pc'[q] \in {"inner", "insert"} => asked'[q] \in Keys
         /\ pc'[q] = "insert" => answer'[q] # Nil
  BY DEF Looks, TypeOK
<1>3. /\ pc' \in [Callers -> PcStates]
      /\ asked' \in [Callers -> Keys \cup {NoKey}]
      /\ answer' \in [Callers -> Answers \cup {Nil}]
      /\ now' \in 0..MaxNow
  BY DEF Looks, TypeOK, PcStates
<1> QED BY <1>1, <1>2, <1>3 DEF TypeOK, StoreType

LEMMA StepInv ==
    ASSUME CacheAssumption, NilAssumption, IInv, [Next]_vars
    PROVE  IInv'
<1>0. /\ TypeOK /\ StoreInv /\ AnsweredFits /\ StoreType
      /\ IndexSound /\ Bounded /\ LinkedFits
  BY DEF IInv, TypeOK, StoreType, StoreInv
<1>1. ASSUME NEW r \in Callers, NEW k \in Keys \cup {NoKey}, Bypass(r, k)
      PROVE  IInv'
  <2>1. StoreType' /\ StoreInv'
    BY <1>0, <1>1, StoreUnchanged DEF Bypass, Looks
  <2>2. TypeOK' /\ AnsweredFits'
    BY <1>0, <1>1, <2>1, LooksKeeps DEF Bypass
  <2> QED BY <2>1, <2>2 DEF IInv
<1>2. ASSUME NEW r \in Callers, NEW k \in Keys \cup {NoKey}, Hit(r, k)
      PROVE  IInv'
  <2>1. k \in Keys /\ items[k] # Nil
    BY <1>2 DEF Hit, Cacheable
  <2>2. StoreType' /\ StoreInv'
    BY <1>0, <1>2, <2>1, MoveToFrontKeeps DEF Hit, Looks
  <2>3. items[k].answer \in Decide[k] /\ items[k].answer \in Answers
    <3>1. PICK p \in 1..Len(order) : order[p] = items[k] /\ order[p].key = k
      BY <1>0, <2>1, IndexPosition
    <3>2. order[p] \in Element
      BY <1>0, <3>1 DEF StoreType
    <3> QED BY <1>0, <3>1, <3>2 DEF LinkedFits, Element
  <2>4. TypeOK' /\ AnsweredFits'
    BY <1>0, <1>2, <2>2, <2>3, LooksKeeps DEF Hit
  <2> QED BY <2>2, <2>4 DEF IInv
<1>3. ASSUME NEW r \in Callers, NEW k \in Keys \cup {NoKey}, MissExpired(r, k)
      PROVE  IInv'
  <2>1. k \in Keys /\ items[k] # Nil
    BY <1>3 DEF MissExpired, Cacheable
  <2>2. StoreType' /\ StoreInv'
    BY <1>0, <1>3, <2>1, UnlinkKeeps DEF MissExpired, Looks
  <2>3. TypeOK' /\ AnsweredFits'
    BY <1>0, <1>3, <2>2, LooksKeeps DEF MissExpired, Cacheable
  <2> QED BY <2>2, <2>3 DEF IInv
<1>4. ASSUME NEW r \in Callers, NEW k \in Keys \cup {NoKey}, MissAbsent(r, k)
      PROVE  IInv'
  <2>1. StoreType' /\ StoreInv'
    BY <1>0, <1>4, StoreUnchanged DEF MissAbsent, Looks
  <2>2. TypeOK' /\ AnsweredFits'
    BY <1>0, <1>4, <2>1, LooksKeeps DEF MissAbsent, Cacheable
  <2> QED BY <2>1, <2>2 DEF IInv
<1>5. ASSUME NEW r \in Callers, NEW a \in Answers, InnerReturns(r, a)
      PROVE  IInv'
  <2>1. StoreType' /\ StoreInv'
    BY <1>0, <1>5, StoreUnchanged DEF InnerReturns
  <2>2. AnsweredFits'
    BY <1>0, <1>5 DEF InnerReturns, AnsweredFits, TypeOK
  <2>3. TypeOK'
    <3>1. pc[r] = "inner" => asked[r] \in Keys
      BY <1>0, <1>5 DEF TypeOK
    <3> QED BY <1>0, <1>5, <2>1, <3>1 DEF InnerReturns, TypeOK, PcStates, StoreType, CacheAssumption
  <2> QED BY <2>1, <2>2, <2>3 DEF IInv
<1>6. ASSUME NEW r \in Callers, InnerPanics(r)
      PROVE  IInv'
  <2>1. StoreType' /\ StoreInv'
    BY <1>0, <1>6, StoreUnchanged DEF InnerPanics
  <2>2. TypeOK' /\ AnsweredFits'
    BY <1>0, <1>6 DEF InnerPanics, TypeOK, PcStates, AnsweredFits
  <2> QED BY <2>1, <2>2 DEF IInv
<1>7. ASSUME NEW r \in Callers, Insert(r)
      PROVE  IInv'
  <2>1. StoreType' /\ StoreInv'
    BY <1>0, <1>7, InsertKeeps
  <2>2. /\ UNCHANGED <<now, asked, answer>>
        /\ pc' = [pc EXCEPT ![r] = "idle"]
    BY <1>7 DEF Insert
  <2>3. TypeOK' /\ AnsweredFits'
    BY <1>0, <2>1, <2>2 DEF TypeOK, PcStates, StoreType, AnsweredFits
  <2> QED BY <2>1, <2>3 DEF IInv
<1>8. ASSUME NEW k \in Keys, Invalidate(k)
      PROVE  IInv'
  <2>1. StoreType' /\ StoreInv'
    <3>1. CASE items[k] # Nil
      BY <1>0, <1>8, <3>1, UnlinkKeeps DEF Invalidate
    <3>2. CASE items[k] = Nil
      <4>1. UNCHANGED <<now, items, order>>
        BY <1>0, <1>8, <3>2 DEF Invalidate, StoreType
      <4> QED BY <1>0, <4>1, StoreUnchanged
    <3> QED BY <3>1, <3>2
  <2>2. UNCHANGED <<now, pc, asked, answer>>
    BY <1>8 DEF Invalidate
  <2>3. TypeOK' /\ AnsweredFits'
    BY <1>0, <2>1, <2>2 DEF TypeOK, StoreType, AnsweredFits
  <2> QED BY <2>1, <2>3 DEF IInv
<1>9. CASE InvalidateAll
  <2>1. StoreType' /\ StoreInv'
    <3>1. order' = << >> /\ items' = [k \in Keys |-> Nil] /\ MaxSize \in Nat
      BY <1>9 DEF InvalidateAll, CacheAssumption
    <3> QED BY <3>1 DEF StoreType, StoreInv, IndexSound, Bounded, NewestWins, Horizon, LinkedFits
  <2>2. UNCHANGED <<now, pc, asked, answer>>
    BY <1>9 DEF InvalidateAll
  <2>3. TypeOK' /\ AnsweredFits'
    BY <1>0, <2>1, <2>2 DEF TypeOK, StoreType, AnsweredFits
  <2> QED BY <2>1, <2>3 DEF IInv
<1>10. CASE Tick
  <2>1. /\ now' = now + 1 /\ now \in 0..MaxNow /\ now' \in 0..MaxNow
        /\ UNCHANGED <<items, order, pc, asked, answer>>
    BY <1>0, <1>10 DEF Tick, TypeOK, CacheAssumption
  <2>2. Horizon'
    <3>1. ASSUME NEW i \in 1..Len(order)
          PROVE  order[i].expires <= now' + TTL
      <4>1. order[i] \in Element
        BY <1>0 DEF StoreType
      <4>2. order[i].expires \in Nat /\ order[i].expires <= now + TTL
        BY <1>0, <4>1 DEF StoreInv, Horizon, Element
      <4> QED BY <2>1, <4>2 DEF CacheAssumption
    <3> QED BY <2>1, <3>1 DEF Horizon
  <2>3. StoreType' /\ StoreInv'
    BY <1>0, <2>1, <2>2 DEF StoreType, StoreInv, IndexSound, Linked, Bounded, NewestWins, LinkedFits
  <2>4. TypeOK' /\ AnsweredFits'
    BY <1>0, <2>1 DEF TypeOK, AnsweredFits
  <2> QED BY <2>3, <2>4 DEF IInv
<1>11. CASE UNCHANGED vars
  <2>1. StoreType' /\ StoreInv'
    BY <1>0, <1>11, StoreUnchanged DEF vars
  <2>2. TypeOK' /\ AnsweredFits'
    BY <1>0, <1>11 DEF vars, TypeOK, AnsweredFits
  <2> QED BY <2>1, <2>2 DEF IInv
<1> QED BY <1>1, <1>2, <1>3, <1>4, <1>5, <1>6, <1>7, <1>8, <1>9, <1>10, <1>11 DEF Next, Lookup

(* The inductive invariant holds throughout.                               *)
THEOREM Invariance == Spec => []IInv
<1>1. Init => IInv
  BY CacheAssumption, InitInv
<1>2. IInv /\ [Next]_vars => IInv'
  BY CacheAssumption, NilAssumption, StepInv
<1> QED BY <1>1, <1>2, PTL DEF Spec

(* The types are right.                                                    *)
THEOREM TypeCorrect == Spec => []TypeOK
<1>1. IInv => TypeOK
  BY DEF IInv
<1> QED BY <1>1, Invariance, PTL

(* The index never dangles, however callers race (pac/cache.go:126-170).   *)
THEOREM IndexIsSound == Spec => []IndexSound
<1>1. IInv => IndexSound
  BY DEF IInv, StoreInv
<1> QED BY <1>1, Invariance, PTL

(* The list stays within maxSize and free of duplicates.                   *)
THEOREM SizeIsBounded == Spec => []Bounded
<1>1. IInv => Bounded
  BY DEF IInv, StoreInv
<1> QED BY <1>1, Invariance, PTL

(* Of several elements of one key only the newest can be reached.          *)
THEOREM NewestIsReached == Spec => []NewestWins
<1>1. IInv => NewestWins
  BY DEF IInv, StoreInv
<1> QED BY <1>1, Invariance, PTL

(* Nobody gets a decision that was taken for another key.                  *)
THEOREM AnswersFit == Spec => []AnswerFitsKey
<1>1. IInv => AnswerFitsKey
  BY DEF IInv, StoreInv, LinkedFits, AnsweredFits, AnswerFitsKey, Linked
<1> QED BY <1>1, Invariance, PTL

-----------------------------------------------------------------------------
(* The implementation of DecisionCache.                                    *)
LEMMA OfferFacts ==
    \A o : o \in Offers <=>
        \E k \in Keys : /\ items[k] # Nil
                       /\ o = [key |-> k, answer |-> items[k].answer, expires |-> items[k].expires]
BY DEF Offers, Cached

LEMMA OfferFactsPrimed ==
    \A o : o \in Offers' <=>
        \E k \in Keys : /\ items'[k] # Nil
                       /\ o = [key |-> k, answer |-> items'[k].answer, expires |-> items'[k].expires]
BY DEF Offers, Cached

(* Clearing index entries only withdraws offers.                           *)
LEMMA OffersShrink ==
    ASSUME \A k \in Keys : items'[k] \in {Nil, items[k]}
    PROVE  Offers' \subseteq Offers
BY OfferFacts, OfferFactsPrimed

LEMMA StepKeepsPromise ==
    ASSUME CacheAssumption, IInv, IInv', [Next]_vars
    PROVE  [Promise!Next]_(Promise!vars)
<1>0. TypeOK
  BY DEF IInv
<1>1. ASSUME NEW r \in Callers, NEW k \in Keys \cup {NoKey}, Bypass(r, k)
      PROVE  Promise!Ask(r, k)
  <2>1. Offers' \subseteq Offers
    BY <1>1, OffersShrink DEF Bypass
  <2> QED BY <1>1, <2>1 DEF Bypass, Looks, Promise!Ask
<1>2. ASSUME NEW r \in Callers, NEW k \in Keys \cup {NoKey}, Hit(r, k)
      PROVE  Promise!Serve(r, k)
  <2>1. /\ k \in Keys /\ items[k] # Nil /\ now < items[k].expires
        /\ pc[r] = "idle" /\ pc' = [pc EXCEPT ![r] = "idle"]
        /\ answer' = [answer EXCEPT ![r] = items[k].answer]
        /\ asked' = [asked EXCEPT ![r] = k]
        /\ UNCHANGED <<now, items>>
    BY <1>2 DEF Hit, Fresh, Looks, Cacheable
  <2> DEFINE o == [key |-> k, answer |-> items[k].answer, expires |-> items[k].expires]
  <2>2. o \in Offers /\ o.key = k /\ o.answer = items[k].answer /\ o.expires = items[k].expires
    BY <2>1, OfferFacts
  <2> HIDE DEF o
  <2>3. pc' = pc
    BY <2>1, <1>0 DEF TypeOK
  <2>4. Offers' = Offers
    BY <2>1 DEF Offers, Cached
  <2> QED BY <2>1, <2>2, <2>3, <2>4 DEF Promise!Serve
<1>3. ASSUME NEW r \in Callers, NEW k \in Keys \cup {NoKey}, MissExpired(r, k)
      PROVE  Promise!Ask(r, k)
  <2>1. Offers' \subseteq Offers
    BY <1>0, <1>3, OffersShrink DEF MissExpired, TypeOK
  <2>2. (IF k = NoKey \/ TTL = 0 THEN "bypass" ELSE "inner") = "inner"
    BY <1>3 DEF MissExpired, Cacheable, CacheAssumption
  <2> QED BY <1>3, <2>1, <2>2 DEF MissExpired, Looks, Promise!Ask
<1>4. ASSUME NEW r \in Callers, NEW k \in Keys \cup {NoKey}, MissAbsent(r, k)
      PROVE  Promise!Ask(r, k)
  <2>1. Offers' \subseteq Offers
    BY <1>4, OffersShrink DEF MissAbsent
  <2>2. (IF k = NoKey \/ TTL = 0 THEN "bypass" ELSE "inner") = "inner"
    BY <1>4 DEF MissAbsent, Cacheable, CacheAssumption
  <2> QED BY <1>4, <2>1, <2>2 DEF MissAbsent, Looks, Promise!Ask
<1>5. ASSUME NEW r \in Callers, NEW a \in Answers, InnerReturns(r, a)
      PROVE  Promise!Compute(r, a)
  <2>1. Offers' = Offers
    BY <1>5 DEF InnerReturns, Offers, Cached
  <2> QED BY <1>5, <2>1 DEF InnerReturns, Promise!Compute
<1>6. ASSUME NEW r \in Callers, InnerPanics(r)
      PROVE  Promise!Abandon(r)
  <2>1. Offers' = Offers
    BY <1>6 DEF InnerPanics, Offers, Cached
  <2> QED BY <1>6, <2>1 DEF InnerPanics, Promise!Abandon
<1>7. ASSUME NEW r \in Callers, Insert(r)
      PROVE  Promise!Publish(r)
  <2> DEFINE fresh == [key |-> asked[r], answer |-> answer[r], expires |-> now + TTL]
  <2>1. asked[r] \in Keys /\ answer[r] \in Answers
    BY <1>0, <1>7 DEF Insert, TypeOK
  <2>2. Offers' \subseteq {o \in Offers : o.key # asked[r]} \cup {fresh}
    <3>1. CASE MaxSize > 0
      <4> DEFINE el == NewElement(asked[r], answer[r])
      <4>1. /\ el # Nil => el.answer = answer[r] /\ el.expires = now + TTL
        BY DEF NewElement
      <4>2. \A k \in Keys : \/ items'[k] = Nil
                            \/ k = asked[r] /\ items'[k] = el
                            \/ k # asked[r] /\ items'[k] = items[k]
        BY <1>7, <3>1 DEF Insert
      <4> HIDE DEF el
      <4>3. SUFFICES ASSUME NEW k \in Keys, items'[k] # Nil
                     PROVE  [key |-> k, answer |-> items'[k].answer, expires |-> items'[k].expires]
                              \in {o \in Offers : o.key # asked[r]} \cup {fresh}
        BY OfferFactsPrimed
      <4>4. CASE k = asked[r]
        BY <4>1, <4>2, <4>3, <4>4
      <4>5. CASE k # asked[r]
        BY <4>2, <4>3, <4>5, OfferFacts
      <4> QED BY <4>4, <4>5
    <3>2. CASE ~ (MaxSize > 0)
      <4>1. items' = items /\ order' = order
        BY <1>7, <3>2 DEF Insert
      <4>2. \A k \in Keys : items[k] = Nil
        <5>1. Len(order) \in Nat /\ Len(order) <= 0
          BY <1>0, <3>2 DEF IInv, StoreInv, Bounded, TypeOK, CacheAssumption
        <5>2. Linked = {}
          BY <5>1 DEF Linked
        <5> QED BY <5>2 DEF IInv, StoreInv, IndexSound
      <4>3. Offers' = {}
        BY <4>1, <4>2, OfferFactsPrimed
      <4> QED BY <4>3
    <3> QED BY <3>1, <3>2
  <2> QED BY <1>7, <2>2 DEF Insert, Promise!Publish
<1>8. ASSUME NEW k \in Keys, Invalidate(k)
      PROVE  Promise!Withdraw(k)
  <2>1. /\ items'[k] = Nil
        /\ \A l \in Keys : l # k => items'[l] = items[l]
    BY <1>0, <1>8 DEF Invalidate, TypeOK
  <2>2. Offers' = {o \in Offers : o.key # k}
    <3>1. ASSUME NEW o \in Offers'
          PROVE  o \in Offers /\ o.key # k
      BY <2>1, OfferFacts, OfferFactsPrimed
    <3>2. ASSUME NEW o \in Offers, o.key # k
          PROVE  o \in Offers'
      BY <2>1, <3>2, OfferFacts, OfferFactsPrimed
    <3> QED BY <3>1, <3>2
  <2> QED BY <1>8, <2>2 DEF Invalidate, Promise!Withdraw
<1>9. InvalidateAll => Promise!WithdrawAll
  BY DEF InvalidateAll, Promise!WithdrawAll, Offers, Cached
<1>10. Tick => Promise!Tick
  BY DEF Tick, Promise!Tick, Offers, Cached
<1>11. UNCHANGED vars => UNCHANGED Promise!vars
  BY DEF vars, Promise!vars, Offers, Cached
<1> QED BY <1>1, <1>2, <1>3, <1>4, <1>5, <1>6, <1>7, <1>8, <1>9, <1>10, <1>11
        DEF Next, Lookup, Promise!Next

(* The list, its index and its races implement DecisionCache: no decision  *)
(* is invented, kept past its TTL, or kept across a flush.                 *)
THEOREM Implements == Spec => KeepsPromise
<1>1. Init => Promise!Init
  BY DEF Init, Promise!Init, Offers, Cached
<1>2. IInv /\ IInv' /\ [Next]_vars => [Promise!Next]_(Promise!vars)
  BY CacheAssumption, StepKeepsPromise
<1> QED BY <1>1, <1>2, Invariance, PTL DEF Spec, KeepsPromise, Promise!Spec
=============================================================================
