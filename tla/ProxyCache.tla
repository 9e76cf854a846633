----------------------------- MODULE ProxyCache -----------------------------
(***************************************************************************)
(* pac.CachingProxyFinder (pac/cache.go): the LRU, time-limited cache of   *)
(* PAC decisions.  A lookup holds the cache mutex twice, with the call of  *)
(* the wrapped finder in between and outside the mutex; each critical      *)
(* section is one action.  A lookup that misses goes                       *)
(*     idle -> inner (wrapped finder) -> insert (second section) -> idle   *)
(* and one that bypasses the cache                                         *)
(*     idle -> bypass (wrapped finder) -> idle.                            *)
(* An answer stands for the pair (proxies, err): errors are cached too.    *)
(***************************************************************************)
EXTENDS LruList, FiniteSets

CONSTANTS Callers,   \* goroutines that look proxies up
          Keys,      \* cache keys: host, path and query of a URL
          NoKey,     \* a URL without a host
          Answers,   \* the outcomes of the wrapped finder
          Decide,    \* the outcomes it may produce for a key
          MaxSize,   \* maxSize
          TTL,       \* ttl
          MaxNow,    \* bound on the clock
          Nil        \* the nil pointer; no answer yet

ASSUME CacheAssumption ==
    /\ MaxSize \in Nat
    /\ TTL \in Nat
    /\ MaxNow \in Nat
    /\ NoKey \notin Keys
    /\ Decide \in [Keys \cup {NoKey} -> SUBSET Answers]
    /\ Nil \notin Answers

VARIABLES now,       \* c.now()
          items,     \* c.items: the element a key is indexed to, or Nil
          order,     \* c.order
          pc,        \* where each caller is
          asked,     \* the key of each caller's last lookup
          answer     \* the decision each caller holds, or Nil

vars == <<now, items, order, pc, asked, answer>>

(* A list element with its proxyCacheEntry, which is never written after   *)
(* it is linked; id is the element's identity.                             *)
Element == [id : 0..MaxSize, key : Keys, answer : Answers, expires : Nat]

ASSUME NilAssumption == Nil \notin Element

NewElement(k, a) ==
    [id      |-> CHOOSE n \in 0..MaxSize : \A i \in 1..Len(order) : order[i].id # n,
     key     |-> k,
     answer  |-> a,
     expires |-> now + TTL]

-----------------------------------------------------------------------------
Init ==
    /\ now = 0
    /\ items = [k \in Keys |-> Nil]
    /\ order = << >>
    /\ pc = [r \in Callers |-> "idle"]
    /\ asked = [r \in Callers |-> NoKey]
    /\ answer = [r \in Callers |-> Nil]

(* A caller starts a lookup that ends in state s with decision a.          *)
Looks(r, k, s, a) ==
    /\ pc[r] = "idle"
    /\ pc' = [pc EXCEPT ![r] = s]
    /\ asked' = [asked EXCEPT ![r] = k]
    /\ answer' = [answer EXCEPT ![r] = a]
    /\ UNCHANGED now

Bypass(r, k) ==
    /\ k = NoKey \/ TTL = 0
    /\ Looks(r, k, "bypass", Nil)
    /\ UNCHANGED <<items, order>>

Cacheable(k) == k \in Keys /\ TTL > 0

(* Mutant of Fresh: an entry is served at the instant it expires, too.     *)
FreshTooLong(el) == now <= el.expires

Fresh(el) == now < el.expires

(* Mutant of Hit: keys of one host share their entries.                    *)
HitByHost(r, k) ==
    /\ Cacheable(k)
    /\ \E l \in Keys :
          /\ items[l] # Nil
          /\ Fresh(items[l])
          /\ order' = MoveToFront(order, items[l])
          /\ Looks(r, k, "idle", items[l].answer)
    /\ UNCHANGED items

Hit(r, k) ==
    /\ Cacheable(k)
    /\ items[k] # Nil
    /\ Fresh(items[k])
    /\ order' = MoveToFront(order, items[k])
    /\ Looks(r, k, "idle", items[k].answer)
    /\ UNCHANGED items

MissExpired(r, k) ==
    /\ Cacheable(k)
    /\ items[k] # Nil
    /\ ~ Fresh(items[k])
    /\ order' = Unlink(order, items[k])
    /\ items' = [items EXCEPT ![k] = Nil]
    /\ Looks(r, k, "inner", Nil)

MissAbsent(r, k) ==
    /\ Cacheable(k)
    /\ items[k] = Nil
    /\ Looks(r, k, "inner", Nil)
    /\ UNCHANGED <<items, order>>

Lookup(r, k) ==
    Bypass(r, k) \/ Hit(r, k) \/ MissExpired(r, k) \/ MissAbsent(r, k)

(* Mutant of InnerReturns: a bypassed lookup goes on to insert.            *)
InnerReturnsToInsert(r, a) ==
    /\ pc[r] \in {"inner", "bypass"}
    /\ a \in Decide[asked[r]]
    /\ pc' = [pc EXCEPT ![r] = "insert"]
    /\ answer' = [answer EXCEPT ![r] = a]
    /\ UNCHANGED <<now, items, order, asked>>

(* The wrapped finder returns, with or without an error.                   *)
InnerReturns(r, a) ==
    /\ pc[r] \in {"inner", "bypass"}
    /\ a \in Decide[asked[r]]
    /\ pc' = [pc EXCEPT ![r] = IF @ = "inner" THEN "insert" ELSE "idle"]
    /\ answer' = [answer EXCEPT ![r] = a]
    /\ UNCHANGED <<now, items, order, asked>>

(* The wrapped finder panics: no mutex is held and nothing is inserted.    *)
InnerPanics(r) ==
    /\ pc[r] \in {"inner", "bypass"}
    /\ pc' = [pc EXCEPT ![r] = "idle"]
    /\ UNCHANGED <<now, items, order, asked, answer>>

(* Mutant of EvictedKeys: evicting leaves the index alone.                 *)
NoKeys(list) == {}

(* The index entries that go with the elements an eviction takes.          *)
EvictedKeys(list) == {e.key : e \in Evicted(list, MaxSize)}

(* Mutant of Insert: a key that is indexed keeps its element.              *)
InsertUnlessIndexed(r) ==
    /\ pc[r] = "insert"
    /\ pc' = [pc EXCEPT ![r] = "idle"]
    /\ IF MaxSize > 0
         THEN LET el     == NewElement(asked[r], answer[r])
                  linked == PushFront(order, el)
              IN  /\ order' = Keep(linked, MaxSize)
                  /\ items' = [k \in Keys |->
                                 IF k \in EvictedKeys(linked) THEN Nil
                                 ELSE IF k = asked[r] /\ items[k] = Nil THEN el ELSE items[k]]
         ELSE UNCHANGED <<items, order>>
    /\ UNCHANGED <<now, asked, answer>>

(* The second critical section.  The new element is linked and indexed     *)
(* whether or not the key is indexed already; each element evicted takes   *)
(* the index entry of its key with it, whatever that entry points to.      *)
Insert(r) ==
    /\ pc[r] = "insert"
    /\ pc' = [pc EXCEPT ![r] = "idle"]
    /\ IF MaxSize > 0
         THEN LET el     == NewElement(asked[r], answer[r])
                  linked == PushFront(order, el)
              IN  /\ order' = Keep(linked, MaxSize)
                  /\ items' = [k \in Keys |->
                                 IF k \in EvictedKeys(linked) THEN Nil
                                 ELSE IF k = asked[r] THEN el ELSE items[k]]
         ELSE UNCHANGED <<items, order>>
    /\ UNCHANGED <<now, asked, answer>>

Invalidate(k) ==
    /\ order' = IF items[k] # Nil THEN Unlink(order, items[k]) ELSE order
    /\ items' = [items EXCEPT ![k] = Nil]
    /\ UNCHANGED <<now, pc, asked, answer>>

InvalidateAll ==
    /\ order' = << >>
    /\ items' = [k \in Keys |-> Nil]
    /\ UNCHANGED <<now, pc, asked, answer>>

Tick ==
    /\ now < MaxNow
    /\ now' = now + 1
    /\ UNCHANGED <<items, order, pc, asked, answer>>

Next ==
    \/ \E r \in Callers, k \in Keys \cup {NoKey} : Lookup(r, k)
    \/ \E r \in Callers, a \in Answers : InnerReturns(r, a)
    \/ \E r \in Callers : InnerPanics(r) \/ Insert(r)
    \/ \E k \in Keys : Invalidate(k)
    \/ InvalidateAll
    \/ Tick

Spec == Init /\ [][Next]_vars

-----------------------------------------------------------------------------
PcStates == {"idle", "inner", "bypass", "insert"}

(* Every variable keeps its type; a caller on its way to the second        *)
(* section has a real key, and a decision once the wrapped finder returned.*)
TypeOK ==
    /\ now \in 0..MaxNow
    /\ items \in [Keys -> Element \cup {Nil}]
    /\ order \in Seq(Element)
    /\ pc \in [Callers -> PcStates]
    /\ asked \in [Callers -> Keys \cup {NoKey}]
    /\ answer \in [Callers -> Answers \cup {Nil}]
    /\ \A r \in Callers : pc[r] \in {"inner", "insert"} => asked[r] \in Keys
    /\ \A r \in Callers : pc[r] = "insert" => answer[r] # Nil

Linked == {order[i] : i \in 1..Len(order)}

(* The index and the list agree in the direction the code relies on: what  *)
(* a key is indexed to is linked and was inserted under that key.  Lookups *)
(* and evictions of different callers interleave; a dangling index entry   *)
(* would make MoveToFront and Remove silent no-ops (pac/cache.go:132,137). *)
IndexSound ==
    \A k \in Keys : items[k] # Nil => items[k] \in Linked /\ items[k].key = k

(* The list never outgrows maxSize, and no element is linked twice under   *)
(* one identity, although concurrent misses insert one key several times   *)
(* (pac/cache.go:162-168).                                                 *)
Bounded ==
    /\ Len(order) <= MaxSize
    /\ \A i, j \in 1..Len(order) : order[i].id = order[j].id => i = j

(* Concurrent misses leave several elements of one key in the list.  The   *)
(* index never points to an older one of them: an element behind another   *)
(* of its key is unreachable and expires no later (pac/cache.go:162).      *)
NewestWins ==
    \A i, j \in 1..Len(order) :
        i < j /\ order[i].key = order[j].key
            => /\ items[order[j].key] # order[j]
               /\ order[j].expires <= order[i].expires

(* A decision is only ever answered to, or cached under, the key it was    *)
(* taken for, however lookups interleave with other callers' inserts and   *)
(* evictions (pac/cache.go:133, 156-162).                                  *)
AnswerFitsKey ==
    /\ \A r \in Callers : answer[r] # Nil => answer[r] \in Decide[asked[r]]
    /\ \A e \in Linked : e.answer \in Decide[e.key]

Cached == {k \in Keys : items[k] # Nil}

(* What the type comment says ("a bounded, TTL'd LRU cache",               *)
(* pac/cache.go:28): an insert pushes another key's decision out only when *)
(* the cache is full, that is when maxSize keys are cached.                *)
EvictsOnlyWhenFull ==
    [][\A r \in Callers :
          Insert(r) /\ ~ (Cached \subseteq Cached' \cup {asked[r]})
              => Cardinality(Cached) >= MaxSize]_vars

(* The cache keeps the promise of DecisionCache: its offers are what the   *)
(* index reaches, whatever else is linked.                                 *)
Offers ==
    {[key |-> k, answer |-> items[k].answer, expires |-> items[k].expires] : k \in Cached}

Promise == INSTANCE DecisionCache WITH offers <- Offers
KeepsPromise == Promise!Spec
=============================================================================
