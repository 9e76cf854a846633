------------------------- MODULE HelperCachesProofs -------------------------
(***************************************************************************)
(* Both memos of the PAC helpers stay sound and bounded, and neither tells *)
(* a script an outcome past its time, for any number of goroutines, hosts and  *)
(* patterns and any sizes and time limits.                                 *)
(***************************************************************************)
EXTENDS HelperCaches, LruListProofs

(* Only the goroutine that holds the engine's mutex is inside the script.  *)
OneInside == \A c \in Callers : pc[c] # "out" => engine = c

(* While a goroutine looks a name up, no entry for it appears: whoever     *)
(* could store one would be inside the script as well.                     *)
NotKnown == \A c \in Callers : pc[c] \in {"resolve", "store"} => dns[arg[c]] = Nil

(* An entry lives for exactly the time its own outcome is given.           *)
Dated(e) == e # Nil => e.at <= now /\ e.expires = e.at + Ttl(e.outcome)

EntriesDated == /\ \A h \in Hosts : Dated(dns[h])
                /\ \A c \in Callers : Dated(found[c])

IInv == TypeOK /\ MemosSound /\ OneInside /\ NotKnown /\ EntriesDated /\ RepliesAreFresh

(* Facts about entries and outcomes that need only the constants.          *)
LEMMA EntryFacts ==
    /\ \A o \in Outcomes : Ttl(o) \in Nat \ {0}
    /\ \A e \in Entry : /\ e # Nil
                        /\ e.outcome \in Outcomes /\ e.at \in 0..MaxNow /\ e.expires \in Nat
    /\ \A c \in Callers : c # Nil
BY HelperAssumption, HelperNilAssumption DEF Outcomes, Ttl, Entry

(* Both memos start empty and nobody is inside the script.                 *)
LEMMA InitHolds == Init => IInv
<1> SUFFICES ASSUME Init PROVE IInv
  OBVIOUS
<1>1. TypeOK
  <2>1. 0 \in 0..MaxNow /\ << >> \in Seq(Hosts) /\ << >> \in Seq(Patterns)
    BY HelperAssumption
  <2> QED BY <2>1 DEF Init, TypeOK
<1>2. MemosSound
  <2>1. /\ Len(<< >>) = 0 /\ Distinct(<< >>) /\ ToSet(<< >>) = {}
        /\ 0 <= DnsSize /\ 0 <= ShExpSize
    BY HelperAssumption DEF Distinct, ToSet
  <2>2. {h \in Hosts : dns[h] # Nil} = {}
    BY DEF Init
  <2> QED BY <2>1, <2>2 DEF Init, MemosSound
<1>3. OneInside /\ NotKnown /\ EntriesDated /\ RepliesAreFresh
  BY DEF Init, OneInside, NotKnown, EntriesDated, Dated, RepliesAreFresh
<1> QED BY <1>1, <1>2, <1>3 DEF IInv

-----------------------------------------------------------------------------
(* What the actions on the memos do to list and index, in terms of keys.   *)

(* A put links the looked-up host and evicts from the back.                *)
LEMMA DnsStoreFacts ==
    ASSUME IInv, NEW c \in Callers, DnsStore(c)
    PROVE  /\ arg[c] \in Hosts /\ dns[arg[c]] = Nil /\ found[c] \in Entry
           /\ dnsOrder' \in Seq(Hosts) /\ Distinct(dnsOrder') /\ Len(dnsOrder') <= DnsSize
           /\ dns' \in [Hosts -> Entry \cup {Nil}]
           /\ \A h \in Hosts : dns'[h] \in {dns[h], Nil} \/ dns'[h] = found[c]
           /\ ToSet(dnsOrder') = {h \in Hosts : dns'[h] # Nil}
<1> DEFINE a == arg[c]
           linked == PushFront(dnsOrder, a)
           gone == Evicted(linked, DnsSize)
<1>1. /\ a \in Hosts /\ dns[a] = Nil
      /\ found[c] \in Entry /\ found[c] # Nil
  BY DEF IInv, TypeOK, NotKnown, DnsStore
<1>2. /\ dnsOrder' = Keep(linked, DnsSize)
      /\ dns' = [k \in Hosts |-> IF k \in gone THEN Nil
                                 ELSE IF k = a THEN found[c] ELSE dns[k]]
  BY <1>1 DEF DnsStore
<1>3. /\ dnsOrder \in Seq(Hosts) /\ Distinct(dnsOrder)
      /\ ToSet(dnsOrder) = {h \in Hosts : dns[h] # Nil}
      /\ dns \in [Hosts -> Entry \cup {Nil}]
  BY DEF IInv, TypeOK, MemosSound
<1> HIDE DEF a
<1>4. a \notin ToSet(dnsOrder)
  BY <1>1, <1>3
<1>5. /\ linked \in Seq(Hosts) /\ Distinct(linked)
      /\ ToSet(linked) = ToSet(dnsOrder) \cup {a}
  BY <1>1, <1>3, <1>4, LinkMembers
<1>6. DnsSize \in Nat
  BY HelperAssumption
<1> HIDE DEF linked
<1>7. /\ Keep(linked, DnsSize) \in Seq(Hosts) /\ Len(Keep(linked, DnsSize)) <= DnsSize
      /\ Distinct(Keep(linked, DnsSize))
      /\ ToSet(Keep(linked, DnsSize)) = ToSet(linked) \ gone
  BY <1>5, <1>6, KeepMembers
<1> HIDE DEF gone
<1>8. dns' \in [Hosts -> Entry \cup {Nil}]
  BY <1>1, <1>2, <1>3
<1>9. \A h \in Hosts : dns'[h] \in {dns[h], Nil} \/ dns'[h] = found[c]
  BY <1>2
<1>10. ToSet(dnsOrder') = {h \in Hosts : dns'[h] # Nil}
  BY <1>1, <1>2, <1>3, <1>5, <1>7
<1> QED BY <1>1, <1>2, <1>7, <1>8, <1>9, <1>10 DEF a

(* A hit only reorders.                                                    *)
LEMMA DnsHitFacts ==
    ASSUME IInv, NEW c \in Callers, NEW h \in Hosts, DnsHit(c, h)
    PROVE  /\ dnsOrder' \in Seq(Hosts) /\ Distinct(dnsOrder')
           /\ Len(dnsOrder') = Len(dnsOrder) /\ ToSet(dnsOrder') = ToSet(dnsOrder)
<1>1. /\ dnsOrder \in Seq(Hosts) /\ Distinct(dnsOrder) /\ h \in ToSet(dnsOrder)
      /\ dnsOrder' = MoveToFront(dnsOrder, h)
  BY DEF IInv, TypeOK, MemosSound, DnsHit
<1> QED BY <1>1, MoveToFrontMembers

(* A miss leaves no entry of its host.                                     *)
LEMMA DnsMissFacts ==
    ASSUME IInv, NEW c \in Callers, NEW h \in Hosts, DnsMiss(c, h)
    PROVE  /\ dnsOrder' \in Seq(Hosts) /\ Distinct(dnsOrder') /\ Len(dnsOrder') <= DnsSize
           /\ dns' \in [Hosts -> Entry \cup {Nil}]
           /\ dns'[h] = Nil /\ \A k \in Hosts \ {h} : dns'[k] = dns[k]
           /\ ToSet(dnsOrder') = {k \in Hosts : dns'[k] # Nil}
<1>1. /\ dnsOrder \in Seq(Hosts) /\ Distinct(dnsOrder) /\ Len(dnsOrder) <= DnsSize
      /\ ToSet(dnsOrder) = {k \in Hosts : dns[k] # Nil}
      /\ dns \in [Hosts -> Entry \cup {Nil}]
  BY DEF IInv, TypeOK, MemosSound
<1>2. CASE dns[h] = Nil
  BY <1>1, <1>2 DEF DnsMiss, dnsVars
<1>3. CASE dns[h] # Nil
  <2>1. dnsOrder' = Unlink(dnsOrder, h) /\ dns' = [dns EXCEPT ![h] = Nil]
    BY <1>3 DEF DnsMiss, Unindexed
  <2>2. h \in ToSet(dnsOrder)
    BY <1>1, <1>3
  <2>3. /\ Unlink(dnsOrder, h) \in Seq(Hosts) /\ Distinct(Unlink(dnsOrder, h))
        /\ Len(Unlink(dnsOrder, h)) = Len(dnsOrder) - 1
        /\ ToSet(Unlink(dnsOrder, h)) = ToSet(dnsOrder) \ {h}
    BY <1>1, <2>2, UnlinkMembers
  <2>4. Len(dnsOrder') <= DnsSize
    BY <1>1, <2>1, <2>3, HelperAssumption
  <2>5. /\ dns' \in [Hosts -> Entry \cup {Nil}]
        /\ dns'[h] = Nil /\ \A k \in Hosts \ {h} : dns'[k] = dns[k]
    BY <1>1, <2>1
  <2>6. ToSet(dnsOrder') = {k \in Hosts : dns'[k] # Nil}
    BY <1>1, <2>1, <2>3, <2>5
  <2> QED BY <2>1, <2>3, <2>4, <2>5, <2>6
<1> QED BY <1>2, <1>3

(* A hit only reorders.                                                    *)
LEMMA ShExpHitFacts ==
    ASSUME IInv, NEW c \in Callers, NEW p \in Patterns, ShExpHit(c, p)
    PROVE  /\ shOrder' \in Seq(Patterns) /\ Distinct(shOrder')
           /\ Len(shOrder') = Len(shOrder) /\ ToSet(shOrder') = ToSet(shOrder)
<1>1. /\ shOrder \in Seq(Patterns) /\ Distinct(shOrder) /\ p \in ToSet(shOrder)
      /\ shOrder' = MoveToFront(shOrder, p)
  BY DEF IInv, TypeOK, MemosSound, ShExpHit
<1> QED BY <1>1, MoveToFrontMembers

(* Storing a pattern keeps list and index the same and within the size.    *)
LEMMA ShExpStoreFacts ==
    ASSUME IInv, NEW c \in Callers, ShExpStore(c)
    PROVE  /\ shexps' \subseteq Patterns /\ shexps' \cap BadPatterns = {}
           /\ shOrder' \in Seq(Patterns) /\ Distinct(shOrder') /\ Len(shOrder') <= ShExpSize
           /\ ToSet(shOrder') = shexps'
<1> DEFINE a == arg[c]
           linked == PushFront(shOrder, a)
           gone == Evicted(linked, ShExpSize)
<1>1. /\ shOrder \in Seq(Patterns) /\ Distinct(shOrder) /\ Len(shOrder) <= ShExpSize
      /\ ToSet(shOrder) = shexps /\ shexps \subseteq Patterns /\ shexps \cap BadPatterns = {}
      /\ a \in Patterns
  BY DEF IInv, TypeOK, MemosSound, ShExpStore
<1>2. CASE a \in BadPatterns
  BY <1>1, <1>2 DEF ShExpStore, shVars
<1>3. CASE a \notin BadPatterns /\ a \in shexps
  <2>1. shOrder' = MoveToFront(shOrder, a) /\ shexps' = shexps
    BY <1>3 DEF ShExpStore
  <2>2. a \in ToSet(shOrder)
    BY <1>1, <1>3
  <2> HIDE DEF a
  <2>3. /\ MoveToFront(shOrder, a) \in Seq(Patterns)
        /\ Len(MoveToFront(shOrder, a)) = Len(shOrder)
        /\ Distinct(MoveToFront(shOrder, a)) /\ ToSet(MoveToFront(shOrder, a)) = ToSet(shOrder)
    BY <1>1, <2>2, MoveToFrontMembers
  <2> QED BY <1>1, <2>1, <2>3
<1>4. CASE a \notin BadPatterns /\ a \notin shexps
  <2>1. /\ shOrder' = Keep(linked, ShExpSize)
        /\ shexps' = (shexps \cup {a}) \ gone
    BY <1>4 DEF ShExpStore
  <2>2. a \notin ToSet(shOrder)
    BY <1>1, <1>4
  <2> HIDE DEF a
  <2>3. /\ linked \in Seq(Patterns) /\ Distinct(linked)
        /\ ToSet(linked) = ToSet(shOrder) \cup {a}
    BY <1>1, <2>2, LinkMembers
  <2> HIDE DEF linked
  <2>4. /\ Keep(linked, ShExpSize) \in Seq(Patterns)
        /\ Len(Keep(linked, ShExpSize)) <= ShExpSize
        /\ Distinct(Keep(linked, ShExpSize))
        /\ ToSet(Keep(linked, ShExpSize)) = ToSet(linked) \ gone
    BY <2>3, HelperAssumption, KeepMembers
  <2> HIDE DEF gone
  <2> QED BY <1>1, <1>4, <2>1, <2>3, <2>4
<1> QED BY <1>2, <1>3, <1>4

-----------------------------------------------------------------------------
(* Clear leaves both memos empty.                                          *)
LEMMA EmptyFacts ==
    /\ Len(<< >>) = 0 /\ Distinct(<< >>) /\ ToSet(<< >>) = {}
    /\ \A n \in Nat : Len(<< >>) <= n
BY DEF Distinct, ToSet

(* Types.                                                                  *)
LEMMA TypeStep ==
    ASSUME IInv, [Next]_vars
    PROVE  TypeOK'
<1> USE DEF IInv, TypeOK, Goto, vars, dnsVars, shVars, callVars
<1>1. ASSUME NEW c \in Callers, EnterScript(c) PROVE TypeOK'
  BY <1>1 DEF EnterScript
<1>2. ASSUME NEW c \in Callers, LeaveScript(c) PROVE TypeOK'
  BY <1>2 DEF LeaveScript
<1>3. ASSUME NEW c \in Callers, DnsStore(c) PROVE TypeOK'
  <2>1. found[c].outcome \in Outcomes
    BY <1>3, DnsStoreFacts, EntryFacts
  <2>2. now - found[c].at \in 0..MaxNow
    <3>1. found[c] \in Entry /\ found[c].at \in 0..MaxNow /\ found[c].at <= now
      BY <1>3, DnsStoreFacts, EntryFacts DEF EntriesDated, Dated
    <3> QED BY <3>1, HelperAssumption
  <2>3. [outcome |-> found[c].outcome, from |-> "resolver", age |-> now - found[c].at] \in Reply
    BY <2>1, <2>2 DEF Reply
  <2>4. /\ reply' \in [Callers -> Reply \cup {Nil}]
        /\ found' \in [Callers -> Entry \cup {Nil}]
        /\ pc' \in [Callers -> {"out", "script", "resolve", "store", "compile"}]
        /\ \A d \in Callers : pc'[d] = "store" <=> found'[d] # Nil
        /\ \A d \in Callers : pc'[d] \in {pc[d], "script"}
        /\ UNCHANGED <<now, engine, arg, shexps, shOrder, clearing>>
    BY <1>3, <2>3 DEF DnsStore
  <2>5. dnsOrder' \in Seq(Hosts) /\ dns' \in [Hosts -> Entry \cup {Nil}]
    BY <1>3, DnsStoreFacts
  <2> QED BY <2>4, <2>5
<1>4. ASSUME NEW c \in Callers, ShExpStore(c) PROVE TypeOK'
  <2>1. shexps' \subseteq Patterns /\ shOrder' \in Seq(Patterns)
    BY <1>4, ShExpStoreFacts
  <2>2. /\ pc' = [pc EXCEPT ![c] = "script"] /\ pc[c] = "compile"
        /\ UNCHANGED <<now, clearing, engine, dns, dnsOrder, arg, found, reply>>
    BY <1>4 DEF ShExpStore
  <2> QED BY <2>1, <2>2
<1>5. ASSUME NEW c \in Callers, NEW h \in Hosts, DnsHit(c, h) PROVE TypeOK'
  <2>1. dnsOrder' \in Seq(Hosts)
    BY <1>5, DnsHitFacts
  <2>2. dns[h] \in Entry /\ dns[h].at <= now
    BY <1>5 DEF DnsHit, EntriesDated, Dated
  <2>3. dns[h].outcome \in Outcomes /\ now - dns[h].at \in 0..MaxNow
    BY <2>2, EntryFacts, HelperAssumption
  <2>4. [outcome |-> dns[h].outcome, from |-> "memo", age |-> now - dns[h].at] \in Reply
    BY <2>3 DEF Reply
  <2> QED BY <1>5, <2>1, <2>4 DEF DnsHit
<1>6. ASSUME NEW c \in Callers, NEW h \in Hosts, DnsMiss(c, h) PROVE TypeOK'
  <2>1. dnsOrder' \in Seq(Hosts) /\ dns' \in [Hosts -> Entry \cup {Nil}]
    BY <1>6, DnsMissFacts
  <2> QED BY <1>6, <2>1 DEF DnsMiss
<1>7. ASSUME NEW c \in Callers, NEW o \in Outcomes, Resolved(c, o) PROVE TypeOK'
  <2>1. now + Ttl(o) \in Nat
    BY EntryFacts, HelperAssumption
  <2>2. [outcome |-> o, at |-> now, expires |-> now + Ttl(o)] \in Entry
    BY <2>1 DEF Entry
  <2>3. [outcome |-> o, at |-> now, expires |-> now + Ttl(o)] # Nil
    BY <2>2, EntryFacts
  <2> QED BY <1>7, <2>2, <2>3 DEF Resolved, AfterResolve
<1>8. ASSUME NEW c \in Callers, NEW p \in Patterns, ShExpHit(c, p) PROVE TypeOK'
  <2>1. shOrder' \in Seq(Patterns)
    BY <1>8, ShExpHitFacts
  <2> QED BY <1>8, <2>1 DEF ShExpHit
<1>9. ASSUME NEW c \in Callers, NEW p \in Patterns, ShExpMiss(c, p) PROVE TypeOK'
  BY <1>9 DEF ShExpMiss
<1>10. CASE ClearShExps
  BY <1>10 DEF ClearShExps
<1>11. CASE ClearDns
  <2>1. [h \in Hosts |-> Nil] \in [Hosts -> Entry \cup {Nil}] /\ << >> \in Seq(Hosts)
    OBVIOUS
  <2>2. /\ dns' = [h \in Hosts |-> Nil] /\ dnsOrder' = << >> /\ clearing' = FALSE
        /\ UNCHANGED <<now, engine, shexps, shOrder, pc, arg, found, reply>>
    BY <1>11 DEF ClearDns
  <2> QED BY <2>1, <2>2
<1>12. CASE Tick
  BY <1>12, HelperAssumption DEF Tick
<1>13. CASE UNCHANGED vars
  BY <1>13
<1> QED BY <1>1, <1>2, <1>3, <1>4, <1>5, <1>6, <1>7, <1>8, <1>9, <1>10, <1>11, <1>12, <1>13 DEF Next

(* List and index of each memo.                                            *)
LEMMA MemosStep ==
    ASSUME IInv, [Next]_vars
    PROVE  MemosSound'
<1> USE DEF MemosSound, dnsVars, shVars
<1>0. MemosSound
  BY DEF IInv
<1>1. CASE UNCHANGED <<dnsVars, shVars>>
  BY <1>0, <1>1
<1>2. ASSUME NEW c \in Callers, DnsStore(c) PROVE MemosSound'
  <2>1. UNCHANGED shVars
    BY <1>2 DEF DnsStore
  <2> QED BY <1>0, <1>2, <2>1, DnsStoreFacts
<1>3. ASSUME NEW c \in Callers, NEW h \in Hosts, DnsHit(c, h) PROVE MemosSound'
  <2>1. UNCHANGED <<dns, shVars>>
    BY <1>3 DEF DnsHit
  <2> QED BY <1>0, <1>3, <2>1, DnsHitFacts
<1>4. ASSUME NEW c \in Callers, NEW h \in Hosts, DnsMiss(c, h) PROVE MemosSound'
  <2>1. UNCHANGED shVars
    BY <1>4 DEF DnsMiss
  <2> QED BY <1>0, <1>4, <2>1, DnsMissFacts
<1>5. ASSUME NEW c \in Callers, ShExpStore(c) PROVE MemosSound'
  <2>1. UNCHANGED dnsVars
    BY <1>5 DEF ShExpStore
  <2> QED BY <1>0, <1>5, <2>1, ShExpStoreFacts
<1>6. ASSUME NEW c \in Callers, NEW p \in Patterns, ShExpHit(c, p) PROVE MemosSound'
  <2>1. UNCHANGED <<dnsVars, shexps>>
    BY <1>6 DEF ShExpHit
  <2> QED BY <1>0, <1>6, <2>1, ShExpHitFacts
<1>7. CASE ClearShExps
  <2>1. UNCHANGED dnsVars /\ shexps' = {} /\ shOrder' = << >>
    BY <1>7 DEF ClearShExps
  <2> QED BY <1>0, <2>1, EmptyFacts, HelperAssumption
<1>8. CASE ClearDns
  <2>1. UNCHANGED shVars /\ dns' = [h \in Hosts |-> Nil] /\ dnsOrder' = << >>
    BY <1>8 DEF ClearDns
  <2> QED BY <1>0, <2>1, EmptyFacts, HelperAssumption
<1>9. ASSUME NEW c \in Callers, EnterScript(c) \/ LeaveScript(c) PROVE MemosSound'
  BY <1>1, <1>9 DEF EnterScript, LeaveScript
<1>10. ASSUME NEW c \in Callers, NEW o \in Outcomes, Resolved(c, o) PROVE MemosSound'
  BY <1>1, <1>10 DEF Resolved
<1>11. ASSUME NEW c \in Callers, NEW p \in Patterns, ShExpMiss(c, p) PROVE MemosSound'
  BY <1>1, <1>11 DEF ShExpMiss
<1>12. CASE Tick \/ UNCHANGED vars
  BY <1>1, <1>12 DEF Tick, vars
<1> QED BY <1>2, <1>3, <1>4, <1>5, <1>6, <1>7, <1>8, <1>9, <1>10, <1>11, <1>12 DEF Next

(* One goroutine inside the script.                                        *)
LEMMA InsideStep ==
    ASSUME IInv, [Next]_vars
    PROVE  OneInside'
<1> USE EntryFacts DEF OneInside, IInv, TypeOK, Goto
<1>1. ASSUME NEW c \in Callers, EnterScript(c) PROVE OneInside'
  BY <1>1 DEF EnterScript, MayEnter
<1>2. ASSUME NEW c \in Callers, LeaveScript(c) PROVE OneInside'
  BY <1>2 DEF LeaveScript
<1>3. ASSUME NEW c \in Callers, DnsStore(c) \/ ShExpStore(c) PROVE OneInside'
  BY <1>3 DEF DnsStore, ShExpStore
<1>4. ASSUME NEW c \in Callers, NEW h \in Hosts, DnsHit(c, h) \/ DnsMiss(c, h)
      PROVE  OneInside'
  BY <1>4 DEF DnsHit, DnsMiss
<1>5. ASSUME NEW c \in Callers, NEW o \in Outcomes, Resolved(c, o) PROVE OneInside'
  BY <1>5 DEF Resolved
<1>6. ASSUME NEW c \in Callers, NEW p \in Patterns, ShExpHit(c, p) \/ ShExpMiss(c, p)
      PROVE  OneInside'
  BY <1>6 DEF ShExpHit, ShExpMiss
<1>7. CASE ClearShExps \/ ClearDns \/ Tick \/ UNCHANGED vars
  BY <1>7 DEF ClearShExps, ClearDns, Tick, vars, callVars
<1> QED BY <1>1, <1>2, <1>3, <1>4, <1>5, <1>6, <1>7 DEF Next

(* No entry appears behind the back of a lookup.                           *)
LEMMA NotKnownStep ==
    ASSUME IInv, [Next]_vars
    PROVE  NotKnown'
<1> USE DEF NotKnown, IInv, TypeOK, Goto
<1>1. ASSUME NEW c \in Callers, EnterScript(c) \/ LeaveScript(c) PROVE NotKnown'
  BY <1>1 DEF EnterScript, LeaveScript, dnsVars
<1>2. ASSUME NEW c \in Callers, DnsStore(c) PROVE NotKnown'
  <2>1. pc[c] = "store" /\ pc' = [pc EXCEPT ![c] = "script"]
    BY <1>2 DEF DnsStore
  <2>2. \A d \in Callers : pc'[d] \notin {"resolve", "store"}
    BY <2>1 DEF OneInside
  <2> QED BY <2>2
<1>3. ASSUME NEW c \in Callers, NEW h \in Hosts, DnsHit(c, h) PROVE NotKnown'
  BY <1>3 DEF DnsHit
<1>4. ASSUME NEW c \in Callers, NEW h \in Hosts, DnsMiss(c, h) PROVE NotKnown'
  <2>1. dns'[h] = Nil /\ \A k \in Hosts \ {h} : dns'[k] = dns[k]
    BY <1>4, DnsMissFacts
  <2>2. pc' = [pc EXCEPT ![c] = "resolve"] /\ arg' = [arg EXCEPT ![c] = h]
    BY <1>4 DEF DnsMiss
  <2> QED BY <2>1, <2>2
<1>5. ASSUME NEW c \in Callers, NEW o \in Outcomes, Resolved(c, o) PROVE NotKnown'
  BY <1>5 DEF Resolved, AfterResolve, dnsVars
<1>6. ASSUME NEW c \in Callers, NEW p \in Patterns, ShExpHit(c, p) \/ ShExpMiss(c, p)
      PROVE  NotKnown'
  BY <1>6 DEF ShExpHit, ShExpMiss, dnsVars
<1>7. ASSUME NEW c \in Callers, ShExpStore(c) PROVE NotKnown'
  BY <1>7 DEF ShExpStore, dnsVars
<1>8. CASE ClearDns
  BY <1>8 DEF ClearDns, callVars
<1>9. CASE ClearShExps \/ Tick \/ UNCHANGED vars
  BY <1>9 DEF ClearShExps, Tick, vars, callVars, dnsVars
<1> QED BY <1>1, <1>2, <1>3, <1>4, <1>5, <1>6, <1>7, <1>8, <1>9 DEF Next

(* Entries keep the time of their own outcome.                             *)
LEMMA DatedStep ==
    ASSUME IInv, [Next]_vars
    PROVE  EntriesDated'
<1> USE DEF EntriesDated, Dated, IInv, TypeOK, Goto
<1>1. CASE UNCHANGED <<now, dns, found>>
  BY <1>1
<1>2. ASSUME NEW c \in Callers, DnsStore(c) PROVE EntriesDated'
  <2>1. \A h \in Hosts : dns'[h] \in {dns[h], Nil} \/ dns'[h] = found[c]
    BY <1>2, DnsStoreFacts
  <2>2. now' = now /\ found' = [found EXCEPT ![c] = Nil]
    BY <1>2 DEF DnsStore
  <2> QED BY <2>1, <2>2
<1>3. ASSUME NEW c \in Callers, NEW h \in Hosts, DnsMiss(c, h) PROVE EntriesDated'
  <2>1. dns'[h] = Nil /\ \A k \in Hosts \ {h} : dns'[k] = dns[k]
    BY <1>3, DnsMissFacts
  <2>2. now' = now /\ found' = found
    BY <1>3 DEF DnsMiss
  <2> QED BY <2>1, <2>2
<1>4. ASSUME NEW c \in Callers, NEW o \in Outcomes, Resolved(c, o) PROVE EntriesDated'
  <2> DEFINE e == [outcome |-> o, at |-> now, expires |-> now + Ttl(o)]
  <2>1. UNCHANGED <<now, dns>> /\ found' = [found EXCEPT ![c] = e]
    BY <1>4 DEF Resolved, dnsVars
  <2>2. e.at <= now /\ e.expires = e.at + Ttl(e.outcome)
    BY HelperAssumption
  <2> HIDE DEF e
  <2> QED BY <2>1, <2>2
<1>5. CASE ClearDns
  BY <1>5 DEF ClearDns, callVars
<1>6. CASE Tick
  <2>1. \A e \in Entry : e.at <= now => e.at <= now + 1
    BY EntryFacts, HelperAssumption
  <2>2. now' = now + 1 /\ UNCHANGED <<dns, found>>
    BY <1>6 DEF Tick, dnsVars, callVars
  <2> QED BY <2>1, <2>2
<1>7. ASSUME NEW c \in Callers, EnterScript(c) \/ LeaveScript(c) \/ ShExpStore(c)
      PROVE  EntriesDated'
  BY <1>1, <1>7 DEF EnterScript, LeaveScript, ShExpStore, dnsVars
<1>8. ASSUME NEW c \in Callers, NEW h \in Hosts, DnsHit(c, h) PROVE EntriesDated'
  BY <1>1, <1>8 DEF DnsHit
<1>9. ASSUME NEW c \in Callers, NEW p \in Patterns, ShExpHit(c, p) \/ ShExpMiss(c, p)
      PROVE  EntriesDated'
  BY <1>1, <1>9 DEF ShExpHit, ShExpMiss, dnsVars
<1>10. CASE ClearShExps \/ UNCHANGED vars
  BY <1>1, <1>10 DEF ClearShExps, vars, callVars, dnsVars
<1> QED BY <1>2, <1>3, <1>4, <1>5, <1>6, <1>7, <1>8, <1>9, <1>10 DEF Next

(* What a script is told is younger than its time allows.                  *)
LEMMA FreshStep ==
    ASSUME IInv, [Next]_vars
    PROVE  RepliesAreFresh'
<1> USE DEF RepliesAreFresh, IInv, TypeOK, Goto
<1>1. CASE UNCHANGED reply
  BY <1>1
<1>2. ASSUME NEW c \in Callers, DnsStore(c) PROVE RepliesAreFresh'
  <2> DEFINE r == [outcome |-> found[c].outcome, from |-> "resolver", age |-> now - found[c].at]
  <2>1. reply' = [reply EXCEPT ![c] = r]
    BY <1>2 DEF DnsStore
  <2>2. r.from # "memo"
    OBVIOUS
  <2> HIDE DEF r
  <2> QED BY <2>1, <2>2
<1>3. ASSUME NEW c \in Callers, NEW h \in Hosts, DnsHit(c, h) PROVE RepliesAreFresh'
  <2> DEFINE r == [outcome |-> dns[h].outcome, from |-> "memo", age |-> now - dns[h].at]
  <2>1. reply' = [reply EXCEPT ![c] = r] /\ dns[h] \in Entry /\ now < dns[h].expires
    BY <1>3 DEF DnsHit
  <2>2. dns[h].expires = dns[h].at + Ttl(dns[h].outcome)
    BY <1>3 DEF DnsHit, EntriesDated, Dated
  <2>3. dns[h].at \in 0..MaxNow /\ Ttl(dns[h].outcome) \in Nat
    BY <2>1, EntryFacts
  <2>4. r.age < Ttl(r.outcome)
    BY <2>1, <2>2, <2>3, HelperAssumption
  <2> HIDE DEF r
  <2> QED BY <2>1, <2>4
<1>4. ASSUME NEW c \in Callers,
             EnterScript(c) \/ LeaveScript(c) \/ ShExpStore(c) \/ (\E h \in Hosts : DnsMiss(c, h))
      PROVE  RepliesAreFresh'
  BY <1>1, <1>4 DEF EnterScript, LeaveScript, ShExpStore, DnsMiss
<1>5. ASSUME NEW c \in Callers, NEW o \in Outcomes, Resolved(c, o) PROVE RepliesAreFresh'
  BY <1>1, <1>5 DEF Resolved
<1>6. ASSUME NEW c \in Callers, NEW p \in Patterns, ShExpHit(c, p) \/ ShExpMiss(c, p)
      PROVE  RepliesAreFresh'
  BY <1>1, <1>6 DEF ShExpHit, ShExpMiss
<1>7. CASE ClearShExps \/ ClearDns \/ Tick \/ UNCHANGED vars
  BY <1>1, <1>7 DEF ClearShExps, ClearDns, Tick, vars, callVars
<1> QED BY <1>2, <1>3, <1>4, <1>5, <1>6, <1>7 DEF Next

-----------------------------------------------------------------------------
(* The parts are inductive together, though most of them not alone.        *)
LEMMA StepHolds == IInv /\ [Next]_vars => IInv'
BY TypeStep, MemosStep, InsideStep, NotKnownStep, DatedStep, FreshStep DEF IInv

(* The inductive invariant holds throughout.                               *)
LEMMA Invariance == Spec => []IInv
BY InitHolds, StepHolds, PTL DEF Spec

(* Every variable of the memos and of their callers keeps its type.        *)
THEOREM HelperTypes == Spec => []TypeOK
<1>1. IInv => TypeOK
  BY DEF IInv
<1> QED BY <1>1, Invariance, PTL

(* List and index of both memos agree, and neither outgrows its size       *)
(* (pacfunc/cache.go:52-84, 116-171).                                      *)
THEOREM MemosStaySound == Spec => []MemosSound
<1>1. IInv => MemosSound
  BY DEF IInv
<1> QED BY <1>1, Invariance, PTL

(* The memo tells no script an outcome older than that outcome may get:    *)
(* the put that would prolong a different outcome (pacfunc/cache.go:       *)
(* 157-160) finds no entry, since only one goroutine is inside the script, *)
(* whenever the clock ticks between the resolver's answer and that put.    *)
THEOREM NoReplyTooOld == Spec => []RepliesAreFresh
<1>1. IInv => RepliesAreFresh
  BY DEF IInv
<1> QED BY <1>1, Invariance, PTL
=============================================================================
