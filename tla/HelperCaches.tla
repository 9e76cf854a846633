---------------------------- MODULE HelperCaches ----------------------------
(***************************************************************************)
(* The two memos behind the PAC helper functions (pacfunc/cache.go): name  *)
(* lookups, with a time limit that depends on their outcome, and compiled  *)
(* shell expressions, without one; both LRU and bounded.                   *)
(*                                                                         *)
(* Each get and each put is a critical section of the memo's own mutex and *)
(* one action; the lookup or the compilation runs between them, outside    *)
(* it.  The helpers are only ever called by a script, and a goroutine runs *)
(* a script only while it holds the mutex of OttoEngine; that mutex is     *)
(* engine here.                                                            *)
(***************************************************************************)
EXTENDS LruList, FiniteSets

CONSTANTS Callers,      \* goroutines that run the script
          Hosts, Patterns,
          BadPatterns,  \* patterns that do not compile
          DnsSize, ShExpSize,        \* maxSize of each memo
          PositiveTTL, NegativeTTL,  \* DNSPositiveTTL, DNSNegativeTTL
          MaxNow,       \* bound on the clock
          Nil

ASSUME HelperAssumption ==
    /\ DnsSize \in Nat \ {0} /\ ShExpSize \in Nat \ {0}
    /\ PositiveTTL \in Nat \ {0} /\ NegativeTTL \in Nat \ {0}
    /\ MaxNow \in Nat
    /\ BadPatterns \subseteq Patterns
    /\ Nil \notin Callers

VARIABLES now,
          engine,    \* the goroutine that holds the engine's mutex, or Nil
          dns,       \* dnsLookupCache.items: the entry of a host, or Nil
          dnsOrder,  \* dnsLookupCache.order, as hosts
          shexps,    \* shExpCache.items: the patterns it indexes
          shOrder,   \* shExpCache.order, as patterns
          clearing,  \* Clear is between its two critical sections
          pc,        \* where each goroutine is
          arg,       \* the host or the pattern of its last helper call
          found,     \* the entry it is about to store, or Nil
          reply      \* what its last name lookup returned, from where, how old

dnsVars == <<dns, dnsOrder>>
shVars  == <<shexps, shOrder>>
callVars == <<pc, arg, found, reply>>
vars == <<now, engine, dnsVars, shVars, clearing, callVars>>

Outcomes == {"address", "error"}

Ttl(outcome) == IF outcome = "address" THEN PositiveTTL ELSE NegativeTTL

(* A dnsEntry; at is history: when the resolver gave the outcome.          *)
Entry == [outcome : Outcomes, at : 0..MaxNow, expires : Nat]

ASSUME HelperNilAssumption == Nil \notin Entry

(* What a lookup returns; age is history: how long ago the resolver said   *)
(* so, which is the lookup's own question or, out of the memo, another's.  *)
Reply == [outcome : Outcomes, from : {"memo", "resolver"}, age : 0..MaxNow]

-----------------------------------------------------------------------------
Init ==
    /\ now = 0
    /\ engine = Nil
    /\ dns = [h \in Hosts |-> Nil] /\ dnsOrder = << >>
    /\ shexps = {} /\ shOrder = << >>
    /\ clearing = FALSE
    /\ pc = [c \in Callers |-> "out"]
    /\ arg = [c \in Callers |-> Nil]
    /\ found = [c \in Callers |-> Nil]
    /\ reply = [c \in Callers |-> Nil]

Goto(c, s) == pc' = [pc EXCEPT ![c] = s]

(* Mutant of MayEnter: evaluations overlap.                                *)
MayEnterTogether == TRUE

(* Nobody runs the script.                                                 *)
MayEnter == engine = Nil

EnterScript(c) ==
    /\ pc[c] = "out"
    /\ MayEnter
    /\ engine' = c
    /\ Goto(c, "script")
    /\ UNCHANGED <<now, clearing, dnsVars, shVars, arg, found, reply>>

LeaveScript(c) ==
    /\ pc[c] = "script"
    /\ engine' = Nil
    /\ Goto(c, "out")
    /\ UNCHANGED <<now, clearing, dnsVars, shVars, arg, found, reply>>

(* resolveHostCached: a fresh entry is answered and moved to the front, ...*)
DnsHit(c, h) ==
    /\ pc[c] = "script"
    /\ dns[h] # Nil /\ now < dns[h].expires
    /\ dnsOrder' = MoveToFront(dnsOrder, h)
    /\ reply' = [reply EXCEPT ![c] = [outcome |-> dns[h].outcome, from |-> "memo",
                                      age |-> now - dns[h].at]]
    /\ arg' = [arg EXCEPT ![c] = h]
    /\ UNCHANGED <<now, clearing, engine, dns, shVars, pc, found>>

(* Mutant of Unindexed: an expired entry is unlinked only.                 *)
StillIndexed(h) == dns

Unindexed(h) == [dns EXCEPT ![h] = Nil]

(* ... an expired one is dropped, and the resolver is asked.               *)
DnsMiss(c, h) ==
    /\ pc[c] = "script"
    /\ IF dns[h] = Nil
         THEN UNCHANGED dnsVars
         ELSE /\ now >= dns[h].expires
              /\ dnsOrder' = Unlink(dnsOrder, h)
              /\ dns' = Unindexed(h)
    /\ arg' = [arg EXCEPT ![c] = h]
    /\ Goto(c, "resolve")
    /\ UNCHANGED <<now, clearing, engine, shVars, found, reply>>

(* Mutant of AfterResolve: a failed lookup is not stored.                  *)
AfterResolveUnlessError(o) == IF o = "error" THEN "script" ELSE "store"

AfterResolve(o) == "store"

(* The resolver answers.                                                   *)
Resolved(c, o) ==
    /\ pc[c] = "resolve"
    /\ found' = [found EXCEPT ![c] = [outcome |-> o, at |-> now, expires |-> now + Ttl(o)]]
    /\ Goto(c, AfterResolve(o))
    /\ UNCHANGED <<now, clearing, engine, dnsVars, shVars, arg, reply>>

(* dnsCache.put: an entry that is there already keeps its outcome and only *)
(* has its life prolonged; otherwise the new one is linked, and the back   *)
(* of the list evicted.                                                    *)
DnsStore(c) ==
    /\ pc[c] = "store"
    /\ LET h == arg[c]
           linked == PushFront(dnsOrder, h)
       IN  IF dns[h] # Nil
             THEN /\ dns' = [dns EXCEPT ![h].expires = found[c].expires]
                  /\ dnsOrder' = MoveToFront(dnsOrder, h)
             ELSE /\ dnsOrder' = Keep(linked, DnsSize)
                  /\ dns' = [k \in Hosts |-> IF k \in Evicted(linked, DnsSize) THEN Nil
                                             ELSE IF k = h THEN found[c] ELSE dns[k]]
    /\ reply' = [reply EXCEPT ![c] = [outcome |-> found[c].outcome, from |-> "resolver",
                                      age |-> now - found[c].at]]
    /\ found' = [found EXCEPT ![c] = Nil]
    /\ Goto(c, "script")
    /\ UNCHANGED <<now, clearing, engine, shVars, arg>>

(* shExpRegexp: a compiled expression is used again, ...                   *)
ShExpHit(c, p) ==
    /\ pc[c] = "script"
    /\ p \in shexps
    /\ shOrder' = MoveToFront(shOrder, p)
    /\ arg' = [arg EXCEPT ![c] = p]
    /\ UNCHANGED <<now, clearing, engine, dnsVars, shexps, pc, found, reply>>

ShExpMiss(c, p) ==
    /\ pc[c] = "script"
    /\ p \notin shexps
    /\ arg' = [arg EXCEPT ![c] = p]
    /\ Goto(c, "compile")
    /\ UNCHANGED <<now, clearing, engine, dnsVars, shVars, found, reply>>

(* ... any other is compiled, and kept if that succeeds.                   *)
ShExpStore(c) ==
    /\ pc[c] = "compile"
    /\ LET p == arg[c]
           linked == PushFront(shOrder, p)
       IN  CASE p \in BadPatterns -> UNCHANGED shVars
             [] p \in shexps -> shOrder' = MoveToFront(shOrder, p) /\ UNCHANGED shexps
             [] OTHER -> /\ shOrder' = Keep(linked, ShExpSize)
                         /\ shexps' = (shexps \cup {p}) \ Evicted(linked, ShExpSize)
    /\ Goto(c, "script")
    /\ UNCHANGED <<now, clearing, engine, dnsVars, arg, found, reply>>

(* Clear empties one memo, then the other.  It needs no mutex but theirs.  *)
ClearShExps ==
    /\ ~ clearing
    /\ shexps' = {} /\ shOrder' = << >>
    /\ clearing' = TRUE
    /\ UNCHANGED <<now, engine, dnsVars, callVars>>

ClearDns ==
    /\ clearing
    /\ dns' = [h \in Hosts |-> Nil] /\ dnsOrder' = << >>
    /\ clearing' = FALSE
    /\ UNCHANGED <<now, engine, shVars, callVars>>

Tick ==
    /\ now < MaxNow
    /\ now' = now + 1
    /\ UNCHANGED <<engine, dnsVars, shVars, clearing, callVars>>

Next ==
    \/ \E c \in Callers : EnterScript(c) \/ LeaveScript(c) \/ DnsStore(c) \/ ShExpStore(c)
    \/ \E c \in Callers, h \in Hosts : DnsHit(c, h) \/ DnsMiss(c, h)
    \/ \E c \in Callers, o \in Outcomes : Resolved(c, o)
    \/ \E c \in Callers, p \in Patterns : ShExpHit(c, p) \/ ShExpMiss(c, p)
    \/ ClearShExps \/ ClearDns
    \/ Tick

Spec == Init /\ [][Next]_vars

-----------------------------------------------------------------------------
(* Every variable keeps its type; a goroutine inside a helper knows what   *)
(* the helper was called for.                                              *)
TypeOK ==
    /\ now \in 0..MaxNow
    /\ engine \in Callers \cup {Nil}
    /\ dns \in [Hosts -> Entry \cup {Nil}]
    /\ dnsOrder \in Seq(Hosts)
    /\ shexps \subseteq Patterns
    /\ shOrder \in Seq(Patterns)
    /\ clearing \in BOOLEAN
    /\ pc \in [Callers -> {"out", "script", "resolve", "store", "compile"}]
    /\ arg \in [Callers -> Hosts \cup Patterns \cup {Nil}]
    /\ found \in [Callers -> Entry \cup {Nil}]
    /\ reply \in [Callers -> Reply \cup {Nil}]
    /\ \A c \in Callers : pc[c] \in {"resolve", "store"} => arg[c] \in Hosts
    /\ \A c \in Callers : pc[c] = "compile" => arg[c] \in Patterns
    /\ \A c \in Callers : pc[c] = "store" <=> found[c] # Nil

(* In both memos list and index hold the same keys, each once, and no more *)
(* of them than the memo's size, whatever expires, is stored again or is   *)
(* evicted (pacfunc/cache.go:69-84, 137-171).                              *)
MemosSound ==
    /\ Distinct(dnsOrder) /\ Distinct(shOrder)
    /\ ToSet(dnsOrder) = {h \in Hosts : dns[h] # Nil}
    /\ ToSet(shOrder) = shexps /\ shexps \cap BadPatterns = {}
    /\ Len(dnsOrder) <= DnsSize /\ Len(shOrder) <= ShExpSize

(* The memo never tells a script an address DNSPositiveTTL or longer, or a *)
(* failure DNSNegativeTTL or longer, after the resolver said so; what a    *)
(* lookup has asked the resolver itself it returns, however long its       *)
(* goroutine was kept from doing so.  The memo does not see to that alone: *)
(* a put that finds an entry prolongs the old outcome by the new one's     *)
(* time (pacfunc/cache.go:157-160).  It holds because the engine's mutex   *)
(* keeps two evaluations from overlapping.                                 *)
RepliesAreFresh ==
    \A c \in Callers :
        reply[c] # Nil /\ reply[c].from = "memo" => reply[c].age < Ttl(reply[c].outcome)
=============================================================================
