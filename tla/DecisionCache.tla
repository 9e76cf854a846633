--------------------------- MODULE DecisionCache ---------------------------
(***************************************************************************)
(* What a time-limited cache in front of a slow decision procedure         *)
(* promises its callers, without saying how it stores anything.            *)
(*                                                                         *)
(* offers is the set of decisions the cache may still hand out.  The cache *)
(* may forget an offer whenever it touches its store, but it never invents *)
(* one, never hands one out after it expired, never offers two decisions   *)
(* for one key, and offers nothing across a flush.                         *)
(***************************************************************************)
EXTENDS Naturals

CONSTANTS Callers,   \* threads that ask for decisions
          Keys,      \* what a decision is cached under
          NoKey,     \* a request that has no key
          Answers,   \* the decisions
          Decide,    \* the decisions the procedure may take for a key
          TTL,       \* how long an offer lasts; 0: nothing is ever offered
          MaxNow,    \* bound on the clock
          Nil

VARIABLES now, pc, asked, answer, offers

vars == <<now, pc, asked, answer, offers>>

Offer == [key : Keys, answer : Answers, expires : Nat]

Init ==
    /\ now = 0
    /\ pc = [r \in Callers |-> "idle"]
    /\ asked = [r \in Callers |-> NoKey]
    /\ answer = [r \in Callers |-> Nil]
    /\ offers = {}

(* Answer at once with a decision on offer.                                *)
Serve(r, k) ==
    /\ pc[r] = "idle"
    /\ \E o \in offers :
          /\ o.key = k
          /\ now < o.expires
          /\ answer' = [answer EXCEPT ![r] = o.answer]
    /\ asked' = [asked EXCEPT ![r] = k]
    /\ UNCHANGED <<now, pc, offers>>

(* Send the caller to the decision procedure.                              *)
Ask(r, k) ==
    /\ pc[r] = "idle"
    /\ pc' = [pc EXCEPT ![r] = IF k = NoKey \/ TTL = 0 THEN "bypass" ELSE "inner"]
    /\ asked' = [asked EXCEPT ![r] = k]
    /\ answer' = [answer EXCEPT ![r] = Nil]
    /\ offers' \in SUBSET offers
    /\ UNCHANGED now

(* The procedure decides; a caller without a key is done.                  *)
Compute(r, a) ==
    /\ pc[r] \in {"inner", "bypass"}
    /\ a \in Decide[asked[r]]
    /\ pc' = [pc EXCEPT ![r] = IF @ = "inner" THEN "insert" ELSE "idle"]
    /\ answer' = [answer EXCEPT ![r] = a]
    /\ UNCHANGED <<now, asked, offers>>

(* The procedure fails without deciding.                                   *)
Abandon(r) ==
    /\ pc[r] \in {"inner", "bypass"}
    /\ pc' = [pc EXCEPT ![r] = "idle"]
    /\ UNCHANGED <<now, asked, answer, offers>>

(* The caller's decision replaces what was on offer for its key.           *)
Publish(r) ==
    /\ pc[r] = "insert"
    /\ LET fresh == [key |-> asked[r], answer |-> answer[r], expires |-> now + TTL]
       IN  offers' \in SUBSET ({o \in offers : o.key # asked[r]} \cup {fresh})
    /\ pc' = [pc EXCEPT ![r] = "idle"]
    /\ UNCHANGED <<now, asked, answer>>

Withdraw(k) ==
    /\ offers' = {o \in offers : o.key # k}
    /\ UNCHANGED <<now, pc, asked, answer>>

WithdrawAll ==
    /\ offers' = {}
    /\ UNCHANGED <<now, pc, asked, answer>>

Tick ==
    /\ now < MaxNow
    /\ now' = now + 1
    /\ UNCHANGED <<pc, asked, answer, offers>>

Next ==
    \/ \E r \in Callers, k \in Keys \cup {NoKey} : Serve(r, k) \/ Ask(r, k)
    \/ \E r \in Callers, a \in Answers : Compute(r, a)
    \/ \E r \in Callers : Abandon(r) \/ Publish(r)
    \/ \E k \in Keys : Withdraw(k)
    \/ WithdrawAll
    \/ Tick

Spec == Init /\ [][Next]_vars
=============================================================================
