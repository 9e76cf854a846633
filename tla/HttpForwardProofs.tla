------------------------- MODULE HttpForwardProofs -------------------------
(***************************************************************************)
(* Proofs about HttpForward, for any script, any requests and replies, and *)
(* answers of any length.                                                  *)
(***************************************************************************)
EXTENDS HttpForward, WellFoundedInduction, TLAPS

(* The answer is a record of its fields.                                   *)
ResponseOK ==
    response \in [status : {"none", "200", "502", "forwarded"}, headers : SUBSET STRING,
                  got : Nat, end : {"open", "complete", "cut"}]

(* The handler holds a connection while it sends, waits or copies, none    *)
(* before and none after, and runs only for a client that asked.           *)
Stages ==
    /\ conn # "none" <=> stage \in {"sending", "waiting", "copying"}
    /\ client \in {"idle", "closed"} => stage = "none"
    /\ stage # "none" => request # Nil
    /\ stage \in {"dispatch", "lookup", "dial", "sending", "waiting"} => response.status = "none"
    /\ stage = "copying" => reply # Nil /\ response.status = "forwarded"
    /\ response.status = "forwarded" => reply # Nil

(* A hop that is being dialled or used has no idle connection besides.     *)
OneEach == stage \in {"dial", "sending", "waiting", "copying"} /\ hop \in Hops => pool[hop] = "none"

(* The handler dials, sends, waits and copies by an answer that parsed.    *)
Parsed == stage \in {"dial", "sending", "waiting", "copying"} =>
              said # Nil /\ ParseFindProxyString(said) # Nil

(* The client has what copyHeaders left of the reply's headers.            *)
Filtered == response.status = "forwarded" => response.headers = Forwarded(reply)

(* The inductive invariant.                                                *)
IInv == /\ TypeOK /\ ResponseOK /\ Stages /\ OneEach /\ Parsed
        /\ CompleteMeansAll /\ Filtered /\ NoLeak

-----------------------------------------------------------------------------
(* A set of numbers that has 0, and with each number the next, has them    *)
(* all.  The library's induction theorems take an operator, which the      *)
(* provers cannot instantiate; that < is well founded is a plain fact, and *)
(* gives induction over a set.                                             *)
LEMMA Induction ==
    ASSUME NEW S \in SUBSET Nat, 0 \in S, \A n \in S : n + 1 \in S
    PROVE  Nat \subseteq S
<1> DEFINE Less == {p \in Nat \X Nat : p[1] < p[2]}
           Missing == Nat \ S
<1>1. IsWellFoundedOn(Less, Nat)
  <2>1. Less \cap (Nat \X Nat) \subseteq OpToRel(<, Nat)
    BY Zenon DEF OpToRel
  <2> QED BY <2>1, NatLessThanWellFounded, IsWellFoundedOnSubrelation, Zenon
<1>2. SUFFICES ASSUME Missing # {} PROVE FALSE
  OBVIOUS
<1>3. Missing \subseteq Nat
  OBVIOUS
<1>4. \E x \in Missing : \A y \in Missing : <<y, x>> \notin Less
  <2> HIDE DEF Less, Missing
  <2> QED BY <1>1, <1>2, <1>3, WFMin, Zenon
<1>5. PICK x \in Missing : \A y \in Missing : <<y, x>> \notin Less
  BY <1>4
<1>6. x \in Nat /\ x # 0 /\ x - 1 \in Nat /\ x - 1 < x
  OBVIOUS
<1>7. <<x - 1, x>> \in Less
  BY <1>6
<1>8. x - 1 \in S
  BY <1>5, <1>6, <1>7
<1>9. (x - 1) + 1 = x
  BY <1>6
<1> QED BY <1>8, <1>9

(* k is the value of the loop's variable after each of m statements.       *)
IsKept(s, k, m) ==
    k = [i \in 0..m |-> IF i = 0 THEN << >>
                        ELSE IF s[i] = Empty THEN k[i - 1] ELSE Append(k[i - 1], s[i])]

(* There is one, for any number of statements.                             *)
LEMMA KeptExists ==
    ASSUME NEW s
    PROVE  \A m \in Nat : \E k : IsKept(s, k, m)
<1> DEFINE M == {m \in Nat : \E k : IsKept(s, k, m)}
<1>1. 0 \in M
  <2> DEFINE k == [i \in 0..0 |-> << >>]
  <2>1. IsKept(s, k, 0)
    BY DEF IsKept
  <2> QED BY <2>1
<1>2. ASSUME NEW m \in M
      PROVE  m + 1 \in M
  <2>1. PICK k : IsKept(s, k, m)
    OBVIOUS
  <2> DEFINE l == [i \in 0..(m + 1) |->
                     IF i = m + 1 THEN IF s[i] = Empty THEN k[m] ELSE Append(k[m], s[i])
                     ELSE k[i]]
  <2>2. ASSUME NEW i \in 0..(m + 1)
        PROVE  l[i] = IF i = 0 THEN << >>
                      ELSE IF s[i] = Empty THEN l[i - 1] ELSE Append(l[i - 1], s[i])
    <3>1. CASE i = m + 1
      BY <3>1
    <3>2. CASE i # m + 1
      <4>1. i \in 0..m /\ l[i] = k[i] /\ (i # 0 => i - 1 \in 0..m /\ l[i - 1] = k[i - 1])
        BY <3>2
      <4>2. k[i] = IF i = 0 THEN << >>
                   ELSE IF s[i] = Empty THEN k[i - 1] ELSE Append(k[i - 1], s[i])
        BY <2>1, <4>1 DEF IsKept
      <4> QED BY <4>1, <4>2
    <3> QED BY <3>1, <3>2
  <2>3. IsKept(s, l, m + 1)
    BY <2>2 DEF IsKept
  <2> QED BY <2>3
<1> HIDE DEF M
<1>3. M \in SUBSET Nat
  BY DEF M
<1>4. Nat \subseteq M
  BY <1>1, <1>2, <1>3, Induction
<1> QED BY <1>4 DEF M

(* KeptUpTo is what its recursion says.                                    *)
LEMMA KeptStep ==
    ASSUME NEW S, NEW s \in Seq(S)
    PROVE  /\ KeptUpTo(s)[0] = << >>
           /\ \A i \in 1..Len(s) :
                 KeptUpTo(s)[i] = IF s[i] = Empty THEN KeptUpTo(s)[i - 1]
                                  ELSE Append(KeptUpTo(s)[i - 1], s[i])
<1> DEFINE kept == KeptUpTo(s)
<1>1. Len(s) \in Nat /\ \E k : IsKept(s, k, Len(s))
  BY KeptExists
<1>2. IsKept(s, kept, Len(s))
  <2>1. kept = CHOOSE k : IsKept(s, k, Len(s))
    BY DEF KeptUpTo, IsKept
  <2> QED BY <1>1, <2>1, Zenon
<1> HIDE DEF kept
<1>3. kept = [i \in 0..Len(s) |-> IF i = 0 THEN << >>
                                 ELSE IF s[i] = Empty THEN kept[i - 1]
                                 ELSE Append(kept[i - 1], s[i])]
  BY <1>2 DEF IsKept
<1>4. kept[0] = << >>
  BY <1>1, <1>3
<1>5. ASSUME NEW i \in 1..Len(s)
      PROVE  kept[i] = IF s[i] = Empty THEN kept[i - 1] ELSE Append(kept[i - 1], s[i])
  <2>1. i \in 0..Len(s) /\ i # 0
    BY <1>1
  <2>2. kept[i] = IF i = 0 THEN << >>
                  ELSE IF s[i] = Empty THEN kept[i - 1] ELSE Append(kept[i - 1], s[i])
    BY ONLY <1>3, <2>1
  <2> QED BY <2>1, <2>2
<1> QED BY <1>4, <1>5 DEF kept

(* The loop keeps nothing while all statements are empty, and then starts  *)
(* with the first that is not.                                             *)
LEMMA KeptAreFilled ==
    ASSUME NEW S, NEW s \in Seq(S), NEW n \in 0..Len(s)
    PROVE  /\ KeptUpTo(s)[n] \in Seq(S)
           /\ \/ KeptUpTo(s)[n] = << >> /\ \A i \in 1..n : s[i] = Empty
              \/ /\ Len(KeptUpTo(s)[n]) > 0
                 /\ \E i \in 1..n : /\ s[i] = KeptUpTo(s)[n][1] /\ s[i] # Empty
                                    /\ \A j \in 1..(i - 1) : s[j] = Empty
<1> DEFINE kept == KeptUpTo(s)
           All(m) == kept[m] = << >> /\ \A i \in 1..m : s[i] = Empty
           First(m) == /\ Len(kept[m]) > 0
                       /\ \E i \in 1..m : /\ s[i] = kept[m][1] /\ s[i] # Empty
                                          /\ \A j \in 1..(i - 1) : s[j] = Empty
           M == {m \in Nat : m <= Len(s) => kept[m] \in Seq(S) /\ (All(m) \/ First(m))}
<1> HIDE DEF kept
<1>1. /\ kept[0] = << >>
      /\ \A i \in 1..Len(s) : kept[i] = IF s[i] = Empty THEN kept[i - 1]
                                        ELSE Append(kept[i - 1], s[i])
  BY KeptStep DEF kept
<1>2. 0 \in M
  <2>1. All(0) /\ kept[0] \in Seq(S)
    BY <1>1
  <2> QED BY <2>1
<1>3. ASSUME NEW m \in M
      PROVE  m + 1 \in M
  <2>1. SUFFICES ASSUME m + 1 <= Len(s)
                 PROVE  kept[m + 1] \in Seq(S) /\ (All(m + 1) \/ First(m + 1))
    OBVIOUS
  <2>2. kept[m] \in Seq(S) /\ (All(m) \/ First(m))
    BY <2>1
  <2>3. m + 1 \in 1..Len(s) /\ s[m + 1] \in S /\ (m + 1) - 1 = m
    BY <2>1
  <2>4. kept[m + 1] = IF s[m + 1] = Empty THEN kept[m] ELSE Append(kept[m], s[m + 1])
    <3>1. kept[m + 1] = IF s[m + 1] = Empty THEN kept[(m + 1) - 1]
                        ELSE Append(kept[(m + 1) - 1], s[m + 1])
      BY ONLY <1>1, <2>3
    <3> QED BY ONLY <2>3, <3>1
  <2>5. CASE s[m + 1] = Empty
    <3>1. kept[m + 1] = kept[m]
      BY <2>4, <2>5
    <3>2. All(m) => All(m + 1)
      BY <3>1, <2>5
    <3>3. First(m) => First(m + 1)
      BY <3>1
    <3> QED BY <2>2, <3>1, <3>2, <3>3
  <2>6. CASE s[m + 1] # Empty
    <3>1. kept[m + 1] = Append(kept[m], s[m + 1]) /\ s[m + 1] \in S
      BY <2>3, <2>4, <2>6
    <3>2. /\ kept[m + 1] \in Seq(S) /\ Len(kept[m + 1]) = Len(kept[m]) + 1
          /\ kept[m + 1][Len(kept[m]) + 1] = s[m + 1]
          /\ \A i \in 1..Len(kept[m]) : kept[m + 1][i] = kept[m][i]
      BY <2>2, <3>1
    <3>3. CASE All(m)
      <4>1. Len(kept[m]) = 0
        BY <3>3
      <4>2. kept[m + 1][1] = s[m + 1] /\ Len(kept[m + 1]) > 0
        BY <3>2, <4>1
      <4>3. \A j \in 1..((m + 1) - 1) : s[j] = Empty
        BY <3>3
      <4>4. First(m + 1)
        BY <2>6, <4>2, <4>3
      <4> QED BY <3>2, <4>4
    <3>4. CASE First(m)
      <4>1. kept[m + 1][1] = kept[m][1] /\ Len(kept[m + 1]) > 0
        BY <2>2, <3>2, <3>4
      <4>2. First(m + 1)
        BY <3>4, <4>1
      <4> QED BY <3>2, <4>2
    <3> QED BY <2>2, <3>3, <3>4
  <2> QED BY <2>5, <2>6
<1>4. n \in M
  <2> HIDE DEF M
  <2>1. M \in SUBSET Nat
    BY DEF M
  <2> QED BY <1>2, <1>3, <2>1, Induction
<1>5. kept[n] \in Seq(S) /\ (All(n) \/ First(n))
  BY <1>4
<1> QED BY <1>5 DEF kept

(* Statements reads a whole answer, or what is before the limit and then   *)
(* the rest.                                                               *)
LEMMA StatementsRead ==
    ASSUME NEW answer \in PacAnswers
    PROVE  LET s == answer.statements
               t == Statements(answer)
           IN  /\ s \in Seq(Hops \cup {Bad, Empty}) /\ t \in Seq(Hops \cup {Bad, Empty})
               /\ ~ TooLong(answer) => t = s
               /\ TooLong(answer) =>
                    /\ Len(t) = SplitLimit /\ t[SplitLimit] = answer.rest
                    /\ answer.rest \in Hops \cup {Bad}
                    /\ \A i \in 1..(SplitLimit - 1) : t[i] = s[i]
<1> DEFINE s == answer.statements
           front == SubSeq(s, 1, SplitLimit - 1)
<1>1. s \in Seq(Hops \cup {Bad, Empty}) /\ answer.rest \in Hops \cup {Bad}
  <2>1. Proxies \cup {"DIRECT", "bad", ""} = Hops \cup {Bad, Empty}
    BY DEF Hops, Direct, Bad, Empty
  <2>2. Proxies \cup {"DIRECT", "bad"} = Hops \cup {Bad}
    BY DEF Hops, Direct, Bad
  <2> QED BY <2>1, <2>2, AnswersAssumption
<1>2. CASE ~ TooLong(answer)
  BY <1>1, <1>2 DEF Statements
<1>3. CASE TooLong(answer)
  <2>1. SplitLimit \in Nat \ {0} /\ Len(s) \in Nat /\ Len(s) > SplitLimit
    BY <1>1, <1>3, LimitAssumption DEF TooLong
  <2>2. /\ front \in Seq(Hops \cup {Bad, Empty}) /\ Len(front) = SplitLimit - 1
        /\ \A i \in 1..(SplitLimit - 1) : front[i] = s[i]
    BY <1>1, <2>1
  <2>3. Statements(answer) = Append(front, answer.rest)
    BY <1>3 DEF Statements
  <2> HIDE DEF front
  <2>4. /\ Append(front, answer.rest) \in Seq(Hops \cup {Bad, Empty})
        /\ Len(Append(front, answer.rest)) = SplitLimit
        /\ Append(front, answer.rest)[SplitLimit] = answer.rest
        /\ \A i \in 1..(SplitLimit - 1) : Append(front, answer.rest)[i] = front[i]
    BY <1>1, <2>1, <2>2
  <2> QED BY <1>1, <1>3, <2>2, <2>3, <2>4
<1> QED BY <1>2, <1>3

(* ParseFindProxyString and FirstItemSelector: an answer that parses has   *)
(* no malformed statement among those read, and the hop selected is the    *)
(* first of them that is not empty, DIRECT if there is none.               *)
LEMMA FirstIsSelected ==
    ASSUME NEW S, NEW answer, Statements(answer) \in Seq(S), ParseFindProxyString(answer) # Nil
    PROVE  LET t == Statements(answer)
               h == SelectProxy(ParseFindProxyString(answer))
           IN  /\ \A i \in 1..Len(t) : t[i] # Bad
               /\ \/ h = Direct /\ \A i \in 1..Len(t) : t[i] = Empty
                  \/ \E i \in 1..Len(t) :
                        t[i] = h /\ h # Empty /\ \A j \in 1..(i - 1) : t[j] = Empty
<1> DEFINE t == Statements(answer)
           kept == KeptUpTo(t)[Len(t)]
<1>1. (\A i \in 1..Len(t) : t[i] # Bad) /\ ParseFindProxyString(answer) = kept
  BY DEF ParseFindProxyString, Contains, Filled
<1>2. /\ kept \in Seq(S)
      /\ \/ kept = << >> /\ \A i \in 1..Len(t) : t[i] = Empty
         \/ /\ Len(kept) > 0
            /\ \E i \in 1..Len(t) : /\ t[i] = kept[1] /\ t[i] # Empty
                                    /\ \A j \in 1..(i - 1) : t[j] = Empty
  <2>1. Len(t) \in 0..Len(t) /\ t \in Seq(S)
    OBVIOUS
  <2> QED BY ONLY <2>1, KeptAreFilled
<1> HIDE DEF kept, t
<1>3. CASE kept = << >> /\ \A i \in 1..Len(t) : t[i] = Empty
  BY <1>1, <1>3 DEF SelectProxy, t
<1>4. CASE /\ Len(kept) > 0
           /\ \E i \in 1..Len(t) : /\ t[i] = kept[1] /\ t[i] # Empty
                                   /\ \A j \in 1..(i - 1) : t[j] = Empty
  <2>1. SelectProxy(ParseFindProxyString(answer)) = kept[1]
    <3>1. ~ (Len(kept) < 1)
      BY <1>2, <1>4
    <3> QED BY <1>1, <3>1 DEF SelectProxy
  <2> QED BY <1>1, <1>4, <2>1 DEF t
<1> QED BY <1>2, <1>3, <1>4

-----------------------------------------------------------------------------
(* What the type of a constant says of one of its elements.                *)
LEMMA ReplyType ==
    ASSUME NEW rep \in Replies
    PROVE  /\ rep.body \in Nat /\ rep.headers \subseteq STRING /\ Forwarded(rep) \subseteq STRING
           /\ rep # Nil
BY RepliesAssumption, NilAssumption DEF Forwarded

(* copyHeaders passes the length on.                                       *)
LEMMA LengthIsForwarded ==
    ASSUME NEW rep \in Replies, rep.framing = "length"
    PROVE  "Content-Length" \in Forwarded(rep)
<1>1. "Content-Length" \in rep.headers \ rep.named
  BY RepliesAssumption
<1> QED BY <1>1 DEF Forwarded, IsHopByHopResponseHeader, ConnectionTokens

(* A connection in use is counted, so closing it leaves a count.           *)
LEMMA CountsDown ==
    ASSUME TypeOK, NoLeak, conn # "none", Closes
    PROVE  open' \in [Hops -> Nat]
<1>1. open \in [Hops -> Nat] /\ open' = [open EXCEPT ![hop] = @ - 1]
  BY DEF TypeOK, Closes
<1>2. hop \in Hops => open[hop] - 1 \in Nat
  BY <1>1 DEF NoLeak
<1> QED BY <1>1, <1>2

LEMMA InitInv == Init => IInv
BY LimitAssumption DEF Init, IInv, TypeOK, ResponseOK, Stages, OneEach, Parsed, CompleteMeansAll,
       Filtered, NoLeak, NoResponse, Hops

(* Every step leads to a stage of the handler its variables agree with.    *)
LEMMA StageStep ==
    ASSUME IInv, [Next]_vars
    PROVE  Stages'
<1>0. TypeOK /\ ResponseOK /\ Stages
  BY DEF IInv
<1> USE <1>0, NilAssumption DEF TypeOK, ResponseOK, Stages, clientVars, hopVars
<1>1. CASE ServeHTTP
  BY <1>1 DEF ServeHTTP, KeepsOrCloses, Page
<1>2. CASE LookupFails
  <2>1. stage' = "none" /\ conn' = "none" /\ UNCHANGED <<request, reply>>
    BY <1>2 DEF LookupFails, BadGateway
  <2>2. response'.status = "forwarded" => response.status = "forwarded"
    BY <1>2 DEF LookupFails, BadGateway, Page
  <2> QED BY <2>1, <2>2
<1>3. CASE Dial
  BY <1>3 DEF Dial, BadGateway, Page, KeepsOrCloses
<1>4. CASE Abandon
  BY <1>4 DEF Abandon, Closes
<1>5. ASSUME NEW answer \in PacAnswers, LookupProxy(answer)
      PROVE  Stages'
  <2>1. CASE ParseFindProxyString(answer) = Nil
    <3>1. stage' = "none" /\ conn' = "none" /\ response'.status = "502" /\ UNCHANGED <<request, reply>>
      BY <1>5, <2>1 DEF LookupProxy, BadGateway, Page
    <3> QED BY <3>1
  <2>2. CASE ParseFindProxyString(answer) # Nil
    <3>1. /\ client = "asking" /\ UNCHANGED <<client, request, reply, response>>
          /\ \/ stage' = "dial" /\ conn' = "none"
             \/ stage' = "sending" /\ conn' # "none"
      BY <1>5, <2>2 DEF LookupProxy
    <3>2. response.status = "none"
      BY <1>5 DEF LookupProxy
    <3> QED BY <3>1, <3>2
  <2> QED BY <2>1, <2>2
<1>6. CASE Sent
  BY <1>6 DEF Sent
<1>7. CASE Lost
  BY <1>7 DEF Lost, Closes, BadGateway, Page, KeepsOrCloses
<1>8. CASE Copy
  BY <1>8 DEF Copy
<1>9. CASE EndOfBody
  BY <1>9 DEF EndOfBody, Ends, Declared, Closes, KeepsOrCloses
<1>10. CASE BodyBreaks
  BY <1>10 DEF BodyBreaks, Ends, Declared, Closes, KeepsOrCloses
<1>11. ASSUME NEW rep \in Replies, Reply(rep)
       PROVE  Stages'
  BY <1>11, ReplyType DEF Reply, NoResponse
<1>12. ASSUME NEW h \in Hops, HopHangsUp(h)
       PROVE  Stages'
  BY <1>12 DEF HopHangsUp
<1>13. ASSUME NEW h \in Hops, DropIdle(h)
       PROVE  Stages'
  BY <1>13 DEF DropIdle
<1>14. CASE ResponseHeaderTimeout
  BY <1>14 DEF ResponseHeaderTimeout, Closes, BadGateway, Page, KeepsOrCloses
<1>15. CASE HangUp
  BY <1>15 DEF HangUp
<1>16. CASE IdleTimeout
  BY <1>16 DEF IdleTimeout
<1>17. ASSUME NEW r \in Requests, Ask(r)
       PROVE  Stages'
  BY <1>17 DEF Ask, NoResponse
<1>18. CASE UNCHANGED vars
  BY <1>18 DEF vars
<1> QED BY <1>1, <1>2, <1>3, <1>4, <1>5, <1>6, <1>7, <1>8, <1>9, <1>10, <1>11, <1>12, <1>13, <1>14, <1>15, <1>16, <1>17, <1>18
        DEF Next, Handler, Network

(* Every step keeps the types.                                             *)
LEMMA TypeStep ==
    ASSUME IInv, [Next]_vars
    PROVE  TypeOK' /\ ResponseOK'
<1>0. TypeOK /\ ResponseOK /\ Stages /\ NoLeak
  BY DEF IInv
<1>a. \A g \in Hops : conn # "none" /\ g = hop => open[g] - 1 \in Nat
  BY <1>0 DEF TypeOK, NoLeak
<1>b. \A g \in Hops : pool[g] # "none" => open[g] - 1 \in Nat
  BY <1>0 DEF TypeOK, NoLeak
<1>c. TypeOK /\ ResponseOK /\ Stages
  BY <1>0
<1> USE <1>c, NilAssumption DEF TypeOK, ResponseOK, Stages, clientVars, hopVars
<1>1. CASE ServeHTTP
  BY <1>1 DEF ServeHTTP, KeepsOrCloses, Page
<1>2. CASE LookupFails
  BY <1>2 DEF LookupFails, BadGateway, Page, KeepsOrCloses
<1>3. CASE Dial
  BY <1>3 DEF Dial, BadGateway, Page, KeepsOrCloses
<1>4. CASE Abandon
  BY <1>4, <1>a DEF Abandon, Closes
<1>5. ASSUME NEW answer \in PacAnswers, LookupProxy(answer)
      PROVE  TypeOK' /\ ResponseOK'
  BY <1>5 DEF LookupProxy, BadGateway, Page, KeepsOrCloses
<1>6. CASE Sent
  BY <1>6 DEF Sent
<1>7. CASE Lost
  <2>1. open' \in [Hops -> Nat] /\ conn' = "none"
    BY <1>7, <1>0, CountsDown DEF Lost, Closes
  <2>2. /\ client' \in {"idle", "asking", "closed", "gone"} /\ request # Nil
        /\ stage' \in {"none", "lookup"} /\ UNCHANGED <<request, asked, said, pool, reply, left>>
        /\ response' = response \/ response' = Page("502")
    BY <1>7 DEF Lost, BadGateway, KeepsOrCloses
  <2> QED BY <2>1, <2>2 DEF Page
<1>8. CASE Copy
  BY <1>8 DEF Copy
<1>9. CASE EndOfBody
  BY <1>9, <1>a DEF EndOfBody, Ends, Declared, Closes, KeepsOrCloses
<1>10. CASE BodyBreaks
  <2>1. open' \in [Hops -> Nat] /\ conn' = "none"
    BY <1>10, <1>0, CountsDown DEF BodyBreaks, Closes
  <2>2. /\ client' \in {"idle", "asking", "closed", "gone"} /\ request # Nil
        /\ stage' = "none" /\ UNCHANGED <<request, asked, said, pool, reply, left>>
    BY <1>10 DEF BodyBreaks, Ends, KeepsOrCloses
  <2>3. response' \in {[response EXCEPT !.end = e] : e \in {"cut", "complete"}}
    BY <1>10 DEF BodyBreaks, Ends
  <2> QED BY <2>1, <2>2, <2>3
<1>11. ASSUME NEW rep \in Replies, Reply(rep)
       PROVE  TypeOK' /\ ResponseOK'
  BY <1>11, ReplyType DEF Reply, NoResponse
<1>12. ASSUME NEW h \in Hops, HopHangsUp(h)
       PROVE  TypeOK' /\ ResponseOK'
  BY <1>12 DEF HopHangsUp
<1>13. ASSUME NEW h \in Hops, DropIdle(h)
       PROVE  TypeOK' /\ ResponseOK'
  BY <1>13, <1>b DEF DropIdle
<1>14. CASE ResponseHeaderTimeout
  BY <1>14, <1>a DEF ResponseHeaderTimeout, Closes, BadGateway, Page, KeepsOrCloses
<1>15. CASE HangUp
  BY <1>15 DEF HangUp
<1>16. CASE IdleTimeout
  BY <1>16 DEF IdleTimeout
<1>17. ASSUME NEW r \in Requests, Ask(r)
       PROVE  TypeOK' /\ ResponseOK'
  BY <1>17, LimitAssumption DEF Ask, NoResponse
<1>18. CASE UNCHANGED vars
  BY <1>18 DEF vars
<1> QED BY <1>1, <1>2, <1>3, <1>4, <1>5, <1>6, <1>7, <1>8, <1>9, <1>10, <1>11, <1>12, <1>13, <1>14, <1>15, <1>16, <1>17, <1>18
        DEF Next, Handler, Network

(* No piece of a body is lost or doubled, and a missing one shows.         *)
LEMMA BodyStep ==
    ASSUME IInv, [Next]_vars
    PROVE  CompleteMeansAll'
<1>0. TypeOK /\ ResponseOK /\ Stages /\ CompleteMeansAll /\ Filtered
  BY DEF IInv
<1>a. response.status = "forwarded" /\ reply.framing = "length" => Declared(response.headers)
  BY <1>0, LengthIsForwarded DEF TypeOK, Stages, Filtered, Declared
<1>b. reply # Nil => reply.body \in Nat
  BY <1>0, ReplyType DEF TypeOK
<1>c. TypeOK /\ ResponseOK /\ Stages /\ CompleteMeansAll
  BY <1>0
<1> USE <1>c DEF TypeOK, ResponseOK, Stages, CompleteMeansAll, clientVars, hopVars
<1>1. CASE ServeHTTP
  BY <1>1 DEF ServeHTTP, KeepsOrCloses, Page
<1>2. CASE LookupFails
  BY <1>2 DEF LookupFails, BadGateway, Page, KeepsOrCloses
<1>3. CASE Dial
  BY <1>3 DEF Dial, BadGateway, Page, KeepsOrCloses
<1>4. CASE Abandon
  BY <1>4 DEF Abandon, Closes
<1>5. ASSUME NEW answer \in PacAnswers, LookupProxy(answer)
      PROVE  CompleteMeansAll'
  BY <1>5 DEF LookupProxy, BadGateway, Page, KeepsOrCloses
<1>6. CASE Sent
  BY <1>6 DEF Sent
<1>7. CASE Lost
  BY <1>7 DEF Lost, Closes, BadGateway, Page, KeepsOrCloses
<1>8. CASE Copy
  BY <1>8 DEF Copy
<1>9. CASE EndOfBody
  BY <1>9, <1>b DEF EndOfBody, Ends
<1>10. CASE BodyBreaks
  BY <1>10, <1>a DEF BodyBreaks, Ends
<1>11. ASSUME NEW rep \in Replies, Reply(rep)
       PROVE  CompleteMeansAll'
  BY <1>11, ReplyType DEF Reply, NoResponse
<1>12. ASSUME NEW h \in Hops, HopHangsUp(h)
       PROVE  CompleteMeansAll'
  BY <1>12 DEF HopHangsUp
<1>13. ASSUME NEW h \in Hops, DropIdle(h)
       PROVE  CompleteMeansAll'
  BY <1>13 DEF DropIdle
<1>14. CASE ResponseHeaderTimeout
  BY <1>14 DEF ResponseHeaderTimeout, Closes, BadGateway, Page, KeepsOrCloses
<1>15. CASE HangUp
  BY <1>15 DEF HangUp
<1>16. CASE IdleTimeout
  BY <1>16 DEF IdleTimeout
<1>17. ASSUME NEW r \in Requests, Ask(r)
       PROVE  CompleteMeansAll'
  BY <1>17 DEF Ask, NoResponse
<1>18. CASE UNCHANGED vars
  BY <1>18 DEF vars
<1> QED BY <1>1, <1>2, <1>3, <1>4, <1>5, <1>6, <1>7, <1>8, <1>9, <1>10, <1>11, <1>12, <1>13, <1>14, <1>15, <1>16, <1>17, <1>18
        DEF Next, Handler, Network

(* What the client has of the headers was filtered from the reply's.       *)
LEMMA HeaderStep ==
    ASSUME IInv, [Next]_vars
    PROVE  Filtered'
<1>0. ResponseOK /\ Filtered
  BY DEF IInv
<1> USE <1>0 DEF ResponseOK, Filtered, clientVars, hopVars
<1>1. CASE ServeHTTP
  BY <1>1 DEF ServeHTTP, KeepsOrCloses, Page
<1>2. CASE LookupFails
  BY <1>2 DEF LookupFails, BadGateway, Page, KeepsOrCloses
<1>3. CASE Dial
  BY <1>3 DEF Dial, BadGateway, Page, KeepsOrCloses
<1>4. CASE Abandon
  BY <1>4 DEF Abandon, Closes
<1>5. ASSUME NEW answer \in PacAnswers, LookupProxy(answer)
      PROVE  Filtered'
  BY <1>5 DEF LookupProxy, BadGateway, Page, KeepsOrCloses
<1>6. CASE Sent
  BY <1>6 DEF Sent
<1>7. CASE Lost
  BY <1>7 DEF Lost, Closes, BadGateway, Page, KeepsOrCloses
<1>8. CASE Copy
  BY <1>8 DEF Copy
<1>9. CASE EndOfBody
  BY <1>9 DEF EndOfBody, Ends, Declared, Closes, KeepsOrCloses
<1>10. CASE BodyBreaks
  BY <1>10 DEF BodyBreaks, Ends, Declared, Closes, KeepsOrCloses
<1>11. ASSUME NEW rep \in Replies, Reply(rep)
       PROVE  Filtered'
  BY <1>11 DEF Reply, NoResponse
<1>12. ASSUME NEW h \in Hops, HopHangsUp(h)
       PROVE  Filtered'
  BY <1>12 DEF HopHangsUp
<1>13. ASSUME NEW h \in Hops, DropIdle(h)
       PROVE  Filtered'
  BY <1>13 DEF DropIdle
<1>14. CASE ResponseHeaderTimeout
  BY <1>14 DEF ResponseHeaderTimeout, Closes, BadGateway, Page, KeepsOrCloses
<1>15. CASE HangUp
  BY <1>15 DEF HangUp
<1>16. CASE IdleTimeout
  BY <1>16 DEF IdleTimeout
<1>17. ASSUME NEW r \in Requests, Ask(r)
       PROVE  Filtered'
  BY <1>17 DEF Ask, NoResponse
<1>18. CASE UNCHANGED vars
  BY <1>18 DEF vars
<1> QED BY <1>1, <1>2, <1>3, <1>4, <1>5, <1>6, <1>7, <1>8, <1>9, <1>10, <1>11, <1>12, <1>13, <1>14, <1>15, <1>16, <1>17, <1>18
        DEF Next, Handler, Network

(* Connections are taken, put back and closed one at a time.               *)
LEMMA CountStep ==
    ASSUME IInv, [Next]_vars
    PROVE  OneEach' /\ NoLeak'
<1>0. TypeOK /\ Stages /\ OneEach /\ NoLeak
  BY DEF IInv
<1> USE <1>0 DEF TypeOK, Stages, OneEach, NoLeak, hop, clientVars, hopVars
<1>1. CASE ServeHTTP
  BY <1>1 DEF ServeHTTP, KeepsOrCloses, Page
<1>2. CASE LookupFails
  BY <1>2 DEF LookupFails, BadGateway, Page, KeepsOrCloses
<1>3. CASE Dial
  BY <1>3 DEF Dial, BadGateway, Page, KeepsOrCloses
<1>4. CASE Abandon
  BY <1>4 DEF Abandon, Closes
<1>5. ASSUME NEW answer \in PacAnswers, LookupProxy(answer)
      PROVE  OneEach' /\ NoLeak'
  BY <1>5 DEF LookupProxy, BadGateway, Page, KeepsOrCloses
<1>6. CASE Sent
  BY <1>6 DEF Sent
<1>7. CASE Lost
  BY <1>7 DEF Lost, Closes, BadGateway, Page, KeepsOrCloses
<1>8. CASE Copy
  BY <1>8 DEF Copy
<1>9. CASE EndOfBody
  BY <1>9 DEF EndOfBody, Ends, Declared, Closes, KeepsOrCloses
<1>10. CASE BodyBreaks
  BY <1>10 DEF BodyBreaks, Ends, Declared, Closes, KeepsOrCloses
<1>11. ASSUME NEW rep \in Replies, Reply(rep)
       PROVE  OneEach' /\ NoLeak'
  BY <1>11 DEF Reply, NoResponse, Forwarded
<1>12. ASSUME NEW h \in Hops, HopHangsUp(h)
       PROVE  OneEach' /\ NoLeak'
  BY <1>12 DEF HopHangsUp
<1>13. ASSUME NEW h \in Hops, DropIdle(h)
       PROVE  OneEach' /\ NoLeak'
  BY <1>13 DEF DropIdle
<1>14. CASE ResponseHeaderTimeout
  BY <1>14 DEF ResponseHeaderTimeout, Closes, BadGateway, Page, KeepsOrCloses
<1>15. CASE HangUp
  BY <1>15 DEF HangUp
<1>16. CASE IdleTimeout
  BY <1>16 DEF IdleTimeout
<1>17. ASSUME NEW r \in Requests, Ask(r)
       PROVE  OneEach' /\ NoLeak'
  BY <1>17 DEF Ask, NoResponse
<1>18. CASE UNCHANGED vars
  BY <1>18 DEF vars
<1> QED BY <1>1, <1>2, <1>3, <1>4, <1>5, <1>6, <1>7, <1>8, <1>9, <1>10, <1>11, <1>12, <1>13, <1>14, <1>15, <1>16, <1>17, <1>18
        DEF Next, Handler, Network

(* Only LookupProxy starts to forward, by the answer it parsed.            *)
LEMMA ParsedStep ==
    ASSUME IInv, [Next]_vars
    PROVE  Parsed'
<1>0. Parsed /\ Stages
  BY DEF IInv
<1>1. ASSUME NEW answer \in PacAnswers, LookupProxy(answer)
      PROVE  Parsed'
  BY <1>1, AnswersAssumption DEF LookupProxy, BadGateway, Parsed
<1>2. CASE UNCHANGED said /\ (stage' \in {"dial", "sending", "waiting", "copying"} =>
                                stage \in {"dial", "sending", "waiting", "copying"})
  BY <1>0, <1>2 DEF Parsed
<1>3. ASSUME Handler, \A answer \in PacAnswers : ~ LookupProxy(answer)
      PROVE  Parsed'
  BY <1>2, <1>3 DEF Handler, ServeHTTP, LookupFails, Dial, Abandon, BadGateway, Parsed
<1>4. CASE Network
  BY <1>2, <1>4 DEF Network, Sent, Lost, Copy, EndOfBody, BodyBreaks, Ends, BadGateway, Reply,
                    HopHangsUp, DropIdle
<1>5. CASE ResponseHeaderTimeout \/ HangUp \/ IdleTimeout \/ UNCHANGED vars
  BY <1>2, <1>5 DEF ResponseHeaderTimeout, BadGateway, HangUp, IdleTimeout, vars
<1>6. ASSUME NEW r \in Requests, Ask(r)
      PROVE  Parsed'
  BY <1>6 DEF Ask, Parsed
<1> QED BY <1>1, <1>3, <1>4, <1>5, <1>6 DEF Next, Handler

(* Every reachable state satisfies the inductive invariant.                *)
THEOREM Invariance == Spec => []IInv
<1>1. IInv /\ [Next]_vars => IInv'
  BY StageStep, TypeStep, BodyStep, HeaderStep, CountStep, ParsedStep DEF IInv
<1> QED BY InitInv, <1>1, PTL DEF Spec

(* TypeOK, for every instance.                                             *)
THEOREM TypeCorrect == Spec => []TypeOK
<1>1. IInv => TypeOK
  BY DEF IInv
<1> QED BY Invariance, <1>1, PTL

(* CompleteMeansAll: a client that takes an answer of known length for     *)
(* complete has all of it (proxyhttphandler.go, doHTTPProxy).              *)
THEOREM AllArrives == Spec => []CompleteMeansAll
<1>1. IInv => CompleteMeansAll
  BY DEF IInv
<1> QED BY Invariance, <1>1, PTL

(* RoutedAsSaid: for an answer of any length and any statements, a request *)
(* goes only to the first hop among the statements that are read, all of   *)
(* which parse, and to what the rest is taken for if those are empty       *)
(* (pac/parse.go, pac/selector.go, proxyhttphandler.go's lookupProxy).     *)
THEOREM GoesWhereSaid == Spec => []RoutedAsSaid
<1>1. ASSUME IInv
      PROVE  RoutedAsSaid
  <2> DEFINE s == said.statements
             t == Statements(said)
             read == {i \in 1..Len(s) : i < SplitLimit \/ ~ TooLong(said)}
  <2> SUFFICES ASSUME stage \in {"dial", "sending", "waiting", "copying"}
               PROVE  /\ said # Nil /\ \A i \in read : s[i] # Bad
                      /\ TooLong(said) => said.rest # Bad
                      /\ \/ \E i \in read :
                               s[i] = hop /\ hop # Empty /\ \A j \in 1..(i - 1) : s[j] = Empty
                         \/ /\ \A i \in read : s[i] = Empty
                            /\ hop = IF TooLong(said) THEN said.rest ELSE Direct
    BY DEF RoutedAsSaid
  <2>1. said # Nil /\ ParseFindProxyString(said) # Nil /\ said \in PacAnswers
    BY <1>1 DEF IInv, Parsed, TypeOK
  <2>2. /\ s \in Seq(Hops \cup {Bad, Empty}) /\ t \in Seq(Hops \cup {Bad, Empty})
        /\ ~ TooLong(said) => t = s
        /\ TooLong(said) => /\ Len(t) = SplitLimit /\ t[SplitLimit] = said.rest
                            /\ \A i \in 1..(SplitLimit - 1) : t[i] = s[i]
    BY <2>1, StatementsRead
  <2>3. /\ \A i \in 1..Len(t) : t[i] # Bad
        /\ \/ hop = Direct /\ \A i \in 1..Len(t) : t[i] = Empty
           \/ \E i \in 1..Len(t) :
                 t[i] = hop /\ hop # Empty /\ \A j \in 1..(i - 1) : t[j] = Empty
    BY <2>1, <2>2, FirstIsSelected DEF hop
  <2>4. SplitLimit \in Nat \ {0} /\ Len(s) \in Nat
    BY <2>2, LimitAssumption
  <2> HIDE DEF s, t
  <2>5. CASE ~ TooLong(said)
    <3>1. t = s /\ read = 1..Len(s)
      BY <2>2, <2>5
    <3> QED BY <2>1, <2>3, <2>5, <3>1
  <2>6. CASE TooLong(said)
    <3>1. read = 1..(SplitLimit - 1)
      BY <2>4, <2>6 DEF TooLong, s
    <3>2. /\ 1..Len(t) = 1..SplitLimit /\ SplitLimit \in 1..SplitLimit
          /\ 1..(SplitLimit - 1) \subseteq 1..SplitLimit
      BY <2>2, <2>4, <2>6
    <3> HIDE DEF read
    <3>3. (\A i \in read : s[i] # Bad) /\ said.rest # Bad
      BY <2>2, <2>3, <2>6, <3>1, <3>2
    <3>4. said.rest # Empty
      BY <2>1, AnswersAssumption DEF Empty
    <3>5. PICK i \in 1..SplitLimit :
             t[i] = hop /\ hop # Empty /\ \A j \in 1..(i - 1) : t[j] = Empty
      BY <2>2, <2>3, <2>6, <3>2, <3>4
    <3>6. CASE i = SplitLimit
      BY <2>1, <2>2, <2>6, <3>1, <3>3, <3>5, <3>6
    <3>7. CASE i # SplitLimit
      <4>1. i \in read /\ \A j \in 1..(i - 1) : j \in 1..(SplitLimit - 1)
        BY <2>4, <3>1, <3>7
      <4>2. s[i] = hop /\ \A j \in 1..(i - 1) : s[j] = Empty
        BY <2>2, <2>6, <3>1, <3>5, <4>1
      <4> QED BY <2>1, <3>3, <3>5, <4>1, <4>2
    <3> QED BY <3>6, <3>7
  <2> QED BY <2>5, <2>6
<1> QED BY Invariance, <1>1, PTL

(* NoLeak: every connection to a hop is in use or in the pool, however the *)
(* request on it ends (doHTTPProxy's deferred Body.Close).                 *)
THEOREM NoneLeaks == Spec => []NoLeak
<1>1. IInv => NoLeak
  BY DEF IInv
<1> QED BY Invariance, <1>1, PTL

(* KeptAlive: whatever a hop says of its own connection, the client's is   *)
(* kept (copyHeaders).                                                     *)
THEOREM StaysAlive == Spec => KeptAlive
<1>1. ASSUME IInv, [Next]_vars
      PROVE  [client = "asking" /\ client' = "closed" =>
                 request.close \/ request.body \/ response'.end = "cut"]_vars
  <2>1. ResponseOK /\ Stages
    BY <1>1 DEF IInv
  <2>2. stage = "copying" => "Connection" \notin response.headers
    BY <1>1, <2>1 DEF IInv, Stages, Filtered, Forwarded, IsHopByHopResponseHeader
  <2>3. (client = "asking" /\ client' = "closed") /\ Next =>
            request.close \/ request.body \/ response'.end = "cut"
    <3> SUFFICES ASSUME client = "asking", client' = "closed", Next
                 PROVE  request.close \/ request.body \/ response'.end = "cut"
      OBVIOUS
    <3> USE <2>1, <2>2 DEF ResponseOK, Stages, clientVars, hopVars
    <3>1. CASE ServeHTTP
      BY <3>1 DEF ServeHTTP, KeepsOrCloses, Page
    <3>2. CASE LookupFails
      BY <3>2 DEF LookupFails, BadGateway, Page, KeepsOrCloses
    <3>3. CASE Dial
      BY <3>3 DEF Dial, BadGateway, Page, KeepsOrCloses
    <3>4. CASE Abandon
      BY <3>4 DEF Abandon, Closes
    <3>5. ASSUME NEW answer \in PacAnswers, LookupProxy(answer)
          PROVE  request.close \/ request.body \/ response'.end = "cut"
      BY <3>5 DEF LookupProxy, BadGateway, Page, KeepsOrCloses
    <3>6. CASE Sent
      BY <3>6 DEF Sent
    <3>7. CASE Lost
      BY <3>7 DEF Lost, Closes, BadGateway, Page, KeepsOrCloses
    <3>8. CASE Copy
      BY <3>8 DEF Copy
    <3>9. CASE EndOfBody
      BY <3>9 DEF EndOfBody, Ends, Declared, Closes, KeepsOrCloses
    <3>10. CASE BodyBreaks
      BY <3>10 DEF BodyBreaks, Ends, Declared, Closes, KeepsOrCloses
    <3>11. ASSUME NEW rep \in Replies, Reply(rep)
           PROVE  request.close \/ request.body \/ response'.end = "cut"
      BY <3>11 DEF Reply, NoResponse, Forwarded
    <3>12. ASSUME NEW h \in Hops, HopHangsUp(h)
           PROVE  request.close \/ request.body \/ response'.end = "cut"
      BY <3>12 DEF HopHangsUp
    <3>13. ASSUME NEW h \in Hops, DropIdle(h)
           PROVE  request.close \/ request.body \/ response'.end = "cut"
      BY <3>13 DEF DropIdle
    <3>14. CASE ResponseHeaderTimeout
      BY <3>14 DEF ResponseHeaderTimeout, Closes, BadGateway, Page, KeepsOrCloses
    <3>15. CASE HangUp
      BY <3>15 DEF HangUp
    <3>16. CASE IdleTimeout
      BY <3>16 DEF IdleTimeout
    <3>17. ASSUME NEW r \in Requests, Ask(r)
           PROVE  request.close \/ request.body \/ response'.end = "cut"
      BY <3>17 DEF Ask, NoResponse
    <3>18. CASE UNCHANGED vars
      BY <3>18 DEF vars
    <3> QED BY <3>1, <3>2, <3>3, <3>4, <3>5, <3>6, <3>7, <3>8, <3>9, <3>10, <3>11, <3>12, <3>13, <3>14, <3>15, <3>16, <3>17, <3>18
            DEF Next, Handler, Network
  <2> QED BY <1>1, <2>3
<1> QED BY Invariance, <1>1, PTL DEF Spec, KeptAlive
=============================================================================
