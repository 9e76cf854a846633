---------------------------- MODULE TunnelProofs ----------------------------
(***************************************************************************)
(* Proofs about Tunnel, for any number of bytes and any kernel buffer.     *)
(***************************************************************************)
EXTENDS Tunnel, SequenceTheorems, TLAPS

(* Before the relay starts nothing has been relayed, and the response head *)
(* is the first thing an upstream proxy sends.                             *)
Stage ==
    /\ phase \notin {"relay", "closed"} =>
          /\ \A s \in Sides : /\ copy[s] = "on" /\ held[s] = << >>
                              /\ outbox[s] = << >> /\ got[s] = << >>
          /\ ~ closed /\ ~ cut /\ shut = {} /\ told = "nothing"
    /\ phase \in {"lookup", "dial", "request", "handshake", "hijack"} =>
          early = [sent |-> 0, dropped |-> 0]
    /\ phase \in {"lookup", "dial", "request", "handshake"} => prefetch = << >>
    /\ phase \in {"lookup", "dial", "request"} => inbox["server"] = << >> /\ verdict = "none"
    /\ phase \in {"request", "handshake"} => route = "proxy"
    /\ phase = "handshake" => /\ verdict = "none" <=> inbox["server"] = << >>
                              /\ inbox["server"] # << >> => inbox["server"][1] = 0
    /\ phase \in {"hijack", "greet", "relay"} =>
          /\ inbox["server"] # << >> => inbox["server"][1] # 0
          /\ verdict # "malformed"
    /\ early.sent <= sent["client"]
    /\ deadline["client"] # "handshake"
    /\ phase # "handshake" => deadline["server"] # "handshake"

(* While nobody reset and the drain limit was kept, the goroutines that    *)
(* ended met an end of stream, and neither closed the sockets.             *)
Orderly ==
    reset = {} /\ ~ cut /\ told = "established" =>
        /\ closed => phase = "closed"
        /\ \A s \in Sides : copy[s] = "done" => Other(s) \in shut

(* Nothing is relayed to a client that was refused.                        *)
Answered == told # "established" => shut = {} /\ \A s \in Sides : outbox[s] = << >>

(* No deadline is set but those of WaitsAreTimed.                          *)
Untimed ==
    phase \notin {"relay", "closed"} =>
        /\ deadline["client"] = "none"
        /\ phase # "handshake" => deadline["server"] = "none"

(* Nobody is hung up on before the handler returns or closeBoth is called. *)
Open == phase # "closed" /\ ~ closed => hung = {}

(* The inductive invariant.                                                *)
IInv == /\ TypeOK /\ Stage /\ Conserved /\ FinMeansAll /\ Orderly /\ NoTruncation
        /\ Answered /\ Open /\ Untimed /\ WaitsAreTimed

-----------------------------------------------------------------------------
(* A sequence cut in two.                                                  *)
LEMMA CutInTwo ==
    ASSUME NEW S, NEW q \in Seq(S), NEW n \in 0..Len(q)
    PROVE  /\ SubSeq(q, 1, n) \in Seq(S) /\ SubSeq(q, n + 1, Len(q)) \in Seq(S)
           /\ SubSeq(q, 1, n) \o SubSeq(q, n + 1, Len(q)) = q
           /\ Len(SubSeq(q, n + 1, Len(q))) = Len(q) - n
           /\ \A i \in 1..(Len(q) - n) : SubSeq(q, n + 1, Len(q))[i] = q[n + i]
<1>1. Len(q) \in Nat /\ n \in Int /\ n + 1 \in Int /\ Len(q) \in Int /\ 1 \in Int
  OBVIOUS
<1>2. \A i \in 1..Len(q) : q[i] \in S
  OBVIOUS
<1>3. SubSeq(q, 1, n) \in Seq(S)
  <2>1. \A i \in 1..n : q[i] \in S
    BY <1>1, <1>2
  <2> QED BY <1>1, <2>1, SubSeqProperties
<1>4. /\ SubSeq(q, n + 1, Len(q)) \in Seq(S)
      /\ Len(SubSeq(q, n + 1, Len(q))) = IF n + 1 <= Len(q) THEN Len(q) - (n + 1) + 1 ELSE 0
      /\ \A i \in 1..(Len(q) - (n + 1) + 1) : SubSeq(q, n + 1, Len(q))[i] = q[n + 1 + i - 1]
  <2>1. \A i \in (n + 1)..Len(q) : q[i] \in S
    BY <1>1, <1>2
  <2> HIDE <1>2
  <2> QED BY <1>1, <2>1, SubSeqProperties
<1>5. SubSeq(q, 1, n) \o SubSeq(q, n + 1, Len(q)) = SubSeq(q, 1, Len(q))
  <2>1. 1 \in 1..(Len(q) + 1) /\ n \in (1 - 1)..Len(q) /\ Len(q) \in n..Len(q)
    BY <1>1
  <2> QED BY <2>1, ConcatAdjacentSubSeq
<1>6. SubSeq(q, 1, Len(q)) = q
  BY SubSeqFull
<1>7. /\ Len(SubSeq(q, n + 1, Len(q))) = Len(q) - n
      /\ \A i \in 1..(Len(q) - n) : SubSeq(q, n + 1, Len(q))[i] = q[n + i]
  BY <1>1, <1>4
<1> QED BY <1>3, <1>4, <1>5, <1>6, <1>7

(* What is between the first element and the rest.                         *)
LEMMA Middle ==
    ASSUME NEW S, NEW q \in Seq(S), NEW n \in 1..Len(q)
    PROVE  SubSeq(q, 2, n) \in Seq(S)
<1>1. \A i \in 2..n : q[i] \in S
  OBVIOUS
<1>2. n \in Int /\ 2 \in Int
  OBVIOUS
<1> QED BY <1>1, <1>2, SubSeqProperties

LEMMA NotEmptyAfter ==
    ASSUME NEW S, NEW q \in Seq(S), NEW e \in S
    PROVE  Append(q, e) # << >>
BY AppendProperties

(* A sequence whose first element is handed on.                            *)
LEMMA HandOn ==
    ASSUME NEW S, NEW a \in Seq(S), NEW q \in Seq(S), q # << >>
    PROVE  /\ q[1] \in S /\ Append(a, q[1]) \in Seq(S) /\ Tail(q) \in Seq(S)
           /\ Append(a, q[1]) \o Tail(q) = a \o q
<1>1. q[1] \in S /\ Tail(q) \in Seq(S) /\ Append(a, q[1]) \in Seq(S)
  OBVIOUS
<1>2. Append(a, q[1]) = a \o <<q[1]>>
  BY <1>1, AppendIsConcat
<1>3. <<q[1]>> \o Tail(q) = q
  OBVIOUS
<1>4. (a \o <<q[1]>>) \o Tail(q) = a \o (<<q[1]>> \o Tail(q))
  BY <1>1, ConcatAssociative
<1> QED BY <1>1, <1>2, <1>3, <1>4

(* Before the hijack the client's bytes are in its socket, all of them.    *)
LEMMA NothingReadYet ==
    ASSUME TypeOK, Stage, Conserved, phase = "hijack"
    PROVE  inbox["client"] = [i \in 1..sent["client"] |-> i]
<1>1. /\ got["server"] = << >> /\ outbox["server"] = << >> /\ held["client"] = << >>
      /\ early.dropped = 0
  BY DEF Stage, Sides
<1>2. inbox["client"] \in Bytes /\ sent["client"] \in Nat
  BY TunnelAssumption DEF TypeOK, Sides
<1>3. Stream("client") = inbox["client"]
  <2>1. << >> \o << >> \o << >> \o inbox["client"] = inbox["client"]
    <3>1. << >> \in Seq(0..MaxBytes) /\ inbox["client"] \in Seq(0..MaxBytes)
      BY <1>2 DEF Bytes
    <3> QED BY <3>1, ConcatEmptySeq
  <2> QED BY <1>1, <2>1 DEF Stream, Unread, Other
<1>4. Kept("client") = [i \in 1..sent["client"] |-> i]
  BY <1>1, <1>2 DEF Kept
<1>5. Stream("client") = Kept("client")
  BY DEF Conserved, Sides
<1> QED BY <1>3, <1>4, <1>5

(* Both parts of a sequence without zeros are without zeros.               *)
LEMMA NoZeroInParts ==
    ASSUME NEW S, NEW a \in Seq(S), NEW q \in Seq(S),
           \A k \in 1..Len(a \o q) : (a \o q)[k] # 0
    PROVE  /\ \A i \in 1..Len(a) : a[i] # 0
           /\ \A i \in 1..Len(q) : q[i] # 0
<1>1. Len(a) \in Nat /\ Len(q) \in Nat /\ Len(a \o q) = Len(a) + Len(q)
  BY ConcatProperties
<1>2. ASSUME NEW i \in 1..Len(a)
      PROVE  a[i] # 0
  <2>1. i \in 1..Len(a) + Len(q) /\ i <= Len(a)
    BY <1>1
  <2>2. (a \o q)[i] = a[i]
    BY <2>1, ConcatProperties
  <2> QED BY <1>1, <2>1, <2>2
<1>3. ASSUME NEW i \in 1..Len(q)
      PROVE  q[i] # 0
  <2>1. Len(a) + i \in 1..Len(a) + Len(q) /\ ~ (Len(a) + i <= Len(a)) /\ (Len(a) + i) - Len(a) = i
    BY <1>1
  <2>2. (a \o q)[Len(a) + i] = q[i]
    BY <2>1, ConcatProperties
  <2> QED BY <1>1, <2>1, <2>2
<1> QED BY <1>2, <1>3

(* The server's data are not taken for a response head.                    *)
LEMMA DataIsNoHead ==
    ASSUME TypeOK, Conserved
    PROVE  /\ \A i \in 2..Len(inbox["server"]) : inbox["server"][i] # 0
           /\ \A i \in 1..Len(prefetch) : prefetch[i] # 0
<1> DEFINE data == IF inbox["server"] # << >> /\ inbox["server"][1] = ResponseHead
                   THEN Tail(inbox["server"]) ELSE inbox["server"]
           ahead == got["client"] \o outbox["client"] \o held["server"]
<1>1. /\ inbox["server"] \in Bytes /\ prefetch \in Bytes /\ sent["server"] \in Nat
      /\ got["client"] \in Bytes /\ outbox["client"] \in Bytes /\ held["server"] \in Bytes
  BY TunnelAssumption DEF TypeOK, Sides
<1>2. data \in Bytes /\ ahead \in Bytes /\ prefetch \o data \in Bytes
  <2>1. data \in Bytes
    <3>1. inbox["server"] # << >> => Tail(inbox["server"]) \in Bytes
      BY <1>1, HeadTailProperties DEF Bytes
    <3> QED BY <1>1, <3>1
  <2>2. ahead \in Bytes
    BY <1>1, ConcatProperties DEF Bytes
  <2> HIDE DEF data
  <2> QED BY <1>1, <2>1, <2>2, ConcatProperties DEF Bytes
<1>3. ahead \o (prefetch \o data) = [k \in 1..sent["server"] |-> k]
  <2>1. Stream("server") = ahead \o (prefetch \o data)
    BY DEF Stream, Unread, Other
  <2>2. Kept("server") = [k \in 1..sent["server"] |-> k]
    BY <1>1 DEF Kept
  <2> QED BY <2>1, <2>2 DEF Conserved, Sides
<1> HIDE DEF data, ahead
<1>4. \A k \in 1..Len(ahead \o (prefetch \o data)) : (ahead \o (prefetch \o data))[k] # 0
  BY <1>1, <1>3
<1>5. \A i \in 1..Len(prefetch \o data) : (prefetch \o data)[i] # 0
  BY <1>2, <1>4, NoZeroInParts DEF Bytes
<1>6. \A i \in 1..Len(data) : data[i] # 0
  BY <1>1, <1>2, <1>5, NoZeroInParts DEF Bytes
<1>7. \A i \in 1..Len(prefetch) : prefetch[i] # 0
  BY <1>1, <1>2, <1>5, NoZeroInParts DEF Bytes
<1>8. \A i \in 2..Len(inbox["server"]) : inbox["server"][i] # 0
  <2>1. SUFFICES ASSUME NEW i \in 2..Len(inbox["server"])
                 PROVE  inbox["server"][i] # 0
    OBVIOUS
  <2>2. CASE data = inbox["server"]
    BY <1>6, <2>2
  <2>3. CASE data # inbox["server"]
    <3>1. data = Tail(inbox["server"]) /\ inbox["server"] # << >>
      BY <2>3 DEF data
    <3>2. Len(data) = Len(inbox["server"]) - 1 /\ data[i - 1] = inbox["server"][i]
      BY <1>1, <3>1 DEF Bytes
    <3>3. i - 1 \in 1..Len(data)
      BY <1>1, <3>2 DEF Bytes
    <3> QED BY <1>6, <3>2, <3>3
  <2> QED BY <2>2, <2>3
<1> QED BY <1>7, <1>8

(* What is left in the server's socket after a read is data.               *)
LEMMA RestIsNoHead ==
    ASSUME TypeOK, Conserved, NEW n \in 1..Len(inbox["server"]),
           inbox' = [inbox EXCEPT !["server"] = SubSeq(@, n + 1, Len(@))]
    PROVE  inbox'["server"] # << >> => inbox'["server"][1] # 0
<1>1. /\ inbox["server"] \in Seq(0..MaxBytes) /\ n \in 0..Len(inbox["server"])
      /\ Len(inbox["server"]) \in Nat
  BY DEF TypeOK, Bytes, Sides
<1>2. inbox'["server"] = SubSeq(inbox["server"], n + 1, Len(inbox["server"]))
  BY DEF TypeOK, Sides
<1>3. /\ inbox'["server"] \in Seq(0..MaxBytes)
      /\ Len(inbox'["server"]) = Len(inbox["server"]) - n
      /\ \A i \in 1..(Len(inbox["server"]) - n) : inbox'["server"][i] = inbox["server"][n + i]
  BY <1>1, <1>2, CutInTwo
<1>4. SUFFICES ASSUME inbox'["server"] # << >>
               PROVE  inbox'["server"][1] # 0
  OBVIOUS
<1>5. 1 \in 1..(Len(inbox["server"]) - n) /\ n + 1 \in 2..Len(inbox["server"])
  BY <1>1, <1>3, <1>4
<1> QED BY <1>3, <1>5, DataIsNoHead

-----------------------------------------------------------------------------
(* Close ends the connection of those that have seen no other end.         *)
LEMMA HungUp ==
    ASSUME TypeOK, NEW S \in SUBSET Sides, NEW in, HangUp(S, in)
    PROVE  /\ hung' \subseteq Sides /\ hung \subseteq hung'
           /\ hung' \subseteq hung \cup (S \ shut)
BY DEF TypeOK, HangUp

(* The goroutines close both sockets for a cause the peers have given.     *)
LEMMA ClosedForCause ==
    ASSUME IInv, NEW s \in Sides, CopyExpires(s) \/ CopyBreaks(s)
    PROVE  /\ CloseBoth /\ told = "established"
           /\ UNCHANGED <<phase, told, reset, sent, fin, early, got, outbox, shut>>
           /\ cut => cut'
           /\ reset # {} \/ cut'
<1>1. /\ CloseBoth /\ phase = "relay" /\ told = "established"
      /\ UNCHANGED <<phase, told, reset, sent, fin, early, got, outbox, shut>>
      /\ cut => cut'
  BY DEF CopyExpires, CopyBreaks, ReadsSocket, Copying, IInv, TypeOK, peerVars
<1>2. CASE CopyExpires(s)
  <2>1. deadline[s] = "drain"
    BY <1>1, <1>2 DEF CopyExpires, IInv, TypeOK, Stage, Sides
  <2> QED BY <1>1, <1>2, <2>1 DEF CopyExpires
<1>3. CASE CopyBreaks(s)
  BY <1>1, <1>3 DEF CopyBreaks, IInv, Orderly
<1> QED BY <1>1, <1>2, <1>3

(* The deferred calls hang up on nobody, unless a peer gave cause.         *)
LEMMA EndsForCause ==
    ASSUME IInv, RelayEnds
    PROVE  /\ phase' = "closed" /\ hung' \subseteq Sides /\ hung \subseteq hung'
           /\ UNCHANGED <<told, reset, cut, sent, fin, early, got, outbox, shut>>
           /\ reset = {} /\ ~ cut => hung' = hung
<1>1. /\ phase = "relay" /\ phase' = "closed" /\ told = "established" /\ CloseBoth
      /\ UNCHANGED <<told, reset, cut, sent, fin, early, got, outbox, shut>>
      /\ TypeOK
  BY DEF RelayEnds, IInv, TypeOK, peerVars
<1>2. /\ hung' \subseteq Sides /\ hung \subseteq hung'
      /\ hung' \subseteq hung \cup (Sides \ shut)
  BY <1>1, HungUp DEF CloseBoth, TypeOK
<1>3. ASSUME reset = {}, ~ cut
      PROVE  hung' = hung
  <2>1. "client" \in shut /\ "server" \in shut
    BY <1>1, <1>3 DEF IInv, Orderly, RelayEnds, Sides, Other
  <2> QED BY <1>2, <2>1 DEF Sides
<1> QED BY <1>1, <1>2, <1>3

(* What the handler does before the relay: it goes on, or ends, and hangs  *)
(* up, without a tunnel.                                                   *)
LEMMA HandlerHangsUp ==
    ASSUME IInv, HandlerStep
    PROVE  /\ hung = {} /\ hung' \subseteq Sides
           /\ ~ closed' /\ told = "nothing"
           /\ hung' # {} => phase' = "closed" /\ told' # "established"
           /\ UNCHANGED <<sent, fin, reset, cut, got, outbox, shut>>
<1>1. /\ hung = {} /\ ~ closed /\ told = "nothing" /\ TypeOK
      /\ phase \notin {"relay", "closed"}
  BY DEF HandlerStep, Lookup, Dial, SendRequest, ReadHandshake, HandshakeFails, Hijack, Greet,
         IInv, Open, Stage
<1>2. UNCHANGED <<closed, sent, fin, reset, cut, got, outbox, shut>>
  BY DEF HandlerStep, Lookup, Dial, SendRequest, ReadHandshake, HandshakeFails, Hijack, Greet,
         peerVars, relayVars
<1>3. CASE UNCHANGED hung
  BY <1>1, <1>2, <1>3
<1>4. CASE ~ UNCHANGED hung
  <2>1. PICK S \in SUBSET Sides : \E in : HangUp(S, in)
    BY <1>4 DEF HandlerStep, Lookup, Dial, SendRequest, ReadHandshake, HandshakeFails, Hijack,
                Greet, Sides
  <2>2. hung' \subseteq Sides
    BY <1>1, <2>1, HungUp
  <2>3. phase' = "closed" /\ told' # "established"
    BY <1>1, <1>4 DEF HandlerStep, Lookup, Dial, SendRequest, ReadHandshake, HandshakeFails,
                      Hijack, Greet, Returns
  <2> QED BY <1>1, <1>2, <2>2, <2>3
<1> QED BY <1>3, <1>4

(* Who is hung up on, and why.                                             *)
LEMMA HungStep ==
    ASSUME IInv, [Next]_vars
    PROVE  hung' \subseteq Sides /\ Open' /\ HungUpForCause'
<1>0. TypeOK /\ Open /\ HungUpForCause
  BY DEF IInv, FinMeansAll
<1> USE DEF Open, HungUpForCause
<1>1. CASE HandlerStep
  BY <1>0, <1>1, HandlerHangsUp
<1>2. ASSUME NEW s \in Sides, CopyReads(s) \/ CopyWrites(s) \/ CopyEof(s)
      PROVE  hung' \subseteq Sides /\ Open' /\ HungUpForCause'
  <2>1. UNCHANGED <<hung, phase, closed, told, reset, cut>>
    BY <1>2 DEF CopyReads, CopyWrites, CopyEof, peerVars
  <2> QED BY <1>0, <2>1 DEF TypeOK
<1>3. ASSUME NEW s \in Sides, CopyExpires(s) \/ CopyBreaks(s)
      PROVE  hung' \subseteq Sides /\ Open' /\ HungUpForCause'
  <2>1. CloseBoth /\ UNCHANGED <<told, reset>> /\ (reset # {} \/ cut')
    BY <1>3, ClosedForCause
  <2>2. hung' \subseteq Sides /\ closed'
    BY <1>0, <2>1, HungUp DEF CloseBoth, TypeOK
  <2> QED BY <2>1, <2>2
<1>4. CASE RelayEnds
  BY <1>0, <1>4, EndsForCause
<1>5. CASE PeerStep
  <2>1. /\ UNCHANGED <<hung, phase, closed, told, cut>> /\ reset \subseteq reset'
    BY <1>5 DEF PeerStep, Answers, Sends, HalfCloses, Resets, PeerReads, peerVars, relayVars
  <2> QED BY <1>0, <2>1 DEF TypeOK
<1>6. CASE UNCHANGED vars
  BY <1>0, <1>6 DEF vars, peerVars, relayVars, TypeOK
<1> QED BY <1>1, <1>2, <1>3, <1>4, <1>5, <1>6 DEF Next, CopyStep, Done

(* Every step keeps the types.                                             *)
LEMMA TypeStep ==
    ASSUME IInv, [Next]_vars
    PROVE  TypeOK'
<1>0. TypeOK /\ hung' \subseteq Sides
  BY HungStep DEF IInv
<1> USE <1>0, TunnelAssumption DEF TypeOK, Bytes, Phases, Sides, Other, ResponseHead, peerVars, relayVars
<1>1. CASE Lookup
  BY <1>1 DEF Lookup, Returns
<1>2. CASE Dial
  BY <1>2 DEF Dial, Returns
<1>3. CASE SendRequest
  <2>1. deadline' \in [Sides -> {"none", "handshake", "drain"}]
    BY <1>3 DEF SendRequest, Armed
  <2>2. phase' \in {"closed", "handshake"} /\ told' \in {"502", told}
    BY <1>3 DEF SendRequest, Returns
  <2>3. UNCHANGED <<route, verdict, sent, fin, reset, inbox, outbox, got, prefetch, held,
                    copy, shut, closed, cut, early>>
    BY <1>3 DEF SendRequest
  <2> QED BY <2>1, <2>2, <2>3
<1>4. CASE ReadHandshake
  <2>1. PICK n \in 1..Len(inbox["server"]) :
               /\ prefetch' = SubSeq(inbox["server"], 2, n)
               /\ inbox' = [inbox EXCEPT !["server"] = SubSeq(@, n + 1, Len(@))]
    BY <1>4 DEF ReadHandshake, Behind
  <2>2. prefetch' \in Bytes /\ SubSeq(inbox["server"], n + 1, Len(inbox["server"])) \in Bytes
    <3>1. /\ inbox["server"] \in Seq(0..MaxBytes) /\ n \in 0..Len(inbox["server"])
          /\ Len(inbox["server"]) \in Nat
      OBVIOUS
    <3>2. SubSeq(inbox["server"], n + 1, Len(inbox["server"])) \in Seq(0..MaxBytes)
      BY <3>1, CutInTwo
    <3>4. SubSeq(inbox["server"], 2, n) \in Seq(0..MaxBytes)
      BY <3>1, Middle
    <3> QED BY <2>1, <3>2, <3>4
  <2> QED BY <1>4, <2>1, <2>2 DEF ReadHandshake, Disarmed, Returns
<1>5. CASE HandshakeFails
  BY <1>5 DEF HandshakeFails, Disarmed, Returns
<1>6. CASE Hijack
  <2>1. CASE phase' = "closed" /\ UNCHANGED <<inbox, early>>
    BY <1>6, <2>1 DEF Hijack
  <2>2. CASE phase' = "greet"
    <3>1. PICK n \in 0..Len(inbox["client"]) :
             /\ inbox' = [inbox EXCEPT !["client"] = SubSeq(@, n + 1, Len(@))]
             /\ early' = [sent |-> sent["client"], dropped |-> n]
      BY <1>6, <2>2 DEF Hijack
    <3>2. Len(inbox["client"]) = sent["client"]
      BY <1>6, NothingReadYet DEF Hijack, IInv
    <3>3. inbox["client"] \in Seq(0..MaxBytes)
      OBVIOUS
    <3>4. SubSeq(inbox["client"], n + 1, Len(inbox["client"])) \in Seq(0..MaxBytes)
      BY <3>3, CutInTwo
    <3>5. early' \in [sent : 0..MaxBytes, dropped : 0..MaxBytes]
      BY <3>1, <3>2
    <3> QED BY <1>6, <2>2, <3>1, <3>4, <3>5 DEF Hijack
  <2> QED BY <1>6, <2>1, <2>2 DEF Hijack
<1>7. CASE Greet
  BY <1>7 DEF Greet, Rejected, Returns, Stage, IInv
<1>8. ASSUME NEW s \in Sides, CopyReads(s)
      PROVE  TypeOK'
  <2>1. held' \in [Sides -> Bytes] /\ prefetch' \in Bytes /\ inbox' \in [Sides -> Bytes]
    <3>1. CASE Source(s) = "prefetch"
      <4>1. PICK n \in 1..Len(prefetch) :
               /\ held' = [held EXCEPT ![s] = SubSeq(prefetch, 1, n)]
               /\ prefetch' = SubSeq(prefetch, n + 1, Len(prefetch))
        BY <1>8, <3>1 DEF CopyReads
      <4>2. prefetch \in Seq(0..MaxBytes) /\ n \in 0..Len(prefetch)
        OBVIOUS
      <4>3. prefetch' \in Bytes /\ SubSeq(prefetch, 1, n) \in Bytes
        BY <4>1, <4>2, CutInTwo
      <4> QED BY <1>8, <3>1, <4>1, <4>3 DEF CopyReads
    <3>2. CASE Source(s) # "prefetch"
      <4>1. PICK n \in 1..Len(inbox[s]) :
               /\ held' = [held EXCEPT ![s] = SubSeq(inbox[s], 1, n)]
               /\ inbox' = [inbox EXCEPT ![s] = SubSeq(@, n + 1, Len(@))]
        BY <1>8, <3>2 DEF CopyReads
      <4>2. inbox[s] \in Seq(0..MaxBytes) /\ n \in 0..Len(inbox[s])
        OBVIOUS
      <4>3. SubSeq(inbox[s], n + 1, Len(inbox[s])) \in Bytes /\ SubSeq(inbox[s], 1, n) \in Bytes
        BY <4>2, CutInTwo
      <4> QED BY <1>8, <3>2, <4>1, <4>3 DEF CopyReads
    <3> QED BY <3>1, <3>2
  <2> QED BY <1>8, <2>1 DEF CopyReads, Copying
<1>9. ASSUME NEW s \in Sides, CopyWrites(s)
      PROVE  TypeOK'
  <2>1. /\ Append(outbox[Other(s)], held[s][1]) \in Bytes /\ Tail(held[s]) \in Bytes
    <3>1. held[s] \in Seq(0..MaxBytes) /\ held[s] # << >> /\ outbox[Other(s)] \in Seq(0..MaxBytes)
      BY <1>9 DEF CopyWrites
    <3> QED BY <3>1, HandOn
  <2> QED BY <1>9, <2>1 DEF CopyWrites, Copying
<1>10. ASSUME NEW s \in Sides, CopyEof(s)
       PROVE  TypeOK'
  BY <1>10 DEF CopyEof, ReadsSocket, Copying, Source, Limited
<1>11. ASSUME NEW s \in Sides, CopyExpires(s)
       PROVE  TypeOK'
  BY <1>11 DEF CopyExpires, CloseBoth, ReadsSocket, Copying, Source
<1>12. ASSUME NEW s \in Sides, CopyBreaks(s)
       PROVE  TypeOK'
  BY <1>12 DEF CopyBreaks, CloseBoth, ReadsSocket, Copying, Source
<1>13. CASE RelayEnds
  BY <1>13 DEF RelayEnds, CloseBoth
<1>14. ASSUME NEW v \in {"ok", "reject", "malformed"}, Answers(v)
       PROVE  TypeOK'
  BY <1>14 DEF Answers, Connected
<1>15. ASSUME NEW s \in Sides, Sends(s)
       PROVE  TypeOK'
  <2>1. /\ sent[s] \in 0..MaxBytes /\ sent[s] < MaxBytes /\ MaxBytes \in Nat
        /\ sent' = [sent EXCEPT ![s] = sent[s] + 1] /\ sent'[s] = sent[s] + 1
    BY <1>15 DEF Sends
  <2>2. sent[s] + 1 \in 0..MaxBytes
    BY <2>1
  <2>3. inbox[s] \in Seq(0..MaxBytes)
    OBVIOUS
  <2>4. Append(inbox[s], sent[s] + 1) \in Seq(0..MaxBytes)
    BY <2>2, <2>3, AppendProperties
  <2>5. inbox' = [inbox EXCEPT ![s] = Append(inbox[s], sent[s] + 1)]
    BY <1>15, <2>1 DEF Sends
  <2>6. inbox' \in [Sides -> Bytes] /\ sent' \in [Sides -> 0..MaxBytes]
    <3>1. inbox \in [Sides -> Bytes] /\ sent \in [Sides -> 0..MaxBytes]
      OBVIOUS
    <3> HIDE DEF TypeOK
    <3> QED BY <2>1, <2>2, <2>4, <2>5, <3>1
  <2>7. UNCHANGED <<phase, route, verdict, told, fin, reset, outbox, got, prefetch, deadline,
                    held, copy, shut, closed, cut, early>>
    BY <1>15 DEF Sends
  <2> QED BY <2>6, <2>7
<1>16. ASSUME NEW s \in Sides, HalfCloses(s)
       PROVE  TypeOK'
  BY <1>16 DEF HalfCloses, Connected
<1>17. ASSUME NEW s \in Sides, Resets(s)
       PROVE  TypeOK'
  BY <1>17 DEF Resets
<1>18. ASSUME NEW s \in Sides, PeerReads(s)
       PROVE  TypeOK'
  <2>1. Append(got[s], outbox[s][1]) \in Bytes /\ Tail(outbox[s]) \in Bytes
    <3>1. outbox[s] \in Seq(0..MaxBytes) /\ outbox[s] # << >> /\ got[s] \in Seq(0..MaxBytes)
      BY <1>18 DEF PeerReads
    <3> QED BY <3>1, HandOn
  <2> QED BY <1>18, <2>1 DEF PeerReads
<1>19. CASE UNCHANGED vars
  BY <1>19 DEF vars
<1> QED BY <1>1, <1>2, <1>3, <1>4, <1>5, <1>6, <1>7, <1>8, <1>9, <1>10, <1>11, <1>12, <1>13, <1>14, <1>15, <1>16, <1>17, <1>18, <1>19
        DEF Next, HandlerStep, CopyStep, PeerStep, Done

(* After the server sent a byte, its socket is led by what led it, or by it.*)
LEMMA ServerHasSent ==
    ASSUME TypeOK, Sends("server")
    PROVE  /\ inbox'["server"] # << >>
           /\ \/ inbox["server"] = << >> /\ inbox'["server"][1] # 0
              \/ inbox["server"] # << >> /\ inbox'["server"][1] = inbox["server"][1]
<1> DEFINE x == sent'["server"]
           q == inbox["server"]
<1>1. q \in Seq(0..MaxBytes) /\ x \in 0..MaxBytes /\ x # 0
  <2>1. sent["server"] \in 0..MaxBytes /\ x = sent["server"] + 1 /\ sent["server"] < MaxBytes
    BY DEF TypeOK, Sides, Sends
  <2> QED BY <2>1, TunnelAssumption DEF TypeOK, Sides, Bytes
<1>2. inbox'["server"] = Append(q, x)
  BY DEF TypeOK, Sides, Sends
<1> HIDE DEF x, q
<1>3. Append(q, x) # << >>
  BY <1>1, NotEmptyAfter
<1>4. q = << >> => Append(q, x)[1] = x
  BY <1>1
<1>5. q # << >> => Append(q, x)[1] = q[1]
  BY <1>1
<1> QED BY <1>1, <1>2, <1>3, <1>4, <1>5 DEF q

(* Every step leads to a stage of the connection its variables agree with. *)
LEMMA StageStep ==
    ASSUME IInv, [Next]_vars
    PROVE  Stage'
<1> USE TunnelAssumption DEF IInv, Stage, Sides, Other, ResponseHead, peerVars, relayVars
<1>1. CASE Lookup
  BY <1>1 DEF Lookup, Returns
<1>2. CASE Dial
  BY <1>2 DEF Dial, Returns, TypeOK
<1>3. CASE SendRequest
  BY <1>3 DEF SendRequest, Armed, Returns, TypeOK
<1>4. CASE ReadHandshake
  <2>1. PICK n \in 1..Len(inbox["server"]) :
               inbox' = [inbox EXCEPT !["server"] = SubSeq(@, n + 1, Len(@))]
    BY <1>4 DEF ReadHandshake
  <2>2. inbox'["server"] # << >> => inbox'["server"][1] # 0
    BY <2>1, RestIsNoHead
  <2> QED BY <1>4, <2>1, <2>2 DEF ReadHandshake, Disarmed, Returns, TypeOK
<1>5. CASE HandshakeFails
  BY <1>5 DEF HandshakeFails, Disarmed, Returns, TypeOK
<1>6. CASE Hijack
  BY <1>6 DEF Hijack, TypeOK
<1>7. CASE Greet
  BY <1>7 DEF Greet, Rejected, Returns
<1>8. ASSUME NEW s \in Sides, CopyReads(s)
      PROVE  Stage'
  <2>1. inbox'["server"] # << >> => inbox'["server"][1] # 0
    <3>1. CASE s = "server" /\ Source(s) # "prefetch"
      <4>1. PICK n \in 1..Len(inbox["server"]) :
               inbox' = [inbox EXCEPT !["server"] = SubSeq(@, n + 1, Len(@))]
        BY <1>8, <3>1 DEF CopyReads
      <4> QED BY <4>1, RestIsNoHead
    <3>2. CASE ~ (s = "server" /\ Source(s) # "prefetch")
      BY <1>8, <3>2 DEF CopyReads, Copying, TypeOK
    <3> QED BY <3>1, <3>2
  <2> QED BY <1>8, <2>1 DEF CopyReads, Copying
<1>9. ASSUME NEW s \in Sides, CopyWrites(s)
      PROVE  Stage'
  BY <1>9 DEF CopyWrites, Copying
<1>10. ASSUME NEW s \in Sides, CopyEof(s)
       PROVE  Stage'
  BY <1>10 DEF CopyEof, ReadsSocket, Copying, Source, Limited
<1>11. ASSUME NEW s \in Sides, CopyExpires(s)
       PROVE  Stage'
  BY <1>11 DEF CopyExpires, CloseBoth, ReadsSocket, Copying, Source
<1>12. ASSUME NEW s \in Sides, CopyBreaks(s)
       PROVE  Stage'
  BY <1>12 DEF CopyBreaks, CloseBoth, ReadsSocket, Copying, Source
<1>13. CASE RelayEnds
  BY <1>13 DEF RelayEnds, CloseBoth
<1>14. ASSUME NEW v \in {"ok", "reject", "malformed"}, Answers(v)
       PROVE  Stage'
  <2>0. inbox["server"] = << >>
    BY <1>14 DEF Answers
  <2>1. /\ inbox' = [inbox EXCEPT !["server"] = Append(@, 0)]
        /\ phase = "handshake" /\ verdict' = v
        /\ UNCHANGED <<phase, route, told, copy, held, outbox, got, closed, cut, shut, early,
                       prefetch, deadline, sent>>
    <3> HIDE DEF IInv, Stage, Sides
    <3> QED BY <1>14 DEF Answers
  <2>2. inbox'["server"] = <<0>>
    <3>1. inbox'["server"] = Append(inbox["server"], 0)
      <4>1. "server" \in Sides /\ inbox \in [Sides -> Bytes]
        BY DEF TypeOK
      <4> HIDE DEF IInv, Stage, Sides
      <4> QED BY <2>1, <4>1
    <3>2. Append(<< >>, 0) = <<0>>
      OBVIOUS
    <3> QED BY <2>0, <3>1, <3>2
  <2>3. <<0>> # << >> /\ <<0>>[1] = 0
    OBVIOUS
  <2> QED BY <2>0, <2>1, <2>2, <2>3
<1>15. ASSUME NEW s \in Sides, Sends(s)
       PROVE  Stage'
  <2>2. CASE s = "server"
    <3>1. /\ sent'["client"] = sent["client"]
          /\ phase \notin {"lookup", "dial", "request", "closed"}
          /\ phase = "handshake" => inbox["server"] # << >>
          /\ UNCHANGED <<phase, route, verdict, told, copy, held, outbox, got, closed, cut,
                         shut, early, prefetch, deadline>>
      BY <1>15, <2>2 DEF Sends, Connected
    <3>2. /\ inbox'["server"] # << >>
          /\ \/ inbox["server"] = << >> /\ inbox'["server"][1] # 0
             \/ inbox["server"] # << >> /\ inbox'["server"][1] = inbox["server"][1]
      BY <1>15, <2>2, ServerHasSent
    <3> QED BY <3>1, <3>2
  <2>3. CASE s = "client"
    <3>1. inbox'["server"] = inbox["server"] /\ sent'["client"] = sent["client"] + 1
      BY <1>15, <2>3 DEF Sends, TypeOK
    <3>2. early.sent \in Int /\ sent["client"] \in Int
      BY DEF TypeOK
    <3>3. early'.sent <= sent'["client"]
      BY <1>15, <3>1, <3>2 DEF Sends
    <3>4. /\ phase # "closed"
          /\ UNCHANGED <<phase, route, verdict, told, copy, held, outbox, got, closed, cut,
                         shut, early, prefetch, deadline>>
      BY <1>15 DEF Sends, Connected
    <3> QED BY <3>1, <3>3, <3>4
  <2> QED BY <2>2, <2>3
<1>16. ASSUME NEW s \in Sides, HalfCloses(s)
       PROVE  Stage'
  BY <1>16 DEF HalfCloses, Connected
<1>17. ASSUME NEW s \in Sides, Resets(s)
       PROVE  Stage'
  BY <1>17 DEF Resets
<1>18. ASSUME NEW s \in Sides, PeerReads(s)
       PROVE  Stage'
  BY <1>18 DEF PeerReads
<1>19. CASE UNCHANGED vars
  BY <1>19 DEF vars
<1> QED BY <1>1, <1>2, <1>3, <1>4, <1>5, <1>6, <1>7, <1>8, <1>9, <1>10, <1>11, <1>12, <1>13, <1>14, <1>15, <1>16, <1>17, <1>18, <1>19
        DEF Next, HandlerStep, CopyStep, PeerStep, Done

(* Once a direction has met its end of stream it stays empty.              *)
LEMMA FinStep ==
    ASSUME IInv, [Next]_vars
    PROVE  HalfClosedBehindAll'
<1> USE TunnelAssumption DEF IInv, Stage, FinMeansAll, HalfClosedBehindAll, Sides, Other, ResponseHead, peerVars, relayVars
<1>1. CASE Lookup
  BY <1>1 DEF Lookup, Returns
<1>2. CASE Dial
  BY <1>2 DEF Dial, Returns
<1>3. CASE SendRequest
  BY <1>3 DEF SendRequest, Armed, Returns
<1>4. CASE ReadHandshake
  BY <1>4 DEF ReadHandshake, Behind, Disarmed, Returns
<1>5. CASE HandshakeFails
  BY <1>5 DEF HandshakeFails, Disarmed, Returns
<1>6. CASE Hijack
  BY <1>6 DEF Hijack
<1>7. CASE Greet
  BY <1>7 DEF Greet, Rejected, Returns
<1>8. ASSUME NEW s \in Sides, CopyReads(s)
      PROVE  HalfClosedBehindAll'
  <2>1. Other(s) \notin shut
    <3>1. CASE Source(s) = "prefetch"
      BY <1>8, <3>1 DEF CopyReads, Source
    <3>2. CASE Source(s) # "prefetch"
      <4>1. inbox[s] # << >>
        BY <1>8, <3>2 DEF CopyReads
      <4> QED BY <4>1
    <3> QED BY <3>1, <3>2
  <2>2. \A r \in Sides : r # s => /\ held'[r] = held[r] /\ inbox'[r] = inbox[r]
                                  /\ r = "server" => prefetch' = prefetch
    BY <1>8 DEF CopyReads, Source, TypeOK
  <2>3. shut' = shut /\ fin' = fin /\ shut \subseteq Sides
    BY <1>8 DEF CopyReads, TypeOK
  <2>4. \A t \in shut : Other(t) \in Sides /\ Other(t) # s
    BY <2>1, <2>3
  <2> QED BY <2>2, <2>3, <2>4
<1>9. ASSUME NEW s \in Sides, CopyWrites(s)
      PROVE  HalfClosedBehindAll'
  BY <1>9 DEF CopyWrites, Copying
<1>10. ASSUME NEW s \in Sides, CopyEof(s)
       PROVE  HalfClosedBehindAll'
  BY <1>10 DEF CopyEof, ReadsSocket, Copying, Source, Limited
<1>11. ASSUME NEW s \in Sides, CopyExpires(s)
       PROVE  HalfClosedBehindAll'
  BY <1>11 DEF CopyExpires, CloseBoth, ReadsSocket, Copying, Source
<1>12. ASSUME NEW s \in Sides, CopyBreaks(s)
       PROVE  HalfClosedBehindAll'
  BY <1>12 DEF CopyBreaks, CloseBoth, ReadsSocket, Copying, Source
<1>13. CASE RelayEnds
  BY <1>13 DEF RelayEnds, CloseBoth
<1>14. ASSUME NEW v \in {"ok", "reject", "malformed"}, Answers(v)
       PROVE  HalfClosedBehindAll'
  BY <1>14 DEF Answers, Connected
<1>15. ASSUME NEW s \in Sides, Sends(s)
       PROVE  HalfClosedBehindAll'
  BY <1>15 DEF Sends, Connected
<1>16. ASSUME NEW s \in Sides, HalfCloses(s)
       PROVE  HalfClosedBehindAll'
  BY <1>16 DEF HalfCloses, Connected
<1>17. ASSUME NEW s \in Sides, Resets(s)
       PROVE  HalfClosedBehindAll'
  BY <1>17 DEF Resets
<1>18. ASSUME NEW s \in Sides, PeerReads(s)
       PROVE  HalfClosedBehindAll'
  BY <1>18 DEF PeerReads
<1>19. CASE UNCHANGED vars
  BY <1>19 DEF vars
<1> QED BY <1>1, <1>2, <1>3, <1>4, <1>5, <1>6, <1>7, <1>8, <1>9, <1>10, <1>11, <1>12, <1>13, <1>14, <1>15, <1>16, <1>17, <1>18, <1>19
        DEF Next, HandlerStep, CopyStep, PeerStep, Done

(* Neither goroutine, ending in order, closes the sockets on the other.    *)
LEMMA OrderlyStep ==
    ASSUME IInv, [Next]_vars
    PROVE  Orderly' /\ NoTruncation'
<1> USE TunnelAssumption DEF IInv, Stage, Orderly, NoTruncation, Sides, Other, ResponseHead, peerVars, relayVars
<1>1. CASE Lookup
  BY <1>1 DEF Lookup, Returns
<1>2. CASE Dial
  BY <1>2 DEF Dial, Returns
<1>3. CASE SendRequest
  BY <1>3 DEF SendRequest, Armed, Returns
<1>4. CASE ReadHandshake
  BY <1>4 DEF ReadHandshake, Behind, Disarmed, Returns
<1>5. CASE HandshakeFails
  BY <1>5 DEF HandshakeFails, Disarmed, Returns
<1>6. CASE Hijack
  BY <1>6 DEF Hijack
<1>7. CASE Greet
  BY <1>7 DEF Greet, Rejected, Returns
<1>8. ASSUME NEW s \in Sides, CopyReads(s)
      PROVE  (Orderly /\ NoTruncation)'
  BY <1>8 DEF CopyReads, Copying, Source
<1>9. ASSUME NEW s \in Sides, CopyWrites(s)
      PROVE  (Orderly /\ NoTruncation)'
  BY <1>9 DEF CopyWrites, Copying
<1>10. ASSUME NEW s \in Sides, CopyEof(s)
       PROVE  (Orderly /\ NoTruncation)'
  BY <1>10 DEF CopyEof, ReadsSocket, Copying, Source, Limited
<1>11. ASSUME NEW s \in Sides, CopyExpires(s)
       PROVE  (Orderly /\ NoTruncation)'
  BY <1>11 DEF CopyExpires, CloseBoth, ReadsSocket, Copying, Source, TypeOK
<1>12. ASSUME NEW s \in Sides, CopyBreaks(s)
       PROVE  (Orderly /\ NoTruncation)'
  BY <1>12 DEF CopyBreaks, CloseBoth, ReadsSocket, Copying, Source
<1>13. CASE RelayEnds
  <2>1. Orderly'
    BY <1>13 DEF RelayEnds, CloseBoth
  <2>2. reset = {} /\ ~ cut /\ told = "established" => shut = Sides
    <3>1. Orderly /\ shut \subseteq Sides
      BY DEF TypeOK
    <3> HIDE DEF Stage, IInv, NoTruncation
    <3>2. reset = {} /\ ~ cut /\ told = "established" => "client" \in shut /\ "server" \in shut
      BY <1>13, <3>1 DEF RelayEnds
    <3> QED BY <3>1, <3>2
  <2>3. NoTruncation'
    <3>1. UNCHANGED <<reset, cut, told, shut>>
      BY <1>13 DEF RelayEnds, CloseBoth
    <3> QED BY <2>2, <3>1
  <2> QED BY <2>1, <2>3
<1>14. ASSUME NEW v \in {"ok", "reject", "malformed"}, Answers(v)
       PROVE  (Orderly /\ NoTruncation)'
  BY <1>14 DEF Answers, Connected
<1>15. ASSUME NEW s \in Sides, Sends(s)
       PROVE  (Orderly /\ NoTruncation)'
  BY <1>15 DEF Sends, Connected
<1>16. ASSUME NEW s \in Sides, HalfCloses(s)
       PROVE  (Orderly /\ NoTruncation)'
  BY <1>16 DEF HalfCloses, Connected
<1>17. ASSUME NEW s \in Sides, Resets(s)
       PROVE  (Orderly /\ NoTruncation)'
  BY <1>17 DEF Resets
<1>18. ASSUME NEW s \in Sides, PeerReads(s)
       PROVE  (Orderly /\ NoTruncation)'
  BY <1>18 DEF PeerReads
<1>19. CASE UNCHANGED vars
  BY <1>19 DEF vars
<1> QED BY <1>1, <1>2, <1>3, <1>4, <1>5, <1>6, <1>7, <1>8, <1>9, <1>10, <1>11, <1>12, <1>13, <1>14, <1>15, <1>16, <1>17, <1>18, <1>19
        DEF Next, HandlerStep, CopyStep, PeerStep, Done

-----------------------------------------------------------------------------
(* Conservation.  A line of bytes g \o o \o h \o u: what one peer has read,*)
(* what was written to it, what is held, and what is to be read.           *)
LEMMA LineReads ==
    ASSUME NEW S, NEW a \in Seq(S), NEW h \in Seq(S), NEW u \in Seq(S)
    PROVE  (a \o h) \o u = (a \o << >>) \o (h \o u)
<1>1. (a \o h) \o u = a \o (h \o u)
  BY ConcatAssociative
<1>2. a \o << >> = a
  BY ConcatEmptySeq
<1> QED BY <1>1, <1>2

(* A sequence of consecutive numbers is known by its elements.             *)
LEMMA Counted ==
    ASSUME NEW S, NEW t \in Seq(S), NEW k \in Nat, NEW n, Len(t) = k,
           \A i \in 1..k : t[i] = n + i
    PROVE  t = [i \in 1..k |-> n + i]
<1>1. t \in [1..k -> S]
  BY LenProperties
<1> QED BY <1>1

(* Three lines of bytes one behind the other.                              *)
LEMMA Regroup ==
    ASSUME NEW a \in Bytes, NEW b \in Bytes, NEW c \in Bytes
    PROVE  (a \o b) \o c = a \o (b \o c)
BY ConcatAssociative DEF Bytes

(* A byte behind the last one of a line.                                   *)
LEMMA LineGrows ==
    ASSUME NEW S, NEW a \in Seq(S), NEW u \in Seq(S), NEW x \in S
    PROVE  a \o Append(u, x) = Append(a \o u, x)
<1>1. <<x>> \in Seq(S) /\ a \o u \in Seq(S)
  BY ConcatProperties
<1>2. Append(u, x) = u \o <<x>> /\ Append(a \o u, x) = (a \o u) \o <<x>>
  BY <1>1, AppendIsConcat
<1>3. (a \o u) \o <<x>> = a \o (u \o <<x>>)
  BY <1>1, ConcatAssociative
<1> QED BY <1>2, <1>3

(* The server's bytes that are still in its socket, without the head.      *)
BehindHead == IF inbox["server"] # << >> /\ inbox["server"][1] = ResponseHead
              THEN Tail(inbox["server"]) ELSE inbox["server"]

(* What the line of s consists of.                                         *)
LEMMA LineTypes ==
    ASSUME TypeOK, NEW s \in Sides
    PROVE  /\ got[Other(s)] \in Seq(0..MaxBytes) /\ outbox[Other(s)] \in Seq(0..MaxBytes)
           /\ held[s] \in Seq(0..MaxBytes) /\ Unread(s) \in Seq(0..MaxBytes)
           /\ inbox[s] \in Seq(0..MaxBytes) /\ prefetch \in Seq(0..MaxBytes)
           /\ BehindHead \in Seq(0..MaxBytes)
<1>1. /\ got[Other(s)] \in Seq(0..MaxBytes) /\ outbox[Other(s)] \in Seq(0..MaxBytes)
      /\ held[s] \in Seq(0..MaxBytes) /\ inbox[s] \in Seq(0..MaxBytes)
      /\ inbox["server"] \in Seq(0..MaxBytes) /\ prefetch \in Seq(0..MaxBytes)
  BY DEF TypeOK, Bytes, Sides, Other
<1>2. BehindHead \in Seq(0..MaxBytes)
  <2>1. inbox["server"] # << >> => Tail(inbox["server"]) \in Seq(0..MaxBytes)
    BY <1>1, HeadTailProperties
  <2> QED BY <1>1, <2>1 DEF BehindHead
<1>3. prefetch \o BehindHead \in Seq(0..MaxBytes)
  BY <1>1, <1>2, ConcatProperties
<1>4. Unread(s) = IF s = "client" THEN inbox[s] ELSE prefetch \o BehindHead
  BY DEF Unread, BehindHead, Sides
<1> QED BY <1>1, <1>2, <1>3, <1>4

(* What moves no byte conserves them.                                      *)
LEMMA Unmoved ==
    ASSUME Conserved, UNCHANGED <<sent, inbox, outbox, got, held, prefetch, early>>
    PROVE  Conserved'
BY DEF Conserved, Stream, Unread, Kept

(* The response head is no byte of the stream.                             *)
LEMMA AnswersConserves ==
    ASSUME IInv, NEW v \in {"ok", "reject", "malformed"}, Answers(v)
    PROVE  Conserved'
<1>1. /\ inbox["server"] = << >> /\ inbox' = [inbox EXCEPT !["server"] = Append(@, 0)]
      /\ inbox["server"] \in Seq(0..MaxBytes) /\ inbox \in [Sides -> Bytes]
      /\ UNCHANGED <<sent, outbox, got, held, prefetch, early>>
  BY DEF IInv, TypeOK, Stage, Answers, Sides, Bytes, ResponseHead, peerVars, relayVars
<1>2. /\ inbox'["client"] = inbox["client"] /\ inbox'["server"] = <<0>>
  BY <1>1 DEF Sides
<1>3. Tail(<<0>>) = << >> /\ <<0>> # << >> /\ <<0>>[1] = 0
  OBVIOUS
<1>4. Unread("server")' = Unread("server") /\ Unread("client")' = Unread("client")
  BY <1>1, <1>2, <1>3 DEF Unread, ResponseHead
<1>5. \A s \in Sides : Stream(s)' = Stream(s) /\ Kept(s)' = Kept(s)
  BY <1>1, <1>4 DEF Stream, Kept, Sides
<1> QED BY <1>1, <1>5 DEF IInv, Conserved

(* Reading the head and what is behind it keeps the bytes in order.        *)
LEMMA HandshakeConserves ==
    ASSUME IInv, ReadHandshake
    PROVE  Conserved'
<1> DEFINE q == inbox["server"]
<1>1. PICK n \in 1..Len(q) :
         /\ prefetch' = SubSeq(q, 2, n)
         /\ inbox' = [inbox EXCEPT !["server"] = SubSeq(@, n + 1, Len(@))]
  BY DEF ReadHandshake, Behind
<1>2. /\ prefetch = << >> /\ UNCHANGED <<sent, outbox, got, held, early>>
      /\ q \in Seq(0..MaxBytes) /\ inbox \in [Sides -> Bytes] /\ Len(q) \in Nat
      /\ q # << >> => q[1] = 0
  BY DEF IInv, TypeOK, Stage, ReadHandshake, Sides, Bytes, peerVars, relayVars
<1>3. q # << >> /\ q[1] = 0
  BY <1>1, <1>2
<1>4. /\ inbox'["client"] = inbox["client"]
      /\ inbox'["server"] = SubSeq(q, n + 1, Len(q))
      /\ inbox'["server"] # << >> => inbox'["server"][1] # 0
  <2>1. inbox'["server"] # << >> => inbox'["server"][1] # 0
    BY <1>1, RestIsNoHead DEF IInv
  <2> QED BY <1>1, <1>2, <2>1 DEF Sides
<1>5. Unread("server") = Tail(q)
  <2>1. Tail(q) \in Seq(0..MaxBytes)
    BY <1>2, <1>3, HeadTailProperties
  <2>2. << >> \o Tail(q) = Tail(q)
    BY <2>1, ConcatEmptySeq
  <2> QED BY <1>2, <1>3, <2>2 DEF Unread, ResponseHead
<1>6. Unread("server")' = SubSeq(q, 2, n) \o SubSeq(q, n + 1, Len(q))
  BY <1>1, <1>4 DEF Unread, ResponseHead
<1>7. SubSeq(q, 2, n) \o SubSeq(q, n + 1, Len(q)) = Tail(q)
  <2>1. 2 \in 1..(Len(q) + 1) /\ n \in (2 - 1)..Len(q) /\ Len(q) \in n..Len(q)
    BY <1>1, <1>2
  <2>2. SubSeq(q, 2, n) \o SubSeq(q, n + 1, Len(q)) = SubSeq(q, 2, Len(q))
    BY <1>2, <2>1, ConcatAdjacentSubSeq
  <2> QED BY <1>2, <1>3, <2>2, TailIsSubSeq
<1>8. \A s \in Sides : Stream(s)' = Stream(s) /\ Kept(s)' = Kept(s)
  <2>1. Unread("client")' = Unread("client")
    BY <1>4 DEF Unread
  <2> QED BY <1>2, <1>5, <1>6, <1>7, <2>1 DEF Stream, Kept, Sides
<1> QED BY <1>2, <1>8 DEF IInv, Conserved

(* The hijack drops the oldest bytes of the client, and counts them.       *)
LEMMA HijackConserves ==
    ASSUME IInv, Hijack
    PROVE  Conserved'
<1>1. CASE UNCHANGED <<inbox, early>>
  BY <1>1, Unmoved DEF IInv, Hijack, peerVars, relayVars
<1>2. CASE ~ UNCHANGED <<inbox, early>>
  <2> DEFINE q == inbox["client"]
             N == sent["client"]
  <2>1. PICK n \in 0..Len(q) :
           /\ inbox' = [inbox EXCEPT !["client"] = SubSeq(@, n + 1, Len(@))]
           /\ early' = [sent |-> N, dropped |-> n]
    BY <1>2 DEF Hijack
  <2>2. /\ UNCHANGED <<sent, outbox, got, held, prefetch>>
        /\ got["server"] = << >> /\ outbox["server"] = << >> /\ held["client"] = << >>
        /\ q \in Seq(0..MaxBytes) /\ inbox \in [Sides -> Bytes] /\ N \in Nat
    BY TunnelAssumption DEF IInv, TypeOK, Stage, Hijack, Sides, Bytes, peerVars, relayVars
  <2>3. q = [i \in 1..N |-> i]
    BY NothingReadYet DEF IInv, Hijack
  <2>4. Len(q) = N /\ n \in Nat /\ n <= N
    BY <2>1, <2>2, <2>3
  <2>5. inbox'["client"] = SubSeq(q, n + 1, Len(q)) /\ inbox'["server"] = inbox["server"]
    BY <2>1, <2>2 DEF Sides
  <2>6. SubSeq(q, n + 1, Len(q)) = [i \in 1..(N - n) |-> n + i]
    <3>1. /\ SubSeq(q, n + 1, Len(q)) \in Seq(0..MaxBytes)
          /\ Len(SubSeq(q, n + 1, Len(q))) = N - n
          /\ \A i \in 1..(N - n) : SubSeq(q, n + 1, Len(q))[i] = q[n + i]
      BY <2>2, <2>4, CutInTwo
    <3>2. \A i \in 1..(N - n) : q[n + i] = n + i
      BY <2>2, <2>3, <2>4
    <3> DEFINE t == SubSeq(q, n + 1, Len(q))
               k == N - n
    <3>3. /\ t \in Seq(0..MaxBytes) /\ k \in Nat /\ Len(t) = k
          /\ \A i \in 1..k : t[i] = n + i
      BY <2>2, <2>4, <3>1, <3>2
    <3> HIDE DEF t, k
    <3> QED BY <3>3, Counted DEF t, k
  <2>7. Stream("client")' = inbox'["client"]
    <3>1. inbox'["client"] \in Seq(0..MaxBytes)
      BY <2>2, <2>4, <2>5, CutInTwo
    <3>2. << >> \in Seq(0..MaxBytes)
      OBVIOUS
    <3>3. << >> \o << >> \o << >> \o inbox'["client"] = inbox'["client"]
      BY <3>1, <3>2, ConcatEmptySeq
    <3> QED BY <2>2, <3>3 DEF Stream, Unread, Other
  <2>8. Kept("client")' = [i \in 1..(N - n) |-> n + i]
    BY <2>1, <2>2 DEF Kept
  <2>9. Stream("server")' = Stream("server") /\ Kept("server")' = Kept("server")
    BY <2>2, <2>5 DEF Stream, Unread, Kept, Other
  <2>10. early'.dropped <= early'.sent
    BY <2>1, <2>4
  <2> QED BY <2>5, <2>6, <2>7, <2>8, <2>9, <2>10 DEF IInv, Conserved, Sides
<1> QED BY <1>1, <1>2

(* A peer's send appends its next byte to the line and to what is kept.    *)
LEMMA SendsConserves ==
    ASSUME IInv, NEW s \in Sides, Sends(s)
    PROVE  Conserved'
<1> DEFINE x == sent[s] + 1
           a == got[Other(s)] \o outbox[Other(s)] \o held[s]
<1>1. /\ x \in 1..MaxBytes /\ x \in 0..MaxBytes /\ x - 1 \in 0..MaxBytes
      /\ sent' = [sent EXCEPT ![s] = x] /\ sent'[s] = x
      /\ inbox' = [inbox EXCEPT ![s] = Append(@, x)]
      /\ inbox'[s] = Append(inbox[s], x)
      /\ \A r \in Sides : r # s => inbox'[r] = inbox[r] /\ sent'[r] = sent[r]
      /\ UNCHANGED <<outbox, got, held, prefetch, early>>
      /\ inbox \in [Sides -> Bytes]
  <2>1. /\ inbox \in [Sides -> Bytes] /\ sent \in [Sides -> 0..MaxBytes] /\ sent[s] < MaxBytes
        /\ sent' = [sent EXCEPT ![s] = @ + 1]
        /\ inbox' = [inbox EXCEPT ![s] = Append(@, sent'[s])]
        /\ UNCHANGED <<outbox, got, held, prefetch, early>>
    BY DEF IInv, TypeOK, Sends, relayVars
  <2>2. sent[s] \in 0..MaxBytes /\ MaxBytes \in Nat
    BY <2>1, TunnelAssumption
  <2>3. x \in 1..MaxBytes /\ x \in 0..MaxBytes /\ x - 1 \in 0..MaxBytes
    BY <2>1, <2>2
  <2> QED BY <2>1, <2>3
<1>2. /\ got[Other(s)] \in Seq(0..MaxBytes) /\ outbox[Other(s)] \in Seq(0..MaxBytes)
      /\ held[s] \in Seq(0..MaxBytes) /\ Unread(s) \in Seq(0..MaxBytes)
      /\ inbox[s] \in Seq(0..MaxBytes) /\ prefetch \in Seq(0..MaxBytes)
      /\ BehindHead \in Seq(0..MaxBytes)
  BY LineTypes DEF IInv
<1>3. a \in Seq(0..MaxBytes)
  BY <1>2, ConcatProperties
<1>4. Unread(s)' = Append(Unread(s), x)
  <2>1. CASE s = "client"
    BY <1>1, <2>1 DEF Unread
  <2>2. CASE s = "server"
    <3>1. BehindHead' = Append(BehindHead, x)
      <4>1. CASE inbox[s] = << >>
        <5>1. Append(<< >>, x) = <<x>> /\ <<x>>[1] = x /\ x # 0
          BY <1>1
        <5> QED BY <1>1, <2>2, <4>1, <5>1 DEF BehindHead, ResponseHead
      <4>2. CASE inbox[s] # << >>
        <5>1. /\ Append(inbox[s], x) # << >> /\ Append(inbox[s], x)[1] = inbox[s][1]
              /\ Tail(Append(inbox[s], x)) = Append(Tail(inbox[s]), x)
          <6> DEFINE q == inbox[s]
          <6>1. q \in Seq(0..MaxBytes) /\ x \in 0..MaxBytes /\ q # << >>
            BY <1>1, <1>2, <4>2
          <6> HIDE DEF q, x
          <6>2. Append(q, x) # << >> /\ Append(q, x)[1] = q[1]
            BY <6>1
          <6>3. Tail(Append(q, x)) = Append(Tail(q), x)
            BY <6>1, HeadTailAppend
          <6> QED BY <6>2, <6>3 DEF q
        <5>2. inbox'["server"] = Append(inbox[s], x)
          BY <1>1, <2>2
        <5> HIDE DEF x
        <5>3. CASE inbox[s][1] = ResponseHead
          <6>1. BehindHead = Tail(inbox[s]) /\ BehindHead' = Tail(Append(inbox[s], x))
            BY <2>2, <4>2, <5>1, <5>2, <5>3, Zenon DEF BehindHead
          <6> QED BY <5>1, <6>1, Zenon
        <5>4. CASE inbox[s][1] # ResponseHead
          <6>1. BehindHead = inbox[s] /\ BehindHead' = Append(inbox[s], x)
            BY <2>2, <4>2, <5>1, <5>2, <5>4, Zenon DEF BehindHead
          <6> QED BY <6>1, Zenon
        <5> QED BY <5>3, <5>4
      <4> QED BY <4>1, <4>2
    <3>2. prefetch \o Append(BehindHead, x) = Append(prefetch \o BehindHead, x)
      <4> HIDE DEF x
      <4>1. /\ x \in 0..MaxBytes /\ prefetch \in Seq(0..MaxBytes)
            /\ BehindHead \in Seq(0..MaxBytes)
        BY <1>1, <1>2
      <4> QED BY ONLY <4>1, LineGrows
    <3>3. /\ Unread(s) = prefetch \o BehindHead
          /\ Unread(s)' = prefetch' \o BehindHead'
      BY <2>2 DEF Unread, BehindHead
    <3> HIDE DEF x
    <3> QED BY <1>1, <3>1, <3>2, <3>3
  <2> QED BY <2>1, <2>2 DEF Sides
<1>5. Stream(s)' = Append(Stream(s), x)
  <2>1. a \o Append(Unread(s), x) = Append(a \o Unread(s), x)
    <3>1. x \in 0..MaxBytes
      BY <1>1
    <3> HIDE DEF x, a
    <3> QED BY <1>2, <1>3, <3>1, LineGrows
  <2>2. Stream(s) = a \o Unread(s) /\ Stream(s)' = a \o Unread(s)'
    BY <1>1 DEF Stream
  <2> HIDE DEF a, x
  <2> QED BY <1>4, <2>1, <2>2
<1>6. Kept(s)' = Append(Kept(s), x)
  <2> DEFINE from == IF s = "client" THEN early.dropped ELSE 0
             k == sent[s] - from
  <2>1. from \in Nat /\ k \in Nat /\ x = from + (k + 1) /\ x - from = k + 1
    BY TunnelAssumption DEF IInv, TypeOK, Stage, Conserved, Sides
  <2>2. Kept(s) = [i \in 1..k |-> from + i] /\ Kept(s)' = [i \in 1..(k + 1) |-> from + i]
    <3>1. Kept(s)' = [i \in 1..(x - from) |-> from + i]
      BY <1>1 DEF Kept
    <3> QED BY <2>1, <3>1 DEF Kept
  <2> HIDE DEF from, k, x
  <2>3. Append([i \in 1..k |-> from + i], from + (k + 1)) = [i \in 1..(k + 1) |-> from + i]
    BY <2>1
  <2> QED BY <2>1, <2>2, <2>3
<1>7. \A r \in Sides : r # s => Stream(r)' = Stream(r) /\ Kept(r)' = Kept(r)
  BY <1>1 DEF Stream, Unread, Kept, Sides
<1> HIDE DEF x, a
<1> QED BY <1>1, <1>5, <1>6, <1>7 DEF IInv, Conserved

(* A read moves bytes from the unread end of the line to those held.       *)
LEMMA CopyReadsConserves ==
    ASSUME IInv, NEW s \in Sides, CopyReads(s)
    PROVE  Conserved'
<1> DEFINE a == got[Other(s)] \o outbox[Other(s)]
<1>1. /\ held[s] = << >> /\ phase = "relay"
      /\ UNCHANGED <<sent, outbox, got, early>>
      /\ held \in [Sides -> Bytes] /\ inbox \in [Sides -> Bytes]
      /\ inbox["server"] # << >> => inbox["server"][1] # 0
  BY DEF IInv, TypeOK, Stage, CopyReads, Copying, peerVars
<1>2. /\ got[Other(s)] \in Seq(0..MaxBytes) /\ outbox[Other(s)] \in Seq(0..MaxBytes)
      /\ Unread(s) \in Seq(0..MaxBytes)
      /\ inbox[s] \in Seq(0..MaxBytes) /\ prefetch \in Seq(0..MaxBytes)
      /\ BehindHead \in Seq(0..MaxBytes)
  BY LineTypes DEF IInv
<1>3. a \in Seq(0..MaxBytes)
  BY <1>2, ConcatProperties
<1>4. /\ held'[s] \in Seq(0..MaxBytes) /\ Unread(s)' \in Seq(0..MaxBytes)
      /\ held'[s] \o Unread(s)' = Unread(s)
      /\ \A r \in Sides : r # s => Unread(r)' = Unread(r) /\ held'[r] = held[r]
  <2>1. CASE Source(s) = "prefetch"
    <3>1. PICK n \in 1..Len(prefetch) :
             /\ held' = [held EXCEPT ![s] = SubSeq(prefetch, 1, n)]
             /\ prefetch' = SubSeq(prefetch, n + 1, Len(prefetch))
      BY <2>1 DEF CopyReads
    <3>2. s = "server" /\ UNCHANGED inbox
      BY <2>1 DEF CopyReads, Source
    <3>3. /\ SubSeq(prefetch, 1, n) \in Seq(0..MaxBytes)
          /\ SubSeq(prefetch, n + 1, Len(prefetch)) \in Seq(0..MaxBytes)
          /\ SubSeq(prefetch, 1, n) \o SubSeq(prefetch, n + 1, Len(prefetch)) = prefetch
      <4>1. n \in 0..Len(prefetch)
        OBVIOUS
      <4> QED BY <1>2, <4>1, CutInTwo
    <3>4. held'[s] = SubSeq(prefetch, 1, n) /\ \A r \in Sides : r # s => held'[r] = held[r]
      BY <1>1, <3>1
    <3>5. BehindHead' = BehindHead /\ \A r \in Sides : r # s => Unread(r)' = Unread(r)
      BY <3>2 DEF BehindHead, Unread, Sides
    <3>6. Unread(s)' = prefetch' \o BehindHead /\ Unread(s) = prefetch \o BehindHead
      BY <3>2, <3>5 DEF Unread, BehindHead
    <3>7. held'[s] \in Seq(0..MaxBytes) /\ prefetch' \in Seq(0..MaxBytes) /\ held'[s] \o prefetch' = prefetch
      BY <3>1, <3>3, <3>4
    <3>8. held'[s] \o (prefetch' \o BehindHead) = (held'[s] \o prefetch') \o BehindHead
      <4> DEFINE h == held'[s]
                 p == prefetch'
      <4>1. h \in Bytes /\ p \in Bytes
        BY <3>7 DEF Bytes
      <4> HIDE DEF h, p
      <4> DEFINE b == BehindHead
      <4>2. b \in Bytes
        BY <1>2 DEF Bytes
      <4> HIDE DEF b
      <4>3. h \o (p \o b) = (h \o p) \o b
        BY <4>1, <4>2, Regroup
      <4> QED BY <4>3 DEF h, p, b
    <3>9. Unread(s)' \in Seq(0..MaxBytes)
      BY <1>2, <3>6, <3>7, ConcatProperties
    <3> QED BY <3>4, <3>5, <3>6, <3>7, <3>8, <3>9
  <2>2. CASE Source(s) # "prefetch"
    <3>1. PICK n \in 1..Len(inbox[s]) :
             /\ held' = [held EXCEPT ![s] = SubSeq(inbox[s], 1, n)]
             /\ inbox' = [inbox EXCEPT ![s] = SubSeq(@, n + 1, Len(@))]
      BY <2>2 DEF CopyReads
    <3>2. UNCHANGED prefetch /\ (s = "server" => prefetch = << >>)
      BY <2>2 DEF CopyReads, Source
    <3>3. /\ SubSeq(inbox[s], 1, n) \in Seq(0..MaxBytes)
          /\ SubSeq(inbox[s], n + 1, Len(inbox[s])) \in Seq(0..MaxBytes)
          /\ SubSeq(inbox[s], 1, n) \o SubSeq(inbox[s], n + 1, Len(inbox[s])) = inbox[s]
      <4>1. n \in 0..Len(inbox[s])
        OBVIOUS
      <4> QED BY <1>2, <4>1, CutInTwo
    <3>4. /\ held'[s] = SubSeq(inbox[s], 1, n)
          /\ inbox'[s] = SubSeq(inbox[s], n + 1, Len(inbox[s]))
          /\ \A r \in Sides : r # s => held'[r] = held[r] /\ inbox'[r] = inbox[r]
      BY <1>1, <3>1
    <3>5. s = "server" => (inbox'["server"] # << >> => inbox'["server"][1] # 0)
      BY <3>1, RestIsNoHead DEF IInv
    <3>6. \A r \in Sides : r # s => Unread(r)' = Unread(r)
      BY <3>2, <3>4 DEF Unread, Sides
    <3>7. Unread(s) = inbox[s] /\ Unread(s)' = inbox'[s]
      <4>1. CASE s = "client"
        BY <4>1 DEF Unread
      <4>2. CASE s = "server"
        <5>1. inbox'["server"] \in Seq(0..MaxBytes)
          BY <3>3, <3>4, <4>2
        <5>2. << >> \o inbox["server"] = inbox["server"] /\ << >> \o inbox'["server"] = inbox'["server"]
          BY <1>2, <4>2, <5>1, ConcatEmptySeq
        <5> QED BY <1>1, <3>2, <3>5, <4>2, <5>2 DEF Unread, ResponseHead
      <4> QED BY <4>1, <4>2 DEF Sides
    <3> QED BY <3>3, <3>4, <3>6, <3>7
  <2> QED BY <2>1, <2>2
<1>5. Stream(s)' = Stream(s)
  <2>1. (a \o held'[s]) \o Unread(s)' = (a \o << >>) \o (held'[s] \o Unread(s)')
    <3> DEFINE h == held'[s]
               u == Unread(s)'
    <3>1. h \in Seq(0..MaxBytes) /\ u \in Seq(0..MaxBytes)
      BY <1>4
    <3> HIDE DEF a, h, u
    <3>2. (a \o h) \o u = (a \o << >>) \o (h \o u)
      BY <1>3, <3>1, LineReads
    <3> QED BY <3>2 DEF h, u
  <2>2. Stream(s)' = (a \o held'[s]) \o Unread(s)' /\ Stream(s) = (a \o << >>) \o Unread(s)
    BY <1>1 DEF Stream
  <2> HIDE DEF a
  <2> QED BY <1>4, <2>1, <2>2
<1>6. \A r \in Sides : r # s => Stream(r)' = Stream(r)
  BY <1>1, <1>4 DEF Stream
<1>7. \A r \in Sides : Kept(r)' = Kept(r)
  BY <1>1 DEF Kept
<1> HIDE DEF a
<1> QED BY <1>1, <1>5, <1>6, <1>7 DEF IInv, Conserved

(* A write moves one byte from those held to the socket's.                 *)
LEMMA CopyWritesConserves ==
    ASSUME IInv, NEW s \in Sides, CopyWrites(s)
    PROVE  Conserved'
<1>1. /\ held[s] # << >>
      /\ outbox' = [outbox EXCEPT ![Other(s)] = Append(@, held[s][1])]
      /\ held' = [held EXCEPT ![s] = Tail(@)]
      /\ UNCHANGED <<sent, inbox, got, prefetch, early>>
      /\ held \in [Sides -> Bytes] /\ outbox \in [Sides -> Bytes]
  BY DEF IInv, TypeOK, CopyWrites, Copying, peerVars
<1>2. /\ got[Other(s)] \in Seq(0..MaxBytes) /\ outbox[Other(s)] \in Seq(0..MaxBytes)
      /\ held[s] \in Seq(0..MaxBytes)
  BY LineTypes DEF IInv
<1>3. /\ held'[s] = Tail(held[s])
      /\ outbox'[Other(s)] = Append(outbox[Other(s)], held[s][1])
      /\ \A r \in Sides : r # s => held'[r] = held[r] /\ outbox'[Other(r)] = outbox[Other(r)]
  BY <1>1 DEF Sides, Other
<1>4. \A r \in Sides : Unread(r)' = Unread(r) /\ Kept(r)' = Kept(r)
  BY <1>1 DEF Unread, Kept
<1>5. Stream(s)' = Stream(s)
  <2>1. ((got[Other(s)] \o Append(outbox[Other(s)], held[s][1])) \o Tail(held[s])) \o Unread(s)
           = ((got[Other(s)] \o outbox[Other(s)]) \o held[s]) \o Unread(s)
    <3> DEFINE b == Append(outbox[Other(s)], held[s][1])
               r == Tail(held[s])
    <3>1. b \o r = outbox[Other(s)] \o held[s]
      BY <1>1, <1>2, HandOn
    <3>2. b \in Bytes /\ r \in Bytes
      BY <1>1, <1>2, HandOn DEF Bytes
    <3>3. got[Other(s)] \in Bytes /\ outbox[Other(s)] \in Bytes /\ held[s] \in Bytes
      BY <1>2 DEF Bytes
    <3> HIDE DEF b, r
    <3>4. (got[Other(s)] \o b) \o r = got[Other(s)] \o (b \o r)
      BY <3>2, <3>3, Regroup
    <3>5. (got[Other(s)] \o outbox[Other(s)]) \o held[s] = got[Other(s)] \o (outbox[Other(s)] \o held[s])
      BY <3>3, Regroup
    <3>6. ((got[Other(s)] \o b) \o r) \o Unread(s) = ((got[Other(s)] \o outbox[Other(s)]) \o held[s]) \o Unread(s)
      BY <3>1, <3>4, <3>5
    <3> QED BY <3>6 DEF b, r
  <2>2. Stream(s)' = ((got[Other(s)] \o outbox'[Other(s)]) \o held'[s]) \o Unread(s)
    BY <1>1, <1>4 DEF Stream
  <2> QED BY <1>3, <2>1, <2>2 DEF Stream
<1>6. \A r \in Sides : r # s => Stream(r)' = Stream(r)
  BY <1>1, <1>3, <1>4 DEF Stream
<1> QED BY <1>1, <1>4, <1>5, <1>6 DEF IInv, Conserved

(* A peer that reads moves one byte from the socket's to its own.          *)
LEMMA PeerReadsConserves ==
    ASSUME IInv, NEW s \in Sides, PeerReads(s)
    PROVE  Conserved'
<1> DEFINE t == Other(s)
<1>1. /\ t \in Sides /\ Other(t) = s /\ outbox[s] # << >>
      /\ got' = [got EXCEPT ![s] = Append(@, outbox[s][1])]
      /\ outbox' = [outbox EXCEPT ![s] = Tail(@)]
      /\ UNCHANGED <<sent, inbox, held, prefetch, early>>
      /\ got \in [Sides -> Bytes] /\ outbox \in [Sides -> Bytes]
  BY DEF IInv, TypeOK, PeerReads, peerVars, relayVars, Other, Sides
<1>2. /\ got[s] \in Seq(0..MaxBytes) /\ outbox[s] \in Seq(0..MaxBytes)
      /\ held[t] \in Seq(0..MaxBytes) /\ Unread(t) \in Seq(0..MaxBytes)
  BY <1>1, LineTypes DEF IInv
<1>3. /\ got'[s] = Append(got[s], outbox[s][1]) /\ outbox'[s] = Tail(outbox[s])
      /\ got'[t] = got[t] /\ outbox'[t] = outbox[t]
  BY <1>1 DEF Sides, Other
<1>4. \A r \in Sides : Unread(r)' = Unread(r) /\ Kept(r)' = Kept(r)
  BY <1>1 DEF Unread, Kept
<1>5. Stream(t)' = Stream(t)
  <2>1. Append(got[s], outbox[s][1]) \o Tail(outbox[s]) \o held[t] \o Unread(t)
           = got[s] \o outbox[s] \o held[t] \o Unread(t)
    <3>1. Append(got[s], outbox[s][1]) \o Tail(outbox[s]) = got[s] \o outbox[s]
      BY <1>1, <1>2, HandOn
    <3> QED BY <3>1
  <2>2. /\ Stream(t)' = got'[s] \o outbox'[s] \o held[t] \o Unread(t)
        /\ Stream(t) = got[s] \o outbox[s] \o held[t] \o Unread(t)
    BY <1>1, <1>4 DEF Stream
  <2> QED BY <1>3, <2>1, <2>2
<1>6. Stream(s)' = Stream(s)
  BY <1>1, <1>3, <1>4 DEF Stream
<1>7. \A r \in Sides : r = s \/ r = t
  BY DEF Sides, Other
<1> QED BY <1>1, <1>4, <1>5, <1>6, <1>7 DEF IInv, Conserved

(* No step loses, repeats or reorders a byte.                              *)
LEMMA ConservedStep ==
    ASSUME IInv, [Next]_vars
    PROVE  Conserved'
<1>1. CASE Lookup
  BY <1>1, Unmoved DEF IInv, Lookup, peerVars, relayVars
<1>2. CASE Dial
  BY <1>2, Unmoved DEF IInv, Dial, peerVars, relayVars
<1>3. CASE SendRequest
  BY <1>3, Unmoved DEF IInv, SendRequest, peerVars, relayVars
<1>4. CASE ReadHandshake
  BY <1>4, HandshakeConserves
<1>5. CASE HandshakeFails
  BY <1>5, Unmoved DEF IInv, HandshakeFails, peerVars, relayVars
<1>6. CASE Hijack
  BY <1>6, HijackConserves
<1>7. CASE Greet
  BY <1>7, Unmoved DEF IInv, Greet, peerVars, relayVars
<1>8. ASSUME NEW s \in Sides, CopyReads(s)
      PROVE  Conserved'
  BY <1>8, CopyReadsConserves
<1>9. ASSUME NEW s \in Sides, CopyWrites(s)
      PROVE  Conserved'
  BY <1>9, CopyWritesConserves
<1>10. ASSUME NEW s \in Sides, CopyEof(s)
       PROVE  Conserved'
  BY <1>10, Unmoved DEF IInv, CopyEof, peerVars, relayVars
<1>11. ASSUME NEW s \in Sides, CopyExpires(s)
       PROVE  Conserved'
  BY <1>11, Unmoved DEF IInv, CopyExpires, peerVars, relayVars
<1>12. ASSUME NEW s \in Sides, CopyBreaks(s)
       PROVE  Conserved'
  BY <1>12, Unmoved DEF IInv, CopyBreaks, peerVars, relayVars
<1>13. CASE RelayEnds
  BY <1>13, Unmoved DEF IInv, RelayEnds, peerVars, relayVars
<1>14. ASSUME NEW v \in {"ok", "reject", "malformed"}, Answers(v)
       PROVE  Conserved'
  BY <1>14, AnswersConserves
<1>15. ASSUME NEW s \in Sides, Sends(s)
       PROVE  Conserved'
  BY <1>15, SendsConserves
<1>16. ASSUME NEW s \in Sides, HalfCloses(s)
       PROVE  Conserved'
  BY <1>16, Unmoved DEF IInv, HalfCloses, peerVars, relayVars
<1>17. ASSUME NEW s \in Sides, Resets(s)
       PROVE  Conserved'
  BY <1>17, Unmoved DEF IInv, Resets, peerVars, relayVars
<1>18. ASSUME NEW s \in Sides, PeerReads(s)
       PROVE  Conserved'
  BY <1>18, PeerReadsConserves
<1>19. CASE UNCHANGED vars
  BY <1>19, Unmoved DEF IInv, vars, peerVars, relayVars
<1> QED BY <1>1, <1>2, <1>3, <1>4, <1>5, <1>6, <1>7, <1>8, <1>9, <1>10, <1>11, <1>12, <1>13, <1>14, <1>15, <1>16, <1>17, <1>18, <1>19
        DEF Next, HandlerStep, CopyStep, PeerStep, Done

(* A deadline is set by the handshake, taken back by its end, and set once *)
(* more by the direction that ends first.                                  *)
LEMMA TimedStep ==
    ASSUME IInv, [Next]_vars
    PROVE  Untimed' /\ WaitsAreTimed'
<1> USE DEF Untimed, WaitsAreTimed, Sides, Other, peerVars, relayVars
<1>0. /\ TypeOK /\ Stage /\ Untimed /\ WaitsAreTimed
      /\ deadline \in [Sides -> {"none", "handshake", "drain"}]
      /\ copy \in [Sides -> {"on", "done"}]
  BY DEF IInv, TypeOK
<1>1. CASE Lookup
  BY <1>0, <1>1 DEF Lookup, Returns
<1>2. CASE Dial
  BY <1>0, <1>2 DEF Dial, Returns
<1>3. CASE SendRequest
  BY <1>0, <1>3 DEF SendRequest, Armed, Returns
<1>4. CASE ReadHandshake
  BY <1>0, <1>4 DEF ReadHandshake, Disarmed, Returns
<1>5. CASE HandshakeFails
  BY <1>0, <1>5 DEF HandshakeFails, Disarmed, Returns
<1>6. CASE Hijack
  BY <1>0, <1>6 DEF Hijack
<1>7. CASE Greet
  BY <1>0, <1>7 DEF Greet, Returns, Stage
<1>8. ASSUME NEW s \in Sides, CopyReads(s) \/ CopyWrites(s)
      PROVE  Untimed' /\ WaitsAreTimed'
  BY <1>0, <1>8 DEF CopyReads, CopyWrites
<1>9. ASSUME NEW s \in Sides, CopyEof(s)
      PROVE  Untimed' /\ WaitsAreTimed'
  BY <1>0, <1>9 DEF CopyEof, ReadsSocket, Copying, Limited
<1>10. ASSUME NEW s \in Sides, CopyExpires(s) \/ CopyBreaks(s)
       PROVE  Untimed' /\ WaitsAreTimed'
  BY <1>0, <1>10 DEF CopyExpires, CopyBreaks, CloseBoth, ReadsSocket, Copying
<1>11. CASE RelayEnds
  BY <1>11 DEF RelayEnds, CloseBoth
<1>12. CASE PeerStep
  BY <1>0, <1>12 DEF PeerStep, Answers, Sends, HalfCloses, Resets, PeerReads
<1>13. CASE UNCHANGED vars
  BY <1>0, <1>13 DEF vars
<1> QED BY <1>1, <1>2, <1>3, <1>4, <1>5, <1>6, <1>7, <1>8, <1>9, <1>10, <1>11, <1>12, <1>13
        DEF Next, HandlerStep, CopyStep, Done

(* What is relayed is relayed by an established tunnel.                    *)
LEMMA AnsweredStep ==
    ASSUME IInv, [Next]_vars
    PROVE  Answered'
<1> USE DEF IInv, Answered, Sides, peerVars, relayVars
<1>1. CASE HandlerStep
  <2>1. /\ phase \notin {"relay", "closed"} /\ UNCHANGED <<shut, outbox>>
    BY <1>1 DEF HandlerStep, Lookup, Dial, SendRequest, ReadHandshake, HandshakeFails, Hijack, Greet
  <2> QED BY <2>1 DEF Stage
<1>2. ASSUME NEW s \in Sides, CopyStep(s) \/ CopyExpires(s)
      PROVE  Answered'
  <2>1. phase = "relay" /\ UNCHANGED told
    BY <1>2 DEF CopyStep, CopyReads, CopyWrites, CopyEof, CopyBreaks, CopyExpires, Copying,
                ReadsSocket
  <2> QED BY <2>1 DEF TypeOK
<1>3. CASE RelayEnds
  BY <1>3 DEF RelayEnds
<1>4. ASSUME NEW v \in {"ok", "reject", "malformed"}, Answers(v)
      PROVE  Answered'
  BY <1>4 DEF Answers
<1>5. ASSUME NEW s \in Sides, Sends(s) \/ HalfCloses(s) \/ Resets(s)
      PROVE  Answered'
  BY <1>5 DEF Sends, HalfCloses, Resets
<1>6. ASSUME NEW s \in Sides, PeerReads(s)
      PROVE  Answered'
  BY <1>6 DEF PeerReads
<1>7. CASE UNCHANGED vars
  BY <1>7 DEF vars
<1> QED BY <1>1, <1>2, <1>3, <1>4, <1>5, <1>6, <1>7 DEF Next, PeerStep, Done

-----------------------------------------------------------------------------
LEMMA InitInv == Init => IInv
<1> SUFFICES ASSUME Init
             PROVE  IInv
  OBVIOUS
<1>1. TypeOK
  <2>1. << >> \in Bytes /\ 0 \in 0..MaxBytes
    BY TunnelAssumption DEF Bytes
  <2>2. /\ inbox \in [Sides -> Bytes] /\ outbox \in [Sides -> Bytes]
        /\ got \in [Sides -> Bytes] /\ held \in [Sides -> Bytes] /\ prefetch \in Bytes
    BY <2>1 DEF Init
  <2> QED BY <2>1, <2>2 DEF Init, TypeOK, Phases
<1>2. /\ Stage /\ FinMeansAll /\ Orderly /\ NoTruncation
      /\ Answered /\ Open /\ Untimed /\ WaitsAreTimed
  BY DEF Init, Stage, FinMeansAll, HalfClosedBehindAll, HungUpForCause, Orderly, Open, NoTruncation, Answered, Untimed, WaitsAreTimed, Sides
<1>3. Conserved
  <2>1. \A s \in Sides : Stream(s) = << >>
    <3>1. << >> \o << >> = << >>
      OBVIOUS
    <3> QED BY <3>1 DEF Init, Stream, Unread, Sides, Other
  <2>2. \A s \in Sides : Kept(s) = << >>
    BY DEF Init, Kept, Sides
  <2> QED BY <2>1, <2>2 DEF Init, Conserved
<1> QED BY <1>1, <1>2, <1>3 DEF IInv

(* Every reachable state satisfies the inductive invariant.                *)
THEOREM Invariance == Spec => []IInv
<1>1. IInv /\ [Next]_vars => IInv'
  BY TypeStep, StageStep, FinStep, HungStep, OrderlyStep, ConservedStep, AnsweredStep, TimedStep
     DEF IInv, FinMeansAll
<1> QED BY InitInv, <1>1, PTL DEF Spec

(* TypeOK: the handler and the goroutines never leave their types, and     *)
(* only an established tunnel relays (proxyhttphandler.go, doConnectProxy).*)
THEOREM TypeCorrect == Spec => []TypeOK
<1>1. IInv => TypeOK
  BY DEF IInv
<1> QED BY Invariance, <1>1, PTL

(* Conserved: for any number of bytes and any buffer, what a peer has read *)
(* followed by what is on its way is what the other peer sent, in order,   *)
(* less what the hijack dropped (proxyhttphandler.go, relay).              *)
THEOREM NothingLost == Spec => []Conserved
<1>1. IInv => Conserved
  BY DEF IInv
<1> QED BY Invariance, <1>1, PTL

(* FinMeansAll: closeWrite is called only behind the other peer's last     *)
(* byte, and an established tunnel hangs up on a peer in any other way     *)
(* only when one has reset or used up the drain time                       *)
(* (proxyhttphandler.go, relay, closeBoth).                                *)
THEOREM FinIsAll == Spec => []FinMeansAll
<1>1. IInv => FinMeansAll
  BY DEF IInv
<1> QED BY Invariance, <1>1, PTL

(* NoTruncation: no deadline of the handshake and no race of the two       *)
(* goroutines ends a tunnel before both peers have said all.               *)
THEOREM NotCutShort == Spec => []NoTruncation
<1>1. IInv => NoTruncation
  BY DEF IInv
<1> QED BY Invariance, <1>1, PTL

(* WaitsAreTimed: the handshake and the direction that is left are bounded *)
(* by a deadline, and an open tunnel by none (proxyhttphandler.go, relay). *)
THEOREM Timed == Spec => []WaitsAreTimed
<1>1. IInv => WaitsAreTimed
  BY DEF IInv
<1> QED BY Invariance, <1>1, PTL

-----------------------------------------------------------------------------
(* The implementation of ByteStreams.  Lines of bytes joined: a name of    *)
(* its own for \o, which the provers would take apart into elements.       *)
Join(a, b) == a \o b

LEMMA Joined ==
    ASSUME NEW a \in Bytes, NEW b \in Bytes
    PROVE  /\ Join(a, b) \in Bytes
           /\ Len(a) \in Nat /\ Len(b) \in Nat /\ Len(Join(a, b)) = Len(a) + Len(b)
BY ConcatProperties DEF Bytes, Join

LEMMA JoinedAgain ==
    ASSUME NEW a \in Bytes, NEW b \in Bytes, NEW c \in Bytes
    PROVE  Join(Join(a, b), c) = Join(a, Join(b, c))
BY Regroup DEF Join

LEMMA RegroupFour ==
    ASSUME NEW g \in Bytes, NEW w \in Bytes, NEW h \in Bytes, NEW u \in Bytes
    PROVE  Join(Join(Join(g, w), h), u) = Join(g, Join(w, Join(h, u)))
<1>1. Join(g, w) \in Bytes /\ Join(h, u) \in Bytes
  BY Joined
<1> QED BY <1>1, JoinedAgain

(* A line of consecutive numbers: what a peer has read tells which byte is *)
(* the next, and, when nothing is left behind, that it is at the last.     *)
CountsFrom(k, f) == \A i \in 1..Len(k) : k[i] = f + i

LEMMA LineCounts ==
    ASSUME NEW k \in Bytes, NEW g \in Bytes, NEW w \in Bytes, NEW back \in Bytes,
           k = Join(g, Join(w, back)), NEW f \in Nat, CountsFrom(k, f)
    PROVE  /\ w # << >> => Len(g) < Len(k) /\ w[1] = (Len(g) + f) + 1
           /\ back = << >> => Len(g) + Len(w) = Len(k)
<1>1. PICK rest \in Bytes : rest = Join(w, back) /\ Len(rest) = Len(w) + Len(back)
  BY Joined
<1>2. k = Join(g, rest) /\ Len(k) = Len(g) + Len(rest)
  BY <1>1, Joined
<1>3. Len(g) \in Nat /\ Len(w) \in Nat /\ Len(back) \in Nat
  BY Joined
<1>4. Len(g) + Len(w) + Len(back) = Len(k)
  BY <1>1, <1>2, <1>3
<1>5. ASSUME w # << >>
      PROVE  Len(g) < Len(k) /\ w[1] = (Len(g) + f) + 1
  <2>1. Len(w) > 0
    BY <1>3, <1>5 DEF Bytes
  <2>2. Len(g) < Len(k)
    BY <1>3, <1>4, <2>1
  <2>3. /\ Len(g) + 1 \in 1..Len(g) + Len(rest) /\ ~ (Len(g) + 1 <= Len(g))
        /\ (Len(g) + 1) - Len(g) = 1
    BY <1>1, <1>3, <2>1
  <2>4. k[Len(g) + 1] = rest[1]
    <3>1. Join(g, rest)[Len(g) + 1] = rest[1]
      BY <2>3, ConcatProperties DEF Bytes, Join
    <3> QED BY <1>2, <3>1
  <2>5. rest[1] = w[1]
    <3>1. 1 \in 1..Len(w) + Len(back) /\ 1 <= Len(w)
      BY <1>3, <2>1
    <3>2. Join(w, back)[1] = w[1]
      BY <3>1, ConcatProperties DEF Bytes, Join
    <3> QED BY <1>1, <3>2
  <2>6. k[Len(g) + 1] = f + (Len(g) + 1)
    <3>1. Len(g) + 1 \in 1..Len(k)
      BY <1>3, <1>4, <2>2
    <3> QED BY <3>1 DEF CountsFrom
  <2> QED BY <1>3, <2>2, <2>4, <2>5, <2>6
<1>6. ASSUME back = << >>
      PROVE  Len(g) + Len(w) = Len(k)
  <2>1. Len(back) = 0
    BY <1>6
  <2> QED BY <1>3, <1>4, <2>1
<1> QED BY <1>5, <1>6

(* Where a peer stands in the stream of the other.                         *)
LEMMA PositionFacts ==
    ASSUME IInv, NEW s \in Sides
    PROVE  /\ got[s] \in Seq(0..MaxBytes) /\ outbox[s] \in Seq(0..MaxBytes)
           /\ Streams!Other(s) = Other(s) /\ Streams!Position(s) \in Nat
           /\ outbox[s] # << >> => /\ Streams!Position(s) < sent[Other(s)]
                                   /\ outbox[s][1] = Streams!Position(s) + 1
           /\ held[Other(s)] = << >> /\ Unread(Other(s)) = << >> =>
                 Streams!Position(s) + Len(outbox[s]) = sent[Other(s)]
<1> DEFINE t == Other(s)
           f == IF s = "server" THEN early.dropped ELSE 0
<1>1. t \in Sides /\ Other(t) = s /\ Streams!Other(s) = t /\ (t = "client" <=> s = "server")
  BY DEF Sides, Other, Streams!Other
<1>2. /\ got[s] \in Seq(0..MaxBytes) /\ outbox[s] \in Seq(0..MaxBytes)
      /\ held[t] \in Seq(0..MaxBytes) /\ Unread(t) \in Seq(0..MaxBytes)
  BY <1>1, LineTypes DEF IInv
<1>3. sent[t] \in Nat /\ f \in Nat /\ f <= sent[t]
  BY <1>1, TunnelAssumption DEF IInv, TypeOK, Stage, Conserved, Sides
<1>4. Join(Join(Join(got[s], outbox[s]), held[t]), Unread(t))
      = [i \in 1..(sent[t] - f) |-> f + i]
  <2>1. Stream(t) = Kept(t)
    BY <1>1 DEF IInv, Conserved
  <2>2. Stream(t) = Join(Join(Join(got[s], outbox[s]), held[t]), Unread(t))
    BY <1>1, Zenon DEF Stream, Join
  <2>3. Kept(t) = [i \in 1..(sent[t] - f) |-> f + i]
    BY <1>1 DEF Kept
  <2> QED BY <2>1, <2>2, <2>3, Zenon
<1>5. Streams!Position(s) = Len(got[s]) + f /\ Len(got[s]) \in Nat /\ Len(outbox[s]) \in Nat
  BY <1>2 DEF Streams!Position
<1> HIDE DEF t, f
<1>6. /\ outbox[s] # << >> => Len(got[s]) + f < sent[t] /\ outbox[s][1] = (Len(got[s]) + f) + 1
      /\ held[t] = << >> /\ Unread(t) = << >> => Len(got[s]) + Len(outbox[s]) + f = sent[t]
  <2>1. PICK g \in Bytes, w \in Bytes, h \in Bytes, u \in Bytes :
            g = got[s] /\ w = outbox[s] /\ h = held[t] /\ u = Unread(t)
    BY <1>2, Zenon DEF Bytes
  <2>2. PICK n \in Nat : n = sent[t] /\ f <= n
    BY <1>3
  <2>3. PICK back \in Bytes : back = Join(h, u) /\ (h = << >> /\ u = << >> => back = << >>)
    <3>1. h = << >> /\ u = << >> => Join(h, u) = << >>
      BY ConcatEmptySeq DEF Bytes, Join
    <3> QED BY <3>1, Joined
  <2>4. PICK k \in Bytes : k = Join(g, Join(w, back))
    BY Joined
  <2>5. k = [i \in 1..(n - f) |-> f + i]
    <3>1. Join(Join(Join(g, w), h), u) = k
      BY <2>3, <2>4, RegroupFour
    <3> QED BY <1>4, <2>1, <2>2, <3>1, Zenon
  <2>6. n - f \in Nat /\ f \in Nat
    BY <1>3, <2>2
  <2>7. Len(k) = n - f /\ CountsFrom(k, f)
    BY ONLY <2>5, <2>6 DEF CountsFrom
  <2>8. /\ w # << >> => Len(g) < Len(k) /\ w[1] = (Len(g) + f) + 1
        /\ back = << >> => Len(g) + Len(w) = Len(k)
    <3>1. PICK d \in Nat : d = f /\ CountsFrom(k, d)
      BY <2>6, <2>7
    <3>2. k = Join(g, Join(w, back))
      BY <2>4
    <3>3. /\ w # << >> => Len(g) < Len(k) /\ w[1] = (Len(g) + d) + 1
          /\ back = << >> => Len(g) + Len(w) = Len(k)
      BY <3>1, <3>2, LineCounts
    <3> QED BY <3>1, <3>3
  <2>9. Len(g) \in Nat /\ Len(w) \in Nat
    BY Joined
  <2>10. /\ w # << >> => Len(g) + f < n /\ w[1] = (Len(g) + f) + 1
         /\ back = << >> => Len(g) + Len(w) + f = n
    BY <2>6, <2>7, <2>8, <2>9
  <2> QED BY <2>1, <2>2, <2>3, <2>10
<1>7. Streams!Position(s) \in Nat
      /\ (outbox[s] # << >> => /\ Streams!Position(s) < sent[t]
                               /\ outbox[s][1] = Streams!Position(s) + 1)
  BY <1>3, <1>5, <1>6
<1>8. held[t] = << >> /\ Unread(t) = << >> => Streams!Position(s) + Len(outbox[s]) = sent[t]
  <2> DEFINE p == Streams!Position(s)
  <2>1. p = Len(got[s]) + f /\ Len(got[s]) \in Nat /\ Len(outbox[s]) \in Nat /\ f \in Nat
    BY <1>3, <1>5
  <2> DEFINE a == Len(got[s])
             b == Len(outbox[s])
  <2>2. p = a + f /\ a \in Nat /\ b \in Nat
    BY <2>1, Zenon
  <2> HIDE DEF p, a, b
  <2>3. p + b = a + b + f
    BY <2>1, <2>2
  <2> QED BY <1>6, <2>3 DEF p, a, b
<1> QED BY <1>1, <1>2, <1>7, <1>8 DEF t

(* Nothing of a peer is left to read when socket and br are empty.         *)
LEMMA NothingUnread ==
    ASSUME NEW s \in Sides, inbox[s] = << >>, s = "server" => prefetch = << >>
    PROVE  Unread(s) = << >>
BY DEF Unread, Sides

(* What neither peer notices.                                              *)
LEMMA Unnoticed ==
    ASSUME UNCHANGED <<told, sent, fin, early, got, outbox, shut, hung, reset, cut>>
    PROVE  UNCHANGED Streams!vars
BY DEF Streams!vars, SeenEnd

(* A tunnel that comes down for a cause.                                   *)
LEMMA Breaking ==
    ASSUME TypeOK, UNCHANGED <<told, sent, fin, early, got, outbox, shut>>,
           hung' \subseteq Sides, hung \subseteq hung', reset' # {} \/ cut'
    PROVE  Streams!Break
<1>1. SeenEnd \subseteq SeenEnd' /\ SeenEnd' \subseteq Sides
  BY DEF SeenEnd, TypeOK
<1>2. SeenEnd' = SeenEnd \cup SeenEnd' /\ SeenEnd' \in SUBSET Streams!Sides
  BY <1>1 DEF Sides, Streams!Sides
<1> QED BY <1>2 DEF Streams!Break

LEMMA HandlerKeepsStreams ==
    ASSUME IInv, HandlerStep
    PROVE  [Streams!Next]_(Streams!vars)
<1>1. /\ told = "nothing" /\ SeenEnd = {} /\ SeenEnd' \in SUBSET Streams!Sides
      /\ hung' # {} => told' # "established"
      /\ UNCHANGED <<sent, fin, reset, cut, got, outbox, shut>>
      /\ shut = {} /\ hung = {}
  <2>1. phase \notin {"relay", "closed"}
    BY DEF HandlerStep, Lookup, Dial, SendRequest, ReadHandshake, HandshakeFails, Hijack, Greet
  <2>2. shut = {}
    BY <2>1 DEF IInv, Stage
  <2> QED BY <2>2, HandlerHangsUp DEF SeenEnd, Sides, Streams!Sides
<1>2. CASE UNCHANGED early /\ told' \in {"nothing", "502", "rejected"}
  <2>1. SeenEnd' = SeenEnd \cup SeenEnd'
    BY <1>1
  <2>2. Streams!Refuse
    BY <1>1, <1>2, <2>1 DEF Streams!Refuse
  <2> QED BY <2>2 DEF Streams!Next
<1>3. CASE UNCHANGED early /\ told' = "established"
  <2>1. SeenEnd' = {}
    BY <1>1, <1>3 DEF SeenEnd
  <2>2. Streams!Establish
    BY <1>1, <1>3, <2>1 DEF Streams!Establish
  <2> QED BY <2>2 DEF Streams!Next
<1>4. CASE ~ UNCHANGED early
  <2>1. Hijack /\ UNCHANGED <<told, hung>>
    BY <1>4 DEF HandlerStep, Lookup, Dial, SendRequest, ReadHandshake, HandshakeFails, Hijack,
                Greet
  <2>2. early'.dropped \in 0..sent["client"]
    <3>1. sent["client"] \in Nat /\ inbox["client"] = [i \in 1..sent["client"] |-> i]
      BY <2>1, NothingReadYet, TunnelAssumption DEF Hijack, IInv, TypeOK, Sides
    <3>2. Len(inbox["client"]) = sent["client"]
      BY <3>1
    <3> QED BY <1>4, <2>1, <3>1, <3>2 DEF Hijack
  <2>3. Streams!Skip
    BY <1>1, <2>1, <2>2 DEF Streams!Skip, SeenEnd
  <2> QED BY <2>3 DEF Streams!Next
<1>5. UNCHANGED early => told' \in {"nothing", "502", "rejected", "established"}
  BY <1>1 DEF HandlerStep, Lookup, Dial, SendRequest, ReadHandshake, HandshakeFails, Hijack,
              Greet, Returns
<1> QED BY <1>2, <1>3, <1>4, <1>5

LEMMA CopyKeepsStreams ==
    ASSUME IInv, NEW s \in Sides, CopyStep(s) \/ CopyExpires(s)
    PROVE  [Streams!Next]_(Streams!vars)
<1> USE DEF peerVars
<1>1. CASE CopyReads(s)
  BY <1>1, Unnoticed DEF CopyReads
<1>4. CASE CopyBreaks(s) \/ CopyExpires(s)
  <2>1. /\ CloseBoth /\ UNCHANGED <<told, reset, sent, fin, early, got, outbox, shut>>
        /\ reset # {} \/ cut'
    BY <1>4, ClosedForCause
  <2>2. TypeOK /\ hung' \subseteq Sides /\ hung \subseteq hung'
    BY <2>1, HungUp DEF IInv, CloseBoth, TypeOK
  <2> QED BY <2>1, <2>2, Breaking DEF Streams!Next
<1>2. CASE CopyWrites(s)
  <2>1. Other(s) \notin shut \cup hung
    BY <1>2 DEF CopyWrites, Copying, IInv, FinMeansAll, HalfClosedBehindAll, Open, Sides, Other
  <2>2. /\ outbox' = [outbox EXCEPT ![Other(s)] = Append(@, held[s][1])]
        /\ UNCHANGED <<told, sent, fin, early, got, shut, hung, reset, cut>>
        /\ outbox \in [Sides -> Bytes] /\ shut \subseteq Sides /\ hung \subseteq Sides
    BY <1>2 DEF CopyWrites, IInv, TypeOK
  <2>3. SeenEnd' = SeenEnd
    BY <2>1, <2>2 DEF SeenEnd
  <2> QED BY <2>2, <2>3 DEF Streams!vars
<1>3. CASE CopyEof(s)
  <2> DEFINE t == Other(s)
  <2>1. /\ t \in Sides /\ Other(t) = s
        /\ told = "established"
        /\ s \in fin /\ inbox[s] = << >> /\ held[s] = << >> /\ (s = "server" => prefetch = << >>)
        /\ shut' = shut \cup {t} /\ hung = {}
        /\ UNCHANGED <<told, sent, fin, early, got, outbox, hung, reset, cut>>
    BY <1>3 DEF CopyEof, ReadsSocket, Copying, Source, IInv, TypeOK, Open, Other, Sides
  <2>2. CASE t \in shut \/ outbox[t] # << >>
    <3>1. SeenEnd' = SeenEnd
      BY <2>1, <2>2 DEF SeenEnd
    <3> QED BY <2>1, <3>1 DEF Streams!vars
  <2>3. CASE t \notin shut /\ outbox[t] = << >>
    <3>1. t \notin SeenEnd /\ SeenEnd' = SeenEnd \cup {t}
      BY <2>1, <2>3 DEF SeenEnd
    <3>2. Streams!ReceivedAll(t)
      <4>1. Unread(s) = << >>
        BY <2>1, NothingUnread
      <4>2. Streams!Position(t) + Len(outbox[t]) = sent[s] /\ Streams!Position(t) \in Nat
            /\ Streams!Other(t) = s
        BY <2>1, <4>1, PositionFacts
      <4>3. Len(outbox[t]) = 0
        BY <2>3
      <4> QED BY <2>1, <4>2, <4>3 DEF Streams!ReceivedAll
    <3>3. Streams!SeeEnd(t)
      BY <2>1, <3>1, <3>2 DEF Streams!SeeEnd
    <3>4. t \in Streams!Sides
      BY <2>1 DEF Sides, Streams!Sides
    <3> QED BY <3>3, <3>4 DEF Streams!Next
  <2> QED BY <2>2, <2>3
<1> QED BY <1>1, <1>2, <1>3, <1>4 DEF CopyStep

LEMMA PeerKeepsStreams ==
    ASSUME IInv, NEW s \in Sides, Sends(s) \/ HalfCloses(s) \/ Resets(s) \/ PeerReads(s)
    PROVE  [Streams!Next]_(Streams!vars)
<1> USE DEF peerVars, relayVars
<1>0. s \in Streams!Sides
  BY DEF Sides, Streams!Sides
<1>1. CASE Sends(s)
  <2>1. Streams!Send(s)
    BY <1>1 DEF Sends, Connected, Streams!Send, SeenEnd
  <2> QED BY <1>0, <2>1 DEF Streams!Next
<1>2. CASE HalfCloses(s)
  <2>1. Streams!Finish(s)
    BY <1>2 DEF HalfCloses, Connected, Streams!Finish, SeenEnd
  <2> QED BY <1>0, <2>1 DEF Streams!Next
<1>3. CASE Resets(s)
  <2>1. /\ UNCHANGED <<told, sent, fin, early, got, outbox, shut, hung>> /\ reset' # {}
        /\ TypeOK /\ hung' \subseteq Sides
    BY <1>3 DEF Resets, IInv, TypeOK
  <2> QED BY <2>1, Breaking DEF Streams!Next
<1>4. CASE PeerReads(s)
  <2> DEFINE t == Other(s)
  <2>1. /\ outbox[s] # << >>
        /\ got' = [got EXCEPT ![s] = Append(@, outbox[s][1])]
        /\ outbox' = [outbox EXCEPT ![s] = Tail(@)]
        /\ UNCHANGED <<told, sent, fin, early, shut, hung, reset, cut>>
        /\ told = "established"
        /\ got \in [Sides -> Bytes] /\ outbox \in [Sides -> Bytes]
        /\ shut \subseteq Sides /\ hung \subseteq Sides
    BY <1>4 DEF PeerReads, IInv, Answered, TypeOK
  <2>2. /\ got[s] \in Seq(0..MaxBytes) /\ outbox[s] \in Seq(0..MaxBytes)
        /\ Streams!Other(s) = t /\ Streams!Position(s) \in Nat
        /\ Streams!Position(s) < sent[t] /\ outbox[s][1] = Streams!Position(s) + 1
        /\ held[t] = << >> /\ Unread(t) = << >> => Streams!Position(s) + Len(outbox[s]) = sent[t]
    BY <2>1, PositionFacts
  <2>3. s \notin SeenEnd
    BY <2>1 DEF SeenEnd
  <2>4. CASE s \in shut /\ Tail(outbox[s]) = << >>
    <3>1. SeenEnd' = SeenEnd \cup {s}
      BY <2>1, <2>4 DEF SeenEnd
    <3>2. t \in Sides /\ t \in fin /\ held[t] = << >> /\ Unread(t) = << >>
      <4>1. /\ t \in Sides /\ t \in fin /\ held[t] = << >> /\ inbox[t] = << >>
            /\ (t = "server" => prefetch = << >>)
        BY <2>4 DEF IInv, FinMeansAll, HalfClosedBehindAll, Sides, Other
      <4> QED BY <4>1, NothingUnread
    <3>3. Len(outbox[s]) = 1
      <4>1. Len(Tail(outbox[s])) = Len(outbox[s]) - 1 /\ Len(outbox[s]) \in Nat
        BY <2>1, <2>2, HeadTailProperties
      <4>2. Len(Tail(outbox[s])) = 0
        <5>1. Len(<< >>) = 0
          OBVIOUS
        <5> QED BY <2>4, <5>1, Zenon
      <4> QED BY <4>1, <4>2
    <3>4. Streams!Position(s)' = Streams!Position(s) + 1
      <4>1. got'[s] = Append(got[s], outbox[s][1]) /\ Len(got'[s]) = Len(got[s]) + 1
        BY <2>1, <2>2
      <4>2. Len(got[s]) \in Nat /\ early.dropped \in Nat
        BY <2>2 DEF IInv, TypeOK
      <4> QED BY <2>1, <4>1, <4>2 DEF Streams!Position
    <3>5. Streams!ReceivedAll(s)'
      BY <2>1, <2>2, <3>2, <3>3, <3>4 DEF Streams!ReceivedAll
    <3>6. Streams!Receive(s)
      BY <2>1, <2>2, <2>3, <3>1, <3>5 DEF Streams!Receive
    <3> QED BY <1>0, <3>6 DEF Streams!Next
  <2>6. CASE s \in hung /\ Tail(outbox[s]) = << >>
    <3>1. SeenEnd' = SeenEnd \cup {s}
      BY <2>1, <2>6 DEF SeenEnd
    <3>2. reset # {} \/ cut
      BY <2>1, <2>6 DEF IInv, FinMeansAll, HungUpForCause
    <3>3. Streams!Receive(s)
      BY <2>1, <2>2, <2>3, <3>1, <3>2 DEF Streams!Receive
    <3> QED BY <1>0, <3>3 DEF Streams!Next
  <2>5. CASE ~ (s \in shut \cup hung /\ Tail(outbox[s]) = << >>)
    <3>1. SeenEnd' = SeenEnd
      BY <2>1, <2>5 DEF SeenEnd
    <3>2. Streams!Receive(s)
      BY <2>1, <2>2, <2>3, <3>1 DEF Streams!Receive
    <3> QED BY <1>0, <3>2 DEF Streams!Next
  <2> QED BY <2>4, <2>5, <2>6
<1> QED BY <1>1, <1>2, <1>3, <1>4

(* Handler, goroutines, buffers and deadlines implement ByteStreams, for   *)
(* any number of bytes and any kernel buffer: the client is answered at    *)
(* most once, and what each peer sees is the other's stream, in order.     *)
(* Whether closeWrite or Close sent the end it sees, it has all the other  *)
(* ever sent, unless a peer reset or used up the drain time, or no tunnel  *)
(* was set up (doConnectProxy, relay, closeBoth).                          *)
THEOREM Implements == Spec => KeepsStreams
<1>1. Init => Streams!Init
  BY DEF Init, Streams!Init, Sides, Streams!Sides, SeenEnd
<1>2. ASSUME IInv, [Next]_vars
      PROVE  [Streams!Next]_(Streams!vars)
  <2>1. CASE Done \/ UNCHANGED vars
    BY <2>1, Unnoticed DEF Done, vars, peerVars, relayVars
  <2>2. ASSUME NEW v \in {"ok", "reject", "malformed"}, Answers(v)
        PROVE  [Streams!Next]_(Streams!vars)
    BY <2>2, Unnoticed DEF Answers, peerVars, relayVars
  <2>3. CASE RelayEnds
    <3>1. /\ hung' \subseteq Sides /\ hung \subseteq hung'
          /\ UNCHANGED <<told, reset, cut, sent, fin, early, got, outbox, shut>>
          /\ reset = {} /\ ~ cut => hung' = hung
      BY <1>2, <2>3, EndsForCause
    <3>2. CASE reset = {} /\ ~ cut
      BY <3>1, <3>2, Unnoticed
    <3>3. CASE ~ (reset = {} /\ ~ cut)
      BY <1>2, <3>1, <3>3, Breaking DEF IInv, Streams!Next
    <3> QED BY <3>2, <3>3
  <2> QED BY <1>2, <2>1, <2>2, <2>3, HandlerKeepsStreams, CopyKeepsStreams, PeerKeepsStreams
          DEF Next, PeerStep
<1> QED BY <1>1, <1>2, Invariance, PTL DEF Spec, KeepsStreams, Streams!Spec
=============================================================================
