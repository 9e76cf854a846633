------------------------------- MODULE Tunnel -------------------------------
(***************************************************************************)
(* One CONNECT tunnel (proxyhttphandler.go: doConnectProxy, relay): the    *)
(* handler dials the origin, or an upstream proxy with which it shakes     *)
(* hands, takes the client's connection over and relays with one goroutine *)
(* per direction.  The two peers send, half-close, reset and read whenever *)
(* they like.                                                              *)
(*                                                                         *)
(* The bytes of a peer are numbered 1, 2, ...; the head of an upstream     *)
(* proxy's response is one unit, 0.  A socket is what the peer sent and    *)
(* the handler has not read (inbox), and what the handler wrote and the    *)
(* peer has not read (outbox).  Deadlines may pass at any time once set.   *)
(***************************************************************************)
EXTENDS Integers, Sequences, SequencesExt

CONSTANTS MaxBytes,  \* bound on the bytes each peer sends
          Room       \* what the kernel buffers for a peer that does not read

ASSUME TunnelAssumption == MaxBytes \in Nat /\ Room \in Nat \ {0}

VARIABLES phase,     \* where doConnectProxy is; "closed": it has returned
          route,     \* "direct", "proxy" or "none" yet
          verdict,   \* what the upstream proxy answered, or "none" yet
          told,      \* what the client has been told
          sent,      \* how many bytes each peer has sent
          fin, reset,   \* peers that closed their sending side; that reset
          inbox, outbox, got,   \* got: what each peer has read
          prefetch,  \* bytes in br behind the upstream's response head
          deadline,  \* the read deadline of each socket
          held,      \* per source, bytes read and not yet written
          copy,      \* per source, its copy goroutine: "on" or "done"
          shut,      \* peers that were sent a FIN by closeWrite
          hung,      \* peers that were sent one by Close alone
          closed,    \* closeBoth was called
          cut,       \* history: a drain deadline passed
          early      \* history: client bytes sent and dropped by the hijack

peerVars  == <<sent, fin, reset>>
relayVars == <<held, copy, shut, closed, cut>>
vars == <<phase, route, verdict, told, peerVars, inbox, outbox, got, prefetch,
          deadline, relayVars, hung, early>>

Sides == {"client", "server"}
Other(s) == IF s = "client" THEN "server" ELSE "client"
ResponseHead == 0

-----------------------------------------------------------------------------
Init ==
    /\ phase = "lookup" /\ route = "none" /\ verdict = "none" /\ told = "nothing"
    /\ sent = [s \in Sides |-> 0]
    /\ fin = {} /\ reset = {} /\ shut = {} /\ hung = {}
    /\ inbox = [s \in Sides |-> << >>]
    /\ outbox = [s \in Sides |-> << >>]
    /\ got = [s \in Sides |-> << >>]
    /\ held = [s \in Sides |-> << >>]
    /\ prefetch = << >>
    /\ deadline = [s \in Sides |-> "none"]
    /\ copy = [s \in Sides |-> "on"]
    /\ closed = FALSE /\ cut = FALSE
    /\ early = [sent |-> 0, dropped |-> 0]

(* doConnectProxy returns after telling the client what.                   *)
Returns(what) == phase' = "closed" /\ told' = what

(* Close of the sockets of S: a FIN behind what was written, unless one    *)
(* was sent or the peer has reset.  A kernel that still has unread bytes   *)
(* of the peer may reset the connection instead, which is no end.          *)
HangUp(S, in) ==
    \E aborted \in SUBSET {s \in S : in[s] # << >>} :
        hung' = hung \cup (S \ (aborted \cup shut \cup reset))

(* lookupProxy.                                                            *)
Lookup ==
    /\ phase = "lookup"
    /\ \/ phase' = "dial" /\ route' \in {"direct", "proxy"} /\ UNCHANGED told
       \/ Returns("502") /\ UNCHANGED route
    /\ UNCHANGED <<verdict, peerVars, inbox, outbox, got, prefetch, deadline, relayVars,
                   hung, early>>

(* DialContext: connects, or fails, at the latest by its timeout.          *)
Dial ==
    /\ phase = "dial"
    /\ \/ phase' = (IF route = "proxy" THEN "request" ELSE "hijack") /\ UNCHANGED told
       \/ Returns("502")
    /\ UNCHANGED <<route, verdict, peerVars, inbox, outbox, got, prefetch, deadline,
                   relayVars, hung, early>>

(* Mutant of Armed: the wait for the response is not bounded.              *)
Unarmed == deadline

Armed == [deadline EXCEPT !["server"] = "handshake"]

(* Pass the CONNECT on to the upstream proxy and bound the wait for its    *)
(* response.  An upstream that reset is not there to be hung up on.        *)
SendRequest ==
    /\ phase = "request"
    /\ IF "server" \in reset
         THEN Returns("502") /\ UNCHANGED deadline
         ELSE /\ phase' = "handshake"
              /\ deadline' = Armed
              /\ UNCHANGED told
    /\ UNCHANGED <<route, verdict, peerVars, inbox, outbox, got, prefetch, relayVars,
                   hung, early>>

(* Mutant of Disarmed: the read deadline stays armed.                      *)
StillArmed == deadline

Disarmed == [deadline EXCEPT !["server"] = "none"]

(* Mutant of Behind: br is forgotten after the handshake.                  *)
BehindForgotten(n) == << >>

(* What br holds behind the head after reading n units.                    *)
Behind(n) == SubSeq(inbox["server"], 2, n)

(* readConnectHandshake: br fills with whatever has arrived, which may be  *)
(* more than the head.                                                     *)
ReadHandshake ==
    /\ phase = "handshake"
    /\ "server" \notin reset
    /\ \E n \in 1..Len(inbox["server"]) :
          /\ prefetch' = Behind(n)
          /\ inbox' = [inbox EXCEPT !["server"] = SubSeq(@, n + 1, Len(@))]
    /\ deadline' = Disarmed
    /\ IF verdict = "malformed"
         THEN Returns("502") /\ HangUp({"server"}, inbox')
         ELSE phase' = "hijack" /\ UNCHANGED <<told, hung>>
    /\ UNCHANGED <<route, verdict, peerVars, outbox, got, relayVars, early>>

(* The upstream proxy resets, hangs up or says nothing in time.            *)
HandshakeFails ==
    /\ phase = "handshake"
    /\ \/ "server" \in reset
       \/ "server" \in fin /\ inbox["server"] = << >>
       \/ deadline["server"] = "handshake"
    /\ deadline' = Disarmed
    /\ Returns("502") /\ HangUp({"server"}, inbox)
    /\ UNCHANGED <<route, verdict, peerVars, inbox, outbox, got, prefetch, relayVars, early>>

(* Hijack: what net/http has read of the client's bytes is in the returned *)
(* bufio.ReadWriter, which is discarded.                                   *)
Hijack ==
    /\ phase = "hijack"
    /\ \/ /\ phase' = "greet"
          /\ \E n \in 0..Len(inbox["client"]) :
                /\ inbox' = [inbox EXCEPT !["client"] = SubSeq(@, n + 1, Len(@))]
                /\ early' = [sent |-> sent["client"], dropped |-> n]
          /\ UNCHANGED hung
       \/ phase' = "closed" /\ HangUp({"server"}, inbox) /\ UNCHANGED <<inbox, early>>
    /\ UNCHANGED <<route, verdict, told, peerVars, outbox, got, prefetch, deadline, relayVars>>

(* Mutant of Rejected: whatever the upstream answered is a success.        *)
NeverRejected == FALSE

(* The upstream proxy's status is not 2xx.                                 *)
Rejected == verdict = "reject"

(* Tell the client; relay if the tunnel stands.                            *)
Greet ==
    /\ phase = "greet"
    /\ \/ Rejected /\ Returns("rejected") /\ HangUp(Sides, inbox)
       \/ ~ Rejected /\ "client" \in reset /\ Returns("nothing") /\ HangUp(Sides, inbox)
       \/ /\ ~ Rejected /\ "client" \notin reset
          /\ phase' = "relay" /\ told' = "established" /\ UNCHANGED hung
    /\ UNCHANGED <<route, verdict, peerVars, inbox, outbox, got, prefetch, deadline,
                   relayVars, early>>

HandlerStep ==
    Lookup \/ Dial \/ SendRequest \/ ReadHandshake \/ HandshakeFails \/ Hijack \/ Greet

-----------------------------------------------------------------------------
(* relay: the goroutine that copies from s to the other side.              *)

(* Mutant of Source: the relay reads the socket instead of br.             *)
SourceRaw(s) == "inbox"

(* Where the next read from s takes its bytes.                             *)
Source(s) == IF s = "server" /\ prefetch # << >> THEN "prefetch" ELSE "inbox"

Copying(s) == phase = "relay" /\ copy[s] = "on"

(* It is reading s's socket, with nothing left to write.                   *)
ReadsSocket(s) == Copying(s) /\ held[s] = << >> /\ Source(s) = "inbox"

CopyReads(s) ==
    /\ Copying(s) /\ held[s] = << >>
    /\ IF Source(s) = "prefetch"
         THEN \E n \in 1..Len(prefetch) :
                 /\ held' = [held EXCEPT ![s] = SubSeq(prefetch, 1, n)]
                 /\ prefetch' = SubSeq(prefetch, n + 1, Len(prefetch))
                 /\ UNCHANGED inbox
         ELSE /\ ~ closed /\ s \notin reset
              /\ \E n \in 1..Len(inbox[s]) :
                    /\ held' = [held EXCEPT ![s] = SubSeq(inbox[s], 1, n)]
                    /\ inbox' = [inbox EXCEPT ![s] = SubSeq(@, n + 1, Len(@))]
              /\ UNCHANGED prefetch
    /\ UNCHANGED <<phase, route, verdict, told, peerVars, outbox, got, deadline,
                   copy, shut, hung, closed, cut, early>>

(* A write blocks while the peer's buffer is full.                         *)
CopyWrites(s) ==
    /\ Copying(s) /\ held[s] # << >>
    /\ ~ closed /\ Other(s) \notin reset
    /\ Len(outbox[Other(s)]) < Room
    /\ outbox' = [outbox EXCEPT ![Other(s)] = Append(@, held[s][1])]
    /\ held' = [held EXCEPT ![s] = Tail(@)]
    /\ UNCHANGED <<phase, route, verdict, told, peerVars, inbox, got, prefetch, deadline,
                   copy, shut, hung, closed, cut, early>>

(* Mutant of Limited: no time limit for the other direction.               *)
Unlimited(s) == deadline

Limited(s) == [deadline EXCEPT ![Other(s)] = "drain"]

(* End of stream: half-close the destination and limit the time the other  *)
(* direction has left.                                                     *)
CopyEof(s) ==
    /\ ReadsSocket(s) /\ ~ closed /\ s \notin reset
    /\ s \in fin /\ inbox[s] = << >>
    /\ copy' = [copy EXCEPT ![s] = "done"]
    /\ shut' = shut \cup {Other(s)}
    /\ deadline' = Limited(s)
    /\ UNCHANGED <<phase, route, verdict, told, peerVars, inbox, outbox, got, prefetch,
                   held, hung, closed, cut, early>>

CloseBoth == closed' = TRUE /\ (IF closed THEN UNCHANGED hung ELSE HangUp(Sides, inbox))

(* A read that runs out of time is an error; an error closes both sockets. *)
CopyExpires(s) ==
    /\ ReadsSocket(s) /\ ~ closed
    /\ deadline[s] # "none"
    /\ copy' = [copy EXCEPT ![s] = "done"]
    /\ CloseBoth
    /\ cut' = (cut \/ deadline[s] = "drain")
    /\ UNCHANGED <<phase, route, verdict, told, peerVars, inbox, outbox, got, prefetch,
                   deadline, held, shut, early>>

(* So does a reset peer, and a socket the other goroutine has closed.      *)
CopyBreaks(s) ==
    /\ Copying(s)
    /\ \/ ReadsSocket(s) /\ (closed \/ s \in reset)
       \/ held[s] # << >> /\ (closed \/ Other(s) \in reset)
    /\ copy' = [copy EXCEPT ![s] = "done"]
    /\ CloseBoth
    /\ UNCHANGED <<phase, route, verdict, told, peerVars, inbox, outbox, got, prefetch,
                   deadline, held, shut, cut, early>>

CopyStep(s) == CopyReads(s) \/ CopyWrites(s) \/ CopyEof(s) \/ CopyBreaks(s)

(* wg.Wait returns and the deferred calls close what is open.              *)
RelayEnds ==
    /\ phase = "relay"
    /\ \A s \in Sides : copy[s] = "done"
    /\ phase' = "closed"
    /\ CloseBoth
    /\ UNCHANGED <<route, verdict, told, peerVars, inbox, outbox, got, prefetch, deadline,
                   held, copy, shut, cut, early>>

-----------------------------------------------------------------------------
(* The peers.                                                              *)

Connected(s) ==
    /\ phase # "closed" /\ ~ closed
    /\ s = "server" => phase \notin {"lookup", "dial"}
    /\ s \notin fin \cup reset

(* An upstream proxy answers the CONNECT.                                  *)
Answers(v) ==
    /\ phase = "handshake" /\ verdict = "none" /\ Connected("server")
    /\ verdict' = v
    /\ inbox' = [inbox EXCEPT !["server"] = Append(@, ResponseHead)]
    /\ UNCHANGED <<phase, route, told, peerVars, outbox, got, prefetch, deadline,
                   relayVars, hung, early>>

Sends(s) ==
    /\ Connected(s)
    /\ s = "server" /\ route = "proxy" => verdict # "none"
    /\ sent[s] < MaxBytes
    /\ sent' = [sent EXCEPT ![s] = @ + 1]
    /\ inbox' = [inbox EXCEPT ![s] = Append(@, sent'[s])]
    /\ UNCHANGED <<phase, route, verdict, told, fin, reset, outbox, got, prefetch, deadline,
                   relayVars, hung, early>>

HalfCloses(s) ==
    /\ Connected(s)
    /\ fin' = fin \cup {s}
    /\ UNCHANGED <<phase, route, verdict, told, sent, reset, inbox, outbox, got, prefetch,
                   deadline, relayVars, hung, early>>

Resets(s) ==
    /\ phase # "closed" /\ ~ closed /\ s \notin reset
    /\ s = "server" => phase \notin {"lookup", "dial"}
    /\ reset' = reset \cup {s}
    /\ UNCHANGED <<phase, route, verdict, told, sent, fin, inbox, outbox, got, prefetch,
                   deadline, relayVars, hung, early>>

PeerReads(s) ==
    /\ outbox[s] # << >> /\ s \notin reset
    /\ got' = [got EXCEPT ![s] = Append(@, outbox[s][1])]
    /\ outbox' = [outbox EXCEPT ![s] = Tail(@)]
    /\ UNCHANGED <<phase, route, verdict, told, peerVars, inbox, prefetch, deadline,
                   relayVars, hung, early>>

PeerStep ==
    \/ \E v \in {"ok", "reject", "malformed"} : Answers(v)
    \/ \E s \in Sides : Sends(s) \/ HalfCloses(s) \/ Resets(s) \/ PeerReads(s)

Done == phase = "closed" /\ UNCHANGED vars

Next ==
    \/ HandlerStep
    \/ \E s \in Sides : CopyStep(s) \/ CopyExpires(s)
    \/ RelayEnds
    \/ PeerStep
    \/ Done

Spec == Init /\ [][Next]_vars

(* Goroutines that can run do, and a deadline that is set passes.  Nothing *)
(* is assumed of the peers.                                                *)
FairSpec ==
    /\ Spec
    /\ WF_vars(HandlerStep) /\ WF_vars(RelayEnds)
    /\ \A s \in Sides : WF_vars(CopyStep(s)) /\ WF_vars(CopyExpires(s))

(* Peers that, moreover, keep reading.                                     *)
ReadingSpec == FairSpec /\ \A s \in Sides : WF_vars(PeerReads(s))

-----------------------------------------------------------------------------
Phases == {"lookup", "dial", "request", "handshake", "hijack", "greet", "relay", "closed"}

Bytes == Seq(0..MaxBytes)

(* Every variable keeps its type, and only an established tunnel relays.   *)
TypeOK ==
    /\ phase \in Phases
    /\ route \in {"none", "direct", "proxy"}
    /\ verdict \in {"none", "ok", "reject", "malformed"}
    /\ told \in {"nothing", "502", "rejected", "established"}
    /\ sent \in [Sides -> 0..MaxBytes]
    /\ fin \subseteq Sides /\ reset \subseteq Sides
    /\ shut \subseteq Sides /\ hung \subseteq Sides
    /\ inbox \in [Sides -> Bytes] /\ outbox \in [Sides -> Bytes]
    /\ got \in [Sides -> Bytes] /\ held \in [Sides -> Bytes]
    /\ prefetch \in Bytes
    /\ deadline \in [Sides -> {"none", "handshake", "drain"}]
    /\ copy \in [Sides -> {"on", "done"}]
    /\ closed \in BOOLEAN /\ cut \in BOOLEAN
    /\ early \in [sent : 0..MaxBytes, dropped : 0..MaxBytes]
    /\ phase = "relay" => told = "established" /\ verdict \in {"none", "ok"}

(* The bytes of s the handler has not read from br or the socket: what is  *)
(* behind the response head, while that is still to be read.               *)
Unread(s) ==
    IF s = "client" THEN inbox[s]
    ELSE prefetch \o (IF inbox[s] # << >> /\ inbox[s][1] = ResponseHead
                      THEN Tail(inbox[s]) ELSE inbox[s])

(* The bytes of s on their way to the other peer, oldest first.            *)
Stream(s) == got[Other(s)] \o outbox[Other(s)] \o held[s] \o Unread(s)

(* The bytes of s that are not lost in the hijack: the numbers after from. *)
Kept(s) ==
    LET from == IF s = "client" THEN early.dropped ELSE 0
    IN  [i \in 1..(sent[s] - from) |-> from + i]

(* No byte is lost, repeated or overtaken inside the proxy, the ones the   *)
(* upstream pipelined behind its response head included; except that the   *)
(* hijack may drop bytes a client sent before it was answered              *)
(* (proxyhttphandler.go:228-239, 251).                                     *)
Conserved ==
    /\ \A s \in Sides : Stream(s) = Kept(s)
    /\ early.dropped <= early.sent

(* A peer is half-closed only when all the other ever sent is written.     *)
HalfClosedBehindAll ==
    \A s \in shut :
        /\ Other(s) \in fin
        /\ held[Other(s)] = << >> /\ inbox[Other(s)] = << >>
        /\ Other(s) = "server" => prefetch = << >>

HungUpForCause == told = "established" /\ reset = {} /\ ~ cut => hung = {}

(* What an end of stream is worth.  The FIN of closeWrite is behind all    *)
(* that the other peer ever sent; and a tunnel that stands, in which       *)
(* nobody reset and nobody used up the drain time, gives a peer no other   *)
(* FIN than that: a Close that truncates has one of these two causes       *)
(* (proxyhttphandler.go:206, 256, 364-393, 409-413).                       *)
FinMeansAll == HalfClosedBehindAll /\ HungUpForCause

(* A tunnel ends before both peers have said all only because a peer was   *)
(* reset or used up the drain time: no deadline of the handshake, and no   *)
(* race between the two goroutines, cuts it short                          *)
(* (proxyhttphandler.go:227-230, 364-393).                                 *)
NoTruncation ==
    phase = "closed" /\ told = "established" /\ reset = {} /\ ~ cut => shut = Sides

(* What waits is timed exactly when it must be, whichever direction ends   *)
(* first and however: the upstream proxy's answer is, and the direction    *)
(* left when the other has ended in order; a tunnel that is open both ways *)
(* may stay silent forever (proxyhttphandler.go:225-230, 353-393).         *)
WaitsAreTimed ==
    /\ phase = "handshake" => deadline["server"] # "none"
    /\ phase = "relay" /\ ~ closed =>
          \A s \in Sides : copy[s] = "on" =>
              (deadline[s] # "none" <=> copy[Other(s)] = "done")

(* The tunnel keeps the promise of ByteStreams.  A peer sees an end when   *)
(* it has read all that was written before the FIN, whether closeWrite or  *)
(* Close sent that; the tunnel is broken once a peer has reset or used up  *)
(* the drain time (proxyhttphandler.go:206, 228-239, 256, 353-413).        *)
SeenEnd == {s \in shut \cup hung : outbox[s] = << >>}

Streams == INSTANCE ByteStreams
             WITH answer <- told, skipped <- early.dropped, ended <- SeenEnd,
                  broken <- reset # {} \/ cut

KeepsStreams == Streams!Spec

(* Setting up a tunnel ends, whatever the origin or the upstream proxy     *)
(* does, or fails to do: the tunnel stands, or the handler returns and     *)
(* holds no socket (proxyhttphandler.go:225-227).                          *)
SetUpEnds == phase = "lookup" ~> phase \in {"relay", "closed"}

(* Between peers that read, a tunnel one peer has left is torn down.       *)
TornDown == \A s \in Sides : phase = "relay" /\ s \in fin \cup reset ~> phase = "closed"

(* proxyhttphandler.go:43-48: the drain timeout "bounds how long the       *)
(* still-open direction of a tunnel gets to finish once the peer has sent  *)
(* its FIN" and "stops one-sided peers from pinning a goroutine and        *)
(* descriptor forever".                                                    *)
DrainIsBounded == \A s \in Sides : copy[s] = "done" ~> phase = "closed"
=============================================================================
