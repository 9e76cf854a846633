---------------------------- MODULE ByteStreams ----------------------------
(***************************************************************************)
(* What a CONNECT proxy promises the two peers of a tunnel, without saying *)
(* how bytes get across: at most one answer to the client, and, once that  *)
(* says the tunnel stands, a stream of bytes in each direction that        *)
(* arrives in order, without gaps and without repetitions, and whose end a *)
(* peer sees only when it has all the other has ever sent.  Only a tunnel  *)
(* that has broken may show an end before that, and a connection for which *)
(* no tunnel was set up is simply ended.                                   *)
(*                                                                         *)
(* The bytes of a peer are numbered 1, 2, ...  The stream to the server    *)
(* may start late: bytes the client sent before it was answered may be     *)
(* skipped.                                                                *)
(***************************************************************************)
EXTENDS Naturals, Sequences

CONSTANT MaxBytes    \* bound on the bytes each peer sends

VARIABLES answer,    \* what the client has been told, "nothing" at first
          sent,      \* how many bytes each peer has sent
          fin,       \* peers that have ended their stream
          skipped,   \* how many of the client's first bytes are not in its stream
          got,       \* what each peer has received
          ended,     \* peers that have seen the end of their connection
          broken     \* a peer reset, or took more time than it has

vars == <<answer, sent, fin, skipped, got, ended, broken>>

Sides == {"client", "server"}
Other(s) == IF s = "client" THEN "server" ELSE "client"

(* The number of the byte of the other peer that s has come to.            *)
Position(s) == Len(got[s]) + (IF s = "server" THEN skipped ELSE 0)

ReceivedAll(s) == Other(s) \in fin /\ Position(s) = sent[Other(s)]

-----------------------------------------------------------------------------
Init ==
    /\ answer = "nothing"
    /\ sent = [s \in Sides |-> 0]
    /\ fin = {} /\ ended = {}
    /\ skipped = 0
    /\ got = [s \in Sides |-> << >>]
    /\ broken = FALSE

Send(s) ==
    /\ s \notin fin
    /\ sent[s] < MaxBytes
    /\ sent' = [sent EXCEPT ![s] = @ + 1]
    /\ UNCHANGED <<answer, fin, skipped, got, ended, broken>>

Finish(s) ==
    /\ s \notin fin
    /\ fin' = fin \cup {s}
    /\ UNCHANGED <<answer, sent, skipped, got, ended, broken>>

(* The tunnel stands; nobody has been turned away.                         *)
Establish ==
    /\ answer = "nothing" /\ ended = {}
    /\ answer' = "established"
    /\ UNCHANGED <<sent, fin, skipped, got, ended, broken>>

(* The client is refused, or left without an answer, and connections end.  *)
Refuse ==
    /\ answer = "nothing"
    /\ answer' \in {"nothing", "502", "rejected"}
    /\ ended' \in {ended \cup S : S \in SUBSET Sides}
    /\ UNCHANGED <<sent, fin, skipped, got, broken>>

Skip ==
    /\ answer = "nothing"
    /\ skipped' \in 0..sent["client"]
    /\ UNCHANGED <<answer, sent, fin, got, ended, broken>>

(* The next byte arrives, and with it perhaps the end.                     *)
Receive(s) ==
    /\ answer = "established"
    /\ s \notin ended
    /\ Position(s) < sent[Other(s)]
    /\ got' = [got EXCEPT ![s] = Append(@, Position(s) + 1)]
    /\ \/ ended' = ended
       \/ (broken \/ ReceivedAll(s)') /\ ended' = ended \cup {s}
    /\ UNCHANGED <<answer, sent, fin, skipped, broken>>

SeeEnd(s) ==
    /\ answer = "established"
    /\ s \notin ended
    /\ ReceivedAll(s)
    /\ ended' = ended \cup {s}
    /\ UNCHANGED <<answer, sent, fin, skipped, got, broken>>

(* A tunnel breaks, or comes down once it has broken.                      *)
Break ==
    /\ broken' = TRUE
    /\ ended' \in {ended \cup S : S \in SUBSET Sides}
    /\ UNCHANGED <<answer, sent, fin, skipped, got>>

Next ==
    \/ Establish \/ Refuse \/ Skip \/ Break
    \/ \E s \in Sides : Send(s) \/ Finish(s) \/ Receive(s) \/ SeeEnd(s)

Spec == Init /\ [][Next]_vars
=============================================================================
