---------------------------- MODULE HttpForward ----------------------------
(***************************************************************************)
(* Plain HTTP requests (proxyhttphandler.go, nonproxyhttphandler.go,       *)
(* pac/parse.go, pac/selector.go): one client's connection, kept alive     *)
(* over several requests; the handler that asks the PAC, forwards to the   *)
(* next hop with httpClient.Do and copies the reply; and the connections   *)
(* to the hops that http.Transport pools.                                  *)
(*                                                                         *)
(* net/http is external.  What its server does when the handler returns    *)
(* (a reply shorter than its Content-Length, or one that says Connection:  *)
(* close, ends the client's connection) and when the transport tries again *)
(* (a request lost on a connection that was in use before) is part of the  *)
(* actions that cause it.  Bodies are counted in pieces.                   *)
(***************************************************************************)
EXTENDS Integers, Sequences, FiniteSets, SequencesExt

CONSTANTS Proxies,      \* what a PROXY statement may name
          PacAnswers,   \* the script's results: [statements, rest]
          Requests,     \* [target, close, body, replayable]
          Replies,      \* [framing, body, close, headers, named]
          SplitLimit,   \* the 50 of pacStatementSplit.Split
          MaxRequests,
          Nil

ASSUME LimitAssumption == SplitLimit \in Nat \ {0} /\ MaxRequests \in Nat

(* An answer is a sequence of statements: a hop, an empty one, or one that  *)
(* does not parse.  "rest" is what the text from the one at the limit on    *)
(* parses as, if there are more: nothing mostly, but "DIRECT ;..." is       *)
(* DIRECT, "PROXY p/;..." is p, and "PROXY p;q@r" is r.                     *)
ASSUME AnswersAssumption ==
    /\ Proxies \cap {"DIRECT", "bad", ""} = {}
    /\ \A answer \in PacAnswers :
          /\ answer \in [statements : Seq(Proxies \cup {"DIRECT", "bad", ""}),
                         rest : Proxies \cup {"DIRECT", "bad"}]
          /\ answer # Nil

ASSUME RequestsAssumption ==
    Requests \subseteq [target : STRING, close : BOOLEAN, body : BOOLEAN, replayable : BOOLEAN]

(* "named" are the names in the reply's Connection header; a reply of known *)
(* length says so, and does not name that header.                          *)
ASSUME RepliesAssumption ==
    /\ Replies \subseteq [framing : {"length", "chunked", "gzip", "eof"}, body : Nat,
                          close : BOOLEAN, headers : SUBSET STRING, named : SUBSET STRING]
    /\ \A rep \in Replies :
          /\ rep.named # {} => "Connection" \in rep.headers
          /\ rep.framing = "length" => "Content-Length" \in rep.headers \ rep.named

ASSUME NilAssumption == Nil \notin Requests /\ Nil \notin Replies

Direct == "DIRECT"
Hops   == Proxies \cup {Direct}
Bad    == "bad"     \* a statement that does not parse
Empty  == ""

VARIABLES
    client,     \* "idle", "asking", "closed" by the proxy, "gone" by itself
    request,    \* the request the client sent last, or Nil
    asked,      \* how many it sent
    stage,      \* of its handler: "none", "dispatch", "lookup", "dial",
                \* "sending", "waiting", "copying"
    said,       \* the PAC's answer the handler goes by, or Nil
    conn,       \* its connection to the hop: "none", "fresh", "reused", "stale"
    pool,       \* [Hops -> "none", "idle", "stale"]: the idle connection
    open,       \* [Hops -> Nat]: the connections that are open
    reply,      \* the hop's reply, or Nil
    left,       \* pieces of its body the handler has not read
    response    \* what the client has of the answer

clientVars == <<client, request, asked>>
hopVars    == <<conn, pool, open>>
vars       == <<client, request, asked, stage, said, conn, pool, open, reply, left, response>>

NoResponse == [status |-> "none", headers |-> {}, got |-> 0, end |-> "open"]
Page(status) == [status |-> status, headers |-> {}, got |-> 0, end |-> "complete"]

-----------------------------------------------------------------------------
(* Split stops at the limit: the last piece is all that is left.           *)
TooLong(answer) == Len(answer.statements) > SplitLimit

Statements(answer) ==
    IF TooLong(answer) THEN Append(SubSeq(answer.statements, 1, SplitLimit - 1), answer.rest)
                       ELSE answer.statements

(* The loop of ParseFindProxyString: empty statements are passed over.     *)
KeptUpTo(s) ==
    LET kept[i \in 0..Len(s)] ==
          IF i = 0 THEN << >>
          ELSE IF s[i] = Empty THEN kept[i - 1] ELSE Append(kept[i - 1], s[i])
    IN  kept

Filled(s) == KeptUpTo(s)[Len(s)]

(* Mutant of ParseFindProxyString: statements that do not parse are        *)
(* skipped.                                                                *)
ParseSkipsBad(answer) == SelectSeq(Filled(Statements(answer)), LAMBDA x : x # Bad)

(* ParseFindProxyString: Nil is its error.                                 *)
ParseFindProxyString(answer) ==
    IF Contains(Statements(answer), Bad) THEN Nil ELSE Filled(Statements(answer))

(* FirstItemSelector.                                                      *)
SelectProxy(from) == IF Len(from) < 1 THEN Direct ELSE from[1]

hop == SelectProxy(ParseFindProxyString(said))

(* Mutant of IsHopByHopResponseHeader: the length is taken to be the hop's. *)
HopByHopAndLength(k) ==
    k \in {"Connection", "Proxy-Connection", "Keep-Alive", "Transfer-Encoding", "Te",
           "Trailer", "Upgrade", "Content-Length"}

(* Mutant of IsHopByHopResponseHeader: Connection is passed on.            *)
HopByHopButConnection(k) ==
    k \in {"Proxy-Connection", "Keep-Alive", "Transfer-Encoding", "Te", "Trailer", "Upgrade"}

IsHopByHopResponseHeader(k) ==
    k \in {"Connection", "Proxy-Connection", "Keep-Alive", "Transfer-Encoding", "Te",
           "Trailer", "Upgrade"}

ConnectionTokens(rep) == IF "Connection" \in rep.headers THEN rep.named ELSE {}

(* copyHeaders.                                                            *)
Forwarded(rep) == {k \in rep.headers : ~ IsHopByHopResponseHeader(k)} \ ConnectionTokens(rep)

(* The client is told how long the body is; not so when the hop chunks it, *)
(* compresses it (the transport asked for that, and unpacks it) or ends it *)
(* by hanging up.                                                          *)
Declared(headers) == "Content-Length" \in headers

-----------------------------------------------------------------------------
(* What becomes of the client's connection after an answer.  A body that   *)
(* nobody read may end it.                                                 *)
KeepsOrCloses ==
    client' \in IF request.close THEN {"closed"}
                ELSE IF request.body THEN {"idle", "closed"} ELSE {"idle"}

BadGateway ==
    /\ response' = Page("502")
    /\ stage' = "none"
    /\ KeepsOrCloses

Closes == /\ conn' = "none"
          /\ open' = [open EXCEPT ![hop] = @ - 1]

Init ==
    /\ client = "idle" /\ request = Nil /\ asked = 0
    /\ stage = "none" /\ said = Nil
    /\ conn = "none" /\ pool = [h \in Hops |-> "none"] /\ open = [h \in Hops |-> 0]
    /\ reply = Nil /\ left = 0 /\ response = NoResponse

Ask(r) ==
    /\ client = "idle" /\ asked < MaxRequests
    /\ client' = "asking" /\ request' = r /\ asked' = asked + 1
    /\ stage' = "dispatch" /\ response' = NoResponse /\ reply' = Nil /\ said' = Nil
    /\ UNCHANGED <<hopVars, left>>

(* ServeHTTP: an absolute URL is forwarded, the rest are local pages.      *)
ServeHTTP ==
    /\ stage = "dispatch" /\ client = "asking"
    /\ \/ request.target = "absolute" /\ stage' = "lookup" /\ UNCHANGED <<client, response>>
       \/ /\ request.target # "absolute"
          /\ response' = Page(IF request.target = "/favicon.ico" THEN "200" ELSE "502")
          /\ stage' = "none"
          /\ KeepsOrCloses
    /\ UNCHANGED <<request, asked, said, hopVars, reply, left>>

(* lookupProxy, called by the transport: nothing is sent unless the script *)
(* answered and the answer parses.                                         *)
LookupProxy(answer) ==
    /\ stage = "lookup" /\ client = "asking"
    /\ said' = answer
    /\ \/ /\ ParseFindProxyString(answer) = Nil
          /\ BadGateway
          /\ UNCHANGED hopVars
       \/ /\ ParseFindProxyString(answer) # Nil
          /\ UNCHANGED <<client, response, open>>
          /\ LET h == SelectProxy(ParseFindProxyString(answer))
             IN  \/ /\ pool[h] = "none"
                    /\ stage' = "dial" /\ UNCHANGED <<conn, pool>>
                 \/ /\ pool[h] # "none"
                    /\ stage' = "sending" /\ pool' = [pool EXCEPT ![h] = "none"]
                    /\ conn' = IF pool[h] = "idle" THEN "reused" ELSE "stale"
    /\ UNCHANGED <<request, asked, reply, left>>

(* FindProxyForURL fails, or panics: net/http recovers and hangs up.       *)
LookupFails ==
    /\ stage = "lookup" /\ client = "asking"
    /\ said' = Nil
    /\ \/ BadGateway
       \/ stage' = "none" /\ client' = "closed" /\ response' = [response EXCEPT !.end = "cut"]
    /\ UNCHANGED <<request, asked, hopVars, reply, left>>

(* The dialer gives up after ten seconds.                                  *)
Dial ==
    /\ stage = "dial" /\ client = "asking"
    /\ \/ /\ conn' = "fresh" /\ open' = [open EXCEPT ![hop] = @ + 1]
          /\ stage' = "sending" /\ UNCHANGED <<client, response>>
       \/ BadGateway /\ UNCHANGED <<conn, open>>
    /\ UNCHANGED <<request, asked, said, pool, reply, left>>

Sent ==
    /\ stage = "sending" /\ client = "asking" /\ conn # "stale"
    /\ stage' = "waiting"
    /\ UNCHANGED <<clientVars, said, hopVars, reply, left, response>>

(* The connection fails before the reply: a request that may be repeated,  *)
(* or of which nothing was written, is tried again if the connection was   *)
(* not new, and the PAC asked again; not if the reply had begun.           *)
Lost ==
    /\ stage \in {"sending", "waiting"} /\ client = "asking"
    /\ Closes
    /\ \/ /\ conn = "stale" \/ (conn = "reused" /\ request.replayable)
          /\ stage' = "lookup" /\ UNCHANGED <<client, response>>
       \/ /\ conn # "stale" \/ ~ request.replayable
          /\ BadGateway
    /\ UNCHANGED <<request, asked, said, pool, reply, left>>

(* Mutant of ResponseHeaderTimeout: there is none.                         *)
NoHeaderTimeout == FALSE /\ UNCHANGED vars

(* ResponseHeaderTimeout, sixty seconds from the request's last byte.      *)
ResponseHeaderTimeout ==
    /\ stage = "waiting" /\ client = "asking"
    /\ Closes /\ BadGateway
    /\ UNCHANGED <<request, asked, said, pool, reply, left>>

(* httpClient.Do returns; the headers and the status are written.          *)
Reply(rep) ==
    /\ stage = "waiting" /\ client = "asking"
    /\ reply' = rep /\ left' = rep.body
    /\ response' = [NoResponse EXCEPT !.status = "forwarded", !.headers = Forwarded(rep)]
    /\ stage' = "copying"
    /\ UNCHANGED <<clientVars, said, hopVars>>

(* io.CopyBuffer.                                                          *)
Copy ==
    /\ stage = "copying" /\ client = "asking" /\ left > 0
    /\ left' = left - 1
    /\ response' = [response EXCEPT !.got = @ + 1]
    /\ UNCHANGED <<clientVars, stage, said, hopVars, reply>>

(* The handler returns: the server ends the answer it wrote to the client, *)
(* whole or not, and hangs up if it is short of its declared length or     *)
(* says Connection: close.                                                 *)
Ends ==
    /\ stage' = "none"
    /\ response' = [response EXCEPT !.end =
                      IF left > 0 /\ Declared(response.headers) THEN "cut" ELSE "complete"]
    /\ IF response'.end = "cut" \/ ("Connection" \in response.headers /\ reply.close)
       THEN client' = "closed" ELSE KeepsOrCloses

(* Mutant of EndOfBody: the connection is put back and closed.             *)
EndOfBodyBoth ==
    /\ stage = "copying" /\ client = "asking" /\ left = 0
    /\ Ends /\ Closes
    /\ pool' = [pool EXCEPT ![hop] = "idle"]
    /\ UNCHANGED <<request, asked, said, reply, left>>

(* All is read: the connection goes back to the pool, unless either side   *)
(* said it would close it (the client's own Connection: close too: its     *)
(* header is deleted, the request's Close flag is not).                    *)
EndOfBody ==
    /\ stage = "copying" /\ client = "asking" /\ left = 0
    /\ Ends
    /\ IF reply.close \/ request.close \/ reply.framing = "eof"
       THEN Closes /\ UNCHANGED pool
       ELSE conn' = "none" /\ pool' = [pool EXCEPT ![hop] = "idle"] /\ UNCHANGED open
    /\ UNCHANGED <<request, asked, said, reply, left>>

(* The body breaks off; CopyBuffer's error is dropped.                     *)
BodyBreaks ==
    /\ stage = "copying" /\ client = "asking" /\ left > 0
    /\ Ends /\ Closes
    /\ UNCHANGED <<request, asked, said, pool, reply, left>>

HangUp ==
    /\ client \in {"idle", "asking"}
    /\ client' = "gone"
    /\ UNCHANGED <<request, asked, stage, said, hopVars, reply, left, response>>

(* listen: two seconds for a request's headers, sixty between requests.    *)
IdleTimeout ==
    /\ client = "idle" /\ client' = "closed"
    /\ UNCHANGED <<request, asked, stage, said, hopVars, reply, left, response>>

(* Mutant of Abandon: resp.Body is not closed.                             *)
AbandonUnclosed ==
    /\ client = "gone" /\ stage # "none"
    /\ stage' = "none" /\ conn' = "none"
    /\ UNCHANGED <<clientVars, said, pool, open, reply, left, response>>

(* The client's going cancels the request; the handler returns and its     *)
(* deferred Body.Close drops the connection.  A dial goes on without it    *)
(* and puts its connection in the pool.                                    *)
Abandon ==
    /\ client = "gone" /\ stage # "none"
    /\ stage' = "none"
    /\ \/ conn # "none" /\ Closes /\ UNCHANGED pool
       \/ conn = "none" /\ UNCHANGED hopVars
       \/ /\ stage = "dial"
          /\ pool' = [pool EXCEPT ![hop] = "idle"] /\ open' = [open EXCEPT ![hop] = @ + 1]
          /\ UNCHANGED conn
    /\ UNCHANGED <<clientVars, said, reply, left, response>>

(* A hop hangs up on an idle connection; the transport drops it, when it   *)
(* notices or after ninety seconds.                                        *)
HopHangsUp(h) ==
    /\ pool[h] = "idle"
    /\ pool' = [pool EXCEPT ![h] = "stale"]
    /\ UNCHANGED <<clientVars, stage, said, conn, open, reply, left, response>>

DropIdle(h) ==
    /\ pool[h] # "none"
    /\ pool' = [pool EXCEPT ![h] = "none"] /\ open' = [open EXCEPT ![h] = @ - 1]
    /\ UNCHANGED <<clientVars, stage, said, conn, reply, left, response>>

Handler == \/ ServeHTTP \/ LookupFails \/ Dial \/ Abandon
           \/ \E answer \in PacAnswers : LookupProxy(answer)

Network == \/ Sent \/ Lost \/ Copy \/ EndOfBody \/ BodyBreaks
           \/ \E rep \in Replies : Reply(rep)
           \/ \E h \in Hops : HopHangsUp(h) \/ DropIdle(h)

Next == Handler \/ Network \/ ResponseHeaderTimeout \/ HangUp \/ IdleTimeout
        \/ \E r \in Requests : Ask(r)

(* The handler and its timers run.  A request without a body is handed to  *)
(* the kernel, and a dead connection is noticed; nothing is assumed of a   *)
(* hop that must take a body, or of its reply.                             *)
Fairness ==
    /\ WF_vars(Handler)
    /\ WF_vars(ResponseHeaderTimeout)
    /\ WF_vars(stage = "sending" /\ ~ request.body /\ Sent)
    /\ WF_vars(conn = "stale" /\ Lost)

Spec == Init /\ [][Next]_vars
FairSpec == Spec /\ Fairness

-----------------------------------------------------------------------------
TypeOK ==
    /\ client \in {"idle", "asking", "closed", "gone"}
    /\ request \in Requests \cup {Nil} /\ asked \in 0..MaxRequests
    /\ client = "asking" => request # Nil
    /\ stage \in {"none", "dispatch", "lookup", "dial", "sending", "waiting", "copying"}
    /\ said \in PacAnswers \cup {Nil}
    /\ conn \in {"none", "fresh", "reused", "stale"}
    /\ pool \in [Hops -> {"none", "idle", "stale"}] /\ open \in [Hops -> Nat]
    /\ reply \in Replies \cup {Nil} /\ left \in Nat
    /\ response.status \in {"none", "200", "502", "forwarded"} /\ response.got \in Nat
    /\ response.end \in {"open", "complete", "cut"}

(* A client that was told the length and takes the answer for complete has *)
(* all of it, and no piece is lost or doubled on the way: a body that      *)
(* breaks off after the status was sent shows (proxyhttphandler.go:457).   *)
CompleteMeansAll ==
    response.status = "forwarded" =>
        /\ response.got + left = reply.body
        /\ reply.framing = "length" /\ response.end = "complete" => response.got = reply.body

(* A request is sent only by an answer of the PAC that parses, and to the  *)
(* first hop it names, DIRECT if it names none.  Of an answer longer than  *)
(* is read that is said of the statements before the limit: one that does  *)
(* not parse stops it, and a hop among them is the hop, whatever the rest  *)
(* is taken for; only if all are empty does the rest name it.              *)
RoutedAsSaid ==
    stage \in {"dial", "sending", "waiting", "copying"} =>
        LET s    == said.statements
            read == {i \in 1..Len(s) : i < SplitLimit \/ ~ TooLong(said)}
        IN  /\ said # Nil /\ \A i \in read : s[i] # Bad
            /\ TooLong(said) => said.rest # Bad
            /\ \/ \E i \in read :
                     s[i] = hop /\ hop # Empty /\ \A j \in 1..(i - 1) : s[j] = Empty
               \/ /\ \A i \in read : s[i] = Empty
                  /\ hop = IF TooLong(said) THEN said.rest ELSE Direct

(* Every connection to a hop is in use by the handler or in the pool:      *)
(* however a request ends, its connection is put back or closed.           *)
NoLeak ==
    \A h \in Hops :
        open[h] = (IF pool[h] = "none" THEN 0 ELSE 1)
                  + (IF conn # "none" /\ h = hop THEN 1 ELSE 0)

(* The proxy hangs up on a client only if the client asked it to, sent a   *)
(* body nobody read, must be shown that the answer is short, or the script *)
(* panicked: never because the hop closes its own connection               *)
(* (copyHeaders, and proxyhttphandler_test.go:446).                        *)
KeptAlive ==
    [][client = "asking" /\ client' = "closed" =>
          request.close \/ request.body \/ response'.end = "cut"]_vars

(* A request without a body is answered or its connection ends, whatever   *)
(* the hop does: the dialer's and the transport's timeouts bound each      *)
(* step, and a retry happens only while pooled connections last.           *)
RequestsAnswered ==
    (client = "asking" /\ ~ request.body /\ response.status = "none")
        ~> (client # "asking" \/ response.status # "none")
=============================================================================
