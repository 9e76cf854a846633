--------------------------- MODULE MCHttpForward ---------------------------
(* HttpForward for TLC.                                                     *)
EXTENDS HttpForward

Req(target, close, body, replayable) ==
    [target |-> target, close |-> close, body |-> body, replayable |-> replayable]
MCRequests == {Req("absolute", FALSE, FALSE, TRUE), Req("absolute", TRUE, FALSE, TRUE),
               Req("absolute", FALSE, TRUE, FALSE), Req("/favicon.ico", FALSE, FALSE, TRUE)}

Rep(framing, body, close, headers, named) ==
    [framing |-> framing, body |-> body, close |-> close, headers |-> headers, named |-> named]
MCReplies ==
    {Rep("length", 2, FALSE, {"Content-Length", "Keep-Alive"}, {}),
     Rep("length", 1, TRUE, {"Content-Length", "Connection", "X-Hop", "Etag"}, {"X-Hop", "Close"}),
     Rep("chunked", 1, FALSE, {"Etag", "Te"}, {}),
     Rep("gzip", 2, FALSE, {"Connection"}, {"X-Hop"}), Rep("eof", 1, TRUE, {}, {})}

Answer(statements, rest) == [statements |-> statements, rest |-> rest]
MCPacAnswers ==
    {Answer(s, "bad") : s \in {<< >>, <<"DIRECT">>, <<"p", "DIRECT">>, <<"", "q">>, <<"p", "bad">>,
                               <<"DIRECT", "", "p">>, <<"q", "DIRECT", "">>}}
    \cup {Answer(<<"p", "DIRECT", "bad">>, "DIRECT"), Answer(<<"bad", "p", "DIRECT">>, "p"),
          Answer(<<"", "bad", "q">>, "q"), Answer(<<"", "DIRECT", "p">>, "DIRECT")}
=============================================================================
