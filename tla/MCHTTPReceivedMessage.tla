----------------------- MODULE MCHTTPReceivedMessage ------------------------
(* HTTPReceivedMessage for one message of every kind, of 10 to 32 bytes, and *)
(* for initial buffers from one much smaller than the message to one that    *)
(* leaves room, those one byte more or less than a message among them.       *)
EXTENDS HTTPReceivedMessage, HTTPMessages

\* A request without a body, as the tests' own client sends it, after a blank line.
BodilessRequest == Message(<<Blank, TopLine(TRUE), OtherHeader(TRUE), Blank>>, FALSE)

\* A body that looks like a header and a blank line.
BodyLikeHeaders ==
    LET m == Response(0, 5)
        at == m.result.body[1].at
    IN  [m EXCEPT !.lines = @ \union
           {[at |-> at, crlf |-> at + 1, key |-> "Content-Length", num |-> 1],
            [at |-> at + 3, crlf |-> at + 3, key |-> "other", num |-> 0]}]

\* A Content-Length of 40 bytes of which only 3 can ever be sent.
OverstatedLength ==
    LET m == Request(0, 40) IN [m EXCEPT !.total = @ - 37]

MCMessages ==
    {BodilessRequest, Request(0, 0), Request(0, 6), BodyLikeHeaders, OverstatedLength,
     ChunkedResponse(<<>>), ChunkedResponse(<<1, 5>>)}

MCInitialBufferSizes == {2, 3, 4, 7, 10, 12, 13, 16, 18, 19, 20, 21, 32}
=============================================================================
