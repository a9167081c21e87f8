---------------------------- MODULE HTTPMessages ----------------------------
(***************************************************************************)
(* The messages the senders of this code base write, as HTTPReceivedMessage *)
(* sees them: the client's request (bricks/net/api/impl/posix.h), the        *)
(* server's response (SendHTTPResponse in bricks/net/http/impl/server.h) and *)
(* the chunked response of the test server (bricks/net/api/test.cc).         *)
(* A line is as long as its text is; texts are scaled down to a byte or so.  *)
(***************************************************************************)
EXTENDS Integers, Sequences, SequencesExt

CRLF == 2

\* A piece of a message: a line of `len` bytes and a CRLF, or `len` bytes of data;
\* `write` says that a BlockingWrite ends with it.
Piece(role, len, key, num, write) ==
    [role |-> role, len |-> len, key |-> key, num |-> num, write |-> write]

Data(len) == Piece("data", len, "other", 0, TRUE)
TopLine(write) == Piece("first", 1, "other", 0, write)
OtherHeader(write) == Piece("header", 1, "other", 0, write)
ContentLength(n, write) == Piece("header", 1, "Content-Length", n, write)
TransferEncodingChunked == Piece("header", 1, "Transfer-Encoding", 0, TRUE)
Blank == Piece("blank", 0, "other", 0, TRUE)
ChunkSize(n) == Piece("size", 1, "other", n, FALSE)
ChunkData(len) == Piece("data", len, "other", 0, FALSE)

\* Places `piece` after what is in `m`.
Place(m, piece) ==
    LET end == m.total + piece.len + (IF piece.role = "data" THEN 0 ELSE CRLF)
        line == [at |-> m.total, crlf |-> m.total + piece.len,
                 key |-> piece.key, num |-> piece.num]
    IN  [m EXCEPT
           !.total = end,
           !.lines = IF piece.role = "data" THEN @ ELSE @ \union {line},
           !.writes = IF piece.write THEN @ \union {end} ELSE @,
           !.first_line = IF piece.role = "first" THEN m.total ELSE @,
           !.headers = IF piece.role = "header" THEN @ \union {m.total} ELSE @,
           !.body = IF piece.role = "data"
                    THEN Append(@, [at |-> m.total, len |-> piece.len]) ELSE @]

\* The message made of `pieces`, and what its receiver should make of it.
Message(pieces, has_body) ==
    LET m == FoldLeft(Place,
                      [total |-> 0, lines |-> {}, writes |-> {},
                       first_line |-> 0, headers |-> {}, body |-> <<>>],
                      pieces)
    IN  [total |-> m.total, lines |-> m.lines, writes |-> m.writes,
         result |-> [first_line |-> m.first_line, headers |-> m.headers,
                     has_body |-> has_body, body |-> m.body]]

\* HTTPClientPOSIX::Go: the request line, Host, User-Agent and Content-Type if they are
\* set (`optional` headers), Content-Length, a blank line and the body, a write each.
Request(optional, length) ==
    Message(<<TopLine(TRUE), OtherHeader(TRUE)>> \o [i \in 1..optional |-> OtherHeader(TRUE)]
              \o <<ContentLength(length, TRUE), Blank, Data(length)>>,
            TRUE)

\* SendHTTPResponse: the status line, Content-Type, Content-Length, `extra` headers and
\* a blank line in one write, then the body, then one more CRLF.
Response(extra, length) ==
    Message(<<TopLine(FALSE), OtherHeader(FALSE), ContentLength(length, FALSE)>>
              \o [i \in 1..extra |-> OtherHeader(FALSE)]
              \o <<Blank, Data(length), Blank>>,
            TRUE)

\* The test server's chunked response: chunks of `lengths` bytes, then one of length 0.
ChunkedResponse(lengths) ==
    Message(<<TopLine(TRUE), TransferEncodingChunked, OtherHeader(TRUE), Blank>>
              \o FlattenSeq([i \in DOMAIN lengths |->
                               <<ChunkSize(lengths[i]), ChunkData(lengths[i]), Blank>>])
              \o <<ChunkSize(0), Blank>>,
            TRUE)

=============================================================================
