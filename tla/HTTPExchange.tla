---------------------------- MODULE HTTPExchange ----------------------------
(***************************************************************************)
(* One HTTP exchange over one connection: a client thread in               *)
(* HTTPClientPOSIX::Go (bricks/net/api/impl/posix.h), which writes a        *)
(* request, does not call SendEOF, and parses the response; and a server    *)
(* thread (HTTPServerConnection in bricks/net/http/impl/server.h, used as    *)
(* in bricks/net/api/test.cc), which parses the request, writes a response  *)
(* and closes.  Both parse with HTTPReceivedMessage.                        *)
(***************************************************************************)
EXTENDS Integers, Sequences

CONSTANTS
    Exchanges,  \* [request, response, buffer, mortal]: the messages, intial_buffer_size,
                \* and the processes that may die
    MaxGrowth, SizeMax  \* as in HTTPReceivedMessage

VARIABLES
    exchange,  \* the exchange that takes place
    client,    \* the client thread: "writing", "reading", "finished" or "failed"
    server,    \* the server thread: "reading", "writing", "finished" or "failed"
    c2s, s2c,  \* bytes written by the client and by the server
    c2sEnd, s2cEnd,  \* how these directions ended, if they did: "open", "eof", "reset"
    cli, srv   \* the parsers of the two threads

vars == <<exchange, client, server, c2s, s2c, c2sEnd, s2cEnd, cli, srv>>

Requests == {e.request : e \in Exchanges}
Responses == {e.response : e \in Exchanges}
Buffers == {e.buffer : e \in Exchanges}

\* The server's constructor of HTTPReceivedMessage, and the client's.
ServerMessage == INSTANCE HTTPReceivedMessage WITH
    Messages <- Requests, InitialBufferSizes <- Buffers,
    msg <- exchange.request, intial_buffer_size <- exchange.buffer,
    sent <- c2s, peer <- c2sEnd, parser <- srv
ClientMessage == INSTANCE HTTPReceivedMessage WITH
    Messages <- Responses, InitialBufferSizes <- Buffers,
    msg <- exchange.response, intial_buffer_size <- exchange.buffer,
    sent <- s2c, peer <- s2cEnd, parser <- cli

\* The messages are those HTTPReceivedMessage is about; the last write completes them.
ASSUME ExchangeAssumption ==
    /\ ServerMessage!HTTPAssumption /\ ServerMessage!MessageAssumption
    /\ ClientMessage!HTTPAssumption /\ ClientMessage!MessageAssumption
    /\ \A e \in Exchanges :
         /\ e.mortal \subseteq {"client", "server"}
         /\ \A m \in {e.request, e.response} :
              m.writes \subseteq 1..m.total /\ m.total \in m.writes

\* The receiver of `m` needs its first `end` bytes.
IsEndOf(m, end) ==
    \E f, b \in m.lines : ServerMessage!IsMeantBy(m, f, b) /\ ServerMessage!IsEnd(m, f, b, end)

\* Both sides write all of a message.  The client announces the length of its body, which is
\* the last it writes.  What the server writes after the end of its body is one write: the
\* last CRLF.  No message is nearly as large as a size_t can tell.
ASSUME WholeAssumption ==
    LET Grow(n) == ServerMessage!Grow(n)
    IN  \A e \in Exchanges :
          /\ \A m \in {e.request, e.response} :
               /\ ServerMessage!IsWhole(m)
               /\ Grow(m.total + 1) + MaxGrowth <= SizeMax \div 2
          /\ e.buffer + MaxGrowth <= SizeMax \div 2
          /\ ~ServerMessage!IsChunked(e.request)
          /\ \A end \in 0..e.request.total : IsEndOf(e.request, end) => end = e.request.total
          /\ \A end \in 0..e.response.total : IsEndOf(e.response, end) =>
               \A write \in e.response.writes : write > end => write = e.response.total

TypeOK ==
    /\ exchange \in Exchanges
    /\ client \in {"writing", "reading", "finished", "failed"}
    /\ server \in {"reading", "writing", "finished", "failed"}
    /\ ServerMessage!TypeOK
    /\ ClientMessage!TypeOK

\* What has been written of `m` after the next BlockingWrite, `n` bytes being out.
AfterNextWriteMutant1(m, n) == m.total + 1
AfterNextWriteMutant2(m, n) == n + 1
AfterNextWrite(m, n) ==
    CHOOSE end \in m.writes : end > n /\ \A e \in m.writes : e > n => end <= e

-----------------------------------------------------------------------------
(* The client thread.                                                        *)

\* All of the request is out: the client does not call SendEOF, it reads.
RequestWrittenMutant(n) == n >= exchange.request.result.body[1].at
RequestWritten(n) == n = exchange.request.total

\* A BlockingWrite of the request.  If the server has closed its end the write still
\* succeeds, but is answered by a reset.
ClientWrites ==
    /\ client = "writing" /\ s2cEnd # "reset"
    /\ c2s' = AfterNextWrite(exchange.request, c2s)
    /\ client' = IF RequestWritten(c2s') THEN "reading" ELSE "writing"
    /\ s2cEnd' = IF s2cEnd = "eof" THEN "reset" ELSE s2cEnd
    /\ UNCHANGED <<exchange, server, s2c, c2sEnd, cli, srv>>

\* The connection has been reset: the process gets SIGPIPE, or BlockingWrite throws.
ClientWriteFails ==
    /\ client = "writing" /\ s2cEnd = "reset"
    /\ client' = "failed" /\ c2sEnd' = "reset"
    /\ UNCHANGED <<exchange, server, c2s, s2c, s2cEnd, cli, srv>>

ClientParses ==
    /\ client = "reading"
    /\ UNCHANGED <<exchange, client, server, c2s, s2c, c2sEnd, s2cEnd, srv>>
    /\ ClientMessage!Read \/ ClientMessage!Parse

\* The constructor has returned or thrown, and `connection` goes out of scope.  Closing
\* a socket with bytes left to read resets the connection.
ClientCloses ==
    /\ client = "reading" /\ cli.pc \in ClientMessage!Ended \ {"undefined"}
    /\ client' = "finished"
    /\ c2sEnd' = IF cli.offset < s2c THEN "reset" ELSE "eof"
    /\ UNCHANGED <<exchange, server, c2s, s2c, s2cEnd, cli, srv>>

-----------------------------------------------------------------------------
(* The server thread.                                                        *)

ServerParses ==
    /\ server = "reading"
    /\ UNCHANGED <<exchange, client, server, c2s, s2c, c2sEnd, s2cEnd, cli>>
    /\ ServerMessage!Read \/ ServerMessage!Parse

RequestParsedMutant == srv.body_offset # ServerMessage!NotSet
RequestParsed == srv.pc = "done"

\* The request has been parsed: the handler calls SendHTTPResponse.
ServerHandles ==
    /\ server = "reading" /\ RequestParsed
    /\ server' = "writing"
    /\ UNCHANGED <<exchange, client, c2s, s2c, c2sEnd, s2cEnd, cli, srv>>

\* A BlockingWrite of the response, with the same consequence if the client has closed.
ServerWrites ==
    /\ server = "writing" /\ c2sEnd # "reset"
    /\ s2c < exchange.response.total
    /\ s2c' = AfterNextWrite(exchange.response, s2c)
    /\ c2sEnd' = IF c2sEnd = "eof" THEN "reset" ELSE c2sEnd
    /\ UNCHANGED <<exchange, client, server, c2s, s2cEnd, cli, srv>>

\* The connection has been reset: the process gets SIGPIPE, or BlockingWrite throws.
ServerWriteFails ==
    /\ server = "writing" /\ c2sEnd = "reset"
    /\ s2c < exchange.response.total
    /\ server' = "failed" /\ s2cEnd' = "reset"
    /\ UNCHANGED <<exchange, client, c2s, s2c, c2sEnd, cli, srv>>

ResponseWrittenMutant == s2c > 0
ResponseWritten == s2c = exchange.response.total

ConstructorThrewMutant == FALSE
ConstructorThrew == srv.pc \in ServerMessage!Ended \ {"done", "undefined"}

\* The response has been written, or the constructor has thrown: the connection closes.
ServerCloses ==
    /\ \/ server = "writing" /\ ResponseWritten
       \/ server = "reading" /\ ConstructorThrew
    /\ server' = "finished"
    /\ s2cEnd' = IF srv.offset < c2s THEN "reset" ELSE "eof"
    /\ UNCHANGED <<exchange, client, c2s, s2c, c2sEnd, cli, srv>>

-----------------------------------------------------------------------------
(* A process dies, and the kernel closes its end of the connection.          *)

ClientCrashes ==
    /\ "client" \in exchange.mortal /\ client \in {"writing", "reading"}
    /\ client' = "failed"
    /\ c2sEnd' = IF cli.offset < s2c THEN "reset" ELSE "eof"
    /\ UNCHANGED <<exchange, server, c2s, s2c, s2cEnd, cli, srv>>

ServerCrashes ==
    /\ "server" \in exchange.mortal /\ server \in {"reading", "writing"}
    /\ server' = "failed"
    /\ s2cEnd' = IF srv.offset < c2s THEN "reset" ELSE "eof"
    /\ UNCHANGED <<exchange, client, c2s, s2c, c2sEnd, cli, srv>>

-----------------------------------------------------------------------------
Init ==
    /\ exchange \in Exchanges
    /\ client = "writing" /\ server = "reading"
    /\ c2s = 0 /\ s2c = 0
    /\ c2sEnd = "open" /\ s2cEnd = "open"
    /\ cli = ClientMessage!Start(exchange.buffer)
    /\ srv = ServerMessage!Start(exchange.buffer)

Client == ClientWrites \/ ClientWriteFails \/ ClientParses \/ ClientCloses
Server == ServerParses \/ ServerHandles \/ ServerWrites \/ ServerWriteFails \/ ServerCloses
Next == Client \/ Server \/ ClientCrashes \/ ServerCrashes

\* The two threads keep running, until one of them dies.
Spec == Init /\ [][Next]_vars /\ WF_vars(Client) /\ WF_vars(Server)

-----------------------------------------------------------------------------
(* Properties *)

\* The server handles a request, and the client a response, only as they were sent;
\* and a response is accepted only after the request was.
BothSidesAgree ==
    /\ ServerMessage!ResultIsWhatWasSent
    /\ ClientMessage!ResultIsWhatWasSent
    /\ cli.pc = "done" => srv.pc = "done"

\* Nobody dies, and if the response is chunked, then the initial buffer has room for all of
\* it and its chunks come in one piece.  (What happens if they do not is in run parser_closed.)
Undisturbed ==
    /\ exchange.mortal = {}
    /\ ClientMessage!IsChunked(exchange.response) =>
         /\ exchange.response.total + 2 <= exchange.buffer
         /\ \A i \in DOMAIN exchange.response.result.body : exchange.response.result.body[i].len = 1

\* The client may close as soon as it has the body, which is before SendHTTPResponse
\* has written its last CRLF: still no write of the server hits a reset connection.
NoWriteAfterReset == Undisturbed => server # "failed"

\* The server never takes a working client for one that has closed, and the client makes that
\* mistake only after a response that fills the buffer, when the server has closed behind it.
NobodyThrowsUnlessFull ==
    Undisturbed =>
      /\ srv.pc \notin {"closed", "readerror", "undefined"}
      /\ cli.pc \notin {"readerror", "undefined"}
      /\ cli.pc = "closed" => ClientMessage!FilledByTheEnd /\ server = "finished"

\* The client does not call SendEOF, and waits for the response; the server waits for the rest of
\* the request.  They wait for each other only when the last byte of the request has filled the
\* server's buffer, so that it asks for more (run exchange_large_post is such a request).
DeadlockOnlyIfFull ==
    /\ client = "reading" /\ ClientMessage!Waits
    /\ server = "reading" /\ ServerMessage!Waits
    => ServerMessage!FilledByTheEnd

\* The request leaves two bytes of the buffer unused, and the response, which may be larger
\* than the buffer, does not end where a growing buffer is full.  (What happens if it does is
\* in the runs parser_closed and exchange_large_post.)
Fits ==
    LET Grow(n) == ClientMessage!Grow(n)
        Full == {exchange.buffer, Grow(exchange.buffer), Grow(Grow(exchange.buffer))}
    IN  /\ exchange.request.total + 2 <= exchange.buffer
        /\ exchange.response.total + 1 \notin Full

\* HTTP() returns the response, and the server thread is free to accept again.
Answered == client = "finished" /\ cli.pc = "done" /\ server = "finished"
EveryRequestIsAnswered == Undisturbed /\ Fits => <>Answered

\* server.h:202: "Resize the buffer to be able to get the contents of HTTP body without extra
\* resizes": a POST is answered also if its body does not fit into the initial buffer.
EveryPostIsAnswered == exchange.mortal = {} => <>Answered

\* When one side is gone, because it is finished, has thrown or has died, the other
\* does not wait for it for ever.  (Nothing is known of a client that has searched past
\* the end of its buffer.)
Gone == {"finished", "failed"}
NeitherSideIsLeftWaiting ==
    /\ client \in Gone ~> server \in Gone
    /\ server \in Gone ~> client \in Gone \/ cli.pc = "undefined"

=============================================================================
