------------------------ MODULE HTTPReceivedMessage -------------------------
(***************************************************************************)
(* The constructor of TemplatedHTTPReceivedMessage                          *)
(* (bricks/net/http/impl/server.h): it reads an HTTP request or response    *)
(* from a Connection into `buffer_`, line by line, until the end of the     *)
(* headers, of a body of Content-Length bytes, or of a chunked body.        *)
(*                                                                          *)
(* A message is the positions of its CRLFs and what the line before each    *)
(* one says; `buffer_` is its size and the number of bytes read into it.    *)
(* Offsets in the buffer are therefore offsets in the stream.  The peer may *)
(* send any part of the message, and ::read returns any part of that.       *)
(***************************************************************************)
EXTENDS Integers, Sequences

CONSTANTS
    Messages,            \* what the peer may send
    InitialBufferSizes,  \* the values of intial_buffer_size (sic)
    MaxGrowth,           \* buffer_max_growth_due_to_content_length
    SizeMax              \* the largest size_t, which is static_cast<size_t>(-1)

kCRLFLength == 2
NotSetMutant == -1
NotSet == SizeMax

HeaderKeys == {"Content-Length", "Transfer-Encoding", "other"}

\* A line occupies [at, crlf) and ends in a CRLF.  `key` is its header key, where
\* "Transfer-Encoding" stands for that key with the value "chunked"; `num` is what
\* atoi makes of its value (Content-Length) or of the line itself (chunk size).
Lines == [at : Nat, crlf : Nat, key : HeaderKeys, num : Nat]

IsBlank(l) == l.at = l.crlf
NextLineOffset(l) == l.crlf + kCRLFLength

\* atoi is an int, and size_t is wider: no sum of offsets and lengths wraps around.
ASSUME HTTPAssumption ==
    /\ SizeMax \in Nat /\ MaxGrowth \in Nat
    /\ InitialBufferSizes \subseteq Nat \ {0, 1}
    /\ \A m \in Messages :
         /\ m.total \in Nat
         /\ m.lines \subseteq Lines
         /\ \A k, l \in m.lines : k.at = l.at => k = l
         /\ \A l \in m.lines :
              /\ l.at <= l.crlf
              /\ NextLineOffset(l) <= m.total
              /\ NextLineOffset(l) + l.num < SizeMax

-----------------------------------------------------------------------------
(* What a sender means by a message, said of its lines and not of a parser.    *)

\* `l` is the first line from `at` on that is not blank.
IsNextText(m, l, at) ==
    /\ ~IsBlank(l) /\ at <= l.at
    /\ \A k \in m.lines : at <= k.at /\ k.at < l.at => IsBlank(k)

\* `l` is the first blank line after the line `f`.
EndsHeaders(m, f, l) ==
    /\ IsBlank(l) /\ f.at < l.at
    /\ \A k \in m.lines : f.at < k.at /\ k.at < l.at => ~IsBlank(k)

Within(m, f, end) == {k \in m.lines : f.at < k.at /\ k.at < end}
Offsets(ls) == {k.at : k \in ls}
HasChunked(ls) == \E k \in ls : k.key = "Transfer-Encoding"
ContentLengths(ls) == {k.num : k \in {h \in ls : h.key = "Content-Length"}}

\* Where the first `n` chunks of a body that starts at `at` end.
EndOfChunks(chunks, n, at) == IF n = 0 THEN at ELSE chunks[n].at + chunks[n].len

ChunkAfter(l) == [at |-> NextLineOffset(l), len |-> l.num]

\* `chunks` are what follows `at`: after each a line with the size of the next, 0 at last.
IsChunkedBody(m, chunks, at) ==
    /\ \A i \in DOMAIN chunks : \E l \in m.lines :
         /\ IsNextText(m, l, EndOfChunks(chunks, i - 1, at))
         /\ l.num > 0 /\ chunks[i] = ChunkAfter(l)
    /\ \E l \in m.lines : IsNextText(m, l, EndOfChunks(chunks, Len(chunks), at)) /\ l.num = 0

\* The message has the first line `f`, the headers between `f` and the blank line `b`, and
\* the body they announce.
IsMeantBy(m, f, b) ==
    LET headers == Within(m, f, b.at)
        lengths == ContentLengths(headers)
        at == NextLineOffset(b)
    IN  /\ IsNextText(m, f, 0) /\ m.result.first_line = f.at
        /\ EndsHeaders(m, f, b) /\ m.result.headers = Offsets(headers)
        /\ IF HasChunked(headers)
           THEN m.result.has_body /\ IsChunkedBody(m, m.result.body, at)
           ELSE \/ lengths = {} /\ ~m.result.has_body /\ m.result.body = <<>>
                \/ \E n \in lengths :
                     /\ lengths = {n} /\ m.result.has_body
                     /\ m.result.body = <<[at |-> at, len |-> n]>>

IsChunked(m) ==
    \E f, b \in m.lines : IsMeantBy(m, f, b) /\ HasChunked(Within(m, f, b.at))

\* A line begins at `at`.
LineAt(m, at) == \E l \in m.lines : l.at = at

\* A line begins where the headers or a chunk ends, and after every blank line there.
LinesFollow(m, chunks, at) ==
    \A n \in 0..Len(chunks) :
      LET end == EndOfChunks(chunks, n, at)
      IN  /\ LineAt(m, end)
          /\ \A l \in m.lines :
               end <= l.at /\ (\A k \in m.lines : end <= k.at /\ k.at <= l.at => IsBlank(k))
                 => LineAt(m, NextLineOffset(l))

\* A receiver needs the bytes up to `end`: the body, or the line with the size 0.
IsEnd(m, f, b, end) ==
    IF HasChunked(Within(m, f, b.at))
    THEN \E z \in m.lines :
           /\ IsNextText(m, z, EndOfChunks(m.result.body, Len(m.result.body), NextLineOffset(b)))
           /\ end = NextLineOffset(z)
    ELSE end = NextLineOffset(b) + (IF m.result.has_body THEN m.result.body[1].len ELSE 0)

\* Nothing is missing: each line is followed by the next, and the body is as long as announced.
IsAllThere(m, f, b) ==
    /\ LineAt(m, 0)
    /\ \A l \in m.lines : l.at < b.at => LineAt(m, NextLineOffset(l))
    /\ HasChunked(Within(m, f, b.at)) => LinesFollow(m, m.result.body, NextLineOffset(b))
    /\ \E end \in 0..m.total : IsEnd(m, f, b, end)

IsWhole(m) == \E f, b \in m.lines : IsMeantBy(m, f, b) /\ IsAllThere(m, f, b)

\* The messages of the senders of this code base: their lines do not overlap, and the
\* result says what they mean.
ASSUME MessageAssumption ==
    \A m \in Messages :
      /\ m.total < SizeMax
      /\ m.result \in [first_line : Nat, headers : SUBSET Nat, has_body : BOOLEAN,
                       body : Seq([at : Nat, len : Nat])]
      /\ \A k, l \in m.lines : k.at < l.at => NextLineOffset(k) <= l.at
      /\ \E f, b \in m.lines : IsMeantBy(m, f, b)

VARIABLES
    msg,                 \* the message the peer is sending
    intial_buffer_size,  \* the constructor's argument
    sent,                \* bytes of it the peer has sent
    peer,                \* the peer's side of the connection: "open", "eof", "reset"
    parser               \* the locals and members of the constructor

stream == <<msg, intial_buffer_size, sent, peer>>
vars == <<stream, parser>>

\* `first_line` is the offset of the line method_ and url_ come from, `headers` the
\* offsets of the lines given to OnHeader, `chunks` the ranges given to OnChunk.
\* `pc`: "read" is the inner read loop, "parse" the loop over strstr, "rest" the
\* BlockingRead of the rest of a chunk; then how the constructor ended.
Ended == {"done", "closed", "readerror", "undefined"}
Parsers ==
    [pc : {"read", "parse", "rest"} \union Ended,
     offset : Nat, size : Nat, length_cap : Nat, current_line_offset : Nat,
     body_offset : Nat, body_length : Nat, first_line : Nat,
     chunked_transfer_encoding : BOOLEAN, receiving_body_in_chunks : BOOLEAN,
     headers : SUBSET Nat, chunks : Seq([at : Nat, len : Nat])]

TypeOK ==
    /\ msg \in Messages
    /\ intial_buffer_size \in InitialBufferSizes
    /\ sent \in 0..msg.total
    /\ peer \in {"open", "eof", "reset"}
    /\ parser \in Parsers

Start(n) ==
    [pc |-> "read", offset |-> 0, size |-> n, length_cap |-> NotSet,
     current_line_offset |-> 0, body_offset |-> NotSet, body_length |-> NotSet,
     first_line |-> NotSet, chunked_transfer_encoding |-> FALSE,
     receiving_body_in_chunks |-> FALSE, headers |-> {}, chunks |-> <<>>]

-----------------------------------------------------------------------------
(* The peer and the network.                                                 *)

PeerSends(n) ==
    /\ peer = "open"
    /\ sent + n <= msg.total
    /\ sent' = sent + n
    /\ UNCHANGED <<msg, intial_buffer_size, peer, parser>>

PeerEnds(how) ==
    /\ peer = "open"
    /\ peer' = how
    /\ UNCHANGED <<msg, intial_buffer_size, sent, parser>>

-----------------------------------------------------------------------------
(* The inner read loop.                                                      *)

\* buffer_.size() * buffer_growth_k, truncated: buffer_growth_k is 1.95.
GrowMutant(n) == n
Grow(n) == (195 * n) \div 100

\* buffer_.size() - offset - 1, a size_t: it wraps around when the buffer is full.
Chunk ==
    IF parser.offset < parser.size THEN parser.size - parser.offset - 1
    ELSE SizeMax - (parser.offset - parser.size)

\* read() returned `n`: offset += n, and round again with more room if that was `chunk`.
AfterRead(n) ==
    IF n = Chunk
    THEN [parser EXCEPT !.offset = @ + n, !.size = Grow(@)]
    ELSE [parser EXCEPT !.offset = @ + n, !.pc = IF n = 0 THEN "closed" ELSE "parse"]

ReadSome(n) ==
    /\ parser.pc = "read"
    /\ n <= Chunk /\ Chunk <= SizeMax \div 2
    /\ n <= sent - parser.offset
    /\ parser' = AfterRead(n)
    /\ UNCHANGED stream

\* read() has returned everything, and the peer has ended the stream.
AtEOF == parser.offset = sent /\ peer = "eof"

ReadNothing ==
    /\ parser.pc = "read"
    /\ Chunk = 0 \/ (AtEOF /\ Chunk <= SizeMax \div 2)
    /\ parser' = AfterRead(0)
    /\ UNCHANGED stream

\* read() fails: the connection is lost, or `chunk` has wrapped around and is not a
\* length read() accepts.  BlockingRead throws SocketReadException.
ReadFails ==
    /\ parser.pc = "read" /\ Chunk > 0
    /\ peer = "reset" \/ Chunk > SizeMax \div 2
    /\ parser' = [parser EXCEPT !.pc = "readerror"]
    /\ UNCHANGED stream

-----------------------------------------------------------------------------
(* The loop over the lines strstr finds.                                     *)

LooksForLinesMutant == parser.pc = "parse"
LooksForLines ==
    parser.pc = "parse" /\ (parser.body_offset = NotSet \/ parser.offset < parser.body_offset)

\* The line at `current_line_offset`, if its CRLF is among the bytes read.
CurrentLines ==
    {l \in msg.lines : l.at = parser.current_line_offset /\ NextLineOffset(l) <= parser.offset}

\* strstr is given the end of `buffer_`, and reads whatever is there.
SearchesPastTheEnd == LooksForLines /\ parser.current_line_offset >= parser.size

\* What strstr finds.
LinesFound == {l \in CurrentLines : LooksForLines /\ ~SearchesPastTheEnd}

\* One iteration of the loop, for the line `l` found: the parser becomes `p`, at the next line.
HandlesLine(l, p) ==
    /\ parser' = [p EXCEPT !.current_line_offset = NextLineOffset(l)]
    /\ UNCHANGED stream

FirstLine(l) ==
    /\ ~IsBlank(l) /\ parser.first_line = NotSet
    /\ HandlesLine(l, [parser EXCEPT !.first_line = l.at])

\* Blank lines before the first one, and after every chunk.
SkipBlankLine(l) ==
    /\ IsBlank(l)
    /\ parser.first_line = NotSet \/ parser.receiving_body_in_chunks
    /\ HandlesLine(l, parser)

InHeaders == parser.first_line # NotSet /\ ~parser.receiving_body_in_chunks

Header(l) ==
    /\ ~IsBlank(l) /\ InHeaders
    /\ HandlesLine(l,
         [parser EXCEPT
            !.headers = @ \union {l.at},
            !.body_length = IF l.key = "Content-Length" THEN l.num ELSE @,
            !.chunked_transfer_encoding = @ \/ l.key = "Transfer-Encoding"])

\* The size of `buffer_` once a body is known to end at `cap`: `cap + 1`, to include
\* the '\0', but not more than MaxGrowth bytes more than it was.
SizeForBodyMutant1(cap) ==
    LET delta_size == cap + 1 - parser.size
    IN  parser.size + (IF delta_size < MaxGrowth THEN delta_size ELSE MaxGrowth)
SizeForBodyMutant2(cap) ==
    LET delta_size == cap + 1 - parser.size
    IN  IF delta_size <= 0 THEN parser.size ELSE parser.size + delta_size
SizeForBody(cap) ==
    LET delta_size == cap + 1 - parser.size
    IN  IF delta_size <= 0 THEN parser.size
        ELSE parser.size + (IF delta_size < MaxGrowth THEN delta_size ELSE MaxGrowth)

\* The end of the headers of a message that is not chunked: its body, if any, is next.
BodyIsNext(l) ==
    /\ IsBlank(l) /\ InHeaders /\ ~parser.chunked_transfer_encoding
    /\ LET body_offset == NextLineOffset(l)
           cap == body_offset + (IF parser.body_length = NotSet THEN 0 ELSE parser.body_length)
       IN  HandlesLine(l,
             [parser EXCEPT
                !.body_offset = body_offset,
                !.length_cap = cap,
                !.size = IF parser.body_length = NotSet THEN @ ELSE SizeForBody(cap)])

ChunksAreNext(l) ==
    /\ IsBlank(l) /\ InHeaders /\ parser.chunked_transfer_encoding
    /\ HandlesLine(l, [parser EXCEPT !.receiving_body_in_chunks = TRUE])

\* strstr finds no more lines, or the body has begun: back to the outer loop.
MoreToReadMutant == parser.offset <= parser.length_cap
MoreToRead == parser.offset < parser.length_cap

NoMoreLines ==
    /\ parser.pc = "parse"
    /\ LinesFound = {} /\ ~SearchesPastTheEnd
    /\ parser' = [parser EXCEPT !.pc = IF MoreToRead THEN "read" ELSE "done"]
    /\ UNCHANGED stream

\* strstr reads past the end of `buffer_`: it finds no CRLF, or anything else happens.
StrstrPastTheEnd ==
    /\ SearchesPastTheEnd
    /\ \E outcome \in {"read", "undefined"} : parser' = [parser EXCEPT !.pc = outcome]
    /\ UNCHANGED stream

-----------------------------------------------------------------------------
(* Chunked bodies.                                                           *)

IsChunkSize(l) == ~IsBlank(l) /\ parser.receiving_body_in_chunks

\* A chunk of length 0 is the last one: OnChunkedBodyDone, and return.
LastChunk(l) ==
    /\ IsChunkSize(l) /\ l.num = 0
    /\ parser' = [parser EXCEPT !.pc = "done"]
    /\ UNCHANGED stream

NextOffset(l) == NextLineOffset(l) + l.num

\* OnChunk, and skip the chunk.
WithChunk(l, p) ==
    [p EXCEPT !.pc = "parse",
              !.chunks = Append(@, [at |-> NextLineOffset(l), len |-> l.num]),
              !.current_line_offset = NextOffset(l)]

HasBeenReadMutant(l) == TRUE
HasBeenRead(l) == NextOffset(l) <= parser.offset

ChunkIsThere(l) ==
    /\ IsChunkSize(l) /\ l.num > 0 /\ HasBeenRead(l)
    /\ parser' = WithChunk(l, parser)
    /\ UNCHANGED stream

\* Part of the chunk has not been read: make room for it, then BlockingRead the rest.
SizeForChunkMutant(l) == parser.size
SizeForChunk(l) == IF parser.size < NextOffset(l) THEN NextOffset(l) ELSE parser.size

ChunkHasARest(l) ==
    /\ IsChunkSize(l) /\ l.num > 0 /\ ~HasBeenRead(l)
    /\ parser' = [parser EXCEPT !.pc = "rest", !.size = SizeForChunk(l)]
    /\ UNCHANGED stream

\* That read() returns all of the rest, and the chunk is complete.
ReadRest(l) ==
    /\ parser.pc = "rest"
    /\ NextOffset(l) <= sent
    /\ parser' = WithChunk(l, [parser EXCEPT !.offset = NextOffset(l)])
    /\ UNCHANGED stream

\* It returns less, or 0 as the peer has ended: HTTPConnectionClosedByPeerException.
ReadRestFallsShort(l) ==
    /\ parser.pc = "rest"
    /\ \/ \E n \in 1..NextOffset(l) - parser.offset - 1 : n <= sent - parser.offset
       \/ AtEOF
    /\ parser' = [parser EXCEPT !.pc = "closed"]
    /\ UNCHANGED stream

ReadRestFails ==
    /\ parser.pc = "rest" /\ peer = "reset"
    /\ parser' = [parser EXCEPT !.pc = "readerror"]
    /\ UNCHANGED stream

-----------------------------------------------------------------------------
Init ==
    /\ msg \in Messages
    /\ intial_buffer_size \in InitialBufferSizes
    /\ sent = 0
    /\ peer = "open"
    /\ parser = Start(intial_buffer_size)

Peer ==
    \/ \E n \in 1..msg.total : PeerSends(n)
    \/ \E how \in {"eof", "reset"} : PeerEnds(how)

Read ==
    \/ \E n \in 1..msg.total : ReadSome(n)
    \/ ReadNothing
    \/ ReadFails
    \/ \E l \in CurrentLines : ReadRest(l) \/ ReadRestFallsShort(l)
    \/ ReadRestFails

Parse ==
    \/ \E l \in LinesFound :
         \/ FirstLine(l)
         \/ SkipBlankLine(l)
         \/ Header(l)
         \/ BodyIsNext(l)
         \/ ChunksAreNext(l)
         \/ LastChunk(l)
         \/ ChunkIsThere(l)
         \/ ChunkHasARest(l)
    \/ NoMoreLines
    \/ StrstrPastTheEnd

Next == Peer \/ Read \/ Parse

\* The thread in the constructor keeps running; the peer may stop at any point.
Spec == Init /\ [][Next]_vars /\ WF_vars(Read \/ Parse)

-----------------------------------------------------------------------------
(* Properties *)

\* What the constructor made of the message: where the first line, the headers and
\* the body are, the body of a chunked message being one range per chunk.
HasBody == parser.receiving_body_in_chunks \/ parser.body_length # NotSet

Body ==
    IF parser.receiving_body_in_chunks THEN parser.chunks
    ELSE IF HasBody THEN <<[at |-> parser.body_offset, len |-> parser.body_length]>>
    ELSE <<>>

Result == [first_line |-> parser.first_line, headers |-> parser.headers,
           has_body |-> HasBody, body |-> Body]

\* However the kernel cuts the stream into reads and however small the buffer is, a
\* message that is accepted has the method, headers and body its sender gave it, and
\* all of that had been received.
ResultIsWhatWasSent ==
    parser.pc = "done" =>
        /\ Result = msg.result
        /\ \A i \in DOMAIN Body : Body[i].at + Body[i].len <= parser.offset

\* The constructor as its HELPER sees it.
State ==
    CASE parser.pc \in {"read", "parse", "rest"} -> "constructing"
      [] parser.pc = "done" -> "constructed"
      [] parser.pc \in {"closed", "readerror"} -> "thrown"
      [] parser.pc = "undefined" -> "undefined"

Helper == INSTANCE HTTPHelper WITH
    state <- State, received <- parser.offset, headers <- parser.headers,
    chunks <- parser.chunks, constructed <- IF parser.pc = "done" THEN {Result} ELSE {}

\* However the message is cut and however small the buffer is, OnHeader and OnChunk are called
\* with each header and chunk once, in order and never before it is there, and not after the end.
ImplementsHTTPHelper == Helper!Spec

\* Outside of chunked bodies there is room for the '\0' the code writes after what it
\* has read; in them the bytes read at least fit, so nothing is written past the end.
RoomForWhatIsRead ==
    /\ parser.offset <= sent
    /\ parser.offset <= parser.size
    /\ ~parser.receiving_body_in_chunks => parser.offset < parser.size

\* Only a chunked body can take the search for a CRLF past the end of `buffer_`, and
\* only with a chunk that ends exactly there.
PastTheEndOnlyAfterAChunk ==
    SearchesPastTheEnd \/ parser.pc = "undefined" =>
        /\ parser.receiving_body_in_chunks /\ parser.chunks # <<>>
        /\ parser.current_line_offset = parser.size

\* A large Content-Length is not trusted: until the bytes are there, the buffer is at
\* most MaxGrowth larger than what was read, or the initial buffer, accounts for.
ContentLengthIsNotTrusted ==
    LET accounted == {intial_buffer_size, Grow(parser.offset + 1)}
    IN  ~parser.receiving_body_in_chunks => \E s \in accounted : parser.size <= s + MaxGrowth

\* The read that took the last byte of the message filled the buffer.
FilledByTheEnd ==
    /\ parser.offset = msg.total /\ parser.size = Grow(msg.total + 1)
    /\ intial_buffer_size <= msg.total + 1

\* The thread is blocked in read(): it asks for some bytes, there are none, and the peer is there.
Waits ==
    /\ parser.pc = "rest" \/ (parser.pc = "read" /\ Chunk \in 1..SizeMax \div 2)
    /\ parser.offset = sent /\ peer = "open"

\* The rest of a chunk came in more than one piece.
SplitChunk == \E l \in CurrentLines : IsChunkSize(l) /\ l.num > 1 /\ ~HasBeenRead(l)

\* HTTPConnectionClosedByPeerException has one of three reasons: the rest of a chunk came in
\* pieces; the peer closed without having sent a whole message; or it closed after one that
\* filled the buffer, so that the constructor had asked for more than it needs.
ClosedIsExplained ==
    parser.pc = "closed" =>
      \/ SplitChunk
      \/ peer # "open" /\ (IsWhole(msg) => sent < msg.total \/ FilledByTheEnd)

\* The constructor never waits for a peer that is gone: it returns or throws.
EndsOncePeerHasEnded == peer # "open" ~> parser.pc \in Ended

\* A message without chunks that leaves two bytes of the initial buffer unused is
\* accepted as soon as it is all there, with the peer keeping the connection open.
ShortMessageNeedsNoEOF ==
    /\ sent = msg.total /\ sent + 2 <= intial_buffer_size
    /\ ~IsChunked(msg) /\ IsWhole(msg)
    ~> parser.pc \in {"done", "readerror"}

\* server.h:74 says when HTTPConnectionClosedByPeerException is thrown: "When the server
\* is using chunked transfer and doesn't fully send one."
ClosedOnlyIfNotFullySent ==
    parser.pc = "closed" => sent < msg.total \/ ~IsWhole(msg)

=============================================================================
