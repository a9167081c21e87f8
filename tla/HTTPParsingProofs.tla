------------------------- MODULE HTTPParsingProofs --------------------------
(***************************************************************************)
(* What HTTPReceivedMessage accepts is what was sent, its helper is called   *)
(* as HTTPHelper says, and a whole message is neither waited for nor refused *)
(* without the reasons ClosedIsExplained names: for every message whose      *)
(* lines mean what its result says (MessageAssumption), every initial        *)
(* buffer, and every way to cut the stream into reads.                       *)
(***************************************************************************)
EXTENDS HTTPReceivedMessageProofs

-----------------------------------------------------------------------------
(* The invariant: what has been made of the lines before current_line_offset, *)
(* for the message with the first line `f` and headers that end at `b`.        *)

\* Chunks are taken in order, once each, and never before they are there.
ChunksInOrder ==
    parser.receiving_body_in_chunks =>
        /\ Len(parser.chunks) <= Len(msg.result.body)
        /\ \A i \in DOMAIN parser.chunks :
             /\ parser.chunks[i] = msg.result.body[i]
             /\ parser.chunks[i].at + parser.chunks[i].len <= parser.offset

BeforeFirstLine ==
    /\ \A k \in msg.lines : k.at < parser.current_line_offset => IsBlank(k)
    /\ parser.headers = {} /\ parser.chunks = <<>>
    /\ parser.body_length = NotSet /\ parser.body_offset = NotSet
    /\ ~parser.chunked_transfer_encoding /\ ~parser.receiving_body_in_chunks

\* After the first line, until the blank one.
InHeadersOf(f) ==
    LET seen == Within(msg, f, parser.current_line_offset)
    IN  /\ f.at < parser.current_line_offset
        /\ \A k \in seen : ~IsBlank(k)
        /\ parser.headers = Offsets(seen)
        /\ parser.chunked_transfer_encoding = HasChunked(seen)
        /\ IF parser.body_length = NotSet THEN ContentLengths(seen) = {}
           ELSE parser.body_length \in ContentLengths(seen)
        /\ parser.chunks = <<>>

\* After the blank line of a message that is not chunked: no more lines are looked for.
InBody(f, b) ==
    /\ ~parser.receiving_body_in_chunks
    /\ parser.body_offset = NextLineOffset(b) /\ ~HasChunked(Within(msg, f, b.at))
    /\ Result = msg.result
    /\ parser.body_offset <= parser.offset
    /\ parser.length_cap =
         parser.body_offset + (IF parser.body_length = NotSet THEN 0 ELSE parser.body_length)

\* After that of a chunked one: the lines since the last chunk are blank.
InChunksAfter(b) ==
    LET end == EndOfChunks(parser.chunks, Len(parser.chunks), NextLineOffset(b))
    IN  /\ parser.headers = msg.result.headers /\ msg.result.has_body
        /\ parser.body_offset = NotSet
        /\ IsChunkedBody(msg, msg.result.body, NextLineOffset(b))
        /\ ChunksInOrder
        /\ end <= parser.current_line_offset
        /\ \A k \in msg.lines : end <= k.at /\ k.at < parser.current_line_offset => IsBlank(k)

DoneMeansComplete ==
    parser.pc = "done" =>
      \/ parser.body_offset # NotSet /\ parser.length_cap <= parser.offset
      \/ parser.receiving_body_in_chunks /\ parser.chunks = msg.result.body

Parsed(f, b) ==
    /\ parser.first_line = NotSet => BeforeFirstLine
    /\ parser.first_line # NotSet => parser.first_line = f.at
    /\ InHeaders /\ parser.body_offset = NotSet => InHeadersOf(f)
    /\ parser.body_offset = NotSet => parser.length_cap = NotSet
    /\ parser.body_offset # NotSet => InBody(f, b)
    /\ parser.receiving_body_in_chunks => InChunksAfter(b)
    /\ parser.pc = "rest" => \A l \in CurrentLines : IsChunkSize(l) /\ l.num > 0
    /\ DoneMeansComplete

ParsedInv == \E f, b \in msg.lines : IsMeantBy(msg, f, b) /\ Parsed(f, b)

-----------------------------------------------------------------------------
(* Lines.                                                                     *)

\* The lines of a message are typed, do not overlap, and differ in where they begin.
LEMMA LineFacts ==
    ASSUME TypeOK
    PROVE  /\ \A l \in msg.lines :
                /\ l.at \in Nat /\ l.num \in Nat /\ l.at <= l.crlf
                /\ NextLineOffset(l) \in Nat /\ l.at < NextLineOffset(l)
                /\ NextLineOffset(l) + l.num < SizeMax
           /\ \A k, l \in msg.lines : k.at = l.at => k = l
           /\ \A k, l \in msg.lines : k.at < l.at => NextLineOffset(k) <= l.at
           /\ msg.total \in Nat /\ msg.total < SizeMax /\ SizeMax \in Nat
<1>1. msg \in Messages
  BY DEF TypeOK
<1>2. \A l \in msg.lines : l.at \in Nat /\ l.crlf \in Nat /\ l.num \in Nat /\ l.at <= l.crlf
  BY <1>1, HTTPAssumption DEF Lines
<1>3. \A l \in msg.lines : NextLineOffset(l) \in Nat /\ l.at < NextLineOffset(l)
  BY <1>2 DEF NextLineOffset, kCRLFLength
<1>4. \A l \in msg.lines : NextLineOffset(l) + l.num < SizeMax
  BY <1>1, HTTPAssumption
<1>5. \A k, l \in msg.lines : k.at = l.at => k = l
  BY <1>1, HTTPAssumption
<1>6. \A k, l \in msg.lines : k.at < l.at => NextLineOffset(k) <= l.at
  BY <1>1, MessageAssumption
<1>7. msg.total \in Nat /\ msg.total < SizeMax /\ SizeMax \in Nat
  BY <1>1, HTTPAssumption, MessageAssumption
<1> QED
  BY <1>2, <1>3, <1>4, <1>5, <1>6, <1>7

\* There is one next line that is not blank.
LEMMA NextTextUnique ==
    ASSUME TypeOK, NEW at \in Nat, NEW k \in msg.lines, NEW l \in msg.lines,
           IsNextText(msg, k, at), IsNextText(msg, l, at)
    PROVE  k = l
<1>1. ~(k.at < l.at) /\ ~(l.at < k.at)
  BY DEF IsNextText
<1> QED
  BY <1>1, LineFacts

\* There is one blank line that ends the headers.
LEMMA HeadersEndUnique ==
    ASSUME TypeOK, NEW f, NEW k \in msg.lines, NEW l \in msg.lines,
           EndsHeaders(msg, f, k), EndsHeaders(msg, f, l)
    PROVE  k = l
<1>1. ~(k.at < l.at) /\ ~(l.at < k.at)
  BY DEF EndsHeaders
<1> QED
  BY <1>1, LineFacts

\* The lines before the next one are those before this one, and this one.
LEMMA LinesBeforeNext ==
    ASSUME TypeOK, NEW l \in CurrentLines, NEW k \in msg.lines
    PROVE  k.at < NextLineOffset(l) <=> k.at < parser.current_line_offset \/ k = l
<1>1. l \in msg.lines /\ l.at = parser.current_line_offset
  BY DEF CurrentLines
<1>2. k.at \in Nat /\ l.at \in Nat /\ NextLineOffset(l) \in Nat /\ l.at < NextLineOffset(l)
  BY <1>1, LineFacts
<1>3. CASE k.at < l.at
  BY <1>1, <1>2, <1>3
<1>4. CASE k.at = l.at
  BY <1>1, <1>2, <1>4, LineFacts
<1>5. CASE l.at < k.at
  <2>1. NextLineOffset(l) <= k.at
    BY <1>1, <1>5, LineFacts
  <2> QED
    BY <1>1, <1>2, <1>5, <2>1
<1> QED
  BY <1>2, <1>3, <1>4, <1>5

\* The lines after `f` are one more, once the current one is handled.
LEMMA WithinNext ==
    ASSUME TypeOK, NEW l \in CurrentLines, NEW f, f.at < parser.current_line_offset
    PROVE  Within(msg, f, NextLineOffset(l)) = Within(msg, f, parser.current_line_offset) \union {l}
<1>1. l \in msg.lines /\ l.at = parser.current_line_offset
  BY DEF CurrentLines
<1> QED
  BY <1>1, LinesBeforeNext DEF Within

\* Where chunks end is an offset.
LEMMA EndOfChunksType ==
    ASSUME NEW chunks \in Seq([at : Nat, len : Nat]), NEW n \in 0..Len(chunks), NEW at \in Nat
    PROVE  EndOfChunks(chunks, n, at) \in Nat
<1>1. CASE n = 0
  BY <1>1 DEF EndOfChunks
<1>2. CASE n # 0
  <2>1. n \in 1..Len(chunks)
    BY <1>2
  <2>2. chunks[n] \in [at : Nat, len : Nat]
    BY <2>1, ElementOfSeq
  <2> QED
    BY <1>2, <2>2 DEF EndOfChunks
<1> QED
  BY <1>1, <1>2

\* What a message means is a record.
LEMMA ResultType ==
    ASSUME TypeOK
    PROVE  /\ msg.result = [first_line |-> msg.result.first_line, headers |-> msg.result.headers,
                            has_body |-> msg.result.has_body, body |-> msg.result.body]
           /\ msg.result.has_body \in BOOLEAN
           /\ msg.result.body \in Seq([at : Nat, len : Nat])
<1>1. msg.result \in [first_line : Nat, headers : SUBSET Nat, has_body : BOOLEAN,
                      body : Seq([at : Nat, len : Nat])]
  BY MessageAssumption DEF TypeOK
<1> QED
  BY <1>1

-----------------------------------------------------------------------------
(* The steps.                                                                 *)

\* Nothing is parsed yet.
LEMMA ParsedInit == Init => ParsedInv
<1> SUFFICES ASSUME Init PROVE ParsedInv
  OBVIOUS
<1>1. /\ parser.pc = "read" /\ parser.current_line_offset = 0
      /\ parser.headers = {} /\ parser.chunks = <<>>
      /\ parser.body_length = NotSet /\ parser.body_offset = NotSet /\ parser.length_cap = NotSet
      /\ parser.first_line = NotSet
      /\ ~parser.chunked_transfer_encoding /\ ~parser.receiving_body_in_chunks
  BY DEF Init, Start
<1>2. BeforeFirstLine
  BY <1>1, TypeInit, LineFacts DEF BeforeFirstLine
<1>3. \A f, b \in msg.lines : Parsed(f, b)
  BY <1>1, <1>2 DEF Parsed, InHeaders, DoneMeansComplete
<1>4. PICK f \in msg.lines, b \in msg.lines : IsMeantBy(msg, f, b)
  BY MessageAssumption DEF Init
<1> QED
  BY <1>3, <1>4 DEF ParsedInv

\* A step that handles no line, and only reads: what was parsed stays parsed.
LEMMA HandlesNoLine ==
    ASSUME Inv, TypeOK', NEW f, NEW b, Parsed(f, b), msg' = msg,
           parser' = [parser EXCEPT !.pc = parser'.pc, !.offset = parser'.offset,
                                    !.size = parser'.size],
           parser'.offset >= parser.offset,
           parser'.pc = "rest" => \A l \in CurrentLines' : (IsChunkSize(l) /\ l.num > 0)',
           DoneMeansComplete'
    PROVE  Parsed(f, b)'
<1>1. /\ parser'.length_cap = parser.length_cap
      /\ parser'.current_line_offset = parser.current_line_offset
      /\ parser'.body_offset = parser.body_offset /\ parser'.body_length = parser.body_length
      /\ parser'.first_line = parser.first_line
      /\ parser'.chunked_transfer_encoding = parser.chunked_transfer_encoding
      /\ parser'.receiving_body_in_chunks = parser.receiving_body_in_chunks
      /\ parser'.headers = parser.headers /\ parser'.chunks = parser.chunks
  BY DEF Inv, TypeOK, Parsers
<1>2. parser.offset \in Nat /\ parser'.offset \in Nat /\ NotSet' = NotSet
  BY DEF Inv, TypeOK, Parsers, NotSet
<1>3. BeforeFirstLine => BeforeFirstLine'
  BY <1>1, <1>2 DEF BeforeFirstLine
<1>4. InHeadersOf(f) => InHeadersOf(f)'
  BY <1>1, <1>2 DEF InHeadersOf
<1>5. parser.body_offset # NotSet /\ InBody(f, b) => InBody(f, b)'
  <2>1. Result' = Result
    BY <1>1, <1>2 DEF Result, HasBody, Body
  <2>2. parser.body_offset \in Nat
    BY DEF Inv, TypeOK, Parsers
  <2> QED
    BY <1>1, <1>2, <2>1, <2>2 DEF InBody
<1>6. InChunksAfter(b) => InChunksAfter(b)'
  <2>1. ASSUME ChunksInOrder PROVE ChunksInOrder'
    <3>1. ASSUME NEW i \in DOMAIN parser.chunks, parser.receiving_body_in_chunks
          PROVE  parser.chunks[i].at + parser.chunks[i].len <= parser'.offset
      <4>0. parser.chunks \in Seq([at : Nat, len : Nat])
        BY DEF Inv, TypeOK, Parsers
      <4>n. i \in 1..Len(parser.chunks)
        BY <4>0, LenProperties
      <4>1. parser.chunks[i] \in [at : Nat, len : Nat]
        BY <4>0, <4>n, ElementOfSeq
      <4>2. parser.chunks[i].at + parser.chunks[i].len <= parser.offset
        BY <2>1, <3>1 DEF ChunksInOrder
      <4> QED
        BY <1>2, <4>1, <4>2
    <3> QED
      BY <1>1, <2>1, <3>1 DEF ChunksInOrder
  <2> QED
    BY <1>1, <1>2, <2>1 DEF InChunksAfter
<1> QED
  BY <1>1, <1>2, <1>3, <1>4, <1>5, <1>6 DEF Parsed, InHeaders

\* The bytes that come in, and how the constructor reads them.
LEMMA ReadKeepsParsed ==
    ASSUME Inv, TypeOK', NEW f \in msg.lines, NEW b \in msg.lines, Parsed(f, b),
           msg' = msg,
           parser' = [parser EXCEPT !.pc = parser'.pc, !.offset = parser'.offset,
                                    !.size = parser'.size],
           parser'.offset >= parser.offset,
           parser'.pc \notin {"rest", "done"} \/ parser' = parser
    PROVE  Parsed(f, b)'
<1>1. CASE parser' = parser
  <2>1. DoneMeansComplete'
    BY <1>1 DEF Parsed, DoneMeansComplete, NotSet
  <2>2. parser'.pc = "rest" => \A l \in CurrentLines' : (IsChunkSize(l) /\ l.num > 0)'
    BY <1>1 DEF Parsed, CurrentLines, IsChunkSize
  <2> QED
    BY <2>1, <2>2, HandlesNoLine
<1>2. CASE parser'.pc \notin {"rest", "done"}
  BY <1>2, HandlesNoLine DEF DoneMeansComplete
<1> QED
  BY <1>1, <1>2

\* A line is found before the body only, has been read, and is where the parser is.
LEMMA FoundFacts ==
    ASSUME Inv, NEW f, NEW b, Parsed(f, b), NEW l \in LinesFound
    PROVE  /\ l \in CurrentLines /\ l \in msg.lines /\ l.at = parser.current_line_offset
           /\ parser.body_offset = NotSet /\ parser.length_cap = NotSet
           /\ NextLineOffset(l) <= parser.offset
           /\ parser.pc = "parse"
<1>1. /\ l \in CurrentLines /\ parser.pc = "parse"
      /\ parser.body_offset = NotSet \/ parser.offset < parser.body_offset
  BY DEF LinesFound, LooksForLines
<1>2. parser.body_offset # NotSet => parser.body_offset <= parser.offset
  BY DEF Parsed, InBody
<1>3. parser.offset \in Nat /\ parser.body_offset \in Nat
  BY DEF Inv, TypeOK, Parsers
<1>4. parser.body_offset = NotSet
  BY <1>1, <1>2, <1>3
<1> QED
  BY <1>1, <1>4 DEF CurrentLines, Parsed

\* What is said of a set of lines, once there is one more.
LEMMA OneMoreLine ==
    ASSUME NEW S, NEW l
    PROVE  /\ Offsets(S \union {l}) = Offsets(S) \union {l.at}
           /\ HasChunked(S \union {l}) <=> HasChunked(S) \/ l.key = "Transfer-Encoding"
           /\ l.key = "Content-Length" => l.num \in ContentLengths(S \union {l})
           /\ l.key # "Content-Length" => ContentLengths(S \union {l}) = ContentLengths(S)
           /\ ContentLengths(S) \subseteq ContentLengths(S \union {l})
  BY DEF Offsets, HasChunked, ContentLengths

\* The first line is the one the sender meant: it follows blank lines only.
LEMMA FirstLineParsed ==
    ASSUME Inv, TypeOK', NEW f \in msg.lines, NEW b \in msg.lines,
           IsMeantBy(msg, f, b), Parsed(f, b),
           NEW l \in LinesFound, FirstLine(l)
    PROVE  Parsed(f, b)'
<1>t. TypeOK /\ l \in CurrentLines /\ l \in msg.lines /\ l.at = parser.current_line_offset
  BY FoundFacts DEF Inv
<1>1. /\ ~IsBlank(l) /\ parser.first_line = NotSet
      /\ parser' = [[parser EXCEPT !.first_line = l.at]
                      EXCEPT !.current_line_offset = NextLineOffset(l)]
      /\ UNCHANGED stream
  BY DEF FirstLine, HandlesLine
<1>2. BeforeFirstLine
  BY <1>1 DEF Parsed
<1>3. l = f
  <2>1. IsNextText(msg, l, 0)
    BY <1>t, <1>1, <1>2, LineFacts DEF IsNextText, BeforeFirstLine
  <2>2. IsNextText(msg, f, 0)
    BY DEF IsMeantBy
  <2> QED
    BY <1>t, <2>1, <2>2, NextTextUnique
<1>4. /\ parser'.first_line = f.at /\ parser'.current_line_offset = NextLineOffset(f)
      /\ parser'.headers = {} /\ parser'.chunks = <<>> /\ parser'.pc = "parse"
      /\ parser'.body_length = NotSet /\ parser'.body_offset = NotSet
      /\ parser'.length_cap = NotSet
      /\ ~parser'.chunked_transfer_encoding /\ ~parser'.receiving_body_in_chunks
      /\ msg' = msg
  BY <1>t, <1>1, <1>2, <1>3, FoundFacts DEF BeforeFirstLine, TypeOK, Parsers, stream
<1>5. f.at \in Nat /\ f.at # NotSet /\ f.at < NextLineOffset(f)
  BY <1>t, LineFacts DEF NotSet
<1>6. Within(msg, f, NextLineOffset(f)) = {}
  BY <1>t, LineFacts DEF Within
<1>7. Offsets({}) = {} /\ HasChunked({}) = FALSE /\ ContentLengths({}) = {}
  BY DEF Offsets, HasChunked, ContentLengths
<1>8. parser'.chunked_transfer_encoding = FALSE
  BY <1>4 DEF TypeOK, Parsers
<1>9. InHeadersOf(f)'
  BY <1>4, <1>5, <1>6, <1>7, <1>8 DEF InHeadersOf, NotSet
<1> QED
  BY <1>4, <1>5, <1>9 DEF Parsed, NotSet, DoneMeansComplete

\* A blank line before the first one, or after a chunk.
LEMMA BlankLineParsed ==
    ASSUME Inv, TypeOK', NEW f \in msg.lines, NEW b \in msg.lines, Parsed(f, b),
           NEW l \in LinesFound, SkipBlankLine(l)
    PROVE  Parsed(f, b)'
<1>t. /\ TypeOK /\ l \in CurrentLines /\ l \in msg.lines /\ l.at = parser.current_line_offset
      /\ parser.pc = "parse"
  BY FoundFacts DEF Inv
<1>1. /\ IsBlank(l)
      /\ parser.first_line = NotSet \/ parser.receiving_body_in_chunks
      /\ parser' = [parser EXCEPT !.current_line_offset = NextLineOffset(l)]
      /\ UNCHANGED stream
  BY DEF SkipBlankLine, HandlesLine
<1>2. /\ parser'.first_line = parser.first_line
      /\ parser'.current_line_offset = NextLineOffset(l)
      /\ parser'.headers = parser.headers /\ parser'.chunks = parser.chunks
      /\ parser'.pc = "parse" /\ parser'.offset = parser.offset
      /\ parser'.body_length = parser.body_length /\ parser'.body_offset = parser.body_offset
      /\ parser'.length_cap = parser.length_cap
      /\ parser'.chunked_transfer_encoding = parser.chunked_transfer_encoding
      /\ parser'.receiving_body_in_chunks = parser.receiving_body_in_chunks
      /\ msg' = msg /\ NotSet' = NotSet
  BY <1>t, <1>1 DEF TypeOK, Parsers, stream, NotSet
<1>3. \A k \in msg.lines :
        k.at < parser'.current_line_offset => k.at < parser.current_line_offset \/ IsBlank(k)
  <2> TAKE k \in msg.lines
  <2>1. k.at < NextLineOffset(l) => k.at < parser.current_line_offset \/ k = l
    BY <1>t, LinesBeforeNext
  <2>2. k = l => IsBlank(k)
    BY <1>1 DEF IsBlank
  <2> QED
    BY <1>2, <2>1, <2>2
<1>4. BeforeFirstLine => BeforeFirstLine'
  BY <1>2, <1>3 DEF BeforeFirstLine
<1>5. InChunksAfter(b) => InChunksAfter(b)'
  <2>1. ChunksInOrder => ChunksInOrder'
    BY <1>2 DEF ChunksInOrder
  <2>2. parser.current_line_offset < parser'.current_line_offset
    BY <1>t, <1>2, LineFacts
  <2>3. /\ parser.current_line_offset \in Nat /\ parser'.current_line_offset \in Nat
        /\ NextLineOffset(b) \in Nat
    BY <1>t, LineFacts DEF TypeOK, Parsers
  <2>4. ASSUME InChunksAfter(b)
        PROVE  EndOfChunks(parser.chunks, Len(parser.chunks), NextLineOffset(b)) \in Nat
    <3>1. parser.chunks \in Seq([at : Nat, len : Nat])
      BY <1>t DEF TypeOK, Parsers
    <3>2. Len(parser.chunks) \in 0..Len(parser.chunks)
      BY <3>1
    <3> QED
      BY <2>3, <3>1, <3>2, EndOfChunksType
  <2> QED
    BY <1>2, <1>3, <2>1, <2>2, <2>3, <2>4 DEF InChunksAfter
<1> QED
  BY <1>1, <1>2, <1>4, <1>5 DEF Parsed, InHeaders, DoneMeansComplete, InBody, BeforeFirstLine, InChunksAfter

\* A header is one of those that precede the blank line.
LEMMA HeaderParsed ==
    ASSUME Inv, TypeOK', NEW f \in msg.lines, NEW b \in msg.lines, Parsed(f, b),
           NEW l \in LinesFound, Header(l)
    PROVE  Parsed(f, b)'
<1> DEFINE length == IF l.key = "Content-Length" THEN l.num ELSE parser.body_length
           chunked == parser.chunked_transfer_encoding \/ l.key = "Transfer-Encoding"
           seen == Within(msg, f, parser.current_line_offset)
<1>t. /\ TypeOK /\ l \in CurrentLines /\ l \in msg.lines /\ l.at = parser.current_line_offset
      /\ parser.pc = "parse" /\ parser.body_offset = NotSet /\ parser.length_cap = NotSet
  BY FoundFacts DEF Inv
<1>1. /\ ~IsBlank(l) /\ InHeaders
      /\ parser' = [[parser EXCEPT !.headers = @ \union {l.at}, !.body_length = length,
                                   !.chunked_transfer_encoding = chunked]
                      EXCEPT !.current_line_offset = NextLineOffset(l)]
      /\ UNCHANGED stream
  BY DEF Header, HandlesLine
<1>2. InHeadersOf(f)
  BY <1>t, <1>1 DEF Parsed
<1> HIDE DEF length, chunked, seen
<1>3. /\ parser'.first_line = parser.first_line
      /\ parser'.current_line_offset = NextLineOffset(l)
      /\ parser'.headers = parser.headers \union {l.at} /\ parser'.chunks = parser.chunks
      /\ parser'.pc = "parse"
      /\ parser'.body_length = length /\ parser'.body_offset = NotSet
      /\ parser'.length_cap = NotSet
      /\ parser'.chunked_transfer_encoding = chunked
      /\ parser'.receiving_body_in_chunks = parser.receiving_body_in_chunks
      /\ msg' = msg /\ NotSet' = NotSet
  BY <1>t, <1>1 DEF TypeOK, Parsers, stream, NotSet
<1>4. Within(msg, f, NextLineOffset(l)) = seen \union {l}
  BY <1>t, <1>2, WithinNext DEF InHeadersOf, seen
<1>5. f.at < NextLineOffset(l)
  BY <1>t, <1>2, LineFacts DEF InHeadersOf
<1>6. \A k \in seen \union {l} : ~IsBlank(k)
  BY <1>1, <1>2 DEF InHeadersOf, seen
<1>7. /\ parser'.headers = Offsets(seen \union {l})
      /\ parser'.chunked_transfer_encoding = HasChunked(seen \union {l})
  <2>1. /\ parser.headers = Offsets(seen)
        /\ parser.chunked_transfer_encoding = HasChunked(seen)
    BY <1>2 DEF InHeadersOf, seen
  <2>2. HasChunked(seen \union {l}) \in BOOLEAN /\ chunked \in BOOLEAN
    BY <1>t DEF HasChunked, chunked, TypeOK, Parsers
  <2> QED
    BY <1>3, <2>1, <2>2, OneMoreLine DEF chunked
<1>8. IF parser'.body_length = NotSet THEN ContentLengths(seen \union {l}) = {}
      ELSE parser'.body_length \in ContentLengths(seen \union {l})
  <2>1. CASE l.key = "Content-Length"
    <3>1. l.num # NotSet
      BY <1>t, LineFacts DEF NotSet
    <3> QED
      BY <1>3, <2>1, <3>1, OneMoreLine DEF length
  <2>2. CASE l.key # "Content-Length"
    BY <1>2, <1>3, <2>2, OneMoreLine DEF length, InHeadersOf, seen
  <2> QED
    BY <2>1, <2>2
<1>9. InHeadersOf(f)'
  BY <1>2, <1>3, <1>4, <1>5, <1>6, <1>7, <1>8 DEF InHeadersOf
<1> QED
  BY <1>1, <1>3, <1>9 DEF Parsed, InHeaders, DoneMeansComplete

\* The blank line after the headers is the one the sender meant, and the body is as announced.
LEMMA BodyIsNextParsed ==
    ASSUME Inv, TypeOK', NEW f \in msg.lines, NEW b \in msg.lines,
           IsMeantBy(msg, f, b), Parsed(f, b),
           NEW l \in LinesFound, BodyIsNext(l)
    PROVE  Parsed(f, b)'
<1> DEFINE at == NextLineOffset(l)
           cap == at + (IF parser.body_length = NotSet THEN 0 ELSE parser.body_length)
           size == IF parser.body_length = NotSet THEN parser.size ELSE SizeForBody(cap)
           seen == Within(msg, f, parser.current_line_offset)
<1>t. /\ TypeOK /\ l \in CurrentLines /\ l \in msg.lines /\ l.at = parser.current_line_offset
      /\ parser.pc = "parse" /\ parser.body_offset = NotSet /\ parser.length_cap = NotSet
      /\ at <= parser.offset
  BY FoundFacts DEF Inv
<1>1. /\ IsBlank(l) /\ InHeaders /\ ~parser.chunked_transfer_encoding
      /\ parser' = [[parser EXCEPT !.body_offset = at, !.length_cap = cap, !.size = size]
                      EXCEPT !.current_line_offset = at]
      /\ UNCHANGED stream
  BY DEF BodyIsNext, HandlesLine
<1>2. InHeadersOf(f)
  BY <1>t, <1>1 DEF Parsed
<1>3. l = b
  <2>1. EndsHeaders(msg, f, l)
    BY <1>t, <1>1, <1>2 DEF EndsHeaders, InHeadersOf, Within
  <2>2. EndsHeaders(msg, f, b)
    BY DEF IsMeantBy
  <2> QED
    BY <1>t, <2>1, <2>2, HeadersEndUnique
<1>4. at \in Nat /\ at # NotSet
  <2>1. at \in Nat /\ at + l.num < SizeMax /\ l.num \in Nat
    BY <1>t, LineFacts
  <2> QED
    BY <2>1, HTTPAssumption DEF NotSet
<1> HIDE DEF at, cap, size, seen
<1>5. /\ parser'.first_line = parser.first_line /\ parser'.headers = parser.headers
      /\ parser'.body_offset = at /\ parser'.length_cap = cap
      /\ parser'.body_length = parser.body_length
      /\ parser'.receiving_body_in_chunks = parser.receiving_body_in_chunks
      /\ parser'.pc = "parse" /\ parser'.offset = parser.offset
      /\ msg' = msg /\ NotSet' = NotSet
  BY <1>t, <1>1 DEF TypeOK, Parsers, stream, NotSet
<1>6. ~parser'.receiving_body_in_chunks /\ parser'.first_line # NotSet
  BY <1>1, <1>5 DEF InHeaders
<1>7. seen = Within(msg, f, b.at) /\ at = NextLineOffset(b)
  BY <1>t, <1>3 DEF seen, at
<1>8. /\ parser'.first_line = msg.result.first_line
      /\ parser'.headers = msg.result.headers
  BY <1>1, <1>2, <1>5, <1>7 DEF IsMeantBy, Parsed, InHeaders, InHeadersOf, seen
<1>9. ~HasChunked(seen)
  BY <1>1, <1>2 DEF InHeadersOf, seen
<1>10. IF parser.body_length = NotSet THEN ContentLengths(seen) = {}
       ELSE parser.body_length \in ContentLengths(seen)
  BY <1>2 DEF InHeadersOf, seen
<1>11. \/ ContentLengths(seen) = {} /\ ~msg.result.has_body /\ msg.result.body = <<>>
       \/ \E n \in ContentLengths(seen) :
            /\ ContentLengths(seen) = {n} /\ msg.result.has_body
            /\ msg.result.body = <<[at |-> at, len |-> n]>>
  BY <1>7, <1>9 DEF IsMeantBy
<1>12. HasBody' = msg.result.has_body /\ Body' = msg.result.body
  <2>1. CASE parser.body_length = NotSet
    <3>1. ~msg.result.has_body /\ msg.result.body = <<>>
      BY <1>10, <1>11, <2>1
    <3>2. HasBody' = FALSE /\ Body' = <<>>
      BY <1>5, <1>6, <2>1 DEF HasBody, Body
    <3> QED
      BY <1>t, <3>1, <3>2, ResultType
  <2>2. CASE parser.body_length # NotSet
    <3>1. msg.result.has_body /\ msg.result.body = <<[at |-> at, len |-> parser.body_length]>>
      BY <1>10, <1>11, <2>2
    <3>2. HasBody' = TRUE /\ Body' = <<[at |-> at, len |-> parser.body_length]>>
      BY <1>5, <1>6, <2>2 DEF HasBody, Body
    <3> QED
      BY <1>t, <3>1, <3>2, ResultType
  <2> QED
    BY <2>1, <2>2
<1>13. Result' = msg.result
  <2>1. Result' = [first_line |-> msg.result.first_line, headers |-> msg.result.headers,
                   has_body |-> msg.result.has_body, body |-> msg.result.body]
    BY <1>8, <1>12 DEF Result
  <2> QED
    BY <1>t, <2>1, ResultType
<1>14. InBody(f, b)'
  BY <1>t, <1>5, <1>6, <1>7, <1>9, <1>13 DEF InBody, cap
<1> QED
  BY <1>4, <1>5, <1>6, <1>14 DEF Parsed, DoneMeansComplete

\* So it is if the body is chunked: no chunk has been seen, and the first one is next.
LEMMA ChunksAreNextParsed ==
    ASSUME Inv, TypeOK', NEW f \in msg.lines, NEW b \in msg.lines,
           IsMeantBy(msg, f, b), Parsed(f, b),
           NEW l \in LinesFound, ChunksAreNext(l)
    PROVE  Parsed(f, b)'
<1> DEFINE seen == Within(msg, f, parser.current_line_offset)
<1>t. /\ TypeOK /\ l \in CurrentLines /\ l \in msg.lines /\ l.at = parser.current_line_offset
      /\ parser.pc = "parse" /\ parser.body_offset = NotSet /\ parser.length_cap = NotSet
  BY FoundFacts DEF Inv
<1>1. /\ IsBlank(l) /\ InHeaders /\ parser.chunked_transfer_encoding
      /\ parser' = [[parser EXCEPT !.receiving_body_in_chunks = TRUE]
                      EXCEPT !.current_line_offset = NextLineOffset(l)]
      /\ UNCHANGED stream
  BY DEF ChunksAreNext, HandlesLine
<1>2. InHeadersOf(f)
  BY <1>t, <1>1 DEF Parsed
<1>3. l = b
  <2>1. EndsHeaders(msg, f, l)
    BY <1>t, <1>1, <1>2 DEF EndsHeaders, InHeadersOf, Within
  <2>2. EndsHeaders(msg, f, b)
    BY DEF IsMeantBy
  <2> QED
    BY <1>t, <2>1, <2>2, HeadersEndUnique
<1> HIDE DEF seen
<1>4. /\ parser'.first_line = parser.first_line /\ parser'.headers = parser.headers
      /\ parser'.body_offset = NotSet /\ parser'.length_cap = NotSet
      /\ parser'.receiving_body_in_chunks
      /\ parser'.current_line_offset = NextLineOffset(b)
      /\ parser'.pc = "parse" /\ parser'.chunks = <<>>
      /\ msg' = msg /\ NotSet' = NotSet
  BY <1>t, <1>1, <1>2, <1>3 DEF TypeOK, Parsers, stream, NotSet, InHeadersOf
<1>5. seen = Within(msg, f, b.at) /\ HasChunked(seen)
  BY <1>t, <1>1, <1>2, <1>3 DEF seen, InHeadersOf
<1>6. /\ parser'.headers = msg.result.headers /\ msg.result.has_body
      /\ IsChunkedBody(msg, msg.result.body, NextLineOffset(b))
  BY <1>2, <1>4, <1>5 DEF IsMeantBy, InHeadersOf, seen
<1>7. ChunksInOrder'
  <2>1. Len(msg.result.body) \in Nat
    BY <1>t, ResultType
  <2> QED
    BY <1>4, <2>1 DEF ChunksInOrder
<1>8. EndOfChunks(<<>>, Len(<<>>), NextLineOffset(b)) = NextLineOffset(b)
  BY DEF EndOfChunks
<1>9. InChunksAfter(b)'
  BY <1>4, <1>6, <1>7, <1>8, LineFacts, <1>t DEF InChunksAfter
<1> QED
  BY <1>1, <1>4, <1>9 DEF Parsed, DoneMeansComplete, InHeaders

\* The line after the chunks taken has the size of the sender's next chunk, or 0 after the last.
LEMMA SizeOfNextChunk ==
    ASSUME Inv, NEW b \in msg.lines, parser.receiving_body_in_chunks, InChunksAfter(b),
           NEW l \in CurrentLines, IsChunkSize(l)
    PROVE  \/ /\ Len(parser.chunks) < Len(msg.result.body)
              /\ msg.result.body[Len(parser.chunks) + 1] = ChunkAfter(l)
              /\ l.num > 0
           \/ Len(parser.chunks) = Len(msg.result.body) /\ l.num = 0
<1> DEFINE n == Len(parser.chunks)
           body == msg.result.body
           at == NextLineOffset(b)
           end == EndOfChunks(parser.chunks, n, at)
<1>t. /\ TypeOK /\ l \in msg.lines /\ l.at = parser.current_line_offset
      /\ parser.chunks \in Seq([at : Nat, len : Nat]) /\ body \in Seq([at : Nat, len : Nat])
      /\ n \in Nat /\ Len(body) \in Nat /\ n \in 0..n /\ at \in Nat
  BY ResultType, LineFacts DEF Inv, CurrentLines, TypeOK, Parsers
<1>1. end \in Nat
  BY <1>t, EndOfChunksType
<1>2. IsNextText(msg, l, end)
  <2>1. ~IsBlank(l)
    BY DEF IsChunkSize
  <2> QED
    BY <1>t, <2>1 DEF InChunksAfter, IsNextText
<1>3. n <= Len(body) /\ \A i \in 1..n : parser.chunks[i] = body[i]
  BY <1>t DEF InChunksAfter, ChunksInOrder
<1> HIDE DEF n, body, at
<1>4. end = EndOfChunks(body, n, at)
  <2>1. n # 0 => parser.chunks[n] = body[n]
    BY <1>t, <1>3
  <2> QED
    BY <2>1 DEF EndOfChunks, end
<1> HIDE DEF end
<1>b. IsChunkedBody(msg, body, at)
  BY DEF InChunksAfter, body, at
<1>5. CASE n < Len(body)
  <2>1. n + 1 \in DOMAIN body /\ (n + 1) - 1 = n
    BY <1>t, <1>5
  <2>2. PICK k \in msg.lines : /\ IsNextText(msg, k, EndOfChunks(body, (n + 1) - 1, at))
                              /\ k.num > 0 /\ body[n + 1] = ChunkAfter(k)
    BY <1>b, <2>1 DEF IsChunkedBody
  <2>3. k = l
    BY <1>t, <1>1, <1>2, <1>4, <2>1, <2>2, NextTextUnique
  <2> QED
    BY <1>5, <2>2, <2>3 DEF n, body
<1>6. CASE n = Len(body)
  <2>1. PICK k \in msg.lines : IsNextText(msg, k, EndOfChunks(body, Len(body), at)) /\ k.num = 0
    BY <1>b DEF IsChunkedBody
  <2>2. k = l
    BY <1>t, <1>1, <1>2, <1>4, <1>6, <2>1, NextTextUnique
  <2> QED
    BY <1>6, <2>1, <2>2 DEF n, body
<1> QED
  BY <1>t, <1>3, <1>5, <1>6

\* A chunk is taken once it has been read, whether or not that took another read.
LEMMA ChunkTakenParsed ==
    ASSUME Inv, TypeOK', NEW f \in msg.lines, NEW b \in msg.lines, Parsed(f, b),
           NEW l \in CurrentLines, IsChunkSize(l), l.num > 0,
           NEW offset \in Nat, NextOffset(l) <= offset, parser.offset <= offset,
           NEW p \in Parsers, p = [parser EXCEPT !.offset = offset],
           parser' = WithChunk(l, p), UNCHANGED stream
    PROVE  Parsed(f, b)'
<1> DEFINE chunk == ChunkAfter(l)
           n == Len(parser.chunks)
<1>t. /\ TypeOK /\ l \in msg.lines
      /\ parser.chunks \in Seq([at : Nat, len : Nat])
      /\ n \in Nat /\ NextOffset(l) \in Nat /\ parser.offset \in Nat
      /\ Len(msg.result.body) \in Nat
  <2>1. TypeOK
    BY DEF Inv
  <2>2. l \in msg.lines /\ NextOffset(l) \in Nat
    BY <2>1, CurrentLineType
  <2>3. parser.chunks \in Seq([at : Nat, len : Nat]) /\ parser.offset \in Nat
    BY <2>1 DEF TypeOK, Parsers
  <2>4. Len(msg.result.body) \in Nat
    BY <2>1, ResultType
  <2> QED
    BY <2>1, <2>2, <2>3, <2>4
<1>c. chunk \in [at : Nat, len : Nat] /\ chunk.at + chunk.len = NextOffset(l)
  <2>1. NextLineOffset(l) \in Nat /\ l.num \in Nat
    BY <1>t, LineFacts
  <2> QED
    BY <2>1 DEF ChunkAfter, NextOffset
<1>1. InChunksAfter(b) /\ parser.receiving_body_in_chunks /\ parser.first_line # NotSet
  <2>1. parser.receiving_body_in_chunks
    BY DEF IsChunkSize
  <2> QED
    BY <2>1 DEF Parsed, BeforeFirstLine
<1>2. /\ p.first_line = parser.first_line /\ p.headers = parser.headers
      /\ p.body_offset = parser.body_offset /\ p.length_cap = parser.length_cap
      /\ p.receiving_body_in_chunks = parser.receiving_body_in_chunks
      /\ p.chunks = parser.chunks /\ p.offset = offset
  BY <1>t DEF TypeOK, Parsers
<1> HIDE DEF chunk
<1>3. /\ parser'.first_line = parser.first_line /\ parser'.headers = parser.headers
      /\ parser'.body_offset = NotSet /\ parser'.length_cap = NotSet
      /\ parser'.receiving_body_in_chunks
      /\ parser'.current_line_offset = NextOffset(l)
      /\ parser'.pc = "parse" /\ parser'.offset = offset
      /\ parser'.chunks = Append(parser.chunks, chunk)
      /\ msg' = msg /\ NotSet' = NotSet
  <2>1. parser.body_offset = NotSet /\ parser.length_cap = NotSet
    BY <1>1 DEF Parsed, InChunksAfter
  <2> QED
    BY <1>1, <1>2, <2>1 DEF WithChunk, ChunkAfter, Parsers, stream, NotSet, chunk
<1>4. n < Len(msg.result.body) /\ msg.result.body[n + 1] = chunk
  <2>1. l.num # 0
    BY <1>t, LineFacts
  <2> QED
    BY <1>1, <2>1, SizeOfNextChunk DEF chunk
<1>5. /\ Len(parser'.chunks) = n + 1
      /\ \A i \in 1..n : parser'.chunks[i] = parser.chunks[i]
      /\ parser'.chunks[n + 1] = chunk
      /\ DOMAIN parser'.chunks = 1..n + 1 /\ DOMAIN parser.chunks = 1..n
  <2>1. /\ Append(parser.chunks, chunk) \in Seq([at : Nat, len : Nat])
        /\ Len(Append(parser.chunks, chunk)) = n + 1
        /\ \A i \in 1..n : Append(parser.chunks, chunk)[i] = parser.chunks[i]
        /\ Append(parser.chunks, chunk)[n + 1] = chunk
    BY <1>t, <1>c, AppendProperties
  <2>2. DOMAIN Append(parser.chunks, chunk) = 1..n + 1 /\ DOMAIN parser.chunks = 1..n
    BY <1>t, <2>1, LenProperties
  <2> QED
    BY <1>3, <2>1, <2>2
<1> HIDE DEF n
<1>6. ChunksInOrder'
  <2>1. ASSUME NEW i \in 1..n + 1
        PROVE  /\ parser'.chunks[i] = msg.result.body[i]
               /\ parser'.chunks[i].at + parser'.chunks[i].len <= offset
    <3>1. CASE i = n + 1
      BY <1>c, <1>4, <1>5, <3>1
    <3>2. CASE i # n + 1
      <4>1. i \in 1..n
        BY <1>t, <3>2
      <4>2. /\ parser.chunks[i] = msg.result.body[i]
            /\ parser.chunks[i].at + parser.chunks[i].len <= parser.offset
        BY <1>1, <1>5, <4>1 DEF InChunksAfter, ChunksInOrder
      <4>3. parser.chunks[i] \in [at : Nat, len : Nat]
        BY <1>t, <4>1, ElementOfSeq DEF n
      <4> QED
        <5>1. parser'.chunks[i] = parser.chunks[i]
          BY <1>5, <4>1
        <5>2. parser.chunks[i].at + parser.chunks[i].len <= offset
          <6>1. parser.chunks[i].at + parser.chunks[i].len \in Nat
            BY <4>3
          <6>2. parser.offset \in Nat /\ parser.offset <= offset
            BY <1>t
          <6> QED
            BY <4>2, <6>1, <6>2
        <5> QED
          BY <4>2, <5>1, <5>2
    <3> QED
      BY <3>1, <3>2
  <2>2. n + 1 <= Len(msg.result.body)
    BY <1>t, <1>4
  <2> QED
    BY <1>3, <1>5, <2>1, <2>2 DEF ChunksInOrder
<1>7. EndOfChunks(parser'.chunks, Len(parser'.chunks), NextLineOffset(b)) = NextOffset(l)
  BY <1>t, <1>c, <1>5 DEF EndOfChunks
<1>8. InChunksAfter(b)'
  <2>1. \A k \in msg.lines : ~(NextOffset(l) <= k.at /\ k.at < NextOffset(l))
    BY <1>t, LineFacts
  <2>2. /\ NextOffset(l) <= NextOffset(l)
        /\ parser.headers = msg.result.headers /\ msg.result.has_body
        /\ IsChunkedBody(msg, msg.result.body, NextLineOffset(b))
    BY <1>t, <1>1 DEF InChunksAfter
  <2> QED
    BY <1>3, <1>6, <1>7, <2>1, <2>2 DEF InChunksAfter
<1> QED
  BY <1>1, <1>3, <1>8 DEF Parsed, InHeaders, DoneMeansComplete

\* A chunk of length 0 comes after all the others.
LEMMA LastChunkParsed ==
    ASSUME Inv, TypeOK', NEW f \in msg.lines, NEW b \in msg.lines, Parsed(f, b),
           NEW l \in LinesFound, LastChunk(l)
    PROVE  Parsed(f, b)'
<1>1. /\ IsChunkSize(l) /\ l.num = 0
      /\ parser' = [parser EXCEPT !.pc = "done"] /\ UNCHANGED stream
  BY DEF LastChunk
<1>2. l \in CurrentLines /\ parser.receiving_body_in_chunks /\ InChunksAfter(b)
  BY <1>1 DEF LinesFound, IsChunkSize, Parsed
<1>3. Len(parser.chunks) = Len(msg.result.body)
  BY <1>1, <1>2, SizeOfNextChunk
<1>4. parser.chunks = msg.result.body
  <2>1. /\ parser.chunks \in Seq([at : Nat, len : Nat])
        /\ msg.result.body \in Seq([at : Nat, len : Nat])
    BY ResultType DEF Inv, TypeOK, Parsers
  <2>2. \A i \in 1..Len(parser.chunks) : parser.chunks[i] = msg.result.body[i]
    BY <1>2, <2>1 DEF InChunksAfter, ChunksInOrder
  <2> QED
    BY <1>3, <2>1, <2>2, SeqEqual
<1>5. /\ parser' = [parser EXCEPT !.pc = parser'.pc, !.offset = parser'.offset,
                                  !.size = parser'.size]
      /\ parser'.offset = parser.offset /\ parser'.pc = "done" /\ parser'.chunks = parser.chunks
      /\ parser'.receiving_body_in_chunks = parser.receiving_body_in_chunks
      /\ msg' = msg /\ parser.offset \in Nat
  BY <1>1 DEF Inv, TypeOK, Parsers, stream
<1>6. DoneMeansComplete'
  BY <1>2, <1>4, <1>5 DEF DoneMeansComplete
<1> QED
  BY <1>5, <1>6, HandlesNoLine

\* The loop over the lines ends: with the body received, or to read on.
LEMMA NoMoreLinesParsed ==
    ASSUME Inv, TypeOK', NEW f \in msg.lines, NEW b \in msg.lines, Parsed(f, b), NoMoreLines
    PROVE  Parsed(f, b)'
<1>1. /\ parser' = [parser EXCEPT !.pc = IF MoreToRead THEN "read" ELSE "done"]
      /\ parser.pc = "parse" /\ UNCHANGED stream
  BY DEF NoMoreLines
<1>2. /\ parser' = [parser EXCEPT !.pc = parser'.pc, !.offset = parser'.offset,
                                  !.size = parser'.size]
      /\ parser'.offset = parser.offset /\ parser'.length_cap = parser.length_cap
      /\ parser'.body_offset = parser.body_offset
      /\ parser'.pc = IF MoreToRead THEN "read" ELSE "done"
      /\ msg' = msg /\ parser.offset \in Nat /\ parser.length_cap \in Nat
  BY <1>1 DEF Inv, TypeOK, Parsers, stream
<1>3. DoneMeansComplete'
  <2> SUFFICES ASSUME parser'.pc = "done"
               PROVE  parser.body_offset # NotSet /\ parser.length_cap <= parser.offset
    BY <1>2 DEF DoneMeansComplete, NotSet
  <2>1. parser.length_cap <= parser.offset
    BY <1>2 DEF MoreToRead
  <2>2. parser.offset < NotSet
    <3>1. parser.offset <= sent /\ sent \in 0..msg.total
      BY DEF Inv, OffsetsOrdered, TypeOK
    <3>2. msg.total \in Nat /\ msg.total < SizeMax /\ SizeMax \in Nat
      BY LineFacts DEF Inv
    <3> QED
      BY <1>2, <3>1, <3>2 DEF NotSet
  <2>3. parser.length_cap # NotSet
    BY <1>2, <2>1, <2>2
  <2> QED
    BY <2>1, <2>3 DEF Parsed
<1>4. parser'.pc # "rest"
  BY <1>2
<1> QED
  BY <1>2, <1>3, <1>4, HandlesNoLine

\* Part of a chunk is missing: the line with its size stays the current one.
LEMMA ChunkHasARestParsed ==
    ASSUME Inv, TypeOK', NEW f \in msg.lines, NEW b \in msg.lines, Parsed(f, b),
           NEW l \in LinesFound, ChunkHasARest(l)
    PROVE  Parsed(f, b)'
<1>1. /\ IsChunkSize(l) /\ l.num > 0 /\ l \in CurrentLines /\ TypeOK
      /\ parser' = [parser EXCEPT !.pc = "rest", !.size = SizeForChunk(l)]
      /\ UNCHANGED stream
  BY DEF ChunkHasARest, LinesFound, Inv
<1>2. /\ parser' = [parser EXCEPT !.pc = parser'.pc, !.offset = parser'.offset,
                                  !.size = parser'.size]
      /\ parser'.offset = parser.offset /\ parser'.pc = "rest"
      /\ parser'.current_line_offset = parser.current_line_offset
      /\ parser'.receiving_body_in_chunks = parser.receiving_body_in_chunks
      /\ msg' = msg /\ parser.offset \in Nat
  BY <1>1 DEF TypeOK, Parsers, stream
<1>3. CurrentLines' = CurrentLines
  BY <1>2 DEF CurrentLines
<1>4. \A k \in CurrentLines : k = l
  BY <1>1, CurrentLineUnique
<1>5. \A k \in CurrentLines' : (IsChunkSize(k) /\ k.num > 0)'
  BY <1>1, <1>2, <1>3, <1>4 DEF IsChunkSize
<1>6. DoneMeansComplete'
  BY <1>2 DEF DoneMeansComplete
<1> QED
  BY <1>2, <1>5, <1>6, HandlesNoLine

\* What the peer does leaves the parser alone.
LEMMA UntouchedParsed ==
    ASSUME Inv, TypeOK', ParsedInv, msg' = msg, parser' = parser
    PROVE  ParsedInv'
<1>1. PICK f \in msg.lines, b \in msg.lines : IsMeantBy(msg, f, b) /\ Parsed(f, b)
  BY DEF ParsedInv
<1>2. /\ parser \in Parsers /\ parser.offset \in Nat
      /\ parser = [parser EXCEPT !.pc = parser.pc, !.offset = parser.offset, !.size = parser.size]
  BY DEF Inv, TypeOK, Parsers
<1>3. Parsed(f, b)'
  BY <1>1, <1>2, ReadKeepsParsed
<1> QED
  BY <1>1, <1>3 DEF ParsedInv

\* Every step keeps what has been parsed.
LEMMA ParsedStep == Inv /\ TypeOK' /\ ParsedInv /\ [Next]_vars => ParsedInv'
<1> SUFFICES ASSUME Inv, TypeOK', ParsedInv, [Next]_vars PROVE ParsedInv'
  OBVIOUS
<1>p. PICK f \in msg.lines, b \in msg.lines : IsMeantBy(msg, f, b) /\ Parsed(f, b)
  BY DEF ParsedInv
<1>t. TypeOK /\ parser \in Parsers /\ parser.offset \in Nat
  BY DEF Inv, TypeOK, Parsers
<1>m. msg' = msg
  BY DEF Next, Peer, PeerSends, PeerEnds, Read, ReadSome, ReadNothing, ReadFails, ReadRest,
         ReadRestFallsShort, ReadRestFails, Parse, FirstLine, SkipBlankLine, Header, BodyIsNext,
         ChunksAreNext, LastChunk, ChunkIsThere, ChunkHasARest, NoMoreLines, StrstrPastTheEnd,
         HandlesLine, stream, vars
<1>1. CASE Peer \/ UNCHANGED vars
  BY <1>1, <1>m, UntouchedParsed DEF Peer, PeerSends, PeerEnds, vars
<1> SUFFICES ASSUME Read \/ Parse PROVE Parsed(f, b)'
  BY <1>p, <1>m, <1>1 DEF ParsedInv, Next
<1>2. ASSUME NEW n \in Nat, parser' = AfterRead(n), parser.pc = "read" PROVE Parsed(f, b)'
  <2>1. /\ parser' = [parser EXCEPT !.pc = parser'.pc, !.offset = parser'.offset,
                                    !.size = parser'.size]
        /\ parser'.offset = parser.offset + n
        /\ parser'.pc \in {"read", "closed", "parse"}
    BY <1>2, <1>t DEF AfterRead, Parsers
  <2>2. parser'.offset >= parser.offset /\ parser'.pc \notin {"rest", "done"}
    BY <1>t, <2>1
  <2> QED
    BY <1>p, <1>m, <2>1, <2>2, ReadKeepsParsed
<1>3. ASSUME NEW pc \in {"read", "closed", "readerror", "undefined"},
             parser' = [parser EXCEPT !.pc = pc]
      PROVE  Parsed(f, b)'
  <2>1. /\ parser' = [parser EXCEPT !.pc = parser'.pc, !.offset = parser'.offset,
                                    !.size = parser'.size]
        /\ parser'.offset = parser.offset /\ parser'.pc = pc
    BY <1>3, <1>t DEF Parsers
  <2>2. parser'.offset >= parser.offset /\ parser'.pc \notin {"rest", "done"}
    BY <1>t, <2>1
  <2> QED
    BY <1>p, <1>m, <2>1, <2>2, ReadKeepsParsed
<1>4. ASSUME NEW l \in CurrentLines, ReadRest(l) PROVE Parsed(f, b)'
  <2> DEFINE p == [parser EXCEPT !.offset = NextOffset(l)]
  <2>1. parser.pc = "rest" /\ parser' = WithChunk(l, p) /\ UNCHANGED stream
    BY <1>4 DEF ReadRest
  <2>2. IsChunkSize(l) /\ l.num > 0
    BY <1>p, <2>1 DEF Parsed
  <2>3. NextOffset(l) \in Nat /\ p \in Parsers
    BY <1>t, CurrentLineType DEF Parsers
  <2>4. parser.offset <= NextOffset(l) /\ NextOffset(l) <= NextOffset(l)
    BY <1>t, <2>1, <2>3 DEF Inv, RestFits
  <2> QED
    BY <1>p, <2>1, <2>2, <2>3, <2>4, ChunkTakenParsed
<1>5. ASSUME NEW l \in LinesFound, ChunkIsThere(l) PROVE Parsed(f, b)'
  <2>1. /\ IsChunkSize(l) /\ l.num > 0 /\ NextOffset(l) <= parser.offset
        /\ parser' = WithChunk(l, parser) /\ UNCHANGED stream /\ l \in CurrentLines
    BY <1>5 DEF ChunkIsThere, HasBeenRead, LinesFound
  <2>2. parser = [parser EXCEPT !.offset = parser.offset] /\ parser.offset <= parser.offset
    BY <1>t DEF Parsers
  <2> QED
    BY <1>p, <1>t, <2>1, <2>2, ChunkTakenParsed
<1>6. CASE Read
  BY <1>2, <1>3, <1>4, <1>6
  DEF Read, ReadSome, ReadNothing, ReadFails, ReadRestFallsShort, ReadRestFails
<1>7. CASE Parse
  BY <1>3, <1>5, <1>7, <1>p, FirstLineParsed, BlankLineParsed, HeaderParsed, BodyIsNextParsed,
     ChunksAreNextParsed, LastChunkParsed, ChunkHasARestParsed, NoMoreLinesParsed
  DEF Parse, StrstrPastTheEnd
<1> QED
  BY <1>6, <1>7

-----------------------------------------------------------------------------
(* What a composition needs to know.                                          *)

\* A constructor that has returned or thrown does nothing more.
LEMMA EndIsFinal == Read \/ Parse => parser.pc \in {"read", "parse", "rest"}
  BY DEF Read, ReadSome, ReadNothing, ReadFails, ReadRest, ReadRestFallsShort, ReadRestFails, Parse,
         LinesFound, LooksForLines, NoMoreLines, StrstrPastTheEnd, SearchesPastTheEnd

\* Nothing is parsed before something has been sent.
LEMMA NothingFromNothing ==
    ASSUME TypeOK, Read \/ Parse, parser.pc \in {"parse", "rest", "done"} => sent > 0,
           parser'.pc \in {"parse", "rest", "done"}
    PROVE  sent > 0
<1>t. parser \in Parsers /\ parser.offset \in Nat /\ msg.total \in Nat /\ sent \in 0..msg.total
  BY HTTPAssumption DEF TypeOK, Parsers
<1>1. CASE parser.pc = "read"
  <2>1. ASSUME NEW n \in 1..msg.total, ReadSome(n) PROVE sent > 0
    BY <1>t, <2>1 DEF ReadSome
  <2>2. ~ReadNothing
    <3> SUFFICES ASSUME parser' = AfterRead(0), parser.pc = "read"
                 PROVE  parser'.pc \in {"read", "closed"}
      BY <1>1 DEF ReadNothing
    <3> QED
      BY <1>t DEF AfterRead, Parsers
  <2>3. ~ReadFails
    BY <1>t DEF ReadFails, Parsers
  <2> QED
    BY <1>1, <2>1, <2>2, <2>3
    DEF Read, ReadRest, ReadRestFallsShort, ReadRestFails, Parse, LinesFound, LooksForLines,
        NoMoreLines, StrstrPastTheEnd, SearchesPastTheEnd
<1> QED
  BY <1>1, EndIsFinal

-----------------------------------------------------------------------------
(* What follows from it.                                                      *)

\* The invariant holds throughout.
LEMMA ParsedInvariance == Spec => [](Inv /\ ParsedInv)
<1>1. Inv /\ ParsedInv /\ [Next]_vars => (Inv /\ ParsedInv)'
  <2>1. Inv' => TypeOK'
    BY DEF Inv
  <2> QED
    BY <2>1, InvStep, ParsedStep
<1> QED
  BY <1>1, InvInit, ParsedInit, PTL DEF Spec

\* Chunks reach the body in the order in which they were sent, once each, and only when
\* they have been received.
THEOREM ChunksAreInOrder == Spec => []ChunksInOrder
<1>1. ParsedInv => ChunksInOrder
  BY DEF ParsedInv, Parsed, InChunksAfter, ChunksInOrder
<1> QED
  BY <1>1, ParsedInvariance, PTL

\* A message is accepted when all of it has been parsed.
LEMMA AcceptedMeansSent == Inv /\ ParsedInv => ResultIsWhatWasSent
<1> SUFFICES ASSUME Inv, ParsedInv, parser.pc = "done"
             PROVE  /\ Result = msg.result
                    /\ \A i \in DOMAIN Body : Body[i].at + Body[i].len <= parser.offset
  BY DEF ResultIsWhatWasSent
<1>p. PICK f \in msg.lines, b \in msg.lines : IsMeantBy(msg, f, b) /\ Parsed(f, b)
  BY DEF ParsedInv
<1>1. CASE parser.body_offset # NotSet /\ parser.length_cap <= parser.offset
  <2>1. InBody(f, b)
    BY <1>1, <1>p DEF Parsed
  <2>2. CASE parser.body_length = NotSet
    BY <2>1, <2>2 DEF InBody, Body, HasBody
  <2>3. CASE parser.body_length # NotSet
    <3>1. Body = <<[at |-> parser.body_offset, len |-> parser.body_length]>>
      BY <2>1, <2>3 DEF InBody, Body, HasBody
    <3>2. parser.length_cap = parser.body_offset + parser.body_length
      BY <2>1, <2>3 DEF InBody
    <3> QED
      BY <1>1, <2>1, <3>1, <3>2 DEF InBody
  <2> QED
    BY <2>2, <2>3
<1>2. CASE parser.receiving_body_in_chunks /\ parser.chunks = msg.result.body
  <2>1. InChunksAfter(b) /\ parser.first_line = f.at
    BY <1>2, <1>p DEF Parsed, BeforeFirstLine
  <2>2. Body = parser.chunks /\ HasBody = TRUE
    BY <1>2 DEF Body, HasBody
  <2>3. Result = [first_line |-> msg.result.first_line, headers |-> msg.result.headers,
                  has_body |-> TRUE, body |-> msg.result.body]
    BY <1>2, <1>p, <2>1, <2>2 DEF Result, InChunksAfter, IsMeantBy
  <2>4. msg.result.has_body = TRUE
    BY <2>1, ResultType DEF InChunksAfter, Inv
  <2>5. Result = msg.result
    BY <2>3, <2>4, ResultType DEF Inv
  <2> QED
    BY <1>2, <2>1, <2>2, <2>5 DEF InChunksAfter, ChunksInOrder
<1> QED
  BY <1>1, <1>2, <1>p DEF Parsed, DoneMeansComplete

\* The contract of the constructor: a message it accepts is the one that was sent, whatever
\* its lines and chunks, however they were cut, and however small the buffer was.
THEOREM AcceptedAsSent == Spec => []ResultIsWhatWasSent
  BY AcceptedMeansSent, ParsedInvariance, PTL

-----------------------------------------------------------------------------
(* Whole messages: those of which nothing is missing.  The constructor never   *)
(* waits for more than is to come, except when the last read fills the buffer. *)

\* The parser is where a line begins, whether or not that has been read.
AtALine ==
    parser.body_offset = NotSet /\ parser.pc \in {"read", "parse", "rest"} =>
        LineAt(msg, parser.current_line_offset)

\* The next read is for bytes that are to come.
ReadsForMore == parser.pc = "read" => parser.offset < msg.total \/ FilledByTheEnd

\* The buffer is as large as the initial one, or as a buffer the message filled grows to.
SizeIsBounded ==
    /\ intial_buffer_size <= parser.size
    /\ \/ parser.size <= intial_buffer_size + Grace
       \/ parser.size <= Grow(msg.total + 1) + Grace

ErrorsAreExplained ==
    /\ parser.pc = "closed" =>
         SplitChunk \/ (peer # "open" /\ (sent < msg.total \/ FilledByTheEnd))
    /\ parser.pc = "readerror" =>
         peer = "reset" \/ parser.offset = parser.size \/ parser.size > SizeMax \div 2

\* The constructor returns when it has all it needs, and no earlier.
EndIsReached(f, b) ==
    parser.pc = "done" => \E end \in 0..parser.offset : IsEnd(msg, f, b, end)

Whole(f, b) ==
    /\ AtALine
    /\ ReadsForMore
    /\ SizeIsBounded
    /\ ErrorsAreExplained
    /\ EndIsReached(f, b)

WholeInv ==
    \A f, b \in msg.lines : IsMeantBy(msg, f, b) /\ IsAllThere(msg, f, b) => Whole(f, b)

\* The lines between `f` and `b` are the headers, and `b` comes after them.
LEMMA HeadersEndFacts ==
    ASSUME TypeOK, NEW f \in msg.lines, NEW b \in msg.lines, IsMeantBy(msg, f, b)
    PROVE  /\ ~IsBlank(f) /\ IsBlank(b)
           /\ f.at \in Nat /\ b.at \in Nat /\ f.at < b.at
           /\ \A k \in msg.lines : f.at < k.at /\ k.at < b.at => ~IsBlank(k)
<1>1. IsNextText(msg, f, 0) /\ EndsHeaders(msg, f, b)
  BY DEF IsMeantBy
<1> QED
  BY <1>1, LineFacts DEF IsNextText, EndsHeaders

\* A message has one first line, and one blank line after its headers.
LEMMA MeantOnce ==
    ASSUME TypeOK, ParsedInv, NEW f \in msg.lines, NEW b \in msg.lines, IsMeantBy(msg, f, b)
    PROVE  Parsed(f, b)
<1>1. PICK k \in msg.lines, l \in msg.lines : IsMeantBy(msg, k, l) /\ Parsed(k, l)
  BY DEF ParsedInv
<1>2. k = f
  BY <1>1, NextTextUnique DEF IsMeantBy
<1>3. l = b
  BY <1>1, <1>2, HeadersEndUnique DEF IsMeantBy
<1> QED
  BY <1>1, <1>2, <1>3

\* In the headers, the blank line after them is still to come, or the current one.
LEMMA HeadersNotPassed ==
    ASSUME TypeOK, NEW f \in msg.lines, NEW b \in msg.lines, IsMeantBy(msg, f, b),
           InHeadersOf(f)
    PROVE  parser.current_line_offset <= b.at
<1>1. f.at \in Nat /\ b.at \in Nat /\ f.at < b.at /\ IsBlank(b)
  BY HeadersEndFacts
<1>2. ~(b.at < parser.current_line_offset)
  BY <1>1 DEF InHeadersOf, Within
<1>3. parser.current_line_offset \in Nat
  BY DEF TypeOK, Parsers
<1> QED
  BY <1>1, <1>2, <1>3

\* Chunks are looked for only if they are announced.
LEMMA ChunksAreAnnounced ==
    ASSUME Inv, NEW f \in msg.lines, NEW b \in msg.lines, IsMeantBy(msg, f, b),
           InChunksAfter(b)
    PROVE  HasChunked(Within(msg, f, b.at))
<1> DEFINE at == NextLineOffset(b)
           body == msg.result.body
<1>t. TypeOK /\ at \in Nat
  BY LineFacts DEF Inv
<1>1. IsChunkedBody(msg, body, at) /\ msg.result.has_body
  BY DEF InChunksAfter
<1>2. SUFFICES ASSUME NEW n, body = <<[at |-> at, len |-> n]>> PROVE FALSE
  BY <1>1 DEF IsMeantBy
<1>3. 1 \in DOMAIN body /\ body[1] = [at |-> at, len |-> n]
  BY <1>2
<1>4. PICK l \in msg.lines : IsNextText(msg, l, EndOfChunks(body, 1 - 1, at)) /\ body[1] = ChunkAfter(l)
  BY <1>1, <1>3 DEF IsChunkedBody
<1>5. at <= l.at
  BY <1>4 DEF IsNextText, EndOfChunks
<1>6. NextLineOffset(l) = at
  BY <1>3, <1>4 DEF ChunkAfter
<1>7. l.at \in Nat /\ l.at < NextLineOffset(l)
  BY <1>t, LineFacts
<1> QED
  BY <1>t, <1>5, <1>6, <1>7

\* The chunks taken are the first ones of the body, and end where those do.
LEMMA EndOfChunksTaken ==
    ASSUME Inv, NEW b \in msg.lines, parser.receiving_body_in_chunks, InChunksAfter(b)
    PROVE  LET n == Len(parser.chunks)
               at == NextLineOffset(b)
           IN  /\ n \in 0..Len(msg.result.body)
               /\ EndOfChunks(msg.result.body, n, at) = EndOfChunks(parser.chunks, n, at)
               /\ EndOfChunks(parser.chunks, n, at) \in Nat
<1> DEFINE n == Len(parser.chunks)
           body == msg.result.body
           at == NextLineOffset(b)
<1>t. /\ parser.chunks \in Seq([at : Nat, len : Nat]) /\ body \in Seq([at : Nat, len : Nat])
      /\ n \in Nat /\ Len(body) \in Nat /\ n \in 0..n /\ at \in Nat
  BY ResultType, LineFacts DEF Inv, TypeOK, Parsers
<1>1. n <= Len(body) /\ \A i \in 1..n : parser.chunks[i] = body[i]
  BY <1>t DEF InChunksAfter, ChunksInOrder
<1>2. EndOfChunks(parser.chunks, n, at) \in Nat
  BY <1>t, EndOfChunksType
<1> HIDE DEF n, body, at
<1>3. n # 0 => parser.chunks[n] = body[n]
  BY <1>t, <1>1
<1>4. EndOfChunks(body, n, at) = EndOfChunks(parser.chunks, n, at)
  BY <1>3 DEF EndOfChunks
<1> QED
  BY <1>t, <1>1, <1>2, <1>4 DEF n, body, at

\* A blank line in the headers is the one that ends them.
LEMMA HeadersEndHere ==
    ASSUME Inv, NEW f \in msg.lines, NEW b \in msg.lines, IsMeantBy(msg, f, b), Parsed(f, b),
           NEW l \in LinesFound, IsBlank(l), InHeaders
    PROVE  l = b /\ (HasChunked(Within(msg, f, b.at)) <=> parser.chunked_transfer_encoding)
<1>t. /\ TypeOK /\ l \in msg.lines /\ l.at = parser.current_line_offset /\ l.at \in Nat
      /\ parser.body_offset = NotSet
  BY FoundFacts, LineFacts DEF Inv
<1>1. InHeadersOf(f) /\ l.at <= b.at
  BY <1>t, HeadersNotPassed DEF Parsed
<1>2. f.at < l.at /\ b.at \in Nat /\ \A k \in msg.lines : f.at < k.at /\ k.at < b.at => ~IsBlank(k)
  BY <1>t, <1>1, HeadersEndFacts DEF InHeadersOf
<1>3. ~(l.at < b.at)
  BY <1>t, <1>2
<1>4. l = b
  BY <1>t, <1>1, <1>2, <1>3, LineFacts
<1> QED
  BY <1>t, <1>1, <1>4 DEF InHeadersOf

\* After a line of the headers, and after a blank one between chunks, comes another.
LEMMA NextLineIsThere ==
    ASSUME Inv, NEW f \in msg.lines, NEW b \in msg.lines,
           IsMeantBy(msg, f, b), IsAllThere(msg, f, b), Parsed(f, b), NEW l \in LinesFound,
           FirstLine(l) \/ SkipBlankLine(l) \/ Header(l) \/ ChunksAreNext(l)
    PROVE  LineAt(msg, NextLineOffset(l))
<1>t. /\ TypeOK /\ l \in CurrentLines /\ l \in msg.lines /\ l.at = parser.current_line_offset
      /\ l.at \in Nat /\ parser.body_offset = NotSet
  BY FoundFacts, LineFacts DEF Inv
<1>h. /\ ~IsBlank(f) /\ IsBlank(b)
      /\ f.at \in Nat /\ b.at \in Nat /\ f.at < b.at
      /\ \A k \in msg.lines : f.at < k.at /\ k.at < b.at => ~IsBlank(k)
  BY <1>t, HeadersEndFacts
<1>a. \A k \in msg.lines : k.at < b.at => LineAt(msg, NextLineOffset(k))
  BY DEF IsAllThere
<1>1. CASE parser.first_line = NotSet
  <2>1. ~(f.at < l.at)
    BY <1>t, <1>h, <1>1 DEF Parsed, BeforeFirstLine
  <2> QED
    BY <1>t, <1>h, <1>a, <2>1
<1>2. CASE InHeaders
  <2>1. InHeadersOf(f) /\ l.at <= b.at
    BY <1>t, <1>2, HeadersNotPassed DEF Parsed
  <2>2. CASE ~IsBlank(l)
    <3>1. l.at # b.at
      BY <1>t, <1>h, <2>2, LineFacts
    <3> QED
      BY <1>t, <1>h, <1>a, <2>1, <3>1
  <2>3. CASE IsBlank(l)
    <3>1. parser.chunked_transfer_encoding
      BY <1>2, <2>3 DEF InHeaders, FirstLine, SkipBlankLine, Header, ChunksAreNext
    <3>2. l = b /\ HasChunked(Within(msg, f, b.at))
      BY <1>2, <2>3, <3>1, HeadersEndHere
    <3>3. LinesFollow(msg, msg.result.body, NextLineOffset(b))
      BY <3>2 DEF IsAllThere
    <3>4. 0 \in 0..Len(msg.result.body)
      BY <1>t, ResultType
    <3>5. EndOfChunks(msg.result.body, 0, NextLineOffset(b)) = NextLineOffset(b)
      BY DEF EndOfChunks
    <3> QED
      BY <3>2, <3>3, <3>4, <3>5 DEF LinesFollow
  <2> QED
    BY <2>2, <2>3
<1>3. CASE parser.receiving_body_in_chunks
  <2> DEFINE n == Len(parser.chunks)
             end == EndOfChunks(parser.chunks, n, NextLineOffset(b))
  <2>1. IsBlank(l) \/ parser.first_line = NotSet
    BY <1>3 DEF FirstLine, SkipBlankLine, Header, ChunksAreNext, InHeaders
  <2>2. InChunksAfter(b)
    BY <1>3 DEF Parsed
  <2>3. LinesFollow(msg, msg.result.body, NextLineOffset(b))
    BY <2>2, ChunksAreAnnounced DEF IsAllThere
  <2>4. /\ n \in 0..Len(msg.result.body)
        /\ EndOfChunks(msg.result.body, n, NextLineOffset(b)) = end
        /\ end \in Nat
    BY <1>3, <2>2, EndOfChunksTaken
  <2>5. end <= l.at /\ \A k \in msg.lines : end <= k.at /\ k.at < l.at => IsBlank(k)
    BY <1>t, <2>2 DEF InChunksAfter
  <2> HIDE DEF end, n
  <2>6. SUFFICES ASSUME IsBlank(l) PROVE LineAt(msg, NextLineOffset(l))
    BY <1>1, <2>1
  <2>7. \A k \in msg.lines : end <= k.at /\ k.at <= l.at => IsBlank(k)
    <3> TAKE k \in msg.lines
    <3>1. k.at \in Nat
      BY <1>t, LineFacts
    <3>2. k.at = l.at => k = l
      BY <1>t, LineFacts
    <3> QED
      BY <1>t, <2>5, <2>6, <3>1, <3>2
  <2> QED
    BY <1>t, <2>3, <2>4, <2>5, <2>7 DEF LinesFollow
<1> QED
  BY <1>1, <1>2, <1>3 DEF InHeaders

\* After a chunk comes another line.
LEMMA NextChunkIsThere ==
    ASSUME Inv, NEW f \in msg.lines, NEW b \in msg.lines,
           IsMeantBy(msg, f, b), IsAllThere(msg, f, b), Parsed(f, b),
           NEW l \in CurrentLines, IsChunkSize(l), l.num > 0
    PROVE  LineAt(msg, NextOffset(l)) /\ NextOffset(l) < msg.total
<1> DEFINE n == Len(parser.chunks)
           body == msg.result.body
           at == NextLineOffset(b)
<1>t. /\ TypeOK /\ l \in msg.lines /\ NextOffset(l) \in Nat /\ l.num # 0
      /\ NextLineOffset(l) \in Nat /\ l.num \in Nat
  <2>1. TypeOK
    BY DEF Inv
  <2>2. l \in msg.lines /\ NextOffset(l) \in Nat /\ l \in Lines /\ NextLineOffset(l) \in Nat
    BY <2>1, CurrentLineType
  <2> QED
    BY <2>1, <2>2 DEF Lines
<1>1. parser.receiving_body_in_chunks /\ InChunksAfter(b)
  BY DEF IsChunkSize, Parsed
<1>2. n < Len(body) /\ body[n + 1] = ChunkAfter(l)
  BY <1>t, <1>1, SizeOfNextChunk
<1>3. n \in 0..Len(body) /\ n + 1 \in 0..Len(body) /\ n + 1 # 0
  <2>1. n \in 0..Len(body)
    BY <1>1, EndOfChunksTaken
  <2>2. Len(body) \in Nat
    BY <1>t, ResultType
  <2> QED
    BY <1>2, <2>1, <2>2
<1> HIDE DEF n, body, at
<1>4. EndOfChunks(body, n + 1, at) = NextOffset(l)
  BY <1>t, <1>2, <1>3 DEF EndOfChunks, ChunkAfter, NextOffset
<1>5. LinesFollow(msg, body, at)
  BY <1>1, ChunksAreAnnounced DEF IsAllThere, body, at
<1>6. LineAt(msg, NextOffset(l))
  BY <1>3, <1>4, <1>5 DEF LinesFollow
<1>7. PICK k \in msg.lines : k.at = NextOffset(l)
  BY <1>6 DEF LineAt
<1>8. k.at \in Nat /\ k.at < NextLineOffset(k) /\ NextLineOffset(k) \in Nat
  BY <1>t, LineFacts
<1>9. NextLineOffset(k) <= msg.total /\ msg.total \in Nat
  BY <1>t, HTTPAssumption DEF TypeOK
<1> QED
  BY <1>6, <1>7, <1>8, <1>9

\* What a message without chunks needs is known once its headers have been read.
LEMMA LengthCapIsTheEnd ==
    ASSUME Inv, NEW f \in msg.lines, NEW b \in msg.lines, Parsed(f, b),
           parser.body_offset # NotSet
    PROVE  \A end : IsEnd(msg, f, b, end) <=> end = parser.length_cap
<1>1. InBody(f, b)
  BY DEF Parsed
<1>2. HasBody = msg.result.has_body /\ Body = msg.result.body
  BY <1>1 DEF InBody, Result
<1>3. HasBody <=> parser.body_length # NotSet
  BY <1>1 DEF InBody, HasBody
<1>4. HasBody => msg.result.body[1].len = parser.body_length
  BY <1>1, <1>2 DEF InBody, Body
<1> QED
  BY <1>1, <1>2, <1>3, <1>4 DEF IsEnd, InBody

\* The numbers that SizeIsBounded speaks of.
WholeTyped ==
    /\ parser.offset \in Nat /\ parser.size \in Nat /\ parser.current_line_offset \in Nat
    /\ sent \in Nat /\ sent <= msg.total /\ msg.total \in Nat
    /\ intial_buffer_size \in Nat /\ Grace \in Nat
    /\ Grow(msg.total + 1) \in Nat /\ msg.total + 1 <= Grow(msg.total + 1)
    /\ SizeMax \in Nat /\ MaxGrowth \in Nat

LEMMA WholeTypes == TypeOK => WholeTyped
<1> SUFFICES ASSUME TypeOK PROVE WholeTyped
  OBVIOUS
<1>1. msg.total \in Nat /\ SizeMax \in Nat /\ MaxGrowth \in Nat /\ sent \in 0..msg.total
  BY HTTPAssumption DEF TypeOK
<1>2. \A n \in Nat : Grow(n + 1) \in Nat /\ n + 1 <= Grow(n + 1)
  BY DEF Grow
<1>3. parser.current_line_offset \in Nat
  BY DEF TypeOK, Parsers
<1> QED
  BY <1>1, <1>2, <1>3, SizeTypes DEF SizesTyped, WholeTyped

\* The buffer is left as it is.
LEMMA SizeKept ==
    ASSUME SizeIsBounded, msg' = msg, intial_buffer_size' = intial_buffer_size,
           parser'.size = parser.size, parser'.body_offset = parser.body_offset
    PROVE  SizeIsBounded'
<1>1. Grace' = Grace
  BY DEF Grace, NotSet
<1> QED
  BY <1>1 DEF SizeIsBounded

\* What the peer does leaves the parser alone, and nothing is sent after the end.
LEMMA UntouchedWhole ==
    ASSUME WholeInv, msg' = msg, intial_buffer_size' = intial_buffer_size, parser' = parser,
           peer # "open" => peer' # "open" /\ sent' = sent,
           peer = "reset" => peer' = "reset"
    PROVE  WholeInv'
<1> SUFFICES ASSUME NEW f \in msg.lines, NEW b \in msg.lines, Whole(f, b) PROVE Whole(f, b)'
  BY DEF WholeInv
<1>1. SizeIsBounded'
  BY SizeKept DEF Whole
<1>2. AtALine' /\ ReadsForMore' /\ EndIsReached(f, b)'
  BY DEF Whole, AtALine, ReadsForMore, EndIsReached, FilledByTheEnd, NotSet
<1>3. SplitChunk => SplitChunk'
  BY DEF SplitChunk, CurrentLines, IsChunkSize, HasBeenRead
<1>4. ErrorsAreExplained'
  BY <1>3 DEF Whole, ErrorsAreExplained, FilledByTheEnd
<1> QED
  BY <1>1, <1>2, <1>4 DEF Whole

\* A read of the inner loop asks for more only if there is more, or the buffer is full.
LEMMA AfterReadWhole ==
    ASSUME Inv, Inv', NEW f, NEW b, Whole(f, b), UNCHANGED stream, NEW n \in Nat,
           parser.pc = "read", parser' = AfterRead(n),
           n = Chunk => parser.offset < parser.size,
           n # Chunk /\ n = 0 => AtEOF
    PROVE  Whole(f, b)'
<1>t. WholeTyped /\ TypeOK
  BY WholeTypes DEF Inv
<1>u. msg' = msg /\ intial_buffer_size' = intial_buffer_size /\ sent' = sent /\ peer' = peer
  BY DEF stream
<1>1. /\ parser'.offset = parser.offset + n
      /\ parser'.size = IF n = Chunk THEN Grow(parser.size) ELSE parser.size
      /\ parser'.body_offset = parser.body_offset
      /\ parser'.current_line_offset = parser.current_line_offset
      /\ parser'.pc = IF n = Chunk THEN "read" ELSE IF n = 0 THEN "closed" ELSE "parse"
  BY <1>t DEF AfterRead, TypeOK, Parsers
<1>2. AtALine' /\ EndIsReached(f, b)'
  BY <1>1, <1>u DEF Whole, AtALine, EndIsReached, NotSet
<1>3. CASE n = Chunk
  <2>1. /\ parser'.offset + 1 = parser.size /\ parser'.size = Grow(parser.size)
        /\ parser'.pc = "read"
    BY <1>t, <1>1, <1>3 DEF WholeTyped, Chunk
  <2>2. parser'.offset \in Nat /\ parser'.offset <= msg.total
    BY <1>t, <1>u, <1>1 DEF Inv, OffsetsOrdered, WholeTyped
  <2>3. parser'.size \in Nat /\ parser'.size >= parser.size /\ parser'.size <= Grow(msg.total + 1)
    <3>1. parser.size \in Nat /\ msg.total + 1 \in Nat /\ parser.size <= msg.total + 1
      BY <1>t, <2>1, <2>2 DEF WholeTyped
    <3>2. Grow(parser.size) <= Grow(msg.total + 1)
      BY <3>1, GrowMonotone
    <3>3. Grow(parser.size) \in Nat /\ Grow(parser.size) > parser.size
      BY <3>1, GrowGrows DEF Inv, OffsetsOrdered
    <3> QED
      BY <2>1, <3>1, <3>2, <3>3
  <2>4. SizeIsBounded'
    <3>1. Grace' = Grace
      BY <1>1 DEF Grace, NotSet
    <3> QED
      BY <1>t, <1>u, <2>3, <3>1 DEF Whole, SizeIsBounded, WholeTyped
  <2>5. parser'.offset < msg.total \/ FilledByTheEnd'
    <3>1. CASE parser'.offset = msg.total
      <4>1. intial_buffer_size <= msg.total + 1 /\ parser'.size = Grow(msg.total + 1)
        BY <2>1, <3>1 DEF Whole, SizeIsBounded
      <4> QED
        BY <1>u, <3>1, <4>1 DEF FilledByTheEnd, Grow
    <3> QED
      BY <1>t, <2>2, <3>1 DEF WholeTyped
  <2> QED
    BY <1>u, <1>2, <2>1, <2>4, <2>5 DEF Whole, ReadsForMore, ErrorsAreExplained
<1>4. CASE n # Chunk
  <2>1. SizeIsBounded'
    BY <1>u, <1>1, <1>4, SizeKept DEF Whole
  <2>2. ReadsForMore'
    BY <1>1, <1>4 DEF ReadsForMore
  <2>3. ASSUME n = 0 PROVE peer # "open" /\ (sent < msg.total \/ FilledByTheEnd')
    <3>1. parser.offset = sent /\ peer = "eof"
      BY <1>4, <2>3 DEF AtEOF
    <3>2. FilledByTheEnd => FilledByTheEnd'
      BY <1>t, <1>u, <1>1, <1>4, <2>3 DEF FilledByTheEnd, Grow, WholeTyped
    <3> QED
      BY <3>1, <3>2 DEF Whole, ReadsForMore
  <2>4. ErrorsAreExplained'
    BY <1>u, <1>1, <1>4, <2>3 DEF ErrorsAreExplained
  <2> QED
    BY <1>2, <2>1, <2>2, <2>4 DEF Whole
<1> QED
  BY <1>3, <1>4

\* Every call of read() keeps a whole message's promises.
LEMMA ReadWhole ==
    ASSUME Inv, Inv', NEW f \in msg.lines, NEW b \in msg.lines,
           IsMeantBy(msg, f, b), IsAllThere(msg, f, b), Parsed(f, b), Whole(f, b), Read
    PROVE  Whole(f, b)'
<1>t. WholeTyped /\ TypeOK
  BY WholeTypes DEF Inv
<1>1. ASSUME NEW n \in 1..msg.total, ReadSome(n) PROVE Whole(f, b)'
  <2>1. /\ parser.pc = "read" /\ parser' = AfterRead(n) /\ UNCHANGED stream
        /\ n <= Chunk /\ Chunk <= SizeMax \div 2
    BY <1>1 DEF ReadSome
  <2>2. n \in Nat /\ n # 0
    BY <1>t DEF WholeTyped
  <2>3. parser.offset < parser.size
    <3>1. parser.offset <= parser.size
      BY DEF Inv, OffsetsOrdered
    <3>2. parser.offset = parser.size => Chunk = SizeMax
      BY <1>t DEF Chunk, WholeTyped
    <3> QED
      BY <1>t, <2>1, <2>2, <3>1, <3>2 DEF WholeTyped
  <2> QED
    BY <2>1, <2>2, <2>3, AfterReadWhole
<1>2. CASE ReadNothing
  <2>1. /\ parser.pc = "read" /\ parser' = AfterRead(0) /\ UNCHANGED stream
        /\ Chunk = 0 \/ AtEOF
    BY <1>2 DEF ReadNothing
  <2>2. Chunk = 0 => parser.offset < parser.size
    <3>1. parser.offset <= parser.size /\ parser.size > 1 /\ parser.offset <= sent
      BY DEF Inv, OffsetsOrdered
    <3>2. parser.offset = parser.size => Chunk = SizeMax
      BY <1>t DEF Chunk, WholeTyped
    <3>3. sent < SizeMax
      BY <1>t, LineFacts DEF WholeTyped
    <3> QED
      BY <1>t, <3>1, <3>2, <3>3 DEF WholeTyped
  <2> QED
    BY <2>1, <2>2, AfterReadWhole
\* The steps that end the constructor.
<1>3. ASSUME NEW pc \in {"closed", "readerror"}, parser' = [parser EXCEPT !.pc = pc],
             UNCHANGED stream, ErrorsAreExplained'
      PROVE  Whole(f, b)'
  <2>1. /\ parser'.offset = parser.offset /\ parser'.size = parser.size
        /\ parser'.body_offset = parser.body_offset /\ parser'.pc = pc
        /\ parser'.current_line_offset = parser.current_line_offset
        /\ msg' = msg /\ intial_buffer_size' = intial_buffer_size
    BY <1>t, <1>3 DEF TypeOK, Parsers, stream
  <2>2. SizeIsBounded'
    BY <2>1, SizeKept DEF Whole
  <2>3. AtALine' /\ ReadsForMore' /\ EndIsReached(f, b)'
    BY <2>1 DEF Whole, AtALine, ReadsForMore, EndIsReached, NotSet
  <2> QED
    BY <1>3, <2>2, <2>3 DEF Whole
<1>4. CASE ReadFails
  <2>1. /\ parser' = [parser EXCEPT !.pc = "readerror"] /\ UNCHANGED stream
        /\ peer = "reset" \/ Chunk > SizeMax \div 2
    BY <1>4 DEF ReadFails
  <2>2. /\ parser'.offset = parser.offset /\ parser'.size = parser.size
        /\ parser'.pc = "readerror" /\ peer' = peer
    BY <1>t, <2>1 DEF TypeOK, Parsers, stream
  <2>3. Chunk > SizeMax \div 2 => parser.offset = parser.size \/ parser.size > SizeMax \div 2
    BY <1>t DEF Chunk, Inv, OffsetsOrdered, WholeTyped
  <2>4. ErrorsAreExplained'
    BY <2>1, <2>2, <2>3 DEF ErrorsAreExplained
  <2> QED
    BY <1>3, <2>1, <2>4
<1>5. CASE ReadRestFails
  <2>1. parser' = [parser EXCEPT !.pc = "readerror"] /\ UNCHANGED stream /\ peer = "reset"
    BY <1>5 DEF ReadRestFails
  <2>2. parser'.pc = "readerror" /\ peer' = "reset"
    BY <1>t, <2>1 DEF TypeOK, Parsers, stream
  <2>3. ErrorsAreExplained'
    BY <2>2 DEF ErrorsAreExplained
  <2> QED
    BY <1>3, <2>1, <2>3
<1>6. ASSUME NEW l \in CurrentLines, parser.pc = "rest"
      PROVE  /\ IsChunkSize(l) /\ l.num > 0 /\ l.num \in Nat
             /\ NextOffset(l) \in Nat /\ NextOffset(l) = NextLineOffset(l) + l.num
             /\ NextLineOffset(l) \in Nat /\ NextLineOffset(l) <= parser.offset
             /\ parser.offset < NextOffset(l) /\ NextOffset(l) < msg.total
             /\ LineAt(msg, NextOffset(l))
  <2>1. IsChunkSize(l) /\ l.num > 0 /\ parser.offset < NextOffset(l)
    BY <1>6 DEF Parsed, Inv, RestFits
  <2>2. LineAt(msg, NextOffset(l)) /\ NextOffset(l) < msg.total
    BY <2>1, NextChunkIsThere
  <2>3. /\ NextOffset(l) \in Nat /\ NextLineOffset(l) \in Nat /\ l \in Lines
        /\ NextLineOffset(l) <= parser.offset
    BY <1>t, CurrentLineType
  <2> QED
    BY <2>1, <2>2, <2>3 DEF Lines, NextOffset
<1>7. ASSUME NEW l \in CurrentLines, ReadRest(l) PROVE Whole(f, b)'
  <2> DEFINE p == [parser EXCEPT !.offset = NextOffset(l)]
  <2>1. parser.pc = "rest" /\ parser' = WithChunk(l, p) /\ UNCHANGED stream
    BY <1>7 DEF ReadRest
  <2>2. /\ parser'.size = parser.size /\ parser'.body_offset = parser.body_offset
        /\ parser'.current_line_offset = NextOffset(l) /\ parser'.pc = "parse"
        /\ msg' = msg /\ intial_buffer_size' = intial_buffer_size
    BY <1>t, <2>1 DEF WithChunk, TypeOK, Parsers, stream
  <2>3. SizeIsBounded'
    BY <2>2, SizeKept DEF Whole
  <2>4. AtALine'
    BY <1>6, <2>1, <2>2 DEF AtALine, LineAt
  <2>5. ReadsForMore' /\ EndIsReached(f, b)' /\ ErrorsAreExplained'
    BY <2>2 DEF Whole, ReadsForMore, EndIsReached, ErrorsAreExplained, NotSet
  <2> QED
    BY <2>3, <2>4, <2>5 DEF Whole
<1>8. ASSUME NEW l \in CurrentLines, ReadRestFallsShort(l) PROVE Whole(f, b)'
  <2>1. /\ parser.pc = "rest" /\ parser' = [parser EXCEPT !.pc = "closed"] /\ UNCHANGED stream
        /\ \/ \E n \in 1..NextOffset(l) - parser.offset - 1 : n <= sent - parser.offset
           \/ AtEOF
    BY <1>8 DEF ReadRestFallsShort
  <2>2. /\ parser'.offset = parser.offset /\ parser'.pc = "closed" /\ peer' = peer
        /\ parser'.current_line_offset = parser.current_line_offset
        /\ parser'.receiving_body_in_chunks = parser.receiving_body_in_chunks
        /\ msg' = msg /\ sent' = sent
    BY <1>t, <2>1 DEF TypeOK, Parsers, stream
  <2>3. CASE AtEOF
    <3>1. peer # "open" /\ sent < msg.total
      BY <1>t, <1>6, <2>1, <2>3 DEF AtEOF, WholeTyped
    <3>2. ErrorsAreExplained'
      BY <2>2, <3>1 DEF ErrorsAreExplained
    <3> QED
      BY <1>3, <2>1, <3>2
  <2>4. CASE \E n \in 1..NextOffset(l) - parser.offset - 1 : n <= sent - parser.offset
    <3>1. NextOffset(l) - parser.offset - 1 >= 1
      BY <1>t, <1>6, <2>1, <2>4 DEF WholeTyped
    <3>2. l.num > 1 /\ IsChunkSize(l) /\ ~(NextOffset(l) <= parser.offset)
      BY <1>t, <1>6, <2>1, <3>1 DEF WholeTyped
    <3>3. l \in CurrentLines' /\ IsChunkSize(l)' /\ ~HasBeenRead(l)'
      BY <2>2, <3>2 DEF CurrentLines, IsChunkSize, HasBeenRead
    <3>4. ErrorsAreExplained'
      BY <2>2, <3>2, <3>3 DEF ErrorsAreExplained, SplitChunk
    <3> QED
      BY <1>3, <2>1, <3>4
  <2> QED
    BY <2>1, <2>3, <2>4
<1> QED
  BY <1>1, <1>2, <1>4, <1>5, <1>7, <1>8 DEF Read

\* The loop over the lines ends when all that is needed is there, or with more to come.
LEMMA NoMoreLinesWhole ==
    ASSUME Inv, NEW f \in msg.lines, NEW b \in msg.lines,
           IsMeantBy(msg, f, b), IsAllThere(msg, f, b), Parsed(f, b), Whole(f, b), NoMoreLines
    PROVE  IF MoreToRead THEN parser.offset < msg.total
           ELSE \E end \in 0..parser.offset : IsEnd(msg, f, b, end)
<1>t. WholeTyped /\ TypeOK /\ parser.length_cap \in Nat /\ parser.body_offset \in Nat
  BY WholeTypes DEF Inv, TypeOK, Parsers
<1>1. parser.pc = "parse" /\ LinesFound = {} /\ ~SearchesPastTheEnd
  BY DEF NoMoreLines
<1>2. CASE parser.body_offset # NotSet
  <2>1. \A end : IsEnd(msg, f, b, end) <=> end = parser.length_cap
    BY <1>2, LengthCapIsTheEnd DEF Whole
  <2>2. PICK end \in 0..msg.total : IsEnd(msg, f, b, end)
    BY DEF IsAllThere
  <2>3. parser.length_cap <= msg.total
    BY <1>t, <2>1, <2>2 DEF WholeTyped
  <2> QED
    BY <1>t, <2>1, <2>3 DEF WholeTyped, MoreToRead
<1>3. CASE parser.body_offset = NotSet
  <2>1. PICK l \in msg.lines : l.at = parser.current_line_offset
    BY <1>1, <1>3 DEF Whole, AtALine, LineAt
  <2>2. NextLineOffset(l) \in Nat /\ NextLineOffset(l) <= msg.total
    BY <1>t, LineFacts, HTTPAssumption DEF TypeOK
  <2>3. ~(NextLineOffset(l) <= parser.offset)
    BY <1>1, <1>3, <2>1 DEF LinesFound, LooksForLines, CurrentLines
  <2>4. parser.offset < msg.total
    BY <1>t, <2>2, <2>3 DEF WholeTyped
  <2>5. MoreToRead
    <3>1. parser.length_cap = SizeMax /\ msg.total < SizeMax
      BY <1>t, <1>3, LineFacts DEF Parsed, NotSet
    <3> QED
      BY <1>t, <2>4, <3>1 DEF MoreToRead, WholeTyped
  <2> QED
    BY <2>4, <2>5
<1> QED
  BY <1>2, <1>3

\* The line of the last chunk's size is the last that is needed.
LEMMA LastChunkWhole ==
    ASSUME Inv, NEW f \in msg.lines, NEW b \in msg.lines, IsMeantBy(msg, f, b), Parsed(f, b),
           NEW l \in LinesFound, LastChunk(l)
    PROVE  \E end \in 0..parser.offset : IsEnd(msg, f, b, end)
<1> DEFINE at == NextLineOffset(b)
           end == EndOfChunks(parser.chunks, Len(parser.chunks), at)
<1>t. TypeOK /\ parser.offset \in Nat
  BY DEF Inv, TypeOK, Parsers
<1>1. /\ l \in CurrentLines /\ l \in msg.lines /\ l.at = parser.current_line_offset
      /\ NextLineOffset(l) \in Nat /\ NextLineOffset(l) <= parser.offset
  BY <1>t, FoundFacts, LineFacts
<1>2. IsChunkSize(l) /\ l.num = 0 /\ parser.receiving_body_in_chunks /\ InChunksAfter(b)
  BY DEF LastChunk, IsChunkSize, Parsed
<1>3. Len(parser.chunks) = Len(msg.result.body)
  BY <1>1, <1>2, SizeOfNextChunk
<1>4. EndOfChunks(msg.result.body, Len(msg.result.body), at) = end
  BY <1>2, <1>3, EndOfChunksTaken
<1>5. IsNextText(msg, l, end)
  BY <1>1, <1>2 DEF IsNextText, InChunksAfter, IsChunkSize
<1> HIDE DEF end
<1>6. IsEnd(msg, f, b, NextLineOffset(l))
  BY <1>1, <1>2, <1>4, <1>5, ChunksAreAnnounced DEF IsEnd
<1> QED
  BY <1>t, <1>1, <1>6

\* Every step of the loop over the lines keeps a whole message's promises.
LEMMA ParseWhole ==
    ASSUME Inv, TypeOK', NEW f \in msg.lines, NEW b \in msg.lines,
           IsMeantBy(msg, f, b), IsAllThere(msg, f, b), Parsed(f, b), Whole(f, b), Parse
    PROVE  Whole(f, b)'
<1>t. WholeTyped /\ TypeOK
  BY WholeTypes DEF Inv
<1>f. \A l \in LinesFound :
        /\ l \in CurrentLines /\ l \in msg.lines /\ l.at = parser.current_line_offset
        /\ parser.body_offset = NotSet /\ parser.pc = "parse"
        /\ NextLineOffset(l) \in Nat /\ NextLineOffset(l) # NotSet /\ l.num \in Nat
  <2> TAKE l \in LinesFound
  <2>1. /\ l \in CurrentLines /\ l \in msg.lines /\ l.at = parser.current_line_offset
        /\ parser.body_offset = NotSet /\ parser.pc = "parse"
    BY FoundFacts
  <2>2. NextLineOffset(l) \in Nat /\ NextLineOffset(l) + l.num < SizeMax /\ l.num \in Nat
    BY <1>t, <2>1, LineFacts
  <2> QED
    BY <1>t, <2>1, <2>2 DEF NotSet, WholeTyped
\* The constructor goes on at a line, in the same buffer.
<1>1. ASSUME UNCHANGED stream, parser'.size = parser.size,
             parser'.body_offset = parser.body_offset, parser'.pc = "parse",
             LineAt(msg, parser'.current_line_offset)
      PROVE  Whole(f, b)'
  <2>1. msg' = msg /\ intial_buffer_size' = intial_buffer_size
    BY <1>1 DEF stream
  <2>2. SizeIsBounded'
    BY <1>1, <2>1, SizeKept DEF Whole
  <2>3. AtALine' /\ ReadsForMore' /\ EndIsReached(f, b)' /\ ErrorsAreExplained'
    BY <1>1, <2>1
    DEF Whole, AtALine, LineAt, ReadsForMore, EndIsReached, ErrorsAreExplained, NotSet
  <2> QED
    BY <2>2, <2>3 DEF Whole
<1>2. ASSUME NEW l \in LinesFound, FirstLine(l) \/ SkipBlankLine(l) \/ Header(l) \/ ChunksAreNext(l)
      PROVE  Whole(f, b)'
  <2>1. LineAt(msg, NextLineOffset(l))
    BY <1>2, NextLineIsThere
  <2>2. /\ parser'.current_line_offset = NextLineOffset(l) /\ parser'.size = parser.size
        /\ parser'.body_offset = parser.body_offset /\ parser'.pc = "parse"
        /\ UNCHANGED stream
    <3>1. parser \in Parsers /\ parser.pc = "parse"
      BY <1>t, <1>f DEF TypeOK
    <3>2. CASE FirstLine(l)
      BY <3>1, <3>2 DEF FirstLine, HandlesLine, Parsers
    <3>3. CASE SkipBlankLine(l)
      BY <3>1, <3>3 DEF SkipBlankLine, HandlesLine, Parsers
    <3>4. CASE Header(l)
      BY <3>1, <3>4 DEF Header, HandlesLine, Parsers
    <3>5. CASE ChunksAreNext(l)
      BY <3>1, <3>5 DEF ChunksAreNext, HandlesLine, Parsers
    <3> QED
      BY <1>2, <3>2, <3>3, <3>4, <3>5
  <2> QED
    BY <1>1, <2>1, <2>2
<1>3. ASSUME NEW l \in LinesFound, BodyIsNext(l) PROVE Whole(f, b)'
  <2> DEFINE at == NextLineOffset(l)
             cap == at + (IF parser.body_length = NotSet THEN 0 ELSE parser.body_length)
             size == IF parser.body_length = NotSet THEN parser.size ELSE SizeForBody(cap)
  <2>1. /\ IsBlank(l) /\ InHeaders /\ ~parser.chunked_transfer_encoding /\ UNCHANGED stream
        /\ parser' = [[parser EXCEPT !.body_offset = at, !.length_cap = cap, !.size = size]
                        EXCEPT !.current_line_offset = at]
    BY <1>3 DEF BodyIsNext, HandlesLine
  <2>2. size \in Nat /\ size >= parser.size /\ size <= parser.size + MaxGrowth
    <3>1. cap \in Nat
      <4>1. parser.body_length \in Nat
        BY <1>t DEF TypeOK, Parsers
      <4> QED
        BY <1>f, <4>1
    <3> HIDE DEF cap
    <3> QED
      BY <1>t, <3>1 DEF SizeForBody, WholeTyped
  <2> HIDE DEF at, cap, size
  <2>3. /\ parser'.size = size /\ parser'.body_offset = at /\ parser'.pc = "parse"
        /\ msg' = msg /\ intial_buffer_size' = intial_buffer_size
    BY <1>t, <1>f, <2>1 DEF TypeOK, Parsers, stream
  <2>4. Grace = 0 /\ Grace' = MaxGrowth /\ parser'.body_offset # NotSet
    BY <1>f, <2>3 DEF Grace, NotSet, at
  <2>5. SizeIsBounded'
    <3>1. /\ parser.size \in Nat /\ intial_buffer_size \in Nat /\ Grow(msg.total + 1) \in Nat
          /\ MaxGrowth \in Nat
      BY <1>t DEF WholeTyped
    <3>2. Grow(msg'.total + 1) = Grow(msg.total + 1)
      BY <2>3
    <3> QED
      BY <2>2, <2>3, <2>4, <3>1, <3>2 DEF Whole, SizeIsBounded, Grow
  <2>6. AtALine' /\ ReadsForMore' /\ EndIsReached(f, b)' /\ ErrorsAreExplained'
    BY <2>3, <2>4 DEF AtALine, ReadsForMore, EndIsReached, ErrorsAreExplained, NotSet
  <2> QED
    BY <2>5, <2>6 DEF Whole
<1>4. ASSUME NEW l \in LinesFound, ChunkIsThere(l) PROVE Whole(f, b)'
  <2>1. IsChunkSize(l) /\ l.num > 0 /\ parser' = WithChunk(l, parser) /\ UNCHANGED stream
    BY <1>4 DEF ChunkIsThere
  <2>2. LineAt(msg, NextOffset(l))
    BY <1>f, <2>1, NextChunkIsThere
  <2>3. /\ parser'.size = parser.size /\ parser'.body_offset = parser.body_offset
        /\ parser'.current_line_offset = NextOffset(l) /\ parser'.pc = "parse"
    BY <1>t, <2>1 DEF WithChunk, TypeOK, Parsers
  <2> QED
    BY <1>1, <2>1, <2>2, <2>3
<1>5. ASSUME NEW l \in LinesFound, ChunkHasARest(l) PROVE Whole(f, b)'
  <2>1. /\ IsChunkSize(l) /\ l.num > 0 /\ UNCHANGED stream
        /\ parser' = [parser EXCEPT !.pc = "rest", !.size = SizeForChunk(l)]
    BY <1>5 DEF ChunkHasARest
  <2>2. NextOffset(l) < msg.total /\ NextOffset(l) \in Nat
    BY <1>t, <1>f, <2>1, NextChunkIsThere, CurrentLineType
  <2>3. /\ parser'.size = SizeForChunk(l) /\ parser'.body_offset = parser.body_offset
        /\ parser'.current_line_offset = parser.current_line_offset /\ parser'.pc = "rest"
        /\ msg' = msg /\ intial_buffer_size' = intial_buffer_size
    BY <1>t, <2>1 DEF TypeOK, Parsers, stream
  <2>4. SizeIsBounded'
    <3>1. Grace' = Grace /\ Grow(msg'.total + 1) = Grow(msg.total + 1)
      BY <2>3 DEF Grace, NotSet
    <3>2. /\ SizeForChunk(l) \in Nat /\ SizeForChunk(l) >= parser.size
          /\ SizeForChunk(l) = parser.size \/ SizeForChunk(l) <= Grow(msg.total + 1)
      BY <1>t, <2>2 DEF SizeForChunk, WholeTyped
    <3>3. /\ parser.size \in Nat /\ intial_buffer_size \in Nat /\ Grow(msg.total + 1) \in Nat
          /\ Grace \in Nat
      BY <1>t DEF WholeTyped
    <3> QED
      BY <2>3, <3>1, <3>2, <3>3 DEF Whole, SizeIsBounded, Grow
  <2>5. AtALine'
    BY <1>f, <2>3 DEF Whole, AtALine, LineAt, NotSet
  <2>6. ReadsForMore' /\ EndIsReached(f, b)' /\ ErrorsAreExplained'
    BY <2>3 DEF Whole, ReadsForMore, EndIsReached, ErrorsAreExplained, NotSet
  <2> QED
    BY <2>4, <2>5, <2>6 DEF Whole
\* The steps that change `pc` alone.
<1>6. ASSUME NEW pc \in {"read", "done", "undefined"}, parser' = [parser EXCEPT !.pc = pc],
             UNCHANGED stream, parser.pc = "parse",
             pc = "read" => parser.offset < msg.total,
             pc = "done" => \E end \in 0..parser.offset : IsEnd(msg, f, b, end)
      PROVE  Whole(f, b)'
  <2>1. /\ parser'.offset = parser.offset /\ parser'.size = parser.size
        /\ parser'.body_offset = parser.body_offset /\ parser'.pc = pc
        /\ parser'.current_line_offset = parser.current_line_offset
        /\ msg' = msg /\ intial_buffer_size' = intial_buffer_size
    BY <1>t, <1>6 DEF TypeOK, Parsers, stream
  <2>2. SizeIsBounded'
    BY <2>1, SizeKept DEF Whole
  <2>3. AtALine' /\ ErrorsAreExplained'
    BY <1>6, <2>1 DEF Whole, AtALine, LineAt, ErrorsAreExplained, NotSet
  <2>4. ReadsForMore' /\ EndIsReached(f, b)'
    BY <1>6, <2>1 DEF ReadsForMore, EndIsReached
  <2> QED
    BY <2>2, <2>3, <2>4 DEF Whole
<1>7. ASSUME NEW l \in LinesFound, LastChunk(l) PROVE Whole(f, b)'
  <2>1. \E end \in 0..parser.offset : IsEnd(msg, f, b, end)
    BY <1>7, LastChunkWhole
  <2>2. parser' = [parser EXCEPT !.pc = "done"] /\ UNCHANGED stream /\ parser.pc = "parse"
    BY <1>7, <1>f DEF LastChunk
  <2> QED
    BY <1>6, <2>1, <2>2
<1>8. CASE NoMoreLines
  <2>1. /\ parser.pc = "parse" /\ UNCHANGED stream
        /\ parser' = [parser EXCEPT !.pc = IF MoreToRead THEN "read" ELSE "done"]
    BY <1>8 DEF NoMoreLines
  <2>2. IF MoreToRead THEN parser.offset < msg.total
        ELSE \E end \in 0..parser.offset : IsEnd(msg, f, b, end)
    BY <1>8, NoMoreLinesWhole
  <2>3. CASE MoreToRead
    BY <1>6, <2>1, <2>2, <2>3
  <2>4. CASE ~MoreToRead
    BY <1>6, <2>1, <2>2, <2>4
  <2> QED
    BY <2>3, <2>4
<1>9. CASE StrstrPastTheEnd
  <2>1. /\ parser.pc = "parse" /\ parser.current_line_offset >= parser.size /\ UNCHANGED stream
        /\ \E outcome \in {"read", "undefined"} : parser' = [parser EXCEPT !.pc = outcome]
        /\ parser.body_offset = NotSet \/ parser.offset < parser.body_offset
    BY <1>9 DEF StrstrPastTheEnd, SearchesPastTheEnd, LooksForLines
  <2>2. parser.body_offset = NotSet
    <3>1. parser.body_offset # NotSet => parser.body_offset <= parser.offset
      BY DEF Parsed, InBody
    <3>2. parser.body_offset \in Nat /\ parser.offset \in Nat
      BY <1>t DEF TypeOK, Parsers
    <3> QED
      BY <2>1, <3>1, <3>2
  <2>3. PICK l \in msg.lines : l.at = parser.current_line_offset
    BY <2>1, <2>2 DEF Whole, AtALine, LineAt
  <2>4. l.at < NextLineOffset(l) /\ NextLineOffset(l) \in Nat /\ NextLineOffset(l) <= msg.total
    BY <1>t, LineFacts, HTTPAssumption DEF TypeOK
  <2>5. parser.offset < msg.total
    BY <1>t, <2>1, <2>3, <2>4 DEF Inv, OffsetsOrdered, WholeTyped
  <2> QED
    BY <1>6, <2>1, <2>5
<1> QED
  BY <1>2, <1>3, <1>4, <1>5, <1>7, <1>8, <1>9 DEF Parse

\* Every step keeps the promises made of whole messages.
LEMMA WholeStep == Inv /\ Inv' /\ ParsedInv /\ WholeInv /\ [Next]_vars => WholeInv'
<1> SUFFICES ASSUME Inv, Inv', ParsedInv, WholeInv, [Next]_vars PROVE WholeInv'
  OBVIOUS
<1>t. TypeOK /\ TypeOK'
  BY DEF Inv
<1>1. CASE Peer \/ UNCHANGED vars
  <2>1. /\ msg' = msg /\ intial_buffer_size' = intial_buffer_size /\ parser' = parser
        /\ peer # "open" => peer' = peer /\ sent' = sent
    BY <1>1 DEF Peer, PeerSends, PeerEnds, vars, stream
  <2> QED
    BY <2>1, UntouchedWhole
<1>2. CASE Read \/ Parse
  <2>1. msg' = msg
    BY <1>2
    DEF Read, ReadSome, ReadNothing, ReadFails, ReadRest, ReadRestFallsShort, ReadRestFails, Parse,
        FirstLine, SkipBlankLine, Header, BodyIsNext, ChunksAreNext, LastChunk, ChunkIsThere,
        ChunkHasARest, NoMoreLines, StrstrPastTheEnd, HandlesLine, stream
  <2>2. SUFFICES ASSUME NEW f \in msg.lines, NEW b \in msg.lines,
                        IsMeantBy(msg, f, b), IsAllThere(msg, f, b)
                 PROVE  Whole(f, b)'
    BY <2>1 DEF WholeInv
  <2>3. Parsed(f, b) /\ Whole(f, b)
    BY <1>t, <2>2, MeantOnce DEF WholeInv
  <2> QED
    BY <1>2, <1>t, <2>2, <2>3, ReadWhole, ParseWhole
<1> QED
  BY <1>1, <1>2 DEF Next

\* Of a message of which nothing has been read there is nothing to say.
LEMMA WholeInit == Init => WholeInv
<1> SUFFICES ASSUME Init, NEW f \in msg.lines, NEW b \in msg.lines, IsAllThere(msg, f, b)
             PROVE  Whole(f, b)
  BY DEF WholeInv
<1>1. /\ parser.pc = "read" /\ parser.current_line_offset = 0 /\ parser.offset = 0
      /\ parser.body_offset = NotSet /\ parser.size = intial_buffer_size
  BY DEF Init, Start
<1>2. TypeOK /\ WholeTyped
  BY TypeInit, WholeTypes
<1>3. AtALine
  BY <1>1 DEF AtALine, IsAllThere
<1>4. parser.offset < msg.total
  <2>1. f.at \in Nat /\ f.at < NextLineOffset(f) /\ NextLineOffset(f) \in Nat
    BY <1>2, LineFacts
  <2>2. NextLineOffset(f) <= msg.total
    BY <1>2, HTTPAssumption DEF TypeOK
  <2> QED
    BY <1>1, <1>2, <2>1, <2>2 DEF WholeTyped
<1>5. SizeIsBounded
  BY <1>1, <1>2 DEF SizeIsBounded, WholeTyped, Grace
<1> QED
  BY <1>1, <1>3, <1>4, <1>5
  DEF Whole, ReadsForMore, ErrorsAreExplained, EndIsReached

\* The invariant holds throughout.
LEMMA WholeInvariance == Spec => [](Inv /\ ParsedInv /\ WholeInv)
<1>1. Inv /\ ParsedInv /\ WholeInv /\ [Next]_vars => (Inv /\ ParsedInv /\ WholeInv)'
  <2>1. Inv' => TypeOK'
    BY DEF Inv
  <2> QED
    BY <2>1, InvStep, ParsedStep, WholeStep
<1> QED
  BY <1>1, InvInit, ParsedInit, WholeInit, PTL DEF Spec

\* In any segmentation and with any buffer, HTTPConnectionClosedByPeerException is thrown only
\* when the peer has not sent all of the message, when the rest of a chunk comes in pieces, or
\* when a message of which nothing is missing fills the buffer and the peer closes behind it.
THEOREM ClosedIsJustified == Spec => []ClosedIsExplained
<1>1. Inv /\ WholeInv => ClosedIsExplained
  <2> SUFFICES ASSUME Inv, WholeInv, parser.pc = "closed"
               PROVE  \/ SplitChunk
                      \/ peer # "open" /\ (IsWhole(msg) => sent < msg.total \/ FilledByTheEnd)
    BY DEF ClosedIsExplained
  <2>1. CASE IsWhole(msg)
    BY <2>1 DEF IsWhole, WholeInv, Whole, ErrorsAreExplained
  <2>2. CASE ~IsWhole(msg)
    BY <2>2 DEF Inv, ClosedMeansEndedOrSplit
  <2> QED
    BY <2>1, <2>2
<1> QED
  BY <1>1, WholeInvariance, PTL

\* What the constructor waits for is still to come, or it has read a message that filled the buffer.
WaitsForWhatIsToCome == Waits /\ IsWhole(msg) => sent < msg.total \/ FilledByTheEnd

\* Whatever the buffer and however the message is cut into reads: the constructor does not block
\* in read() once all of a whole message has been sent, unless its last byte filled the buffer.
THEOREM NeverWaitsForNothing == Spec => []WaitsForWhatIsToCome
<1>1. Inv /\ ParsedInv /\ WholeInv => WaitsForWhatIsToCome
  <2> SUFFICES ASSUME Inv, ParsedInv, WholeInv, Waits, IsWhole(msg)
               PROVE  sent < msg.total \/ FilledByTheEnd
    BY DEF WaitsForWhatIsToCome
  <2>1. PICK f \in msg.lines, b \in msg.lines : IsMeantBy(msg, f, b) /\ IsAllThere(msg, f, b)
    BY DEF IsWhole
  <2>2. parser.offset = sent
    BY DEF Waits
  <2>3. CASE parser.pc = "read"
    BY <2>1, <2>2, <2>3 DEF WholeInv, Whole, ReadsForMore
  <2>4. CASE parser.pc = "rest"
    <3>t. TypeOK /\ Parsed(f, b)
      BY <2>1, MeantOnce DEF Inv
    <3>1. PICK l \in CurrentLines : parser.offset < NextOffset(l)
      BY <2>4 DEF Inv, RestFits
    <3>2. IsChunkSize(l) /\ l.num > 0
      BY <2>4, <3>t, <3>1 DEF Parsed
    <3>3. NextOffset(l) < msg.total
      BY <2>1, <3>t, <3>2, NextChunkIsThere
    <3>4. NextOffset(l) \in Nat /\ msg.total \in Nat /\ sent \in Nat
      BY <3>t, CurrentLineType, WholeTypes DEF WholeTyped
    <3> QED
      BY <2>2, <3>1, <3>3, <3>4
  <2> QED
    BY <2>3, <2>4 DEF Waits
<1> QED
  BY <1>1, WholeInvariance, PTL

-----------------------------------------------------------------------------
(* The constructor implements HTTPHelper: each of its steps is one of those,  *)
(* or none.                                                                   *)

\* A header is the first one that OnHeader has not been called with.
LEMMA HeaderIsNext ==
    ASSUME Inv, NEW f \in msg.lines, NEW b \in msg.lines, IsMeantBy(msg, f, b), Parsed(f, b),
           NEW l \in LinesFound, Header(l)
    PROVE  Helper!OnHeader(l)
<1>t. /\ TypeOK /\ l \in msg.lines /\ l.at = parser.current_line_offset /\ l.at \in Nat
      /\ parser.pc = "parse" /\ parser.body_offset = NotSet /\ NextLineOffset(l) <= parser.offset
  BY FoundFacts, LineFacts DEF Inv
<1>1. /\ ~IsBlank(l) /\ InHeaders /\ UNCHANGED stream
      /\ parser'.headers = parser.headers \union {l.at}
      /\ parser'.pc = parser.pc /\ parser'.offset = parser.offset
      /\ parser'.chunks = parser.chunks
  BY <1>t DEF Header, HandlesLine, TypeOK, Parsers
<1>2. InHeadersOf(f) /\ l.at <= b.at
  BY <1>t, <1>1, HeadersNotPassed DEF Parsed
<1>3. f.at < l.at /\ f.at \in Nat /\ b.at \in Nat /\ IsBlank(b)
  BY <1>t, <1>2, HeadersEndFacts DEF InHeadersOf
<1>4. l.at < b.at
  <2>1. l.at # b.at
    BY <1>t, <1>1, <1>3, LineFacts
  <2> QED
    BY <1>t, <1>2, <1>3, <2>1
<1>5. l.at \in msg.result.headers \ parser.headers
  <2>1. l.at \in Offsets(Within(msg, f, b.at))
    BY <1>t, <1>3, <1>4 DEF Offsets, Within
  <2>2. l.at \notin Offsets(Within(msg, f, parser.current_line_offset))
    BY <1>t DEF Offsets, Within
  <2> QED
    BY <1>2, <2>1, <2>2 DEF IsMeantBy, InHeadersOf
<1>6. ASSUME NEW h \in msg.result.headers \ parser.headers PROVE l.at <= h
  <2>1. PICK k \in Within(msg, f, b.at) : h = k.at
    BY DEF IsMeantBy, Offsets
  <2>2. k \notin Within(msg, f, parser.current_line_offset)
    BY <1>2, <2>1 DEF InHeadersOf, Offsets
  <2>3. ~(k.at < parser.current_line_offset) /\ k.at \in Nat
    BY <1>t, <2>1, <2>2, LineFacts DEF Within
  <2> QED
    BY <1>t, <2>1, <2>3
<1>7. l.crlf < parser.offset
  <2>1. l.crlf \in Nat /\ parser.offset \in Nat
    BY <1>t, HTTPAssumption DEF TypeOK, Parsers, Lines
  <2> QED
    BY <1>t, <2>1 DEF NextLineOffset, kCRLFLength
<1> QED
  BY <1>t, <1>1, <1>2, <1>5, <1>6, <1>7 DEF Helper!OnHeader, State, InHeadersOf, stream

\* A chunk is the first one that OnChunk has not been called with.
LEMMA ChunkIsNext ==
    ASSUME Inv, TypeOK', NEW f \in msg.lines, NEW b \in msg.lines,
           IsMeantBy(msg, f, b), Parsed(f, b),
           NEW l \in CurrentLines, IsChunkSize(l), l.num > 0, parser.pc \in {"parse", "rest"},
           NEW p \in Parsers, parser' = WithChunk(l, p),
           p.headers = parser.headers, p.chunks = parser.chunks,
           NextOffset(l) <= p.offset, parser.offset <= p.offset, p.offset <= sent,
           UNCHANGED stream
    PROVE  Helper!OnChunk
<1> DEFINE body == msg.result.body
           n == Len(parser.chunks)
<1>t. TypeOK /\ msg.total \in Nat /\ sent \in 0..msg.total /\ parser.offset \in Nat
  BY HTTPAssumption DEF Inv, TypeOK, Parsers
<1>1. InChunksAfter(b) /\ parser.receiving_body_in_chunks
  BY DEF Parsed, IsChunkSize
<1>2. IsChunked(msg)
  BY <1>1, ChunksAreAnnounced DEF IsChunked
<1>3. n < Len(body) /\ body[n + 1] = ChunkAfter(l)
  BY <1>t, <1>1, SizeOfNextChunk, CurrentLineType DEF Lines
<1>4. /\ parser'.chunks = Append(parser.chunks, ChunkAfter(l)) /\ parser'.pc = "parse"
      /\ parser'.headers = parser.headers /\ parser'.offset = p.offset
  BY DEF WithChunk, Parsers, ChunkAfter
<1>5. ChunkAfter(l).at + ChunkAfter(l).len = NextOffset(l)
  BY DEF ChunkAfter, NextOffset
<1>6. p.offset \in Nat /\ p.offset \in parser.offset..msg.total
  BY <1>t DEF Parsers
<1>7. parser.headers = msg.result.headers
  BY <1>1 DEF InChunksAfter
<1>8. State = "constructing" /\ State' = "constructing" /\ parser.pc # "done"
  BY <1>4 DEF State
<1> QED
  BY <1>2, <1>3, <1>4, <1>5, <1>6, <1>7, <1>8 DEF Helper!OnChunk, stream

\* The constructor returns with the whole message.
LEMMA ConstructsTheMessage ==
    ASSUME Inv, NEW f \in msg.lines, NEW b \in msg.lines, IsMeantBy(msg, f, b), Parsed(f, b),
           ResultIsWhatWasSent', parser.pc = "parse", UNCHANGED stream,
           parser' = [parser EXCEPT !.pc = "done"],
           \/ parser.body_offset # NotSet
           \/ parser.receiving_body_in_chunks
    PROVE  Helper!Construct
<1>t. TypeOK
  BY DEF Inv
<1>1. /\ parser'.pc = "done" /\ parser'.headers = parser.headers
      /\ parser'.chunks = parser.chunks /\ parser'.offset = parser.offset
      /\ parser'.receiving_body_in_chunks = parser.receiving_body_in_chunks
  BY <1>t DEF TypeOK, Parsers
<1>2. /\ Result' = msg.result
      /\ \A i \in DOMAIN Body' : Body'[i].at + Body'[i].len <= parser.offset
  BY <1>1 DEF ResultIsWhatWasSent, stream
<1>3. parser.headers = msg.result.headers /\ Body' = msg.result.body
  BY <1>1, <1>2 DEF Result
<1>4. parser.chunks = IF IsChunked(msg) THEN msg.result.body ELSE <<>>
  <2>1. CASE parser.receiving_body_in_chunks
    <3>1. IsChunked(msg)
      BY <2>1, ChunksAreAnnounced DEF Parsed, IsChunked
    <3>2. parser.chunks = msg.result.body
      BY <1>1, <1>3, <2>1 DEF Body
    <3> QED
      BY <3>1, <3>2
  <2>2. CASE ~parser.receiving_body_in_chunks
    <3>1. InBody(f, b)
      BY <2>2 DEF Parsed
    <3>2. ~IsChunked(msg)
      <4>1. \A k, l \in msg.lines : IsMeantBy(msg, k, l) => k = f /\ l = b
        BY <1>t, NextTextUnique, HeadersEndUnique DEF IsMeantBy
      <4> QED
        BY <3>1, <4>1 DEF InBody, IsChunked
    <3>3. parser.chunks = <<>>
      BY <2>2 DEF Inv, RoomUntilAChunk
    <3> QED
      BY <3>2, <3>3
  <2> QED
    BY <2>1, <2>2
<1>5. State = "constructing" /\ State' = "constructed" /\ parser.pc # "done"
  BY <1>1 DEF State
<1> QED
  BY <1>1, <1>2, <1>3, <1>4, <1>5 DEF Helper!Construct, stream

\* A step that calls nothing, and neither returns nor throws, receives at most.
LEMMA CallsNothing ==
    ASSUME TypeOK, TypeOK', msg' = msg,
           parser.pc \in {"read", "parse", "rest"}, parser'.pc \in {"read", "parse", "rest"},
           parser'.headers = parser.headers, parser'.chunks = parser.chunks,
           parser.offset <= parser'.offset, parser'.offset <= sent
    PROVE  Helper!Receive
<1>1. parser'.offset \in parser.offset..msg.total
  <2>1. parser.offset \in Nat /\ parser'.offset \in Nat
    BY DEF TypeOK, Parsers
  <2>2. msg.total \in Nat /\ sent \in 0..msg.total
    BY HTTPAssumption DEF TypeOK
  <2> QED
    BY <2>1, <2>2
<1>2. State = "constructing" /\ State' = "constructing" /\ parser.pc # "done" /\ parser'.pc # "done"
  BY DEF State
<1> QED
  BY <1>1, <1>2 DEF Helper!Receive

\* It throws, or has searched past the end of the buffer.
LEMMA EndsWithoutMessage ==
    ASSUME Inv, msg' = msg, parser.pc \in {"read", "parse", "rest"},
           parser'.pc \in {"closed", "readerror", "undefined"},
           parser'.pc = "undefined" => parser.chunks # <<>>,
           parser'.headers = parser.headers, parser'.chunks = parser.chunks,
           parser'.offset = parser.offset
    PROVE  Helper!Throw \/ Helper!GoAstray
<1>1. /\ State = "constructing" /\ parser.pc # "done" /\ parser'.pc # "done"
      /\ State' = IF parser'.pc = "undefined" THEN "undefined" ELSE "thrown"
  BY DEF State
<1> QED
  BY <1>1 DEF Helper!Throw, Helper!GoAstray

\* Reading is receiving, until it throws or completes the rest of a chunk.
LEMMA ReadMaps ==
    ASSUME Inv, Inv', NEW f \in msg.lines, NEW b \in msg.lines, IsMeantBy(msg, f, b),
           Parsed(f, b), Read
    PROVE  [Helper!Next]_(Helper!vars)
<1>t. TypeOK /\ TypeOK' /\ parser.offset \in Nat /\ sent \in Nat /\ parser.offset <= sent
  BY OffsetTypes DEF Inv, OffsetsTyped, OffsetsOrdered
<1>1. ASSUME NEW n \in Nat, n <= sent - parser.offset, parser.pc = "read",
             parser' = AfterRead(n), UNCHANGED stream
      PROVE  [Helper!Next]_(Helper!vars)
  <2>1. /\ parser'.offset = parser.offset + n
        /\ parser'.headers = parser.headers /\ parser'.chunks = parser.chunks
        /\ parser'.pc \in {"read", "parse"} \/ (parser'.pc = "closed" /\ n = 0)
        /\ msg' = msg
    BY <1>t, <1>1 DEF AfterRead, TypeOK, Parsers, stream
  <2>2. CASE parser'.pc \in {"read", "parse"}
    <3>1. parser.offset <= parser'.offset /\ parser'.offset <= sent
      BY <1>t, <1>1, <2>1
    <3> QED
      BY <1>t, <1>1, <2>1, <2>2, <3>1, CallsNothing DEF Helper!Next
  <2>3. CASE parser'.pc = "closed" /\ n = 0
    BY <1>t, <1>1, <2>1, <2>3, EndsWithoutMessage DEF Helper!Next
  <2> QED
    BY <2>1, <2>2, <2>3
<1>2. ASSUME NEW n \in 1..msg.total, ReadSome(n) PROVE [Helper!Next]_(Helper!vars)
  <2>1. n \in Nat
    BY HTTPAssumption, <1>t DEF TypeOK
  <2> QED
    BY <1>1, <1>2, <2>1 DEF ReadSome
<1>3. CASE ReadNothing
  <2>1. 0 <= sent - parser.offset
    BY <1>t
  <2> QED
    BY <1>1, <1>3, <2>1 DEF ReadNothing
<1>4. ASSUME NEW l \in CurrentLines, ReadRest(l) PROVE [Helper!Next]_(Helper!vars)
  <2> DEFINE p == [parser EXCEPT !.offset = NextOffset(l)]
  <2>1. /\ parser.pc = "rest" /\ NextOffset(l) <= sent
        /\ parser' = WithChunk(l, p) /\ UNCHANGED stream
    BY <1>4 DEF ReadRest
  <2>2. NextOffset(l) \in Nat /\ parser.offset < NextOffset(l)
    BY <1>t, <2>1, CurrentLineType DEF Inv, RestFits
  <2>3. IsChunkSize(l) /\ l.num > 0
    BY <2>1 DEF Parsed
  <2>4. /\ p \in Parsers /\ p.offset = NextOffset(l)
        /\ p.headers = parser.headers /\ p.chunks = parser.chunks
    BY <1>t, <2>2 DEF TypeOK, Parsers
  <2> HIDE DEF p
  <2>5. Helper!OnChunk
    <3>1. NextOffset(l) <= p.offset /\ parser.offset <= p.offset /\ p.offset <= sent
      BY <1>t, <2>1, <2>2, <2>4
    <3> QED
      BY <1>t, <2>1, <2>3, <2>4, <3>1, ChunkIsNext
  <2> QED
    BY <2>5 DEF Helper!Next
<1>5. ASSUME \/ ReadFails \/ ReadRestFails
             \/ \E l \in CurrentLines : ReadRestFallsShort(l)
      PROVE  [Helper!Next]_(Helper!vars)
  <2>1. /\ \E how \in {"readerror", "closed"} : parser' = [parser EXCEPT !.pc = how]
        /\ parser.pc \in {"read", "rest"} /\ UNCHANGED stream
    BY <1>5 DEF ReadFails, ReadRestFails, ReadRestFallsShort
  <2>2. /\ parser'.offset = parser.offset /\ parser'.pc \in {"readerror", "closed"}
        /\ parser'.headers = parser.headers /\ parser'.chunks = parser.chunks
        /\ msg' = msg
    BY <1>t, <2>1 DEF TypeOK, Parsers, stream
  <2> QED
    BY <2>1, <2>2, EndsWithoutMessage DEF Helper!Next
<1> QED
  BY <1>2, <1>3, <1>4, <1>5 DEF Read

\* Parsing calls OnHeader or OnChunk, constructs the message, or calls nothing.
LEMMA ParseMaps ==
    ASSUME Inv, Inv', NEW f \in msg.lines, NEW b \in msg.lines, IsMeantBy(msg, f, b),
           Parsed(f, b), ResultIsWhatWasSent', Parse
    PROVE  [Helper!Next]_(Helper!vars)
<1>t. /\ TypeOK /\ TypeOK' /\ parser.offset \in Nat /\ sent \in Nat /\ parser.offset <= sent
      /\ SizeMax \in Nat
  BY OffsetTypes, HTTPAssumption DEF Inv, OffsetsTyped, OffsetsOrdered
<1>l. ASSUME NEW l \in LinesFound
      PROVE  l \in CurrentLines /\ l \in msg.lines /\ parser.pc = "parse"
  BY FoundFacts DEF Inv
<1>1. ASSUME parser.pc = "parse", UNCHANGED stream, parser'.pc \in {"read", "parse", "rest"},
             parser'.offset = parser.offset,
             parser'.headers = parser.headers, parser'.chunks = parser.chunks
      PROVE  [Helper!Next]_(Helper!vars)
  <2>1. msg' = msg /\ parser.offset <= parser'.offset /\ parser'.offset <= sent
    BY <1>t, <1>1 DEF stream
  <2> QED
    BY <1>t, <1>1, <2>1, CallsNothing DEF Helper!Next
<1>2. ASSUME NEW l \in LinesFound,
             FirstLine(l) \/ SkipBlankLine(l) \/ BodyIsNext(l) \/ ChunksAreNext(l)
      PROVE  [Helper!Next]_(Helper!vars)
  <2>1. CASE FirstLine(l)
    <3>1. /\ UNCHANGED stream /\ parser'.pc = "parse" /\ parser'.offset = parser.offset
          /\ parser'.headers = parser.headers /\ parser'.chunks = parser.chunks
      BY <1>t, <1>l, <2>1 DEF FirstLine, HandlesLine, TypeOK, Parsers
    <3> QED  BY <1>1, <1>l, <3>1
  <2>2. CASE SkipBlankLine(l)
    <3>1. /\ UNCHANGED stream /\ parser'.pc = "parse" /\ parser'.offset = parser.offset
          /\ parser'.headers = parser.headers /\ parser'.chunks = parser.chunks
      BY <1>t, <1>l, <2>2 DEF SkipBlankLine, HandlesLine, TypeOK, Parsers
    <3> QED  BY <1>1, <1>l, <3>1
  <2>3. CASE BodyIsNext(l)
    <3>1. /\ UNCHANGED stream /\ parser'.pc = "parse" /\ parser'.offset = parser.offset
          /\ parser'.headers = parser.headers /\ parser'.chunks = parser.chunks
      BY <1>t, <1>l, <2>3 DEF BodyIsNext, HandlesLine, TypeOK, Parsers
    <3> QED  BY <1>1, <1>l, <3>1
  <2>4. CASE ChunksAreNext(l)
    <3>1. /\ UNCHANGED stream /\ parser'.pc = "parse" /\ parser'.offset = parser.offset
          /\ parser'.headers = parser.headers /\ parser'.chunks = parser.chunks
      BY <1>t, <1>l, <2>4 DEF ChunksAreNext, HandlesLine, TypeOK, Parsers
    <3> QED  BY <1>1, <1>l, <3>1
  <2> QED
    BY <1>2, <2>1, <2>2, <2>3, <2>4
<1>3. ASSUME NEW l \in LinesFound, Header(l) PROVE [Helper!Next]_(Helper!vars)
  BY <1>3, <1>l, HeaderIsNext DEF Helper!Next
<1>4. ASSUME NEW l \in LinesFound, ChunkIsThere(l) PROVE [Helper!Next]_(Helper!vars)
  <2>1. /\ IsChunkSize(l) /\ l.num > 0 /\ NextOffset(l) <= parser.offset
        /\ parser' = WithChunk(l, parser) /\ UNCHANGED stream /\ parser \in Parsers
    BY <1>t, <1>4 DEF ChunkIsThere, HasBeenRead, TypeOK
  <2>2. Helper!OnChunk
    BY <1>t, <1>l, <2>1, ChunkIsNext
  <2> QED
    BY <2>2 DEF Helper!Next
<1>5. ASSUME NEW l \in LinesFound, ChunkHasARest(l) PROVE [Helper!Next]_(Helper!vars)
  <2>1. /\ UNCHANGED stream /\ parser'.pc = "rest" /\ parser'.offset = parser.offset
        /\ parser'.headers = parser.headers /\ parser'.chunks = parser.chunks
    BY <1>t, <1>5 DEF ChunkHasARest, TypeOK, Parsers
  <2> QED
    BY <1>1, <1>l, <2>1
<1>6. ASSUME NEW l \in LinesFound, LastChunk(l) PROVE [Helper!Next]_(Helper!vars)
  <2>1. /\ parser.receiving_body_in_chunks /\ parser' = [parser EXCEPT !.pc = "done"]
        /\ UNCHANGED stream
    BY <1>6 DEF LastChunk, IsChunkSize
  <2>2. Helper!Construct
    BY <1>l, <2>1, ConstructsTheMessage
  <2> QED
    BY <2>2 DEF Helper!Next
<1>7. CASE NoMoreLines
  <2>1. /\ parser.pc = "parse" /\ UNCHANGED stream
        /\ parser' = [parser EXCEPT !.pc = IF MoreToRead THEN "read" ELSE "done"]
    BY <1>7 DEF NoMoreLines
  <2>2. CASE MoreToRead
    <3>1. /\ parser'.pc = "read" /\ parser'.offset = parser.offset
          /\ parser'.headers = parser.headers /\ parser'.chunks = parser.chunks
      BY <1>t, <2>1, <2>2 DEF TypeOK, Parsers
    <3> QED
      BY <1>1, <2>1, <3>1
  <2>3. CASE ~MoreToRead
    <3>1. parser.body_offset # NotSet
      <4>1. sent < SizeMax
        BY <1>t, MessageAssumption, HTTPAssumption DEF TypeOK
      <4>2. parser.offset < NotSet
        BY <1>t, <4>1 DEF NotSet
      <4> QED
        BY <2>3, <4>2 DEF MoreToRead, Parsed
    <3>2. Helper!Construct
      BY <2>1, <2>3, <3>1, ConstructsTheMessage
    <3> QED
      BY <3>2 DEF Helper!Next
  <2> QED
    BY <2>2, <2>3
<1>8. CASE StrstrPastTheEnd
  <2>1. /\ parser.pc = "parse" /\ UNCHANGED stream
        /\ \E outcome \in {"read", "undefined"} : parser' = [parser EXCEPT !.pc = outcome]
    BY <1>8 DEF StrstrPastTheEnd, SearchesPastTheEnd, LooksForLines
  <2>2. /\ parser'.pc \in {"read", "undefined"} /\ parser'.offset = parser.offset
        /\ parser'.headers = parser.headers /\ parser'.chunks = parser.chunks
        /\ msg' = msg
    BY <1>t, <2>1 DEF TypeOK, Parsers, stream
  <2>3. parser'.pc = "undefined" => parser.chunks # <<>>
    BY <2>2 DEF Inv, UndefinedAtTheEnd
  <2> QED
    BY <1>1, <2>1, <2>2, <2>3, EndsWithoutMessage DEF Helper!Next
<1> QED
  BY <1>2, <1>3, <1>4, <1>5, <1>6, <1>7, <1>8 DEF Parse

\* For every message, buffer and segmentation: the constructor calls OnHeader and OnChunk with
\* each header and chunk once, in order, when it is there, and not once it has ended.
THEOREM HelperIsCalledInOrder == Spec => ImplementsHTTPHelper
<1>1. Init => Helper!Init
  BY DEF Init, Start, State, Helper!Init
<1>2. ASSUME Inv, Inv', ParsedInv, ResultIsWhatWasSent', [Next]_vars
      PROVE  [Helper!Next]_(Helper!vars)
  <2>1. PICK f \in msg.lines, b \in msg.lines : IsMeantBy(msg, f, b) /\ Parsed(f, b)
    BY <1>2 DEF ParsedInv
  <2>2. CASE Peer \/ UNCHANGED vars
    <3>1. msg' = msg /\ parser' = parser
      BY <2>2 DEF Peer, PeerSends, PeerEnds, vars, stream
    <3>2. State' = State /\ Result' = Result
      BY <3>1 DEF State, Result, HasBody, Body, NotSet
    <3> QED
      BY <3>1, <3>2 DEF Helper!vars
  <2>3. CASE Read
    BY <1>2, <2>1, <2>3, ReadMaps
  <2>4. CASE Parse
    BY <1>2, <2>1, <2>4, ParseMaps
  <2> QED
    BY <1>2, <2>2, <2>3, <2>4 DEF Next
<1>3. Inv /\ ParsedInv /\ (Inv /\ ParsedInv)' /\ ResultIsWhatWasSent' /\ [Next]_vars
        => [Helper!Next]_(Helper!vars)
  BY <1>2
<1> QED
  BY <1>1, <1>3, ParsedInvariance, AcceptedAsSent, PTL DEF Spec, ImplementsHTTPHelper, Helper!Spec

=============================================================================
