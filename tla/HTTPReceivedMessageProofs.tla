--------------------- MODULE HTTPReceivedMessageProofs ----------------------
(***************************************************************************)
(* Proofs about HTTPReceivedMessage, for every set of messages, every       *)
(* initial buffer of at least two bytes and every MaxGrowth: its safety     *)
(* properties, and that its loops end.                                      *)
(***************************************************************************)
EXTENDS HTTPReceivedMessage, SequenceTheorems, TLAPS

\* buffer_.resize(buffer_.size() * buffer_growth_k) makes a buffer of two bytes or more larger.
LEMMA GrowGrows ==
    \A n \in Nat : Grow(n) \in Nat /\ (n > 1 => Grow(n) > n)
  BY DEF Grow

\* The line the parser is at is one of the message, and all of it has been read.
LEMMA CurrentLineType ==
    ASSUME TypeOK, NEW l \in CurrentLines
    PROVE  /\ l \in msg.lines /\ l \in Lines
           /\ l.at = parser.current_line_offset /\ l.at <= l.crlf
           /\ NextLineOffset(l) \in Nat /\ NextOffset(l) \in Nat
           /\ NextLineOffset(l) <= parser.offset
<1>1. l \in msg.lines /\ l.at = parser.current_line_offset /\ NextLineOffset(l) <= parser.offset
  BY DEF CurrentLines
<1>2. msg \in Messages
  BY DEF TypeOK
<1>3. l \in Lines /\ l.at <= l.crlf
  BY <1>1, <1>2, HTTPAssumption
<1>4. l.crlf \in Nat /\ l.num \in Nat
  BY <1>3 DEF Lines
<1> QED
  BY <1>1, <1>3, <1>4 DEF NextLineOffset, NextOffset, kCRLFLength

\* A read of the inner loop keeps the parser well typed.
LEMMA AfterReadType ==
    ASSUME TypeOK, NEW n \in Nat
    PROVE  AfterRead(n) \in Parsers
<1> DEFINE offset == parser.offset + n
           size == Grow(parser.size)
           pc == IF n = 0 THEN "closed" ELSE "parse"
<1>0. parser.offset \in Nat /\ parser.size \in Nat
  BY DEF TypeOK, Parsers
<1>1. offset \in Nat /\ size \in Nat
  BY <1>0, GrowGrows
<1>2. pc \in {"read", "parse", "rest"} \union Ended
  BY DEF Ended
<1>3. /\ n = Chunk => AfterRead(n) = [parser EXCEPT !.offset = offset, !.size = size]
      /\ n # Chunk => AfterRead(n) = [parser EXCEPT !.offset = offset, !.pc = pc]
  BY DEF AfterRead
<1> HIDE DEF offset, size, pc
<1>4. [parser EXCEPT !.offset = offset, !.size = size] \in Parsers
  BY <1>1 DEF TypeOK, Parsers
<1>5. [parser EXCEPT !.offset = offset, !.pc = pc] \in Parsers
  BY <1>1, <1>2 DEF TypeOK, Parsers
<1> QED
  BY <1>3, <1>4, <1>5, Zenon

\* Taking a chunk keeps the parser well typed.
LEMMA WithChunkType ==
    ASSUME TypeOK, NEW l \in CurrentLines, NEW p \in Parsers
    PROVE  WithChunk(l, p) \in Parsers
<1>1. NextLineOffset(l) \in Nat /\ NextOffset(l) \in Nat /\ l.num \in Nat
  BY CurrentLineType DEF Lines
<1>2. [at |-> NextLineOffset(l), len |-> l.num] \in [at : Nat, len : Nat]
  BY <1>1
<1>3. p.chunks \in Seq([at : Nat, len : Nat])
  BY DEF Parsers
<1>4. Append(p.chunks, [at |-> NextLineOffset(l), len |-> l.num]) \in Seq([at : Nat, len : Nat])
  BY <1>2, <1>3
<1> QED
  BY <1>1, <1>4 DEF WithChunk, Parsers

\* The initial state is well typed.
LEMMA TypeInit == Init => TypeOK
  BY HTTPAssumption DEF Init, TypeOK, Start, Parsers, NotSet

\* Every step keeps the state well typed.
LEMMA TypeStep == TypeOK /\ [Next]_vars => TypeOK'
<1> SUFFICES ASSUME TypeOK, [Next]_vars PROVE TypeOK'
  OBVIOUS
<1> USE DEF TypeOK
<1>m. msg.total \in Nat /\ SizeMax \in Nat /\ MaxGrowth \in Nat
  BY HTTPAssumption
<1>1. CASE Peer
  BY <1>1, <1>m DEF Peer, PeerSends, PeerEnds
<1>2. CASE Read
  <2>1. ASSUME NEW n \in 1..msg.total, ReadSome(n) PROVE TypeOK'
    BY <2>1, <1>m, AfterReadType DEF ReadSome, stream
  <2>2. CASE ReadNothing
    BY <2>2, AfterReadType DEF ReadNothing, stream
  <2>3. CASE ReadFails
    BY <2>3 DEF ReadFails, Parsers, stream, Ended
  <2>4. ASSUME NEW l \in CurrentLines, ReadRest(l) PROVE TypeOK'
    <3>1. parser' \in Parsers
      <4>1. [parser EXCEPT !.offset = NextOffset(l)] \in Parsers
        BY CurrentLineType DEF Parsers
      <4> QED BY <4>1, <2>4, WithChunkType DEF ReadRest
    <3> QED BY <3>1, <2>4 DEF ReadRest, stream
  <2>5. ASSUME NEW l \in CurrentLines, ReadRestFallsShort(l) PROVE TypeOK'
    BY <2>5 DEF ReadRestFallsShort, Parsers, stream, Ended
  <2>6. CASE ReadRestFails
    BY <2>6 DEF ReadRestFails, Parsers, stream, Ended
  <2> QED BY <1>2, <2>1, <2>2, <2>3, <2>4, <2>5, <2>6 DEF Read
<1>3. CASE Parse
  <2>1. ASSUME NEW l \in LinesFound, FirstLine(l) PROVE TypeOK'
    BY <2>1, CurrentLineType DEF LinesFound, FirstLine, HandlesLine, Parsers, stream, Lines
  <2>2. ASSUME NEW l \in LinesFound, SkipBlankLine(l) PROVE TypeOK'
    BY <2>2, CurrentLineType DEF LinesFound, SkipBlankLine, HandlesLine, Parsers, stream, Lines
  <2>3. ASSUME NEW l \in LinesFound, Header(l) PROVE TypeOK'
    BY <2>3, CurrentLineType DEF LinesFound, Header, HandlesLine, Parsers, stream, Lines
  <2>4. ASSUME NEW l \in LinesFound, BodyIsNext(l) PROVE TypeOK'
    <3> DEFINE body_offset == NextLineOffset(l)
               cap == body_offset + (IF parser.body_length = NotSet THEN 0 ELSE parser.body_length)
               size == IF parser.body_length = NotSet THEN parser.size ELSE SizeForBody(cap)
    <3>1. body_offset \in Nat /\ cap \in Nat
      BY CurrentLineType DEF LinesFound, Parsers
    <3>p. parser.size \in Nat
      BY DEF Parsers
    <3>2. size \in Nat
      BY <3>1, <3>p, <1>m DEF SizeForBody
    <3>3. parser' = [[parser EXCEPT !.body_offset = body_offset, !.length_cap = cap, !.size = size]
                       EXCEPT !.current_line_offset = body_offset]
      BY <2>4 DEF BodyIsNext, HandlesLine
    <3> HIDE DEF body_offset, cap, size
    <3>4. parser' \in Parsers
      BY <3>1, <3>2, <3>3 DEF Parsers
    <3> QED BY <3>4, <2>4 DEF BodyIsNext, HandlesLine, stream
  <2>5. ASSUME NEW l \in LinesFound, ChunksAreNext(l) PROVE TypeOK'
    BY <2>5, CurrentLineType DEF LinesFound, ChunksAreNext, HandlesLine, Parsers, stream, Lines
  <2>6. ASSUME NEW l \in LinesFound, LastChunk(l) PROVE TypeOK'
    BY <2>6 DEF LastChunk, Parsers, stream, Ended
  <2>7. ASSUME NEW l \in LinesFound, ChunkIsThere(l) PROVE TypeOK'
    <3>1. parser' \in Parsers
      BY <2>7, WithChunkType DEF LinesFound, ChunkIsThere
    <3> QED BY <3>1, <2>7 DEF ChunkIsThere, stream
  <2>8. ASSUME NEW l \in LinesFound, ChunkHasARest(l) PROVE TypeOK'
    BY <2>8, CurrentLineType DEF LinesFound, ChunkHasARest, SizeForChunk, Parsers, stream
  <2>9. CASE NoMoreLines
    BY <2>9 DEF NoMoreLines, Parsers, stream, Ended
  <2>10. CASE StrstrPastTheEnd
    BY <2>10 DEF StrstrPastTheEnd, Parsers, stream, Ended
  <2> QED BY <1>3, <2>1, <2>2, <2>3, <2>4, <2>5, <2>6, <2>7, <2>8, <2>9, <2>10 DEF Parse
<1>4. CASE UNCHANGED vars
  BY <1>4 DEF vars, stream
<1> QED BY <1>1, <1>2, <1>3, <1>4 DEF Next

\* The parser's locals keep their types, whatever is sent and however it is read.
THEOREM TypeCorrect == Spec => []TypeOK
  BY TypeInit, TypeStep, PTL DEF Spec

-----------------------------------------------------------------------------
(* The inductive invariant.  Its parts hold only together: what keeps a read  *)
(* inside the buffer is how the line before it was handled.                    *)

OffsetsOrdered ==
    /\ parser.current_line_offset <= parser.offset
    /\ parser.offset <= sent
    /\ parser.offset <= parser.size
    /\ parser.size > 1

\* Only taking a chunk can leave the buffer without room for a '\0'.
RoomUntilAChunk ==
    /\ parser.chunks = <<>> => parser.offset < parser.size
    /\ parser.chunks # <<>> => parser.receiving_body_in_chunks

\* While the rest of a chunk is read, the buffer has room for it.
RestFits ==
    parser.pc = "rest" =>
        /\ parser.receiving_body_in_chunks
        /\ CurrentLines # {}
        /\ \A l \in CurrentLines : /\ ~IsBlank(l)
                                  /\ parser.offset < NextOffset(l) /\ NextOffset(l) <= parser.size

UndefinedAtTheEnd ==
    parser.pc = "undefined" => parser.chunks # <<>> /\ parser.current_line_offset = parser.size

\* HTTPConnectionClosedByPeerException means that the peer has ended, or a chunk came in pieces.
ClosedMeansEndedOrSplit ==
    parser.pc = "closed" => peer # "open" \/ SplitChunk

Inv ==
    /\ TypeOK
    /\ OffsetsOrdered
    /\ RoomUntilAChunk
    /\ RestFits
    /\ UndefinedAtTheEnd
    /\ ClosedMeansEndedOrSplit

\* The fields the invariant speaks of are numbers.
OffsetsTyped ==
    /\ parser.offset \in Nat /\ parser.size \in Nat
    /\ parser.current_line_offset \in Nat /\ sent \in Nat
    /\ parser.chunks \in Seq([at : Nat, len : Nat])
    /\ parser.receiving_body_in_chunks \in BOOLEAN

LEMMA OffsetTypes == TypeOK => OffsetsTyped
  BY HTTPAssumption DEF TypeOK, Parsers, OffsetsTyped

\* The same of the next state.
LEMMA OffsetTypesNext == TypeOK' => OffsetsTyped'
  BY HTTPAssumption DEF TypeOK, Parsers, OffsetsTyped

\* There is only one line at an offset.
LEMMA CurrentLineUnique ==
    ASSUME TypeOK, NEW k \in CurrentLines, NEW l \in CurrentLines
    PROVE  k = l
<1>1. msg \in Messages
  BY DEF TypeOK
<1>2. k \in msg.lines /\ l \in msg.lines /\ k.at = l.at
  BY DEF CurrentLines
<1> QED
  BY <1>1, <1>2, HTTPAssumption

\* A step that reads nothing, takes no chunk and stays within what was read is harmless.
LEMMA ReadsNothing ==
    ASSUME Inv, TypeOK', UNCHANGED stream,
           parser'.offset = parser.offset,
           parser'.size >= parser.size,
           parser'.current_line_offset <= parser.offset,
           parser'.chunks = parser.chunks,
           parser.receiving_body_in_chunks => parser'.receiving_body_in_chunks,
           parser'.pc \notin {"rest", "closed", "undefined"}
    PROVE  Inv'
<1>1. OffsetsOrdered'
  BY OffsetTypes, OffsetTypesNext DEF OffsetsTyped, Inv, OffsetsOrdered, stream
<1>2. RoomUntilAChunk'
  BY OffsetTypes, OffsetTypesNext DEF OffsetsTyped, Inv, RoomUntilAChunk
<1> QED
  BY <1>1, <1>2 DEF Inv, RestFits, UndefinedAtTheEnd, ClosedMeansEndedOrSplit

\* Taking a chunk that has been read leaves the parser within what was read.
LEMMA TakesChunk ==
    ASSUME Inv, TypeOK', UNCHANGED stream,
           NEW l \in CurrentLines, NEW p \in Parsers,
           parser' = WithChunk(l, p),
           p.size = parser.size, p.chunks = parser.chunks,
           p.receiving_body_in_chunks,
           NextOffset(l) <= p.offset, p.offset <= sent, p.offset <= p.size
    PROVE  Inv'
<1>1. /\ parser'.offset = p.offset /\ parser'.size = parser.size
      /\ parser'.current_line_offset = NextOffset(l)
      /\ parser'.receiving_body_in_chunks
      /\ parser'.pc = "parse"
      /\ parser'.chunks = Append(parser.chunks, [at |-> NextLineOffset(l), len |-> l.num])
  BY DEF WithChunk, Parsers
<1>2. parser'.chunks # <<>>
  <2>1. parser.chunks \in Seq([at : Nat, len : Nat])
    BY OffsetTypes DEF Inv, OffsetsTyped
  <2>2. [at |-> NextLineOffset(l), len |-> l.num] \in [at : Nat, len : Nat]
    BY CurrentLineType DEF Inv, Lines
  <2> QED
    BY <1>1, <2>1, <2>2, AppendProperties
<1>3. OffsetsOrdered'
  BY <1>1, OffsetTypes, OffsetTypesNext DEF OffsetsTyped, Inv, OffsetsOrdered, stream
<1> QED
  BY <1>1, <1>2, <1>3
  DEF Inv, RoomUntilAChunk, RestFits, UndefinedAtTheEnd, ClosedMeansEndedOrSplit

\* A read of the inner loop leaves room for the '\0', in a larger buffer if it was filled.
LEMMA AfterReadKeepsInv ==
    ASSUME Inv, TypeOK', UNCHANGED stream, NEW n \in Nat,
           parser.pc = "read", parser' = AfterRead(n),
           n <= sent - parser.offset,
           parser.offset < parser.size => n <= Chunk,
           parser.offset >= parser.size => n = 0,
           n = 0 /\ n # Chunk => peer # "open"
    PROVE  Inv'
<1>1. /\ parser'.offset = parser.offset + n
      /\ parser'.size = IF n = Chunk THEN Grow(parser.size) ELSE parser.size
      /\ parser'.current_line_offset = parser.current_line_offset
      /\ parser'.chunks = parser.chunks
      /\ parser'.receiving_body_in_chunks = parser.receiving_body_in_chunks
      /\ parser'.pc \in {"read", "parse"} \/ (parser'.pc = "closed" /\ n = 0 /\ n # Chunk)
  BY DEF AfterRead, Inv, TypeOK, Parsers
<1>2. parser'.size >= parser.size /\ (n = Chunk => parser'.size > parser.size)
  <2>1. parser.size \in Nat /\ parser.size > 1
    BY OffsetTypes DEF Inv, OffsetsTyped, OffsetsOrdered
  <2>2. Grow(parser.size) \in Nat /\ Grow(parser.size) > parser.size
    BY <2>1, GrowGrows
  <2> QED
    BY <1>1, <2>1, <2>2
<1>3. parser.offset < parser.size => parser'.offset < parser'.size
  BY <1>1, <1>2, OffsetTypes, OffsetTypesNext DEF OffsetsTyped, Chunk, Inv
<1>4. parser'.offset <= parser'.size
  BY <1>1, <1>2, <1>3, OffsetTypes, OffsetTypesNext DEF OffsetsTyped, Inv, OffsetsOrdered
<1>5. OffsetsOrdered'
  BY <1>1, <1>2, <1>4, OffsetTypes, OffsetTypesNext DEF OffsetsTyped, Inv, OffsetsOrdered, stream
<1>6. RoomUntilAChunk'
  BY <1>1, <1>3 DEF Inv, RoomUntilAChunk
<1>7. ClosedMeansEndedOrSplit'
  BY <1>1 DEF ClosedMeansEndedOrSplit, stream
<1> QED
  BY <1>1, <1>5, <1>6, <1>7 DEF Inv, RestFits, UndefinedAtTheEnd

\* The invariant holds of the constructor's first read.
LEMMA InvInit == Init => Inv
<1> SUFFICES ASSUME Init PROVE Inv
  OBVIOUS
<1>1. TypeOK
  BY TypeInit
<1>2. /\ parser.pc = "read" /\ parser.offset = 0 /\ parser.current_line_offset = 0
      /\ parser.size = intial_buffer_size /\ parser.chunks = <<>> /\ sent = 0
  BY DEF Init, Start
<1>3. intial_buffer_size \in Nat /\ intial_buffer_size > 1
  BY HTTPAssumption DEF Init
<1>4. OffsetsOrdered /\ RoomUntilAChunk
  BY <1>2, <1>3 DEF OffsetsOrdered, RoomUntilAChunk
<1> QED
  BY <1>1, <1>2, <1>4 DEF Inv, RestFits, UndefinedAtTheEnd, ClosedMeansEndedOrSplit

\* What the peer does changes nothing of the parser, and takes nothing back.
LEMMA UntouchedKeepsInv ==
    ASSUME Inv, TypeOK', msg' = msg, parser' = parser, sent' >= sent,
           peer # "open" => peer' # "open"
    PROVE  Inv'
<1>1. OffsetsOrdered'
  BY OffsetTypes, OffsetTypesNext DEF OffsetsTyped, Inv, OffsetsOrdered
<1>2. CurrentLines' = CurrentLines /\ SplitChunk' = SplitChunk
  BY DEF CurrentLines, SplitChunk, IsChunkSize, HasBeenRead
<1> QED
  BY <1>1, <1>2
  DEF Inv, RoomUntilAChunk, RestFits, UndefinedAtTheEnd, ClosedMeansEndedOrSplit

\* So it is when it sends or ends.
LEMMA PeerKeepsInv ==
    ASSUME Inv, TypeOK', Peer
    PROVE  Inv'
<1>1. msg.total \in Nat /\ sent \in Nat
  BY HTTPAssumption DEF Inv, TypeOK
<1>2. /\ msg' = msg /\ parser' = parser
      /\ sent' >= sent
      /\ peer # "open" => peer' # "open"
  BY <1>1 DEF Peer, PeerSends, PeerEnds
<1> QED
  BY <1>2, UntouchedKeepsInv

\* Every call of read() keeps the invariant.
LEMMA ReadKeepsInv ==
    ASSUME Inv, TypeOK', Read
    PROVE  Inv'
<1> USE DEF OffsetsTyped
<1>t. TypeOK /\ msg.total \in Nat /\ SizeMax \in Nat
  BY HTTPAssumption DEF Inv, TypeOK
<1>1. ASSUME NEW n \in 1..msg.total, ReadSome(n) PROVE Inv'
  <2>1. /\ parser.pc = "read" /\ parser' = AfterRead(n) /\ UNCHANGED stream
        /\ n <= Chunk /\ Chunk <= SizeMax \div 2 /\ n <= sent - parser.offset
    BY <1>1 DEF ReadSome
  <2>2. ~(parser.offset >= parser.size)
    <3>1. parser.offset <= parser.size
      BY DEF Inv, OffsetsOrdered
    <3>2. parser.offset = parser.size => Chunk = SizeMax
      BY <1>t, OffsetTypes DEF Chunk
    <3> QED
      BY <1>t, <2>1, <3>1, <3>2, OffsetTypes
  <2>3. n \in Nat /\ n # 0
    BY <1>t
  <2> QED
    BY <2>1, <2>2, <2>3, AfterReadKeepsInv
<1>2. CASE ReadNothing
  <2>1. /\ parser.pc = "read" /\ parser' = AfterRead(0) /\ UNCHANGED stream
        /\ Chunk = 0 \/ peer = "eof"
    BY <1>2 DEF ReadNothing, AtEOF
  <2>2. 0 <= sent - parser.offset
    BY <1>t, OffsetTypes DEF Inv, OffsetsOrdered
  <2>3. parser.offset < parser.size => 0 <= Chunk
    BY <1>t, OffsetTypes DEF Chunk
  <2> QED
    BY <2>1, <2>2, <2>3, AfterReadKeepsInv
<1>3. ASSUME ReadFails \/ ReadRestFails PROVE Inv'
  <2>1. /\ parser' = [parser EXCEPT !.pc = "readerror"] /\ UNCHANGED stream
    BY <1>3 DEF ReadFails, ReadRestFails
  <2>2. /\ parser'.offset = parser.offset /\ parser'.size = parser.size
        /\ parser'.current_line_offset = parser.current_line_offset
        /\ parser'.chunks = parser.chunks
        /\ parser'.receiving_body_in_chunks = parser.receiving_body_in_chunks
        /\ parser'.pc = "readerror"
    BY <1>t, <2>1 DEF TypeOK, Parsers
  <2> QED
    BY <1>t, <2>1, <2>2, ReadsNothing, OffsetTypes DEF Inv, OffsetsOrdered
<1>4. ASSUME NEW l \in CurrentLines, ReadRest(l) PROVE Inv'
  <2> DEFINE p == [parser EXCEPT !.offset = NextOffset(l)]
  <2>1. /\ parser.pc = "rest" /\ NextOffset(l) <= sent
        /\ parser' = WithChunk(l, p) /\ UNCHANGED stream
    BY <1>4 DEF ReadRest
  <2>2. NextOffset(l) \in Nat
    BY <1>t, CurrentLineType
  <2>3. /\ p \in Parsers /\ p.offset = NextOffset(l) /\ p.size = parser.size
        /\ p.chunks = parser.chunks
        /\ p.receiving_body_in_chunks = parser.receiving_body_in_chunks
    BY <1>t, <2>2 DEF TypeOK, Parsers
  <2>4. parser.receiving_body_in_chunks /\ NextOffset(l) <= parser.size
    BY <2>1 DEF Inv, RestFits
  <2>5. NextOffset(l) <= p.offset /\ p.offset <= sent /\ p.offset <= p.size
    BY <2>1, <2>2, <2>3, <2>4
  <2> HIDE DEF p
  <2> QED
    BY <2>1, <2>3, <2>4, <2>5, TakesChunk
<1>5. ASSUME NEW l \in CurrentLines, ReadRestFallsShort(l) PROVE Inv'
  <2>1. /\ parser.pc = "rest" /\ parser' = [parser EXCEPT !.pc = "closed"] /\ UNCHANGED stream
    BY <1>5 DEF ReadRestFallsShort
  <2>2. /\ parser'.offset = parser.offset /\ parser'.size = parser.size
        /\ parser'.current_line_offset = parser.current_line_offset
        /\ parser'.chunks = parser.chunks
        /\ parser'.receiving_body_in_chunks = parser.receiving_body_in_chunks
        /\ parser'.pc = "closed"
    BY <1>t, <2>1 DEF TypeOK, Parsers
  <2>3. parser.receiving_body_in_chunks /\ ~IsBlank(l)
    BY <2>1 DEF Inv, RestFits
  <2>4. /\ NextOffset(l) \in Nat /\ parser.offset \in Nat
        /\ l.num \in Nat /\ NextLineOffset(l) <= parser.offset
    BY <1>t, CurrentLineType, OffsetTypes DEF Lines, CurrentLines
  <2>5. ASSUME ~AtEOF PROVE SplitChunk'
    <3>1. 1..NextOffset(l) - parser.offset - 1 # {}
      BY <1>5, <2>5 DEF ReadRestFallsShort
    <3>2. l.num > 1 /\ ~HasBeenRead(l)
      BY <1>t, <2>4, <3>1, CurrentLineType DEF HasBeenRead, NextOffset
    <3>3. CurrentLines' = CurrentLines
      BY <2>1, <2>2 DEF CurrentLines, stream
    <3> QED
      BY <2>2, <2>3, <3>2, <3>3 DEF SplitChunk, IsChunkSize, HasBeenRead
  <2>6. AtEOF => peer' # "open"
    BY <2>1 DEF AtEOF, stream
  <2> QED
    BY <2>1, <2>2, <2>3, <2>5, <2>6
    DEF Inv, OffsetsOrdered, RoomUntilAChunk, RestFits, UndefinedAtTheEnd,
        ClosedMeansEndedOrSplit, stream
<1> QED
  BY <1>1, <1>2, <1>3, <1>4, <1>5 DEF Read

\* Every iteration over the lines keeps the invariant.
LEMMA ParseKeepsInv ==
    ASSUME Inv, TypeOK', Parse
    PROVE  Inv'
<1> USE DEF OffsetsTyped
<1>t. TypeOK /\ SizeMax \in Nat /\ MaxGrowth \in Nat
  BY HTTPAssumption DEF Inv
<1>c. \A l \in LinesFound : l \in CurrentLines
  BY DEF LinesFound
<1>n. \A l \in LinesFound : NextLineOffset(l) \in Nat /\ NextLineOffset(l) <= parser.offset
  BY <1>t, <1>c, CurrentLineType
<1>f. ASSUME NEW l \in LinesFound, parser.pc = "parse",
             FirstLine(l) \/ SkipBlankLine(l) \/ Header(l) \/ ChunksAreNext(l)
      PROVE  Inv'
  <2>1. /\ parser'.offset = parser.offset /\ parser'.size = parser.size
        /\ parser'.current_line_offset = NextLineOffset(l)
        /\ parser'.chunks = parser.chunks /\ parser'.pc = parser.pc
        /\ parser.receiving_body_in_chunks => parser'.receiving_body_in_chunks
        /\ UNCHANGED stream
    <3>t. parser \in Parsers
      BY <1>t DEF TypeOK
    <3>1. CASE FirstLine(l)
      BY <3>t, <3>1, <1>f DEF FirstLine, HandlesLine, Parsers
    <3>2. CASE SkipBlankLine(l)
      BY <3>t, <3>2, <1>f DEF SkipBlankLine, HandlesLine, Parsers
    <3>3. CASE Header(l)
      BY <3>t, <3>3, <1>f DEF Header, HandlesLine, Parsers
    <3>4. CASE ChunksAreNext(l)
      BY <3>t, <3>4, <1>f DEF ChunksAreNext, HandlesLine, Parsers
    <3> QED  BY <1>f, <3>1, <3>2, <3>3, <3>4
  <2>2. parser'.size >= parser.size
    <3>1. parser.size \in Nat
      BY <1>t DEF TypeOK, Parsers
    <3> QED  BY <2>1, <3>1
  <2> QED
    BY <1>t, <1>n, <1>f, <2>1, <2>2, ReadsNothing
<1>p. \A l \in LinesFound : parser.pc = "parse"
  BY DEF LinesFound, LooksForLines
<1>1. ASSUME NEW l \in LinesFound, BodyIsNext(l) PROVE Inv'
  <2> DEFINE cap == NextLineOffset(l)
                      + (IF parser.body_length = NotSet THEN 0 ELSE parser.body_length)
             size == IF parser.body_length = NotSet THEN parser.size ELSE SizeForBody(cap)
  <2>0. parser.body_length \in Nat /\ parser.size \in Nat /\ NextLineOffset(l) \in Nat
    BY <1>t, <1>n DEF TypeOK, Parsers
  <2>1. cap \in Nat /\ parser.size \in Nat
    BY <2>0
  <2>2. size >= parser.size
    BY <1>t, <2>1 DEF SizeForBody
  <2>3. /\ parser' = [[parser EXCEPT !.body_offset = NextLineOffset(l), !.length_cap = cap,
                                     !.size = size]
                        EXCEPT !.current_line_offset = NextLineOffset(l)]
        /\ UNCHANGED stream
    BY <1>1 DEF BodyIsNext, HandlesLine
  <2> HIDE DEF cap, size
  <2>4. /\ parser'.offset = parser.offset /\ parser'.size = size
        /\ parser'.current_line_offset = NextLineOffset(l)
        /\ parser'.chunks = parser.chunks /\ parser'.pc = parser.pc
        /\ parser'.receiving_body_in_chunks = parser.receiving_body_in_chunks
    BY <1>t, <2>3 DEF TypeOK, Parsers
  <2> QED
    BY <1>n, <1>p, <2>2, <2>3, <2>4, ReadsNothing
<1>2. ASSUME NEW l \in LinesFound, ChunkIsThere(l) PROVE Inv'
  <2>1. /\ parser' = WithChunk(l, parser) /\ UNCHANGED stream
        /\ NextOffset(l) <= parser.offset /\ parser.receiving_body_in_chunks
    BY <1>2 DEF ChunkIsThere, HasBeenRead, IsChunkSize
  <2>2. parser.offset <= sent /\ parser.offset <= parser.size /\ parser \in Parsers
    BY DEF Inv, OffsetsOrdered, TypeOK
  <2> QED
    BY <1>c, <2>1, <2>2, TakesChunk
<1>3. ASSUME NEW l \in LinesFound, ChunkHasARest(l) PROVE Inv'
  <2>1. /\ parser' = [parser EXCEPT !.pc = "rest", !.size = SizeForChunk(l)]
        /\ UNCHANGED stream
        /\ ~(NextOffset(l) <= parser.offset) /\ parser.receiving_body_in_chunks
        /\ ~IsBlank(l)
    BY <1>3 DEF ChunkHasARest, HasBeenRead, IsChunkSize
  <2>2. /\ parser'.offset = parser.offset /\ parser'.size = SizeForChunk(l)
        /\ parser'.current_line_offset = parser.current_line_offset
        /\ parser'.chunks = parser.chunks
        /\ parser'.receiving_body_in_chunks = parser.receiving_body_in_chunks
        /\ parser'.pc = "rest"
    BY <1>t, <2>1 DEF TypeOK, Parsers
  <2>3. NextOffset(l) \in Nat
    BY <1>t, <1>c, CurrentLineType
  <2>4. /\ parser'.size >= parser.size /\ parser'.size >= NextOffset(l)
        /\ parser'.offset < NextOffset(l)
    BY <1>t, <2>1, <2>2, <2>3, OffsetTypes DEF SizeForChunk
  <2>5. OffsetsOrdered' /\ RoomUntilAChunk'
    BY <1>t, <2>1, <2>2, <2>3, <2>4, OffsetTypes, OffsetTypesNext
    DEF Inv, OffsetsOrdered, RoomUntilAChunk, stream
  <2>6. CurrentLines' = CurrentLines
    BY <2>1, <2>2 DEF CurrentLines, stream
  <2>7. \A k \in CurrentLines : k = l
    BY <1>t, <1>c, CurrentLineUnique
  <2>8. \A k \in CurrentLines' : /\ ~IsBlank(k)
                                 /\ parser'.offset < NextOffset(k) /\ NextOffset(k) <= parser'.size
    BY <2>1, <2>3, <2>4, <2>6, <2>7, OffsetTypesNext
  <2>9. CurrentLines' # {}
    BY <1>c, <2>6
  <2> QED
    BY <2>1, <2>2, <2>5, <2>8, <2>9
    DEF Inv, RestFits, UndefinedAtTheEnd, ClosedMeansEndedOrSplit
<1>4. ASSUME (\E l \in LinesFound : LastChunk(l)) \/ NoMoreLines PROVE Inv'
  <2>1. /\ parser' = [parser EXCEPT !.pc = parser'.pc] /\ parser'.pc \in {"read", "done"}
        /\ UNCHANGED stream
    BY <1>t, <1>4 DEF LastChunk, NoMoreLines, TypeOK, Parsers
  <2>2. /\ parser'.offset = parser.offset /\ parser'.size = parser.size
        /\ parser'.current_line_offset = parser.current_line_offset
        /\ parser'.chunks = parser.chunks
        /\ parser'.receiving_body_in_chunks = parser.receiving_body_in_chunks
    BY <1>t, <2>1 DEF TypeOK, Parsers
  <2> QED
    BY <1>t, <2>1, <2>2, ReadsNothing, OffsetTypes DEF Inv, OffsetsOrdered
<1>5. CASE StrstrPastTheEnd
  <2>1. /\ parser.current_line_offset >= parser.size
        /\ \E outcome \in {"read", "undefined"} : parser' = [parser EXCEPT !.pc = outcome]
        /\ UNCHANGED stream
    BY <1>5 DEF StrstrPastTheEnd, SearchesPastTheEnd
  <2>2. /\ parser'.offset = parser.offset /\ parser'.size = parser.size
        /\ parser'.current_line_offset = parser.current_line_offset
        /\ parser'.chunks = parser.chunks
        /\ parser'.receiving_body_in_chunks = parser.receiving_body_in_chunks
        /\ parser'.pc \in {"read", "undefined"}
    BY <1>t, <2>1 DEF TypeOK, Parsers
  <2>3. parser.current_line_offset = parser.size /\ parser.offset = parser.size
    BY <1>t, <2>1, OffsetTypes DEF Inv, OffsetsOrdered
  <2>4. parser.chunks # <<>>
    BY <1>t, <2>3, OffsetTypes DEF Inv, RoomUntilAChunk
  <2> QED
    BY <2>1, <2>2, <2>3, <2>4
    DEF Inv, OffsetsOrdered, RoomUntilAChunk, RestFits, UndefinedAtTheEnd,
        ClosedMeansEndedOrSplit, stream
<1> QED
  BY <1>f, <1>p, <1>1, <1>2, <1>3, <1>4, <1>5 DEF Parse

\* The invariant is inductive.
LEMMA InvStep == Inv /\ [Next]_vars => Inv'
<1> SUFFICES ASSUME Inv, [Next]_vars PROVE Inv'
  OBVIOUS
<1>1. TypeOK'
  BY TypeStep DEF Inv
<1>2. CASE UNCHANGED vars
  BY <1>2 DEF vars, stream, Inv, TypeOK, OffsetsOrdered, RoomUntilAChunk, RestFits,
              CurrentLines, SplitChunk, IsChunkSize, HasBeenRead, UndefinedAtTheEnd, ClosedMeansEndedOrSplit
<1> QED
  BY <1>1, <1>2, PeerKeepsInv, ReadKeepsInv, ParseKeepsInv DEF Next

\* The invariant holds throughout.
THEOREM Invariance == Spec => []Inv
  BY InvInit, InvStep, PTL DEF Spec

-----------------------------------------------------------------------------
(* What follows from it.                                                      *)

\* The constructor never reads more than was sent nor more than fits into `buffer_`, and
\* outside of chunked bodies its `buffer_[offset] = '\0'` is within the buffer.
THEOREM ReadsFit == Spec => []RoomForWhatIsRead
<1>1. Inv => RoomForWhatIsRead
  BY OffsetTypes DEF Inv, OffsetsOrdered, RoomUntilAChunk, RoomForWhatIsRead, OffsetsTyped
<1> QED
  BY <1>1, Invariance, PTL

\* strstr is never given an offset past the end of `buffer_`, except after a chunk that
\* ends exactly there.
THEOREM SearchesWithinTheBuffer == Spec => []PastTheEndOnlyAfterAChunk
<1>1. Inv => PastTheEndOnlyAfterAChunk
  <2> SUFFICES ASSUME Inv, SearchesPastTheEnd \/ parser.pc = "undefined"
               PROVE  /\ parser.receiving_body_in_chunks /\ parser.chunks # <<>>
                      /\ parser.current_line_offset = parser.size
    BY DEF PastTheEndOnlyAfterAChunk
  <2>1. parser.current_line_offset = parser.size /\ parser.chunks # <<>>
    BY OffsetTypes
    DEF Inv, OffsetsOrdered, RoomUntilAChunk, UndefinedAtTheEnd, SearchesPastTheEnd, OffsetsTyped
  <2> QED
    BY <2>1 DEF Inv, RoomUntilAChunk
<1> QED
  BY <1>1, Invariance, PTL

-----------------------------------------------------------------------------
(* A large Content-Length is not trusted: the size of the buffer is accounted  *)
(* for by what was read, up to MaxGrowth once the end of the headers is seen.  *)

Grace == IF parser.body_offset = NotSet THEN 0 ELSE MaxGrowth

AccountedFor ==
    /\ parser.body_offset # NotSet => parser.body_offset <= parser.offset
    /\ parser.receiving_body_in_chunks
         \/ parser.size <= intial_buffer_size + Grace
         \/ parser.size <= Grow(parser.offset + 1) + Grace

\* A buffer that holds more grows to no less.
LEMMA GrowMonotone ==
    \A m, n \in Nat : m <= n => Grow(m) <= Grow(n)
  BY DEF Grow

\* The numbers AccountedFor speaks of.
SizesTyped ==
    /\ parser.offset \in Nat /\ parser.size \in Nat /\ parser.body_offset \in Nat
    /\ intial_buffer_size \in Nat
    /\ Grow(parser.offset + 1) \in Nat
    /\ Grace \in Nat

LEMMA SizeTypes == TypeOK => SizesTyped
<1> SUFFICES ASSUME TypeOK PROVE SizesTyped
  OBVIOUS
<1>1. parser.offset \in Nat /\ parser.size \in Nat /\ parser.body_offset \in Nat
  BY DEF TypeOK, Parsers
<1>2. intial_buffer_size \in Nat /\ MaxGrowth \in Nat
  BY HTTPAssumption DEF TypeOK
<1> QED
  BY <1>1, <1>2, GrowGrows DEF SizesTyped, Grace

\* A step that does not touch the buffer, and does not read less than before.
LEMMA KeepsBuffer ==
    ASSUME TypeOK, AccountedFor,
           intial_buffer_size' = intial_buffer_size,
           parser'.offset \in Nat, parser'.offset >= parser.offset,
           parser'.size = parser.size,
           parser'.body_offset = parser.body_offset,
           parser.receiving_body_in_chunks => parser'.receiving_body_in_chunks
    PROVE  AccountedFor'
<1>1. SizesTyped
  BY SizeTypes
<1>2. Grow(parser.offset + 1) <= Grow(parser'.offset + 1) /\ Grow(parser'.offset + 1) \in Nat
  <2>1. parser.offset + 1 \in Nat /\ parser'.offset + 1 \in Nat /\ parser.offset + 1 <= parser'.offset + 1
    BY <1>1 DEF SizesTyped
  <2> QED
    BY <2>1, GrowMonotone, GrowGrows
<1>3. Grace' = Grace
  BY DEF Grace, NotSet
<1> QED
  BY <1>1, <1>2, <1>3 DEF AccountedFor, SizesTyped, NotSet

\* A read of the inner loop that fills the buffer doubles what was read, not what was announced.
LEMMA ReadIsAccountedFor ==
    ASSUME Inv, AccountedFor, UNCHANGED stream, NEW n \in Nat, parser' = AfterRead(n)
    PROVE  AccountedFor'
<1>t. TypeOK /\ SizesTyped /\ stream' = stream /\ parser.offset <= parser.size
  BY SizeTypes DEF Inv, OffsetsOrdered
<1>1. /\ parser'.offset = parser.offset + n
      /\ parser'.size = IF n = Chunk THEN Grow(parser.size) ELSE parser.size
      /\ parser'.body_offset = parser.body_offset
      /\ parser'.receiving_body_in_chunks = parser.receiving_body_in_chunks
  BY <1>t DEF AfterRead, TypeOK, Parsers
<1>2. parser'.offset \in Nat /\ parser'.offset >= parser.offset
  BY <1>t, <1>1 DEF SizesTyped
<1>3. CASE n # Chunk
  BY <1>t, <1>1, <1>2, <1>3, KeepsBuffer DEF stream
<1>4. CASE n = Chunk
  <2>1. parser.receiving_body_in_chunks \/ parser.offset < parser.size
    BY DEF Inv, RoomUntilAChunk
  <2>2. parser.offset < parser.size => parser'.size = Grow(parser'.offset + 1)
    <3>1. parser.offset < parser.size => parser'.offset + 1 = parser.size
      BY <1>t, <1>1, <1>4 DEF Chunk, SizesTyped
    <3> QED
      BY <1>1, <1>4, <3>1
  <2>3. Grow(parser'.offset + 1) \in Nat /\ Grace' = Grace
    BY <1>1, <1>2, GrowGrows DEF Grace, NotSet
  <2>4. parser'.receiving_body_in_chunks \/ parser'.size <= Grow(parser'.offset + 1) + Grace'
    BY <1>t, <1>1, <2>1, <2>2, <2>3 DEF SizesTyped
  <2>5. parser'.body_offset # NotSet' => parser'.body_offset <= parser'.offset
    BY <1>t, <1>1, <1>2 DEF AccountedFor, SizesTyped, NotSet
  <2> QED
    BY <2>4, <2>5 DEF AccountedFor
<1> QED
  BY <1>3, <1>4

\* Every step keeps the size of the buffer accounted for.
LEMMA AccountedStep == Inv /\ AccountedFor /\ [Next]_vars => AccountedFor'
<1> SUFFICES ASSUME Inv, AccountedFor, [Next]_vars PROVE AccountedFor'
  OBVIOUS
<1> USE DEF SizesTyped
<1>t. TypeOK /\ SizesTyped /\ SizeMax \in Nat /\ MaxGrowth \in Nat /\ msg \in Messages
  BY SizeTypes, HTTPAssumption DEF Inv, TypeOK
<1>1. CASE Peer \/ UNCHANGED vars
  <2>1. parser' = parser /\ intial_buffer_size' = intial_buffer_size
    BY <1>1 DEF Peer, PeerSends, PeerEnds, vars, stream
  <2> QED
    BY <1>t, <2>1, KeepsBuffer
<1>2. ASSUME NEW n \in Nat, ReadSome(n) PROVE AccountedFor'
  BY <1>2, ReadIsAccountedFor DEF ReadSome
<1>3. CASE ReadNothing
  BY <1>3, ReadIsAccountedFor DEF ReadNothing
\* The steps that change `pc` alone.
<1>4. ASSUME NEW pc, parser' = [parser EXCEPT !.pc = pc], UNCHANGED stream PROVE AccountedFor'
  <2>1. /\ parser'.offset = parser.offset /\ parser'.size = parser.size
        /\ parser'.body_offset = parser.body_offset
        /\ parser'.receiving_body_in_chunks = parser.receiving_body_in_chunks
    BY <1>t, <1>4 DEF TypeOK, Parsers
  <2> QED
    BY <1>t, <1>4, <2>1, KeepsBuffer DEF stream
\* The steps within a chunked body, where nothing is claimed of the size.
<1>5. ASSUME parser.receiving_body_in_chunks, parser'.receiving_body_in_chunks,
             parser'.offset \in Nat, parser'.offset >= parser.offset,
             parser'.body_offset = parser.body_offset
      PROVE  AccountedFor'
  BY <1>t, <1>5 DEF AccountedFor, NotSet
<1>6. ASSUME NEW l \in CurrentLines, ReadRest(l) PROVE AccountedFor'
  <2>1. parser' = WithChunk(l, [parser EXCEPT !.offset = NextOffset(l)]) /\ parser.pc = "rest"
    BY <1>6 DEF ReadRest
  <2>2. NextOffset(l) \in Nat /\ NextOffset(l) > parser.offset /\ parser.receiving_body_in_chunks
    BY <1>t, <2>1, CurrentLineType DEF Inv, RestFits
  <2>3. /\ parser'.offset = NextOffset(l) /\ parser'.body_offset = parser.body_offset
        /\ parser'.receiving_body_in_chunks = parser.receiving_body_in_chunks
    BY <1>t, <2>1 DEF WithChunk, TypeOK, Parsers
  <2> QED
    BY <1>t, <1>5, <2>2, <2>3
<1>7. CASE Read
  BY <1>2, <1>3, <1>4, <1>6, <1>7
  DEF Read, ReadFails, ReadRestFallsShort, ReadRestFails
<1>c. \A l \in LinesFound : /\ l \in CurrentLines
                            /\ NextLineOffset(l) \in Nat /\ NextLineOffset(l) <= parser.offset
                            /\ NextLineOffset(l) # NotSet
                            /\ parser.body_offset = NotSet
  <2> TAKE l \in LinesFound
  <2>1. l \in CurrentLines /\ (parser.body_offset = NotSet \/ parser.offset < parser.body_offset)
    BY DEF LinesFound, LooksForLines
  <2>2. NextLineOffset(l) \in Nat /\ NextLineOffset(l) <= parser.offset /\ l \in msg.lines /\ l \in Lines
    BY <1>t, <2>1, CurrentLineType
  <2>3. NextLineOffset(l) + l.num < SizeMax /\ l.num \in Nat
    BY <1>t, <2>2, HTTPAssumption DEF Lines
  <2> QED
    BY <1>t, <2>1, <2>2, <2>3 DEF AccountedFor, NotSet
<1>8. ASSUME NEW l \in LinesFound, FirstLine(l) \/ SkipBlankLine(l) \/ Header(l) \/ ChunksAreNext(l)
      PROVE  AccountedFor'
  <2>1. /\ parser'.offset = parser.offset /\ parser'.size = parser.size
        /\ parser'.body_offset = parser.body_offset
        /\ parser.receiving_body_in_chunks => parser'.receiving_body_in_chunks
        /\ UNCHANGED stream
    BY <1>t, <1>8
    DEF FirstLine, SkipBlankLine, Header, ChunksAreNext, HandlesLine, TypeOK, Parsers
  <2> QED
    BY <1>t, <2>1, KeepsBuffer DEF stream
<1>9. ASSUME NEW l \in LinesFound, BodyIsNext(l) PROVE AccountedFor'
  <2> DEFINE cap == NextLineOffset(l)
                      + (IF parser.body_length = NotSet THEN 0 ELSE parser.body_length)
             size == IF parser.body_length = NotSet THEN parser.size ELSE SizeForBody(cap)
  <2>1. cap \in Nat
    BY <1>t, <1>c DEF TypeOK, Parsers
  <2>2. size \in Nat /\ size <= parser.size + MaxGrowth
    BY <1>t, <2>1 DEF SizeForBody
  <2>3. /\ parser' = [[parser EXCEPT !.body_offset = NextLineOffset(l), !.length_cap = cap,
                                     !.size = size]
                        EXCEPT !.current_line_offset = NextLineOffset(l)]
        /\ UNCHANGED stream
    BY <1>9 DEF BodyIsNext, HandlesLine
  <2> HIDE DEF cap, size
  <2>4. /\ parser'.offset = parser.offset /\ parser'.size = size
        /\ parser'.body_offset = NextLineOffset(l)
        /\ parser'.receiving_body_in_chunks = parser.receiving_body_in_chunks
    BY <1>t, <2>3 DEF TypeOK, Parsers
  <2>5. Grace = 0 /\ Grace' = MaxGrowth
    BY <1>c, <2>4 DEF Grace, NotSet
  <2>6. /\ parser'.body_offset <= parser'.offset
        /\ intial_buffer_size' = intial_buffer_size
        /\ Grow(parser'.offset + 1) = Grow(parser.offset + 1)
    BY <1>c, <2>3, <2>4 DEF stream
  <2> QED
    BY <1>t, <2>2, <2>4, <2>5, <2>6 DEF AccountedFor
<1>10. ASSUME NEW l \in LinesFound, ChunkIsThere(l) \/ ChunkHasARest(l) PROVE AccountedFor'
  <2>1. /\ parser'.offset = parser.offset /\ parser'.body_offset = parser.body_offset
        /\ parser'.receiving_body_in_chunks = parser.receiving_body_in_chunks
        /\ parser.receiving_body_in_chunks
    BY <1>t, <1>10 DEF ChunkIsThere, ChunkHasARest, IsChunkSize, WithChunk, TypeOK, Parsers
  <2> QED
    BY <1>t, <1>5, <2>1
<1>11. CASE Parse
  BY <1>4, <1>8, <1>9, <1>10, <1>11 DEF Parse, LastChunk, NoMoreLines, StrstrPastTheEnd
<1> QED
  BY <1>1, <1>7, <1>11 DEF Next

\* Whatever Content-Length says, the buffer is at most MaxGrowth larger than the initial
\* buffer, or than the growth of a buffer filled with what was read, accounts for.
THEOREM LengthIsNotTrusted == Spec => []ContentLengthIsNotTrusted
<1>1. Init => AccountedFor
  <2> SUFFICES ASSUME Init PROVE AccountedFor
    OBVIOUS
  <2>1. parser.body_offset = NotSet /\ parser.size = intial_buffer_size
    BY DEF Init, Start
  <2>2. intial_buffer_size \in Nat
    BY HTTPAssumption DEF Init
  <2> QED
    BY <2>1, <2>2 DEF AccountedFor, Grace
<1>2. Inv /\ AccountedFor => ContentLengthIsNotTrusted
  <2> SUFFICES ASSUME Inv, AccountedFor, ~parser.receiving_body_in_chunks
               PROVE  \E s \in {intial_buffer_size, Grow(parser.offset + 1)} :
                        parser.size <= s + MaxGrowth
    BY DEF ContentLengthIsNotTrusted
  <2>1. SizesTyped /\ MaxGrowth \in Nat
    BY SizeTypes, HTTPAssumption DEF Inv
  <2>2. \/ parser.size <= intial_buffer_size + MaxGrowth
        \/ parser.size <= Grow(parser.offset + 1) + MaxGrowth
    BY <2>1 DEF AccountedFor, SizesTyped, Grace
  <2> QED
    BY <2>2
<1> QED
  BY <1>1, <1>2, InvInit, InvStep, AccountedStep, PTL DEF Spec

-----------------------------------------------------------------------------
(* The end of the constructor.  Liveness needs fairness, which is out of the prover's reach; *)
(* what fairness needs of the code, a measure that each step lowers, is proved here.          *)

\* A bound on the steps the constructor still takes unless more is sent.
StepsLeft ==
    (3 * (sent - parser.offset)) + (sent - parser.current_line_offset)
    + (CASE parser.pc = "parse" -> 3
         [] parser.pc = "rest" -> 2
         [] parser.pc = "read" -> IF Chunk = 0 THEN 2 ELSE 1
         [] OTHER -> 0)

\* Each step of the constructor leaves fewer to be taken, and nobody adds any once the peer has ended.
ComesCloser ==
    /\ parser' # parser => StepsLeft' < StepsLeft
    /\ peer # "open" => StepsLeft' <= StepsLeft

LEMMA StepsLeftType == Inv => StepsLeft \in Nat
<1> SUFFICES ASSUME Inv PROVE StepsLeft \in Nat
  OBVIOUS
<1>1. /\ parser.offset \in Nat /\ sent \in Nat /\ parser.current_line_offset \in Nat
      /\ parser.current_line_offset <= parser.offset /\ parser.offset <= sent
  BY OffsetTypes DEF Inv, OffsetsTyped, OffsetsOrdered
<1> QED
  BY <1>1 DEF StepsLeft

LEMMA StepsLeftTypeNext == Inv' => (StepsLeft \in Nat)'
  BY StepsLeftType, PTL

\* What is sent in the meantime costs at most four steps a byte.
LEMMA BytesCostSteps ==
    ASSUME Inv, parser' = parser, sent' \in Nat
    PROVE  StepsLeft' = StepsLeft + 4 * (sent' - sent)
<1>1. /\ parser.offset \in Nat /\ sent \in Nat /\ parser.current_line_offset \in Nat
  BY OffsetTypes DEF Inv, OffsetsTyped
<1>2. Chunk' = Chunk
  BY DEF Chunk
<1> DEFINE phase == CASE parser.pc = "parse" -> 3 [] parser.pc = "rest" -> 2
                      [] parser.pc = "read" -> IF Chunk = 0 THEN 2 ELSE 1 [] OTHER -> 0
<1>3. /\ phase \in Nat
      /\ StepsLeft = (3 * (sent - parser.offset)) + (sent - parser.current_line_offset) + phase
      /\ StepsLeft' = (3 * (sent' - parser.offset)) + (sent' - parser.current_line_offset) + phase
  BY <1>2 DEF StepsLeft
<1> HIDE DEF phase
<1> QED
  BY <1>1, <1>3

\* A step that leaves the message as it is, reads `n` bytes and goes on where it is or further.
LEMMA Advances ==
    ASSUME NEW n \in Nat, Inv, UNCHANGED stream,
           parser'.offset = parser.offset + n,
           parser'.current_line_offset \in Nat,
           parser'.current_line_offset >= parser.current_line_offset,
           parser.pc \in {"read", "parse", "rest"},
           \/ n > 0
           \/ parser'.pc \in Ended
           \/ parser.pc = "parse" /\ parser'.pc \in {"read", "rest"}
           \/ parser.pc = "parse" /\ parser'.pc = "parse"
                /\ parser'.current_line_offset > parser.current_line_offset
           \/ parser.pc = "read" /\ parser'.pc = "read" /\ Chunk = 0 /\ Chunk' # 0,
           parser'.pc \in {"read", "parse", "rest"} \union Ended
    PROVE  StepsLeft' < StepsLeft
<1>1. /\ parser.offset \in Nat /\ sent \in Nat /\ parser.current_line_offset \in Nat
      /\ sent' = sent
  BY OffsetTypes DEF Inv, OffsetsTyped, stream
<1> DEFINE phase(pc, chunk) ==
             CASE pc = "parse" -> 3 [] pc = "rest" -> 2
               [] pc = "read" -> IF chunk = 0 THEN 2 ELSE 1 [] OTHER -> 0
<1>2. /\ phase(parser.pc, Chunk) \in 1..3 /\ phase(parser'.pc, Chunk') \in 0..3
      /\ n = 0 => phase(parser'.pc, Chunk') <= phase(parser.pc, Chunk)
      /\ n = 0 => \/ phase(parser'.pc, Chunk') < phase(parser.pc, Chunk)
                  \/ parser'.current_line_offset > parser.current_line_offset
  BY <1>1 DEF Ended
<1>3. /\ StepsLeft = (3 * (sent - parser.offset)) + (sent - parser.current_line_offset)
                       + phase(parser.pc, Chunk)
      /\ StepsLeft' = (3 * (sent' - parser'.offset)) + (sent' - parser'.current_line_offset)
                       + phase(parser'.pc, Chunk')
  BY DEF StepsLeft
<1> HIDE DEF phase
<1> QED
  BY <1>1, <1>2, <1>3


LEMMA ReadComesCloser ==
    ASSUME Inv, TypeOK', Read
    PROVE  StepsLeft' < StepsLeft
<1>t. /\ TypeOK /\ parser \in Parsers
      /\ parser.offset \in Nat /\ parser.size \in Nat /\ parser.current_line_offset \in Nat
      /\ parser.offset <= parser.size /\ parser.size > 1 /\ SizeMax \in Nat \ {0}
  <2>1. SizeMax \in Nat /\ msg.total \in Nat /\ msg.total < SizeMax
    BY HTTPAssumption, MessageAssumption DEF Inv, TypeOK
  <2> QED
    BY <2>1, OffsetTypes DEF Inv, TypeOK, OffsetsTyped, OffsetsOrdered
<1>n. 0 \in Nat /\ \A n \in 1..msg.total : n \in Nat /\ n > 0
  BY <1>t, HTTPAssumption DEF TypeOK
<1>1. ASSUME NEW n \in 1..msg.total, ReadSome(n) PROVE StepsLeft' < StepsLeft
  <2>1. /\ parser.pc = "read" /\ parser'.offset = parser.offset + n /\ UNCHANGED stream
        /\ parser'.current_line_offset = parser.current_line_offset
        /\ parser'.pc \in {"read", "parse", "rest"} \union Ended
    BY <1>t, <1>1 DEF ReadSome, AfterRead, Parsers, Ended
  <2> QED
    BY <1>t, <1>n, <2>1, Advances
\* Of the reads that return nothing, one that asked for nothing has made room for the next.
<1>2. CASE ReadNothing
  <2>1. /\ parser.pc = "read" /\ UNCHANGED stream /\ parser' = AfterRead(0)
        /\ parser'.offset = parser.offset + 0
        /\ parser'.current_line_offset = parser.current_line_offset
    BY <1>t, <1>2 DEF ReadNothing, AfterRead, Parsers
  <2>2. CASE Chunk = 0
    <3>1. parser'.pc = "read" /\ parser'.size = Grow(parser.size) /\ parser'.offset = parser.offset
      BY <1>t, <2>1, <2>2 DEF AfterRead, Parsers
    <3>2. parser.offset = parser.size - 1
      BY <1>t, <2>2 DEF Chunk
    <3>3. Grow(parser.size) \in Nat /\ Grow(parser.size) > parser.size
      BY <1>t, GrowGrows
    <3>4. Chunk' # 0
      BY <1>t, <3>1, <3>2, <3>3 DEF Chunk
    <3> QED
      BY <1>t, <1>n, <2>1, <2>2, <3>1, <3>4, Advances
  <2>3. CASE Chunk # 0
    <3>1. parser'.pc \in Ended
      BY <1>t, <2>1, <2>3 DEF AfterRead, Parsers, Ended
    <3> QED
      BY <1>t, <1>n, <2>1, <3>1, Advances
  <2> QED
    BY <2>2, <2>3
<1>3. CASE ReadFails \/ ReadRestFails \/ \E l \in CurrentLines : ReadRestFallsShort(l)
  <2>1. /\ parser.pc \in {"read", "rest"} /\ UNCHANGED stream /\ parser'.pc \in Ended
        /\ parser'.offset = parser.offset + 0
        /\ parser'.current_line_offset = parser.current_line_offset
    BY <1>t, <1>3 DEF ReadFails, ReadRestFails, ReadRestFallsShort, Parsers, Ended
  <2> QED
    BY <1>t, <1>n, <2>1, Advances
<1>4. ASSUME NEW l \in CurrentLines, ReadRest(l) PROVE StepsLeft' < StepsLeft
  <2>1. /\ NextOffset(l) \in Nat /\ parser.offset < NextOffset(l)
        /\ parser.current_line_offset <= parser.offset
    BY <1>t, <1>4, CurrentLineType DEF ReadRest, Inv, RestFits, OffsetsOrdered
  <2>2. /\ parser.pc = "rest" /\ UNCHANGED stream /\ parser'.pc = "parse"
        /\ parser'.offset = NextOffset(l) /\ parser'.current_line_offset = NextOffset(l)
    BY <1>t, <1>4, <2>1 DEF ReadRest, WithChunk, Parsers
  <2>3. /\ NextOffset(l) - parser.offset \in Nat /\ NextOffset(l) - parser.offset > 0
        /\ parser'.offset = parser.offset + (NextOffset(l) - parser.offset)
        /\ parser'.current_line_offset >= parser.current_line_offset
    BY <1>t, <2>1, <2>2
  <2> QED
    BY <2>1, <2>2, <2>3, Advances
<1> QED
  BY <1>1, <1>2, <1>3, <1>4 DEF Read

LEMMA ParseComesCloser ==
    ASSUME Inv, TypeOK', Parse
    PROVE  StepsLeft' < StepsLeft
<1>t. /\ TypeOK /\ parser \in Parsers /\ 0 \in Nat
      /\ parser.offset \in Nat /\ parser.current_line_offset \in Nat
  BY OffsetTypes DEF Inv, TypeOK, OffsetsTyped
<1>f. \A l \in LinesFound :
        /\ parser.pc = "parse"
        /\ NextLineOffset(l) \in Nat /\ NextLineOffset(l) > parser.current_line_offset
        /\ NextOffset(l) \in Nat /\ NextOffset(l) > parser.current_line_offset
  <2> TAKE l \in LinesFound
  <2>1. l \in CurrentLines /\ parser.pc = "parse"
    BY DEF LinesFound, LooksForLines
  <2>2. l \in Lines /\ l.at = parser.current_line_offset /\ l.at <= l.crlf
    BY <1>t, <2>1, CurrentLineType
  <2> QED
    BY <2>1, <2>2 DEF Lines, NextOffset, NextLineOffset, kCRLFLength
\* The constructor goes on behind the line it is at.
<1>1. ASSUME parser.pc = "parse", UNCHANGED stream, parser'.pc = "parse",
             parser'.offset = parser.offset, parser'.current_line_offset \in Nat,
             parser'.current_line_offset > parser.current_line_offset
      PROVE  StepsLeft' < StepsLeft
  <2>1. parser'.offset = parser.offset + 0
    BY <1>t, <1>1
  <2> QED
    BY <1>t, <1>1, <2>1, Advances
<1>2. ASSUME NEW l \in LinesFound, FirstLine(l) \/ SkipBlankLine(l) \/ Header(l)
      PROVE  StepsLeft' < StepsLeft
  <2>1. /\ UNCHANGED stream /\ parser'.pc = "parse" /\ parser'.offset = parser.offset
        /\ parser'.current_line_offset = NextLineOffset(l)
    BY <1>t, <1>f, <1>2 DEF FirstLine, SkipBlankLine, Header, HandlesLine, Parsers
  <2> QED
    BY <1>1, <1>f, <2>1
<1>3. ASSUME NEW l \in LinesFound, BodyIsNext(l) \/ ChunksAreNext(l)
      PROVE  StepsLeft' < StepsLeft
  <2>1. /\ UNCHANGED stream /\ parser'.pc = "parse" /\ parser'.offset = parser.offset
        /\ parser'.current_line_offset = NextLineOffset(l)
    BY <1>t, <1>f, <1>3 DEF BodyIsNext, ChunksAreNext, HandlesLine, Parsers
  <2> QED
    BY <1>1, <1>f, <2>1
<1>4. ASSUME NEW l \in LinesFound, ChunkIsThere(l) PROVE StepsLeft' < StepsLeft
  <2>1. /\ UNCHANGED stream /\ parser'.pc = "parse" /\ parser'.offset = parser.offset
        /\ parser'.current_line_offset = NextOffset(l)
    BY <1>t, <1>f, <1>4 DEF ChunkIsThere, WithChunk, Parsers
  <2> QED
    BY <1>1, <1>f, <2>1
\* The constructor ends, or goes back to reading.
<1>5. ASSUME parser.pc = "parse", UNCHANGED stream, parser'.pc \in {"read", "rest"} \union Ended,
             parser'.offset = parser.offset,
             parser'.current_line_offset = parser.current_line_offset
      PROVE  StepsLeft' < StepsLeft
  <2>1. parser'.offset = parser.offset + 0
    BY <1>t, <1>5
  <2> QED
    BY <1>t, <1>5, <2>1, Advances
<1>6. ASSUME NEW l \in LinesFound, LastChunk(l) \/ ChunkHasARest(l) PROVE StepsLeft' < StepsLeft
  BY <1>t, <1>f, <1>5, <1>6 DEF LastChunk, ChunkHasARest, Parsers, Ended
<1>7. CASE NoMoreLines
  BY <1>t, <1>5, <1>7 DEF NoMoreLines, Parsers, Ended
<1>8. CASE StrstrPastTheEnd
  BY <1>t, <1>5, <1>8 DEF StrstrPastTheEnd, SearchesPastTheEnd, LooksForLines, Parsers, Ended
<1> QED
  BY <1>2, <1>3, <1>4, <1>6, <1>7, <1>8 DEF Parse

\* Nothing but more bytes postpones the end of the constructor: it takes at most StepsLeft more
\* steps, and once the peer has ended the stream or is gone, nobody raises that number.
THEOREM ConstructorEndsInTime == Spec => [](StepsLeft \in Nat) /\ [][ComesCloser]_vars
<1>1. Inv /\ [Next]_vars => [ComesCloser]_vars
  <2> SUFFICES ASSUME Inv, Next PROVE ComesCloser
    OBVIOUS
  <2>1. StepsLeft \in Nat /\ Inv' /\ StepsLeft' \in Nat
    BY StepsLeftType, StepsLeftTypeNext, InvStep
  <2>2. CASE Read \/ Parse
    <3>1. StepsLeft' < StepsLeft
      BY <2>1, <2>2, ReadComesCloser, ParseComesCloser DEF Inv
    <3> QED
      BY <2>1, <3>1 DEF ComesCloser
  <2>3. CASE Peer
    <3>1. parser' = parser /\ (peer # "open" => sent' = sent)
      BY <2>3 DEF Peer, PeerSends, PeerEnds
    <3>2. peer # "open" => StepsLeft' = StepsLeft
      BY <3>1 DEF StepsLeft, Chunk
    <3> QED
      BY <2>1, <3>1, <3>2 DEF ComesCloser
  <2> QED
    BY <2>2, <2>3 DEF Next
<1> QED
  BY <1>1, StepsLeftType, InvInit, InvStep, PTL DEF Spec

=============================================================================
