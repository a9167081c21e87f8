------------------------- MODULE HTTPExchangeProofs -------------------------
(***************************************************************************)
(* Proofs about HTTPExchange, for every set of exchanges.  What each thread *)
(* parses is what HTTPParsingProofs proves of its constructor, against a    *)
(* peer that is the other thread.  The last part is how an exchange ends.   *)
(***************************************************************************)
EXTENDS HTTPExchange, WellFoundedInduction, TLAPS

ServerProofs == INSTANCE HTTPParsingProofs WITH
    Messages <- Requests, InitialBufferSizes <- Buffers,
    msg <- exchange.request, intial_buffer_size <- exchange.buffer,
    sent <- c2s, peer <- c2sEnd, parser <- srv
ClientProofs == INSTANCE HTTPParsingProofs WITH
    Messages <- Responses, InitialBufferSizes <- Buffers,
    msg <- exchange.response, intial_buffer_size <- exchange.buffer,
    sent <- s2c, peer <- s2cEnd, parser <- cli

-----------------------------------------------------------------------------
(* Writes.                                                                    *)

\* A set of numbers that is not empty has a smallest one.
LEMMA SmallestMember ==
    ASSUME NEW S, S \subseteq Nat, S # {}
    PROVE  \E x \in S : \A y \in S : x <= y
<1> DEFINE Less == {ss \in Nat \X Nat : ss[1] < ss[2]}
<1>1. OpToRel(<, Nat) = Less
  BY DEF OpToRel
<1>2. IsWellFoundedOn(Less, Nat)
  BY <1>1, NatLessThanWellFounded, Zenon
<1>3. PICK x \in S : \A y \in S : <<y, x>> \notin Less
  <2> HIDE DEF Less
  <2> QED
    BY <1>2, WFMin
<1>4. \A y \in S : x <= y
  <2> TAKE y \in S
  <2>1. <<y, x>> \notin Less /\ x \in Nat /\ y \in Nat
    BY <1>3
  <2> QED
    BY <2>1
<1> QED
  BY <1>4

\* A BlockingWrite writes more of the message, and no more than it.
LEMMA AfterNextWriteFacts ==
    ASSUME NEW e \in Exchanges, NEW m \in {e.request, e.response},
           m.total \in Nat, NEW n \in Nat, n < m.total
    PROVE  AfterNextWrite(m, n) \in m.writes \intersect (0..m.total) /\ AfterNextWrite(m, n) > n
<1> DEFINE later == {end \in m.writes : end > n}
<1>1. m.writes \subseteq 1..m.total /\ m.total \in m.writes
  BY ExchangeAssumption
<1>2. later \subseteq Nat /\ later # {}
  BY <1>1
<1>3. PICK end \in later : \A k \in later : end <= k
  BY <1>2, SmallestMember
<1>4. \E k \in m.writes : k > n /\ \A j \in m.writes : j > n => k <= j
  BY <1>3
<1>5. AfterNextWrite(m, n) \in m.writes /\ AfterNextWrite(m, n) > n
  BY <1>4 DEF AfterNextWrite
<1> QED
  BY <1>1, <1>5

-----------------------------------------------------------------------------
(* The two names of a parser: the instance of the model, and that of the      *)
(* proofs.  They have the same definitions.                                    *)

\* The server's messages are those the proofs about its constructor are for.
LEMMA ServerAssumptions == ServerProofs!HTTPAssumption /\ ServerProofs!MessageAssumption
<1>1. ServerMessage!HTTPAssumption /\ ServerMessage!MessageAssumption
  BY ExchangeAssumption
<1> QED
  BY <1>1
  DEF ServerMessage!HTTPAssumption, ServerMessage!MessageAssumption, ServerMessage!Lines,
      ServerMessage!HeaderKeys, ServerMessage!NextLineOffset, ServerMessage!kCRLFLength,
      ServerMessage!IsMeantBy, ServerMessage!IsNextText, ServerMessage!EndsHeaders,
      ServerMessage!IsBlank, ServerMessage!Within, ServerMessage!Offsets,
      ServerMessage!HasChunked, ServerMessage!ContentLengths, ServerMessage!IsChunkedBody,
      ServerMessage!EndOfChunks, ServerMessage!ChunkAfter, ServerProofs!HTTPAssumption,
      ServerProofs!MessageAssumption, ServerProofs!Lines, ServerProofs!HeaderKeys,
      ServerProofs!NextLineOffset, ServerProofs!kCRLFLength, ServerProofs!IsMeantBy,
      ServerProofs!IsNextText, ServerProofs!EndsHeaders, ServerProofs!IsBlank,
      ServerProofs!Within, ServerProofs!Offsets, ServerProofs!HasChunked,
      ServerProofs!ContentLengths, ServerProofs!IsChunkedBody, ServerProofs!EndOfChunks,
      ServerProofs!ChunkAfter

\* The states of the server's parser are those of the proofs.
LEMMA ServerStates ==
    /\ ServerMessage!TypeOK <=> ServerProofs!TypeOK
    /\ (ServerMessage!TypeOK <=> ServerProofs!TypeOK)'
    /\ ServerMessage!ResultIsWhatWasSent <=> ServerProofs!ResultIsWhatWasSent
    /\ \A n : ServerMessage!Start(n) = ServerProofs!Start(n)
  BY DEF ServerMessage!TypeOK, ServerMessage!Parsers, ServerMessage!Ended, ServerMessage!Init,
      ServerMessage!Start, ServerMessage!NotSet, ServerMessage!ResultIsWhatWasSent,
      ServerMessage!Result, ServerMessage!HasBody, ServerMessage!Body, ServerProofs!TypeOK,
      ServerProofs!Parsers, ServerProofs!Ended, ServerProofs!Init, ServerProofs!Start,
      ServerProofs!NotSet, ServerProofs!ResultIsWhatWasSent, ServerProofs!Result,
      ServerProofs!HasBody, ServerProofs!Body

\* Its steps are steps of theirs.
LEMMA ServerSteps ==
    ServerMessage!Read \/ ServerMessage!Parse => ServerProofs!Read \/ ServerProofs!Parse
  BY DEF ServerMessage!Read, ServerMessage!ReadSome, ServerMessage!ReadNothing,
      ServerMessage!ReadFails, ServerMessage!ReadRest, ServerMessage!ReadRestFallsShort,
      ServerMessage!ReadRestFails, ServerMessage!Parse, ServerMessage!FirstLine,
      ServerMessage!SkipBlankLine, ServerMessage!Header, ServerMessage!BodyIsNext,
      ServerMessage!ChunksAreNext, ServerMessage!LastChunk, ServerMessage!ChunkIsThere,
      ServerMessage!ChunkHasARest, ServerMessage!NoMoreLines, ServerMessage!StrstrPastTheEnd,
      ServerMessage!HandlesLine, ServerMessage!stream, ServerMessage!Chunk,
      ServerMessage!AfterRead, ServerMessage!Grow, ServerMessage!AtEOF,
      ServerMessage!LooksForLines, ServerMessage!CurrentLines,
      ServerMessage!SearchesPastTheEnd, ServerMessage!LinesFound, ServerMessage!IsBlank,
      ServerMessage!NextLineOffset, ServerMessage!kCRLFLength, ServerMessage!NotSet,
      ServerMessage!InHeaders, ServerMessage!SizeForBody, ServerMessage!MoreToRead,
      ServerMessage!IsChunkSize, ServerMessage!NextOffset, ServerMessage!WithChunk,
      ServerMessage!HasBeenRead, ServerMessage!SizeForChunk, ServerProofs!Read,
      ServerProofs!ReadSome, ServerProofs!ReadNothing, ServerProofs!ReadFails,
      ServerProofs!ReadRest, ServerProofs!ReadRestFallsShort, ServerProofs!ReadRestFails,
      ServerProofs!Parse, ServerProofs!FirstLine, ServerProofs!SkipBlankLine,
      ServerProofs!Header, ServerProofs!BodyIsNext, ServerProofs!ChunksAreNext,
      ServerProofs!LastChunk, ServerProofs!ChunkIsThere, ServerProofs!ChunkHasARest,
      ServerProofs!NoMoreLines, ServerProofs!StrstrPastTheEnd, ServerProofs!HandlesLine,
      ServerProofs!stream, ServerProofs!Chunk, ServerProofs!AfterRead, ServerProofs!Grow,
      ServerProofs!AtEOF, ServerProofs!LooksForLines, ServerProofs!CurrentLines,
      ServerProofs!SearchesPastTheEnd, ServerProofs!LinesFound, ServerProofs!IsBlank,
      ServerProofs!NextLineOffset, ServerProofs!kCRLFLength, ServerProofs!NotSet,
      ServerProofs!InHeaders, ServerProofs!SizeForBody, ServerProofs!MoreToRead,
      ServerProofs!IsChunkSize, ServerProofs!NextOffset, ServerProofs!WithChunk,
      ServerProofs!HasBeenRead, ServerProofs!SizeForChunk

\* The client's messages are those the proofs about its constructor are for.
LEMMA ClientAssumptions == ClientProofs!HTTPAssumption /\ ClientProofs!MessageAssumption
<1>1. ClientMessage!HTTPAssumption /\ ClientMessage!MessageAssumption
  BY ExchangeAssumption
<1> QED
  BY <1>1
  DEF ClientMessage!HTTPAssumption, ClientMessage!MessageAssumption, ClientMessage!Lines,
      ClientMessage!HeaderKeys, ClientMessage!NextLineOffset, ClientMessage!kCRLFLength,
      ClientMessage!IsMeantBy, ClientMessage!IsNextText, ClientMessage!EndsHeaders,
      ClientMessage!IsBlank, ClientMessage!Within, ClientMessage!Offsets,
      ClientMessage!HasChunked, ClientMessage!ContentLengths, ClientMessage!IsChunkedBody,
      ClientMessage!EndOfChunks, ClientMessage!ChunkAfter, ClientProofs!HTTPAssumption,
      ClientProofs!MessageAssumption, ClientProofs!Lines, ClientProofs!HeaderKeys,
      ClientProofs!NextLineOffset, ClientProofs!kCRLFLength, ClientProofs!IsMeantBy,
      ClientProofs!IsNextText, ClientProofs!EndsHeaders, ClientProofs!IsBlank,
      ClientProofs!Within, ClientProofs!Offsets, ClientProofs!HasChunked,
      ClientProofs!ContentLengths, ClientProofs!IsChunkedBody, ClientProofs!EndOfChunks,
      ClientProofs!ChunkAfter

\* The states of the client's parser are those of the proofs.
LEMMA ClientStates ==
    /\ ClientMessage!TypeOK <=> ClientProofs!TypeOK
    /\ (ClientMessage!TypeOK <=> ClientProofs!TypeOK)'
    /\ ClientMessage!ResultIsWhatWasSent <=> ClientProofs!ResultIsWhatWasSent
    /\ \A n : ClientMessage!Start(n) = ClientProofs!Start(n)
  BY DEF ClientMessage!TypeOK, ClientMessage!Parsers, ClientMessage!Ended, ClientMessage!Init,
      ClientMessage!Start, ClientMessage!NotSet, ClientMessage!ResultIsWhatWasSent,
      ClientMessage!Result, ClientMessage!HasBody, ClientMessage!Body, ClientProofs!TypeOK,
      ClientProofs!Parsers, ClientProofs!Ended, ClientProofs!Init, ClientProofs!Start,
      ClientProofs!NotSet, ClientProofs!ResultIsWhatWasSent, ClientProofs!Result,
      ClientProofs!HasBody, ClientProofs!Body

\* Its steps are steps of theirs.
LEMMA ClientSteps ==
    ClientMessage!Read \/ ClientMessage!Parse => ClientProofs!Read \/ ClientProofs!Parse
  BY DEF ClientMessage!Read, ClientMessage!ReadSome, ClientMessage!ReadNothing,
      ClientMessage!ReadFails, ClientMessage!ReadRest, ClientMessage!ReadRestFallsShort,
      ClientMessage!ReadRestFails, ClientMessage!Parse, ClientMessage!FirstLine,
      ClientMessage!SkipBlankLine, ClientMessage!Header, ClientMessage!BodyIsNext,
      ClientMessage!ChunksAreNext, ClientMessage!LastChunk, ClientMessage!ChunkIsThere,
      ClientMessage!ChunkHasARest, ClientMessage!NoMoreLines, ClientMessage!StrstrPastTheEnd,
      ClientMessage!HandlesLine, ClientMessage!stream, ClientMessage!Chunk,
      ClientMessage!AfterRead, ClientMessage!Grow, ClientMessage!AtEOF,
      ClientMessage!LooksForLines, ClientMessage!CurrentLines,
      ClientMessage!SearchesPastTheEnd, ClientMessage!LinesFound, ClientMessage!IsBlank,
      ClientMessage!NextLineOffset, ClientMessage!kCRLFLength, ClientMessage!NotSet,
      ClientMessage!InHeaders, ClientMessage!SizeForBody, ClientMessage!MoreToRead,
      ClientMessage!IsChunkSize, ClientMessage!NextOffset, ClientMessage!WithChunk,
      ClientMessage!HasBeenRead, ClientMessage!SizeForChunk, ClientProofs!Read,
      ClientProofs!ReadSome, ClientProofs!ReadNothing, ClientProofs!ReadFails,
      ClientProofs!ReadRest, ClientProofs!ReadRestFallsShort, ClientProofs!ReadRestFails,
      ClientProofs!Parse, ClientProofs!FirstLine, ClientProofs!SkipBlankLine,
      ClientProofs!Header, ClientProofs!BodyIsNext, ClientProofs!ChunksAreNext,
      ClientProofs!LastChunk, ClientProofs!ChunkIsThere, ClientProofs!ChunkHasARest,
      ClientProofs!NoMoreLines, ClientProofs!StrstrPastTheEnd, ClientProofs!HandlesLine,
      ClientProofs!stream, ClientProofs!Chunk, ClientProofs!AfterRead, ClientProofs!Grow,
      ClientProofs!AtEOF, ClientProofs!LooksForLines, ClientProofs!CurrentLines,
      ClientProofs!SearchesPastTheEnd, ClientProofs!LinesFound, ClientProofs!IsBlank,
      ClientProofs!NextLineOffset, ClientProofs!kCRLFLength, ClientProofs!NotSet,
      ClientProofs!InHeaders, ClientProofs!SizeForBody, ClientProofs!MoreToRead,
      ClientProofs!IsChunkSize, ClientProofs!NextOffset, ClientProofs!WithChunk,
      ClientProofs!HasBeenRead, ClientProofs!SizeForChunk

\* What a message is, is the same for both.
LEMMA ServerMeans ==
    /\ \A m, f, b : ServerMessage!IsMeantBy(m, f, b) <=> ServerProofs!IsMeantBy(m, f, b)
    /\ \A m, f, b, end : ServerMessage!IsEnd(m, f, b, end) <=> ServerProofs!IsEnd(m, f, b, end)
    /\ \A m : ServerMessage!IsWhole(m) <=> ServerProofs!IsWhole(m)
    /\ \A m : ServerMessage!IsChunked(m) <=> ServerProofs!IsChunked(m)
    /\ \A n : ServerMessage!Grow(n) = ServerProofs!Grow(n)
    /\ ServerMessage!FilledByTheEnd <=> ServerProofs!FilledByTheEnd
  BY DEF ServerMessage!IsWhole, ServerMessage!IsMeantBy, ServerMessage!IsAllThere,
      ServerMessage!IsEnd, ServerMessage!IsChunked, ServerMessage!IsNextText,
      ServerMessage!EndsHeaders, ServerMessage!IsBlank, ServerMessage!Within,
      ServerMessage!Offsets, ServerMessage!HasChunked, ServerMessage!ContentLengths,
      ServerMessage!IsChunkedBody, ServerMessage!EndOfChunks, ServerMessage!ChunkAfter,
      ServerMessage!LineAt, ServerMessage!LinesFollow, ServerMessage!NextLineOffset,
      ServerMessage!kCRLFLength, ServerMessage!Grow, ServerProofs!IsWhole,
      ServerProofs!IsMeantBy, ServerProofs!IsAllThere, ServerProofs!IsEnd,
      ServerProofs!IsChunked, ServerProofs!IsNextText, ServerProofs!EndsHeaders,
      ServerProofs!IsBlank, ServerProofs!Within, ServerProofs!Offsets,
      ServerProofs!HasChunked, ServerProofs!ContentLengths, ServerProofs!IsChunkedBody,
      ServerProofs!EndOfChunks, ServerProofs!ChunkAfter, ServerProofs!LineAt,
      ServerProofs!LinesFollow, ServerProofs!NextLineOffset, ServerProofs!kCRLFLength,
      ServerProofs!Grow,
      ServerMessage!FilledByTheEnd, ServerProofs!FilledByTheEnd

\* It is the same for the client.
LEMMA ClientMeans ==
    /\ \A m, f, b : ServerMessage!IsMeantBy(m, f, b) <=> ClientProofs!IsMeantBy(m, f, b)
    /\ \A m, f, b, end : ServerMessage!IsEnd(m, f, b, end) <=> ClientProofs!IsEnd(m, f, b, end)
    /\ \A m : ServerMessage!IsWhole(m) <=> ClientProofs!IsWhole(m)
    /\ \A m : ServerMessage!IsChunked(m) <=> ClientProofs!IsChunked(m)
    /\ \A n : ServerMessage!Grow(n) = ClientProofs!Grow(n)
    /\ \A m : ClientMessage!IsChunked(m) <=> ClientProofs!IsChunked(m)
    /\ ClientMessage!FilledByTheEnd <=> ClientProofs!FilledByTheEnd
  BY DEF ServerMessage!IsWhole, ServerMessage!IsMeantBy, ServerMessage!IsAllThere,
      ServerMessage!IsEnd, ServerMessage!IsChunked, ServerMessage!IsNextText,
      ServerMessage!EndsHeaders, ServerMessage!IsBlank, ServerMessage!Within,
      ServerMessage!Offsets, ServerMessage!HasChunked, ServerMessage!ContentLengths,
      ServerMessage!IsChunkedBody, ServerMessage!EndOfChunks, ServerMessage!ChunkAfter,
      ServerMessage!LineAt, ServerMessage!LinesFollow, ServerMessage!NextLineOffset,
      ServerMessage!kCRLFLength, ServerMessage!Grow, ClientProofs!IsWhole,
      ClientProofs!IsMeantBy, ClientProofs!IsAllThere, ClientProofs!IsEnd,
      ClientProofs!IsChunked, ClientProofs!IsNextText, ClientProofs!EndsHeaders,
      ClientProofs!IsBlank, ClientProofs!Within, ClientProofs!Offsets,
      ClientProofs!HasChunked, ClientProofs!ContentLengths, ClientProofs!IsChunkedBody,
      ClientProofs!EndOfChunks, ClientProofs!ChunkAfter, ClientProofs!LineAt,
      ClientProofs!LinesFollow, ClientProofs!NextLineOffset, ClientProofs!kCRLFLength,
      ClientProofs!Grow,
      ClientProofs!FilledByTheEnd, ClientMessage!IsChunked, ClientMessage!IsMeantBy,
      ClientMessage!IsNextText, ClientMessage!EndsHeaders, ClientMessage!IsBlank,
      ClientMessage!Within, ClientMessage!Offsets, ClientMessage!HasChunked,
      ClientMessage!ContentLengths, ClientMessage!IsChunkedBody,
      ClientMessage!EndOfChunks, ClientMessage!ChunkAfter, ClientMessage!NextLineOffset,
      ClientMessage!kCRLFLength, ClientMessage!Grow, ClientMessage!FilledByTheEnd

-----------------------------------------------------------------------------
(* The invariant.                                                             *)

\* What both constructors have made of what they have received.
BothParse ==
    /\ ServerProofs!Inv /\ ServerProofs!ParsedInv /\ ServerProofs!WholeInv
    /\ ClientProofs!Inv /\ ClientProofs!ParsedInv /\ ClientProofs!WholeInv

\* Who has come how far: no response before the request has been parsed, and nothing
\* from a side that is gone.
InTurn ==
    /\ c2sEnd # "open" => client \in Gone
    /\ s2cEnd # "open" => server \in Gone
    /\ client = "writing" => c2s < exchange.request.total
    /\ client = "reading" => c2s = exchange.request.total
    /\ server = "writing" \/ s2c > 0 => srv.pc = "done"
    /\ cli.pc \in {"parse", "rest", "done"} => s2c > 0

Inv == TypeOK /\ BothParse /\ InTurn

\* Bytes written are numbers, up to the length of the message.
LEMMA WriteTypes ==
    ASSUME TypeOK
    PROVE  /\ exchange.request.total \in Nat /\ c2s \in 0..exchange.request.total
           /\ exchange.response.total \in Nat /\ s2c \in 0..exchange.response.total
           /\ \A n \in Nat : n < exchange.request.total =>
                /\ AfterNextWrite(exchange.request, n) \in 0..exchange.request.total
                /\ AfterNextWrite(exchange.request, n) > n
           /\ \A n \in Nat : n < exchange.response.total =>
                /\ AfterNextWrite(exchange.response, n) \in 0..exchange.response.total
                /\ AfterNextWrite(exchange.response, n) \in exchange.response.writes
                /\ AfterNextWrite(exchange.response, n) > n
<1>1. exchange \in Exchanges
  BY DEF TypeOK
<1>2. exchange.request \in Requests /\ exchange.response \in Responses
  BY <1>1 DEF Requests, Responses
<1>3. exchange.request.total \in Nat /\ exchange.response.total \in Nat
  BY <1>2, ServerAssumptions, ClientAssumptions
  DEF ServerProofs!HTTPAssumption, ClientProofs!HTTPAssumption
<1>4. c2s \in 0..exchange.request.total /\ s2c \in 0..exchange.response.total
  BY DEF TypeOK, ServerMessage!TypeOK, ClientMessage!TypeOK
<1> QED
  BY <1>1, <1>3, <1>4, AfterNextWriteFacts

\* The server's constructor runs.
LEMMA ServerParseKeeps ==
    ASSUME ServerProofs!Inv, ServerProofs!ParsedInv, ServerProofs!WholeInv,
           ServerMessage!Read \/ ServerMessage!Parse
    PROVE  ServerProofs!Inv' /\ ServerProofs!ParsedInv' /\ ServerProofs!WholeInv'
<1>1. [ServerProofs!Next]_(ServerProofs!vars)
  BY ServerSteps DEF ServerProofs!Next
<1>2. ServerProofs!Inv'
  BY <1>1, ServerAssumptions, ServerProofs!InvStep
<1>3. ServerProofs!TypeOK'
  BY <1>2 DEF ServerProofs!Inv
<1>4. ServerProofs!ParsedInv'
  BY <1>1, <1>2, <1>3, ServerAssumptions, ServerProofs!ParsedStep
<1>5. ServerProofs!WholeInv'
  BY <1>1, <1>2, ServerAssumptions, ServerProofs!WholeStep
<1> QED
  BY <1>2, <1>4, <1>5

\* The client's does.
LEMMA ClientParseKeeps ==
    ASSUME ClientProofs!Inv, ClientProofs!ParsedInv, ClientProofs!WholeInv,
           ClientMessage!Read \/ ClientMessage!Parse
    PROVE  ClientProofs!Inv' /\ ClientProofs!ParsedInv' /\ ClientProofs!WholeInv'
<1>1. [ClientProofs!Next]_(ClientProofs!vars)
  BY ClientSteps DEF ClientProofs!Next
<1>2. ClientProofs!Inv'
  BY <1>1, ClientAssumptions, ClientProofs!InvStep
<1>3. ClientProofs!TypeOK'
  BY <1>2 DEF ClientProofs!Inv
<1>4. ClientProofs!ParsedInv'
  BY <1>1, <1>2, <1>3, ClientAssumptions, ClientProofs!ParsedStep
<1>5. ClientProofs!WholeInv'
  BY <1>1, <1>2, ClientAssumptions, ClientProofs!WholeStep
<1> QED
  BY <1>2, <1>4, <1>5

\* What the other side does leaves the server's constructor alone.
LEMMA ServerUntouched ==
    ASSUME ServerProofs!Inv, ServerProofs!ParsedInv, ServerProofs!WholeInv, ServerProofs!TypeOK',
           exchange' = exchange, srv' = srv, c2s' >= c2s,
           c2sEnd # "open" => c2sEnd' # "open" /\ c2s' = c2s,
           c2sEnd = "reset" => c2sEnd' = "reset"
    PROVE  ServerProofs!Inv' /\ ServerProofs!ParsedInv' /\ ServerProofs!WholeInv'
<1>1. exchange'.request = exchange.request /\ exchange'.buffer = exchange.buffer
  OBVIOUS
<1>2. ServerProofs!Inv'
  BY <1>1, ServerAssumptions, ServerProofs!UntouchedKeepsInv
<1>3. ServerProofs!ParsedInv'
  BY <1>1, ServerAssumptions, ServerProofs!UntouchedParsed
<1>4. ServerProofs!WholeInv'
  BY <1>1, ServerAssumptions, ServerProofs!UntouchedWhole
<1> QED
  BY <1>2, <1>3, <1>4

\* What the other side does leaves the client's constructor alone.
LEMMA ClientUntouched ==
    ASSUME ClientProofs!Inv, ClientProofs!ParsedInv, ClientProofs!WholeInv, ClientProofs!TypeOK',
           exchange' = exchange, cli' = cli, s2c' >= s2c,
           s2cEnd # "open" => s2cEnd' # "open" /\ s2c' = s2c,
           s2cEnd = "reset" => s2cEnd' = "reset"
    PROVE  ClientProofs!Inv' /\ ClientProofs!ParsedInv' /\ ClientProofs!WholeInv'
<1>1. exchange'.response = exchange.response /\ exchange'.buffer = exchange.buffer
  OBVIOUS
<1>2. ClientProofs!Inv'
  BY <1>1, ClientAssumptions, ClientProofs!UntouchedKeepsInv
<1>3. ClientProofs!ParsedInv'
  BY <1>1, ClientAssumptions, ClientProofs!UntouchedParsed
<1>4. ClientProofs!WholeInv'
  BY <1>1, ClientAssumptions, ClientProofs!UntouchedWhole
<1> QED
  BY <1>2, <1>3, <1>4

\* Nobody parses: bytes are written by a side that has not ended, or a direction ends.
LEMMA NobodyParses ==
    ASSUME Inv, TypeOK', exchange' = exchange, cli' = cli, srv' = srv,
           c2s' >= c2s, s2c' >= s2c,
           c2sEnd # "open" => c2sEnd' # "open" /\ c2s' = c2s, c2sEnd = "reset" => c2sEnd' = "reset",
           s2cEnd # "open" => s2cEnd' # "open" /\ s2c' = s2c, s2cEnd = "reset" => s2cEnd' = "reset"
    PROVE  BothParse'
<1>1. BothParse
  BY DEF Inv
<1>2. ServerProofs!TypeOK' /\ ClientProofs!TypeOK'
  BY ServerStates, ClientStates DEF TypeOK
<1>3. ServerProofs!Inv' /\ ServerProofs!ParsedInv' /\ ServerProofs!WholeInv'
  BY <1>1, <1>2, ServerUntouched DEF BothParse
<1>4. ClientProofs!Inv' /\ ClientProofs!ParsedInv' /\ ClientProofs!WholeInv'
  BY <1>1, <1>2, ClientUntouched DEF BothParse
<1> QED
  BY <1>3, <1>4 DEF BothParse

\* Before anything is written.
LEMMA InvInit == Init => Inv
<1> SUFFICES ASSUME Init PROVE Inv
  OBVIOUS
<1>1. /\ exchange \in Exchanges /\ exchange.request \in Requests /\ exchange.response \in Responses
      /\ exchange.buffer \in Buffers
  BY DEF Init, Requests, Responses, Buffers
<1>2. ServerProofs!Init /\ ClientProofs!Init
  BY <1>1, ServerStates, ClientStates DEF Init, ServerProofs!Init, ClientProofs!Init
<1>3. ServerProofs!Inv /\ ServerProofs!ParsedInv /\ ServerProofs!WholeInv
  BY <1>2, ServerAssumptions, ServerProofs!InvInit, ServerProofs!ParsedInit,
     ServerProofs!WholeInit
<1>4. ClientProofs!Inv /\ ClientProofs!ParsedInv /\ ClientProofs!WholeInv
  BY <1>2, ClientAssumptions, ClientProofs!InvInit, ClientProofs!ParsedInit,
     ClientProofs!WholeInit
<1>5. TypeOK
  BY <1>1, <1>3, <1>4, ServerStates, ClientStates
  DEF Init, TypeOK, ServerProofs!Inv, ClientProofs!Inv
<1>6. InTurn
  <2>1. cli.pc = "read"
    BY DEF Init, ClientMessage!Start
  <2>2. 0 < exchange.request.total
    <3>1. exchange.request.writes \subseteq 1..exchange.request.total
          /\ exchange.request.total \in exchange.request.writes
      BY <1>1, ExchangeAssumption
    <3> QED
      BY <3>1, <1>5, WriteTypes
  <2> QED
    BY <2>1, <2>2 DEF Init, InTurn
<1> QED
  BY <1>3, <1>4, <1>5, <1>6 DEF Inv, BothParse

\* A thread of the client writes, parses, closes, or its process dies.
LEMMA ClientKeepsInv ==
    ASSUME Inv, Client \/ ClientCrashes
    PROVE  Inv'
<1>t. TypeOK /\ InTurn /\ exchange \in Exchanges
  BY DEF Inv, TypeOK
<1>w. /\ exchange.request.total \in Nat /\ c2s \in 0..exchange.request.total
      /\ exchange.response.total \in Nat /\ s2c \in 0..exchange.response.total
  BY <1>t, WriteTypes
<1>1. CASE ClientWrites
  <2>1. c2s < exchange.request.total
    BY <1>1, <1>t DEF ClientWrites, InTurn
  <2>2. c2s' \in 0..exchange.request.total /\ c2s' > c2s
    BY <1>1, <1>t, <1>w, <2>1, WriteTypes DEF ClientWrites
  <2>3. TypeOK'
    BY <1>1, <1>t, <2>2
    DEF ClientWrites, TypeOK, ServerMessage!TypeOK, ClientMessage!TypeOK
  <2>4. InTurn'
    <3>1. client' = "writing" <=> c2s' # exchange.request.total
      BY <1>1 DEF ClientWrites, RequestWritten
    <3> QED
      BY <1>1, <1>t, <1>w, <2>2, <3>1 DEF ClientWrites, InTurn, Gone
  <2>5. BothParse'
    <3>1. c2sEnd = "open"
      BY <1>1, <1>t DEF ClientWrites, InTurn, Gone
    <3> QED
      BY <1>1, <1>w, <2>2, <2>3, <3>1, NobodyParses DEF ClientWrites
  <2> QED
    BY <2>3, <2>4, <2>5 DEF Inv
<1>2. CASE ClientWriteFails \/ ClientCloses \/ ClientCrashes
  <2>1. /\ UNCHANGED <<exchange, server, c2s, s2c, s2cEnd, cli, srv>>
        /\ client \in {"writing", "reading"}
        /\ client' \in {"finished", "failed"} /\ c2sEnd' \in {"eof", "reset"}
    BY <1>2 DEF ClientWriteFails, ClientCloses, ClientCrashes
  <2>2. TypeOK'
    BY <1>t, <2>1 DEF TypeOK, ServerMessage!TypeOK, ClientMessage!TypeOK
  <2>3. InTurn'
    BY <1>t, <2>1 DEF InTurn, Gone
  <2>4. BothParse'
    <3>1. c2sEnd = "open"
      BY <1>t, <2>1 DEF InTurn, Gone
    <3> QED
      BY <1>w, <2>1, <2>2, <3>1, NobodyParses
  <2> QED
    BY <2>2, <2>3, <2>4 DEF Inv
<1>3. CASE ClientParses
  <2>1. /\ UNCHANGED <<exchange, client, server, c2s, s2c, c2sEnd, s2cEnd, srv>>
        /\ ClientMessage!Read \/ ClientMessage!Parse
    BY <1>3 DEF ClientParses
  <2>2. ClientProofs!Inv' /\ ClientProofs!ParsedInv' /\ ClientProofs!WholeInv'
    BY <2>1, ClientParseKeeps DEF Inv, BothParse
  <2>3. ServerProofs!TypeOK'
    BY <1>t, <2>1, ServerStates DEF TypeOK, ServerMessage!TypeOK
  <2>4. ServerProofs!Inv' /\ ServerProofs!ParsedInv' /\ ServerProofs!WholeInv'
    BY <1>w, <2>1, <2>3, ServerUntouched DEF Inv, BothParse
  <2>5. TypeOK'
    BY <1>t, <2>1, <2>2, <2>3, ServerStates, ClientStates DEF TypeOK, ClientProofs!Inv
  <2>6. InTurn'
    <3>1. ClientProofs!Read \/ ClientProofs!Parse
      BY <2>1, ClientSteps
    <3>2. cli'.pc \in {"parse", "rest", "done"} => s2c > 0
      BY <1>t, <3>1, ClientStates, ClientAssumptions, ClientProofs!NothingFromNothing
      DEF TypeOK, InTurn
    <3> QED
      BY <1>t, <2>1, <3>2 DEF InTurn
  <2> QED
    BY <2>2, <2>4, <2>5, <2>6 DEF Inv, BothParse
<1> QED
  BY <1>1, <1>2, <1>3 DEF Client

\* A thread of the server parses, handles, writes, closes, or its process dies.
LEMMA ServerKeepsInv ==
    ASSUME Inv, Server \/ ServerCrashes
    PROVE  Inv'
<1>t. TypeOK /\ InTurn /\ exchange \in Exchanges
  BY DEF Inv, TypeOK
<1>w. /\ exchange.request.total \in Nat /\ c2s \in 0..exchange.request.total
      /\ exchange.response.total \in Nat /\ s2c \in 0..exchange.response.total
  BY <1>t, WriteTypes
<1>1. CASE ServerWrites
  <2>1. s2c' \in 0..exchange.response.total /\ s2c' > s2c
    BY <1>1, <1>t, <1>w, WriteTypes DEF ServerWrites
  <2>2. TypeOK'
    BY <1>1, <1>t, <2>1
    DEF ServerWrites, TypeOK, ServerMessage!TypeOK, ClientMessage!TypeOK
  <2>3. InTurn'
    BY <1>1, <1>t, <1>w, <2>1 DEF ServerWrites, InTurn, Gone
  <2>4. BothParse'
    <3>1. s2cEnd = "open"
      BY <1>1, <1>t DEF ServerWrites, InTurn, Gone
    <3> QED
      BY <1>1, <1>w, <2>1, <2>2, <3>1, NobodyParses DEF ServerWrites
  <2> QED
    BY <2>2, <2>3, <2>4 DEF Inv
<1>2. CASE ServerHandles
  <2>1. TypeOK' /\ InTurn'
    BY <1>2, <1>t
    DEF ServerHandles, RequestParsed, InTurn, Gone, TypeOK, ServerMessage!TypeOK, ClientMessage!TypeOK
  <2>2. BothParse'
    BY <1>2, <1>w, <2>1, NobodyParses DEF ServerHandles
  <2> QED
    BY <2>1, <2>2 DEF Inv
<1>3. CASE ServerWriteFails \/ ServerCloses \/ ServerCrashes
  <2>1. /\ UNCHANGED <<exchange, client, c2s, s2c, c2sEnd, cli, srv>>
        /\ server \in {"writing", "reading"}
        /\ server' \in {"finished", "failed"} /\ s2cEnd' \in {"eof", "reset"}
    BY <1>3 DEF ServerWriteFails, ServerCloses, ServerCrashes
  <2>2. TypeOK'
    BY <1>t, <2>1 DEF TypeOK, ServerMessage!TypeOK, ClientMessage!TypeOK
  <2>3. InTurn'
    BY <1>t, <2>1 DEF InTurn, Gone
  <2>4. BothParse'
    <3>1. s2cEnd = "open"
      BY <1>t, <2>1 DEF InTurn, Gone
    <3> QED
      BY <1>w, <2>1, <2>2, <3>1, NobodyParses
  <2> QED
    BY <2>2, <2>3, <2>4 DEF Inv
<1>4. CASE ServerParses
  <2>1. /\ UNCHANGED <<exchange, client, server, c2s, s2c, c2sEnd, s2cEnd, cli>>
        /\ ServerMessage!Read \/ ServerMessage!Parse
        /\ server = "reading"
    BY <1>4 DEF ServerParses
  <2>2. ServerProofs!Inv' /\ ServerProofs!ParsedInv' /\ ServerProofs!WholeInv'
    BY <2>1, ServerParseKeeps DEF Inv, BothParse
  <2>3. ClientProofs!TypeOK'
    BY <1>t, <2>1, ClientStates DEF TypeOK, ClientMessage!TypeOK
  <2>4. ClientProofs!Inv' /\ ClientProofs!ParsedInv' /\ ClientProofs!WholeInv'
    BY <1>w, <2>1, <2>3, ClientUntouched DEF Inv, BothParse
  <2>5. TypeOK'
    BY <1>t, <2>1, <2>2, <2>3, ServerStates, ClientStates DEF TypeOK, ServerProofs!Inv
  <2>6. InTurn'
    <3>1. srv.pc # "done"
      BY <2>1, ServerSteps, ServerAssumptions, ServerProofs!EndIsFinal
    <3> QED
      BY <1>t, <2>1, <3>1 DEF InTurn
  <2> QED
    BY <2>2, <2>4, <2>5, <2>6 DEF Inv, BothParse
<1> QED
  BY <1>1, <1>2, <1>3, <1>4 DEF Server

\* Every step keeps the invariant.
LEMMA InvStep == Inv /\ [Next]_vars => Inv'
<1> SUFFICES ASSUME Inv, [Next]_vars PROVE Inv'
  OBVIOUS
<1>1. CASE UNCHANGED vars
  <2>1. TypeOK' /\ InTurn'
    BY <1>1 DEF vars, Inv, TypeOK, InTurn, ServerMessage!TypeOK, ClientMessage!TypeOK
  <2>2. c2s \in Nat /\ s2c \in Nat
    BY WriteTypes DEF Inv
  <2>3. BothParse'
    BY <1>1, <2>1, <2>2, NobodyParses DEF vars
  <2> QED
    BY <2>1, <2>3 DEF Inv
<1> QED
  BY <1>1, ClientKeepsInv, ServerKeepsInv DEF Next

-----------------------------------------------------------------------------
(* Two threads that keep running: neither takes the other for one that has    *)
(* closed too early, because each knows where the other's message ends.        *)

\* What WholeAssumption says of the messages of this exchange.
LEMMA BothAreWhole ==
    ASSUME TypeOK
    PROVE  /\ ServerProofs!IsWhole(exchange.request) /\ ~ServerProofs!IsChunked(exchange.request)
           /\ ClientProofs!IsWhole(exchange.response)
           /\ ServerProofs!Grow(exchange.request.total + 1) + MaxGrowth <= SizeMax \div 2
           /\ ClientProofs!Grow(exchange.response.total + 1) + MaxGrowth <= SizeMax \div 2
           /\ exchange.buffer + MaxGrowth <= SizeMax \div 2
<1>1. exchange \in Exchanges
  BY DEF TypeOK
<1>2. ServerMessage!IsWhole(exchange.request) /\ ~ServerMessage!IsChunked(exchange.request)
  BY <1>1, WholeAssumption
<1>3. ServerMessage!IsWhole(exchange.response)
  BY <1>1, WholeAssumption
<1>4. /\ ServerMessage!Grow(exchange.request.total + 1) + MaxGrowth <= SizeMax \div 2
      /\ ServerMessage!Grow(exchange.response.total + 1) + MaxGrowth <= SizeMax \div 2
      /\ exchange.buffer + MaxGrowth <= SizeMax \div 2
  BY <1>1, WholeAssumption
<1> QED
  BY <1>2, <1>3, <1>4, ServerMeans, ClientMeans

\* No buffer is as large as half of the addressable memory, where read() refuses its length.
LEMMA ServerSize ==
    ASSUME TypeOK, ServerProofs!SizeIsBounded
    PROVE  ~(srv.size > SizeMax \div 2)
<1>1. ServerProofs!WholeTyped
  BY ServerStates, ServerAssumptions, ServerProofs!WholeTypes DEF TypeOK
<1>2. ServerProofs!Grace <= MaxGrowth /\ ServerProofs!Grace \in Nat /\ MaxGrowth \in Nat
  BY <1>1 DEF ServerProofs!WholeTyped, ServerProofs!Grace
<1> QED
  BY <1>1, <1>2, BothAreWhole DEF ServerProofs!WholeTyped, ServerProofs!SizeIsBounded

LEMMA ClientSize ==
    ASSUME TypeOK, ClientProofs!SizeIsBounded
    PROVE  ~(cli.size > SizeMax \div 2) /\ exchange.buffer <= cli.size
<1>1. ClientProofs!WholeTyped
  BY ClientStates, ClientAssumptions, ClientProofs!WholeTypes DEF TypeOK
<1>2. ClientProofs!Grace <= MaxGrowth /\ ClientProofs!Grace \in Nat /\ MaxGrowth \in Nat
  BY <1>1 DEF ClientProofs!WholeTyped, ClientProofs!Grace
<1> QED
  BY <1>1, <1>2, BothAreWhole DEF ClientProofs!WholeTyped, ClientProofs!SizeIsBounded

\* The request is not chunked, and the server's constructor does not think that it is.
LEMMA RequestHasNoChunks ==
    ASSUME Inv
    PROVE  ~srv.receiving_body_in_chunks
<1> SUFFICES ASSUME srv.receiving_body_in_chunks PROVE FALSE
  OBVIOUS
<1>1. ServerProofs!Inv /\ ServerProofs!ParsedInv /\ TypeOK
  BY DEF Inv, BothParse
<1>2. PICK f \in exchange.request.lines, b \in exchange.request.lines :
          ServerProofs!IsMeantBy(exchange.request, f, b) /\ ServerProofs!Parsed(f, b)
  BY <1>1 DEF ServerProofs!ParsedInv
<1>3. ServerProofs!InChunksAfter(b)
  BY <1>2 DEF ServerProofs!Parsed
<1>4. ServerProofs!HasChunked(ServerProofs!Within(exchange.request, f, b.at))
  BY <1>1, <1>2, <1>3, ServerAssumptions, ServerProofs!ChunksAreAnnounced
<1>5. ServerProofs!IsChunked(exchange.request)
  BY <1>2, <1>4 DEF ServerProofs!IsChunked
<1> QED
  BY <1>1, <1>5, BothAreWhole

\* The server's constructor returns only when it has the whole request, and throws only after
\* the client has closed.
LEMMA ServerIsRight ==
    ASSUME Inv
    PROVE  /\ srv.pc = "done" => c2s = exchange.request.total /\ ~(srv.offset < c2s)
           /\ c2sEnd = "open" => srv.pc \notin {"closed", "readerror", "undefined"}
<1>1. /\ ServerProofs!Inv /\ ServerProofs!WholeInv /\ TypeOK
      /\ exchange \in Exchanges /\ ~srv.receiving_body_in_chunks
  BY RequestHasNoChunks DEF Inv, BothParse, TypeOK
<1>2. PICK f \in exchange.request.lines, b \in exchange.request.lines :
          /\ ServerProofs!IsMeantBy(exchange.request, f, b)
          /\ ServerProofs!IsAllThere(exchange.request, f, b)
  BY <1>1, BothAreWhole DEF ServerProofs!IsWhole
<1>3. ServerProofs!Whole(f, b)
  BY <1>1, <1>2 DEF ServerProofs!WholeInv
<1>w. /\ exchange.request.total \in Nat /\ c2s \in 0..exchange.request.total
      /\ srv.offset \in Nat /\ srv.size \in Nat
      /\ srv.offset <= c2s
  <2>1. ServerProofs!OffsetsTyped
    BY <1>1, ServerAssumptions, ServerProofs!OffsetTypes DEF ServerProofs!Inv
  <2> QED
    BY <1>1, <2>1, WriteTypes
    DEF ServerProofs!OffsetsTyped, ServerProofs!Inv, ServerProofs!OffsetsOrdered
<1>4. srv.pc = "done" => srv.offset = exchange.request.total
  <2> SUFFICES ASSUME srv.pc = "done" PROVE srv.offset = exchange.request.total
    OBVIOUS
  <2>1. PICK end \in 0..srv.offset : ServerProofs!IsEnd(exchange.request, f, b, end)
    BY <1>3 DEF ServerProofs!Whole, ServerProofs!EndIsReached
  <2>2. IsEndOf(exchange.request, end)
    BY <1>2, <2>1, ServerMeans DEF IsEndOf
  <2>3. end \in 0..exchange.request.total
    BY <1>w, <2>1
  <2>4. end = exchange.request.total
    BY <1>1, <2>2, <2>3, WholeAssumption
  <2> QED
    BY <1>w, <2>1, <2>4
<1>5. ASSUME c2sEnd = "open" PROVE srv.pc \notin {"closed", "readerror", "undefined"}
  <2>1. srv.pc # "closed"
    BY <1>1, <1>3, <1>5
    DEF ServerProofs!Whole, ServerProofs!ErrorsAreExplained, ServerProofs!SplitChunk,
        ServerProofs!IsChunkSize
  <2>2. srv.chunks = <<>>
    BY <1>1 DEF ServerProofs!Inv, ServerProofs!RoomUntilAChunk
  <2>3. srv.pc # "undefined"
    BY <1>1, <2>2 DEF ServerProofs!Inv, ServerProofs!UndefinedAtTheEnd
  <2>4. srv.offset < srv.size
    BY <1>1, <2>2 DEF ServerProofs!Inv, ServerProofs!RoomUntilAChunk
  <2>5. ~(srv.size > SizeMax \div 2)
    BY <1>1, <1>3, ServerSize DEF ServerProofs!Whole
  <2>6. srv.pc # "readerror"
    BY <1>w, <1>3, <1>5, <2>4, <2>5 DEF ServerProofs!Whole, ServerProofs!ErrorsAreExplained
  <2> QED
    BY <2>1, <2>3, <2>6
<1> QED
  BY <1>w, <1>4, <1>5

\* A chunk of one byte does not come in pieces.
LEMMA ChunksOfOneByte ==
    ASSUME Inv, Undisturbed
    PROVE  ~ClientProofs!SplitChunk
<1> SUFFICES ASSUME ClientProofs!SplitChunk PROVE FALSE
  OBVIOUS
<1>1. ClientProofs!Inv /\ ClientProofs!ParsedInv /\ ClientProofs!TypeOK
  BY DEF Inv, BothParse, ClientProofs!Inv
<1>2. PICK l \in ClientProofs!CurrentLines : ClientProofs!IsChunkSize(l) /\ l.num > 1
  BY DEF ClientProofs!SplitChunk
<1>3. PICK f \in exchange.response.lines, b \in exchange.response.lines :
          ClientProofs!IsMeantBy(exchange.response, f, b) /\ ClientProofs!Parsed(f, b)
  BY <1>1 DEF ClientProofs!ParsedInv
<1>4. ClientProofs!InChunksAfter(b)
  BY <1>2, <1>3 DEF ClientProofs!Parsed, ClientProofs!IsChunkSize
<1>5. ClientProofs!IsChunked(exchange.response)
  <2>1. ClientProofs!HasChunked(ClientProofs!Within(exchange.response, f, b.at))
    BY <1>1, <1>3, <1>4, ClientAssumptions, ClientProofs!ChunksAreAnnounced
  <2> QED
    BY <1>3, <2>1 DEF ClientProofs!IsChunked
<1>6. \A i \in DOMAIN exchange.response.result.body : exchange.response.result.body[i].len = 1
  BY <1>5, ClientMeans DEF Undisturbed
<1> DEFINE body == exchange.response.result.body
           n == Len(cli.chunks) + 1
<1>7. n \in DOMAIN body /\ body[n] = ClientProofs!ChunkAfter(l)
  <2>1. cli.receiving_body_in_chunks
    BY <1>2 DEF ClientProofs!IsChunkSize
  <2>2. /\ Len(cli.chunks) < Len(body)
        /\ body[Len(cli.chunks) + 1] = ClientProofs!ChunkAfter(l)
    BY <1>1, <1>2, <1>3, <1>4, <2>1, ClientAssumptions, ClientProofs!SizeOfNextChunk
  <2>3. body \in Seq([at : Nat, len : Nat])
    BY <1>1, ClientAssumptions, ClientProofs!ResultType
  <2>4. cli.chunks \in Seq([at : Nat, len : Nat])
    BY <1>1, ClientAssumptions, ClientProofs!OffsetTypes DEF ClientProofs!OffsetsTyped
  <2>5. Len(cli.chunks) \in Nat /\ Len(body) \in Nat /\ DOMAIN body = 1..Len(body)
    BY <2>3, <2>4
  <2> HIDE DEF body
  <2> QED
    BY <2>2, <2>5
<1>8. body[n].len = l.num
  BY <1>7 DEF ClientProofs!ChunkAfter
<1> QED
  BY <1>2, <1>6, <1>7, <1>8

\* What of the response the client's constructor has when it ends.
ResponseEnds ==
    /\ cli.pc \notin {"readerror", "undefined"}
    /\ cli.pc = "closed" =>
         s2cEnd # "open" /\ (s2c < exchange.response.total \/ ClientProofs!FilledByTheEnd)
    /\ cli.pc = "done" => \E end \in 0..cli.offset : IsEndOf(exchange.response, end)

\* It throws only after the server has closed, and then only if it has not the whole response,
\* or had its buffer filled by it.
LEMMA ClientIsRight ==
    ASSUME Inv, Undisturbed, s2cEnd # "reset"
    PROVE  ResponseEnds
<1>1. /\ ClientProofs!Inv /\ ClientProofs!WholeInv /\ ClientProofs!ParsedInv /\ TypeOK
      /\ exchange \in Exchanges
  BY DEF Inv, BothParse, TypeOK
<1>2. PICK f \in exchange.response.lines, b \in exchange.response.lines :
          /\ ClientProofs!IsMeantBy(exchange.response, f, b)
          /\ ClientProofs!IsAllThere(exchange.response, f, b)
  BY <1>1, BothAreWhole DEF ClientProofs!IsWhole
<1>3. ClientProofs!Whole(f, b)
  BY <1>1, <1>2 DEF ClientProofs!WholeInv
<1>w. /\ exchange.response.total \in Nat /\ s2c \in 0..exchange.response.total
      /\ exchange.buffer \in Nat
      /\ cli.offset \in Nat /\ cli.size \in Nat /\ cli.current_line_offset \in Nat
      /\ cli.offset <= s2c /\ cli.current_line_offset <= cli.offset
  <2>1. ClientProofs!OffsetsTyped
    BY <1>1, ClientAssumptions, ClientProofs!OffsetTypes DEF ClientProofs!Inv
  <2>2. exchange.buffer \in Nat
    BY <1>1, ClientStates, ClientAssumptions, ClientProofs!WholeTypes
    DEF TypeOK, ClientProofs!WholeTyped
  <2> QED
    BY <1>1, <2>1, <2>2, WriteTypes
    DEF ClientProofs!OffsetsTyped, ClientProofs!Inv, ClientProofs!OffsetsOrdered
<1>4. ~(cli.size > SizeMax \div 2) /\ exchange.buffer <= cli.size
  BY <1>1, <1>3, ClientSize DEF ClientProofs!Whole
<1>5. cli.offset < cli.size
  <2>1. CASE cli.receiving_body_in_chunks
    <3>1. ClientProofs!IsChunked(exchange.response)
      <4>1. PICK k \in exchange.response.lines, l \in exchange.response.lines :
                ClientProofs!IsMeantBy(exchange.response, k, l) /\ ClientProofs!Parsed(k, l)
        BY <1>1 DEF ClientProofs!ParsedInv
      <4>2. ClientProofs!HasChunked(ClientProofs!Within(exchange.response, k, l.at))
        BY <1>1, <2>1, <4>1, ClientAssumptions, ClientProofs!ChunksAreAnnounced
        DEF ClientProofs!Parsed
      <4> QED
        BY <4>1, <4>2 DEF ClientProofs!IsChunked
    <3>2. exchange.response.total + 2 <= exchange.buffer
      BY <3>1, ClientMeans DEF Undisturbed
    <3> QED
      BY <1>w, <1>4, <3>2
  <2>2. CASE ~cli.receiving_body_in_chunks
    BY <1>1, <2>2 DEF ClientProofs!Inv, ClientProofs!RoomUntilAChunk
  <2> QED
    BY <2>1, <2>2
<1>6. cli.pc # "undefined"
  BY <1>1, <1>w, <1>5 DEF ClientProofs!Inv, ClientProofs!UndefinedAtTheEnd
<1>7. cli.pc # "readerror"
  BY <1>w, <1>3, <1>4, <1>5 DEF ClientProofs!Whole, ClientProofs!ErrorsAreExplained
<1>8. cli.pc = "closed" =>
        s2cEnd # "open" /\ (s2c < exchange.response.total \/ ClientProofs!FilledByTheEnd)
  BY <1>3, ChunksOfOneByte DEF ClientProofs!Whole, ClientProofs!ErrorsAreExplained
<1>9. cli.pc = "done" => \E end \in 0..cli.offset : IsEndOf(exchange.response, end)
  BY <1>2, <1>3, ClientMeans
  DEF IsEndOf, ClientProofs!Whole, ClientProofs!EndIsReached
<1> QED
  BY <1>6, <1>7, <1>8, <1>9 DEF ResponseEnds

\* How far both sides have come when one of them has ended: who has closed has had the other's
\* message, and what was not read of it when the client closed is the last of it.
Orderly ==
    /\ client # "failed" /\ server # "failed"
    /\ client # "writing" => c2s = exchange.request.total
    /\ client = "finished" =>
         /\ cli.pc \in {"done", "closed"}
         /\ \E end \in 0..s2c : IsEndOf(exchange.response, end)
    /\ c2sEnd # "open" => client = "finished"
    /\ c2sEnd = "reset" => s2c = exchange.response.total
    /\ server # "reading" => srv.pc = "done"
    /\ server = "finished" => s2c = exchange.response.total
    /\ s2cEnd # "open" => server = "finished" /\ s2cEnd = "eof"
    /\ s2c \in exchange.response.writes \union {0}

OrderlyIfUndisturbed == Undisturbed => Orderly

\* The client does not close before the server has parsed its request.
LEMMA ClosesAfterRequest ==
    ASSUME Inv, Undisturbed, Orderly, c2sEnd # "open"
    PROVE  srv.pc = "done"
<1>1. client = "finished" /\ cli.pc \in {"done", "closed"} /\ s2cEnd # "reset"
  BY DEF Orderly
<1>2. CASE cli.pc = "done"
  BY <1>2 DEF Inv, InTurn
<1>3. CASE cli.pc = "closed"
  <2>1. s2cEnd # "open"
    BY <1>1, <1>3, ClientIsRight DEF ResponseEnds
  <2> QED
    BY <2>1 DEF Orderly
<1> QED
  BY <1>1, <1>2, <1>3

\* What the server has written when it has written more than the client needs, is all.
LEMMA NoMoreThanTheLastWrite ==
    ASSUME TypeOK, NEW end \in 0..exchange.response.total, IsEndOf(exchange.response, end),
           NEW write \in exchange.response.writes, write > end
    PROVE  write = exchange.response.total
<1>1. exchange \in Exchanges
  BY DEF TypeOK
<1> QED
  BY <1>1, WholeAssumption

\* The client's steps keep the order.
LEMMA ClientKeepsOrder ==
    ASSUME Inv, Undisturbed, Orderly, Client \/ ClientCrashes
    PROVE  Orderly'
<1>t. TypeOK /\ InTurn /\ exchange \in Exchanges
  BY DEF Inv, TypeOK
<1>w. /\ exchange.request.total \in Nat /\ c2s \in 0..exchange.request.total
      /\ exchange.response.total \in Nat /\ s2c \in 0..exchange.response.total
  BY <1>t, WriteTypes
<1>1. CASE ClientWrites
  <2>1. client = "writing" /\ c2s < exchange.request.total
    BY <1>1, <1>t DEF ClientWrites, InTurn
  <2>2. s2cEnd = "open" /\ c2sEnd = "open"
    <3>1. srv.pc # "done"
      BY <1>w, <2>1, ServerIsRight
    <3> QED
      BY <2>1, <3>1 DEF Orderly
  <2>3. client' # "writing" => c2s' = exchange.request.total
    BY <1>1 DEF ClientWrites, RequestWritten
  <2>4. /\ UNCHANGED <<exchange, server, s2c, c2sEnd, cli, srv>> /\ s2cEnd' = s2cEnd
        /\ client' \in {"writing", "reading"}
    BY <1>1, <2>2 DEF ClientWrites
  <2> QED
    BY <2>2, <2>3, <2>4 DEF Orderly
<1>2. CASE ClientWriteFails
  BY <1>2 DEF ClientWriteFails, Orderly
<1>3. CASE ClientParses
  <2>1. UNCHANGED <<exchange, client, server, c2s, s2c, c2sEnd, s2cEnd, srv>>
        /\ client = "reading"
    BY <1>3 DEF ClientParses
  <2> QED
    BY <2>1 DEF Orderly
<1>4. CASE ClientCloses
  <2>1. /\ client = "reading" /\ cli.pc \in ClientMessage!Ended \ {"undefined"}
        /\ client' = "finished" /\ c2sEnd' = IF cli.offset < s2c THEN "reset" ELSE "eof"
        /\ UNCHANGED <<exchange, server, c2s, s2c, s2cEnd, cli, srv>>
    BY <1>4 DEF ClientCloses
  <2>2. ResponseEnds
    BY ClientIsRight DEF Orderly
  <2>3. cli.pc \in {"done", "closed"}
    BY <2>1, <2>2 DEF ResponseEnds, ClientMessage!Ended
  <2>4. cli.offset \in Nat /\ cli.offset <= s2c
    <3>1. ClientProofs!Inv
      BY DEF Inv, BothParse
    <3>2. ClientProofs!OffsetsTyped
      BY <3>1, ClientAssumptions, ClientProofs!OffsetTypes DEF ClientProofs!Inv
    <3> QED
      BY <3>1, <3>2
      DEF ClientProofs!OffsetsTyped, ClientProofs!Inv, ClientProofs!OffsetsOrdered
  <2>5. /\ \E end \in 0..s2c : IsEndOf(exchange.response, end)
        /\ cli.offset < s2c => s2c = exchange.response.total
    <3>1. CASE cli.pc = "done"
      <4>1. PICK end \in 0..cli.offset : IsEndOf(exchange.response, end)
        BY <2>2, <3>1 DEF ResponseEnds
      <4>2. end \in 0..s2c /\ end \in 0..exchange.response.total /\ end <= cli.offset
        BY <1>w, <2>4, <4>1
      <4>3. ASSUME cli.offset < s2c PROVE s2c = exchange.response.total
        <5>1. s2c > end /\ s2c # 0
          BY <1>w, <2>4, <4>2, <4>3
        <5>2. s2c \in exchange.response.writes
          BY <5>1 DEF Orderly
        <5> QED
          BY <1>t, <4>1, <4>2, <5>1, <5>2, NoMoreThanTheLastWrite
      <4> QED
        BY <4>1, <4>2, <4>3
    <3>2. CASE cli.pc = "closed"
      <4>1. s2c = exchange.response.total
        BY <2>2, <3>2 DEF ResponseEnds, Orderly
      <4>2. \E end \in 0..exchange.response.total : IsEndOf(exchange.response, end)
        <5>1. ClientProofs!IsWhole(exchange.response)
          BY <1>t, BothAreWhole
        <5> QED
          BY <5>1, ClientMeans DEF ClientProofs!IsWhole, ClientProofs!IsAllThere, IsEndOf
      <4> QED
        BY <4>1, <4>2
    <3> QED
      BY <2>3, <3>1, <3>2
  <2> QED
    BY <2>1, <2>3, <2>5 DEF Orderly
<1>5. ~ClientCrashes
  BY DEF ClientCrashes, Undisturbed
<1> QED
  BY <1>1, <1>2, <1>3, <1>4, <1>5 DEF Client

\* The server's steps keep the order.
LEMMA ServerKeepsOrder ==
    ASSUME Inv, Undisturbed, Orderly, Server \/ ServerCrashes
    PROVE  Orderly'
<1>t. TypeOK /\ InTurn /\ exchange \in Exchanges
  BY DEF Inv, TypeOK
<1>w. /\ exchange.response.total \in Nat /\ s2c \in 0..exchange.response.total
  BY <1>t, WriteTypes
<1>1. CASE ServerParses
  <2>1. UNCHANGED <<exchange, client, server, c2s, s2c, c2sEnd, s2cEnd, cli>>
        /\ server = "reading"
    BY <1>1 DEF ServerParses
  <2> QED
    BY <2>1 DEF Orderly
<1>2. CASE ServerHandles
  BY <1>2 DEF ServerHandles, RequestParsed, Orderly
<1>3. CASE ServerWrites
  <2>1. /\ server = "writing" /\ s2cEnd = "open" /\ srv.pc = "done"
        /\ c2sEnd' = IF c2sEnd = "eof" THEN "reset" ELSE c2sEnd
        /\ c2sEnd # "reset"
        /\ UNCHANGED <<exchange, client, server, c2s, s2cEnd, cli, srv>>
    BY <1>3 DEF ServerWrites, Orderly
  <2>2. /\ s2c' \in exchange.response.writes
        /\ s2c' \in 0..exchange.response.total /\ s2c' > s2c
    BY <1>3, <1>t, <1>w, WriteTypes DEF ServerWrites
  <2>3. client = "finished" => /\ \E end \in 0..s2c' : IsEndOf(exchange.response, end)
                               /\ s2c' = exchange.response.total
    <3> SUFFICES ASSUME client = "finished"
                 PROVE  /\ \E end \in 0..s2c' : IsEndOf(exchange.response, end)
                        /\ s2c' = exchange.response.total
      OBVIOUS
    <3>1. PICK end \in 0..s2c : IsEndOf(exchange.response, end)
      BY DEF Orderly
    <3>2. end \in 0..s2c' /\ end \in 0..exchange.response.total /\ s2c' > end
      BY <1>w, <2>2, <3>1
    <3> QED
      BY <1>t, <2>2, <3>1, <3>2, NoMoreThanTheLastWrite
  <2> QED
    BY <2>1, <2>2, <2>3 DEF Orderly
<1>4. ~ServerWriteFails
  BY <1>w DEF ServerWriteFails, Orderly
<1>5. CASE ServerCloses
  <2>1. ~(server = "reading" /\ ConstructorThrew)
    <3> SUFFICES ASSUME server = "reading", ConstructorThrew PROVE FALSE
      OBVIOUS
    <3>1. srv.pc # "done" /\ srv.pc \in {"closed", "readerror"}
      BY DEF ConstructorThrew, ServerMessage!Ended
    <3>2. c2sEnd = "open"
      BY <3>1, ClosesAfterRequest
    <3> QED
      BY <3>1, <3>2, ServerIsRight
  <2>2. /\ server = "writing" /\ ResponseWritten /\ server' = "finished"
        /\ s2cEnd' = IF srv.offset < c2s THEN "reset" ELSE "eof"
        /\ UNCHANGED <<exchange, client, c2s, s2c, c2sEnd, cli, srv>>
    BY <1>5, <2>1 DEF ServerCloses
  <2>3. srv.pc = "done" /\ ~(srv.offset < c2s)
    BY <2>2, ServerIsRight DEF Orderly
  <2> QED
    BY <2>2, <2>3 DEF Orderly, ResponseWritten
<1>6. ~ServerCrashes
  BY DEF ServerCrashes, Undisturbed
<1> QED
  BY <1>1, <1>2, <1>3, <1>4, <1>5, <1>6 DEF Server

\* From the first write to the end, undisturbed exchanges are orderly.
LEMMA OrderlyInvariance == Spec => [](Inv /\ OrderlyIfUndisturbed)
<1>1. Init => OrderlyIfUndisturbed
  BY DEF Init, Orderly, OrderlyIfUndisturbed
<1>2. Inv /\ OrderlyIfUndisturbed /\ [Next]_vars => OrderlyIfUndisturbed'
  <2> SUFFICES ASSUME Inv, OrderlyIfUndisturbed, [Next]_vars, Undisturbed' PROVE Orderly'
    BY DEF OrderlyIfUndisturbed
  <2>1. exchange' = exchange
    BY DEF Next, Client, ClientWrites, ClientWriteFails, ClientParses, ClientCloses, Server,
           ServerParses, ServerHandles, ServerWrites, ServerWriteFails, ServerCloses,
           ClientCrashes, ServerCrashes, vars
  <2>2. Undisturbed
    BY <2>1 DEF Undisturbed, ClientMessage!IsChunked
  <2>3. Orderly
    BY <2>2 DEF OrderlyIfUndisturbed
  <2>4. CASE UNCHANGED vars
    BY <2>3, <2>4 DEF vars, Orderly
  <2> QED
    BY <2>2, <2>3, <2>4, ClientKeepsOrder, ServerKeepsOrder DEF Next
<1> QED
  BY <1>1, <1>2, InvInit, InvStep, PTL DEF Spec

-----------------------------------------------------------------------------
(* What follows from it.                                                      *)

\* The threads, their directions and their parsers keep their types.
THEOREM TypeCorrect == Spec => []TypeOK
<1>1. Inv => TypeOK
  BY DEF Inv
<1> QED
  BY <1>1, InvInit, InvStep, PTL DEF Spec

\* Whoever dies and whenever, however messages are cut, and however small the buffers are: a
\* request and a response are accepted only as they were sent, the response after the request.
THEOREM Agreement == Spec => []BothSidesAgree
<1>1. Inv => BothSidesAgree
  <2> SUFFICES ASSUME Inv PROVE BothSidesAgree
    OBVIOUS
  <2>1. ServerMessage!ResultIsWhatWasSent
    BY ServerStates, ServerAssumptions, ServerProofs!AcceptedMeansSent DEF Inv, BothParse
  <2>2. ClientMessage!ResultIsWhatWasSent
    BY ClientStates, ClientAssumptions, ClientProofs!AcceptedMeansSent DEF Inv, BothParse
  <2>3. cli.pc = "done" => srv.pc = "done"
    BY DEF Inv, InTurn
  <2> QED
    BY <2>1, <2>2, <2>3 DEF BothSidesAgree
<1> QED
  BY <1>1, InvInit, InvStep, PTL DEF Spec

\* However the messages are cut into writes and reads, and whenever the client closes: as long
\* as nobody dies, no write of SendHTTPResponse meets a connection that the client has reset.
THEOREM EveryWriteSucceeds == Spec => []NoWriteAfterReset
<1>1. Inv /\ OrderlyIfUndisturbed => NoWriteAfterReset
  BY DEF OrderlyIfUndisturbed, Orderly, NoWriteAfterReset
<1> QED
  BY <1>1, OrderlyInvariance, PTL

\* As long as nobody dies, the server accepts every request without waiting for the client to
\* close, and the client throws only after a response that filled its buffer.
THEOREM OnlyAFullBufferThrows == Spec => []NobodyThrowsUnlessFull
<1>1. Inv /\ OrderlyIfUndisturbed => NobodyThrowsUnlessFull
  <2> SUFFICES ASSUME Inv, Undisturbed, Orderly
               PROVE  /\ srv.pc \notin {"closed", "readerror", "undefined"}
                      /\ cli.pc \notin {"readerror", "undefined"}
                      /\ cli.pc = "closed" => ClientMessage!FilledByTheEnd /\ server = "finished"
    BY DEF OrderlyIfUndisturbed, NobodyThrowsUnlessFull
  <2>1. srv.pc \notin {"closed", "readerror", "undefined"}
    BY ServerIsRight, ClosesAfterRequest
  <2>2. ResponseEnds
    BY ClientIsRight DEF Orderly
  <2>3. s2cEnd # "open" => server = "finished" /\ ~(s2c < exchange.response.total)
    BY WriteTypes DEF Orderly, Inv
  <2> QED
    BY <2>1, <2>2, <2>3, ClientMeans DEF ResponseEnds
<1> QED
  BY <1>1, OrderlyInvariance, PTL

\* Whoever dies and however the messages are cut: the two threads wait for each other only when
\* the last byte of the request has filled the server's buffer.
THEOREM OnlyAFullBufferDeadlocks == Spec => []DeadlockOnlyIfFull
<1>1. Inv => DeadlockOnlyIfFull
  <2> SUFFICES ASSUME Inv, client = "reading", ServerMessage!Waits
               PROVE  ServerMessage!FilledByTheEnd
    BY DEF DeadlockOnlyIfFull
  <2>1. /\ TypeOK /\ ServerProofs!Inv /\ ServerProofs!WholeInv
        /\ c2s = exchange.request.total /\ c2s \in Nat
    BY WriteTypes DEF Inv, BothParse, InTurn
  <2>2. PICK f \in exchange.request.lines, b \in exchange.request.lines :
            /\ ServerProofs!IsMeantBy(exchange.request, f, b)
            /\ ServerProofs!IsAllThere(exchange.request, f, b)
    BY <2>1, BothAreWhole DEF ServerProofs!IsWhole
  <2>3. ServerProofs!ReadsForMore
    BY <2>1, <2>2 DEF ServerProofs!WholeInv, ServerProofs!Whole
  <2>4. srv.pc = "read" /\ srv.offset = c2s
    BY <2>1, RequestHasNoChunks DEF ServerMessage!Waits, ServerProofs!Inv, ServerProofs!RestFits
  <2> QED
    BY <2>1, <2>3, <2>4, ServerMeans DEF ServerProofs!ReadsForMore
<1> QED
  BY <1>1, InvInit, InvStep, PTL DEF Spec

-----------------------------------------------------------------------------
(* The end of the exchange: what the liveness properties need but fairness.   *)

\* A bound on the steps that both sides still take.  A byte of a message costs the one who
\* writes it a step, and the one who reads it up to four.
Turns ==
    (CASE client = "writing" -> 2 [] client = "reading" -> 1 [] OTHER -> 0)
    + (CASE server = "reading" -> 2 [] server = "writing" -> 1 [] OTHER -> 0)

StepsLeft ==
    (5 * (exchange.request.total - c2s)) + (5 * (exchange.response.total - s2c))
    + ServerProofs!StepsLeft + ClientProofs!StepsLeft + Turns

LEMMA StepsLeftTypes ==
    ASSUME Inv
    PROVE  /\ ServerProofs!StepsLeft \in Nat /\ ClientProofs!StepsLeft \in Nat
           /\ exchange.request.total - c2s \in Nat /\ exchange.response.total - s2c \in Nat
           /\ Turns \in Nat /\ StepsLeft \in Nat
<1>1. ServerProofs!StepsLeft \in Nat /\ ClientProofs!StepsLeft \in Nat
  BY ServerAssumptions, ClientAssumptions, ServerProofs!StepsLeftType, ClientProofs!StepsLeftType
  DEF Inv, BothParse
<1>2. exchange.request.total - c2s \in Nat /\ exchange.response.total - s2c \in Nat
  BY WriteTypes DEF Inv
<1>3. Turns \in Nat
  BY DEF Turns
<1> QED
  BY <1>1, <1>2, <1>3 DEF StepsLeft

\* A step of one of the constructors.
LEMMA ParsingComesCloser ==
    ASSUME Inv, Inv', ServerParses \/ ClientParses
    PROVE  StepsLeft' < StepsLeft
<1>t. /\ ServerProofs!StepsLeft \in Nat /\ ClientProofs!StepsLeft \in Nat
      /\ exchange.request.total - c2s \in Nat /\ exchange.response.total - s2c \in Nat
      /\ c2s \in Nat /\ s2c \in Nat /\ Turns \in Nat
  BY StepsLeftTypes, WriteTypes DEF Inv
<1>n. ServerProofs!StepsLeft' \in Nat /\ ClientProofs!StepsLeft' \in Nat
  BY ServerAssumptions, ClientAssumptions,
     ServerProofs!StepsLeftTypeNext, ClientProofs!StepsLeftTypeNext
  DEF Inv, BothParse
<1>1. CASE ServerParses
  <2>1. /\ UNCHANGED <<exchange, client, server, c2s, s2c, c2sEnd, s2cEnd, cli>>
        /\ ServerProofs!Read \/ ServerProofs!Parse
    BY <1>1, ServerSteps DEF ServerParses
  <2>2. ServerProofs!StepsLeft' < ServerProofs!StepsLeft
    BY <2>1, ServerAssumptions, ServerProofs!ReadComesCloser, ServerProofs!ParseComesCloser
    DEF Inv, BothParse, ServerProofs!Inv
  <2>3. ClientProofs!StepsLeft' = ClientProofs!StepsLeft + 4 * (s2c' - s2c)
    BY <1>t, <2>1, ClientAssumptions, ClientProofs!BytesCostSteps DEF Inv, BothParse
  <2>4. Turns' = Turns
    BY <2>1 DEF Turns
  <2> QED
    BY <1>t, <1>n, <2>1, <2>2, <2>3, <2>4 DEF StepsLeft
<1>2. CASE ClientParses
  <2>1. /\ UNCHANGED <<exchange, client, server, c2s, s2c, c2sEnd, s2cEnd, srv>>
        /\ ClientProofs!Read \/ ClientProofs!Parse
    BY <1>2, ClientSteps DEF ClientParses
  <2>2. ClientProofs!StepsLeft' < ClientProofs!StepsLeft
    BY <2>1, ClientAssumptions, ClientProofs!ReadComesCloser, ClientProofs!ParseComesCloser
    DEF Inv, BothParse, ClientProofs!Inv
  <2>3. ServerProofs!StepsLeft' = ServerProofs!StepsLeft + 4 * (c2s' - c2s)
    BY <1>t, <2>1, ServerAssumptions, ServerProofs!BytesCostSteps DEF Inv, BothParse
  <2>4. Turns' = Turns
    BY <2>1 DEF Turns
  <2> QED
    BY <1>t, <1>n, <2>1, <2>2, <2>3, <2>4 DEF StepsLeft
<1> QED
  BY <1>1, <1>2

\* A step of which no constructor knows: bytes are written, or a side goes on or away.
LEMMA OtherStepsComeCloser ==
    ASSUME Inv, Inv', exchange' = exchange, cli' = cli, srv' = srv,
           c2s' >= c2s, s2c' >= s2c, Turns' <= Turns,
           c2s' > c2s \/ s2c' > s2c \/ Turns' < Turns
    PROVE  StepsLeft' < StepsLeft
<1>t. /\ ServerProofs!StepsLeft \in Nat /\ ClientProofs!StepsLeft \in Nat
      /\ exchange.request.total \in Nat /\ exchange.response.total \in Nat
      /\ c2s \in Nat /\ s2c \in Nat /\ Turns \in Nat
  BY StepsLeftTypes, WriteTypes DEF Inv
<1>n. c2s' \in Nat /\ s2c' \in Nat /\ Turns' \in Nat
  <2>1. /\ c2s' \in 0..exchange'.request.total /\ s2c' \in 0..exchange'.response.total
    BY DEF Inv, TypeOK, ServerMessage!TypeOK, ClientMessage!TypeOK
  <2> QED
    BY <1>t, <2>1 DEF Turns
<1>1. /\ ServerProofs!StepsLeft' = ServerProofs!StepsLeft + 4 * (c2s' - c2s)
      /\ ClientProofs!StepsLeft' = ClientProofs!StepsLeft + 4 * (s2c' - s2c)
  BY <1>n, ServerAssumptions, ClientAssumptions,
     ServerProofs!BytesCostSteps, ClientProofs!BytesCostSteps
  DEF Inv, BothParse
<1> QED
  BY <1>t, <1>n, <1>1 DEF StepsLeft

\* An exchange cannot go on for ever: whoever dies and however the messages are cut, every step
\* of either side lowers the number of steps that are left.
THEOREM ExchangeEndsInTime == Spec => [](StepsLeft \in Nat) /\ [][StepsLeft' < StepsLeft]_vars
<1>1. Inv /\ Inv' /\ [Next]_vars => [StepsLeft' < StepsLeft]_vars
  <2> SUFFICES ASSUME Inv, Inv', Next PROVE StepsLeft' < StepsLeft
    OBVIOUS
  <2>t. /\ c2s \in Nat /\ s2c \in Nat
        /\ client = "writing" => AfterNextWrite(exchange.request, c2s) > c2s
        /\ s2c < exchange.response.total => AfterNextWrite(exchange.response, s2c) > s2c
    BY WriteTypes DEF Inv, InTurn
  <2>u. Turns \in Nat /\ Turns' \in Nat
    BY DEF Turns
  <2>w. c2s' \in Nat /\ s2c' \in Nat /\ c2s \in Nat /\ s2c \in Nat
    <3>1. TypeOK'
      BY DEF Inv
    <3>2. /\ exchange' = exchange
          /\ exchange.request.total \in Nat /\ exchange.response.total \in Nat
      BY WriteTypes
      DEF Inv, Next, Client, ClientWrites, ClientWriteFails, ClientParses, ClientCloses, Server,
          ServerParses, ServerHandles, ServerWrites, ServerWriteFails, ServerCloses,
          ClientCrashes, ServerCrashes
    <3> QED
      BY <2>t, <3>1, <3>2 DEF TypeOK, ServerMessage!TypeOK, ClientMessage!TypeOK
  <2>1. CASE ServerParses \/ ClientParses
    BY <2>1, ParsingComesCloser
  <2>2. CASE ClientWrites
    <3>1. /\ UNCHANGED <<exchange, server, s2c, cli, srv>> /\ c2s' > c2s
          /\ client = "writing" /\ client' \in {"writing", "reading"}
      BY <2>t, <2>2 DEF ClientWrites
    <3>2. Turns' <= Turns
      BY <3>1 DEF Turns
    <3> QED
      BY <2>w, <3>1, <3>2, OtherStepsComeCloser
  <2>3. CASE ServerWrites
    <3>1. UNCHANGED <<exchange, client, server, c2s, cli, srv>> /\ s2c' > s2c
      BY <2>t, <2>3 DEF ServerWrites
    <3>2. Turns' = Turns
      BY <3>1 DEF Turns
    <3> QED
      BY <2>u, <2>w, <3>1, <3>2, OtherStepsComeCloser
  <2>4. CASE ClientWriteFails \/ ClientCloses \/ ClientCrashes
    <3>1. /\ UNCHANGED <<exchange, server, c2s, s2c, cli, srv>>
          /\ client \in {"writing", "reading"} /\ client' \in {"finished", "failed"}
      BY <2>4 DEF ClientWriteFails, ClientCloses, ClientCrashes
    <3>2. Turns' < Turns
      BY <3>1 DEF Turns
    <3> QED
      BY <2>t, <2>u, <3>1, <3>2, OtherStepsComeCloser
  <2>5. CASE ServerHandles \/ ServerWriteFails \/ ServerCloses \/ ServerCrashes
    <3>1. /\ UNCHANGED <<exchange, client, c2s, s2c, cli, srv>>
          /\ \/ server = "reading" /\ server' = "writing"
             \/ server \in {"writing", "reading"} /\ server' \in {"finished", "failed"}
      BY <2>5 DEF ServerHandles, ServerWriteFails, ServerCloses, ServerCrashes
    <3>2. Turns' < Turns
      BY <3>1 DEF Turns
    <3> QED
      BY <2>t, <2>u, <3>1, <3>2, OtherStepsComeCloser
  <2> QED
    BY <2>1, <2>2, <2>3, <2>4, <2>5 DEF Next, Client, Server
<1>2. Inv => StepsLeft \in Nat
  BY StepsLeftTypes
<1> QED
  BY <1>1, <1>2, InvInit, InvStep, PTL DEF Spec

\* A thread that is blocked in read().
ClientWaits == client = "reading" /\ ClientMessage!Waits
ServerWaits == server = "reading" /\ ServerMessage!Waits

\* When neither side can go on, the exchange is over, or the end of the request filled the buffer.
StuckOnlyIfFull ==
    /\ client \in Gone \/ ClientWaits
    /\ server \in Gone \/ ServerWaits
    => \/ client \in Gone /\ server \in Gone
       \/ ClientWaits /\ ServerWaits /\ ServerMessage!FilledByTheEnd

\* Nobody waits for a side that is gone, and both wait for each other only if the buffer is full.
THEOREM NobodyIsLeftWaiting == Spec => []StuckOnlyIfFull
<1> DEFINE Ended == (client \in Gone => c2sEnd # "open") /\ (server \in Gone => s2cEnd # "open")
<1>1. Init => Ended
  BY DEF Init, Gone
<1>2. Ended /\ [Next]_vars => Ended'
  BY DEF Next, Client, ClientWrites, ClientWriteFails, ClientParses, ClientCloses, Server,
         ServerParses, ServerHandles, ServerWrites, ServerWriteFails, ServerCloses,
         ClientCrashes, ServerCrashes, vars, Gone
<1>3. Ended /\ DeadlockOnlyIfFull => StuckOnlyIfFull
  BY DEF DeadlockOnlyIfFull, StuckOnlyIfFull, ClientWaits, ServerWaits, ServerMessage!Waits,
         ClientMessage!Waits
<1> HIDE DEF Ended
<1> QED
  BY <1>1, <1>2, <1>3, OnlyAFullBufferDeadlocks, PTL DEF Spec

=============================================================================
