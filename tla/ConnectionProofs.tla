-------------------------- MODULE ConnectionProofs --------------------------
(***************************************************************************)
(* The safety properties of Connection, and that each step of the reader    *)
(* comes closer to its end, proved for every record size, buffer length,    *)
(* kernel queue and length of the stream.                                   *)
(***************************************************************************)
EXTENDS Connection, TLAPS

-----------------------------------------------------------------------------
(* Arithmetic                                                                *)

\* What division and remainder are of each other.
LEMMA DivMod ==
    ASSUME NEW a \in Nat, NEW r \in Nat \ {0}
    PROVE  /\ a \div r \in Nat /\ a % r \in 0..(r - 1)
           /\ a = ((a \div r) * r) + (a % r)
OBVIOUS

\* A multiple has no remainder.
LEMMA Multiple ==
    ASSUME NEW q \in Nat, NEW r \in Nat \ {0}
    PROVE  q * r \in Nat /\ (q * r) % r = 0
OBVIOUS

\* The remainder is the only number below the divisor that differs by a multiple.
LEMMA UniqueRemainder ==
    ASSUME NEW k \in Nat, NEW r \in Nat \ {0}, NEW m \in 0..(r - 1)
    PROVE  ((k * r) + m) % r = m
OBVIOUS

\* What is added to a multiple decides the remainder.
LEMMA ModAdd ==
    ASSUME NEW a \in Nat, NEW b \in Nat, NEW r \in Nat \ {0}, a % r = 0
    PROVE  (a + b) % r = b % r
<1> DEFINE i == a \div r
           j == b \div r
           m == b % r
<1>1. i \in Nat /\ j \in Nat /\ m \in 0..(r - 1) /\ a = i * r /\ b = (j * r) + m
    BY DivMod
<1>2. a + b = ((i + j) * r) + m
    <2>. HIDE DEF i, j, m
    <2>. QED  BY <1>1
<1>3. (((i + j) * r) + m) % r = m
    <2>. HIDE DEF i, j, m
    <2>1. i + j \in Nat
        BY <1>1
    <2>. QED  BY <1>1, <2>1, UniqueRemainder
<1>. QED
    BY <1>2, <1>3

\* Multiplication distributes over the parts of a container.
LEMMA Distributes ==
    ASSUME NEW a \in Nat, NEW b \in Nat, NEW r \in Nat
    PROVE  /\ (a + b) * r = a * r + b * r
           /\ a <= b => (b - a) * r = b * r - a * r
           /\ a <= b => (b - a) * r \in Nat
OBVIOUS

\* growth_k is enough for a container of two records to grow, and so for any larger one.
LEMMA GrowGrows ==
    ASSUME NEW n \in Nat, n >= 2
    PROVE  Grow(n) \in Nat /\ Grow(n) > n
BY DEF Grow

-----------------------------------------------------------------------------
(* The inductive invariant                                                   *)

\* The stream has ended, and every byte of it has been looked at.
StreamEnded == outbound # "open" /\ taken + raw = sent

\* No byte is read before it was sent, or sent before it was handed over.
SentInv ==
    /\ taken + raw <= sent /\ sent <= handed
    /\ writer # "failed" => sent + todo = handed
    /\ writer = "idle" => todo = 0

\* While reading, the container has room, and BlockingReadUntilEOF's is full up to `offset`.
BufferInv ==
    pc # "done" =>
        /\ offset < size /\ 2 <= size
        /\ raw <= MaxLengthInBytes
        /\ call.until_eof => taken = offset * call.record

\* What the values returned by BlockingRead mean.
ReturnInv ==
    /\ taken % call.record = 0
    /\ pc = "returned" =>
         /\ raw % call.record = 0
         /\ raw = 0 \/ (call.policy = "FillFullBuffer" /\ ~IsFull) => StreamEnded
    /\ pc = "premature" => StreamEnded /\ sent % call.record # 0
    /\ pc = "done" =>
         /\ StreamEnded /\ raw = 0
         /\ call.until_eof => size * call.record = sent

Inv == TypeOK /\ SentInv /\ BufferInv /\ ReturnInv

LEMMA InitInv == Init => Inv
<1>. SUFFICES ASSUME Init PROVE Inv
    OBVIOUS
<1>. USE ConnectionAssumption DEF Init, Calls
<1>1. call.record \in Nat \ {0} /\ call.length \in Nat \ {0, 1}
    OBVIOUS
<1>2. TypeOK
    BY <1>1 DEF TypeOK
<1>3. SentInv
    BY DEF SentInv
<1>4. BufferInv
    BY <1>1 DEF BufferInv, MaxLengthInBytes
<1>5. ReturnInv
    BY <1>1 DEF ReturnInv
<1>. QED
    BY <1>2, <1>3, <1>4, <1>5 DEF Inv

-----------------------------------------------------------------------------
(* The writer, the kernel and the network: the reader's state stays, and so does the   *)
(* end of the stream, as nothing is sent after it.                                      *)

LEMMA WriterKeepsReaderInv ==
    ASSUME Inv, UNCHANGED <<call, readerVars>>,
           outbound # "open" => outbound' # "open" /\ sent' = sent
    PROVE  BufferInv' /\ ReturnInv'
<1>. USE DEF readerVars
<1>1. StreamEnded => StreamEnded'
    BY DEF StreamEnded
<1>2. BufferInv'
    BY DEF Inv, BufferInv, MaxLengthInBytes
<1>3. IsFull' = IsFull
    BY DEF IsFull, Returned
<1>4. ReturnInv'
    <2>1. StreamEnded => sent' = sent
        BY DEF StreamEnded
    <2>. QED
        BY <1>1, <1>3, <2>1 DEF Inv, ReturnInv
<1>. QED
    BY <1>2, <1>4

LEMMA WriterStep ==
    ASSUME Inv,
           \/ \E n \in 1..MaxBytes : BlockingWrite(n)
           \/ Kernel
           \/ BlockingWriteThrows
           \/ SendEOFOrClose
           \/ ConnectionLost
    PROVE  Inv'
<1>. USE ConnectionAssumption DEF Inv
<1>1. CASE \E n \in 1..MaxBytes : BlockingWrite(n)
    <2>1. PICK n \in 1..MaxBytes : BlockingWrite(n)
        BY <1>1
    <2>2. TypeOK'
        BY <2>1 DEF TypeOK, BlockingWrite, readerVars
    <2>3. SentInv'
        BY <2>1 DEF TypeOK, SentInv, BlockingWrite, readerVars
    <2>. QED
        BY <2>1, <2>2, <2>3, WriterKeepsReaderInv DEF BlockingWrite
<1>2. CASE Kernel
    <2>1. PICK n \in 1..MaxBytes : KernelTakes(n)
        BY <1>2 DEF Kernel
    <2>2. SentInv'
        BY <2>1 DEF TypeOK, SentInv, KernelTakes, Room, readerVars
    <2>3. TypeOK'
        BY <2>1, <2>2 DEF TypeOK, SentInv, KernelTakes, Room, readerVars
    <2>. QED
        BY <2>1, <2>2, <2>3, WriterKeepsReaderInv DEF KernelTakes
<1>3. CASE BlockingWriteThrows
    <2>1. TypeOK' /\ SentInv'
        BY <1>3 DEF TypeOK, SentInv, BlockingWriteThrows, readerVars
    <2>. QED
        BY <1>3, <2>1, WriterKeepsReaderInv DEF BlockingWriteThrows
<1>4. CASE SendEOFOrClose
    <2>1. TypeOK' /\ SentInv'
        BY <1>4 DEF TypeOK, SentInv, SendEOFOrClose, readerVars
    <2>. QED
        BY <1>4, <2>1, WriterKeepsReaderInv DEF SendEOFOrClose
<1>5. CASE ConnectionLost
    <2>1. TypeOK' /\ SentInv'
        BY <1>5 DEF TypeOK, SentInv, ConnectionLost, readerVars
    <2>. QED
        BY <1>5, <2>1, WriterKeepsReaderInv DEF ConnectionLost
<1>. QED
    BY <1>1, <1>2, <1>3, <1>4, <1>5

-----------------------------------------------------------------------------
(* BlockingRead: the container stays, and so does what earlier calls returned.            *)

LEMMA Types ==
    ASSUME TypeOK
    PROVE  /\ call.record \in Nat \ {0} /\ call.length \in Nat
           /\ raw \in Nat /\ size \in Nat /\ offset \in Nat /\ offset <= size /\ taken \in Nat
           /\ sent \in Nat /\ handed \in Nat /\ todo \in Nat
           /\ Returned \in Nat /\ raw = (Returned * call.record) + (raw % call.record)
           /\ MaxLengthInBytes \in Nat
<1>1. call.record \in Nat \ {0} /\ call.length \in Nat
    BY ConnectionAssumption DEF TypeOK, Calls
<1>2. raw \in Nat /\ size \in Nat /\ offset \in Nat /\ offset <= size /\ taken \in Nat
    BY DEF TypeOK
<1>3. sent \in Nat /\ handed \in Nat /\ todo \in Nat
    BY ConnectionAssumption DEF TypeOK
<1>4. Returned \in Nat /\ raw = (Returned * call.record) + (raw % call.record)
    BY <1>1, <1>2, DivMod DEF Returned
<1>5. MaxLengthInBytes \in Nat
    <2>1. size - offset \in Nat
        BY <1>2
    <2>. QED
        BY <1>1, <2>1 DEF MaxLengthInBytes
<1>. QED
    BY <1>1, <1>2, <1>3, <1>4, <1>5

LEMMA ReadSomeStep ==
    ASSUME Inv, NEW n \in 1..MaxBytes, ReadSome(n)
    PROVE  Inv'
<1>. USE DEF Inv, writerVars
<1>0. n \in Nat \ {0}
    BY ConnectionAssumption
<1>1. TypeOK'
    BY <1>0 DEF ReadSome, TypeOK
<1>2. SentInv'
    BY <1>0, Types DEF ReadSome, SentInv
<1>3. BufferInv'
    <2>1. raw + n <= MaxLengthInBytes
        BY <1>0, Types DEF ReadSome, BytesWanted
    <2>. QED
        BY <2>1 DEF ReadSome, BufferInv, MaxLengthInBytes
<1>4. ReturnInv'
    <2>1. (raw + n) % call.record \in Nat
        <3>1. raw + n \in Nat /\ call.record \in Nat \ {0}
            BY <1>0, Types
        <3>. QED
            BY <3>1
    <2>2. CASE KeepsReading(raw + n)
        BY <2>2 DEF ReadSome, ReturnInv
    <2>3. CASE ~KeepsReading(raw + n)
        <3>1. (raw + n) % call.record = 0 /\ call.policy # "FillFullBuffer"
            BY <2>1, <2>3 DEF KeepsReading
        <3>2. raw' # 0
            BY <1>0, Types DEF ReadSome
        <3>. QED
            BY <2>3, <3>1, <3>2 DEF ReadSome, ReturnInv
    <2>. QED
        BY <2>2, <2>3
<1>. QED
    BY <1>1, <1>2, <1>3, <1>4

LEMMA ReadNothingStep ==
    ASSUME Inv, ReadNothing
    PROVE  Inv'
<1>. USE DEF Inv, writerVars
<1>1. TypeOK'
    BY DEF ReadNothing, TypeOK, Ended
<1>2. SentInv'
    BY DEF ReadNothing, SentInv
<1>3. BufferInv'
    BY DEF ReadNothing, BufferInv, MaxLengthInBytes
<1>4. IsFull' = IsFull /\ StreamEnded' = StreamEnded
    BY DEF ReadNothing, IsFull, Returned, StreamEnded
<1>5. CASE BytesWanted = 0
    \* BlockingRead has filled its buffer, which is a whole number of records.
    <2>1. raw = (size - offset) * call.record /\ size - offset \in Nat \ {0}
        <3>1. raw = MaxLengthInBytes
            BY <1>5, Types DEF BytesWanted
        <3>2. size - offset \in Nat \ {0}
            BY Types DEF ReadNothing, BufferInv
        <3>. QED
            BY <3>1, <3>2 DEF MaxLengthInBytes
    <2>2. raw % call.record = 0
        BY <2>1, Types, Multiple
    <2>3. IsFull
        <3>1. Returned * call.record = (size - offset) * call.record
            BY <2>1, <2>2, Types
        <3>2. \A i, j \in Nat, r \in Nat \ {0} : i * r = j * r => i = j
            OBVIOUS
        <3>. QED
            BY <2>1, <3>1, <3>2, Types DEF IsFull
    <2>4. raw # 0
        <3>1. \A i, r \in Nat \ {0} : i * r # 0
            OBVIOUS
        <3>. QED
            BY <2>1, <3>1, Types
    <2>5. ReturnInv'
        BY <1>4, <2>2, <2>3, <2>4 DEF ReadNothing, ReturnInv
    <2>. QED
        BY <1>1, <1>2, <1>3, <2>5
<1>6. CASE BytesWanted # 0
    \* The peer has ended the stream.
    <2>1. StreamEnded
        BY <1>6 DEF ReadNothing, ReadReturnsZero, StreamEnded
    <2>2. sent % call.record = raw % call.record
        <3>1. taken \in Nat /\ raw \in Nat /\ call.record \in Nat \ {0}
            BY Types
        <3>2. taken % call.record = 0
            BY DEF ReturnInv
        <3>3. (taken + raw) % call.record = raw % call.record
            BY ONLY <3>1, <3>2, ModAdd
        <3>. QED
            BY <2>1, <3>3 DEF StreamEnded
    <2>3. ReturnInv'
        BY <1>4, <2>1, <2>2 DEF ReadNothing, ReturnInv
    <2>. QED
        BY <1>1, <1>2, <1>3, <2>3
<1>. QED
    BY <1>5, <1>6

LEMMA ReadFailsStep ==
    ASSUME Inv, ReadFails
    PROVE  Inv'
<1>. USE DEF Inv, writerVars, ReadFails
<1>1. TypeOK'
    BY DEF TypeOK, Ended
<1>2. SentInv' /\ BufferInv'
    BY DEF SentInv, BufferInv, MaxLengthInBytes
<1>3. ReturnInv'
    BY DEF ReturnInv
<1>. QED
    BY <1>1, <1>2, <1>3

-----------------------------------------------------------------------------
(* The callers: a BlockingRead has returned whole records.                   *)

LEMMA ReturnedRecords ==
    ASSUME Inv, pc = "returned"
    PROVE  /\ raw = Returned * call.record
           /\ taken + raw \in Nat
           /\ (taken + raw) % call.record = 0
<1>1. raw % call.record = 0 /\ taken % call.record = 0
    BY DEF Inv, ReturnInv
<1>2. raw = Returned * call.record
    BY <1>1, Types DEF Inv
<1>3. taken \in Nat /\ raw \in Nat /\ call.record \in Nat \ {0}
    BY Types DEF Inv
<1>4. (taken + raw) % call.record = 0
    BY ONLY <1>1, <1>3, ModAdd
<1>. QED
    BY <1>2, <1>3, <1>4

LEMMA GrowAndReadOnStep ==
    ASSUME Inv, GrowAndReadOn
    PROVE  Inv'
<1>. USE DEF Inv, writerVars, GrowAndReadOn
<1>1. size >= 2 /\ offset < size /\ taken = offset * call.record
    BY DEF BufferInv
<1>2. size' \in Nat /\ size' > size
    BY <1>1, GrowGrows, Types
<1>3. taken' = size * call.record
    <2>1. raw = (size - offset) * call.record
        BY ReturnedRecords DEF IsFull
    <2>2. (size - offset) * call.record = (size * call.record) - (offset * call.record)
        BY <1>1, Distributes, Types
    <2>3. size * call.record \in Nat /\ offset * call.record \in Nat
        BY Types
    <2>. QED
        BY <1>1, <2>1, <2>2, <2>3
<1>4. TypeOK'
    BY <1>2, ReturnedRecords, Types DEF TypeOK
<1>5. SentInv'
    BY Types DEF SentInv
<1>6. BufferInv'
    <2>1. MaxLengthInBytes' \in Nat
        <3>1. size' - size \in Nat /\ call.record \in Nat
            BY <1>2, Types
        <3>. QED
            BY <3>1 DEF MaxLengthInBytes
    <2>. QED
        BY <1>1, <1>2, <1>3, <2>1, Types DEF BufferInv
<1>7. ReturnInv'
    BY ReturnedRecords DEF ReturnInv
<1>. QED
    BY <1>4, <1>5, <1>6, <1>7

LEMMA ReturnContainerStep ==
    ASSUME Inv, ReturnContainer
    PROVE  Inv'
<1>. USE DEF Inv, writerVars, ReturnContainer
<1>1. taken = offset * call.record
    BY DEF BufferInv
<1>2. size' * call.record = taken'
    <2>1. (offset + Returned) * call.record = (offset * call.record) + (Returned * call.record)
        BY Distributes, Types
    <2>. QED
        BY <1>1, <2>1, ReturnedRecords
<1>3. StreamEnded /\ StreamEnded'
    <2>1. call.policy = "FillFullBuffer"
        BY DEF TypeOK
    <2>2. StreamEnded
        BY <2>1 DEF ReturnInv
    <2>. QED
        BY <2>2, Types DEF StreamEnded
<1>4. TypeOK'
    <2>1. size' \in Nat /\ offset' <= size'
        BY Types
    <2>. QED
        BY <2>1, ReturnedRecords, Types DEF TypeOK, Ended
<1>5. SentInv'
    BY Types DEF SentInv
<1>6. BufferInv'
    BY DEF BufferInv
<1>7. ReturnInv'
    BY <1>2, <1>3, ReturnedRecords DEF ReturnInv, StreamEnded
<1>. QED
    BY <1>4, <1>5, <1>6, <1>7

LEMMA ReadNextBlockStep ==
    ASSUME Inv, ReadNextBlock
    PROVE  Inv'
<1>. USE DEF Inv, writerVars, ReadNextBlock
<1>1. TypeOK'
    BY ReturnedRecords DEF TypeOK, Ended
<1>2. SentInv'
    BY Types DEF SentInv
<1>3. BufferInv'
    <2>1. MaxLengthInBytes' = MaxLengthInBytes
        BY DEF MaxLengthInBytes
    <2>. QED
        BY <2>1, Types DEF BufferInv
<1>4. CASE Returned = 0
    \* BlockingRead returns 0 only at the end of the stream.
    <2>1. raw = 0
        BY <1>4, ReturnedRecords, Types
    <2>2. StreamEnded'
        BY <2>1, Types DEF ReturnInv, StreamEnded
    <2>3. ReturnInv'
        BY <1>4, <2>2, ReturnedRecords DEF ReturnInv
    <2>. QED
        BY <1>1, <1>2, <1>3, <2>3
<1>5. CASE Returned # 0
    <2>1. ReturnInv'
        BY <1>5, ReturnedRecords DEF ReturnInv
    <2>. QED
        BY <1>1, <1>2, <1>3, <2>1
<1>. QED
    BY <1>4, <1>5

-----------------------------------------------------------------------------
(* Theorems                                                                  *)

LEMMA NextInv == Inv /\ [Next]_vars => Inv'
<1>. SUFFICES ASSUME Inv, [Next]_vars PROVE Inv'
    OBVIOUS
<1>1. CASE Reader
    BY <1>1, ReadSomeStep, ReadNothingStep, ReadFailsStep,
       GrowAndReadOnStep, ReturnContainerStep, ReadNextBlockStep DEF Reader
<1>2. CASE UNCHANGED vars
    <2>. USE <1>2 DEF vars, readerVars, writerVars
    <2>1. TypeOK' /\ SentInv'
        BY DEF Inv, TypeOK, SentInv
    <2>2. BufferInv'
        BY DEF Inv, BufferInv, MaxLengthInBytes
    <2>3. ReturnInv'
        BY DEF Inv, ReturnInv, StreamEnded, IsFull, Returned
    <2>. QED
        BY <2>1, <2>2, <2>3 DEF Inv
<1>. QED
    BY <1>1, <1>2, WriterStep DEF Next

\* The inductive invariant: what has been read, kept and returned at every point, for any
\* sizes of records, buffers and kernel queues.
THEOREM Invariance == Spec => []Inv
BY InitInv, NextInv, PTL DEF Spec

\* Every variable keeps its type: offsets stay within the container, counts are not negative.
THEOREM TypeCorrect == Spec => []TypeOK
BY Invariance, PTL DEF Inv

\* BlockingRead never has ::read write past the records it was given.
THEOREM WritesFit == Spec => []NeverWritesPastTheBuffer
<1>1. Inv => NeverWritesPastTheBuffer
    BY DEF Inv, BufferInv, NeverWritesPastTheBuffer
<1>. QED
    BY <1>1, Invariance, PTL

\* Records come back whole, and only a stream that ends inside of one makes BlockingRead throw.
THEOREM RecordsAreWhole == Spec => []RecordsNeverTorn
<1>1. Inv => RecordsNeverTorn
    BY DEF Inv, ReturnInv, StreamEnded, RecordsNeverTorn
<1>. QED
    BY <1>1, Invariance, PTL

\* A reader that came to a normal end has the whole stream, in a container of its size.
THEOREM StreamIsReturned == Spec => []EverythingSentIsReturned
<1>1. Inv => EverythingSentIsReturned
    <2>. SUFFICES ASSUME Inv, pc = "done" PROVE EverythingSentIsReturned
        BY DEF EverythingSentIsReturned
    <2>1. StreamEnded /\ raw = 0 /\ (call.until_eof => size * call.record = sent)
        BY DEF Inv, ReturnInv
    <2>2. taken = sent /\ outbound # "open"
        BY <2>1, Types DEF Inv, StreamEnded
    <2>3. writer = "idle" => sent = handed
        BY Types DEF Inv, SentInv
    <2>. QED
        BY <2>1, <2>2, <2>3 DEF EverythingSentIsReturned
<1>. QED
    BY <1>1, Invariance, PTL

\* With FillFullBuffer BlockingRead returns less than it was asked for only at the end.
THEOREM ShortFillMeansEnd == Spec => []ShortFillOnlyAtTheEnd
<1>1. Inv => ShortFillOnlyAtTheEnd
    BY DEF Inv, ReturnInv, StreamEnded, ShortFillOnlyAtTheEnd
<1>. QED
    BY <1>1, Invariance, PTL

-----------------------------------------------------------------------------
(* The end of the stream is reached.  Liveness needs fairness, and the prover has none; *)
(* what fairness needs of the code, a measure and a step to take, is proved here.       *)

\* BlockingRead is called again after it has returned.
ReadsOn == IF call.until_eof THEN IsFull ELSE Returned # 0

\* A bound on the steps the reader still takes unless more is sent.
StepsLeft ==
    (3 * (sent - (taken + raw)))
    + (CASE pc = "reading" -> IF raw = 0 THEN 2 ELSE 4
         [] pc = "returned" -> IF ReadsOn THEN 3 ELSE 1
         [] OTHER -> 0)

\* Each step of the reader leaves fewer to be taken, and once the stream has ended no step adds any.
ComesCloser ==
    /\ readerVars' # readerVars => StepsLeft' < StepsLeft
    /\ outbound # "open" => StepsLeft' <= StepsLeft

LEMMA StepsLeftType == Inv => StepsLeft \in Nat
<1>. SUFFICES ASSUME Inv PROVE StepsLeft \in Nat
    OBVIOUS
<1>1. sent - (taken + raw) \in Nat
    BY Types DEF Inv, SentInv
<1>. QED
    BY <1>1 DEF StepsLeft

LEMMA ReaderComesCloser ==
    ASSUME Inv, Reader
    PROVE  StepsLeft' < StepsLeft
<1>0. /\ raw \in Nat /\ taken \in Nat /\ sent \in Nat /\ size \in Nat /\ offset \in Nat
      /\ Returned \in Nat
    BY Types DEF Inv
<1>1. ASSUME NEW n \in 1..MaxBytes, ReadSome(n) PROVE StepsLeft' < StepsLeft
    <2>1. n \in Nat \ {0}
        BY ConnectionAssumption
    <2>2. /\ pc = "reading" /\ pc' \in {"reading", "returned"}
          /\ raw' = raw + n /\ taken' = taken /\ sent' = sent
        BY <1>1 DEF ReadSome, writerVars
    <2>. QED
        BY <1>0, <2>1, <2>2 DEF StepsLeft
<1>2. CASE ReadNothing
    <2>1. /\ pc = "reading" /\ pc' \in {"premature", "returned"}
          /\ raw' = raw /\ taken' = taken /\ sent' = sent
        BY <1>2 DEF ReadNothing, writerVars
    <2>2. raw = 0 => ~ReadsOn'
        <3>1. SUFFICES ASSUME raw = 0 PROVE Returned' = 0 /\ ~IsFull'
            BY DEF ReadsOn
        <3>2. call' = call /\ size' = size /\ offset' = offset /\ call.record \in Nat \ {0}
            BY <1>2, Types DEF ReadNothing, Inv
        <3>3. Returned' = 0
            BY <2>1, <3>1, <3>2 DEF Returned
        <3>4. offset < size
            BY <2>1 DEF Inv, BufferInv
        <3>. QED
            BY <1>0, <3>2, <3>3, <3>4 DEF IsFull
    <2>. QED
        BY <1>0, <2>1, <2>2 DEF StepsLeft
<1>3. CASE ReadFails
    <2>1. /\ pc = "reading" /\ pc' = "readerror"
          /\ raw' = raw /\ taken' = taken /\ sent' = sent
        BY <1>3 DEF ReadFails, writerVars
    <2>. QED
        BY <1>0, <2>1 DEF StepsLeft
\* The other steps give what BlockingRead returned to the caller.
<1>4. ASSUME pc = "returned", taken' = taken + raw, raw' = 0, sent' = sent,
             IF ReadsOn THEN pc' = "reading" ELSE pc' = "done"
      PROVE  StepsLeft' < StepsLeft
    BY <1>0, <1>4 DEF StepsLeft
<1>5. CASE GrowAndReadOn
    BY <1>4, <1>5 DEF GrowAndReadOn, ReadsOn, writerVars
<1>6. CASE ReturnContainer
    BY <1>4, <1>6 DEF ReturnContainer, ReadsOn, writerVars
<1>7. CASE ReadNextBlock
    BY <1>4, <1>7 DEF ReadNextBlock, ReadsOn, writerVars
<1>. QED
    BY <1>1, <1>2, <1>3, <1>5, <1>6, <1>7 DEF Reader

\* Nothing but more bytes postpones the end of the reader: it takes at most StepsLeft more steps, and
\* after the end of the stream or the loss of the connection nobody raises that number.
THEOREM ReaderEndsInTime == Spec => [](StepsLeft \in Nat) /\ [][ComesCloser]_vars
<1>p. Inv' => (StepsLeft \in Nat)'
    BY StepsLeftType, PTL
<1>1. Inv /\ [Next]_vars => [ComesCloser]_vars
    <2>. SUFFICES ASSUME Inv, Next PROVE ComesCloser
        OBVIOUS
    <2>1. StepsLeft \in Nat
        BY StepsLeftType
    <2>2. CASE Reader
        <3>1. StepsLeft' < StepsLeft /\ StepsLeft' \in Nat
            BY <1>p, <2>2, ReaderComesCloser, NextInv
        <3>. QED
            BY <2>1, <3>1 DEF ComesCloser
    <2>3. CASE ~Reader
        <3>1. /\ readerVars' = readerVars /\ call' = call
              /\ outbound # "open" => sent' = sent
            BY <2>3
            DEF Next, Kernel, BlockingWrite, KernelTakes, BlockingWriteThrows, SendEOFOrClose,
                ConnectionLost
        <3>2. outbound # "open" => StepsLeft' = StepsLeft
            BY <3>1 DEF StepsLeft, ReadsOn, IsFull, Returned, readerVars
        <3>. QED
            BY <2>1, <3>1, <3>2 DEF ComesCloser
    <2>. QED
        BY <2>2, <2>3
<1>. QED
    BY <1>1, StepsLeftType, InitInv, NextInv, PTL DEF Spec

\* A write in progress has bytes left, and the stream has not been ended under it.
WriteInv ==
    /\ writer = "writing" => todo > 0 /\ outbound # "eof"
    /\ pc = "readerror" => outbound = "reset"

\* Somebody can move a byte of a write in progress: the kernel, or the reader.
WriteMoves ==
    writer = "writing" =>
        \/ outbound = "reset"
        \/ todo > 0 /\ sent + 1 - (taken + raw) <= Capacity
        \/ pc = "returned"
        \/ pc = "reading" /\ (BytesWanted = 0 \/ taken + raw < sent)

\* However small the kernel's queue and the reader's buffer are, a BlockingWrite does not stand
\* still: there is room in the queue, or the reader has something to take out of it.
THEOREM WritesMove == Spec => []WriteMoves
<1>1. Init => WriteInv
    BY DEF Init, WriteInv
<1>2. Inv /\ WriteInv /\ [Next]_vars => WriteInv'
    <2>. SUFFICES ASSUME Inv, WriteInv, [Next]_vars PROVE WriteInv'
        OBVIOUS
    <2>0. todo \in Nat
        BY DEF Inv, TypeOK
    <2>1. ASSUME NEW n \in 1..MaxBytes, BlockingWrite(n) PROVE WriteInv'
        <3>1. n > 0
            BY ConnectionAssumption
        <3>. QED
            BY <2>1, <3>1 DEF BlockingWrite, WriteInv, readerVars
    <2>2. ASSUME NEW n \in 1..MaxBytes, KernelTakes(n) PROVE WriteInv'
        <3>1. n \in Nat /\ n <= todo /\ todo' = todo - n /\ outbound' = "open"
              /\ (writer' = "writing" => todo' # 0) /\ pc' = pc /\ outbound = "open"
            BY <2>2, ConnectionAssumption DEF KernelTakes, Room, readerVars
        <3>. QED
            BY <2>0, <3>1 DEF WriteInv
    <2>3. CASE BlockingWriteThrows
        BY <2>3 DEF BlockingWriteThrows, WriteInv, readerVars
    <2>4. CASE SendEOFOrClose
        BY <2>4 DEF SendEOFOrClose, WriteInv, readerVars
    <2>5. CASE ConnectionLost
        BY <2>5 DEF ConnectionLost, WriteInv, readerVars
    <2>6. CASE Reader \/ UNCHANGED vars
        <3>1. UNCHANGED writerVars /\ (pc' = "readerror" => pc = "readerror" \/ outbound = "reset")
            BY <2>6
            DEF vars, readerVars, Reader, ReadSome, ReadNothing, ReadFails, GrowAndReadOn,
                ReturnContainer, ReadNextBlock
        <3>. QED
            BY <3>1 DEF writerVars, WriteInv
    <2>. QED
        BY <2>1, <2>2, <2>3, <2>4, <2>5, <2>6 DEF Next, Kernel
<1>3. Inv /\ WriteInv => WriteMoves
    <2>. SUFFICES ASSUME Inv, WriteInv, writer = "writing", outbound # "reset"
                  PROVE  \/ todo > 0 /\ sent + 1 - (taken + raw) <= Capacity
                         \/ pc = "returned"
                         \/ pc = "reading" /\ (BytesWanted = 0 \/ taken + raw < sent)
        BY DEF WriteMoves
    <2>1. outbound = "open" /\ todo > 0
        BY DEF WriteInv, Inv, TypeOK
    <2>2. pc \in {"reading", "returned"}
        BY <2>1 DEF WriteInv, Inv, TypeOK, Ended, ReturnInv, StreamEnded
    <2>. QED
        BY <2>1, <2>2, Types, ConnectionAssumption DEF Inv, SentInv
<1>. QED
    BY <1>1, <1>2, <1>3, InitInv, NextInv, PTL DEF Spec

=============================================================================
