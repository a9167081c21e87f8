----------------------------- MODULE Connection -----------------------------
(***************************************************************************)
(* One direction of a bricks::net::Connection (bricks/net/tcp/impl/posix.h): *)
(* a writer that calls BlockingWrite, SendEOF or is destroyed, the kernel   *)
(* queue between the two ends, and a reader that calls BlockingRead in a    *)
(* loop or BlockingReadUntilEOF.  Bytes are counted, not represented; one   *)
(* action of the reader is one call of ::read.                              *)
(***************************************************************************)
EXTENDS Integers

CONSTANTS
    MaxBytes,      \* bound: the bytes handed to BlockingWrite in a behaviour
    Capacity,      \* bytes the kernel holds between the two ends
    RecordSizes,   \* the values of sizeof(T) considered
    BufferLengths  \* max_length of BlockingRead, initial_size of BlockingReadUntilEOF

ASSUME ConnectionAssumption ==
    /\ MaxBytes \in Nat
    /\ Capacity \in Nat \ {0}
    /\ RecordSizes \subseteq Nat \ {0}
    /\ BufferLengths \subseteq Nat \ {0, 1}

VARIABLES
    call,      \* what the reader calls: [until_eof, policy, record, length]
    pc,        \* the reader: "reading", "returned", or how it ended
    raw,       \* raw_ptr - raw_buffer of the BlockingRead in progress, in bytes
    offset,    \* BlockingReadUntilEOF: records kept by earlier BlockingReads
    size,      \* container.size(), or max_length
    taken,     \* bytes returned by the BlockingReads that ended before this one
    writer,    \* the writer: "idle", "writing" or "failed"
    todo,      \* bytes of the BlockingWrite in progress the kernel has not taken
    handed,    \* bytes handed to BlockingWrite so far
    sent,      \* bytes the kernel has taken so far
    outbound   \* the writer's side of the socket: "open", "eof" or "reset"

readerVars == <<pc, raw, offset, size, taken>>
writerVars == <<writer, todo, handed, sent, outbound>>
vars == <<call, readerVars, writerVars>>

Policies == {"ReturnASAP", "FillFullBuffer"}
Calls == [until_eof : BOOLEAN, policy : Policies, record : RecordSizes, length : BufferLengths]
Ended == {"done", "premature", "readerror"}

\* container.size() * growth_k, truncated: growth_k is 1.95.
GrowMutant1(n) == n
GrowMutant2(n) == (95 * n) \div 100
Grow(n) == (195 * n) \div 100

TypeOK ==
    /\ call \in Calls
    /\ call.until_eof => call.policy = "FillFullBuffer"
    /\ pc \in {"reading", "returned"} \union Ended
    /\ raw \in Nat /\ size \in Nat /\ offset \in 0..size /\ taken \in Nat
    /\ writer \in {"idle", "writing", "failed"}
    /\ todo \in Nat /\ handed \in 0..MaxBytes /\ sent \in 0..MaxBytes
    /\ outbound \in {"open", "eof", "reset"}

-----------------------------------------------------------------------------
(* The writer: BlockingWrite, SendEOF, the destructor; and the network.      *)

\* BlockingWrite hands `n` bytes to ::write, which blocks until they are taken.
BlockingWrite(n) ==
    /\ writer = "idle" /\ outbound = "open"
    /\ handed + n <= MaxBytes
    /\ writer' = "writing" /\ todo' = n /\ handed' = handed + n
    /\ UNCHANGED <<call, readerVars, sent, outbound>>

\* The kernel takes `n` more bytes; ::write returns when it has them all.
Room(n) == n <= todo /\ sent + n - (taken + raw) <= Capacity

KernelTakes(n) ==
    /\ writer = "writing" /\ outbound = "open"
    /\ Room(n)
    /\ sent' = sent + n /\ todo' = todo - n
    /\ writer' = IF todo' = 0 THEN "idle" ELSE "writing"
    /\ UNCHANGED <<call, readerVars, handed, outbound>>

\* ::write returns an error or a short count (a signal, a lost connection), and
\* BlockingWrite throws SocketWriteException or SocketCouldNotWriteEverythingException.
BlockingWriteThrows ==
    /\ writer = "writing"
    /\ writer' = "failed" /\ todo' = 0
    /\ UNCHANGED <<call, readerVars, handed, sent, outbound>>

\* SendEOF, or ~SocketHandle when the Connection goes out of scope.
SendEOFOrClose ==
    /\ writer # "writing" /\ outbound = "open"
    /\ outbound' = "eof"
    /\ UNCHANGED <<call, readerVars, writer, todo, handed, sent>>

\* The connection is lost: both sides get an error from their next system call.
ConnectionLost ==
    /\ outbound # "reset"
    /\ outbound' = "reset"
    /\ UNCHANGED <<call, readerVars, writer, todo, handed, sent>>

-----------------------------------------------------------------------------
(* BlockingRead: the iterations of its do-while loop.                         *)

MaxLengthInBytes == (size - offset) * call.record

\* The third argument of ::read.
BytesWantedMutant == MaxLengthInBytes
BytesWanted == MaxLengthInBytes - raw

\* The loop goes on after `n` bytes: the policy asks for more, or a record is incomplete.
KeepsReadingMutant1(n) == call.policy = "FillFullBuffer"
KeepsReadingMutant2(n) == n % call.record > 0
KeepsReading(n) == call.policy = "FillFullBuffer" \/ n % call.record > 0

\* ::read returns `n` bytes of those that are there.
ReadSome(n) ==
    /\ pc = "reading"
    /\ n <= BytesWanted
    /\ n <= sent - (taken + raw)
    /\ raw' = raw + n
    /\ pc' = IF KeepsReading(raw + n) THEN "reading" ELSE "returned"
    /\ UNCHANGED <<call, offset, size, taken, writerVars>>

\* ::read returns 0: the peer has ended the stream, or no byte was asked for.
ReadReturnsZero == BytesWanted = 0 \/ (outbound = "eof" /\ taken + raw = sent)

ReadNothing ==
    /\ pc = "reading"
    /\ ReadReturnsZero
    /\ pc' = IF raw % call.record # 0 THEN "premature" ELSE "returned"
    /\ UNCHANGED <<call, raw, offset, size, taken, writerVars>>

\* ::read returns -1 and BlockingRead throws SocketReadException.
ReadFails ==
    /\ pc = "reading"
    /\ outbound = "reset"
    /\ BytesWanted > 0
    /\ pc' = "readerror"
    /\ UNCHANGED <<call, raw, offset, size, taken, writerVars>>

-----------------------------------------------------------------------------
(* What the caller does with the value BlockingRead returned.                *)

ReturnedMutant == raw
Returned == raw \div call.record
IsFullMutant == Returned > size - offset
IsFull == Returned = size - offset

\* BlockingReadUntilEOF: the container is full, so grow it and read on.
GrowAndReadOn ==
    /\ pc = "returned" /\ call.until_eof
    /\ IsFull
    /\ taken' = taken + raw /\ raw' = 0
    /\ offset' = size
    /\ size' = Grow(size)
    /\ pc' = "reading"
    /\ UNCHANGED <<call, writerVars>>

\* BlockingReadUntilEOF: shrink the container to what was read and return it.
ReturnContainer ==
    /\ pc = "returned" /\ call.until_eof
    /\ ~IsFull
    /\ taken' = taken + raw /\ raw' = 0
    /\ size' = offset + Returned
    /\ pc' = "done"
    /\ UNCHANGED <<call, offset, writerVars>>

\* A caller that reads blocks until BlockingRead returns 0.
ReadNextBlock ==
    /\ pc = "returned" /\ ~call.until_eof
    /\ taken' = taken + raw /\ raw' = 0
    /\ pc' = IF Returned = 0 THEN "done" ELSE "reading"
    /\ UNCHANGED <<call, offset, size, writerVars>>

-----------------------------------------------------------------------------
Init ==
    /\ call \in {c \in Calls : c.until_eof => c.policy = "FillFullBuffer"}
    /\ pc = "reading" /\ raw = 0 /\ offset = 0 /\ size = call.length /\ taken = 0
    /\ writer = "idle" /\ todo = 0 /\ handed = 0 /\ sent = 0 /\ outbound = "open"

Kernel == \E n \in 1..MaxBytes : KernelTakes(n)
Reader ==
    \/ \E n \in 1..MaxBytes : ReadSome(n)
    \/ ReadNothing
    \/ ReadFails
    \/ GrowAndReadOn
    \/ ReturnContainer
    \/ ReadNextBlock

Next ==
    \/ \E n \in 1..MaxBytes : BlockingWrite(n)
    \/ Kernel
    \/ BlockingWriteThrows
    \/ SendEOFOrClose
    \/ ConnectionLost
    \/ Reader

\* The two threads and the kernel keep running; nothing obliges the writer to call anything.
Spec == Init /\ [][Next]_vars
             /\ WF_vars(Reader) /\ WF_vars(Kernel)
             /\ WF_vars(outbound = "reset" /\ BlockingWriteThrows)

-----------------------------------------------------------------------------
(* Properties *)

\* ::read never places a byte beyond the max_length records BlockingRead was given, which
\* for BlockingReadUntilEOF are the records of its container that are not in use.
NeverWritesPastTheBuffer ==
    pc # "done" => raw <= MaxLengthInBytes

\* A record is returned whole or not at all, however the kernel cuts the stream:
\* SocketReadMultibyteRecordEndedPrematurelyException means that the stream as a
\* whole ended inside a record, and that every byte of it was looked at.
RecordsNeverTorn ==
    /\ taken % call.record = 0
    /\ pc = "returned" => raw % call.record = 0
    /\ pc = "premature" => outbound # "open" /\ taken + raw = sent /\ sent % call.record # 0

\* A reader that came to a normal end has every byte that was sent, the container
\* of BlockingReadUntilEOF has exactly their size, and unless a BlockingWrite
\* threw these are the bytes that were handed to BlockingWrite.
EverythingSentIsReturned ==
    pc = "done" =>
        /\ outbound # "open"
        /\ taken = sent
        /\ call.until_eof => size * call.record = sent
        /\ writer = "idle" => taken = handed

\* With FillFullBuffer a short count means that the stream has ended there.
ShortFillOnlyAtTheEnd ==
    pc = "returned" /\ call.policy = "FillFullBuffer" /\ ~IsFull
        => outbound # "open" /\ taken + raw = sent

\* Once the peer has ended the stream or the connection is lost, the reader
\* returns or throws: it neither spins on a full buffer nor waits for more.
ReaderReturnsOnceEnded == outbound # "open" ~> pc \in Ended

\* BlockingWrite of more than the kernel holds returns, because the reader drains it.
WriterIsNotStuck == writer = "writing" ~> writer # "writing"

=============================================================================
