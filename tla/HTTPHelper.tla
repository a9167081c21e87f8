----------------------------- MODULE HTTPHelper ------------------------------
(***************************************************************************)
(* What TemplatedHTTPReceivedMessage<HELPER> promises to its HELPER, and to  *)
(* whoever constructs it (bricks/net/http/impl/server.h): each header once,  *)
(* in the order of the message, then each chunk, none before it is there,    *)
(* and nothing after the constructor has returned or thrown.                 *)
(***************************************************************************)
EXTENDS Integers, Sequences

CONSTANTS
    Messages,      \* what the peer may send
    IsChunked(_)   \* the headers of a message announce chunks

VARIABLES
    msg,         \* the message
    state,       \* "constructing"; then "constructed", "thrown" or "undefined"
    received,    \* how many bytes of the message there are
    headers,     \* where the headers begin that OnHeader was called with
    chunks,      \* the ranges OnChunk was called with
    constructed  \* what the getters return, once there is an object

vars == <<msg, state, received, headers, chunks, constructed>>

Init ==
    /\ msg \in Messages
    /\ state = "constructing" /\ received = 0
    /\ headers = {} /\ chunks = <<>> /\ constructed = {}

Receive ==
    /\ state = "constructing"
    /\ received' \in received..msg.total
    /\ UNCHANGED <<msg, state, headers, chunks, constructed>>

\* The first of the headers it has not been called with.
OnHeader(l) ==
    /\ state = "constructing" /\ chunks = <<>>
    /\ l.at \in msg.result.headers \ headers /\ l.crlf < received
    /\ \A h \in msg.result.headers \ headers : l.at <= h
    /\ headers' = headers \union {l.at}
    /\ UNCHANGED <<msg, state, received, chunks, constructed>>

\* The first of the chunks it has not been called with, all of which may just have come.
OnChunk ==
    /\ state = "constructing" /\ IsChunked(msg)
    /\ headers = msg.result.headers /\ Len(chunks) < Len(msg.result.body)
    /\ LET chunk == msg.result.body[Len(chunks) + 1]
       IN  /\ chunks' = Append(chunks, chunk)
           /\ received' \in received..msg.total
           /\ chunk.at + chunk.len <= received'
    /\ UNCHANGED <<msg, state, headers, constructed>>

\* OnChunkedBodyDone, or the end of a body that is not chunked: the constructor returns.
Construct ==
    /\ state = "constructing"
    /\ headers = msg.result.headers
    /\ chunks = IF IsChunked(msg) THEN msg.result.body ELSE <<>>
    /\ \A i \in DOMAIN msg.result.body :
         msg.result.body[i].at + msg.result.body[i].len <= received
    /\ state' = "constructed" /\ constructed' = {msg.result}
    /\ UNCHANGED <<msg, received, headers, chunks>>

Throw ==
    /\ state = "constructing"
    /\ state' = "thrown"
    /\ UNCHANGED <<msg, received, headers, chunks, constructed>>

\* After a chunk nothing is promised.
GoAstray ==
    /\ state = "constructing" /\ chunks # <<>>
    /\ state' = "undefined"
    /\ UNCHANGED <<msg, received, headers, chunks, constructed>>

Next ==
    \/ Receive
    \/ \E l \in msg.lines : OnHeader(l)
    \/ OnChunk
    \/ Construct
    \/ Throw
    \/ GoAstray

Spec == Init /\ [][Next]_vars

=============================================================================
