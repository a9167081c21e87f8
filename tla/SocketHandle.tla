---------------------------- MODULE SocketHandle ----------------------------
(***************************************************************************)
(* Who owns which descriptor: SocketHandle and the classes derived from it, *)
(* Socket, Connection and the local class of ClientSocket()                  *)
(* (bricks/net/tcp/impl/posix.h), with constructors that throw half way,     *)
(* moves, a move assignment, destructors, and a rest of the process that     *)
(* opens and closes descriptors of its own.  A closed descriptor is given    *)
(* out again, so that closing one twice closes somebody else's.              *)
(***************************************************************************)
EXTENDS Integers, FiniteSets

CONSTANTS
    Objects,       \* the objects of these classes, each built, moved from and destroyed
    MaxDescriptor, \* the process has the descriptors 0..MaxDescriptor
    MaxFailures    \* bound: how many calls of ::connect fail

ASSUME SocketAssumption == MaxDescriptor \in Nat /\ MaxFailures \in Nat /\ IsFiniteSet(Objects)

VARIABLES
    state,       \* of each object, "absent" or how far it is constructed
    socket_,     \* the member socket_ of each object
    open,        \* the descriptors that are open
    others,      \* those the rest of the process has opened
    overwritten, \* those a move assignment has overwritten
    infos,       \* lists of addresses allocated by ::getaddrinfo
    failures     \* how many calls of ::connect have failed

vars == <<state, socket_, open, others, overwritten, infos, failures>>

Descriptors == 0..MaxDescriptor
NoSocket == -1

\* "binding", "resolving" and "connecting" are places in the bodies of constructors.
States == {"absent", "binding", "resolving", "connecting", "listening", "connected"}

TypeOK ==
    /\ state \in [Objects -> States]
    /\ socket_ \in [Objects -> Descriptors \union {NoSocket}]
    /\ open \subseteq Descriptors /\ others \subseteq Descriptors
    /\ overwritten \subseteq Descriptors
    /\ infos \in Nat /\ failures \in 0..MaxFailures

-----------------------------------------------------------------------------
(* Descriptors.                                                              *)

Free == Descriptors \ open
\* ::socket, ::accept and ::open give the lowest descriptor there is.
Lowest(d) == d \in Free /\ \A e \in Free : d <= e

\* What the destructor of an object leaves open.
ClosedMutant(o) == IF state[o] \in {"listening", "connected"} THEN open \ {socket_[o]} ELSE open
Closed(o) == IF socket_[o] # NoSocket THEN open \ {socket_[o]} ELSE open

\* `o` is gone, and its destructor, or that of its base class, has run.
Gone(o) ==
    /\ state' = [state EXCEPT ![o] = "absent"]
    /\ socket_' = [socket_ EXCEPT ![o] = NoSocket]
    /\ open' = Closed(o)

\* ReadOnlyIntFieldAccessor throws for descriptor 0, not for NoSocket.
AccessorThrows(o) == socket_[o] = 0

\* A socket for `o` from ::socket or ::accept.  (If these fail there is no object, and the
\* exception leaves everything as it was.)
Gets(o, d, s) ==
    /\ state[o] = "absent" /\ Lowest(d)
    /\ state' = [state EXCEPT ![o] = s]
    /\ socket_' = [socket_ EXCEPT ![o] = d]
    /\ open' = open \union {d}
    /\ UNCHANGED <<others, overwritten, infos, failures>>

-----------------------------------------------------------------------------
(* Socket, the class of a server that listens.                               *)

SocketBegins(o, d) == Gets(o, d, "binding")

SocketListens(o) ==
    /\ state[o] = "binding" /\ ~AccessorThrows(o)
    /\ state' = [state EXCEPT ![o] = "listening"]
    /\ UNCHANGED <<socket_, open, others, overwritten, infos, failures>>

\* ::setsockopt, ::bind or ::listen fails, or the accessor throws.
SocketThrows(o) ==
    /\ state[o] = "binding"
    /\ Gone(o)
    /\ UNCHANGED <<others, overwritten, infos, failures>>

\* The Connection made of what ::accept returns.  A moved-from listener cannot accept.
Accept(l, o, d) ==
    /\ state[l] = "listening" /\ socket_[l] # NoSocket /\ ~AccessorThrows(l)
    /\ Gets(o, d, "connected")

-----------------------------------------------------------------------------
(* ClientSocket(), which connects.                                           *)

ClientBegins(o, d) == Gets(o, d, "resolving")

Resolve(o) ==
    /\ state[o] = "resolving"
    /\ state' = [state EXCEPT ![o] = "connecting"]
    /\ infos' = infos + 1
    /\ UNCHANGED <<socket_, open, others, overwritten, failures>>

ResolveThrows(o) ==
    /\ state[o] = "resolving"
    /\ Gone(o)
    /\ UNCHANGED <<others, overwritten, infos, failures>>

\* freeaddrinfo is only called after a ::connect that succeeds.
InfosAfterConnectMutant == infos - 2
InfosAfterConnect == infos - 1

Connect(o) ==
    /\ state[o] = "connecting" /\ ~AccessorThrows(o)
    /\ state' = [state EXCEPT ![o] = "connected"]
    /\ infos' = InfosAfterConnect
    /\ UNCHANGED <<socket_, open, others, overwritten, failures>>

ConnectThrows(o) ==
    /\ state[o] = "connecting" /\ failures < MaxFailures
    /\ Gone(o)
    /\ failures' = failures + 1
    /\ UNCHANGED <<others, overwritten, infos>>

-----------------------------------------------------------------------------
(* Moves, and the end of an object.                                          *)

\* socket_ of both objects after std::swap with a new object whose socket_ is -1.
SwappedMutant(from, to) == [socket_ EXCEPT ![to] = socket_[from]]
Swapped(from, to) == [socket_ EXCEPT ![to] = socket_[from], ![from] = NoSocket]

MoveConstruct(from, to) ==
    /\ state[from] \in {"listening", "connected"} /\ state[to] = "absent"
    /\ state' = [state EXCEPT ![to] = state[from]]
    /\ socket_' = Swapped(from, to)
    /\ UNCHANGED <<open, others, overwritten, infos, failures>>

\* SocketHandle's, which that of Connection calls.  socket_ is set to -1 before the swap: the
\* descriptor it held is forgotten, also when an object is assigned to itself.
MoveAssign(from, to) ==
    /\ state[from] = "connected" /\ state[to] = "connected"
    /\ socket_' = Swapped(from, to)
    /\ overwritten' = overwritten \union ({socket_[to]} \ {NoSocket})
    /\ UNCHANGED <<state, open, others, infos, failures>>

Destroy(o) ==
    /\ state[o] \in {"listening", "connected"}
    /\ Gone(o)
    /\ UNCHANGED <<others, overwritten, infos, failures>>

-----------------------------------------------------------------------------
(* The rest of the process.                                                  *)

OthersOpen(d) ==
    /\ Lowest(d)
    /\ open' = open \union {d} /\ others' = others \union {d}
    /\ UNCHANGED <<state, socket_, overwritten, infos, failures>>

OthersClose(d) ==
    /\ d \in others
    /\ open' = open \ {d} /\ others' = others \ {d}
    /\ UNCHANGED <<state, socket_, overwritten, infos, failures>>

-----------------------------------------------------------------------------
\* Descriptor 0 is the standard input, unless the process has been started without one.
Init ==
    /\ state = [o \in Objects |-> "absent"]
    /\ socket_ = [o \in Objects |-> NoSocket]
    /\ others \in SUBSET {0}
    /\ open = others
    /\ overwritten = {}
    /\ infos = 0 /\ failures = 0

Construct(o) ==
    \/ \E d \in Descriptors : SocketBegins(o, d) \/ ClientBegins(o, d)
    \/ SocketListens(o) \/ SocketThrows(o)
    \/ Resolve(o) \/ ResolveThrows(o) \/ Connect(o) \/ ConnectThrows(o)

Others == \E d \in Descriptors : OthersOpen(d) \/ OthersClose(d)

Next ==
    \/ \E o \in Objects : Construct(o) \/ Destroy(o)
    \/ \E l, o \in Objects, d \in Descriptors : Accept(l, o, d)
    \/ \E from, to \in Objects : MoveConstruct(from, to) \/ MoveAssign(from, to)
    \/ Others

Spec == Init /\ [][Next]_vars

-----------------------------------------------------------------------------
(* Properties *)

Owned == {socket_[o] : o \in Objects} \ {NoSocket}

\* Whatever is moved, thrown or destroyed in whichever order, no two objects hold the same
\* descriptor, and what an object holds is open and nobody else's.  So the destructors close
\* everything once, and never a descriptor that has been given out again.
DescriptorsHaveOneOwner ==
    /\ \A o, p \in Objects : o # p /\ socket_[o] = socket_[p] => socket_[o] = NoSocket
    /\ Owned \subseteq open
    /\ others \subseteq open
    /\ Owned \intersect others = {}

\* Objects and the rest of the process apart, the only descriptors that are still open are
\* those a move assignment has overwritten: no constructor that throws leaves one.  What
\* throwing does leave are the addresses of each ::connect that failed, and only these.
LeaksAreKnown ==
    /\ open = Owned \union others \union overwritten
    /\ infos = Cardinality({o \in Objects : state[o] = "connecting"}) + failures

=============================================================================
