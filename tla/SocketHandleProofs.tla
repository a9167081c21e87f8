------------------------- MODULE SocketHandleProofs -------------------------
(***************************************************************************)
(* Descriptors have one owner and leaks are known, for any number of        *)
(* objects, descriptors and failures.                                        *)
(***************************************************************************)
EXTENDS SocketHandle, FiniteSetTheorems, TLAPS

\* The objects that are in ::connect, or about to call it, in state `s`.
ConnectingIn(s) == {o \in Objects : s[o] = "connecting"}

\* What is open is owned by one object, by the rest of the process, or by nobody since it
\* was overwritten: these three are disjoint, or a destructor could close what is not its own.
Unique == \A o, p \in Objects : o # p /\ socket_[o] = socket_[p] => socket_[o] = NoSocket
Partition ==
    /\ open = Owned \union others \union overwritten
    /\ Owned \intersect others = {}
    /\ overwritten \intersect (Owned \union others) = {}
AbsentOwnsNothing == \A o \in Objects : state[o] = "absent" => socket_[o] = NoSocket
InfosKnown == infos = Cardinality(ConnectingIn(state)) + failures

Inv == TypeOK /\ Unique /\ Partition /\ AbsentOwnsNothing /\ InfosKnown

-----------------------------------------------------------------------------
(* Descriptors                                                               *)

\* An object that is given a free descriptor is its only owner.
LEMMA GetsPreserves ==
    ASSUME Inv, NEW o \in Objects, NEW d \in Descriptors, NEW s \in States \ {"absent", "connecting"},
           Gets(o, d, s)
    PROVE  Inv'
<1> USE DEF Descriptors, NoSocket
<1>1. /\ state[o] = "absent" /\ d \notin open
      /\ state' = [state EXCEPT ![o] = s] /\ socket_' = [socket_ EXCEPT ![o] = d]
      /\ open' = open \union {d}
      /\ UNCHANGED <<others, overwritten, infos, failures>>
    BY DEF Gets, Lowest, Free
<1>2. socket_[o] = NoSocket
    BY <1>1 DEF Inv, AbsentOwnsNothing
<1>3. Owned' = Owned \union {d}
    BY <1>1, <1>2 DEF Inv, TypeOK, Owned
<1>4. \A p \in Objects : socket_[p] # d
    BY <1>1 DEF Inv, Partition, Owned
<1>5. TypeOK'
    BY <1>1 DEF Inv, TypeOK
<1>6. Unique'
    BY <1>1, <1>4 DEF Inv, TypeOK, Unique
<1>7. Partition'
    BY <1>1, <1>3 DEF Inv, Partition
<1>8. AbsentOwnsNothing'
    BY <1>1 DEF Inv, TypeOK, AbsentOwnsNothing
<1>9. ConnectingIn(state') = ConnectingIn(state)
    BY <1>1 DEF Inv, TypeOK, ConnectingIn
<1>10. InfosKnown'
    BY <1>1, <1>9 DEF Inv, InfosKnown
<1>. QED
    BY <1>5, <1>6, <1>7, <1>8, <1>10 DEF Inv

\* An object that goes closes its own descriptor and no other one.
LEMMA GonePreserves ==
    ASSUME Inv, NEW o \in Objects, Gone(o), UNCHANGED <<others, overwritten>>
    PROVE  Unique' /\ Partition' /\ AbsentOwnsNothing'
<1> USE DEF Descriptors, NoSocket
<1>1. /\ state' = [state EXCEPT ![o] = "absent"]
      /\ socket_' = [socket_ EXCEPT ![o] = NoSocket]
      /\ open' = open \ ({socket_[o]} \ {NoSocket})
    <2>1. NoSocket \notin open
        BY DEF Inv, TypeOK
    <2>. QED  BY <2>1 DEF Gone, Closed
<1>2. Owned' = Owned \ {socket_[o]}
    BY <1>1 DEF Inv, TypeOK, Unique, Owned
<1>3. socket_[o] # NoSocket => socket_[o] \in Owned
    BY DEF Owned
<1>4. Unique'
    BY <1>1 DEF Inv, TypeOK, Unique
<1>5. Partition'
    <2>1. UNCHANGED <<others, overwritten>>
        OBVIOUS
    <2>2. CASE socket_[o] = NoSocket
        <3>1. open' = open /\ Owned' = Owned
            BY <1>1, <1>2, <2>2 DEF Owned
        <3>. QED  BY <2>1, <3>1 DEF Inv, Partition
    <2>3. CASE socket_[o] # NoSocket
        <3>1. open' = open \ {socket_[o]} /\ socket_[o] \in Owned
            BY <1>1, <1>3, <2>3
        <3>. QED  BY <1>2, <2>1, <3>1 DEF Inv, Partition
    <2>. QED  BY <2>2, <2>3
<1>6. AbsentOwnsNothing'
    BY <1>1 DEF Inv, TypeOK, AbsentOwnsNothing
<1>. QED
    BY <1>4, <1>5, <1>6

-----------------------------------------------------------------------------
(* Lists of addresses                                                        *)

\* The number of objects that connect grows with the object that begins to.
LEMMA ConnectingGrows ==
    ASSUME TypeOK, NEW o \in Objects, state[o] # "connecting",
           state' = [state EXCEPT ![o] = "connecting"]
    PROVE  Cardinality(ConnectingIn(state')) = Cardinality(ConnectingIn(state)) + 1
<1>1. ConnectingIn(state') = ConnectingIn(state) \union {o} /\ o \notin ConnectingIn(state)
    BY DEF TypeOK, ConnectingIn
<1>2. IsFiniteSet(ConnectingIn(state))
    BY SocketAssumption, FS_Subset DEF ConnectingIn
<1>. QED
    BY <1>1, <1>2, FS_AddElement

\* It shrinks with the one that ends, and is not 0 before.
LEMMA ConnectingShrinks ==
    ASSUME TypeOK, NEW o \in Objects, state[o] = "connecting",
           NEW s \in States \ {"connecting"}, state' = [state EXCEPT ![o] = s]
    PROVE  /\ Cardinality(ConnectingIn(state')) = Cardinality(ConnectingIn(state)) - 1
           /\ Cardinality(ConnectingIn(state')) \in Nat
<1>1. ConnectingIn(state') = ConnectingIn(state) \ {o} /\ o \in ConnectingIn(state)
    BY DEF TypeOK, ConnectingIn
<1>2. IsFiniteSet(ConnectingIn(state))
    BY SocketAssumption, FS_Subset DEF ConnectingIn
<1>. QED
    BY <1>1, <1>2, FS_RemoveElement, FS_CardinalityType

\* It stays as it is if an object changes between other states.
LEMMA ConnectingStays ==
    ASSUME TypeOK, NEW o \in Objects, state[o] # "connecting",
           NEW s \in States \ {"connecting"}, state' = [state EXCEPT ![o] = s]
    PROVE  ConnectingIn(state') = ConnectingIn(state)
BY DEF TypeOK, ConnectingIn

\* The number of them is a number.
LEMMA ConnectingIsCounted == Cardinality(ConnectingIn(state)) \in Nat
<1>1. IsFiniteSet(ConnectingIn(state))
    BY SocketAssumption, FS_Subset DEF ConnectingIn
<1>. QED
    BY <1>1, FS_CardinalityType

-----------------------------------------------------------------------------
(* The steps                                                                 *)

\* An object that goes leaves the addresses behind if it was connecting, and counts as a
\* failure if it did.
LEMMA GoneKeepsCount ==
    ASSUME Inv, NEW o \in Objects, Gone(o), state[o] # "connecting",
           UNCHANGED <<others, overwritten, infos, failures>>
    PROVE  Inv'
<1>1. Unique' /\ Partition' /\ AbsentOwnsNothing'
    BY GonePreserves
<1>2. TypeOK'
    BY DEF Inv, TypeOK, Gone, Closed, States, NoSocket
<1>3. ConnectingIn(state') = ConnectingIn(state)
    BY ConnectingStays DEF Inv, Gone, States
<1>4. InfosKnown'
    BY <1>3 DEF Inv, InfosKnown
<1>. QED
    BY <1>1, <1>2, <1>4 DEF Inv

\* Nothing changes for an object that goes on from one state to another.
LEMMA SameSockets ==
    ASSUME Inv, NEW o \in Objects, NEW s \in States \ {"absent"}, state[o] # "absent",
           state' = [state EXCEPT ![o] = s], UNCHANGED <<socket_, open, others, overwritten>>
    PROVE  Unique' /\ Partition' /\ AbsentOwnsNothing'
<1>1. Owned' = Owned
    BY DEF Owned
<1>. QED
    BY <1>1 DEF Inv, TypeOK, Unique, Partition, AbsentOwnsNothing

LEMMA ResolvePreserves ==
    ASSUME Inv, NEW o \in Objects, Resolve(o)
    PROVE  Inv'
<1>1. Unique' /\ Partition' /\ AbsentOwnsNothing'
    BY SameSockets DEF Resolve, States
<1>2. TypeOK'
    BY DEF Inv, TypeOK, Resolve, States
<1>3. Cardinality(ConnectingIn(state')) = Cardinality(ConnectingIn(state)) + 1
    BY ConnectingGrows DEF Inv, Resolve
<1>4. InfosKnown'
    BY <1>3, ConnectingIsCounted DEF Inv, TypeOK, InfosKnown, Resolve
<1>. QED
    BY <1>1, <1>2, <1>4 DEF Inv

LEMMA ConnectPreserves ==
    ASSUME Inv, NEW o \in Objects, Connect(o)
    PROVE  Inv'
<1>1. Unique' /\ Partition' /\ AbsentOwnsNothing'
    BY SameSockets DEF Connect, States
<1>2. /\ Cardinality(ConnectingIn(state')) = Cardinality(ConnectingIn(state)) - 1
      /\ Cardinality(ConnectingIn(state')) \in Nat
    BY ConnectingShrinks DEF Inv, Connect, States
<1>3. infos' = infos - 1 /\ UNCHANGED failures
    BY DEF Connect, InfosAfterConnect
<1>4. InfosKnown'
    BY <1>2, <1>3, ConnectingIsCounted DEF Inv, TypeOK, InfosKnown
<1>5. infos' \in Nat
    BY <1>2, <1>3, <1>4, SocketAssumption DEF Inv, TypeOK, InfosKnown
<1>6. TypeOK'
    BY <1>5 DEF Inv, TypeOK, Connect, States
<1>. QED
    BY <1>1, <1>4, <1>6 DEF Inv

LEMMA ConnectThrowsPreserves ==
    ASSUME Inv, NEW o \in Objects, ConnectThrows(o)
    PROVE  Inv'
<1>1. Unique' /\ Partition' /\ AbsentOwnsNothing'
    BY GonePreserves DEF ConnectThrows
<1>2. TypeOK'
    BY SocketAssumption
    DEF Inv, TypeOK, ConnectThrows, Gone, Closed, States, NoSocket
<1>3. /\ Cardinality(ConnectingIn(state')) = Cardinality(ConnectingIn(state)) - 1
      /\ Cardinality(ConnectingIn(state')) \in Nat
    BY ConnectingShrinks DEF Inv, ConnectThrows, Gone, States
<1>4. InfosKnown'
    BY <1>3, ConnectingIsCounted DEF Inv, TypeOK, InfosKnown, ConnectThrows
<1>. QED
    BY <1>1, <1>2, <1>4 DEF Inv

LEMMA MoveConstructPreserves ==
    ASSUME Inv, NEW from \in Objects, NEW to \in Objects, MoveConstruct(from, to)
    PROVE  Inv'
<1>1. /\ from # to /\ socket_[to] = NoSocket /\ state[to] = "absent"
      /\ state[from] \in {"listening", "connected"}
      /\ state' = [state EXCEPT ![to] = state[from]]
      /\ socket_' = [socket_ EXCEPT ![to] = socket_[from], ![from] = NoSocket]
      /\ UNCHANGED <<open, others, overwritten, infos, failures>>
    BY DEF Inv, AbsentOwnsNothing, MoveConstruct, Swapped
<1>2. Owned' = Owned
    BY <1>1 DEF Inv, TypeOK, Owned
<1>3. TypeOK'
    BY <1>1 DEF Inv, TypeOK
<1>4. Unique'
    BY <1>1 DEF Inv, TypeOK, Unique
<1>5. Partition'
    BY <1>1, <1>2 DEF Inv, Partition
<1>6. AbsentOwnsNothing'
    BY <1>1 DEF Inv, TypeOK, AbsentOwnsNothing
<1>7. ConnectingIn(state') = ConnectingIn(state)
    BY <1>1 DEF Inv, TypeOK, ConnectingIn
<1>8. InfosKnown'
    BY <1>1, <1>7 DEF Inv, InfosKnown
<1>. QED
    BY <1>3, <1>4, <1>5, <1>6, <1>8 DEF Inv

LEMMA MoveAssignPreserves ==
    ASSUME Inv, NEW from \in Objects, NEW to \in Objects, MoveAssign(from, to)
    PROVE  Inv'
<1>1. /\ socket_' = [socket_ EXCEPT ![to] = socket_[from], ![from] = NoSocket]
      /\ overwritten' = overwritten \union ({socket_[to]} \ {NoSocket})
      /\ UNCHANGED <<state, open, others, infos, failures>>
    BY DEF MoveAssign, Swapped
<1>2. Owned' = Owned \ {socket_[to]}
    BY <1>1 DEF Inv, TypeOK, Unique, Owned
<1>3. {socket_[to]} \ {NoSocket} \subseteq Owned
    BY DEF Owned
<1>4. NoSocket \notin Owned
    BY DEF Owned
<1>5. TypeOK'
    BY <1>1 DEF Inv, TypeOK
<1>6. Unique'
    BY <1>1 DEF Inv, TypeOK, Unique
<1>7. Partition'
    BY <1>1, <1>2, <1>3, <1>4 DEF Inv, Partition
<1>8. AbsentOwnsNothing'
    BY <1>1 DEF Inv, TypeOK, AbsentOwnsNothing, MoveAssign
<1>9. InfosKnown'
    BY <1>1 DEF Inv, InfosKnown, ConnectingIn
<1>. QED
    BY <1>5, <1>6, <1>7, <1>8, <1>9 DEF Inv

\* The rest of the process opens only what is free, and closes only its own.
LEMMA OthersPreserve ==
    ASSUME Inv, NEW d \in Descriptors, OthersOpen(d) \/ OthersClose(d)
    PROVE  Inv'
<1>1. UNCHANGED <<state, socket_, overwritten, infos, failures>> /\ Owned' = Owned
    BY DEF OthersOpen, OthersClose, Owned
<1>2. TypeOK' /\ Unique' /\ AbsentOwnsNothing' /\ InfosKnown'
    BY <1>1 DEF Inv, TypeOK, Unique, AbsentOwnsNothing, InfosKnown, ConnectingIn, OthersOpen, OthersClose
<1>3. Partition'
    BY <1>1 DEF Inv, Partition, OthersOpen, OthersClose, Lowest, Free
<1>. QED
    BY <1>2, <1>3 DEF Inv

-----------------------------------------------------------------------------
(* Theorems                                                                  *)

LEMMA InitInv == Init => Inv
<1> SUFFICES ASSUME Init PROVE Inv
    OBVIOUS
<1>1. TypeOK /\ Unique /\ AbsentOwnsNothing
    BY SocketAssumption DEF Init, TypeOK, Unique, AbsentOwnsNothing, States, Descriptors
<1>2. Owned = {} /\ ConnectingIn(state) = {}
    BY DEF Init, Owned, ConnectingIn
<1>3. Partition
    BY <1>2 DEF Init, Partition
<1>4. InfosKnown
    BY <1>2, FS_EmptySet DEF Init, InfosKnown
<1>. QED
    BY <1>1, <1>3, <1>4 DEF Inv

LEMMA NextInv == Inv /\ [Next]_vars => Inv'
<1> SUFFICES ASSUME Inv, [Next]_vars PROVE Inv'
    OBVIOUS
<1>1. ASSUME NEW o \in Objects, Construct(o) PROVE Inv'
    <2>1. ASSUME NEW d \in Descriptors, SocketBegins(o, d) PROVE Inv'
        BY <2>1, GetsPreserves DEF SocketBegins, States
    <2>2. ASSUME NEW d \in Descriptors, ClientBegins(o, d) PROVE Inv'
        BY <2>2, GetsPreserves DEF ClientBegins, States
    <2>3. CASE SocketListens(o)
        <3>1. Unique' /\ Partition' /\ AbsentOwnsNothing'
            BY <2>3, SameSockets DEF SocketListens, States
        <3>2. TypeOK'
            BY <2>3 DEF Inv, TypeOK, SocketListens, States
        <3>3. ConnectingIn(state') = ConnectingIn(state)
            BY <2>3, ConnectingStays DEF Inv, SocketListens, States
        <3>4. InfosKnown'
            BY <2>3, <3>3 DEF Inv, InfosKnown, SocketListens
        <3>. QED  BY <3>1, <3>2, <3>4 DEF Inv
    <2>4. CASE SocketThrows(o)
        BY <2>4, GoneKeepsCount DEF SocketThrows
    <2>5. CASE Resolve(o)
        BY <2>5, ResolvePreserves
    <2>6. CASE ResolveThrows(o)
        BY <2>6, GoneKeepsCount DEF ResolveThrows
    <2>7. CASE Connect(o)
        BY <2>7, ConnectPreserves
    <2>8. CASE ConnectThrows(o)
        BY <2>8, ConnectThrowsPreserves
    <2>. QED
        BY <1>1, <2>1, <2>2, <2>3, <2>4, <2>5, <2>6, <2>7, <2>8 DEF Construct
<1>2. ASSUME NEW o \in Objects, Destroy(o) PROVE Inv'
    BY <1>2, GoneKeepsCount DEF Destroy
<1>3. ASSUME NEW l \in Objects, NEW o \in Objects, NEW d \in Descriptors, Accept(l, o, d) PROVE Inv'
    BY <1>3, GetsPreserves DEF Accept, States
<1>4. ASSUME NEW from \in Objects, NEW to \in Objects, MoveConstruct(from, to) PROVE Inv'
    BY <1>4, MoveConstructPreserves
<1>5. ASSUME NEW from \in Objects, NEW to \in Objects, MoveAssign(from, to) PROVE Inv'
    BY <1>5, MoveAssignPreserves
<1>6. CASE Others
    BY <1>6, OthersPreserve DEF Others
<1>7. CASE UNCHANGED vars
    BY <1>7 DEF vars, Inv, TypeOK, Unique, Partition, AbsentOwnsNothing, InfosKnown, Owned, ConnectingIn
<1>. QED
    BY <1>1, <1>2, <1>3, <1>4, <1>5, <1>6, <1>7 DEF Next

\* The inductive invariant.
THEOREM Invariance == Spec => []Inv
BY InitInv, NextInv, PTL DEF Spec

\* Descriptors, and the counts of what is allocated and has failed, keep their types.
THEOREM TypeCorrect == Spec => []TypeOK
<1>1. Inv => TypeOK
    BY DEF Inv
<1>. QED
    BY <1>1, Invariance, PTL

\* However objects are moved, thrown out of or destroyed, a descriptor has one owner.
THEOREM OneOwner == Spec => []DescriptorsHaveOneOwner
<1>1. Inv => DescriptorsHaveOneOwner
    BY DEF Inv, Unique, Partition, DescriptorsHaveOneOwner
<1>. QED
    BY <1>1, Invariance, PTL

\* Nothing is left open but what a move assignment has overwritten, and nothing allocated
\* but the addresses of the calls of ::connect that failed.
THEOREM KnownLeaks == Spec => []LeaksAreKnown
<1>1. Inv => LeaksAreKnown
    BY DEF Inv, Partition, InfosKnown, ConnectingIn, LeaksAreKnown
<1>. QED
    BY <1>1, Invariance, PTL

=============================================================================
