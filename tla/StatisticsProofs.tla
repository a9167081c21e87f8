-------------------------- MODULE StatisticsProofs --------------------------
(***************************************************************************)
(* The safety properties of Statistics, for any number of events, servers,  *)
(* calls of setup() and threads.                                             *)
(***************************************************************************)
EXTENDS Statistics, FiniteSetTheorems, TLAPS

\* The engine is the one of the last call of setup().
EngineInv ==
    process = "running" =>
        /\ servers = <<>> => g_stats = None
        /\ servers # <<>> => g_stats = servers[Len(servers)]

\* A thread on its way has the URL of the engine its event was logged with, and while
\* setup() runs there is none that was logged since it began.
ThreadInv ==
    \A e \in Running :
        /\ thread[e].setups \in 1..Len(servers)
        /\ thread[e].url = servers[thread[e].setups]
        /\ caller # 0 => thread[e].setups < Len(servers)

\* An event that has been posted is not logged again.
PostedInv ==
    /\ PostedWhereLogged
    /\ \A p \in posted : process = "running" => thread[p[1]].state # "none"

\* The first `n` assignments of a setup() have been made, by this one or an earlier one.
Reached(n) == servers # <<>> /\ (caller = 0 \/ caller > n)

\* If no setup() has thrown, what has been assigned is valid, save for the class of the
\* parameters between its two assignments.
SetupInv ==
    /\ caller # 0 => servers # <<>>
    /\ process = "running" /\ ~failed =>
        /\ Reached(1) => JAVA["httpTransportClass"] = "valid"
        /\ Reached(2) => JAVA["httpTransportClass_run"] = "valid"
        /\ Reached(4) => JAVA["httpParamsClass"] = "valid"
        /\ Reached(5) => JAVA["httpParamsConstructor"] = "valid"

Inv ==
    /\ TypeOK /\ EngineInv /\ ThreadInv /\ PostedInv /\ SetupInv
    /\ CopiesAreUsable /\ WellBehavedAppSurvives

-----------------------------------------------------------------------------
(* Setup                                                                     *)

\* The places in setupCPP.
LEMMA Steps ==
    /\ Len(SetupSteps) = 5
    /\ \A n \in 1..5 : SetupSteps[n][1] \in Fields /\ SetupSteps[n][2] \in References
    /\ SetupSteps[1] = <<"httpTransportClass", "valid">>
    /\ SetupSteps[2] = <<"httpTransportClass_run", "valid">>
    /\ SetupSteps[3] = <<"httpParamsClass", "local">>
    /\ SetupSteps[4] = <<"httpParamsClass", "valid">>
    /\ SetupSteps[5] = <<"httpParamsConstructor", "valid">>
BY DEF SetupSteps, Fields, References

LEMMA SetupPreserves ==
    ASSUME Inv, NEW url \in Servers, Setup(url)
    PROVE  Inv'
<1> USE DEF Setup
<1>1. /\ servers \in Seq(Servers) /\ Len(servers) \in Nat
      /\ servers' \in Seq(Servers) /\ Len(servers') = Len(servers) + 1 /\ servers' # <<>>
      /\ servers'[Len(servers')] = url
      /\ \A n \in 1..Len(servers) : servers'[n] = servers[n]
    BY DEF Inv, TypeOK
<1>2. Running' = Running
    BY DEF Running
<1>3. TypeOK'
    BY <1>1, <1>2, Steps, StatisticsAssumption DEF Inv, TypeOK, Threads
<1>4. EngineInv'
    BY <1>1 DEF EngineInv
<1>5. ThreadInv'
    BY <1>1, <1>2 DEF Inv, ThreadInv
<1>6. PostedInv'
    BY <1>1 DEF Inv, PostedInv, PostedWhereLogged
<1>7. SetupInv'
    BY <1>1 DEF Inv, SetupInv, Reached
<1>8. CopiesAreUsable'
    BY <1>1, <1>2 DEF Inv, CopiesAreUsable, ThreadInv
<1>9. WellBehavedAppSurvives'
    BY DEF WellBehavedAppSurvives
<1>. QED
    BY <1>3, <1>4, <1>5, <1>6, <1>7, <1>8, <1>9 DEF Inv

LEMMA SetupStepPreserves ==
    ASSUME Inv, SetupStep \/ SetupThrows
    PROVE  Inv'
<1>1. /\ process = "running" /\ caller \in 1..5 /\ caller' \in 0..5
      /\ UNCHANGED <<platform, room, process, g_stats, thread, servers, posted>>
      /\ failed' \in BOOLEAN /\ (failed => failed')
    <2>1. caller \in 0..5 /\ failed \in BOOLEAN
        BY Steps DEF Inv, TypeOK
    <2>2. CASE SetupStep
        BY <2>1, <2>2, Steps DEF SetupStep
    <2>3. CASE SetupThrows
        BY <2>1, <2>3 DEF SetupThrows
    <2>. QED  BY <2>2, <2>3
<1>2. Running' = Running
    BY <1>1 DEF Running
<1>3. JAVA' \in [Fields -> References]
    <2>1. /\ JAVA \in [Fields -> References]
          /\ SetupSteps[caller][2] \in References /\ "null" \in References
        BY <1>1, Steps DEF Inv, TypeOK, References
    <2>. QED  BY <2>1 DEF SetupStep, SetupThrows
<1>4. TypeOK'
    BY <1>1, <1>2, <1>3, Steps DEF Inv, TypeOK
<1>5. EngineInv' /\ PostedInv' /\ WellBehavedAppSurvives'
    BY <1>1 DEF Inv, EngineInv, PostedInv, PostedWhereLogged, WellBehavedAppSurvives
<1>6. ThreadInv'
    BY <1>1, <1>2 DEF Inv, ThreadInv
<1>7. CopiesAreUsable'
    BY <1>1, <1>2 DEF Inv, CopiesAreUsable
<1>8. SetupInv'
    <2>1. CASE SetupStep
        <3>1. /\ JAVA \in [Fields -> References]
              /\ JAVA' = [JAVA EXCEPT ![SetupSteps[caller][1]] = SetupSteps[caller][2]]
              /\ caller' = IF caller = 5 THEN 0 ELSE caller + 1
              /\ UNCHANGED failed
            BY <2>1, Steps DEF SetupStep, Inv, TypeOK
        <3>2. caller = 1 \/ caller = 2 \/ caller = 3 \/ caller = 4 \/ caller = 5
            BY <1>1
        <3>. QED
            BY <1>1, <3>1, <3>2, Steps DEF Inv, SetupInv, Reached, Fields
    <2>2. CASE SetupThrows
        BY <1>1, <2>2 DEF SetupThrows, SetupInv
    <2>. QED  BY <2>1, <2>2
<1>. QED
    BY <1>4, <1>5, <1>6, <1>7, <1>8 DEF Inv

-----------------------------------------------------------------------------
(* Threads                                                                   *)

\* Running is finite, and so counted.
LEMMA RunningIsFinite == IsFiniteSet(Running) /\ Cardinality(Running) \in Nat
<1>1. IsFiniteSet(Running)
    BY StatisticsAssumption, FS_Subset DEF Running
<1>. QED
    BY <1>1, FS_CardinalityType

LEMMA LogEventPreserves ==
    ASSUME Inv, NEW e \in Events, LogEvent(e)
    PROVE  Inv'
<1> DEFINE new == [state |-> "copying", url |-> g_stats, copy |-> [f \in Fields |-> "unread"],
                   setups |-> Len(servers)]
<1>1. /\ process = "running" /\ caller = 0 /\ thread[e].state = "none" /\ g_stats # None
      /\ Cardinality(Running) < room
      /\ thread' = [thread EXCEPT ![e] = new]
      /\ UNCHANGED <<platform, room, process, caller, g_stats, JAVA, servers, failed, posted>>
    BY DEF LogEvent, Logs, CanStart
<1>2. servers # <<>> /\ g_stats = servers[Len(servers)]
    BY <1>1 DEF Inv, EngineInv
<1>3. Len(servers) \in 1..MaxSetups /\ new \in Threads
    BY <1>1, <1>2, StatisticsAssumption DEF Inv, TypeOK, Threads, OnItsWay
<1>4. thread' \in [Events -> Threads] /\ thread'[e] = new
      /\ \A d \in Events : d # e => thread'[d] = thread[d]
    BY <1>1, <1>3 DEF Inv, TypeOK
<1>5. Running' = Running \union {e}
    BY <1>4 DEF Running, OnItsWay
<1>6. Cardinality(Running') <= room
    <2>1. room \in Nat
        BY StatisticsAssumption DEF Inv, TypeOK
    <2>2. Cardinality(Running') <= Cardinality(Running) + 1
        BY <1>5, RunningIsFinite, FS_AddElement
    <2>3. Cardinality(Running') \in Nat
        BY <1>5, RunningIsFinite, FS_AddElement, FS_CardinalityType
    <2>. QED  BY <1>1, <2>1, <2>2, <2>3, RunningIsFinite
<1>7. TypeOK'
    BY <1>1, <1>4, <1>6 DEF Inv, TypeOK
<1>8. EngineInv' /\ WellBehavedAppSurvives'
    BY <1>1 DEF Inv, EngineInv, WellBehavedAppSurvives
<1>9. ThreadInv'
    BY <1>1, <1>2, <1>3, <1>4, <1>5 DEF Inv, ThreadInv
<1>10. PostedInv'
    <2>1. \A p \in posted : p[1] \in Events /\ p[1] # e
        BY <1>1 DEF Inv, TypeOK, PostedInv
    <2>. QED  BY <1>1, <1>4, <2>1 DEF Inv, PostedInv, PostedWhereLogged
<1>11. SetupInv'
    BY <1>1 DEF Inv, SetupInv, Reached
<1>12. CopiesAreUsable'
    BY <1>1, <1>4, <1>5 DEF Inv, CopiesAreUsable
<1>. QED
    BY <1>7, <1>8, <1>9, <1>10, <1>11, <1>12 DEF Inv

LEMMA CopyFieldPreserves ==
    ASSUME Inv, NEW e \in Events, NEW f \in Fields, CopyField(e, f)
    PROVE  Inv'
<1>1. /\ process = "running" /\ thread[e].state = "copying"
      /\ thread' = [thread EXCEPT ![e].copy[f] = JAVA[f]]
      /\ UNCHANGED <<platform, room, process, caller, g_stats, JAVA, servers, failed, posted>>
    BY DEF CopyField
<1>2. /\ thread \in [Events -> Threads] /\ thread[e] \in Threads
      /\ thread[e].copy \in [Fields -> References \union {"unread"}] /\ JAVA[f] \in References
    BY DEF Inv, TypeOK, Threads
<1>3. /\ thread'[e] = [thread[e] EXCEPT !.copy = [thread[e].copy EXCEPT ![f] = JAVA[f]]]
      /\ \A d \in Events : d # e => thread'[d] = thread[d]
    BY <1>1, <1>2
<1>4. thread'[e] \in Threads
    <2>1. [thread[e].copy EXCEPT ![f] = JAVA[f]] \in [Fields -> References \union {"unread"}]
        BY <1>2
    <2>. QED  BY <1>2, <1>3, <2>1 DEF Threads
<1>5. /\ thread' \in [Events -> Threads]
      /\ \A d \in Events : /\ thread'[d].state = thread[d].state
                           /\ thread'[d].url = thread[d].url
                           /\ thread'[d].setups = thread[d].setups
    BY <1>1, <1>2, <1>3, <1>4 DEF Threads
<1>6. Running' = Running
    BY <1>5 DEF Running
<1>7. TypeOK'
    BY <1>1, <1>5, <1>6 DEF Inv, TypeOK
<1>8. EngineInv' /\ SetupInv' /\ WellBehavedAppSurvives'
    BY <1>1 DEF Inv, EngineInv, SetupInv, Reached, WellBehavedAppSurvives
<1>9. ThreadInv'
    BY <1>1, <1>5, <1>6 DEF Inv, ThreadInv, Running
<1>10. PostedInv'
    <2>1. \A p \in posted : p[1] \in Events
        BY DEF Inv, TypeOK
    <2>. QED  BY <1>1, <1>5, <2>1 DEF Inv, PostedInv, PostedWhereLogged
<1>11. CopiesAreUsable'
    <2>1. e \in Running
        BY <1>1 DEF Running, OnItsWay
    <2>2. thread[e].setups = Len(servers) /\ ~failed => JAVA[f] = "valid"
        <3>1. SUFFICES ASSUME thread[e].setups = Len(servers), ~failed
                       PROVE  JAVA[f] = "valid"
            OBVIOUS
        <3>2. caller = 0 /\ Len(servers) \in Nat /\ Len(servers) >= 1
            BY <2>1, <3>1 DEF Inv, TypeOK, ThreadInv
        <3>3. servers # <<>>
            BY <3>2 DEF Inv, TypeOK
        <3>. QED  BY <1>1, <3>1, <3>2, <3>3 DEF Inv, SetupInv, Reached, Fields
    <2>3. \A g \in Fields : thread'[e].copy[g] = IF g = f THEN JAVA[f] ELSE thread[e].copy[g]
        BY <1>2, <1>3 DEF Threads
    <2>. QED  BY <1>1, <1>3, <1>5, <1>6, <2>1, <2>2, <2>3 DEF Inv, CopiesAreUsable, Running
<1>. QED
    BY <1>7, <1>8, <1>9, <1>10, <1>11 DEF Inv

LEMMA PostPreserves ==
    ASSUME Inv, NEW e \in Events, Post(e)
    PROVE  Inv'
<1>1. /\ process = "running" /\ thread[e].state = "copying"
      /\ thread' = [thread EXCEPT ![e].state = "posted"]
      /\ posted' = posted \union {<<e, thread[e].url>>}
      /\ UNCHANGED <<platform, room, process, caller, g_stats, JAVA, servers, failed>>
    BY DEF Post, ReadyToPost, Destination
<1>2. thread \in [Events -> Threads] /\ thread[e] \in Threads
    BY DEF Inv, TypeOK
<1>3. /\ thread'[e] = [thread[e] EXCEPT !.state = "posted"]
      /\ \A d \in Events : d # e => thread'[d] = thread[d]
    BY <1>1, <1>2
<1>4. /\ thread' \in [Events -> Threads] /\ thread'[e].state = "posted"
      /\ \A d \in Events : /\ thread'[d].copy = thread[d].copy
                           /\ thread'[d].url = thread[d].url
                           /\ thread'[d].setups = thread[d].setups
    BY <1>1, <1>2, <1>3 DEF Threads, OnItsWay
<1>5. Running' = Running /\ e \in Running
    BY <1>1, <1>3, <1>4 DEF Running, OnItsWay
<1>6. TypeOK'
    <2>1. <<e, thread[e].url>> \in Events \X (Servers \union {None})
        BY <1>2 DEF Threads
    <2>. QED  BY <1>1, <1>4, <1>5, <2>1 DEF Inv, TypeOK
<1>7. EngineInv' /\ SetupInv' /\ WellBehavedAppSurvives'
    BY <1>1 DEF Inv, EngineInv, SetupInv, Reached, WellBehavedAppSurvives
<1>8. ThreadInv'
    BY <1>1, <1>4, <1>5 DEF Inv, ThreadInv, Running
<1>9. PostedInv'
    <2>1. \A p \in posted : p[1] \in Events
        BY DEF Inv, TypeOK
    <2>2. thread[e].setups \in DOMAIN servers /\ thread[e].url = servers[thread[e].setups]
        BY <1>5 DEF Inv, TypeOK, ThreadInv
    <2>. QED  BY <1>1, <1>3, <1>4, <2>1, <2>2 DEF Inv, PostedInv, PostedWhereLogged
<1>10. CopiesAreUsable'
    BY <1>1, <1>4, <1>5 DEF Inv, CopiesAreUsable, Running
<1>. QED
    BY <1>6, <1>7, <1>8, <1>9, <1>10 DEF Inv

\* A thread whose call returned, for whatever reason, is over.
LEMMA OverPreserves ==
    ASSUME Inv, NEW e \in Running, process = "running", Over(e, "over")
    PROVE  Inv'
<1>1. /\ thread' = [thread EXCEPT ![e] = [@ EXCEPT !.state = "over", !.url = None,
                                          !.copy = [f \in Fields |-> "unread"]]]
      /\ UNCHANGED <<platform, room, process, caller, g_stats, JAVA, servers, failed, posted>>
    BY DEF Over
<1>2. thread \in [Events -> Threads] /\ e \in Events /\ thread[e] \in Threads
    BY DEF Inv, TypeOK, Running
<1>3. /\ thread'[e] = [state |-> "over", url |-> None, copy |-> [f \in Fields |-> "unread"],
                       setups |-> thread[e].setups]
      /\ \A d \in Events : d # e => thread'[d] = thread[d]
    BY <1>1, <1>2 DEF Threads
<1>4. /\ thread' \in [Events -> Threads]
      /\ \A d \in Events : thread'[d].setups = thread[d].setups
    BY <1>1, <1>2, <1>3 DEF Threads
<1>5. Running' = Running \ {e}
    BY <1>3 DEF Running, OnItsWay
<1>6. Cardinality(Running') <= room
    <2>1. /\ Cardinality(Running') = Cardinality(Running) - 1
          /\ Cardinality(Running) <= room /\ room \in Nat
        BY <1>5, RunningIsFinite, FS_RemoveElement, StatisticsAssumption DEF Inv, TypeOK
    <2>. QED  BY <2>1, RunningIsFinite
<1>7. TypeOK'
    BY <1>1, <1>4, <1>6 DEF Inv, TypeOK
<1>8. EngineInv' /\ SetupInv' /\ WellBehavedAppSurvives'
    BY <1>1 DEF Inv, EngineInv, SetupInv, Reached, WellBehavedAppSurvives
<1>9. ThreadInv' /\ CopiesAreUsable'
    BY <1>1, <1>3, <1>5 DEF Inv, ThreadInv, CopiesAreUsable, Running
<1>10. PostedInv'
    <2>1. \A p \in posted : p[1] \in Events
        BY DEF Inv, TypeOK
    <2>. QED  BY <1>1, <1>3, <1>4, <2>1 DEF Inv, PostedInv, PostedWhereLogged
<1>. QED
    BY <1>7, <1>8, <1>9, <1>10 DEF Inv

\* A process that has a reason to abort, or does so outside of Android.
LEMMA AbortPreserves ==
    ASSUME Inv, Abort,
           platform = "Android" =>
             \/ servers = <<>> \/ failed
             \/ \E e \in Running : thread[e].setups # Len(servers)
             \/ Cardinality(Running) = room
    PROVE  Inv'
<1>1. /\ process' = "aborted"
      /\ UNCHANGED <<platform, room, caller, g_stats, JAVA, thread, servers, failed, posted>>
    BY DEF Abort
<1>2. Running' = Running
    BY <1>1 DEF Running
<1>3. WellBehavedAppSurvives'
    BY <1>1, <1>2 DEF WellBehavedAppSurvives
<1>4. TypeOK' /\ EngineInv' /\ ThreadInv' /\ PostedInv' /\ SetupInv' /\ CopiesAreUsable'
    BY <1>1, <1>2 DEF Inv, TypeOK, EngineInv, ThreadInv, PostedInv, PostedWhereLogged, SetupInv,
                      Reached, CopiesAreUsable
<1>. QED
    BY <1>3, <1>4 DEF Inv

LEMMA HTTPFailsPreserves ==
    ASSUME Inv, NEW e \in Running, process = "running", HTTPFails(e)
    PROVE  Inv'
<1>1. CASE platform = "Java"
    BY <1>1, AbortPreserves DEF HTTPFails, FailureEscapes
<1>2. CASE platform # "Java"
    BY <1>2, OverPreserves DEF HTTPFails, FailureEscapes, AfterFailure
<1>. QED
    BY <1>1, <1>2

LEMMA LogEventCrashesPreserves ==
    ASSUME Inv, NEW e \in Events, LogEventCrashes(e)
    PROVE  Inv'
<1>1. process = "running" /\ Abort
    BY DEF LogEventCrashes, Logs
<1>2. CASE g_stats = None
    <2>1. servers = <<>>
        <3>1. SUFFICES ASSUME servers # <<>> PROVE FALSE
            OBVIOUS
        <3>2. g_stats \in Servers
            BY <1>1, <3>1 DEF Inv, TypeOK, EngineInv
        <3>. QED  BY <1>2, <3>2, StatisticsAssumption
    <2>. QED  BY <1>1, <2>1, AbortPreserves
<1>3. CASE ~CanStart
    <2>1. Cardinality(Running) <= room /\ room \in Nat
        BY StatisticsAssumption DEF Inv, TypeOK
    <2>2. Cardinality(Running) = room
        BY <1>3, <2>1, RunningIsFinite DEF CanStart
    <2>. QED  BY <1>1, <2>2, AbortPreserves
<1>. QED
    BY <1>2, <1>3 DEF LogEventCrashes

LEMMA InvalidReferencePreserves ==
    ASSUME Inv, NEW e \in Events, InvalidReference(e)
    PROVE  Inv'
<1>1. Abort /\ e \in Running
    BY DEF InvalidReference, ReadyToPost, Running, OnItsWay
<1>2. failed \/ thread[e].setups # Len(servers)
    BY <1>1 DEF Inv, CopiesAreUsable, InvalidReference, ReadyToPost, Copied, IsValid
<1>. QED
    BY <1>1, <1>2, AbortPreserves

LEMMA ExitPreserves ==
    ASSUME Inv, Exit
    PROVE  Inv'
<1>1. /\ process' = "exited" /\ caller' = 0 /\ g_stats' = None
      /\ JAVA' = [f \in Fields |-> "null"]
      /\ thread' = Idle([e \in Events |-> thread[e].setups])
      /\ UNCHANGED <<platform, room, servers, failed, posted>>
    BY DEF Exit
<1>2. \A e \in Events : thread[e].setups \in 0..MaxSetups
    BY DEF Inv, TypeOK, Threads
<1>3. /\ \A e \in Events : thread'[e] =
             [state |-> "none", url |-> None, copy |-> [f \in Fields |-> "unread"],
              setups |-> thread[e].setups]
      /\ thread' \in [Events -> Threads]
    BY <1>1, <1>2 DEF Idle, Threads
<1>4. Running' = {}
    BY <1>3 DEF Running, OnItsWay
<1>5. TypeOK'
    <2>1. room \in Nat /\ Cardinality({}) = 0
        BY FS_EmptySet, StatisticsAssumption DEF Inv, TypeOK
    <2>2. 0 \in 0..Len(SetupSteps)
        BY Steps
    <2>3. JAVA' \in [Fields -> References]
        BY <1>1 DEF References
    <2>4. Cardinality(Running') <= room'
        BY <1>1, <1>4, <2>1
    <2>. QED  BY <1>1, <1>3, <2>2, <2>3, <2>4 DEF Inv, TypeOK
<1>6. EngineInv' /\ SetupInv' /\ WellBehavedAppSurvives'
    BY <1>1 DEF EngineInv, SetupInv, WellBehavedAppSurvives
<1>7. ThreadInv' /\ CopiesAreUsable'
    BY <1>4 DEF ThreadInv, CopiesAreUsable
<1>8. PostedInv'
    <2>1. \A p \in posted : p[1] \in Events
        BY DEF Inv, TypeOK
    <2>2. \A e \in Events : thread'[e].setups = thread[e].setups
        BY <1>3
    <2>3. process' # "running"
        BY <1>1
    <2>4. PostedWhereLogged'
        BY <1>1, <2>1, <2>2 DEF Inv, PostedInv, PostedWhereLogged
    <2>. QED  BY <2>3, <2>4 DEF PostedInv
<1>. QED
    BY <1>5, <1>6, <1>7, <1>8 DEF Inv

-----------------------------------------------------------------------------
(* Theorems                                                                  *)

LEMMA InitInv == Init => Inv
<1> SUFFICES ASSUME Init PROVE Inv
    OBVIOUS
<1>1. \A e \in Events : thread[e] = [state |-> "none", url |-> None,
                                    copy |-> [f \in Fields |-> "unread"], setups |-> 0]
    BY DEF Init, Idle
<1>2. Running = {}
    BY <1>1 DEF Running, OnItsWay
<1>3. TypeOK
    <2>1. thread \in [Events -> Threads]
        BY <1>1, StatisticsAssumption DEF Init, Idle, Threads
    <2>2. Cardinality(Running) <= room
        BY <1>2, FS_EmptySet, StatisticsAssumption DEF Init
    <2>3. servers \in Seq(Servers) /\ Len(servers) <= MaxSetups
        BY StatisticsAssumption DEF Init
    <2>4. JAVA \in [Fields -> References] /\ caller \in 0..Len(SetupSteps)
        BY Steps DEF Init, References
    <2>. QED  BY <2>1, <2>2, <2>3, <2>4 DEF Init, TypeOK
<1>4. EngineInv /\ SetupInv /\ WellBehavedAppSurvives
    BY DEF Init, EngineInv, SetupInv, Reached, WellBehavedAppSurvives
<1>5. ThreadInv /\ CopiesAreUsable
    BY <1>2 DEF ThreadInv, CopiesAreUsable
<1>6. PostedInv
    BY DEF Init, PostedInv, PostedWhereLogged
<1>. QED
    BY <1>3, <1>4, <1>5, <1>6 DEF Inv

LEMMA NextInv == Inv /\ [Next]_vars => Inv'
<1> SUFFICES ASSUME Inv, [Next]_vars PROVE Inv'
    OBVIOUS
<1>1. CASE Caller
    BY <1>1, SetupPreserves, SetupStepPreserves, LogEventPreserves, LogEventCrashesPreserves
    DEF Caller
<1>2. ASSUME NEW e \in Events, Thread(e) PROVE Inv'
    <2>1. ASSUME NEW f \in Fields, CopyField(e, f) PROVE Inv'
        BY <2>1, CopyFieldPreserves
    <2>2. CASE PostFails(e)
        BY <2>2, HTTPFailsPreserves DEF PostFails, ReadyToPost, Running, OnItsWay
    <2>3. CASE InvalidReference(e)
        BY <2>3, InvalidReferencePreserves
    <2>4. CASE Post(e)
        BY <2>4, PostPreserves
    <2>5. CASE PostReturns(e)
        BY <2>5, OverPreserves DEF PostReturns, Running, OnItsWay
    <2>6. CASE AnswerFails(e)
        BY <2>6, HTTPFailsPreserves DEF AnswerFails, Running, OnItsWay
    <2>. QED  BY <1>2, <2>1, <2>2, <2>3, <2>4, <2>5, <2>6 DEF Thread
<1>3. CASE Exit
    BY <1>3, ExitPreserves
<1>4. CASE UNCHANGED vars
    BY <1>4 DEF vars, Inv, TypeOK, EngineInv, ThreadInv, PostedInv, PostedWhereLogged, SetupInv,
                Reached, CopiesAreUsable, WellBehavedAppSurvives, Running
<1>. QED
    BY <1>1, <1>2, <1>3, <1>4 DEF Next

\* The inductive invariant.
THEOREM Invariance == Spec => []Inv
BY InitInv, NextInv, PTL DEF Spec

\* Threads, references and servers keep their types, and threads their limit.
THEOREM TypeCorrect == Spec => []TypeOK
<1>1. Inv => TypeOK
    BY DEF Inv
<1>. QED
    BY <1>1, Invariance, PTL

\* Every request goes to the server of the setup() before its event, whatever comes later.
THEOREM PostedThere == Spec => []PostedWhereLogged
<1>1. Inv => PostedWhereLogged
    BY DEF Inv, PostedInv
<1>. QED
    BY <1>1, Invariance, PTL

\* Only a setup() that begins later, or one that throws, spoils the references of a thread.
THEOREM Usable == Spec => []CopiesAreUsable
<1>1. Inv => CopiesAreUsable
    BY DEF Inv
<1>. QED
    BY <1>1, Invariance, PTL

\* What can abort an application on Android, for any number of events, calls and threads.
THEOREM Survives == Spec => []WellBehavedAppSurvives
<1>1. Inv => WellBehavedAppSurvives
    BY DEF Inv
<1>. QED
    BY <1>1, Invariance, PTL

=============================================================================
