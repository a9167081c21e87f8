----------------------------- MODULE Statistics -----------------------------
(***************************************************************************)
(* The statistics library in an application (cpp/aloha_stats.{h,cc}, called *)
(* through Statistics.java): the application's thread, which calls setup()   *)
(* and logEvent(), and a detached thread for each event, which posts it with *)
(* the JNI references setup() keeps in JavaWrapper::Singleton()              *)
(* (bricks/java_wrapper/java_wrapper.h).  How an event is posted is           *)
(* JavaTransport.                                                            *)
(***************************************************************************)
EXTENDS Integers, Sequences, FiniteSets

CONSTANTS
    Events,     \* the events that may be logged
    Servers,    \* the URLs setup() may be called with
    None,       \* the engine before setup()
    MaxSetups,  \* bound: how many times setup() is called
    MaxThreads  \* for how many detached threads there may be room: a set

ASSUME StatisticsAssumption ==
    None \notin Servers /\ MaxSetups \in Nat /\ MaxThreads \subseteq Nat /\ IsFiniteSet(Events)

VARIABLES
    platform, \* "Android" or "Java": whether ANDROID is defined
    room,     \* how many detached threads the system lets the process have
    process,  \* "running", "aborted" (it has crashed) or "exited"
    caller,   \* where the application's thread is in setupCPP: 0 when it is not
    g_stats,  \* the engine, of which only the server matters
    JAVA,     \* what the fields of the singleton refer to
    thread,   \* for each event, [state, url, copy, setups]: what its thread is doing
    servers,  \* the arguments of setup(), so far
    failed,   \* whether a setup() has thrown
    posted    \* the requests sent, as pairs of an event and a server

vars == <<platform, room, process, caller, g_stats, JAVA, thread, servers, failed, posted>>

Fields == {"httpTransportClass", "httpTransportClass_run", "httpParamsClass", "httpParamsConstructor"}

\* "local" is a reference that is valid in one call of setupCPP, on its thread.
References == {"null", "local", "valid"}

\* What setupCPP assigns, in its order.
SetupStepsMutant ==
    <<<<"httpTransportClass", "valid">>, <<"httpTransportClass_run", "valid">>,
      <<"httpParamsClass", "local">>, <<"httpParamsConstructor", "valid">>>>
SetupSteps ==
    <<<<"httpTransportClass", "valid">>, <<"httpTransportClass_run", "valid">>,
      <<"httpParamsClass", "local">>, <<"httpParamsClass", "valid">>,
      <<"httpParamsConstructor", "valid">>>>

\* "copying" is the first line of Go; in "posted" the request is out.
OnItsWay == {"copying", "posted"}
Threads ==
    [state : {"none", "over"} \union OnItsWay, url : Servers \union {None},
     copy : [Fields -> References \union {"unread"}], setups : 0..MaxSetups]

Running == {e \in Events : thread[e].state \in OnItsWay}

TypeOK ==
    /\ platform \in {"Android", "Java"}
    /\ room \in MaxThreads
    /\ process \in {"running", "aborted", "exited"}
    /\ caller \in 0..Len(SetupSteps)
    /\ g_stats \in Servers \union {None}
    /\ JAVA \in [Fields -> References]
    /\ thread \in [Events -> Threads]
    /\ servers \in Seq(Servers) /\ Len(servers) <= MaxSetups
    /\ failed \in BOOLEAN
    /\ posted \subseteq Events \X (Servers \union {None})
    /\ Cardinality(Running) <= room

-----------------------------------------------------------------------------
(* setupCPP                                                                  *)

\* The engine is replaced before any of the references.
Setup(url) ==
    /\ process = "running" /\ caller = 0 /\ Len(servers) < MaxSetups
    /\ g_stats' = url
    /\ servers' = Append(servers, url)
    /\ caller' = 1
    /\ UNCHANGED <<platform, room, process, JAVA, thread, failed, posted>>

SetupStep ==
    /\ process = "running" /\ caller # 0
    /\ JAVA' = [JAVA EXCEPT ![SetupSteps[caller][1]] = SetupSteps[caller][2]]
    /\ caller' = IF caller = Len(SetupSteps) THEN 0 ELSE caller + 1
    /\ UNCHANGED <<platform, room, process, g_stats, thread, servers, failed, posted>>

\* A step finds a Java exception: setup() throws it, and the application may go on.
SetupThrows ==
    /\ process = "running" /\ caller # 0
    /\ JAVA' = [JAVA EXCEPT ![SetupSteps[caller][1]] = "null"]
    /\ caller' = 0
    /\ failed' = TRUE
    /\ UNCHANGED <<platform, room, process, g_stats, thread, servers, posted>>

-----------------------------------------------------------------------------
(* logEvent, and LogEvent                                                    *)

\* The process is gone, with all of its threads.
Abort ==
    /\ process' = "aborted"
    /\ UNCHANGED <<platform, room, caller, g_stats, JAVA, thread, servers, failed, posted>>

Logs(e) == process = "running" /\ caller = 0 /\ thread[e].state = "none"
CanStartMutant == Cardinality(Running) <= room
CanStart == Cardinality(Running) < room

\* A thread is started with copies of the server's URL and of the event, and detached.
LogEvent(e) ==
    /\ Logs(e) /\ g_stats # None /\ CanStart
    /\ thread' = [thread EXCEPT ![e] =
         [state |-> "copying", url |-> g_stats, copy |-> [f \in Fields |-> "unread"],
          setups |-> Len(servers)]]
    /\ UNCHANGED <<platform, room, process, caller, g_stats, JAVA, servers, failed, posted>>

\* The null pointer g_stats is dereferenced, or std::thread throws what nobody catches.
LogEventCrashes(e) ==
    /\ Logs(e) /\ (g_stats = None \/ ~CanStart)
    /\ Abort

-----------------------------------------------------------------------------
(* The thread of an event: SimpleSampleHttpPost.                             *)

\* Go copies the singleton, which setupCPP may be writing: any mix of old and new fields.
CopyField(e, f) ==
    /\ process = "running" /\ thread[e].state = "copying" /\ thread[e].copy[f] = "unread"
    /\ thread' = [thread EXCEPT ![e].copy[f] = JAVA[f]]
    /\ UNCHANGED <<platform, room, process, caller, g_stats, JAVA, servers, failed, posted>>

Copied(e) == \A f \in Fields : thread[e].copy[f] # "unread"
IsValid(e) == \A f \in Fields : thread[e].copy[f] = "valid"
ReadyToPost(e) == process = "running" /\ thread[e].state = "copying" /\ Copied(e)

\* What becomes of a thread whose call of HTTP() returns.
AfterFailureMutant == "copying"
AfterFailure == "over"

Over(e, s) ==
    /\ thread' = [thread EXCEPT ![e] =
         [@ EXCEPT !.state = s, !.url = None, !.copy = [f \in Fields |-> "unread"]]]
    /\ UNCHANGED <<platform, room, process, caller, g_stats, JAVA, servers, failed, posted>>

\* Except on Android a call that fails throws HTTPClientException, which nobody catches.
FailureEscapesMutant == TRUE
FailureEscapes == platform = "Java"
HTTPFails(e) == IF FailureEscapes THEN Abort ELSE Over(e, AfterFailure)

\* The thread cannot be attached to the virtual machine, or is told of a Java exception.
\* (What a reference that is not valid does is undefined: this is one outcome.)
PostFails(e) ==
    /\ ReadyToPost(e)
    /\ HTTPFails(e)

\* Another one.
InvalidReference(e) ==
    /\ ReadyToPost(e) /\ ~IsValid(e)
    /\ Abort

DestinationMutant(e) == g_stats
Destination(e) == thread[e].url

\* HttpTransport.run sends the request.  (A local reference of another thread may work.)
Post(e) ==
    /\ ReadyToPost(e) /\ \A f \in Fields : thread[e].copy[f] # "null"
    /\ posted' = posted \union {<<e, Destination(e)>>}
    /\ thread' = [thread EXCEPT ![e].state = "posted"]
    /\ UNCHANGED <<platform, room, process, caller, g_stats, JAVA, servers, failed>>

\* The answer, which nobody looks at, or an exception: a timeout, a connection that is lost.
PostReturns(e) ==
    /\ process = "running" /\ thread[e].state = "posted"
    /\ Over(e, "over")
AnswerFails(e) ==
    /\ process = "running" /\ thread[e].state = "posted"
    /\ HTTPFails(e)

-----------------------------------------------------------------------------
\* What memory holds of the threads of events logged after so many calls of setup().
Idle(setups) ==
    [e \in Events |-> [state |-> "none", url |-> None, copy |-> [f \in Fields |-> "unread"],
                       setups |-> setups[e]]]

\* The application exits or is killed, with no regard to its threads.
Exit ==
    /\ process = "running"
    /\ process' = "exited"
    /\ caller' = 0 /\ g_stats' = None /\ JAVA' = [f \in Fields |-> "null"]
    /\ thread' = Idle([e \in Events |-> thread[e].setups])
    /\ UNCHANGED <<platform, room, servers, failed, posted>>

Init ==
    /\ platform \in {"Android", "Java"}
    /\ room \in MaxThreads
    /\ process = "running"
    /\ caller = 0
    /\ g_stats = None
    /\ JAVA = [f \in Fields |-> "null"]
    /\ thread = Idle([e \in Events |-> 0])
    /\ servers = <<>>
    /\ failed = FALSE
    /\ posted = {}

Caller ==
    \/ \E url \in Servers : Setup(url)
    \/ SetupStep \/ SetupThrows
    \/ \E e \in Events : LogEvent(e) \/ LogEventCrashes(e)

Thread(e) ==
    \/ \E f \in Fields : CopyField(e, f)
    \/ PostFails(e) \/ InvalidReference(e) \/ Post(e) \/ PostReturns(e) \/ AnswerFails(e)

Next == Caller \/ (\E e \in Events : Thread(e)) \/ Exit

\* The threads keep running, and what they call in Java returns or throws: connecting and
\* reading time out.  Nothing obliges the application to call anything.
Spec == Init /\ [][Next]_vars /\ \A e \in Events : WF_vars(Thread(e))

-----------------------------------------------------------------------------
(* Properties *)

\* An event goes to the server setup() had been given when it was logged, whatever setup()
\* is called with while its thread is on its way, and only to that one.
PostedWhereLogged ==
    \A p \in posted :
        LET setups == thread[p[1]].setups
        IN  setups \in DOMAIN servers /\ p[2] = servers[setups]

\* A thread has nothing but valid references to post with, unless a setup() has begun since
\* its event was logged, or has thrown.
CopiesAreUsable ==
    \A e \in Running : thread[e].setups = Len(servers) /\ ~failed =>
        \A f \in Fields : thread[e].copy[f] \in {"unread", "valid"}

\* On Android no failure to reach a server crashes the application: it calls setup() before
\* it logs anything, setup() does not throw, and is not called again while an event is on
\* its way, and there are not too many of these.
WellBehavedAppSurvives ==
    process = "aborted" /\ platform = "Android" =>
        \/ servers = <<>> \/ failed
        \/ \E e \in Running : thread[e].setups # Len(servers)
        \/ Cardinality(Running) = room

\* While the process runs a thread ends, one way or another, so that there is room for the
\* thread of another event.
ThreadsEnd ==
    \A e \in Events : e \in Running ~> e \notin Running \/ process # "running"

=============================================================================
