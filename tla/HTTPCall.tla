------------------------------ MODULE HTTPCall ------------------------------
(***************************************************************************)
(* What a call of HTTP(request, response) promises to its caller            *)
(* (bricks/net/api/types.h), whichever client implements it: it ends at      *)
(* most once, and if it returns then with what the client delivers of the    *)
(* last answer, in memory or in a file.                                      *)
(***************************************************************************)

CONSTANTS
    Calls,            \* the calls considered
    Answers,          \* what servers may answer
    NoAnswer,         \* there has been no answer
    NoResult,         \* there is no result
    Delivered(_, _)   \* the results a call may have after an answer: [code, body]

VARIABLES
    call,     \* the call
    outcome,  \* "pending", "returned" or "failed"
    answer,   \* the last answer
    result    \* what the caller has: the code, and the body or the contents of the file

vars == <<call, outcome, answer, result>>

Init ==
    /\ call \in Calls
    /\ outcome = "pending"
    /\ answer = NoAnswer /\ result = NoResult

\* A server answers a request: the first one, or one it has been redirected to.
Receive ==
    /\ outcome = "pending"
    /\ answer' \in Answers
    /\ UNCHANGED <<call, outcome, result>>

Return ==
    /\ outcome = "pending" /\ answer # NoAnswer
    /\ outcome' = "returned"
    /\ result' \in Delivered(call, answer)
    /\ UNCHANGED <<call, answer>>

\* The call throws, or returns an empty response if the platform has no exceptions.
Fail ==
    /\ outcome = "pending"
    /\ outcome' = "failed"
    /\ UNCHANGED <<call, answer, result>>

Next == Receive \/ Return \/ Fail

Spec == Init /\ [][Next]_vars

=============================================================================
