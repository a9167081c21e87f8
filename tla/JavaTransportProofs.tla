------------------------ MODULE JavaTransportProofs ------------------------
(***************************************************************************)
(* The client in Java implements HTTPCall and keeps the caller's files, for *)
(* any calls, answers and files and for a buffer of any size.               *)
(***************************************************************************)
EXTENDS JavaTransport, TLAPS

\* What Go has put into Params, until run replaces `data` by the body.
Given ==
    /\ params = [data |-> params.data, inputFilePath |-> params.inputFilePath,
                 outputFilePath |-> params.outputFilePath, contentType |-> params.contentType,
                 httpResponseCode |-> params.httpResponseCode]
    /\ pc # "Go" /\ pc \notin Ended =>
         params.outputFilePath = IF call.response.kind = "SaveResponseToFile"
                                 THEN call.response.file_name ELSE ""
    /\ pc \in {"run", "getResponseCode", "read", "close"} \/ (pc = "ParseOutput" /\ answer.code # 200) =>
         params.data = IF call.request.kind = "POST" /\ call.request.body # Empty
                       THEN call.request.body ELSE null

\* Before there is an answer nothing has happened; afterwards its code is known.
Progress ==
    /\ pc \in {"Go", "run", "getResponseCode"} =>
         /\ answer = NoAnswer /\ files = Files
         /\ arrived = 0 /\ written = 0 /\ bytesExpected = -1
    /\ pc \in {"read", "close", "ParseOutput"} =>
         answer \in Answers /\ params.httpResponseCode = answer.code
    /\ pc \in {"read", "close"} => answer.code = 200

\* All that has arrived is written, and `bytesExpected` is what is left of Content-Length.
Reading ==
    pc = "read" =>
        /\ written = arrived
        /\ IF Expected(answer) = -1 THEN bytesExpected = -1
           ELSE bytesExpected \in Nat /\ bytesExpected + written = answer.length

\* When the loop has ended it has written the body; then this is in the file or in `data`.
Complete ==
    /\ pc = "close" => Prefix(written) = Body(answer)
    /\ pc = "ParseOutput" /\ answer.code = 200 =>
         IF call.response.kind = "SaveResponseToFile"
         THEN files[call.response.file_name] = Body(answer)
         ELSE params.data = Body(answer)

Inv == TypeOK /\ Given /\ Progress /\ Reading /\ Complete /\ FilesAreKept

-----------------------------------------------------------------------------
(* The assumptions about a call, and a part of an answer.                     *)

LEMMA Data ==
    ASSUME TypeOK
    PROVE  /\ call.response.kind \in {"KeepResponseInMemory", "SaveResponseToFile"}
           /\ call.response.kind = "SaveResponseToFile" =>
                call.response.file_name # "" /\ call.response.file_name \in DOMAIN Files
           /\ call.request.body \in Contents \union {Empty}
BY JavaAssumption DEF TypeOK, Requests, Responses

LEMMA AnAnswer ==
    ASSUME NEW a \in Answers
    PROVE  /\ a.code \in Nat \union {-1} /\ a.length \in Nat \union {-1}
           /\ a.gzip \in BOOLEAN /\ a.stream \in Nat
           /\ a # NoAnswer
<1>1. a \in [code : Nat \union {-1}, length : Nat \union {-1}, gzip : BOOLEAN, stream : Nat]
    BY JavaAssumption
<1>2. a.code # NoAnswer.code
    BY <1>1 DEF NoAnswer
<1>. QED
    BY <1>1, <1>2

LEMMA Counts ==
    ASSUME TypeOK, answer \in Answers
    PROVE  /\ answer.stream \in Nat /\ arrived \in Nat /\ written \in Nat
           /\ arrived <= answer.stream /\ written <= arrived
<1>1. answer.stream \in Nat
    BY AnAnswer
<1>2. arrived \in 0..answer.stream /\ written \in 0..arrived
    BY DEF TypeOK
<1>. QED
    BY <1>1, <1>2

LEMMA APrefix ==
    ASSUME NEW n \in Nat
    PROVE  Prefix(n) \in Contents \union {Empty} /\ Prefix(n) # null
BY DEF Prefix, Contents, Empty, null

LEMMA DataIsNotNull ==
    ASSUME NEW c \in Contents \union {Empty}
    PROVE  c # null
BY DEF Contents, Empty, null

-----------------------------------------------------------------------------
(* The invariant                                                             *)

LEMMA InitInv == Init => Inv
<1> SUFFICES ASSUME Init PROVE Inv
    OBVIOUS
<1>1. params.data = null /\ params = NewParams /\ answer.stream = 0
    BY DEF Init, NewParams, NoAnswer
<1>2. arrived \in 0..answer.stream /\ written \in 0..arrived
    BY <1>1 DEF Init
<1>3. TypeOK
    <2>. HIDE DEF NewParams, NoAnswer
    <2>. QED  BY <1>1, <1>2, JavaAssumption DEF Init, TypeOK
<1>. QED
    BY <1>1, <1>3 DEF Init, Inv, Given, Progress, Reading, Complete, FilesAreKept, NewParams, Ended

\* A call that fails leaves nothing to show but what is in the file.
LEMMA FailsPreserves ==
    ASSUME Inv, GoFails, files' \in [DOMAIN Files -> Contents \union {Empty, NoFile}],
           FilesAreKept'
    PROVE  Inv'
<1>1. pc' \in {"empty", "HTTPClientException"}
    BY DEF GoFails
<1>2. TypeOK'
    BY <1>1 DEF Inv, TypeOK, GoFails, Ended
<1>. QED
    BY <1>1, <1>2 DEF Inv, Given, Progress, Reading, Complete, GoFails, Ended

\* Most failures leave the files alone.
LEMMA FailsQuietly ==
    ASSUME Inv, GoFails, UNCHANGED files
    PROVE  Inv'
<1>1. files' \in [DOMAIN Files -> Contents \union {Empty, NoFile}]
    BY DEF Inv, TypeOK
<1>2. FilesAreKept'
    BY DEF Inv, FilesAreKept, GoFails
<1>. QED
    BY <1>1, <1>2, FailsPreserves

LEMMA SendInv ==
    ASSUME Inv, Send
    PROVE  Inv'
<1>1. CASE Go
    <2>1. params'.data \in Contents \union {null, Empty}
        BY <1>1, Data DEF Inv, Go
    <2>2. TypeOK'
        BY <1>1, <2>1 DEF Inv, TypeOK, Go
    <2>3. Given'
        BY <1>1 DEF Go, Given, Ended
    <2>4. (Progress /\ Reading /\ Complete /\ FilesAreKept)'
        BY <1>1 DEF Inv, Go, Progress, Reading, Complete, FilesAreKept
    <2>. QED  BY <2>2, <2>3, <2>4 DEF Inv
<1>2. CASE SendsGET \/ SendsPOST
    <2>1. /\ pc = "run" /\ pc' = "getResponseCode"
          /\ UNCHANGED <<platform, call, files, params, answer, arrived, bytesExpected, written, output>>
        BY <1>2 DEF SendsGET, SendsPOST
    <2>2. (TypeOK /\ FilesAreKept)'
        BY <2>1 DEF Inv, TypeOK, FilesAreKept
    <2>. QED  BY <2>1, <2>2 DEF Inv, Given, Progress, Reading, Complete, Ended
<1>3. CASE GoThrows \/ SendThrows
    BY <1>3, FailsQuietly DEF GoThrows, SendThrows
<1>. QED
    BY <1>1, <1>2, <1>3 DEF Send

LEMMA HeadInv ==
    ASSUME Inv, NEW a \in Answers, ReceivesHead(a)
    PROVE  Inv'
<1> DEFINE f == call.response.file_name
<1>1. /\ pc = "getResponseCode" /\ answer' = a /\ answer = NoAnswer /\ files = Files
      /\ arrived = 0 /\ written = 0 /\ bytesExpected = -1
      /\ params' = [params EXCEPT !.httpResponseCode = a.code]
      /\ UNCHANGED <<platform, call, arrived, written, output>>
    BY DEF ReceivesHead, Inv, Progress
<1>2. params'.httpResponseCode = a.code /\ params'.data = params.data
      /\ params'.outputFilePath = params.outputFilePath
    BY <1>1 DEF Inv, Given
<1>3. CASE LooksAtBody(a)
    <2>1. /\ pc' = "read" /\ bytesExpected' = Expected(a)
          /\ files' = IF params.outputFilePath # ""
                      THEN [files EXCEPT ![params.outputFilePath] = Empty] ELSE files
        BY <1>3 DEF ReceivesHead
    <2>2. a.code = 200
        BY <1>3 DEF LooksAtBody
    <2>3. Expected(a) \in Nat \union {-1} /\ (Expected(a) # -1 => Expected(a) = a.length)
        BY AnAnswer DEF Expected
    <2>4. /\ files' \in [DOMAIN Files -> Contents \union {Empty, NoFile}]
          /\ files' = Files \/ (call.response.kind = "SaveResponseToFile"
                               /\ files' = [Files EXCEPT ![f] = Empty])
        BY <1>1, <2>1, Data DEF Inv, TypeOK, Given, Ended
    <2>5. TypeOK'
        <3>1. /\ answer' \in Answers /\ arrived' \in 0..answer'.stream /\ written' \in 0..arrived'
              /\ bytesExpected' \in Nat \union {-1}
            <4>1. answer' \in Answers /\ bytesExpected' \in Nat \union {-1}
                BY <1>1, <2>1, <2>3
            <4>2. answer'.stream \in Nat /\ arrived' = 0 /\ written' = 0
                BY <1>1, AnAnswer
            <4>. QED  BY <4>1, <4>2
        <3>2. /\ platform' \in {"Android", "Java"} /\ call' \in Calls
              /\ params'.data \in Contents \union {null, Empty}
            BY <1>1, <1>2 DEF Inv, TypeOK
        <3>. QED  BY <2>1, <2>4, <3>1, <3>2 DEF TypeOK
    <2>6. FilesAreKept'
        <3>1. Empty = Prefix(0) /\ 0 \in 0..arrived'
            BY <1>1 DEF Prefix
        <3>. QED  BY <1>1, <2>2, <2>4, <3>1 DEF FilesAreKept
    <2>7. Given' /\ Progress' /\ Complete'
        BY <1>1, <1>2, <2>1, <2>2 DEF Inv, Given, Progress, Complete, Ended
    <2>8. Reading'
        <3>1. written' = 0 /\ arrived' = 0 /\ Expected(answer') = Expected(a) /\ answer'.length = a.length
            BY <1>1
        <3>2. Expected(a) # -1 => bytesExpected' \in Nat /\ bytesExpected' + 0 = a.length
            <4>1. SUFFICES ASSUME Expected(a) # -1 PROVE bytesExpected' \in Nat /\ bytesExpected' + 0 = a.length
                OBVIOUS
            <4>2. bytesExpected' \in Nat /\ bytesExpected' = a.length
                BY <2>1, <2>3, <4>1
            <4>. QED  BY <4>2
        <3>. QED  BY <2>1, <3>1, <3>2 DEF Reading
    <2>. QED  BY <2>5, <2>6, <2>7, <2>8 DEF Inv
<1>4. CASE ~LooksAtBody(a)
    <2>1. pc' = "ParseOutput" /\ UNCHANGED <<bytesExpected, files>>
        BY <1>4 DEF ReceivesHead
    <2>2. a.code # 200
        BY <1>4 DEF LooksAtBody
    <2>3. TypeOK'
        BY <1>1, <1>2, <2>1, AnAnswer DEF Inv, TypeOK
    <2>. QED
        BY <1>1, <1>2, <2>1, <2>2, <2>3
           DEF Inv, Given, Progress, Reading, Complete, FilesAreKept, Ended
<1>. QED
    BY <1>3, <1>4

LEMMA ReadInv ==
    ASSUME Inv, NEW n \in 1..BufferSize, ReadsPiece(n)
    PROVE  Inv'
<1>1. /\ pc = "read" /\ arrived + n <= answer.stream /\ arrived' = arrived + n
      /\ UNCHANGED <<platform, call, files, params, answer, output>>
    BY DEF ReadsPiece
<1>2. /\ answer \in Answers /\ answer.code = 200 /\ written = arrived
      /\ IF Expected(answer) = -1 THEN bytesExpected = -1
         ELSE bytesExpected \in Nat /\ bytesExpected + written = answer.length
    BY <1>1 DEF Inv, Progress, Reading
<1>3. answer.stream \in Nat /\ answer.length \in Nat \union {-1} /\ arrived \in Nat /\ n \in Nat
    <2>1. BufferSize \in Nat
        BY JavaAssumption
    <2>2. n \in Nat
        BY <2>1
    <2>. QED  BY <1>2, <2>2, AnAnswer, Counts DEF Inv
<1>4. arrived' \in 0..answer.stream /\ \A i \in 0..arrived : i \in 0..arrived'
    BY <1>1, <1>3
<1>5. FilesAreKept'
    <2>1. FilesAreKept
        BY DEF Inv
    <2>. QED  BY <1>1, <1>4, <2>1 DEF FilesAreKept
<1>6. Given' /\ Progress'
    <2>1. pc' \in {"read", "close"}
        BY <1>1 DEF ReadsPiece
    <2>. QED  BY <1>1, <1>2, <2>1 DEF Inv, Given, Progress, Ended
<1>7. CASE bytesExpected # -1 /\ bytesExpected < n
    <2>1. written' = written + bytesExpected /\ pc' = "close" /\ bytesExpected' = bytesExpected
        BY <1>7 DEF ReadsPiece
    <2>2. Expected(answer) # -1 /\ bytesExpected \in Nat
        BY <1>2, <1>7
    <2>3. written' = answer.length /\ answer.length < answer.stream /\ written' \in 0..arrived'
        BY <1>1, <1>2, <1>3, <1>7, <2>1, <2>2
    <2>4. TypeOK'
        BY <1>1, <1>4, <2>1, <2>3 DEF Inv, TypeOK
    <2>5. Prefix(written') = Body(answer)
        BY <1>3, <2>2, <2>3 DEF Body, Expected
    <2>. QED  BY <1>1, <1>5, <1>6, <2>1, <2>4, <2>5 DEF Inv, Reading, Complete
<1>8. CASE ~(bytesExpected # -1 /\ bytesExpected < n)
    <2>1. written' = written + n /\ bytesExpected' = ExpectedAfter(n) /\ pc' = "read"
        BY <1>1, <1>8 DEF ReadsPiece
    <2>2. written' = arrived' /\ written' \in 0..arrived'
        BY <1>1, <1>2, <1>3, <2>1
    <2>3. IF Expected(answer) = -1 THEN bytesExpected' = -1
          ELSE bytesExpected' \in Nat /\ bytesExpected' + written' = answer.length
        BY <1>2, <1>3, <1>8, <2>1 DEF ExpectedAfter
    <2>4. TypeOK'
        BY <1>1, <1>4, <2>1, <2>2, <2>3 DEF Inv, TypeOK
    <2>5. Reading'
        BY <1>1, <2>2, <2>3 DEF Reading
    <2>. QED  BY <1>5, <1>6, <2>1, <2>4, <2>5 DEF Inv, Complete
<1>. QED
    BY <1>7, <1>8

LEMMA EndInv ==
    ASSUME Inv, EndOfStream
    PROVE  Inv'
<1>1. /\ pc = "read" /\ pc' = "close" /\ arrived = answer.stream
      /\ UNCHANGED <<platform, call, files, params, answer, arrived, bytesExpected, written, output>>
    BY DEF EndOfStream
<1>2. /\ answer \in Answers /\ written = arrived
      /\ IF Expected(answer) = -1 THEN bytesExpected = -1
         ELSE bytesExpected \in Nat /\ bytesExpected + written = answer.length
    BY <1>1 DEF Inv, Progress, Reading
<1>3. Prefix(written) = Body(answer)
    <2>1. answer.stream \in Nat /\ answer.length \in Nat \union {-1} /\ answer.gzip \in BOOLEAN
        BY <1>2, AnAnswer
    <2>2. CASE Expected(answer) = -1
        BY <1>1, <1>2, <2>1, <2>2 DEF Body, Expected
    <2>3. CASE Expected(answer) # -1
        <3>1. ~answer.gzip /\ answer.stream <= answer.length
            BY <1>1, <1>2, <2>1, <2>3 DEF Expected
        <3>. QED  BY <1>1, <1>2, <2>1, <3>1 DEF Body
    <2>. QED  BY <2>2, <2>3
<1>4. TypeOK' /\ FilesAreKept'
    BY <1>1 DEF Inv, TypeOK, FilesAreKept
<1>5. Given' /\ Progress'
    BY <1>1 DEF Inv, Given, Progress, Ended
<1>. QED
    BY <1>1, <1>3, <1>4, <1>5 DEF Inv, Reading, Complete

\* The file of the response gets a part of what has been written.
LEMMA FileKept ==
    ASSUME Inv, pc \in {"read", "close"}, UNCHANGED <<call, answer, arrived>>,
           call.response.kind = "SaveResponseToFile", NEW n \in 0..written,
           files' = [files EXCEPT ![call.response.file_name] = Prefix(n)]
    PROVE  files' \in [DOMAIN Files -> Contents \union {Empty, NoFile}] /\ FilesAreKept'
<1>1. n \in Nat /\ n \in 0..arrived /\ answer.code = 200
    BY Counts DEF Inv, Progress
<1>2. Prefix(n) \in Contents \union {Empty} /\ call.response.file_name \in DOMAIN Files
    BY <1>1, APrefix, Data DEF Inv
<1>3. files' \in [DOMAIN Files -> Contents \union {Empty, NoFile}]
    <2>1. files \in [DOMAIN Files -> Contents \union {Empty, NoFile}]
        BY DEF Inv, TypeOK
    <2>. QED  BY <1>2, <2>1
<1>4. ASSUME NEW f \in DOMAIN Files, files'[f] # Files[f]
      PROVE  f = call.response.file_name /\ \E i \in 0..arrived : files'[f] = Prefix(i)
    <2>1. CASE f = call.response.file_name
        BY <1>1, <1>2, <2>1 DEF Inv, TypeOK
    <2>2. CASE f # call.response.file_name
        <3>1. files'[f] = files[f]
            BY <2>2 DEF Inv, TypeOK
        <3>. QED  BY <1>4, <3>1, <2>2 DEF Inv, FilesAreKept
    <2>. QED  BY <2>1, <2>2
<1>. QED
    BY <1>1, <1>3, <1>4 DEF FilesAreKept

\* While there is a response to receive, this tells where it goes.
LEMMA WhereTo ==
    ASSUME Inv, pc \in {"read", "close"}
    PROVE  IF call.response.kind = "SaveResponseToFile"
           THEN params.outputFilePath = call.response.file_name /\ params.outputFilePath # ""
           ELSE params.outputFilePath = ""
BY Data DEF Inv, Given, Ended

LEMMA ReadThrowsInv ==
    ASSUME Inv, ReadThrows
    PROVE  Inv'
<1>1. pc \in {"read", "close"} /\ GoFails
    BY DEF ReadThrows
<1>2. CASE call.response.kind = "SaveResponseToFile"
    <2>1. \E n \in 0..written : files' = [files EXCEPT ![call.response.file_name] = Prefix(n)]
        BY <1>1, <1>2, WhereTo DEF ReadThrows
    <2>2. UNCHANGED <<call, answer, arrived>>
        BY <1>1 DEF GoFails
    <2>. QED  BY <1>1, <1>2, <2>1, <2>2, FileKept, FailsPreserves
<1>3. CASE call.response.kind # "SaveResponseToFile"
    <2>1. UNCHANGED files
        BY <1>1, <1>3, WhereTo DEF ReadThrows
    <2>. QED  BY <1>1, <2>1, FailsQuietly
<1>. QED
    BY <1>2, <1>3

LEMMA ClosesInv ==
    ASSUME Inv, Closes
    PROVE  Inv'
<1>1. /\ pc = "close" /\ pc' = "ParseOutput" /\ written \in Nat
      /\ UNCHANGED <<platform, call, answer, arrived, bytesExpected, written, output>>
    BY Counts DEF Inv, Progress, Closes
<1>2. answer \in Answers /\ answer.code = 200 /\ Prefix(written) = Body(answer)
    BY <1>1 DEF Inv, Progress, Complete
<1>3. CASE call.response.kind = "SaveResponseToFile"
    <2>1. files' = [files EXCEPT ![call.response.file_name] = Prefix(written)] /\ UNCHANGED params
        BY <1>1, <1>3, WhereTo DEF Closes
    <2>2. files' \in [DOMAIN Files -> Contents \union {Empty, NoFile}] /\ FilesAreKept'
        <3>1. written \in 0..written
            BY <1>1
        <3>. QED  BY <1>1, <1>3, <2>1, <3>1, FileKept
    <2>3. files'[call.response.file_name] = Body(answer)
        BY <1>2, <1>3, <2>1, Data DEF Inv, TypeOK
    <2>4. TypeOK'
        BY <1>1, <2>1, <2>2 DEF Inv, TypeOK
    <2>. QED
        BY <1>1, <1>2, <1>3, <2>1, <2>2, <2>3, <2>4
           DEF Inv, Given, Progress, Reading, Complete, Ended
<1>4. CASE call.response.kind # "SaveResponseToFile"
    <2>1. params' = [params EXCEPT !.data = Prefix(written)] /\ UNCHANGED files
        BY <1>1, <1>4, WhereTo DEF Closes
    <2>2. /\ params'.data = Body(answer) /\ params'.httpResponseCode = params.httpResponseCode
          /\ params'.outputFilePath = params.outputFilePath
        BY <1>2, <2>1 DEF Inv, Given
    <2>3. TypeOK' /\ FilesAreKept'
        BY <1>1, <1>2, <2>1, <2>2, APrefix DEF Inv, TypeOK, FilesAreKept
    <2>4. Given' /\ Progress'
        BY <1>1, <1>2, <2>1, <2>2 DEF Inv, Given, Progress, Ended
    <2>. QED
        BY <1>1, <1>2, <1>4, <2>2, <2>3, <2>4 DEF Inv, Reading, Complete
<1>. QED
    BY <1>3, <1>4

LEMMA FinishInv ==
    ASSUME Inv, Finish
    PROVE  Inv'
<1>1. CASE ParseOutput
    <2>1. pc' = "returned"
          /\ UNCHANGED <<platform, call, files, params, answer, arrived, bytesExpected, written>>
        BY <1>1 DEF ParseOutput
    <2>2. TypeOK' /\ FilesAreKept'
        BY <2>1 DEF Inv, TypeOK, FilesAreKept, Ended
    <2>. QED  BY <2>1, <2>2 DEF Inv, Given, Progress, Reading, Complete, Ended
<1>2. CASE ParseOutputThrows
    BY <1>2, FailsQuietly DEF ParseOutputThrows
<1>. QED
    BY <1>1, <1>2 DEF Finish

LEMMA NextInv == Inv /\ [Next]_vars => Inv'
<1> SUFFICES ASSUME Inv, [Next]_vars PROVE Inv'
    OBVIOUS
<1>1. CASE HeadThrows
    BY <1>1, FailsQuietly DEF HeadThrows
<1>2. CASE UNCHANGED vars
    <2>1. UNCHANGED <<platform, call, pc, files, params, answer, arrived, bytesExpected, written>>
        BY <1>2 DEF vars
    <2>2. TypeOK' /\ FilesAreKept'
        BY <2>1 DEF Inv, TypeOK, FilesAreKept
    <2>3. Given' /\ Progress' /\ Reading' /\ Complete'
        BY <2>1 DEF Inv, Given, Progress, Reading, Complete
    <2>. QED  BY <2>2, <2>3 DEF Inv
<1>. QED
    BY <1>1, <1>2, SendInv, HeadInv, ReadInv, EndInv, ReadThrowsInv, ClosesInv, FinishInv
       DEF Next, Receive

-----------------------------------------------------------------------------
(* The refinement                                                            *)

LEMMA InitMaps == Init => HTTP!Init
BY DEF Init, HTTP!Init, Ended

\* What leaves the answer alone and does not end the call is invisible.
LEMMA Stutters ==
    ASSUME UNCHANGED <<call, answer>>, pc \notin Ended, pc' \notin Ended
    PROVE  UNCHANGED HTTP!vars
BY DEF HTTP!vars, Ended

LEMMA Fails ==
    ASSUME GoFails, pc \notin Ended
    PROVE  HTTP!Fail
BY DEF HTTP!Fail, GoFails, Ended

\* The result is in `data` or in the file, and is what the answer delivers.
LEMMA ParseOutputMaps ==
    ASSUME Inv, ParseOutput
    PROVE  HTTP!Return
<1>1. /\ pc = "ParseOutput" /\ pc' = "returned" /\ UNCHANGED <<call, files, answer>>
      /\ output' = IF call.response.kind = "KeepResponseInMemory"
                   THEN [NoOutput EXCEPT !.code = params.httpResponseCode, !.body = server_response]
                   ELSE [NoOutput EXCEPT !.code = params.httpResponseCode,
                                         !.body_file_name = call.response.file_name]
    BY DEF ParseOutput
<1>2. answer # NoAnswer /\ params.httpResponseCode = answer.code
    BY <1>1, AnAnswer DEF Inv, Progress
<1>3. call.request.body \in Contents \union {Empty} /\ call.request.body # null
    BY Data, DataIsNotNull DEF Inv
<1>4. CASE call.response.kind = "KeepResponseInMemory"
    <2>1. output'.code = answer.code /\ output'.body = server_response
        BY <1>1, <1>2, <1>4 DEF NoOutput
    <2>2. CASE answer.code = 200
        <3>1. params.data = Body(answer)
            BY <1>1, <1>4, <2>2 DEF Inv, Complete
        <3>2. Body(answer) # null
            <4>1. \A n : Prefix(n) # null
                BY DEF Prefix, Empty, null
            <4>. QED  BY <4>1 DEF Body
        <3>3. [code |-> answer.code, body |-> output'.body] \in Delivered(call, answer)
            BY <2>1, <2>2, <3>1, <3>2 DEF server_response, Delivered
        <3>. QED  BY <1>1, <1>2, <1>4, <2>1, <3>3 DEF HTTP!Return, Ended
    <2>3. CASE answer.code # 200
        <3>1. params.data = IF call.request.kind = "POST" /\ call.request.body # Empty
                            THEN call.request.body ELSE null
            BY <1>1, <2>3 DEF Inv, Given
        <3>2. server_response = IF call.request.kind = "POST" THEN call.request.body ELSE Empty
            BY <1>3, <3>1 DEF server_response
        <3>3. [code |-> answer.code, body |-> output'.body] \in Delivered(call, answer)
            BY <1>4, <2>1, <2>3, <3>2 DEF Delivered
        <3>. QED  BY <1>1, <1>2, <1>4, <2>1, <3>3 DEF HTTP!Return, Ended
    <2>. QED  BY <2>2, <2>3
<1>5. CASE call.response.kind = "SaveResponseToFile"
    <2>1. output'.code = answer.code /\ output'.body_file_name = call.response.file_name
        BY <1>1, <1>2, <1>5 DEF NoOutput
    <2>2. files[call.response.file_name] = IF answer.code = 200 THEN Body(answer)
                                           ELSE Files[call.response.file_name]
        BY <1>1, <1>5, Data DEF Inv, Complete, FilesAreKept
    <2>3. [code |-> answer.code, body |-> files'[output'.body_file_name]] \in Delivered(call, answer)
        BY <1>1, <1>5, <2>1, <2>2 DEF Delivered
    <2>. QED  BY <1>1, <1>2, <1>5, <2>1, <2>3 DEF HTTP!Return, Ended
<1>. QED
    BY <1>4, <1>5, Data DEF Inv

LEMMA NextMaps == Inv /\ [Next]_vars => [HTTP!Next]_HTTP!vars
<1> SUFFICES ASSUME Inv, [Next]_vars PROVE [HTTP!Next]_HTTP!vars
    OBVIOUS
<1>1. CASE Send
    <2>1. CASE GoThrows \/ SendThrows
        BY <2>1, Fails DEF GoThrows, SendThrows, Ended, HTTP!Next
    <2>2. CASE Go \/ SendsGET \/ SendsPOST
        <3>1. UNCHANGED <<call, answer>> /\ pc \notin Ended /\ pc' \notin Ended
            BY <2>2 DEF Go, SendsGET, SendsPOST, Ended
        <3>. QED  BY <3>1, Stutters
    <2>. QED  BY <1>1, <2>1, <2>2 DEF Send
<1>2. ASSUME NEW a \in Answers, ReceivesHead(a) PROVE HTTP!Receive
    BY <1>2 DEF ReceivesHead, HTTP!Receive, Ended
<1>3. CASE HeadThrows \/ ReadThrows
    <2>1. GoFails /\ pc \notin Ended
        BY <1>3 DEF HeadThrows, ReadThrows, Ended
    <2>. QED  BY <2>1, Fails DEF HTTP!Next
<1>4. CASE (\E n \in 1..BufferSize : ReadsPiece(n)) \/ EndOfStream \/ Closes
    <2>1. UNCHANGED <<call, answer>> /\ pc \notin Ended /\ pc' \notin Ended
        BY <1>4 DEF ReadsPiece, EndOfStream, Closes, Ended
    <2>. QED  BY <2>1, Stutters
<1>5. CASE Finish
    <2>1. CASE ParseOutput
        BY <2>1, ParseOutputMaps DEF HTTP!Next
    <2>2. CASE ParseOutputThrows
        BY <2>2, Fails DEF ParseOutputThrows, Ended, HTTP!Next
    <2>. QED  BY <1>5, <2>1, <2>2 DEF Finish
<1>6. CASE UNCHANGED vars
    BY <1>6 DEF vars, HTTP!vars
<1>. QED
    BY <1>1, <1>2, <1>3, <1>4, <1>5, <1>6 DEF Next, Receive, HTTP!Next

-----------------------------------------------------------------------------
(* Theorems                                                                  *)

\* The inductive invariant: run's loop keeps count of what is missing.
THEOREM Invariance == Spec => []Inv
BY InitInv, NextInv, PTL DEF Spec

\* The type invariant; `bytesExpected` never becomes a negative length.
THEOREM TypeCorrect == Spec => []TypeOK
<1>1. Inv => TypeOK
    BY DEF Inv
<1>. QED
    BY <1>1, Invariance, PTL

\* No call, not even one that fails, touches a file unless the answer is 200 and it is the
\* file the caller has named.
THEOREM Kept == Spec => []FilesAreKept
<1>1. Inv => FilesAreKept
    BY DEF Inv
<1>. QED
    BY <1>1, Invariance, PTL

\* A call through Java does what HTTP() promises: it ends at most once, with the body of the answer
\* however it has been cut into pieces, or fails.
THEOREM Refinement == Spec => ImplementsHTTPCall
BY InitMaps, NextMaps, Invariance, PTL DEF Spec, ImplementsHTTPCall, HTTP!Spec

=============================================================================
