---------------------------- MODULE JavaTransport ----------------------------
(***************************************************************************)
(* A call of HTTP(request, response) through Java:                          *)
(* HTTPClientPlatformWrapper (bricks/net/api/impl/java.h), which hands a     *)
(* Params object to HttpTransport.run (HttpTransport.java) and finds the     *)
(* response in the same object.  The virtual machine and HttpURLConnection,  *)
(* which follows redirects on its own, are modelled by what run sees of them.*)
(***************************************************************************)
EXTENDS Integers

CONSTANTS
    Calls,      \* the calls of HTTP() considered
    Answers,    \* the last answer of the servers: [code, length, gzip, stream]
    Files,      \* for each file name, what the file contains at first
    NoFile,     \* what a file contains that does not exist
    BufferSize  \* STREAM_BUFFER_SIZE

\* `bytes` bytes of a request's data, of a file or of an answer; and what null stands for.
Contents == [of : {"request", "file", "answer"}, bytes : Nat \ {0}]
Empty == [of |-> "nothing", bytes |-> 0]
null == [of |-> "null", bytes |-> 0]

\* The file name "" and an empty content type are what std::string() is.
Requests == [kind : {"GET", "POST", "POSTFromFile"}, body : Contents \union {Empty},
             file_name : DOMAIN Files \union {""}, content_type : BOOLEAN]
Responses == [kind : {"KeepResponseInMemory", "SaveResponseToFile"},
              file_name : DOMAIN Files \union {""}]

ASSUME JavaAssumption ==
    /\ Calls \subseteq [request : Requests, response : Responses]
    /\ \A c \in Calls : c.response.kind = "SaveResponseToFile" => c.response.file_name # ""
    /\ "" \notin DOMAIN Files
    /\ Answers \subseteq [code : Nat \union {-1}, length : Nat \union {-1}, gzip : BOOLEAN, stream : Nat]
    /\ Files \in [DOMAIN Files -> Contents \union {Empty, NoFile}]
    /\ BufferSize \in Nat \ {0}

VARIABLES
    platform,  \* "Android" or "Java": whether ANDROID is defined
    call,      \* the call of HTTP()
    pc,        \* where it is, or how it ended
    files,     \* the contents of the files
    params,    \* the fields of Params that matter: [data, inputFilePath, outputFilePath, ...]
    answer,    \* the answer, once its head has been received
    arrived,   \* how many bytes of its body read() has returned
    bytesExpected, \* the local of run
    written,   \* how many bytes have been written to ostream
    output     \* what HTTP() returned

vars == <<platform, call, pc, files, params, answer, arrived, bytesExpected, written, output>>

NoAnswer == [code |-> -2, length |-> -1, gzip |-> FALSE, stream |-> 0]
NoOutput == [code |-> 0, body |-> Empty, body_file_name |-> ""]
NewParams == [data |-> null, inputFilePath |-> "", outputFilePath |-> "", contentType |-> FALSE,
              httpResponseCode |-> -1]

Ended == {"returned", "empty", "HTTPClientException"}

TypeOK ==
    /\ platform \in {"Android", "Java"} /\ call \in Calls
    /\ pc \in {"Go", "run", "getResponseCode", "read", "close", "ParseOutput"} \union Ended
    /\ files \in [DOMAIN Files -> Contents \union {Empty, NoFile}]
    /\ params.data \in Contents \union {null, Empty}
    /\ answer \in Answers \union {NoAnswer}
    /\ arrived \in 0..answer.stream /\ written \in 0..arrived
    /\ bytesExpected \in Nat \union {-1}

-----------------------------------------------------------------------------
(* Go, up to the call of run.                                                *)

\* An exception of Java, or a thread that cannot be attached: Go returns false.
GoFails ==
    /\ pc' = IF platform = "Android" THEN "empty" ELSE "HTTPClientException"
    /\ UNCHANGED <<platform, call, params, answer, arrived, bytesExpected, written, output>>

\* Strings that are empty are not set: the fields of Params stay null.
Go ==
    /\ pc = "Go"
    /\ params' =
         [data |-> IF call.request.kind = "POST" /\ call.request.body # Empty
                   THEN call.request.body ELSE null,
          inputFilePath |-> IF call.request.kind = "POSTFromFile"
                            THEN call.request.file_name ELSE "",
          outputFilePath |-> IF call.response.kind = "SaveResponseToFile"
                             THEN call.response.file_name ELSE "",
          contentType |-> call.request.kind # "GET" /\ call.request.content_type,
          httpResponseCode |-> -1]
    /\ pc' = "run"
    /\ UNCHANGED <<platform, call, files, answer, arrived, bytesExpected, written, output>>

GoThrows == pc = "Go" /\ GoFails /\ UNCHANGED files

-----------------------------------------------------------------------------
(* HttpTransport.run                                                         *)

\* Data is posted if there is any: a POST of nothing is a GET.
Posts == params.data # null \/ params.inputFilePath # ""

SendsGET ==
    /\ pc = "run" /\ ~Posts
    /\ pc' = "getResponseCode"
    /\ UNCHANGED <<platform, call, files, params, answer, arrived, bytesExpected, written, output>>

SendsPOST ==
    /\ pc = "run" /\ Posts /\ params.contentType
    /\ params.data = null => files[params.inputFilePath] # NoFile
    /\ pc' = "getResponseCode"
    /\ UNCHANGED <<platform, call, files, params, answer, arrived, bytesExpected, written, output>>

\* There is no content type, no such file or no connection, or the file has another length
\* than before.
SendThrows == pc = "run" /\ GoFails /\ UNCHANGED files

\* The head of the answer.  A body is only looked at if the code is HTTP_OK, and the file for
\* it is only then opened, which truncates it.
LooksAtBodyMutant(a) == TRUE
LooksAtBody(a) == a.code = 200
Expected(a) == IF a.gzip THEN -1 ELSE a.length

ReceivesHead(a) ==
    /\ pc = "getResponseCode"
    /\ answer' = a
    /\ params' = [params EXCEPT !.httpResponseCode = a.code]
    /\ IF LooksAtBody(a)
       THEN /\ pc' = "read"
            /\ bytesExpected' = Expected(a)
            /\ files' = IF params.outputFilePath # ""
                        THEN [files EXCEPT ![params.outputFilePath] = Empty] ELSE files
       ELSE /\ pc' = "ParseOutput"
            /\ UNCHANGED <<bytesExpected, files>>
    /\ UNCHANGED <<platform, call, arrived, written, output>>

\* No answer comes in time, or the file cannot be opened.
HeadThrows == pc = "getResponseCode" /\ GoFails /\ UNCHANGED files

\* read() returns any part of what has arrived that fits into the buffer.  What exceeds
\* Content-Length is not written, and ends the loop.
ExpectedAfterMutant1(n) == bytesExpected
ExpectedAfterMutant2(n) == bytesExpected - n
ExpectedAfter(n) == IF bytesExpected = -1 THEN -1 ELSE bytesExpected - n

ReadsPiece(n) ==
    /\ pc = "read" /\ n <= BufferSize /\ arrived + n <= answer.stream
    /\ arrived' = arrived + n
    /\ IF bytesExpected # -1 /\ bytesExpected < n
       THEN /\ written' = written + bytesExpected
            /\ pc' = "close"
            /\ UNCHANGED bytesExpected
       ELSE /\ written' = written + n
            /\ bytesExpected' = ExpectedAfter(n)
            /\ UNCHANGED pc
    /\ UNCHANGED <<platform, call, files, params, answer, output>>

EndOfStream ==
    /\ pc = "read" /\ arrived = answer.stream
    /\ pc' = "close"
    /\ UNCHANGED <<platform, call, files, params, answer, arrived, bytesExpected, written, output>>

\* The first `n` bytes of the answer.
Prefix(n) == IF n = 0 THEN Empty ELSE [of |-> "answer", bytes |-> n]

\* The connection is lost or times out, or what is buffered cannot be written: the file keeps
\* a part of what has been written to its stream.
ReadThrows ==
    /\ pc \in {"read", "close"}
    /\ GoFails
    /\ IF params.outputFilePath = "" THEN UNCHANGED files
       ELSE \E n \in 0..written : files' = [files EXCEPT ![params.outputFilePath] = Prefix(n)]

\* The streams are closed: the file is complete, or the bytes are in p.data.
Closes ==
    /\ pc = "close"
    /\ IF params.outputFilePath = ""
       THEN params' = [params EXCEPT !.data = Prefix(written)] /\ UNCHANGED files
       ELSE /\ files' = [files EXCEPT ![params.outputFilePath] = Prefix(written)]
            /\ UNCHANGED params
    /\ pc' = "ParseOutput"
    /\ UNCHANGED <<platform, call, answer, arrived, bytesExpected, written, output>>

-----------------------------------------------------------------------------
(* The rest of Go, and ParseOutput.                                          *)

\* p.data of the response, which is that of the request if nothing has replaced it.
server_response == IF params.data = null THEN Empty ELSE params.data

ParseOutput ==
    /\ pc = "ParseOutput"
    /\ output' = IF call.response.kind = "KeepResponseInMemory"
                 THEN [NoOutput EXCEPT !.code = params.httpResponseCode, !.body = server_response]
                 ELSE [NoOutput EXCEPT !.code = params.httpResponseCode,
                                       !.body_file_name = call.response.file_name]
    /\ pc' = "returned"
    /\ UNCHANGED <<platform, call, files, params, answer, arrived, bytesExpected, written>>

\* A JNI function fails after run has returned.
ParseOutputThrows == pc = "ParseOutput" /\ GoFails /\ UNCHANGED files

-----------------------------------------------------------------------------
Init ==
    /\ platform \in {"Android", "Java"} /\ call \in Calls
    /\ pc = "Go"
    /\ files = Files
    /\ params = NewParams
    /\ answer = NoAnswer
    /\ arrived = 0 /\ bytesExpected = -1 /\ written = 0
    /\ output = NoOutput

Send == Go \/ GoThrows \/ SendsGET \/ SendsPOST \/ SendThrows
Receive ==
    \/ (\E a \in Answers : ReceivesHead(a)) \/ HeadThrows
    \/ (\E n \in 1..BufferSize : ReadsPiece(n)) \/ EndOfStream \/ ReadThrows \/ Closes
Finish == ParseOutput \/ ParseOutputThrows

Next == Send \/ Receive \/ Finish

Spec == Init /\ [][Next]_vars

-----------------------------------------------------------------------------
(* Properties *)

\* The part of an answer's body that is the body: garbage may follow Content-Length bytes, and
\* a length says nothing about a body that is unzipped.
Body(a) == Prefix(IF a.gzip \/ a.length = -1 \/ a.stream < a.length THEN a.stream ELSE a.length)

\* What a call delivers of an answer: its body if the code is 200, and else what is in the
\* file already, or the data that was posted.
Delivered(c, a) ==
    {[code |-> a.code,
      body |-> IF a.code = 200 THEN Body(a)
               ELSE IF c.response.kind = "SaveResponseToFile" THEN Files[c.response.file_name]
               ELSE IF c.request.kind = "POST" THEN c.request.body ELSE Empty]}

NoResult == [code |-> -2, body |-> Empty]
HTTP == INSTANCE HTTPCall WITH
    outcome <- IF pc = "returned" THEN "returned" ELSE IF pc \in Ended THEN "failed" ELSE "pending",
    result <- IF pc # "returned" THEN NoResult
              ELSE [code |-> output.code,
                    body |-> IF call.response.kind = "KeepResponseInMemory" THEN output.body
                             ELSE files[output.body_file_name]]

\* In whatever pieces a body arrives, and wherever its stream ends or breaks off, a call
\* returns exactly the bytes HTTP() promises, in memory or in the file, or fails.
ImplementsHTTPCall == HTTP!Spec

\* A file is only touched if the server answers 200, and only the one that the caller has
\* named, even if the call fails: an error page does not cost the caller the file there was.
FilesAreKept ==
    \A f \in DOMAIN Files : files[f] # Files[f] =>
        /\ answer.code = 200
        /\ call.response.kind = "SaveResponseToFile" /\ f = call.response.file_name
        /\ \E n \in 0..arrived : files[f] = Prefix(n)

\* types.h:112 says of the body: "Returned HTTP body, saved as an in-memory buffer".
BodyIsReturned ==
    pc = "returned" /\ call.response.kind = "KeepResponseInMemory" =>
        output.body = Empty \/ output.body.of = "answer"

=============================================================================
