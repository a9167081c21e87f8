-------------------------- MODULE HTTPClientPOSIX ---------------------------
(***************************************************************************)
(* A call of HTTP(request, response) on POSIX: HTTPClientImpl::operator()   *)
(* (bricks/net/api/types.h) and what it calls, PrepareInput, Go and          *)
(* ParseOutput (bricks/net/api/impl/posix.h), with the file utilities        *)
(* (bricks/file/file.h).  The servers on the way may answer anything.        *)
(* How one request and its answer get across is HTTPExchange.                *)
(***************************************************************************)
EXTENDS URLParser

CONSTANTS
    Calls,       \* the calls of HTTP() considered
    AnswerSets,  \* sets of answers; the servers of a behaviour give those of one set
    Files,       \* for each file name, what the file contains at first
    NoFile,      \* what a file contains that does not exist
    DiskErrors   \* what may fail: a subset of {"read", "open", "write", "flush"}

\* A request [kind, url, body, file_name], and where the response should go.
Requests == [kind : {"GET", "POST", "POSTFromFile"}, url : URLs, body : STRING, file_name : STRING]
Responses == [kind : {"KeepResponseInMemory", "SaveResponseToFile"}, file_name : STRING]

\* What a server answers.  A body that is not there is read as "".
Answers == [code : Nat, location : URLs, body : STRING]

ASSUME ClientAssumption ==
    /\ \A c \in Calls : c.request \in Requests /\ c.response \in Responses
    /\ \A s \in AnswerSets : s \subseteq Answers /\ s # {}
    /\ Files \in [DOMAIN Files -> STRING] /\ {NoFile, ""} \subseteq STRING
    /\ \A c \in Calls :
         /\ c.request.kind = "POSTFromFile" => c.request.file_name \in DOMAIN Files
         /\ c.response.kind = "SaveResponseToFile" => c.response.file_name \in DOMAIN Files
    /\ DiskErrors \subseteq {"read", "open", "write", "flush"}

VARIABLES
    call,       \* the call of HTTP()
    answers,    \* what the servers may answer
    pc,         \* where the call is, or how it ended
    files,      \* the contents of the files
    client,     \* the request_* and response_* members of HTTPClientPOSIX
    parsed_url, all_urls,  \* the locals of Go
    message,    \* message_: the last answer received
    requested,  \* the URLs requests have been sent to
    output      \* what HTTP() returned

vars == <<call, answers, pc, files, client, parsed_url, all_urls, message, requested, output>>

Nothing == [code |-> -1, location |-> <<>>, body |-> ""]
NoOutput == [url |-> <<>>, code |-> 0, url_after_redirects |-> <<>>, body |-> "", body_file_name |-> ""]

\* HTTP() returns, or throws one of these.  HTTPRedirectLoopException is thrown as a pointer.
Thrown == {"HTTPClientException", "NetworkException", "HTTPRedirectLoopException *", "FileException"}
Ended == {"returned"} \union Thrown

TypeOK ==
    /\ call \in Calls
    /\ answers \in AnswerSets
    /\ pc \in {"PrepareInput", "loop", "sent", "ParseOutput"} \union Ended
    /\ files \in [DOMAIN Files -> STRING]
    /\ client.request_url_ \in URLs /\ client.response_url_after_redirects_ \in URLs
    /\ parsed_url \in ParsedURLs
    /\ all_urls \subseteq URLs
    /\ message \in answers \union {Nothing}
    /\ requested \subseteq ParsedURLs

-----------------------------------------------------------------------------
(* PrepareInput, and Go up to its loop.                                      *)

\* The request's method and contents; the URL it starts at.
Prepared(method, contents) ==
    /\ client' = [request_method_ |-> method, request_url_ |-> call.request.url,
                  request_body_contents_ |-> contents,
                  response_code_ |-> -1, response_url_after_redirects_ |-> call.request.url]
    /\ parsed_url' = Parse(call.request.url, NoPrevious)
    /\ pc' = "loop"
    /\ UNCHANGED <<call, answers, files, all_urls, message, requested, output>>

PrepareInput ==
    /\ pc = "PrepareInput"
    /\ \/ call.request.kind = "GET" /\ Prepared("GET", "")
       \/ call.request.kind = "POST" /\ Prepared("POST", call.request.body)
       \/ /\ call.request.kind = "POSTFromFile"
          /\ files[call.request.file_name] # NoFile
          /\ Prepared("POST", files[call.request.file_name])

\* ReadFileAsString throws FileException, which becomes HTTPClientException.
PrepareInputThrows ==
    /\ pc = "PrepareInput" /\ call.request.kind = "POSTFromFile"
    /\ files[call.request.file_name] = NoFile \/ "read" \in DiskErrors
    /\ pc' = "HTTPClientException"
    /\ UNCHANGED <<call, answers, files, client, parsed_url, all_urls, message, requested, output>>

-----------------------------------------------------------------------------
(* The loop of Go.                                                           *)

IsVisited == ComposeURL(parsed_url) \in all_urls
VisitedMutant == all_urls
Visited == all_urls \union {ComposeURL(parsed_url)}

SendRequest ==
    /\ pc = "loop" /\ ~IsVisited
    /\ all_urls' = Visited
    /\ requested' = requested \union {parsed_url}
    /\ pc' = "sent"
    /\ UNCHANGED <<call, answers, files, client, parsed_url, message, output>>

\* Resolving, connecting or writing fails.
SendRequestThrows ==
    /\ pc = "loop" /\ ~IsVisited
    /\ all_urls' = Visited
    /\ pc' = "NetworkException"
    /\ UNCHANGED <<call, answers, files, client, parsed_url, message, requested, output>>

RedirectLoop ==
    /\ pc = "loop" /\ IsVisited
    /\ pc' = "HTTPRedirectLoopException *"
    /\ UNCHANGED <<call, answers, files, client, parsed_url, all_urls, message, requested, output>>

IsRedirect(a) == a.code \in 300..399 /\ a.location # <<>>

RedirectedMutant(a) == ComposeURL(parsed_url)
Redirected(a) == ComposeURL(Parse(a.location, parsed_url))

ReceiveAnswer(a) ==
    /\ pc = "sent"
    /\ message' = a
    /\ IF IsRedirect(a)
       THEN /\ parsed_url' = Parse(a.location, parsed_url)
            /\ client' = [client EXCEPT !.response_code_ = a.code,
                                        !.response_url_after_redirects_ = Redirected(a)]
            /\ pc' = "loop"
       ELSE /\ client' = [client EXCEPT !.response_code_ = a.code]
            /\ pc' = "ParseOutput"
            /\ UNCHANGED parsed_url
    /\ UNCHANGED <<call, answers, files, all_urls, requested, output>>

\* The constructor of the message throws: the connection is lost or closed too early.
ReceiveAnswerThrows ==
    /\ pc = "sent"
    /\ pc' = "NetworkException"
    /\ UNCHANGED <<call, answers, files, client, parsed_url, all_urls, message, requested, output>>

-----------------------------------------------------------------------------
(* ParseOutput and WriteStringToFile.                                        *)

\* What ParseOutput compares first.  It would throw HTTPClientException; that it does not, as only
\* PrepareInput assigns request_url_, is a part of what EndsUnlessLedToNewURLs says: no call stops here.
IsForTheRequest == call.request.url = client.request_url_

\* The response but for its body.
Output == [url |-> call.request.url, code |-> client.response_code_,
           url_after_redirects |-> client.response_url_after_redirects_,
           body |-> "", body_file_name |-> ""]

ParseOutput ==
    /\ pc = "ParseOutput" /\ IsForTheRequest /\ call.response.kind = "KeepResponseInMemory"
    /\ output' = [Output EXCEPT !.body = message.body]
    /\ pc' = "returned"
    /\ UNCHANGED <<call, answers, files, client, parsed_url, all_urls, message, requested>>

\* The file holds `contents`, and ParseOutput returns.
Saves(contents) ==
    /\ pc = "ParseOutput" /\ IsForTheRequest /\ call.response.kind = "SaveResponseToFile"
    /\ files' = [files EXCEPT ![call.response.file_name] = contents]
    /\ output' = [Output EXCEPT !.body_file_name = call.response.file_name]
    /\ pc' = "returned"
    /\ UNCHANGED <<call, answers, client, parsed_url, all_urls, message, requested>>

ContentsMutant == client.request_body_contents_
Contents == message.body

ParseOutputToFile == Saves(Contents)

\* What is left in the stream's buffer cannot be written when its destructor flushes it:
\* a destructor does not throw.
FlushFails ==
    /\ "flush" \in DiskErrors
    /\ Saves("")

\* The file cannot be opened, or is truncated and then cannot be written.
ParseOutputThrows ==
    /\ pc = "ParseOutput" /\ IsForTheRequest /\ call.response.kind = "SaveResponseToFile"
    /\ \/ "open" \in DiskErrors /\ UNCHANGED files
       \/ "write" \in DiskErrors /\ files' = [files EXCEPT ![call.response.file_name] = ""]
    /\ pc' = "FileException"
    /\ UNCHANGED <<call, answers, client, parsed_url, all_urls, message, requested, output>>

-----------------------------------------------------------------------------
Init ==
    /\ call \in Calls
    /\ answers \in AnswerSets
    /\ pc = "PrepareInput"
    /\ files = Files
    /\ client = [request_method_ |-> "", request_url_ |-> <<>>, request_body_contents_ |-> "",
                 response_code_ |-> -1, response_url_after_redirects_ |-> <<>>]
    /\ parsed_url = NoPrevious
    /\ all_urls = {}
    /\ message = Nothing
    /\ requested = {}
    /\ output = NoOutput

Prepare == PrepareInput \/ PrepareInputThrows
Send == SendRequest \/ SendRequestThrows \/ RedirectLoop
Receive == (\E a \in answers : ReceiveAnswer(a)) \/ ReceiveAnswerThrows
Finish == ParseOutput \/ ParseOutputToFile \/ FlushFails \/ ParseOutputThrows

Next == Prepare \/ Send \/ Receive \/ Finish

\* The calling thread keeps running, and every request is answered or fails.
Spec == Init /\ [][Next]_vars /\ WF_vars(Next)

-----------------------------------------------------------------------------
(* Properties *)

\* What stops Go is the very protocol, host, port and path that come next having been
\* requested before, no more and no less, although what the code compares is the text
\* ComposeURL makes of them: no URL is requested twice, and no other one is refused.
RedirectLoopIsReal ==
    /\ pc = "loop" => (IsVisited <=> parsed_url \in requested)
    /\ pc = "HTTPRedirectLoopException *" => parsed_url \in requested

\* `url_after_redirects`, parsed on its own, leads to where the last answer came from,
\* although the redirects had omitted fields.
ResponseIsFromReportedURL ==
    pc = "returned" =>
        /\ parsed_url \in requested
        /\ Parse(output.url_after_redirects, NoPrevious) = parsed_url

\* types.h says of `body_file_name`: "The file name into which the returned HTTP body has
\* been saved."
SavedBodyIsInTheFile ==
    pc = "returned" /\ call.response.kind = "SaveResponseToFile"
        => files[output.body_file_name] = message.body

\* What a call delivers of an answer: its code and its body, as the caller or the file has
\* it.  With a disk that may be full the file may have nothing of the body instead; but
\* neither what it had before nor what was sent from it.
Delivered(c, a) ==
    {[code |-> a.code, body |-> b] :
        b \in {a.body} \union (IF c.response.kind = "SaveResponseToFile" /\ "flush" \in DiskErrors
                              THEN {""} ELSE {})}

NoResult == [code |-> -1, body |-> ""]
HTTP == INSTANCE HTTPCall WITH
    NoAnswer <- Nothing,
    outcome <- IF pc = "returned" THEN "returned" ELSE IF pc \in Thrown THEN "failed" ELSE "pending",
    answer <- message,
    result <- IF pc # "returned" THEN NoResult
              ELSE [code |-> output.code,
                    body |-> IF call.response.kind = "KeepResponseInMemory" THEN output.body
                             ELSE files[output.body_file_name]]

\* However often it is redirected and whatever fails, the client does what HTTP() promises:
\* it ends at most once, and returns nothing but the last answer, whatever the earlier ones were.
ImplementsHTTPCall == HTTP!Spec

\* A redirect to a path stays with the protocol, the host and the port that answered.
IsPath(location) == location # <<>> /\ location[1] = "/"
StaysOnServer ==
    /\ parsed_url'.protocol = parsed_url.protocol
    /\ parsed_url'.host = parsed_url.host /\ parsed_url'.port = parsed_url.port
Follows == pc = "sent" /\ pc' = "loop"

\* If no "://" occurs in the path or its query:
PlainPathStaysOnServer ==
    [][Follows /\ IsPath(message'.location) /\ Separators(message'.location) = {}
         => StaysOnServer]_vars

\* url.h:21: "previous URL can be provided to properly handle redirect URLs with omitted
\* fields."  Protocol, host and port are omitted from any location that begins with "/".
AnyPathStaysOnServer ==
    [][Follows /\ IsPath(message'.location) => StaysOnServer]_vars

\* Go follows redirects without a limit: all that ends a chain of them is a URL that has been
\* requested before.  So HTTP() returns or throws, unless servers lead it for ever to URLs that it
\* has not requested yet; it does not go round among those it has.
EndsUnlessLedToNewURLs ==
    <>(pc \in Ended) \/ []<><<requested' # requested>>_vars

=============================================================================
