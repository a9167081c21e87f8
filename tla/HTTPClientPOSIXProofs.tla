------------------------ MODULE HTTPClientPOSIXProofs ------------------------
(***************************************************************************)
(* The POSIX client implements HTTPCall, for any calls, answers, files and  *)
(* errors: what the URLs are plays no role in it, only which answer is the  *)
(* last, what the caller gets of it, and when.  Then, for any URLs: parsing *)
(* undoes composing, so that the texts that Go compares stand for the URLs, *)
(* and a path is looked up on the server that sent it.  Last, a call ends   *)
(* if the servers redirect it to finitely many locations.                    *)
(***************************************************************************)
EXTENDS HTTPClientPOSIX, SequenceTheorems, FiniteSetTheorems,
        WellFoundedInduction, TLAPS

\* `client` has the code of the last answer when the loop of Go is left, and keeps its shape.
ClientInv ==
    /\ client = [request_method_ |-> client.request_method_, request_url_ |-> client.request_url_,
                 request_body_contents_ |-> client.request_body_contents_,
                 response_code_ |-> client.response_code_,
                 response_url_after_redirects_ |-> client.response_url_after_redirects_]
    /\ pc = "ParseOutput" => message # Nothing /\ client.response_code_ = message.code

\* Types, as far as they do not depend on how URLs are parsed.
DataInv ==
    /\ call \in Calls /\ answers \in AnswerSets
    /\ pc \in {"PrepareInput", "loop", "sent", "ParseOutput"} \union Ended
    /\ files = [f \in DOMAIN Files |-> files[f]]
    /\ message \in answers \union {Nothing}

Inv == DataInv /\ ClientInv

\* The assumptions about a call and the answers to it.
LEMMA Data ==
    ASSUME DataInv
    PROVE  /\ call.response.kind \in {"KeepResponseInMemory", "SaveResponseToFile"}
           /\ call.response.kind = "SaveResponseToFile" => call.response.file_name \in DOMAIN Files
           /\ \A a \in answers : a \in Answers /\ a # Nothing
<1>1. /\ call.response.kind \in {"KeepResponseInMemory", "SaveResponseToFile"}
      /\ call.response.kind = "SaveResponseToFile" => call.response.file_name \in DOMAIN Files
    BY ClientAssumption DEF DataInv, Responses
<1>2. ASSUME NEW a \in answers PROVE a \in Answers /\ a # Nothing
    <2>1. a \in Answers
        BY ClientAssumption DEF DataInv
    <2>2. a.code \in Nat
        BY <2>1 DEF Answers
    <2>3. Nothing.code = -1
        BY DEF Nothing
    <2>. QED  BY <2>1, <2>2, <2>3
<1>. QED
    BY <1>1, <1>2

LEMMA InitInv == Init => Inv
BY ClientAssumption DEF Init, Inv, DataInv, ClientInv

\* The file of a response can be anything that is written to it.
LEMMA SavesPreserves ==
    ASSUME Inv, NEW contents, Saves(contents)
    PROVE  Inv'
BY DEF Inv, DataInv, ClientInv, Saves, Ended

LEMMA NextInv == Inv /\ [Next]_vars => Inv'
<1> SUFFICES ASSUME Inv, [Next]_vars PROVE Inv'
    OBVIOUS
<1>1. CASE Prepare
    <2>1. CASE PrepareInput
        BY <2>1 DEF PrepareInput, Prepared, Inv, DataInv, ClientInv
    <2>2. CASE PrepareInputThrows
        BY <2>2 DEF PrepareInputThrows, Inv, DataInv, ClientInv, Ended, Thrown
    <2>. QED  BY <1>1, <2>1, <2>2 DEF Prepare
<1>2. CASE Send
    BY <1>2 DEF Send, SendRequest, SendRequestThrows, RedirectLoop, Inv, DataInv, ClientInv, Ended, Thrown
<1>3. ASSUME NEW a \in answers, ReceiveAnswer(a) PROVE Inv'
    <2>1. a # Nothing /\ UNCHANGED <<call, answers, files>> /\ message' = a
        BY <1>3, Data DEF Inv, ReceiveAnswer
    <2>2. CASE IsRedirect(a)
        <3>1. /\ pc' = "loop"
              /\ client' = [client EXCEPT !.response_code_ = a.code,
                                          !.response_url_after_redirects_ = Redirected(a)]
            BY <1>3, <2>2 DEF ReceiveAnswer
        <3>. HIDE DEF Redirected
        <3>. QED  BY <2>1, <3>1 DEF Inv, DataInv, ClientInv
    <2>3. CASE ~IsRedirect(a)
        <3>1. pc' = "ParseOutput" /\ client' = [client EXCEPT !.response_code_ = a.code]
            BY <1>3, <2>3 DEF ReceiveAnswer
        <3>. QED  BY <2>1, <3>1 DEF Inv, DataInv, ClientInv
    <2>. QED  BY <2>2, <2>3
<1>4. CASE ReceiveAnswerThrows
    BY <1>4 DEF ReceiveAnswerThrows, Inv, DataInv, ClientInv, Ended, Thrown
<1>5. CASE Finish
    <2>1. CASE ParseOutput
        BY <2>1 DEF ParseOutput, Inv, DataInv, ClientInv, Ended
    <2>2. CASE ParseOutputToFile
        BY <2>2, SavesPreserves DEF ParseOutputToFile
    <2>3. CASE FlushFails
        BY <2>3, SavesPreserves DEF FlushFails
    <2>4. CASE ParseOutputThrows
        <3>1. /\ pc' = "FileException" /\ UNCHANGED <<call, answers, client, message>>
              /\ files' = files \/ files' = [files EXCEPT ![call.response.file_name] = ""]
            BY <2>4 DEF ParseOutputThrows
        <3>2. files' = [f \in DOMAIN Files |-> files'[f]]
            BY <3>1 DEF Inv, DataInv
        <3>. QED  BY <3>1, <3>2 DEF Inv, DataInv, ClientInv, Ended, Thrown
    <2>. QED  BY <1>5, <2>1, <2>2, <2>3, <2>4 DEF Finish
<1>6. CASE UNCHANGED vars
    BY <1>6 DEF vars, Inv, DataInv, ClientInv
<1>. QED
    BY <1>1, <1>2, <1>3, <1>4, <1>5, <1>6 DEF Next, Receive

-----------------------------------------------------------------------------
(* The refinement                                                            *)

LEMMA InitMaps == Init => HTTP!Init
BY DEF Init, HTTP!Init, Thrown

\* A step that neither receives an answer nor ends the call is invisible.
LEMMA Stutters ==
    ASSUME Inv, UNCHANGED <<call, message>>, pc \notin Ended, pc' \notin Ended
    PROVE  UNCHANGED HTTP!vars
BY DEF HTTP!vars, Ended, Thrown

\* So is one that ends it with an exception, but for its outcome.
LEMMA Fails ==
    ASSUME Inv, UNCHANGED <<call, message>>, pc \notin Ended, pc' \in Thrown
    PROVE  HTTP!Fail
BY DEF HTTP!Fail, Ended, Thrown

\* A file that is saved is the result, if it holds the body or what is left of it.
LEMMA SavesMaps ==
    ASSUME Inv, NEW contents, Saves(contents),
           contents = message.body \/ (contents = "" /\ "flush" \in DiskErrors)
    PROVE  HTTP!Return
<1>1. /\ pc = "ParseOutput" /\ call.response.kind = "SaveResponseToFile"
      /\ files' = [files EXCEPT ![call.response.file_name] = contents]
      /\ output' = [Output EXCEPT !.body_file_name = call.response.file_name]
      /\ pc' = "returned" /\ UNCHANGED <<call, message>>
    BY DEF Saves
<1>2. message # Nothing /\ client.response_code_ = message.code
    BY <1>1 DEF Inv, ClientInv
<1>3. output'.code = message.code /\ output'.body_file_name = call.response.file_name
    BY <1>1, <1>2 DEF Output
<1>4. files'[output'.body_file_name] = contents
    BY <1>1, <1>3, Data DEF Inv, DataInv
<1>5. [code |-> message.code, body |-> contents] \in Delivered(call, message)
    BY <1>1 DEF Delivered
<1>. QED
    BY <1>1, <1>2, <1>3, <1>4, <1>5 DEF HTTP!Return, Thrown

LEMMA NextMaps == Inv /\ [Next]_vars => [HTTP!Next]_HTTP!vars
<1> SUFFICES ASSUME Inv, [Next]_vars PROVE [HTTP!Next]_HTTP!vars
    OBVIOUS
<1>1. CASE Prepare
    <2>1. CASE PrepareInput
        BY <2>1, Stutters DEF PrepareInput, Prepared, Ended, Thrown
    <2>2. CASE PrepareInputThrows
        BY <2>2, Fails DEF PrepareInputThrows, Ended, Thrown, HTTP!Next
    <2>. QED  BY <1>1, <2>1, <2>2 DEF Prepare
<1>2. CASE Send
    <2>1. CASE SendRequest
        BY <2>1, Stutters DEF SendRequest, Ended, Thrown
    <2>2. CASE SendRequestThrows \/ RedirectLoop
        BY <2>2, Fails DEF SendRequestThrows, RedirectLoop, Ended, Thrown, HTTP!Next
    <2>. QED  BY <1>2, <2>1, <2>2 DEF Send
<1>3. ASSUME NEW a \in answers, ReceiveAnswer(a) PROVE HTTP!Receive
    BY <1>3, Data DEF ReceiveAnswer, HTTP!Receive, Inv, Thrown
<1>4. CASE ReceiveAnswerThrows
    BY <1>4, Fails DEF ReceiveAnswerThrows, Ended, Thrown, HTTP!Next
<1>5. CASE Finish
    <2>1. CASE ParseOutput
        <3>1. /\ pc = "ParseOutput" /\ call.response.kind = "KeepResponseInMemory"
              /\ output' = [Output EXCEPT !.body = message.body]
              /\ pc' = "returned" /\ UNCHANGED <<call, message>>
            BY <2>1 DEF ParseOutput
        <3>2. message # Nothing /\ client.response_code_ = message.code
            BY <3>1 DEF Inv, ClientInv
        <3>3. output'.code = message.code /\ output'.body = message.body
            BY <3>1, <3>2 DEF Output
        <3>4. [code |-> message.code, body |-> message.body] \in Delivered(call, message)
            BY DEF Delivered
        <3>5. HTTP!Return
            BY <3>1, <3>2, <3>3, <3>4 DEF HTTP!Return, Thrown
        <3>. QED  BY <3>5 DEF HTTP!Next
    <2>2. CASE ParseOutputToFile
        BY <2>2, SavesMaps DEF ParseOutputToFile, Contents, HTTP!Next
    <2>3. CASE FlushFails
        BY <2>3, SavesMaps DEF FlushFails, HTTP!Next
    <2>4. CASE ParseOutputThrows
        BY <2>4, Fails DEF ParseOutputThrows, Ended, Thrown, HTTP!Next
    <2>. QED  BY <1>5, <2>1, <2>2, <2>3, <2>4 DEF Finish
<1>6. CASE UNCHANGED vars
    BY <1>6 DEF vars, HTTP!vars
<1>. QED
    BY <1>1, <1>2, <1>3, <1>4, <1>5, <1>6 DEF Next, Receive, HTTP!Next

-----------------------------------------------------------------------------
(* What std::string::find finds.                                             *)

\* A set of numbers that is not empty has a smallest one.
LEMMA SmallestMember ==
    ASSUME NEW S, S \subseteq Nat, S # {}
    PROVE  \E x \in S : \A y \in S : x <= y
<1> DEFINE Less == {ss \in Nat \X Nat : ss[1] < ss[2]}
<1>1. IsWellFoundedOn(Less, Nat)
    <2>1. OpToRel(<, Nat) = Less
        BY DEF OpToRel
    <2>. QED  BY <2>1, NatLessThanWellFounded, Zenon
<1>2. PICK x \in S : \A y \in S : <<y, x>> \notin Less
    <2>. HIDE DEF Less
    <2>. QED  BY <1>1, WFMin
<1>3. ASSUME NEW y \in S PROVE x <= y
    <2>1. <<y, x>> \notin Less /\ x \in Nat /\ y \in Nat
        BY <1>2
    <2>. QED  BY <2>1
<1>. QED
    BY <1>3

\* The position `i` is where the first `token` from `from` on is, or the end.
IsFirst(url, token, from, i) ==
    /\ i \in from..(Len(url) + 1)
    /\ i = Len(url) + 1 \/ url[i] = token
    /\ \A j \in from..(i - 1) : url[j] # token

LEMMA FindFacts ==
    ASSUME NEW url \in URLs, NEW token, NEW from \in 1..(Len(url) + 1)
    PROVE  IsFirst(url, token, from, Find(url, token, from))
<1> DEFINE found == {i \in from..(Len(url) + 1) : i = Len(url) + 1 \/ url[i] = token}
<1>1. Len(url) \in Nat
    BY DEF URLs
<1>2. found \subseteq Nat /\ Len(url) + 1 \in found
    BY <1>1
<1>3. PICK i \in found : \A j \in found : i <= j
    <2>. HIDE DEF found
    <2>. QED  BY <1>2, SmallestMember
<1>4. IsFirst(url, token, from, i)
    BY <1>1, <1>3 DEF IsFirst
<1>5. \E k \in from..(Len(url) + 1) :
        /\ k = Len(url) + 1 \/ url[k] = token
        /\ \A j \in from..(k - 1) : url[j] # token
    BY <1>4 DEF IsFirst
<1>. QED
    BY <1>5 DEF Find, IsFirst

LEMMA FindIs ==
    ASSUME NEW url \in URLs, NEW token, NEW from \in 1..(Len(url) + 1),
           NEW i, IsFirst(url, token, from, i)
    PROVE  Find(url, token, from) = i
<1>1. Len(url) \in Nat
    BY DEF URLs
<1> DEFINE k == Find(url, token, from)
<1>2. IsFirst(url, token, from, k)
    BY FindFacts
<1>. HIDE DEF k
<1>3. ~(k < i)
    BY <1>1, <1>2 DEF IsFirst
<1>4. ~(i < k)
    BY <1>1, <1>2 DEF IsFirst
<1>5. k = i
    BY <1>1, <1>2, <1>3, <1>4 DEF IsFirst
<1>. QED
    BY <1>5 DEF k

\* A separator is its three tokens.
LEMMA SeparatorFacts ==
    ASSUME NEW url \in URLs, NEW i
    PROVE  i \in Separators(url) <=>
             /\ i \in 1..(Len(url) - 2)
             /\ url[i] = ":" /\ url[i + 1] = "/" /\ url[i + 2] = "/"
<1> SUFFICES ASSUME i \in 1..(Len(url) - 2)
             PROVE  SubSeq(url, i, i + 2) = <<":", "/", "/">> <=>
                      url[i] = ":" /\ url[i + 1] = "/" /\ url[i + 2] = "/"
    BY DEF Separators
<1> DEFINE s == SubSeq(url, i, i + 2)
<1>1. /\ s \in Seq(Tokens) /\ Len(s) = 3
      /\ s[1] = url[i] /\ s[2] = url[i + 1] /\ s[3] = url[i + 2]
    <2>1. \A j \in i..(i + 2) : url[j] \in Tokens
        BY DEF URLs
    <2>2. /\ s \in Seq(Tokens) /\ Len(s) = IF i <= i + 2 THEN i + 2 - i + 1 ELSE 0
          /\ \A j \in 1..(i + 2 - i + 1) : s[j] = url[i + j - 1]
        BY <2>1, SubSeqProperties
    <2>. QED  BY <2>2
<1>2. <<":", "/", "/">> \in Seq(Tokens)
    BY DEF Tokens
<1>. HIDE DEF s
<1>3. ASSUME s[1] = ":", s[2] = "/", s[3] = "/" PROVE s = <<":", "/", "/">>
    BY <1>1, <1>2, <1>3, SeqEqual
<1>4. s = <<":", "/", "/">> <=> s[1] = ":" /\ s[2] = "/" /\ s[3] = "/"
    BY <1>3
<1>. QED
    BY <1>1, <1>4 DEF s

LEMMA FirstSeparatorIs ==
    ASSUME NEW url \in URLs, Separators(url) # {}
    PROVE  /\ FirstSeparator(url) \in Separators(url)
           /\ \A j \in Separators(url) : FirstSeparator(url) <= j
<1>1. Separators(url) \subseteq Nat
    BY DEF Separators, URLs
<1>2. \E i \in Separators(url) : \A j \in Separators(url) : i <= j
    BY <1>1, SmallestMember
<1>. QED
    BY <1>2 DEF FirstSeparator

-----------------------------------------------------------------------------
(* What parsing returns, and that composing undoes it.                       *)

\* What the parts of a URL are made of: no "://" in the protocol, no ":" or "/" in the
\* host, and a port that is a number with a word, or 0 for none.
Inheritable(u) ==
    /\ u.protocol \in URLs /\ u.protocol # <<>> /\ Separators(u.protocol) = {}
    /\ u.host \in URLs /\ \A i \in 1..Len(u.host) : u.host[i] \notin {":", "/"}
    /\ u.port \in Nat
    /\ u.port = 0 \/ \E w \in DOMAIN Numbers : Numbers[w] = u.port

\* A URL that has been parsed also has a path, and the default port if there is no other.
WellFormed(u) ==
    /\ u \in ParsedURLs /\ Inheritable(u)
    /\ u.path # <<>> /\ u.path[1] = "/"
    /\ u.port = 0 => DefaultPortForProtocol(u.protocol) = 0

LEMMA TokensAre == ":" \in Tokens /\ "/" \in Tokens /\ Words \subseteq Tokens
BY DEF Tokens

\* The part of a URL from `i` to `j`.
LEMMA Part ==
    ASSUME NEW url \in URLs, NEW i \in Int, NEW j \in Int, 1 <= i, j <= Len(url)
    PROVE  /\ SubSeq(url, i, j) \in URLs
           /\ Len(SubSeq(url, i, j)) = IF i <= j THEN j - i + 1 ELSE 0
           /\ \A k \in 1..Len(SubSeq(url, i, j)) : SubSeq(url, i, j)[k] = url[i + k - 1]
<1>1. \A k \in i..j : url[k] \in Tokens
    BY DEF URLs
<1>2. /\ SubSeq(url, i, j) \in Seq(Tokens)
      /\ Len(SubSeq(url, i, j)) = IF i <= j THEN j - i + 1 ELSE 0
      /\ \A k \in 1..(j - i + 1) : SubSeq(url, i, j)[k] = url[i + k - 1]
    BY <1>1, SubSeqProperties
<1>. QED
    BY <1>2 DEF URLs

\* A part is empty if it has no tokens, and the other way round.
LEMMA EmptyPart ==
    ASSUME NEW s \in URLs
    PROVE  s = <<>> <=> Len(s) = 0
BY DEF URLs

LEMMA HTTPIsInheritable == Inheritable(NoPrevious)
<1>1. /\ NoPrevious.protocol = <<"http">> /\ NoPrevious.host = <<>> /\ NoPrevious.port = 0
    BY DEF NoPrevious, kDefaultProtocol
<1>2. <<"http">> \in URLs /\ <<>> \in URLs /\ <<"http">> # <<>>
    BY URLAssumption, TokensAre DEF URLs
<1>3. Len(<<"http">>) = 1 /\ Len(<<>>) = 0
    OBVIOUS
<1>4. Separators(<<"http">>) = {}
    BY <1>3 DEF Separators
<1>. QED
    BY <1>1, <1>2, <1>3, <1>4 DEF Inheritable

\* Everything the constructor of URLParser returns is well-formed.
LEMMA ParseIsWellFormed ==
    ASSUME NEW url \in URLs, NEW previous, Inheritable(previous)
    PROVE  WellFormed(Parse(url, previous))
<1> DEFINE named == Separators(url) # {}
           first == FirstSeparator(url)
           past == IF named THEN first + 3 ELSE 1
           colon == Find(url, ":", past)
           slash == Find(url, "/", past)
           text == IF named THEN SubSeq(url, 1, first - 1) ELSE <<>>
           protocol == OrElse(text, OrElse(previous.protocol, kDefaultProtocol))
           host == OrElse(SubSeq(url, past, (IF colon < slash THEN colon ELSE slash) - 1),
                          previous.host)
           path == OrElse(SubSeq(url, slash, Len(url)), <<"/">>)
           port == PortOrPrevious(url, colon, slash, previous)
<1>1. Len(url) \in Nat
    BY DEF URLs
<1>2. named => first \in 1..(Len(url) - 2) /\ \A j \in Separators(url) : first <= j
    BY FirstSeparatorIs DEF Separators
<1>3. past \in 1..(Len(url) + 1)
    BY <1>1, <1>2
<1>4. IsFirst(url, ":", past, colon) /\ IsFirst(url, "/", past, slash)
    BY <1>3, FindFacts
<1>5. /\ Parse(url, previous).protocol = protocol /\ Parse(url, previous).host = host
      /\ Parse(url, previous).path = path
      /\ Parse(url, previous).port = IF port = 0 THEN DefaultPortForProtocol(protocol) ELSE port
      /\ Parse(url, previous) = [protocol |-> protocol, host |-> host, path |-> path,
                                 port |-> IF port = 0 THEN DefaultPortForProtocol(protocol)
                                          ELSE port]
    BY DEF Parse
<1>6. protocol \in URLs /\ protocol # <<>> /\ Separators(protocol) = {}
    <2>1. text = <<>> => protocol = previous.protocol
        BY DEF OrElse, Inheritable
    <2>2. text # <<>> => protocol = text
        BY DEF OrElse
    <2>3. ASSUME text # <<>> PROVE text \in URLs /\ Separators(text) = {}
        <3>1. named /\ text = SubSeq(url, 1, first - 1)
            BY <2>3
        <3>2. /\ text \in URLs /\ Len(text) = first - 1
              /\ \A k \in 1..Len(text) : text[k] = url[k]
            <4>. HIDE DEF named, text, first
            <4>1. first - 1 \in Int /\ first - 1 <= Len(url)
                BY <1>1, <1>2, <3>1
            <4>. QED  BY <1>1, <1>2, <3>1, <4>1, Part
        <3>. HIDE DEF named, text, first
        <3>3. ASSUME NEW i \in Separators(text) PROVE FALSE
            <4>1. /\ i \in 1..(Len(text) - 2)
                  /\ text[i] = ":" /\ text[i + 1] = "/" /\ text[i + 2] = "/"
                BY <3>2, <3>3, SeparatorFacts
            <4>2. i \in 1..(Len(url) - 2) /\ i + 2 <= Len(text)
                BY <1>1, <1>2, <3>1, <3>2, <4>1
            <4>3. url[i] = ":" /\ url[i + 1] = "/" /\ url[i + 2] = "/"
                <5>1. i \in 1..Len(text) /\ i + 1 \in 1..Len(text) /\ i + 2 \in 1..Len(text)
                    BY <3>2, <4>1, <4>2
                <5>. QED  BY <3>2, <4>1, <5>1
            <4>4. i \in Separators(url)
                BY <4>2, <4>3, SeparatorFacts
            <4>. QED  BY <1>2, <3>1, <3>2, <4>1, <4>4
        <3>. QED  BY <3>2, <3>3
    <2>. HIDE DEF text, protocol
    <2>. QED  BY <2>1, <2>2, <2>3 DEF Inheritable
<1>7. host \in URLs /\ \A i \in 1..Len(host) : host[i] \notin {":", "/"}
    <2> DEFINE end == (IF colon < slash THEN colon ELSE slash) - 1
               text2 == SubSeq(url, past, end)
    <2>1. end \in Int /\ past - 1 <= end /\ end <= Len(url)
        BY <1>1, <1>3, <1>4 DEF IsFirst
    <2>2. \A k \in past..end : url[k] # ":" /\ url[k] # "/"
        <3>. HIDE DEF past, colon, slash
        <3>. QED  BY <1>1, <1>3, <1>4 DEF IsFirst
    <2>3. /\ text2 \in URLs /\ Len(text2) = end - past + 1
          /\ \A k \in 1..Len(text2) : text2[k] = url[past + k - 1]
        <3>. HIDE DEF end, past
        <3>1. /\ text2 \in URLs /\ Len(text2) = IF past <= end THEN end - past + 1 ELSE 0
              /\ \A k \in 1..Len(text2) : text2[k] = url[past + k - 1]
            BY <1>1, <1>3, <2>1, Part
        <3>. QED  BY <1>3, <2>1, <3>1
    <2>4. \A i \in 1..Len(text2) : text2[i] \notin {":", "/"}
        <3>. HIDE DEF end, past, text2
        <3>. QED  BY <1>1, <1>3, <2>1, <2>2, <2>3
    <2>5. host = IF text2 = <<>> THEN previous.host ELSE text2
        BY DEF OrElse
    <2>. HIDE DEF host, text2
    <2>. QED  BY <2>3, <2>4, <2>5 DEF Inheritable
<1>8. path \in URLs /\ path # <<>> /\ path[1] = "/"
    <2> DEFINE text3 == SubSeq(url, slash, Len(url))
    <2>1. slash \in 1..(Len(url) + 1) /\ (slash <= Len(url) => url[slash] = "/")
        <3>. HIDE DEF past, slash
        <3>. QED  BY <1>1, <1>3, <1>4 DEF IsFirst
    <2>2. /\ text3 \in URLs
          /\ Len(text3) = IF slash <= Len(url) THEN Len(url) - slash + 1 ELSE 0
          /\ \A k \in 1..Len(text3) : text3[k] = url[slash + k - 1]
        <3>. HIDE DEF slash
        <3>. QED  BY <1>1, <2>1, Part
    <2>3. text3 # <<>> => text3[1] = "/"
        <3>1. text3 # <<>> => Len(text3) # 0
            BY <2>2, EmptyPart
        <3>. HIDE DEF text3, slash
        <3>. QED  BY <1>1, <2>1, <2>2, <3>1
    <2>4. path = IF text3 = <<>> THEN <<"/">> ELSE text3
        BY DEF OrElse
    <2>5. <<"/">> \in URLs /\ <<"/">> # <<>> /\ <<"/">>[1] = "/"
        BY TokensAre DEF URLs
    <2>. HIDE DEF path, text3
    <2>. QED  BY <2>2, <2>3, <2>4, <2>5
<1>9. /\ port \in Nat
      /\ port = 0 \/ \E w \in DOMAIN Numbers : Numbers[w] = port
    <2>1. /\ Atoi(url, colon) \in Nat
          /\ Atoi(url, colon) = 0 \/ \E w \in DOMAIN Numbers : Numbers[w] = Atoi(url, colon)
        <3>. HIDE DEF colon
        <3>. QED  BY URLAssumption DEF Atoi
    <2>. HIDE DEF colon, slash
    <2>. QED  BY <2>1 DEF PortOrPrevious, Inheritable
<1>10. /\ DefaultPortForProtocol(protocol) \in Nat
       /\ \/ DefaultPortForProtocol(protocol) = 0
          \/ \E w \in DOMAIN Numbers : Numbers[w] = DefaultPortForProtocol(protocol)
    <2>. HIDE DEF protocol
    <2>. QED  BY URLAssumption DEF DefaultPortForProtocol
<1>. HIDE DEF protocol, host, path, port
<1>. QED
    BY <1>5, <1>6, <1>7, <1>8, <1>9, <1>10 DEF WellFormed, Inheritable, ParsedURLs

\* The port as ComposeURL writes it.
PortText(u) ==
    IF u.port = DefaultPortForProtocol(u.protocol) THEN <<>> ELSE <<":", PortWord(u.port)>>

LEMMA PortTextFacts ==
    ASSUME NEW u, WellFormed(u)
    PROVE  /\ PortText(u) \in URLs
           /\ u.port = DefaultPortForProtocol(u.protocol) => Len(PortText(u)) = 0
           /\ u.port # DefaultPortForProtocol(u.protocol) =>
                /\ Len(PortText(u)) = 2 /\ PortText(u)[1] = ":" /\ PortText(u)[2] \notin {":", "/"}
                /\ PortText(u)[2] \in DOMAIN Numbers /\ Numbers[PortText(u)[2]] = u.port
<1>1. CASE u.port = DefaultPortForProtocol(u.protocol)
    BY <1>1 DEF PortText, URLs
<1>2. CASE u.port # DefaultPortForProtocol(u.protocol)
    <2>1. \E w \in DOMAIN Numbers : Numbers[w] = u.port
        BY <1>2 DEF WellFormed, Inheritable
    <2>2. PortWord(u.port) \in DOMAIN Numbers /\ Numbers[PortWord(u.port)] = u.port
        BY <2>1 DEF PortWord
    <2>3. PortWord(u.port) \in Tokens /\ PortWord(u.port) \notin {":", "/"}
        BY <2>2, URLAssumption DEF Tokens
    <2>4. PortText(u) = <<":", PortWord(u.port)>>
        BY <1>2 DEF PortText
    <2>. QED  BY <1>2, <2>2, <2>3, <2>4, TokensAre DEF URLs
<1>. QED
    BY <1>1, <1>2

\* `s` is at position `k + 1` of `c`.
IsAt(c, k, s) == k + Len(s) <= Len(c) /\ \A i \in 1..Len(s) : c[k + i] = s[i]

LEMMA Join ==
    ASSUME NEW s \in URLs, NEW t \in URLs
    PROVE  /\ s \o t \in URLs /\ Len(s \o t) = Len(s) + Len(t)
           /\ IsAt(s \o t, Len(s), t)
           /\ \A r \in URLs, k \in Nat : IsAt(s, k, r) => IsAt(s \o t, k, r)
<1>1. PICK j : j = s \o t
    OBVIOUS
<1>2. Len(s) \in Nat /\ Len(t) \in Nat
    BY DEF URLs
<1>3. /\ j \in URLs /\ Len(j) = Len(s) + Len(t)
      /\ \A i \in 1..(Len(s) + Len(t)) : j[i] = IF i <= Len(s) THEN s[i] ELSE t[i - Len(s)]
    BY <1>1, ConcatProperties DEF URLs
<1>4. ASSUME NEW i \in 1..Len(t) PROVE j[Len(s) + i] = t[i]
    <2>1. Len(s) + i \in 1..(Len(s) + Len(t)) /\ ~(Len(s) + i <= Len(s)) /\ Len(s) + i - Len(s) = i
        BY <1>2
    <2>. QED  BY <1>3, <2>1
<1>5. ASSUME NEW r \in URLs, NEW k \in Nat, IsAt(s, k, r) PROVE IsAt(j, k, r)
    <2>1. Len(r) \in Nat /\ k + Len(r) <= Len(s)
        BY <1>5 DEF IsAt, URLs
    <2>2. ASSUME NEW i \in 1..Len(r) PROVE j[k + i] = r[i]
        <3>1. k + i \in 1..(Len(s) + Len(t)) /\ k + i <= Len(s)
            BY <1>2, <2>1
        <3>2. s[k + i] = r[i]
            BY <1>5 DEF IsAt
        <3>. QED  BY <1>3, <3>1, <3>2
    <2>. QED  BY <1>2, <1>3, <2>1, <2>2 DEF IsAt
<1>. QED
    BY <1>1, <1>2, <1>3, <1>4, <1>5 DEF IsAt

kSeparator == <<":", "/", "/">>

\* Where the parts are in the text of a URL.
LEMMA Composed ==
    ASSUME NEW u, WellFormed(u)
    PROVE  LET c == ComposeURL(u)
               p == Len(u.protocol)
               h == p + 3 + Len(u.host)
               t == h + Len(PortText(u))
           IN  /\ c \in URLs /\ Len(c) = t + Len(u.path)
               /\ IsAt(c, 0, u.protocol) /\ IsAt(c, p, kSeparator) /\ IsAt(c, p + 3, u.host)
               /\ IsAt(c, h, PortText(u)) /\ IsAt(c, t, u.path)
<1>1. PICK pr \in URLs, ho \in URLs, po \in URLs, pa \in URLs :
        pr = u.protocol /\ ho = u.host /\ po = PortText(u) /\ pa = u.path
    BY PortTextFacts DEF WellFormed, ParsedURLs
<1>2. kSeparator \in URLs /\ Len(kSeparator) = 3
    BY TokensAre DEF URLs, kSeparator
<1>3. PICK c1 : c1 = pr \o kSeparator
    OBVIOUS
<1>4. PICK c2 : c2 = c1 \o ho
    OBVIOUS
<1>5. PICK c3 : c3 = c2 \o po
    OBVIOUS
<1>6. PICK c : c = c3 \o pa
    OBVIOUS
<1>7. ComposeURL(u) = c
    BY <1>1, <1>3, <1>4, <1>5, <1>6 DEF ComposeURL, PortText, kSeparator
<1>8. PICK p \in Nat, h \in Nat, t \in Nat :
        /\ p = Len(pr) /\ h = p + 3 + Len(ho) /\ t = h + Len(po)
        /\ p + 3 \in Nat
    <2>1. Len(pr) \in Nat /\ Len(ho) \in Nat /\ Len(po) \in Nat
        BY DEF URLs
    <2>2. PICK p \in Nat, h \in Nat : p = Len(pr) /\ h = p + 3 + Len(ho)
        BY <2>1
    <2>3. PICK t \in Nat : t = h + Len(po)
        BY <2>1
    <2>4. p + 3 \in Nat
        OBVIOUS
    <2>. QED  BY <2>2, <2>3, <2>4
<1>9. /\ c1 \in URLs /\ Len(c1) = p + 3
      /\ IsAt(c1, 0, pr) /\ IsAt(c1, p, kSeparator)
    <2>1. IsAt(pr, 0, pr)
        BY <1>8 DEF IsAt
    <2>2. c1 \in URLs /\ Len(c1) = Len(pr) + 3 /\ IsAt(c1, Len(pr), kSeparator)
        <3>1. /\ pr \o kSeparator \in URLs
              /\ Len(pr \o kSeparator) = Len(pr) + Len(kSeparator)
              /\ IsAt(pr \o kSeparator, Len(pr), kSeparator)
            BY <1>2, Join, Zenon
        <3>. QED  BY <1>2, <1>3, <3>1
    <2>3. IsAt(c1, 0, pr)
        <3>1. \A r \in URLs, k \in Nat : IsAt(pr, k, r) => IsAt(pr \o kSeparator, k, r)
            BY <1>2, Join
        <3>. QED  BY <1>3, <2>1, <3>1
    <2>. QED  BY <1>8, <2>2, <2>3
<1>10. /\ c2 \in URLs /\ Len(c2) = h
       /\ IsAt(c2, 0, pr) /\ IsAt(c2, p, kSeparator) /\ IsAt(c2, p + 3, ho)
    <2>1. c2 \in URLs /\ Len(c2) = h /\ IsAt(c2, p + 3, ho)
        BY <1>4, <1>8, <1>9, Join
    <2>2. IsAt(c2, 0, pr) /\ IsAt(c2, p, kSeparator)
        <3>1. \A r \in URLs, k \in Nat : IsAt(c1, k, r) => IsAt(c1 \o ho, k, r)
            BY <1>9, Join
        <3>. QED  BY <1>2, <1>4, <1>9, <3>1
    <2>. QED  BY <2>1, <2>2
<1>11. /\ c3 \in URLs /\ Len(c3) = t
       /\ IsAt(c3, 0, pr) /\ IsAt(c3, p, kSeparator) /\ IsAt(c3, p + 3, ho) /\ IsAt(c3, h, po)
    <2>1. c3 \in URLs /\ Len(c3) = t /\ IsAt(c3, h, po)
        BY <1>5, <1>8, <1>10, Join
    <2>2. IsAt(c3, 0, pr) /\ IsAt(c3, p, kSeparator) /\ IsAt(c3, p + 3, ho)
        <3>1. \A r \in URLs, k \in Nat : IsAt(c2, k, r) => IsAt(c2 \o po, k, r)
            BY <1>10, Join
        <3>. QED  BY <1>2, <1>5, <1>8, <1>10, <3>1
    <2>. QED  BY <2>1, <2>2
<1>12. /\ c \in URLs /\ Len(c) = t + Len(pa)
       /\ IsAt(c, 0, pr) /\ IsAt(c, p, kSeparator) /\ IsAt(c, p + 3, ho)
       /\ IsAt(c, h, po) /\ IsAt(c, t, pa)
    <2>1. c \in URLs /\ Len(c) = t + Len(pa) /\ IsAt(c, t, pa)
        BY <1>6, <1>11, Join
    <2>2. IsAt(c, 0, pr) /\ IsAt(c, p, kSeparator) /\ IsAt(c, p + 3, ho) /\ IsAt(c, h, po)
        <3>1. \A r \in URLs, k \in Nat : IsAt(c3, k, r) => IsAt(c3 \o pa, k, r)
            BY <1>11, Join
        <3>. QED  BY <1>2, <1>6, <1>8, <1>11, <3>1
    <2>. QED  BY <2>1, <2>2
<1>. QED
    BY <1>1, <1>7, <1>8, <1>12

\* A part that is at `k + 1` is what SubSeq takes from there.
LEMMA PartIs ==
    ASSUME NEW c \in URLs, NEW s \in URLs, NEW k \in Nat, IsAt(c, k, s)
    PROVE  SubSeq(c, k + 1, k + Len(s)) = s
<1>1. PICK n \in Nat : n = Len(s)
    BY DEF URLs
<1>2. k + n <= Len(c) /\ \A i \in 1..n : c[k + i] = s[i]
    BY <1>1 DEF IsAt
<1>3. PICK t : t = SubSeq(c, k + 1, k + n)
    OBVIOUS
<1>4. /\ t \in URLs /\ Len(t) = IF k + 1 <= k + n THEN k + n - (k + 1) + 1 ELSE 0
      /\ \A i \in 1..Len(t) : t[i] = c[k + 1 + i - 1]
    <2>1. k + 1 \in Int /\ k + n \in Int /\ 1 <= k + 1
        OBVIOUS
    <2>. QED  BY <1>2, <1>3, <2>1, Part
<1>5. Len(t) = n /\ \A i \in 1..n : t[i] = s[i]
    <2>1. Len(t) = n
        BY <1>4
    <2>2. ASSUME NEW i \in 1..n PROVE t[i] = s[i]
        <3>1. k + 1 + i - 1 = k + i
            OBVIOUS
        <3>. QED  BY <1>2, <1>4, <2>1, <3>1
    <2>. QED  BY <2>1, <2>2
<1>6. t = s
    BY <1>1, <1>4, <1>5, SeqEqual DEF URLs
<1>. QED
    BY <1>1, <1>3, <1>6

\* `c` has a protocol, a separator, a host, a port or none, and a path, one after the other.
IsText(c, pr, ho, po, pa, p, h, t) ==
    /\ p = Len(pr) /\ h = p + 3 + Len(ho) /\ t = h + Len(po) /\ Len(c) = t + Len(pa)
    /\ IsAt(c, 0, pr) /\ IsAt(c, p, kSeparator) /\ IsAt(c, p + 3, ho)
    /\ IsAt(c, h, po) /\ IsAt(c, t, pa)
    /\ Separators(pr) = {}
    /\ \A i \in 1..Len(ho) : ho[i] \notin {":", "/"}
    /\ pa # <<>> /\ pa[1] = "/"
    /\ \/ Len(po) = 0
       \/ Len(po) = 2 /\ po[1] = ":" /\ po[2] \notin {":", "/"}

\* Where the constructor finds the parts of such a text.
IsReadBack(c, po, p, h, t) ==
    /\ Separators(c) # {} /\ FirstSeparator(c) = p + 1
    /\ Find(c, "/", p + 4) = t + 1
    /\ Len(po) = 0 => t = h /\ Find(c, ":", p + 4) \in Int /\ Find(c, ":", p + 4) > t + 1
    /\ Len(po) = 2 => t = h + 2 /\ Find(c, ":", p + 4) = h + 1 /\ c[h + 2] = po[2]

LEMMA ReadBack ==
    ASSUME NEW c \in URLs, NEW pr \in URLs, NEW ho \in URLs, NEW po \in URLs, NEW pa \in URLs,
           NEW p \in Nat, NEW h \in Nat, NEW t \in Nat,
           IsText(c, pr, ho, po, pa, p, h, t)
    PROVE  IsReadBack(c, po, p, h, t)
<1>1. /\ Len(ho) \in Nat /\ Len(po) \in Nat /\ Len(pa) \in Nat \ {0}
      /\ Len(c) \in Nat /\ p + 4 \in 1..(Len(c) + 1)
      /\ p = Len(pr) /\ h = p + 3 + Len(ho) /\ t = h + Len(po) /\ Len(c) = t + Len(pa)
    <2>1. Len(ho) \in Nat /\ Len(po) \in Nat /\ Len(pa) \in Nat /\ Len(c) \in Nat
        BY DEF URLs
    <2>2. Len(pa) # 0
        BY EmptyPart DEF IsText
    <2>. QED  BY <2>1, <2>2 DEF IsText
<1>2. /\ \A i \in 1..p : c[i] = pr[i]
      /\ c[p + 1] = ":" /\ c[p + 2] = "/" /\ c[p + 3] = "/"
    <2>1. ASSUME NEW i \in 1..p PROVE c[i] = pr[i]
        <3>1. c[0 + i] = pr[i]
            BY <1>1 DEF IsAt, IsText
        <3>. QED  BY <3>1
    <2>2. \A i \in 1..3 : c[p + i] = kSeparator[i]
        BY DEF IsAt, IsText, kSeparator
    <2>. QED  BY <2>1, <2>2 DEF kSeparator
<1>3. \A j \in (p + 4)..h : c[j] \notin {":", "/"}
    <2>1. ASSUME NEW j \in (p + 4)..h PROVE c[j] \notin {":", "/"}
        <3>1. j - (p + 3) \in 1..Len(ho) /\ p + 3 + (j - (p + 3)) = j
            BY <1>1, <2>1
        <3>2. c[p + 3 + (j - (p + 3))] = ho[j - (p + 3)]
            BY <3>1 DEF IsAt, IsText
        <3>. QED  BY <3>1, <3>2 DEF IsText
    <2>. QED  BY <2>1
<1>4. c[t + 1] = "/"
    <2>1. 1 \in 1..Len(pa)
        BY <1>1
    <2>. QED  BY <2>1 DEF IsAt, IsText
<1>5. Len(po) = 2 => t = h + 2 /\ c[h + 1] = ":" /\ c[h + 2] = po[2] /\ c[h + 2] \notin {":", "/"}
    <2>1. ASSUME Len(po) = 2
          PROVE  t = h + 2 /\ c[h + 1] = ":" /\ c[h + 2] = po[2] /\ c[h + 2] \notin {":", "/"}
        <3>1. \A i \in 1..2 : c[h + i] = po[i]
            BY <2>1 DEF IsAt, IsText
        <3>. QED  BY <1>1, <2>1, <3>1 DEF IsText
    <2>. QED  BY <2>1
<1>6. Separators(c) # {} /\ FirstSeparator(c) = p + 1
    <2>1. p + 1 \in Separators(c)
        <3>1. p + 1 \in 1..(Len(c) - 2) /\ p + 1 + 1 = p + 2 /\ p + 1 + 2 = p + 3
            BY <1>1
        <3>. QED  BY <1>2, <3>1, SeparatorFacts
    <2>2. ASSUME NEW j \in Separators(c), j < p + 1 PROVE FALSE
        <3>1. j \in 1..(Len(c) - 2) /\ c[j] = ":" /\ c[j + 1] = "/" /\ c[j + 2] = "/"
            BY SeparatorFacts
        <3>2. j + 2 # p + 1 /\ j + 1 # p + 1
            BY <1>2, <3>1
        <3>3. j \in 1..(p - 2) /\ j \in 1..p /\ j + 1 \in 1..p /\ j + 2 \in 1..p
            <4>1. j \in Nat \ {0} /\ j <= p
                BY <2>2, <3>1
            <4>. QED  BY <3>2, <4>1
        <3>4. pr[j] = ":" /\ pr[j + 1] = "/" /\ pr[j + 2] = "/"
            BY <1>2, <3>1, <3>3
        <3>5. j \in Separators(pr)
            BY <1>1, <3>3, <3>4, SeparatorFacts
        <3>. QED  BY <3>5 DEF IsText
    <2>3. /\ FirstSeparator(c) \in Separators(c)
          /\ \A j \in Separators(c) : FirstSeparator(c) <= j
        BY <2>1, FirstSeparatorIs
    <2>4. FirstSeparator(c) \in Int
        BY <2>3, <1>1 DEF Separators
    <2>. QED  BY <2>1, <2>2, <2>3, <2>4
<1>7. Find(c, "/", p + 4) = t + 1
    <2>1. \A j \in (h + 1)..t : c[j] # "/"
        <3>1. CASE Len(po) = 0
            BY <1>1, <3>1
        <3>2. CASE Len(po) = 2
            <4>1. ASSUME NEW j \in (h + 1)..t PROVE c[j] # "/"
                <5>1. j = h + 1 \/ j = h + 2
                    BY <1>5, <3>2, <4>1
                <5>. QED  BY <1>5, <3>2, <5>1
            <4>. QED  BY <4>1
        <3>. QED  BY <3>1, <3>2 DEF IsText
    <2>2. ASSUME NEW j \in (p + 4)..(t + 1 - 1) PROVE c[j] # "/"
        <3>1. j \in (p + 4)..h \/ j \in (h + 1)..t
            BY <2>2
        <3>. QED  BY <1>3, <2>1, <3>1
    <2>3. t + 1 \in (p + 4)..(Len(c) + 1)
        BY <1>1
    <2>4. IsFirst(c, "/", p + 4, t + 1)
        BY <1>4, <2>2, <2>3 DEF IsFirst
    <2>. QED  BY <1>1, <2>4, FindIs
<1>8. PICK colon : colon = Find(c, ":", p + 4)
    OBVIOUS
<1>9. ASSUME Len(po) = 0 PROVE t = h /\ colon \in Int /\ colon > t + 1
    <2>1. /\ colon \in (p + 4)..(Len(c) + 1)
          /\ colon = Len(c) + 1 \/ c[colon] = ":"
        BY <1>1, <1>8, FindFacts DEF IsFirst
    <2>2. t = h /\ colon \in Int
        BY <1>9, <2>1, <1>1
    <2>3. colon \notin (p + 4)..h
        <3>1. colon \in (p + 4)..h => c[colon] # ":"
            BY <1>3
        <3>2. colon \in (p + 4)..h => colon # Len(c) + 1
            BY <1>1, <2>2
        <3>. QED  BY <2>1, <3>1, <3>2
    <2>4. colon # t + 1
        BY <1>1, <1>4, <2>1
    <2>. QED  BY <1>1, <2>1, <2>2, <2>3, <2>4
<1>10. ASSUME Len(po) = 2 PROVE colon = h + 1
    <2>1. h + 1 \in (p + 4)..(Len(c) + 1) /\ h + 1 - 1 = h
        BY <1>1, <1>10
    <2>2. IsFirst(c, ":", p + 4, h + 1)
        BY <1>3, <1>5, <1>10, <2>1 DEF IsFirst
    <2>. QED  BY <1>1, <1>8, <2>2, FindIs
<1>. QED
    BY <1>5, <1>6, <1>7, <1>8, <1>9, <1>10 DEF IsReadBack

\* Parsing undoes composing: no part can be taken for the end of itself.
LEMMA RoundTrip ==
    ASSUME NEW u, WellFormed(u)
    PROVE  ComposeURL(u) \in URLs /\ Parse(ComposeURL(u), NoPrevious) = u
<1>1. PICK pr \in URLs, ho \in URLs, po \in URLs, pa \in URLs, c \in URLs :
        /\ pr = u.protocol /\ ho = u.host /\ po = PortText(u) /\ pa = u.path
        /\ c = ComposeURL(u)
    BY PortTextFacts, Composed DEF WellFormed, ParsedURLs
<1>2. /\ pr # <<>> /\ Separators(pr) = {} /\ pa # <<>> /\ pa[1] = "/"
      /\ \A i \in 1..Len(ho) : ho[i] \notin {":", "/"}
      /\ u = [protocol |-> pr, host |-> ho, path |-> pa, port |-> u.port]
    BY <1>1 DEF WellFormed, Inheritable, ParsedURLs
<1>3. PICK p \in Nat, h \in Nat, t \in Nat :
        p = Len(pr) /\ h = p + 3 + Len(ho) /\ t = h + Len(po)
    <2>1. Len(pr) \in Nat /\ Len(ho) \in Nat /\ Len(po) \in Nat
        BY DEF URLs
    <2>2. PICK p \in Nat, h \in Nat : p = Len(pr) /\ h = p + 3 + Len(ho)
        BY <2>1
    <2>3. PICK t \in Nat : t = h + Len(po)
        BY <2>1
    <2>. QED  BY <2>2, <2>3
<1>4. /\ Len(c) = t + Len(pa)
      /\ IsAt(c, 0, pr) /\ IsAt(c, p, kSeparator) /\ IsAt(c, p + 3, ho)
      /\ IsAt(c, h, po) /\ IsAt(c, t, pa)
    BY <1>1, <1>3, Composed
<1>5. /\ u.port = DefaultPortForProtocol(pr) => Len(po) = 0
      /\ u.port # DefaultPortForProtocol(pr) =>
           /\ Len(po) = 2 /\ po[1] = ":" /\ po[2] \notin {":", "/"}
           /\ po[2] \in DOMAIN Numbers /\ Numbers[po[2]] = u.port
    BY <1>1, PortTextFacts
<1>6. PICK colon, slash : colon = Find(c, ":", p + 4) /\ slash = Find(c, "/", p + 4)
    OBVIOUS
<1>7. /\ Separators(c) # {} /\ FirstSeparator(c) = p + 1 /\ slash = t + 1
      /\ Len(po) = 0 => t = h /\ colon \in Int /\ colon > t + 1
      /\ Len(po) = 2 => t = h + 2 /\ colon = h + 1 /\ c[h + 2] = po[2]
    <2>1. IsText(c, pr, ho, po, pa, p, h, t)
        BY <1>2, <1>3, <1>4, <1>5 DEF IsText
    <2>2. IsReadBack(c, po, p, h, t)
        BY <2>1, ReadBack, Zenon
    <2>. QED  BY <1>6, <2>2 DEF IsReadBack
<1>8. SubSeq(c, 1, p) = pr
    <2>1. SubSeq(c, 0 + 1, 0 + Len(pr)) = pr
        BY <1>4, PartIs
    <2>. QED  BY <1>3, <2>1
<1>9. SubSeq(c, p + 4, (IF colon < slash THEN colon ELSE slash) - 1) = ho
    <2>1. SubSeq(c, p + 3 + 1, p + 3 + Len(ho)) = ho
        BY <1>4, PartIs
    <2>2. (IF colon < slash THEN colon ELSE slash) - 1 = h
        BY <1>5, <1>7
    <2>. QED  BY <1>3, <2>1, <2>2
<1>10. SubSeq(c, slash, Len(c)) = pa
    <2>1. SubSeq(c, t + 1, t + Len(pa)) = pa
        BY <1>4, PartIs
    <2>. QED  BY <1>4, <1>7, <2>1
<1>11. PICK n : n = PortOrPrevious(c, colon, slash, NoPrevious)
    OBVIOUS
<1>12. (IF n = 0 THEN DefaultPortForProtocol(pr) ELSE n) = u.port
    <2>1. CASE u.port = DefaultPortForProtocol(pr)
        <3>1. ~(colon < slash)
            BY <1>5, <1>7, <2>1
        <3>. QED  BY <1>11, <2>1, <3>1 DEF PortOrPrevious, NoPrevious
    <2>2. CASE u.port # DefaultPortForProtocol(pr)
        <3>1. colon = h + 1 /\ colon < slash /\ c[colon + 1] = po[2] /\ colon < Len(c)
            <4>1. Len(pa) \in Nat /\ Len(pa) # 0
                BY <1>2, EmptyPart DEF URLs
            <4>. QED  BY <1>4, <1>5, <1>7, <2>2, <4>1
        <3>2. n = u.port
            BY <1>5, <1>11, <2>2, <3>1 DEF PortOrPrevious, Atoi
        <3>3. n # 0
            BY <1>5, <2>2, <3>2, URLAssumption
        <3>. QED  BY <3>2, <3>3
    <2>. QED  BY <2>1, <2>2
<1>13. Parse(c, NoPrevious) =
         [protocol |-> pr, host |-> ho, path |-> pa, port |-> u.port]
    <2>1. p + 1 + 3 = p + 4 /\ p + 1 - 1 = p
        OBVIOUS
    <2>2. Parse(c, NoPrevious) =
            [protocol |-> OrElse(SubSeq(c, 1, p), OrElse(NoPrevious.protocol, kDefaultProtocol)),
             host |-> OrElse(SubSeq(c, p + 4, (IF colon < slash THEN colon ELSE slash) - 1),
                             NoPrevious.host),
             path |-> OrElse(SubSeq(c, slash, Len(c)), <<"/">>),
             port |-> IF n = 0
                      THEN DefaultPortForProtocol(
                             OrElse(SubSeq(c, 1, p), OrElse(NoPrevious.protocol, kDefaultProtocol)))
                      ELSE n]
        BY <1>6, <1>7, <1>11, <2>1 DEF Parse
    <2>3. /\ OrElse(pr, OrElse(NoPrevious.protocol, kDefaultProtocol)) = pr
          /\ OrElse(ho, NoPrevious.host) = ho /\ OrElse(pa, <<"/">>) = pa
        BY <1>2 DEF OrElse, NoPrevious
    <2>. QED  BY <1>8, <1>9, <1>10, <1>12, <2>2, <2>3
<1>. QED
    BY <1>1, <1>2, <1>13

\* So the text stands for the URL.
LEMMA TextIsURL ==
    ASSUME NEW u, NEW v, WellFormed(u), WellFormed(v), ComposeURL(u) = ComposeURL(v)
    PROVE  u = v
BY RoundTrip

\* What is parsed next to a URL that has been parsed is well-formed, too.
LEMMA WellFormedIsInheritable == ASSUME NEW u, WellFormed(u) PROVE Inheritable(u)
BY DEF WellFormed

\* A path that has no "://" leaves the protocol, the host and the port as they were.
LEMMA PathIsInherited ==
    ASSUME NEW url \in URLs, IsPath(url), Separators(url) = {}, NEW u, WellFormed(u)
    PROVE  /\ Parse(url, u).protocol = u.protocol /\ Parse(url, u).host = u.host
           /\ Parse(url, u).port = u.port
<1>1. Len(url) \in Nat /\ Len(url) # 0 /\ url[1] = "/"
    BY EmptyPart DEF IsPath, URLs
<1>2. PICK colon, slash : colon = Find(url, ":", 1) /\ slash = Find(url, "/", 1)
    OBVIOUS
<1>3. slash = 1
    <2>1. IsFirst(url, "/", 1, 1)
        BY <1>1 DEF IsFirst
    <2>. QED  BY <1>1, <1>2, <2>1, FindIs
<1>4. ~(colon < slash)
    <2>1. IsFirst(url, ":", 1, colon)
        BY <1>1, <1>2, FindFacts
    <2>. QED  BY <1>1, <1>3, <2>1 DEF IsFirst
<1>5. SubSeq(url, 1, slash - 1) = <<>>
    BY <1>3, SubSeqEmpty
<1>6. u.protocol # <<>> /\ (u.port = 0 => DefaultPortForProtocol(u.protocol) = u.port)
    BY DEF WellFormed, Inheritable
<1>7. /\ Parse(url, u).protocol = OrElse(<<>>, OrElse(u.protocol, kDefaultProtocol))
      /\ Parse(url, u).host = OrElse(<<>>, u.host)
      /\ Parse(url, u).port =
           IF u.port = 0
           THEN DefaultPortForProtocol(OrElse(<<>>, OrElse(u.protocol, kDefaultProtocol)))
           ELSE u.port
    BY <1>2, <1>4, <1>5 DEF Parse, PortOrPrevious
<1>. QED
    BY <1>6, <1>7 DEF OrElse

-----------------------------------------------------------------------------
(* The URLs of a call.                                                       *)

\* The first URL has been parsed.
Started == pc \notin {"PrepareInput", "HTTPClientException"}

\* `parsed_url` is what the URL to report leads to; the texts of the URLs requested are those
\* that are compared; and an answer is from a URL that has been requested.
URLInv ==
    /\ IF Started
       THEN /\ WellFormed(parsed_url) /\ client.response_url_after_redirects_ \in URLs
            /\ Parse(client.response_url_after_redirects_, NoPrevious) = parsed_url
       ELSE /\ parsed_url = NoPrevious /\ all_urls = {} /\ requested = {}
            /\ client.response_url_after_redirects_ = <<>>
    /\ client.request_url_ \in URLs
    /\ all_urls \subseteq URLs
    /\ \A u \in requested : WellFormed(u)
    /\ pc \in {"loop", "sent"} => all_urls = {ComposeURL(u) : u \in requested}
    /\ pc \in {"sent", "ParseOutput", "returned", "HTTPRedirectLoopException *"}
         => parsed_url \in requested
    /\ pc = "returned" => output.url_after_redirects = client.response_url_after_redirects_
    /\ files \in [DOMAIN Files -> STRING]

\* What the client compares are URLs, not only texts.
LEMMA VisitedMeansRequested ==
    ASSUME URLInv, pc = "loop"
    PROVE  IsVisited <=> parsed_url \in requested
<1>1. WellFormed(parsed_url) /\ \A u \in requested : WellFormed(u)
    BY DEF URLInv, Started
<1>2. all_urls = {ComposeURL(u) : u \in requested}
    BY DEF URLInv
<1>3. ASSUME IsVisited PROVE parsed_url \in requested
    <2>1. PICK u \in requested : ComposeURL(parsed_url) = ComposeURL(u)
        BY <1>2, <1>3 DEF IsVisited
    <2>2. parsed_url = u
        BY <1>1, <2>1, TextIsURL
    <2>. QED  BY <2>1, <2>2
<1>4. ASSUME parsed_url \in requested PROVE IsVisited
    BY <1>2, <1>4 DEF IsVisited
<1>. QED
    BY <1>3, <1>4

LEMMA InitURLInv == Init => URLInv
<1> SUFFICES ASSUME Init PROVE URLInv
    OBVIOUS
<1>1. <<>> \in URLs
    BY DEF URLs
<1>. QED
    BY <1>1, ClientAssumption DEF Init, URLInv, Started

LEMMA NextURLInv == Inv /\ URLInv /\ [Next]_vars => URLInv'
<1> SUFFICES ASSUME Inv, URLInv, [Next]_vars PROVE URLInv'
    OBVIOUS
<1>. USE DEF URLInv, Started
<1>1. ASSUME PrepareInput PROVE URLInv'
    <2>1. call.request.url \in URLs
        BY ClientAssumption DEF Inv, DataInv, Requests
    <2>2. WellFormed(Parse(call.request.url, NoPrevious))
        BY <2>1, HTTPIsInheritable, ParseIsWellFormed
    <2>3. /\ pc = "PrepareInput" /\ pc' = "loop"
          /\ parsed_url' = Parse(call.request.url, NoPrevious)
          /\ client'.request_url_ = call.request.url
          /\ client'.response_url_after_redirects_ = call.request.url
          /\ UNCHANGED <<files, all_urls, requested>>
        <3>1. pc = "PrepareInput" /\ \E method, contents : Prepared(method, contents)
            BY <1>1, Zenon DEF PrepareInput
        <3>2. PICK method, contents : Prepared(method, contents)
            BY <3>1
        <3>. QED  BY <3>1, <3>2 DEF Prepared
    <2>. QED  BY <2>1, <2>2, <2>3
<1>2. CASE PrepareInputThrows
    BY <1>2 DEF PrepareInputThrows
<1>3. ASSUME SendRequest \/ SendRequestThrows PROVE URLInv'
    <2>1. /\ pc = "loop" /\ pc' \in {"sent", "NetworkException"}
          /\ all_urls' = all_urls \union {ComposeURL(parsed_url)}
          /\ pc' = "sent" => requested' = requested \union {parsed_url}
          /\ pc' # "sent" => requested' = requested
          /\ UNCHANGED <<files, client, parsed_url>>
        BY <1>3 DEF SendRequest, SendRequestThrows, Visited
    <2>2. WellFormed(parsed_url) /\ ComposeURL(parsed_url) \in URLs
        BY <2>1, RoundTrip
    <2>3. pc' = "sent" => all_urls' = {ComposeURL(u) : u \in requested'}
        BY <2>1
    <2>. QED  BY <2>1, <2>2, <2>3
<1>4. CASE RedirectLoop
    BY <1>4, VisitedMeansRequested DEF RedirectLoop
<1>5. ASSUME NEW a \in answers, ReceiveAnswer(a) PROVE URLInv'
    <2>1. pc = "sent" /\ UNCHANGED <<files, all_urls, requested>>
        BY <1>5 DEF ReceiveAnswer
    <2>2. CASE IsRedirect(a)
        <3>1. a.location \in URLs
            BY Data DEF Inv, Answers
        <3>2. WellFormed(Parse(a.location, parsed_url))
            BY <2>1, <3>1, WellFormedIsInheritable, ParseIsWellFormed
        <3>3. /\ Redirected(a) \in URLs
              /\ Parse(Redirected(a), NoPrevious) = Parse(a.location, parsed_url)
            BY <3>2, RoundTrip DEF Redirected
        <3>4. /\ pc' = "loop" /\ parsed_url' = Parse(a.location, parsed_url)
              /\ client' = [client EXCEPT !.response_code_ = a.code,
                                          !.response_url_after_redirects_ = Redirected(a)]
            BY <1>5, <2>2 DEF ReceiveAnswer
        <3>5. /\ client'.response_url_after_redirects_ = Redirected(a)
              /\ client'.request_url_ = client.request_url_
            <4>. HIDE DEF Redirected
            <4>. QED  BY <3>4 DEF Inv, ClientInv
        <3>. QED  BY <2>1, <3>2, <3>3, <3>4, <3>5
    <2>3. CASE ~IsRedirect(a)
        <3>1. /\ pc' = "ParseOutput" /\ UNCHANGED parsed_url
              /\ client' = [client EXCEPT !.response_code_ = a.code]
            BY <1>5, <2>3 DEF ReceiveAnswer
        <3>2. /\ client'.response_url_after_redirects_ = client.response_url_after_redirects_
              /\ client'.request_url_ = client.request_url_
            BY <3>1 DEF Inv, ClientInv
        <3>. QED  BY <2>1, <3>1, <3>2
    <2>. QED  BY <2>2, <2>3
<1>6. CASE ReceiveAnswerThrows
    BY <1>6 DEF ReceiveAnswerThrows
<1>7. CASE ParseOutput
    <2>1. /\ pc = "ParseOutput" /\ pc' = "returned"
          /\ output'.url_after_redirects = client.response_url_after_redirects_
          /\ UNCHANGED <<files, client, parsed_url, all_urls, requested>>
        BY <1>7 DEF ParseOutput, Output
    <2>. QED  BY <2>1
<1>8. ASSUME NEW contents \in STRING, Saves(contents) PROVE URLInv'
    <2>1. /\ pc = "ParseOutput" /\ pc' = "returned"
          /\ output'.url_after_redirects = client.response_url_after_redirects_
          /\ files' = [files EXCEPT ![call.response.file_name] = contents]
          /\ UNCHANGED <<client, parsed_url, all_urls, requested>>
        BY <1>8 DEF Saves, Output
    <2>2. files' \in [DOMAIN Files -> STRING]
        BY <2>1
    <2>. QED  BY <2>1, <2>2
<1>9. CASE ParseOutputToFile
    <2>1. message.body \in STRING
        <3>1. message # Nothing /\ message \in answers \union {Nothing}
            BY <1>9 DEF ParseOutputToFile, Saves, Inv, DataInv, ClientInv
        <3>. QED  BY <3>1, Data DEF Inv, Answers
    <2>. QED  BY <1>8, <1>9, <2>1 DEF ParseOutputToFile, Contents
<1>10. CASE FlushFails
    BY <1>8, <1>10, ClientAssumption DEF FlushFails
<1>11. CASE ParseOutputThrows
    <2>1. /\ pc = "ParseOutput" /\ pc' = "FileException"
          /\ files' = files \/ files' = [files EXCEPT ![call.response.file_name] = ""]
          /\ UNCHANGED <<client, parsed_url, all_urls, requested>>
        BY <1>11 DEF ParseOutputThrows
    <2>2. files' \in [DOMAIN Files -> STRING]
        BY <2>1, ClientAssumption
    <2>. QED  BY <2>1, <2>2
<1>12. CASE UNCHANGED vars
    BY <1>12 DEF vars
<1>. QED
    BY <1>1, <1>2, <1>3, <1>4, <1>5, <1>6, <1>7, <1>9, <1>10, <1>11, <1>12
    DEF Next, Prepare, Send, Receive, Finish

-----------------------------------------------------------------------------
(* Theorems                                                                  *)

\* The inductive invariant.
THEOREM Invariance == Spec => []Inv
BY InitInv, NextInv, PTL DEF Spec

\* A call on POSIX does what HTTP() promises: it ends at most once, and
\* returns the last answer.
THEOREM Refinement == Spec => ImplementsHTTPCall
BY InitMaps, NextMaps, Invariance, PTL DEF Spec, ImplementsHTTPCall, HTTP!Spec

\* The invariant about URLs, on top of the other.
THEOREM URLInvariance == Spec => []URLInv
BY InitURLInv, NextURLInv, Invariance, PTL DEF Spec

\* The state keeps its type, texts that are composed of URLs included.
THEOREM TypeCorrect == Spec => []TypeOK
<1>1. Inv /\ URLInv => TypeOK
    <2> SUFFICES ASSUME Inv, URLInv PROVE TypeOK
        OBVIOUS
    <2>1. NoPrevious \in ParsedURLs
        <3>1. <<"http">> \in URLs /\ <<>> \in URLs /\ <<"/">> \in URLs
            BY URLAssumption, TokensAre DEF URLs
        <3>. QED  BY <3>1 DEF NoPrevious, kDefaultProtocol, ParsedURLs
    <2>2. <<>> \in URLs
        BY DEF URLs
    <2>3. parsed_url \in ParsedURLs /\ client.response_url_after_redirects_ \in URLs
        BY <2>1, <2>2 DEF URLInv, WellFormed
    <2>4. requested \subseteq ParsedURLs
        BY DEF URLInv, WellFormed
    <2>. QED  BY <2>3, <2>4 DEF TypeOK, Inv, DataInv, URLInv
<1>. QED
    BY <1>1, Invariance, URLInvariance, PTL

\* The loop of Go ends exactly where it would request a URL for the second time.
THEOREM LoopIsReal == Spec => []RedirectLoopIsReal
<1>1. URLInv => RedirectLoopIsReal
    BY VisitedMeansRequested DEF RedirectLoopIsReal, URLInv
<1>. QED
    BY <1>1, URLInvariance, PTL

\* The URL reported after redirects leads to the server that answered.
THEOREM ReportedURLAnswers == Spec => []ResponseIsFromReportedURL
<1>1. URLInv => ResponseIsFromReportedURL
    BY DEF ResponseIsFromReportedURL, URLInv, Started
<1>. QED
    BY <1>1, URLInvariance, PTL

\* A redirect to a path without "://" stays on the server that sent it.
THEOREM PathStaysOnServer == Spec => PlainPathStaysOnServer
<1>1. Inv /\ URLInv /\ [Next]_vars
        => [Follows /\ IsPath(message'.location) /\ Separators(message'.location) = {}
              => StaysOnServer]_vars
    <2> SUFFICES ASSUME Inv, URLInv, Next, Follows,
                        IsPath(message'.location), Separators(message'.location) = {}
                 PROVE  StaysOnServer
        OBVIOUS
    <2>1. pc = "sent" /\ pc' = "loop"
        BY DEF Follows
    <2>2. PICK a \in answers : ReceiveAnswer(a)
        BY <2>1 DEF Next, Prepare, PrepareInput, PrepareInputThrows, Send, SendRequest,
                    SendRequestThrows, RedirectLoop, Receive, ReceiveAnswerThrows, Finish,
                    ParseOutput, ParseOutputToFile, FlushFails, Saves, ParseOutputThrows
    <2>3. message' = a /\ parsed_url' = Parse(a.location, parsed_url)
        BY <2>1, <2>2 DEF ReceiveAnswer
    <2>4. a.location \in URLs /\ WellFormed(parsed_url)
        BY <2>1, Data DEF Inv, Answers, URLInv, Started
    <2>. QED  BY <2>3, <2>4, PathIsInherited DEF StaysOnServer
<1>. QED
    BY <1>1, Invariance, URLInvariance, PTL DEF Spec, PlainPathStaysOnServer

-----------------------------------------------------------------------------
(* The end of a call.                                                        *)

\* The URLs that locations in `L` can lead to: each part is one that some location has, or a port
\* by default.
Reachable(L) ==
    [protocol : {Parse(l, NoPrevious).protocol : l \in L},
     host : {Parse(l, NoPrevious).host : l \in L},
     path : {Parse(l, NoPrevious).path : l \in L},
     port : {0, 80} \union {Parse(l, NoPrevious).port : l \in L}]

\* The URL of the call and the locations of all redirects are in `L`.
LocationsAreIn(L) ==
    call.request.url \in L /\ \A a \in answers : IsRedirect(a) => a.location \in L

LEMMA FiniteImage ==
    ASSUME NEW S, IsFiniteSet(S), NEW f, DOMAIN f = S, f = [x \in S |-> f[x]]
    PROVE  IsFiniteSet({f[x] : x \in S})
<1> DEFINE T == {f[x] : x \in S}
<1>1. f \in Surjection(S, T)
    BY DEF Surjection
<1>. QED
    BY <1>1, FS_Surjection

\* There are finitely many records of four fields that have finitely many values each.
LEMMA FiniteRecords ==
    ASSUME NEW P, NEW H, NEW A, NEW O,
           IsFiniteSet(P), IsFiniteSet(H), IsFiniteSet(A), IsFiniteSet(O)
    PROVE  IsFiniteSet([protocol : P, host : H, path : A, port : O])
<1> DEFINE S == (P \X H) \X (A \X O)
           f == [t \in S |-> [protocol |-> t[1][1], host |-> t[1][2],
                              path |-> t[2][1], port |-> t[2][2]]]
           T == {f[t] : t \in S}
<1>1. IsFiniteSet(S)
    <2>1. IsFiniteSet(P \X H) /\ IsFiniteSet(A \X O)
        BY FS_Product
    <2>. QED  BY <2>1, FS_Product
<1>2. IsFiniteSet(T)
    <2>1. DOMAIN f = S /\ f = [t \in S |-> f[t]]
        OBVIOUS
    <2>. HIDE DEF f, S
    <2>. QED  BY <1>1, <2>1, FiniteImage
<1>3. ASSUME NEW r \in [protocol : P, host : H, path : A, port : O] PROVE r \in T
    <2>1. /\ r = [protocol |-> r.protocol, host |-> r.host, path |-> r.path, port |-> r.port]
          /\ r.protocol \in P /\ r.host \in H /\ r.path \in A /\ r.port \in O
        OBVIOUS
    <2> DEFINE t == <<<<r.protocol, r.host>>, <<r.path, r.port>>>>
    <2>2. t \in S
        BY <2>1
    <2>3. f[t] = r
        BY <2>1, <2>2
    <2>. QED  BY <2>2, <2>3
<1>4. [protocol : P, host : H, path : A, port : O] \in SUBSET T
    BY <1>3
<1>. HIDE DEF T
<1>. QED
    BY <1>2, <1>4, FS_Subset

LEMMA ReachableIsFinite ==
    ASSUME NEW L, IsFiniteSet(L)
    PROVE  IsFiniteSet(Reachable(L))
<1> DEFINE p == [l \in L |-> Parse(l, NoPrevious).protocol]
           h == [l \in L |-> Parse(l, NoPrevious).host]
           a == [l \in L |-> Parse(l, NoPrevious).path]
           o == [l \in L |-> Parse(l, NoPrevious).port]
<1>1. /\ IsFiniteSet({p[l] : l \in L}) /\ IsFiniteSet({h[l] : l \in L})
      /\ IsFiniteSet({a[l] : l \in L}) /\ IsFiniteSet({o[l] : l \in L})
    <2>1. /\ DOMAIN p = L /\ p = [l \in L |-> p[l]] /\ DOMAIN h = L /\ h = [l \in L |-> h[l]]
          /\ DOMAIN a = L /\ a = [l \in L |-> a[l]] /\ DOMAIN o = L /\ o = [l \in L |-> o[l]]
        OBVIOUS
    <2>. HIDE DEF p, h, a, o
    <2>. QED  BY <2>1, FiniteImage
<1>2. /\ {p[l] : l \in L} = {Parse(l, NoPrevious).protocol : l \in L}
      /\ {h[l] : l \in L} = {Parse(l, NoPrevious).host : l \in L}
      /\ {a[l] : l \in L} = {Parse(l, NoPrevious).path : l \in L}
      /\ {o[l] : l \in L} = {Parse(l, NoPrevious).port : l \in L}
    OBVIOUS
<1>3. IsFiniteSet({0, 80} \union {o[l] : l \in L})
    <2>1. IsFiniteSet({0} \union {80})
        BY FS_Singleton, FS_Union
    <2>2. {0} \union {80} = {0, 80}
        OBVIOUS
    <2>. HIDE DEF o
    <2>. QED  BY <1>1, <2>1, <2>2, FS_Union
<1>. HIDE DEF p, h, a, o
<1>. QED
    BY <1>1, <1>2, <1>3, FiniteRecords DEF Reachable

\* What a location omits comes from a URL that locations have led to.
LEMMA ParseIsReachable ==
    ASSUME NEW L, NEW l \in L, NEW u, (WellFormed(u) /\ u \in Reachable(L)) \/ u = NoPrevious
    PROVE  Parse(l, u) \in Reachable(L)
<1> DEFINE named == Separators(l) # {}
           past == IF named THEN FirstSeparator(l) + 3 ELSE 1
           colon == Find(l, ":", past)
           slash == Find(l, "/", past)
           text == IF named THEN SubSeq(l, 1, FirstSeparator(l) - 1) ELSE <<>>
           server == SubSeq(l, past, (IF colon < slash THEN colon ELSE slash) - 1)
           v == Parse(l, u)
           w == Parse(l, NoPrevious)
<1>1. /\ v = [protocol |-> v.protocol, host |-> v.host, path |-> v.path, port |-> v.port]
      /\ v.protocol = OrElse(text, OrElse(u.protocol, kDefaultProtocol))
      /\ w.protocol = OrElse(text, OrElse(NoPrevious.protocol, kDefaultProtocol))
      /\ v.host = OrElse(server, u.host) /\ w.host = OrElse(server, NoPrevious.host)
      /\ v.path = w.path
    BY DEF Parse
<1>2. /\ v.port = LET n == PortOrPrevious(l, colon, slash, u)
                  IN  IF n = 0 THEN DefaultPortForProtocol(v.protocol) ELSE n
      /\ w.port = LET n == PortOrPrevious(l, colon, slash, NoPrevious)
                  IN  IF n = 0 THEN DefaultPortForProtocol(w.protocol) ELSE n
    BY DEF Parse
<1>. HIDE DEF text, server, colon, slash, v, w
<1>3. CASE u = NoPrevious
    <2>1. v = w
        BY <1>3 DEF v, w
    <2>. QED  BY <1>1, <2>1 DEF Reachable, v, w
<1>4. CASE WellFormed(u) /\ u \in Reachable(L)
    <2>1. v.protocol \in {w.protocol, u.protocol}
        BY <1>1, <1>4 DEF OrElse, WellFormed, Inheritable
    <2>2. v.host \in {w.host, u.host}
        BY <1>1 DEF OrElse
    <2>3. v.port \in {w.port, u.port, 0, 80}
        BY <1>2 DEF PortOrPrevious, DefaultPortForProtocol
    <2>4. /\ w.protocol \in {Parse(k, NoPrevious).protocol : k \in L}
          /\ w.host \in {Parse(k, NoPrevious).host : k \in L}
          /\ w.path \in {Parse(k, NoPrevious).path : k \in L}
          /\ w.port \in {Parse(k, NoPrevious).port : k \in L}
        BY DEF w
    <2>5. /\ u.protocol \in {Parse(k, NoPrevious).protocol : k \in L}
          /\ u.host \in {Parse(k, NoPrevious).host : k \in L}
          /\ u.port \in {0, 80} \union {Parse(k, NoPrevious).port : k \in L}
        BY <1>4 DEF Reachable
    <2>6. v \in Reachable(L)
        BY <1>1, <2>1, <2>2, <2>3, <2>4, <2>5 DEF Reachable
    <2>. QED  BY <2>6 DEF v
<1>. QED
    BY <1>3, <1>4

\* The URLs of a call are those that its locations can lead to.
Reaches(L) ==
    /\ LocationsAreIn(L)
    /\ Started => parsed_url \in Reachable(L)
    /\ requested \subseteq Reachable(L)

LEMMA InitReaches ==
    ASSUME NEW L, Init, LocationsAreIn(L)
    PROVE  Reaches(L)
BY DEF Init, Reaches, Started

LEMMA NextReaches ==
    ASSUME NEW L, Inv, URLInv, Reaches(L), [Next]_vars
    PROVE  Reaches(L)'
<1>1. CASE PrepareInput
    <2>1. Parse(call.request.url, NoPrevious) \in Reachable(L)
        BY ParseIsReachable DEF Reaches, LocationsAreIn
    <2>2. PICK method, contents : Prepared(method, contents)
        BY <1>1, Zenon DEF PrepareInput
    <2>3. /\ parsed_url' = Parse(call.request.url, NoPrevious)
          /\ UNCHANGED <<call, answers, requested>>
        BY <2>2 DEF Prepared
    <2>. QED  BY <2>1, <2>3 DEF Reaches, LocationsAreIn
<1>2. CASE Send
    BY <1>2 DEF Send, SendRequest, SendRequestThrows, RedirectLoop, Reaches, LocationsAreIn, Started
<1>3. ASSUME NEW a \in answers, ReceiveAnswer(a) PROVE Reaches(L)'
    <2>1. pc = "sent" /\ UNCHANGED <<call, answers, requested>>
        BY <1>3 DEF ReceiveAnswer
    <2>2. CASE IsRedirect(a)
        <3>1. WellFormed(parsed_url) /\ parsed_url \in Reachable(L) /\ a.location \in L
            BY <2>1, <2>2 DEF URLInv, Reaches, LocationsAreIn, Started
        <3>2. Parse(a.location, parsed_url) \in Reachable(L)
            BY <3>1, ParseIsReachable
        <3>3. parsed_url' = Parse(a.location, parsed_url)
            BY <1>3, <2>2 DEF ReceiveAnswer
        <3>. QED  BY <2>1, <3>2, <3>3 DEF Reaches, LocationsAreIn
    <2>3. CASE ~IsRedirect(a)
        <3>1. UNCHANGED parsed_url
            BY <1>3, <2>3 DEF ReceiveAnswer
        <3>. QED  BY <2>1, <3>1 DEF Reaches, LocationsAreIn, Started
    <2>. QED  BY <2>2, <2>3
<1>4. CASE PrepareInputThrows \/ ReceiveAnswerThrows \/ Finish \/ UNCHANGED vars
    <2>1. /\ UNCHANGED <<call, answers, parsed_url, requested>>
          /\ Started' => Started
        BY <1>4 DEF PrepareInputThrows, ReceiveAnswerThrows, Finish, ParseOutput, ParseOutputToFile,
                    FlushFails, Saves, ParseOutputThrows, vars, Started
    <2>. QED  BY <2>1 DEF Reaches, LocationsAreIn
<1>. QED
    BY <1>1, <1>2, <1>3, <1>4 DEF Next, Prepare, Receive

\* A bound on the steps a call still takes: two for each URL it can still be led to, and those after.
StepsLeft(L) ==
    (2 * Cardinality(Reachable(L) \ requested))
    + (CASE pc \in {"PrepareInput", "sent"} -> 3
         [] pc = "loop" -> 2
         [] pc = "ParseOutput" -> 1
         [] OTHER -> 0)

LEMMA StepsLeftType ==
    ASSUME NEW L, IsFiniteSet(L)
    PROVE  Cardinality(Reachable(L) \ requested) \in Nat /\ StepsLeft(L) \in Nat
<1>1. IsFiniteSet(Reachable(L) \ requested)
    BY ReachableIsFinite, FS_Difference
<1>2. Cardinality(Reachable(L) \ requested) \in Nat
    BY <1>1, FS_CardinalityType
<1>. QED
    BY <1>2 DEF StepsLeft

LEMMA StepsDecrease ==
    ASSUME NEW L, IsFiniteSet(L), Inv, URLInv, Reaches(L), Next
    PROVE  StepsLeft(L)' < StepsLeft(L)
<1> DEFINE left == Cardinality(Reachable(L) \ requested)
           left2 == Cardinality(Reachable(L) \ requested')
<1>1. left \in Nat
    BY StepsLeftType
<1>2. CASE SendRequest
    <2>1. /\ pc = "loop" /\ pc' = "sent" /\ requested' = requested \union {parsed_url}
          /\ parsed_url \notin requested /\ parsed_url \in Reachable(L)
        BY <1>2, VisitedMeansRequested DEF SendRequest, Reaches, Started
    <2>2. IsFiniteSet(Reachable(L) \ requested) /\ parsed_url \in Reachable(L) \ requested
        BY <2>1, ReachableIsFinite, FS_Difference
    <2>3. Reachable(L) \ requested' = (Reachable(L) \ requested) \ {parsed_url}
        BY <2>1
    <2>4. left2 = left - 1
        BY <2>2, <2>3, FS_RemoveElement
    <2>. HIDE DEF left, left2
    <2>5. StepsLeft(L) = (2 * left) + 2 /\ StepsLeft(L)' = (2 * left2) + 3
        BY <2>1 DEF StepsLeft, left, left2
    <2>. QED  BY <1>1, <2>4, <2>5
<1>3. ASSUME requested' = requested,
             \/ pc \in {"PrepareInput", "sent"} /\ pc' \in {"loop", "ParseOutput"} \union Ended
             \/ pc \in {"loop", "ParseOutput"} /\ pc' \in Ended
      PROVE  StepsLeft(L)' < StepsLeft(L)
    <2>1. Reachable(L) \ requested' = Reachable(L) \ requested
        BY <1>3
    <2>2. /\ pc \in {"PrepareInput", "sent"} => StepsLeft(L) = (2 * left) + 3
          /\ pc = "loop" => StepsLeft(L) = (2 * left) + 2
          /\ pc = "ParseOutput" => StepsLeft(L) = (2 * left) + 1
        <3>. HIDE DEF left
        <3>. QED  BY DEF StepsLeft, left
    <2>3. /\ pc' = "loop" => StepsLeft(L)' = (2 * left2) + 2
          /\ pc' = "ParseOutput" => StepsLeft(L)' = (2 * left2) + 1
          /\ pc' \notin {"PrepareInput", "sent", "loop", "ParseOutput"} => StepsLeft(L)' = (2 * left2) + 0
        <3>. HIDE DEF left2
        <3>. QED  BY DEF StepsLeft, left2
    <2>4. left2 = left
        BY <2>1
    <2>5. pc' \in Ended => pc' \notin {"PrepareInput", "sent", "loop", "ParseOutput"}
        BY DEF Ended, Thrown
    <2>. HIDE DEF left, left2
    <2>. QED  BY <1>1, <1>3, <2>2, <2>3, <2>4, <2>5
<1>4. CASE PrepareInput
    <2>1. pc = "PrepareInput" /\ \E method, contents : Prepared(method, contents)
        BY <1>4, Zenon DEF PrepareInput
    <2>. QED  BY <1>3, <2>1 DEF Prepared
<1>5. CASE PrepareInputThrows \/ SendRequestThrows \/ RedirectLoop \/ ReceiveAnswerThrows
    BY <1>3, <1>5 DEF PrepareInputThrows, SendRequestThrows, RedirectLoop, ReceiveAnswerThrows,
                      Ended, Thrown
<1>6. ASSUME NEW a \in answers, ReceiveAnswer(a) PROVE StepsLeft(L)' < StepsLeft(L)
    <2>1. pc = "sent" /\ pc' \in {"loop", "ParseOutput"} /\ requested' = requested
        BY <1>6 DEF ReceiveAnswer
    <2>. QED  BY <1>3, <2>1
<1>7. CASE Finish
    <2>1. pc = "ParseOutput" /\ pc' \in Ended /\ requested' = requested
        BY <1>7 DEF Finish, ParseOutput, ParseOutputToFile, FlushFails, Saves, ParseOutputThrows,
                    Ended, Thrown
    <2>. QED  BY <1>3, <2>1
<1>. QED
    BY <1>2, <1>4, <1>5, <1>6, <1>7 DEF Next, Prepare, Send, Receive

\* A call ends if its servers redirect it to finitely many locations, however many URLs they make with
\* what they omit: each of its steps lowers the number of steps that are left.
THEOREM CallEndsInTime ==
    ASSUME NEW CONSTANT L, IsFiniteSet(L)
    PROVE  Spec /\ LocationsAreIn(L)
             => [](StepsLeft(L) \in Nat) /\ [][StepsLeft(L)' < StepsLeft(L)]_vars
<1>1. Init /\ LocationsAreIn(L) => Reaches(L)
    BY InitReaches
<1>2. Inv /\ URLInv /\ Reaches(L) /\ [Next]_vars => Reaches(L)'
    BY NextReaches
<1>3. Inv /\ URLInv /\ Reaches(L) /\ [Next]_vars => [StepsLeft(L)' < StepsLeft(L)]_vars
    BY StepsDecrease
<1>4. StepsLeft(L) \in Nat
    BY StepsLeftType
<1>. QED
    BY <1>1, <1>2, <1>3, <1>4, Invariance, URLInvariance, PTL DEF Spec

=============================================================================
