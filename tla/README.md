# TLA+ verification of AlohaStatsClient

AlohaStatsClient is a small statistics client for mobile applications. Its core is
*Bricks*, a C++ library of header files that does HTTP over POSIX sockets. This
directory holds TLA+ models of that core, TLC configurations that check them on small
instances, and theorems about them with proofs checked by TLAPS. Paths below are
relative to the repository; `net/` stands for `src/bricks/net/`.

## 1. The system

| Component | State it keeps | Operations | Interacts with |
|---|---|---|---|
| TCP connections, `net/tcp/impl/posix.h` | descriptors; the locals of a read | construction, moves, destruction; `BlockingRead` (two policies, records of any size), `BlockingReadUntilEOF`, `BlockingWrite`, `SendEOF`, close, `Accept`, `ClientSocket` | the kernel; the peer |
| HTTP message parser, `net/http/impl/server.h` `TemplatedHTTPReceivedMessage` | `buffer_`, `offset`, `length_cap`, where lines and the body are | one constructor, which reads and parses; getters | a `Connection` (called), `HTTPDefaultHelper` or `HTTPRedirectHelper` (callbacks `OnHeader`, `OnChunk`, `OnChunkedBodyDone`) |
| HTTP server connection, same file | a `Connection` and the parsed request | constructor, `SendHTTPResponse` | parser; a handler such as the one of `net/api/test.cc` |
| HTTP client (POSIX), `net/api/impl/posix.h` | request and response fields, the set of visited URLs | `Go` (a redirect loop around write-request, parse-response), `PrepareInput`, `ParseOutput` | URL parser, sockets, parser, file utilities |
| URL parser, `net/api/url.h` | protocol, host, port, path | parse with inheritance from a previous URL, `ComposeURL` | `Go` |
| API layer, `net/api/types.h`, `api.h` | none | `HTTP(request, response)` | the client of the platform |
| File utilities, `src/bricks/file/file.h` | files | read, write, remove, scoped remove | API layer, tests |
| Aloha statistics, `src/cpp/aloha_stats.{h,cc}`, `Statistics.java` | `g_stats`, JNI references | `setupCPP`, `logEvent` (a detached thread per event) | API layer, JNI |
| HTTP client (Java), `net/api/impl/java.h` | request and response fields | `PrepareInput`, `Go`, `ParseOutput` | JNI: the references that `setupCPP` keeps, the transport |
| Java transport, `HttpTransport.java` | a `Params` object that carries the request in and the response out | `run` | `HttpURLConnection`, files |
| HTTP client (Apple), flags, printf, scope guard, tables | - | - | - |
| Earlier servers, `net/posix_tcp_server.h`, `net/posix_http_server.h` | - | replaced by `net/tcp` and `net/http` | only their own tests |

Behaviours that are hard:

* *Segmentation.* The kernel returns any part of what has arrived from every `::read`.
  Records, lines, headers, chunk sizes and chunks may be cut anywhere.
* *Knowing the end.* The client deliberately does not call `SendEOF` after its request
  (`net/api/impl/posix.h:58`). Both sides must find the end of a message in the message,
  and asking for one byte too many is a deadlock.
* *Buffer boundaries.* The parser keeps one byte for a `'\0'`, grows its buffer when a read
  fills it, resizes it for a body with a bound, and for a chunk without a place for the `'\0'`.
* *Peers that vanish*, during a read, between two writes, or with data still unread.
* *Redirects* through inherited hosts and ports.
* *Detached threads* that post events while the application sets up the library again,
  exits, or cannot be given another thread.
* *Objects with a second life*: descriptors that are given out again, the `Params` of a
  request that become those of its response.

What makes the components correct is stated as properties, in section 4. `PROJECT.json` lists, under
`hazards`, each place in the code where one of these can go wrong.

## 2. Modules

| Module | Models | Composition |
|---|---|---|
| `Connection` | one direction of a TCP connection: writer, kernel queue, reader | - |
| `SocketHandle` | who owns which descriptor | - |
| `HTTPHelper` | abstract: what the constructor of a message promises to its `HELPER` and its caller | - |
| `HTTPReceivedMessage` | the constructor of `TemplatedHTTPReceivedMessage` against a peer that sends a message in any pieces, ends its stream or loses the connection | implements `HTTPHelper` |
| `HTTPMessages` | the messages this code base sends, as the parser sees them; pure operators | used by the MC modules |
| `HTTPExchange` | a client thread in `Go` and a server thread with a handler, on one connection | two instances of `HTTPReceivedMessage` |
| `URLParser` | parsing and composing URLs; pure operators | - |
| `HTTPCall` | abstract: what a call of `HTTP()` promises | - |
| `HTTPClientPOSIX` | a call of `HTTP()` on POSIX: `PrepareInput`, the redirect loop of `Go`, `ParseOutput`, the files | extends `URLParser`, implements `HTTPCall` |
| `JavaTransport` | a call of `HTTP()` through Java: `Go`, `HttpTransport.run`, `ParseOutput`, the files | implements `HTTPCall` |
| `Statistics` | an application that calls `setup()` and `logEvent()`, and the threads that post | - |
| `ConnectionProofs`, `SocketHandleProofs`, `HTTPReceivedMessageProofs`, `HTTPClientPOSIXProofs`, `JavaTransportProofs`, `StatisticsProofs` | theorems | extend their modules |
| `HTTPParsingProofs` | what the parser returns is what was sent, it implements `HTTPHelper`, and it throws and waits only with a reason | extends `HTTPReceivedMessageProofs` |
| `HTTPExchangeProofs` | both sides agree, and what can go wrong between them is a full buffer | extends `HTTPExchange`; `HTTPParsingProofs` of both parsers |
| `MC...` | the instances TLC checks | extend the modules and `HTTPMessages` |

### Connection

Bytes are counted, not represented: `handed` to `BlockingWrite`, `sent` (taken by the
kernel), `taken` (returned by completed `BlockingRead`s) and `raw` (`raw_ptr -
raw_buffer` of the one in progress). A behaviour picks what the reader calls in `Init`:
`BlockingReadUntilEOF`, or a loop of `BlockingRead`s with either policy that ends when one
returns 0, as in the `EchoThreeMessages` test. One reader action is one `::read`
(`ReadSome`, `ReadNothing`, `ReadFails`) or what the caller does with the value returned
(`GrowAndReadOn`, `ReturnContainer`, `ReadNextBlock`). A write blocks while the kernel's
queue is full (`KernelTakes` moves any number of bytes that fit) and may throw after a
part has been taken. `Grow` is the code's `static_cast<size_t>(n * 1.95)`, in integers.
`kReadTillEOFInitialBufferSize` is 128; the model has `BufferLengths >= 2`, because from one
record the container would not grow (1.95 is truncated to 1) and no caller asks for one.
`BlockingReadUntilEOF` is only called on characters; the model takes any record size.

### SocketHandle

Each object of `SocketHandle` and its derived classes has a `socket_` and a `state`: how far
its constructor is, or what it is. `::socket`, `::accept` and what else the process opens get
the lowest free descriptor, as POSIX promises, so that a descriptor that is closed comes
back at once, and closing one twice closes somebody else's. A constructor that throws runs
the destructor of its base class (`Gone`). `overwritten` is a history variable: the
descriptors that `operator=` has overwritten. `infos` counts the lists that `::getaddrinfo`
allocates. Descriptor 0 is there at first or not, since the accessor takes it for none.
Threads do not share these objects; the order of the calls is any.

### HTTPReceivedMessage

A message is a set of lines, each with the position of its first byte and of its CRLF, a
header key and the number `atoi` makes of it; offsets in `buffer_` are offsets in the
stream. `parser` is a record with a field per local of the constructor, under the code's
names (`first_line` is the offset of the line `first_line_parsed` was set at, or `NotSet`,
which is `static_cast<size_t>(-1)`), the callbacks made (`headers`, `chunks`), and the
place in the code: `read` (the loop at lines 110-115), `parse` (the loop at 124-219),
`rest` (the read of the rest of a chunk, 165) or how the constructor ended. There is one
action for every branch of the loops; their guards are the code's conditions in its order.

Two conversions are kept because the properties depend on them: growth truncates, and
`buffer_.size() - offset - 1` wraps around as a `size_t` does, after which `::read` refuses
the length. Sums do not wrap, since `atoi` gives an `int` (`HTTPAssumption` says so).
`strstr` from the end of the buffer is undefined: the model lets it find nothing or lets
anything happen (`undefined`). Negative numbers in lengths, header lines without `": "`,
and chunk sizes of more than a digit (which the code reads as decimal) are not modelled:
the senders of this code base do not produce them.

What a sender means by a message is said of its lines alone (`IsMeantBy`), not of how anybody
parses it: the first line that is not blank, the headers up to the next blank line, and the body
they announce. `MessageAssumption` is that the `result` of a message is that, and that
its lines do not overlap; TLC evaluates it for every message of the runs. `IsWhole` says, in
the same terms, that nothing is missing from what the peer may send (`IsAllThere`): each line up to the
end of the headers, and each around a chunk, is followed by the next, and the body is all there. It
is what a receiver may rely on when it is asked whether a peer has sent what it should.

`HTTPMessages` builds messages piece by piece in the order in which `Go`,
`SendHTTPResponse` and the chunked handler of the test write them, records after which
piece a `BlockingWrite` ends, and gives the result a receiver should come to. The texts are
scaled down to a byte or so: nothing but lengths and CRLFs matters to the parser.

### HTTPHelper

The constructor as the class it is derived from sees it, `HTTPDefaultHelper` or
`HTTPRedirectHelper`: `OnHeader` is called with the headers in their order, each once, when its
line has been received; then `OnChunk` with the chunks in theirs; then the constructor returns, with all of
the message's body received (`OnChunkedBodyDone` is a part of that step), or it throws. Nothing is said
of lines, buffers, reads and the place in the code. After a chunk `GoAstray` allows anything to happen, as
a search past the end of the buffer is undefined.

### HTTPExchange

The client writes a request, one `BlockingWrite` per step, parses the response and closes;
the server parses, handles, writes a response and closes, as the test's server does. Each
side's parser is an instance of `HTTPReceivedMessage` whose `sent` and `peer` are what the
other side has written and how its direction ended. A close with unread bytes is a reset;
a write to a side that has closed succeeds and is answered by a reset; a write to a
connection that has been reset fails (the process gets SIGPIPE, or `BlockingWrite` throws).
Either process may die at any point if the exchange says that it is `mortal`. `BlockingWrite` of these short
messages is atomic here; `Connection` is where the kernel's queue is full.

### URLParser and HTTPClientPOSIX

A URL is a sequence of `":"`, `"/"` and words, so that what the code finds with
`std::string::find` is where the model finds it, a `"://"` in a query included. `Parse`
is the constructor with a previous URL, `ComposeURL` its inverse. Port numbers are words
with a value; negative ones and trailing text after a number are not modelled.

`HTTPClientPOSIX` models the whole of `HTTPClientImpl::operator()`: the request may be a GET, a
POST or a POST from a file, the response kept or saved to a file. `SendRequest` is an
iteration of the loop of `Go` up to the constructor of the message, `ReceiveAnswer` the rest of
it; the answer is any of those of the behaviour. Every failure is an action: reading the
file, resolving, connecting and writing, receiving, and opening, writing and flushing the
file of the response. `requested` is a history variable: where requests have been sent.

### HTTPCall and JavaTransport

`HTTPCall` has three actions: a server answers, the call returns, the call fails. Its
operator `Delivered` says what a client returns for an answer; each client gives its own.
Both clients map `outcome` to where their call is, `answer` to the last answer, and `result`
to the response, in which a saved body is what the file contains.

`JavaTransport` models `Go` up to the call of `run` (`Go`), the two ways of sending, the head
of the answer, and the loop that reads the body: one `ReadsPiece` is one `istream.read`, of any
size up to the buffer's. A body is a number of bytes of the server's answer, so that the model
tells the posted bytes, those of a file and those of the answer apart, and a prefix from
the whole. Every call of `Go` or `run` may throw; then the call fails, by an exception or, on
Android, by an empty response, and a file keeps a part of what its stream has been given.
`HttpURLConnection` follows redirects on its own and is external. A body that ends
before Content-Length is returned as it is. Not modelled: the user agent, the URL after
redirects, the content type of the answer, and `GetByteArrayElements` running out of memory.

### Statistics

The application's thread calls `setup()`, which is `setupCPP` (the engine, then each
assignment to the singleton, any of which may find a Java exception), and `logEvent()`, in any
order. Each event has one thread, which copies the singleton field by field, fails or
posts, and gets an answer or fails. `httpParamsClass` is first a local reference,
as `FindClass` returns it, then a global one; posting with the former is undefined, and the
model lets it work, fail or crash. A call of `HTTP()` that fails throws except on Android, and nobody
catches it. `room` is how many threads the system allows; there may be fewer than events.
`jvm`, which is set when the library is loaded, is always there. The application calls from one thread:
the demo's does, and nothing in the library would make two safe.

## 3. Fairness

The reader, the parser and the two HTTP threads are weakly fair: each is one thread that
runs unless it is blocked in a system call, and a blocked call has no enabled action. The
client's call in `HTTPClientPOSIX` is fair, which includes that a request is answered or
fails: there are no timeouts in the POSIX client, and `HTTPExchange` shows when a server answers. The
kernel is fair in `Connection`: it takes bytes while it has room for them. Nothing obliges
a writer to call anything, a peer to send or end anything, or a process to die or not.
Crashes are not fair. The
threads of `Statistics` are fair one by one, since the transport sets timeouts for connecting and
reading (`HttpTransport.java:52`); a server that sends a byte now and then keeps a thread
for longer, which fairness does not exclude as each read makes progress, and a body ends at some
point. `SocketHandle` and `JavaTransport` have only safety properties and no fairness. Deadlock
checking is off in every run: a completed exchange or call stops, and an application that has
exited, too.

## 4. Runs

| Run | Instance | What it shows |
|---|---|---|
| `connection` | up to 8 bytes, queue of 3, records of 1-3 bytes, buffers of 2 and 3 records | below |
| `parser` | 7 messages of 10-32 bytes, 13 buffer sizes | below |
| `parser_closed` | the same | a violation: section 5 |
| `exchange` | 2 requests, 3 responses, buffers from smaller than a message to larger than both, nobody or either process mortal | below |
| `exchange_large_post` | one POST, one buffer size | a violation: section 5 |
| `client` | 16 calls, 92 sets of answers with up to three redirects each | below |
| `client_path`, `client_disk` | the same | violations: section 5 |
| `sockets` | 3 objects, descriptors 0 to 3, 2 connections that fail | below |
| `statistics` | 2 events, 2 servers, 2 calls of `setup()`, room for 1 or 2 threads | below |
| `java` | 11 requests and 3 responses, 90 answers, 2 files, a buffer of 2 bytes | below |
| `java_posted_body` | the same | a violation: section 5 |

`connection`
: `NeverWritesPastTheBuffer`: no `::read` is given room beyond the caller's buffer.
`RecordsNeverTorn`: only whole records are returned, and the exception for a torn record
means that the whole stream ended within one. `EverythingSentIsReturned`: a normal end has
every byte that was sent, in a container of exactly that size. `ShortFillOnlyAtTheEnd`:
with `FillFullBuffer` a short count is the end of the stream, which is what
`BlockingReadUntilEOF` relies on. `ReaderReturnsOnceEnded` and `WriterIsNotStuck`: neither
side waits for ever. A queue of 3 is smaller than two records, streams of 8 take up to
three growths of a container, and both the buffer and the stream end on and off records.

`parser`
: `ResultIsWhatWasSent` is the contract: whatever the cuts, buffer sizes and interleavings,
a message that is accepted is the one that was sent. `ImplementsHTTPHelper` says the same of
the callbacks made before that: each header and chunk once, in order, none before it has been received,
nothing after the end. `RoomForWhatIsRead`: what is read is within
`buffer_`, as is the `'\0'` except in chunked bodies; `PastTheEndOnlyAfterAChunk` says where
that exception bites: only a chunk that ends with the buffer takes the search for a CRLF past its end.
`ContentLengthIsNotTrusted`: until bytes arrive the buffer grows by at most `MaxGrowth` on
the peer's word. `ClosedIsExplained`: when `HTTPConnectionClosedByPeerException` is thrown, the
peer has closed without having sent a whole message, or the rest of a chunk came in more than one piece, or
the message is all there but its last byte filled the buffer (`FilledByTheEnd`).
`EndsOncePeerHasEnded`: no spinning, no waiting for a peer that has gone.
`ShortMessageNeedsNoEOF`: a message that leaves two bytes of the buffer unused is accepted
without the end of the stream. The buffer sizes hold every relation of a message to its
buffer: smaller, equal, one or two bytes more, with none to four growths, and the messages a
body that looks like headers and a Content-Length far beyond what is ever sent.

`exchange`
: `EveryRequestIsAnswered`: without either side ending its stream first, the exchange
completes and both threads are free again, if nobody dies and no message ends where the buffer is full
(`Fits`; otherwise there are the deadlocks and false exceptions of section 5). What may happen in
all the other exchanges is said by three more properties. `NobodyThrowsUnlessFull`: while nobody dies, the server's
constructor never throws, and the client's only after a response whose last byte has filled its buffer,
once the server has closed. `DeadlockOnlyIfFull`: whoever dies, both sides are blocked in `::read` with each other
still there only if the last byte of the request has filled the server's buffer. `NoWriteAfterReset`: the last
CRLF of `SendHTTPResponse` may be written after the client has closed, and this is
harmless because it is the last write. Those that ask that nobody dies are about an
`Undisturbed` exchange, in which the chunks of a chunked response also come in one piece and fit into
the buffer (they are one byte long, as those that the handler of the test sends; the run `parser_closed` shows what
happens to others). The other two hold of every exchange: `BothSidesAgree`: requests and responses are
accepted only as sent, a response only after its request, and nobody takes a prefix of a message for
the message. `NeitherSideIsLeftWaiting`: when one side is finished, has thrown or is dead, the
other ends too. A client that has searched past the end of its buffer is excepted: nothing is
known of it.

`client`
: `RedirectLoopIsReal`: the texts in `all_urls` stand for URLs one to one, so that no URL is requested
twice and none is refused that was not. `ResponseIsFromReportedURL`: the URL reported leads
to where the response came from, after redirects that omit anything. `EndsUnlessLedToNewURLs`: `Go` has no
limit on redirects, so that servers that give another location each time can keep it busy for ever; but then it
requests new URLs for ever. In any other case, such as the finite sets of locations of the run, the call
returns or throws. `PlainPathStaysOnServer`: a path is looked up on the server that
sent it. `ImplementsHTTPCall`: the call ends at most once, and what it returns is the last answer, in the file,
too; on a full disk the file may have nothing instead, but not what it had before nor what was sent from it. Up to
three redirects, in any order, make every chain from one location to another, through a third, and back, with
two protocols, hosts, ports and paths: up to eight requests.

`sockets`
: `DescriptorsHaveOneOwner`: no two objects hold one descriptor, and what an object holds is open
and its own; so the destructors close everything once. `LeaksAreKnown`: what is left open and
allocated is exactly what the code is known to leave: the descriptor a move assignment
overwrites, the addresses of a connection that failed.

`statistics`
: `PostedWhereLogged`: an event goes to the server of the `setup()` before it, whatever comes
after. `CopiesAreUsable`: a torn or an unusable copy of the singleton needs a `setup()` that
began after the event was logged, or that threw. `WellBehavedAppSurvives`: on Android, what crashes
the application is logging without a successful `setup()`, calling `setup()` while events are on their
way, or too many of them; no failing server or network does. `ThreadsEnd`: every thread ends, so that there is room for others.

`java`
: `ImplementsHTTPCall`: as for POSIX; what is delivered is the answer's body up to its Content-Length if the code is 200, else
what the file had before, or what was posted. `FilesAreKept`: files other than the one named for the
response do not change, and that one only after a code 200, to a prefix of the body.
Bodies of 3 and 4 bytes against lengths of 0, 2, 3, 5 and none, in pieces of 1 and 2, end before, at and behind
the length, within and between pieces.

The bounds: `MaxBytes`, `Capacity`, `RecordSizes` and `BufferLengths` (`Connection`);
`Messages`, `InitialBufferSizes` and `MaxGrowth` (parser), scaled down from 1600 bytes
and 1 MB; `SizeMax`, 65535, is larger than any sum of lengths, which is all that
matters about it; `Exchanges`; `Words`, `Numbers`, `Calls` and `AnswerSets` of the client; `Objects`, `MaxDescriptor` and `MaxFailures` (sockets); `Events`, `Servers`, `MaxSetups`, `MaxThreads` (statistics); `Answers`, `Files` and `BufferSize` of the transport. Two objects are enough to move between and one more to get a descriptor that is closed; two events and two calls of `setup()` to log before, between and after.

Every property is paired with a mutant, a plausible bug in one definition that makes
TLC find it violated; the mutants stand before the definitions they replace.

## 5. What the code does not promise

* `parser_closed`. The comment at `server.h:74` says that
  `HTTPConnectionClosedByPeerException` is thrown when a chunked transfer is not fully
  sent. It is also thrown for a complete message: if its last byte fills the buffer up to
  the place of the `'\0'`, the read loop reads again without asking whether the message is
  complete, and an end of stream then counts as a message cut short. (It is also thrown for a
  complete chunked message if the rest of a chunk arrives in pieces.)
* `exchange_large_post`. A Content-Length body that does not fit into the initial buffer
  makes the code resize the buffer to exactly `length_cap + 1`. The body's last byte then
  always fills it, the loop reads again, and since the client keeps its end open and waits for
  the response, neither side ever moves. The comment at `server.h:202` announces "without
  extra resizes". The same happens to any message whose last byte fills a buffer.
  In a response it is the CRLF after the body that can end there: if the client has not
  stopped before, it reads again, and throws once the server has closed.

* `java_posted_body`. A response's `body` is the "returned HTTP body" (`types.h:112`), but the
  transport replaces `p.data`, which has the body of the request, only if the code is 200: any other
  answer to a POST returns what was posted.
* `client_path`. A previous URL is given "to properly handle redirect URLs with omitted fields"
  (`url.h:21`), but a location that is a path with a URL in its query is taken for
  a URL with a protocol, and followed to another host.
* `client_disk`. `body_file_name` is "the file name into which the returned HTTP body has been
  saved" (`types.h:116`). The stream is closed by its destructor, which does not throw, so that a
  response is returned although its body could not be written.

## 6. Proofs

TLAPS proves, for every set of messages, buffer size and bound allowed by
`HTTPAssumption`, these theorems of `HTTPReceivedMessageProofs`: `TypeCorrect`,
`ReadsFit`, `SearchesWithinTheBuffer` and `LengthIsNotTrusted`, which
state `TypeOK`, `RoomForWhatIsRead`, `PastTheEndOnlyAfterAChunk` and
`ContentLengthIsNotTrusted`. The assumptions are that
buffers have at least two bytes, that lines end within their message, that at most one line
begins at an offset, and that sums of offsets and lengths stay below `SizeMax`.

None of the invariants is inductive. The invariant that is, `Inv`, adds to them
what the loops keep: `current_line_offset` is at most `offset` while lines are read, except
that after a chunk it is where the chunk ends; while the constructor reads and no chunk has
been seen the buffer has at least one free byte, so that `chunk` does not wrap around;
`body_offset` and `length_cap` are set together; while a rest is read there is a chunk-size
line at `current_line_offset` and the buffer has room for all of the chunk. Each
action preserves it (one lemma or step per action), and the properties follow from it.
Lemmas on `Grow` (it grows by at least one from two, and stays below twice) carry the
arithmetic.

The module also proves `ConstructorEndsInTime`, that the loops of the constructor end: each of its steps
lowers `StepsLeft`, three for each byte that it has not read, one for each that is not behind
`current_line_offset`, and one to three for where it is in the loop; only its peer raises it, by
sending. `ReaderEndsInTime` of `ConnectionProofs` is the like for `BlockingRead` and `BlockingReadUntilEOF`.

`HTTPParsingProofs` proves from it and from `MessageAssumption` the contract of the parser,
`AcceptedAsSent` (`ResultIsWhatWasSent`), and that chunks come in order (`ChunksAreInOrder`), for every message,
buffer size and segmentation. Its invariant, `ParsedInv`, says what has been parsed at each stage:
before the first line, all lines before `current_line_offset` are blank (`BeforeFirstLine`); in
the headers, `headers` and the lengths found are those of the lines between the first line and
`current_line_offset`, none of which is blank (`InHeadersOf`); after the blank line, `length_cap` and the body are
those the headers announce (`InBody`), or `chunks` is a prefix of the chunks that were sent and the lines since
its end are blank (`InChunksAfter`). It is preserved because the next line that is not blank is
unique, as is the first blank one after the first line: what the search for a CRLF finds and
what the sender meant are then the same line. A search past
the end of the buffer finds nothing, or ends the constructor as `undefined`, which accepts nothing.

The same module proves `HelperIsCalledInOrder`: `Spec => ImplementsHTTPHelper`, for the same messages. Each
line of the headers that is parsed is the next of `HTTPHelper`'s, since those before it are the lines seen
(`HeaderIsNext`); a chunk that is taken is the next one that was sent, and has been received (`ChunkIsNext`); the
constructor returns with all of the body (`ConstructsTheMessage`); every other step calls nothing, and
receives at most. Only after a chunk can a search past the end of the buffer lead astray.

It also proves when the constructor throws and waits: `ClosedIsJustified`
(`ClosedIsExplained`), and `NeverWaitsForNothing`: when it is blocked in `::read` with the peer still there and the message
is whole, then a part of the message has not been sent, or the last byte of the message has filled the
buffer. The invariant is `WholeInv`, about whole messages (`IsAllThere`): the parser is always at
a place where a line begins (`AtALine`, so that, while it looks for one, there is one to come); when it goes
back to reading, not all of the message has been read, or the read loop has just grown a buffer that the end of
the message filled (`ReadsForMore`); the buffer is not larger than the initial one, or one the message
grows it to, and what Content-Length may add once (`SizeIsBounded`, so that `chunk` is a length that `::read`
accepts); each exception has its reason (`ErrorsAreExplained`); and the constructor returns no earlier than
at the end of what it needs (`EndIsReached`).

`HTTPExchangeProofs` proves all the invariants of the run `exchange`, for any exchanges with either process
mortal: `TypeCorrect` and `Agreement` (`TypeOK` and `BothSidesAgree`), `EveryWriteSucceeds`
(`NoWriteAfterReset`), `OnlyAFullBufferThrows` (`NobodyThrowsUnlessFull`) and `OnlyAFullBufferDeadlocks`
(`DeadlockOnlyIfFull`). `ExchangeAssumption` asks that requests and
responses fulfil the assumptions of the parsers, and that a message's last `BlockingWrite` ends with it;
`WholeAssumption`, that both sides mean to write whole messages, that a request is not chunked and ends where its body does
(`Go` writes nothing after it), that at most one write, the last CRLF, follows what the client needs of a
response, and that no buffer grows to a length that `::read` refuses. TLC evaluates both for the exchanges
of the run, which `HTTPMessages` builds as the code does. The
theorems about the parser are used twice, through instances of `HTTPParsingProofs` with each
side's state: a step of the exchange is, for each side, a step of its parser, of its peer, or none.
The invariant adds `InTurn`: the server writes only after it has parsed, the client parses nothing
unless the server has written, an end is closed only by a thread that is gone, and a client that reads has written all of its request.
That `AfterNextWrite` exists follows from the well-foundedness of `<`.

With `InTurn`, `WholeInv` of the server's parser is enough for `OnlyAFullBufferDeadlocks`. The other two need
the order in which an undisturbed exchange ends (`Orderly`). The client closes only when it has had all that
it needs of the response; so the server has parsed the request by then (`ClosesAfterRequest`), and what
it still has to write is at most the last CRLF, in one write (`NoMoreThanTheLastWrite`). That write
succeeds and ends the response, and no other meets the reset it may cause. The server closes only after all of the response, with
nothing of the request unread, so that the client is not reset, and throws only where `ClosedIsExplained` lets it: the
message is all there, its chunks are one byte long and never split, and so its end has filled the buffer. `Orderly` is
inductive only together with `Inv`, which has `WholeInv` of both sides.

The last two theorems say how an exchange ends. `ExchangeEndsInTime`: every step of either side lowers
`StepsLeft`, the sum of the measures of both parsers, five for each byte that is still to be written (it costs the writer
one step and the parser at most four) and the `Turns` that are left. `NobodyIsLeftWaiting`: when each side
is gone or blocked in `::read`, then both are gone, or both wait and the end of the request has filled the
server's buffer.

`ConnectionProofs` proves, from `ConnectionAssumption` (sizes of records are positive, buffers have
at least two records, the queue at least one byte), `TypeCorrect`, `WritesFit`,
`RecordsAreWhole`, `StreamIsReturned` and `ShortFillMeansEnd`, which state the five
invariants of the run `connection`. Its inductive invariant `Inv` says that bytes are
read no earlier than sent (`SentInv`), that `BlockingReadUntilEOF` has `offset` whole records and
room for more (`BufferInv`, which needs `GrowGrows`: the container grows from two records on),
and what a returned count means: 0, or a short count with `FillFullBuffer`, is the end
of the stream with every byte of it looked at (`ReturnInv`). The writer's steps preserve the
reader's part because nothing is sent after the end; the arithmetic is in lemmas on
quotients and remainders. `ReaderEndsInTime` has a measure of the reader's steps, three for each byte on its way and
up to four for where it is. `WritesMove` says that a `BlockingWrite` in progress does not stand still: the queue
has room, the reader has something to take or is about to return, or the write throws.

`SocketHandleProofs` proves `TypeCorrect`, `OneOwner` and `KnownLeaks`, the invariants of the run
`sockets`, for any finite set of objects and any number of descriptors. Its invariant adds that an
object which is absent has no descriptor, and that one under construction has; counting
`infos` needs that `connecting` objects come and go one at a time.

`StatisticsProofs` proves `TypeCorrect`, `PostedThere`, `Usable` and `Survives`, the invariants of
the run `statistics`, for any events, servers and bounds. The invariant says what the singleton may hold at
each step of `setupCPP` and after it, and relates each thread's copy to the number of
`setup()` calls when its event was logged.

`HTTPClientPOSIXProofs` proves, for any URLs over any words, `TypeCorrect`, `LoopIsReal`, `ReportedURLAnswers` and
`PathStaysOnServer` (`TypeOK`, `RedirectLoopIsReal`, `ResponseIsFromReportedURL` and
`PlainPathStaysOnServer`). The fact behind them is the lemma `RoundTrip`: parsing what `ComposeURL` returns
gives back the URL. It holds of every URL that has been parsed (`WellFormed`), because a
protocol has no `"://"`, a host no `":"` or `"/"`, a path begins with `"/"`, and a port is
a number with a word. The first two are so because `std::string::find` returns the smallest position, which exists
because `<` is well-founded. Then the texts in `all_urls` are those of the URLs requested, one to one (`URLInv`).

The same module proves `CallEndsInTime`, what `EndsUnlessLedToNewURLs` comes to when the locations of the redirects are a finite
set, of any size. What they omit makes more URLs of them, but no more than `Reachable`, whose parts are
those of the locations (`ParseIsReachable`): that set is finite, too (`ReachableIsFinite`). By
`VisitedMeansRequested` each request is of another URL of `Reachable`, and so each step lowers `StepsLeft`, two for
each URL in it that has not been requested, and what comes after the last.

`HTTPClientPOSIXProofs` and `JavaTransportProofs` each prove `Refinement`: `Spec => ImplementsHTTPCall`,
for any calls, answers, files and errors. The invariant of the first ties the client's code to the last
answer's; that of the second says that `bytesExpected + written` is Content-Length while the
loop of `run` reads, that all that has arrived is written, and so that at the end of the loop what is
written is the body; also, which file or field holds it until `ParseOutput`. The latter module
also proves `TypeCorrect` and `Kept` (`TypeOK` and `FilesAreKept`), from `JavaAssumption`: code,
length and size of an answer are numbers or -1, a file to save to has a name.

Every invariant and refinement that a run checks is stated by a theorem. Only model-checked are the liveness
properties, as liveness under fairness is out of the prover's reach, as are `ENABLED` and induction over data: that what
`HTTPMessages` builds with a fold fulfils the assumptions is evaluated by TLC for the messages of the runs.
Of `ReaderReturnsOnceEnded`, `WriterIsNotStuck`, `EndsOncePeerHasEnded`, `EveryRequestIsAnswered` and
`NeitherSideIsLeftWaiting` the part about states and steps is proved, as above: that each step is one fewer to
take, and who may be blocked when. What is left to TLC of these is fairness, that a thread that can take a step
takes it, and, for `EveryRequestIsAnswered`, that the last step leads to an answer.
So it is of `EndsUnlessLedToNewURLs` for finitely many locations (`CallEndsInTime`).
`ShortMessageNeedsNoEOF` and `ThreadsEnd` have no such theorem yet.

## 7. Not modelled, and what is left

* The earlier servers (`net/posix_tcp_server.h`, `net/posix_http_server.h`) are a version of
  `net/tcp` and `net/http` that these have replaced; only their own tests include them, and
  `posix_http_server.h` does not compile: it throws two exceptions that nothing declares.
* The Apple client copies fields to and from `NSURLConnection`, which is external.
* `dflags.h` and `printf.h` are used by the tests only. `RemoveFile` and `ScopedRemoveFile`, too.
* The scope guard, tables of codes, exception types and umbrella headers have no behaviour of their own.
* The accept loop of a server: `HTTPExchange` has one connection. Negative lengths, header lines
  without a separator and chunk sizes of several digits, which this code base does not send.
* The vendored gtest and cereal, nearly all of the lines of the repository, which the library does
  not call.

What is left to do: a measure for `ThreadsEnd`, and an abstract exchange, of one request
and one response, that `HTTPExchange` implements.
