----------------------------- MODULE URLParser ------------------------------
(***************************************************************************)
(* URLParser (bricks/net/api/url.h): a URL is split into protocol, host,    *)
(* port and path, what it omits is taken from a previous URL or a default,  *)
(* and the parts are put together again.  A URL is a sequence of tokens:    *)
(* ":", "/" and the words between them.                                      *)
(***************************************************************************)
EXTENDS Integers, Sequences

CONSTANTS
    Words,   \* the words URLs are made of
    Numbers  \* for each word that is a port number, that number

ASSUME URLAssumption ==
    /\ {":", "/"} \intersect Words = {} /\ "http" \in Words
    /\ DOMAIN Numbers \subseteq Words
    /\ \A w \in DOMAIN Numbers : Numbers[w] \in Nat \ {0}
    /\ \A v, w \in DOMAIN Numbers : Numbers[v] = Numbers[w] => v = w
    /\ \E w \in DOMAIN Numbers : Numbers[w] = 80

Tokens == Words \union {":", "/"}
URLs == Seq(Tokens)

kDefaultProtocol == <<"http">>

\* The members of URLParser.
ParsedURLs ==
    [protocol : URLs, host : URLs, path : URLs, port : Nat]

\* The arguments a URL without a previous one is parsed with.
NoPrevious == [protocol |-> kDefaultProtocol, host |-> <<>>, path |-> <<"/">>, port |-> 0]

DefaultPortForProtocol(protocol) == IF protocol = <<"http">> THEN 80 ELSE 0

\* std::string::find from position `from`; one past the end stands for npos.
Find(url, token, from) ==
    CHOOSE i \in from..(Len(url) + 1) :
        /\ i = Len(url) + 1 \/ url[i] = token
        /\ \A j \in from..(i - 1) : url[j] # token

\* Where "://" is in the URL.
Separators(url) ==
    {i \in 1..(Len(url) - 2) : SubSeq(url, i, i + 2) = <<":", "/", "/">>}
FirstSeparator(url) ==
    CHOOSE i \in Separators(url) : \A j \in Separators(url) : i <= j

\* atoi of what follows position `i`: 0 unless a number is there.
AtoiMutant(url, i) ==
    IF i < Len(url) /\ url[i + 1] \in DOMAIN Numbers THEN Numbers[url[i + 1]] ELSE -1
Atoi(url, i) ==
    IF i < Len(url) /\ url[i + 1] \in DOMAIN Numbers THEN Numbers[url[i + 1]] ELSE 0

\* `s`, or what it was before if the URL omits it.
OrElse(s, previous) == IF s = <<>> THEN previous ELSE s

\* The port named after `colon`, if that is before `slash`, or the previous one.
PortOrPreviousMutant(url, colon, slash, previous) ==
    IF colon < slash THEN Atoi(url, colon) ELSE 0
PortOrPrevious(url, colon, slash, previous) ==
    IF colon < slash THEN Atoi(url, colon) ELSE previous.port

\* The constructor of URLParser.
Parse(url, previous) ==
    LET named == Separators(url) # {}
        past_protocol == IF named THEN FirstSeparator(url) + 3 ELSE 1
        colon == Find(url, ":", past_protocol)
        slash == Find(url, "/", past_protocol)
        protocol == OrElse(IF named THEN SubSeq(url, 1, FirstSeparator(url) - 1) ELSE <<>>,
                           OrElse(previous.protocol, kDefaultProtocol))
        port == PortOrPrevious(url, colon, slash, previous)
    IN  [protocol |-> protocol,
         host |-> OrElse(SubSeq(url, past_protocol, (IF colon < slash THEN colon ELSE slash) - 1),
                         previous.host),
         path |-> OrElse(SubSeq(url, slash, Len(url)), <<"/">>),
         port |-> IF port = 0 THEN DefaultPortForProtocol(protocol) ELSE port]

\* The word for a port.
PortWord(port) == CHOOSE w \in DOMAIN Numbers : Numbers[w] = port

ComposeURLMutant(u) == u.protocol \o <<":", "/", "/">> \o u.host \o u.path
ComposeURL(u) ==
    u.protocol \o <<":", "/", "/">> \o u.host
      \o (IF u.port = DefaultPortForProtocol(u.protocol) THEN <<>> ELSE <<":", PortWord(u.port)>>)
      \o u.path

=============================================================================
