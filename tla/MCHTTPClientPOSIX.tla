-------------------------- MODULE MCHTTPClientPOSIX --------------------------
(* HTTPClientPOSIX for every kind of request and response, with servers that *)
(* answer with up to three of a set of redirects, or with an answer that is none.    *)
EXTENDS HTTPClientPOSIX, TLC

MCWords == {"http", "meh", "a", "b", "x", "?u=http", "80", "8080"}
MCNumbers == ("80" :> 80) @@ ("8080" :> 8080)

http(rest) == <<"http", ":", "/", "/">> \o rest
meh(rest) == <<"meh", ":", "/", "/">> \o rest

\* The URLs of the tests: with and without protocol, port and path, and a port left empty.
MCRequestURLs ==
    {<<"a">>, <<"a", ":", "/", "x">>, http(<<"a", ":", "80", "/", "x">>),
     http(<<"a", ":", "8080">>), meh(<<"a">>)}

\* Locations, with everything that can be omitted omitted.
PlainLocations ==
    {<<"/", "x">>, <<":", "8080", "/", "x">>, <<"b">>, http(<<"/", "x">>),
     http(<<"b", "/">>), meh(<<"b", ":", "80", "/", "x">>), meh(<<"a", "/", "x">>)}
\* A path with a URL in its query.
URLInQuery == <<"/", "?u=http", ":", "/", "/", "b", "/", "x">>

Answer(code, location, body) == [code |-> code, location |-> location, body |-> body]
Final == {Answer(200, <<>>, "page"), Answer(201, <<"b">>, "page"), Answer(304, <<>>, "")}
MCLocations == PlainLocations \union {URLInQuery}
MCAnswerSets ==
    {Final \union {Answer(302, l, "moved") : l \in {k, m, n}} : k, m, n \in MCLocations}

Request(kind, url, body, file_name) ==
    [kind |-> kind, url |-> url, body |-> body, file_name |-> file_name]
MCRequests ==
    {Request("GET", url, "", "") : url \in MCRequestURLs}
      \union {Request("POST", <<"a">>, "data", ""), Request("POSTFromFile", <<"a">>, "", "f1"),
              Request("POSTFromFile", <<"a">>, "", "f2")}
MCResponses ==
    {[kind |-> "KeepResponseInMemory", file_name |-> ""],
     [kind |-> "SaveResponseToFile", file_name |-> "f1"]}
MCCalls == [request : MCRequests, response : MCResponses]

MCFiles == ("f1" :> "data") @@ ("f2" :> "no file")
AnyError == {"read", "open", "write", "flush"}
=============================================================================
