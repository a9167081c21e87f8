--------------------------- MODULE MCHTTPExchange ---------------------------
EXTENDS HTTPExchange, HTTPMessages

MCRequests == {Request(0, 0), Request(2, 2)}
MCResponses == {Response(0, 0), Response(1, 9), ChunkedResponse(<<1, 1>>)}
MCBuffers == {13, 14, 18, 21, 22, 26, 30, 40}

Mortal == {{}, {"client", "server"}}

\* Buffers that are larger than the messages, full, or grown; and some too small for the request.
MCExchanges ==
    [request : MCRequests, response : MCResponses, buffer : MCBuffers, mortal : Mortal]
      \union [request : MCRequests, response : {ChunkedResponse(<<3>>)},
              buffer : {7, 12, 16, 20}, mortal : Mortal]

\* A POST whose body does not fit into the initial buffer.
MCLargePost ==
    {[request |-> Request(0, 9), response |-> Response(0, 2), buffer |-> 16, mortal |-> {}]}
=============================================================================
