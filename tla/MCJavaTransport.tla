--------------------------- MODULE MCJavaTransport ---------------------------
(* JavaTransport for every kind of request and response, and answers whose     *)
(* body is shorter than, as long as or longer than announced, or not announced. *)
EXTENDS JavaTransport, TLC

Bytes(of, n) == [of |-> of, bytes |-> n]
MCFiles == ("f1" :> Bytes("file", 2)) @@ ("f2" :> Bytes("none", 0))
MCNoFile == Bytes("none", 0)

Request(kind, body, file_name, content_type) ==
    [kind |-> kind, body |-> body, file_name |-> file_name, content_type |-> content_type]
MCRequests ==
    {Request("GET", Empty, "", FALSE)}
      \union {Request("POST", body, "", t) : body \in {Empty, Bytes("request", 2)}, t \in BOOLEAN}
      \union {Request("POSTFromFile", Empty, f, t) : f \in {"", "f1", "f2"}, t \in BOOLEAN}
MCResponses ==
    {[kind |-> "KeepResponseInMemory", file_name |-> ""]}
      \union {[kind |-> "SaveResponseToFile", file_name |-> f] : f \in {"f1", "f2"}}
MCCalls == [request : MCRequests, response : MCResponses]

MCAnswers == [code : {-1, 200, 404}, length : {-1, 0, 2, 3, 5}, gzip : BOOLEAN, stream : {0, 3, 4}]
=============================================================================
