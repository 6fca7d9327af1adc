---------------------------- MODULE MCHttpServer ----------------------------
(***************************************************************************)
(* HttpServer with three connections and two workers, and the requests of  *)
(* the Qt client that a worker reads, with buffers of a few characters.    *)
(***************************************************************************)
EXTENDS HttpService

Jwt == <<"jwt">>

\* Bytes in which the server would find separators, had it still been looking.
Json == <<"{", ":", "%", "4", "1", " ", CR, LF, CR, LF, "}">>

Client(op, id, token, body) == [op |-> op, id |-> id, token |-> token, body |-> body]

ClientRequests ==
    {Client(op, <<>>, Jwt, <<>>) : op \in {"me", "users", "rooms", "logout"}}
    \union {Client(op, <<>>, <<>>, Json) : op \in {"login", "refresh"}}
    \union {Client(op, <<>>, Jwt, Json) : op \in {"register", "createRoom"}}
    \union {Client("deleteUser", <<"1", "2">>, Jwt, <<>>),
            Client("deleteRoom", <<"room", ":", "5">>, Jwt, <<>>)}
    \union {Client("history", id, Jwt, <<>>) : id \in {<<"7">>, <<"room", ":", "5">>}}
    \union {Client("send", id, Jwt, Json) : id \in {<<"7">>, <<"room", ":", "5">>}}

=============================================================================
