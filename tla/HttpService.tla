---------------------------- MODULE HttpService ----------------------------
(***************************************************************************)
(* The server's workers and the requests they read: what HttpServer does   *)
(* in one step before it hands a request to its handler is HttpRequest's   *)
(* Serve.                                                                  *)
(***************************************************************************)
EXTENDS HttpServer, HttpRequest

(* A worker that has read a request hands it to the handler it was meant   *)
(* for, with the id, the token, the limit and the content the client gave, *)
(* and leaves nothing of it to be taken for the next request: in whatever  *)
(* pieces it arrived, and whether or not its characters were escaped.      *)
RequestsAsSent == (\E w \in Workers : At(w, "handle")) => ServedAsMeant

=============================================================================
