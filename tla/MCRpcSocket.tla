---------------------------- MODULE MCRpcSocket ----------------------------
(* A client that sends one request and one call, a connection that sends one *)
(* request, and one thread at each end that closes.                          *)
EXTENDS RpcSocket

CONSTANTS req, call, note, closer1, closer2

MCEndOf == [u \in Requests \cup Closers |->
                IF u \in {req, call, closer1} THEN Client ELSE Connection]
=============================================================================
