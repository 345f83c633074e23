------------------------------ MODULE MCProxy ------------------------------
(* Which listening and connecting schemes are put together. *)
EXTENDS Proxy

\* Every pair that comes to an end: a tcp, tls or websocket listener with any
\* Connect but postgres+listen, an http listener with one that reads.
EndingPairs ==
  ({"copies"} \X (ConnectKinds \ {"subscribe"}))
    \cup ({"request"} \X {"copies", "post", "graphql"})
=============================================================================
