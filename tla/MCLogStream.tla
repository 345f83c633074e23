----------------------------- MODULE MCLogStream -----------------------------
(* Model checking LogStream: the constants are given in the configuration. *)
EXTENDS LogStream
=============================================================================
