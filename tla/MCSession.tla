------------------------------ MODULE MCSession ------------------------------
(* Model checking Session: the constants are given in the configurations. *)
EXTENDS Session
=============================================================================
