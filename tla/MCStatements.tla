---------------------------- MODULE MCStatements ----------------------------
(* Model checking Statements: the constants are given in the configuration. *)
EXTENDS Statements
=============================================================================
