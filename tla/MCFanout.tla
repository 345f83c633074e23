------------------------------ MODULE MCFanout ------------------------------
(* Model values and symmetry for model checking Fanout. *)
EXTENDS Fanout, TLC

Symmetry == Permutations(Streams)
=============================================================================
