-------------------------------- MODULE MCUDP --------------------------------
(* Model checking UDP: one address sends enough to fill its stream. *)
EXTENDS UDP

CONSTANT Talker

PacketsEach == [a \in Addresses |-> IF a = Talker THEN 5 ELSE 1]
=============================================================================
