----------------------------- MODULE MCChannel -----------------------------
(* Instances of Channel: three or four messages of one to three units.     *)
EXTENDS Channel, TLC

CONSTANTS a, b, c, d

Sizes == [m \in Messages |-> CASE m = b -> 3 [] m = d -> 2 [] OTHER -> 1]
=============================================================================
