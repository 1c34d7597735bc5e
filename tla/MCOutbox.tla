------------------------------ MODULE MCOutbox ------------------------------
(* Instances of Outbox: two connections, three records of different sizes. *)
EXTENDS Outbox

CONSTANTS b1, b2

Sizes == [r \in Records |-> CASE r = 1 -> 2 [] r = 2 -> 3 [] OTHER -> 1]
=============================================================================
