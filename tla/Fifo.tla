-------------------------------- MODULE Fifo --------------------------------
(***************************************************************************)
(* What the record queue of src/sys/queue.cpp promises its users: the      *)
(* records that were accepted come out once each, oldest first, unless the *)
(* whole content is discarded.                                             *)
(***************************************************************************)
EXTENDS Naturals, Sequences

CONSTANTS
  Item,     \* what can be sent
  Discards  \* whether the whole content may be thrown away

VARIABLE fifo

Init == fifo = <<>>

Put(x) == fifo' = Append(fifo, x)

Take == /\ fifo # <<>>
        /\ fifo' = Tail(fifo)

Discard == /\ Discards
           /\ fifo' = <<>>

Next == \/ \E x \in Item : Put(x)
        \/ Take
        \/ Discard

Spec == Init /\ [][Next]_fifo
=============================================================================
