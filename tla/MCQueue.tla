------------------------------ MODULE MCQueue ------------------------------
(* Instances of Queue: threads, records and limits small enough for TLC.   *)
EXTENDS Queue, TLC

CONSTANTS w1, w2, r1, o1, a, b, c, d

\* two writers, a reader, and a thread that reads or clears
Shared == w1 :> {"push"} @@ w2 :> {"push"} @@ r1 :> {"pop"} @@ o1 :> {"pop", "clear"}

\* the way the repository uses it: everything from the thread of the event loop
Owner == w1 :> {} @@ w2 :> {} @@ r1 :> {} @@ o1 :> Operations

Everybody == {Shared, Owner}

Sizes == [r \in Records |-> CASE r = b -> 2 [] r = d -> 3 [] OTHER -> 1]
=============================================================================
