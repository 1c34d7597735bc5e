------------------------------ MODULE MCWatch ------------------------------
(* Instances of Watch: two descriptors and two threads.                    *)
EXTENDS Watch

CONSTANTS t1, t2

World(socks, reuse, prompt, restarts) ==
  [socks |-> socks, reuse |-> reuse, prompt |-> prompt, restarts |-> restarts]

Surroundings ==
  {World(Socks, TRUE, TRUE, FALSE), World(Socks, FALSE, TRUE, FALSE),
   World(Socks, FALSE, FALSE, FALSE), World({5}, FALSE, FALSE, TRUE)}
=============================================================================
