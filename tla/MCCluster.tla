----------------------------- MODULE MCCluster -----------------------------
(* Instances of Cluster: one or two processes and the forks that replace   *)
(* them, in surroundings that differ in one respect each.                  *)
EXTENDS Cluster

WithStranger == {[closeFirst |-> FALSE, eraseAny |-> FALSE, strangers |-> 1]}
CloseFirst == {[closeFirst |-> TRUE, eraseAny |-> FALSE, strangers |-> 0]}
EraseAny == {[closeFirst |-> FALSE, eraseAny |-> TRUE, strangers |-> 0]}
Usual == WithStranger \cup CloseFirst \cup EraseAny
=============================================================================
