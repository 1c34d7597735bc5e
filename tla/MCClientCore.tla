---------------------------- MODULE MCClientCore ----------------------------
(* Instances of ClientCore: one or two schemes and surroundings that       *)
(* differ in what the network and the application do.                      *)
EXTENDS ClientCore

CONSTANTS s1, s2

Env == [schemes : {{s1}}, alive : BOOLEAN, unresolved : BOOLEAN,
        wait : BOOLEAN, read : BOOLEAN, stopsWaiting : {FALSE}]

Pair == [schemes : {{s1, s2}}, alive : {TRUE}, unresolved : {FALSE},
         wait : {FALSE}, read : {FALSE}, stopsWaiting : {FALSE}]

Everything == Env \cup Pair

StopsWaiting == [schemes : {{s1}}, alive : {TRUE}, unresolved : {FALSE},
                 wait : {FALSE}, read : {FALSE}, stopsWaiting : {TRUE}]
=============================================================================
