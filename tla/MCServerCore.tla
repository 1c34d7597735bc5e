---------------------------- MODULE MCServerCore ----------------------------
(* Instances of ServerCore: one scheme, TCP with a limit of one or two     *)
(* brokers and DTLS, and surroundings that differ in what clients and the  *)
(* application do.                                                         *)
EXTENDS ServerCore

CONSTANT s1

Fair == {e \in [sids : {{s1}}, sonet : {"TCP", "DTLS"}, total : {1, 2}, wait : BOOLEAN,
                leaves : BOOLEAN, reacts : BOOLEAN, fails : {FALSE}, again : {FALSE},
                nameless : BOOLEAN] :
           /\ e.sonet = "DTLS" => e.total = 1 /\ ~e.reacts
           /\ e.sonet = "TCP" => ~e.nameless   \* accept() of TCP turns them away
           /\ e.total = 2 => ~e.wait /\ ~e.leaves}

\* the port is taken
Taken == [sids : {{s1}}, sonet : {"TCP"}, total : {1}, wait : {FALSE},
          leaves : {FALSE}, reacts : {FALSE}, fails : {TRUE}, again : {FALSE},
          nameless : {FALSE}]

\* stop() and start() again
Again == [sids : {{s1}}, sonet : {"TCP"}, total : {1}, wait : {FALSE},
          leaves : {FALSE}, reacts : {FALSE}, fails : {FALSE}, again : {TRUE},
          nameless : {FALSE}]

\* a client of a DTLS port whose MAC or IP is not found
Nameless == [sids : {{s1}}, sonet : {"DTLS"}, total : {1}, wait : {FALSE},
             leaves : {FALSE}, reacts : {FALSE}, fails : {FALSE}, again : {FALSE},
             nameless : {TRUE}]
=============================================================================
