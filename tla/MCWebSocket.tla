---------------------------- MODULE MCWebSocket ----------------------------
(* Instances of WebSocket: every program of up to three frames without a   *)
(* pool, and chosen ones with a pool of one or two threads.                *)
EXTENDS WebSocket

CONSTANTS w1, w2

F(op, fin, size) == [op |-> op, fin |-> fin, rsv |-> FALSE, size |-> size]
Packed(op, fin) == [op |-> op, fin |-> fin, rsv |-> TRUE, size |-> 1]

Frame == {F("TEXT", TRUE, 2), F("TEXT", FALSE, 1), Packed("TEXT", TRUE), F("TEXT", TRUE, 0),
          F("CONTINUATION", FALSE, 1), F("CONTINUATION", TRUE, 1),
          F("PING", TRUE, 0), F("PONG", TRUE, 1), F("CLOSE", TRUE, 0)}

Programs == {<<f, g, h>> : f \in Frame, g \in Frame, h \in Frame}

Alone == [program : Programs, side : {"server"}, threads : {{}},
          cuts : {"between"}, early : {FALSE}, resizes : {FALSE}]

\* what a server that keeps to the protocol sends
Proper == {<<F("TEXT", FALSE, 2), F("PING", TRUE, 1), F("CONTINUATION", TRUE, 1), Packed("TEXT", TRUE)>>,
           <<F("PING", TRUE, 0), F("TEXT", TRUE, 1), F("TEXT", TRUE, 1), F("CLOSE", TRUE, 2)>>}

Clients == [program : Proper, side : {"client"}, threads : {{}},
            cuts : {"between"}, early : BOOLEAN, resizes : {FALSE}]

Many == {<<F("TEXT", TRUE, 1), F("TEXT", FALSE, 1), F("CONTINUATION", TRUE, 1), F("TEXT", TRUE, 1)>>,
         <<Packed("TEXT", TRUE), F("PING", TRUE, 0), Packed("TEXT", TRUE), Packed("TEXT", TRUE)>>}

Pools == [program : Many, side : {"server", "client"}, threads : {{w1}, {w1, w2}},
          cuts : {"between"}, early : {FALSE}, resizes : BOOLEAN]

\* a read ends in a control frame
Cut == [program : {<<F("PING", TRUE, 1), F("TEXT", TRUE, 1)>>}, side : {"server"}, threads : {{}},
        cuts : {"anywhere"}, early : {FALSE}, resizes : {FALSE}]

Everything == Alone \cup Clients \cup Pools \cup Cut

=============================================================================
