---------------------------- MODULE MCEventBase ----------------------------
(* Instances of EventBase: a few connections and a timer.                   *)
EXTENDS EventBase

CONSTANTS a, b, c, d, t, u

\* c is for the descriptor that was a's
Descriptor == a :> 5 @@ b :> 6 @@ c :> 5 @@ d :> 9 @@ t :> 7 @@ u :> 8

Some(first, later, conditions, disables) ==
  [first |-> first, later |-> later, ready |-> conditions,
   enables |-> {"READ", "WRITE", "CLOSE"}, disables |-> disables]

All == {"IN", "OUT", "HUP"}

\* enough of them that one batch leaves behind what the next one reaches
ThreeSockets ==
  {[first |-> {a, b, d}, later |-> {c}, ready |-> {"IN"}, enables |-> {"READ"}, disables |-> {}]}

Surroundings ==
  ThreeSockets \cup
  {Some({a}, {c}, All, {"READ", "WRITE", "CLOSE"}),
   Some({a, t}, {c}, {"IN", "HUP"}, {}),
   Some({a, t}, {}, All, {"WRITE"}),
   Some({a, b}, {c}, {"IN", "HUP"}, {})}

\* two timers that are not persistent
TwoTimers == {Some({t, u}, {}, {}, {})}
=============================================================================
