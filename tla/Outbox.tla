------------------------------- MODULE Outbox -------------------------------
(***************************************************************************)
(* Outgoing data of the network core: Node::send and Node::erase with      *)
(* their memory budget (src/core/node.cpp), send() and the two write() of  *)
(* the client and the server core on top of them (src/core/client.cpp,     *)
(* src/core/server.cpp), and the backlog the proxy servers keep for what   *)
(* the budget refuses (src/server/proxy.cpp, src/server/socks5.cpp).       *)
(*                                                                         *)
(* All of it runs in the thread of the event loop: an application call and *)
(* an event handler are one action each, with the callbacks they make.     *)
(* Record r of a broker is a run of Size[r] units <<r, k>>; what matters   *)
(* of a unit is its place in the stream of its broker.                     *)
(***************************************************************************)
EXTENDS Integers, SequencesExt

CONSTANTS
  Brokers,      \* the connections (their ids are never used again)
  Records,      \* 1..n: the records the application sends to each of them
  Size,         \* the size of a record
  MemoryLimit,  \* _memoryAvailableSize at the start: all brokers together
  BrokerLimit,  \* _brokerAvailableSize: one broker
  Modes,        \* values of _sending the application uses: TRUE is INSTANT, FALSE DEFFER
  Proxies       \* whether the owner of the core may be, and may not be, a proxy

ASSUME OutboxAssumption ==
  /\ Records \subseteq Nat \ {0}
  /\ Size \in [Records -> Nat \ {0}]
  /\ MemoryLimit \in Nat /\ BrokerLimit \in Nat
  /\ Modes \subseteq BOOLEAN /\ Proxies \subseteq BOOLEAN

VARIABLES
  instant,   \* _sending = sending_t::INSTANT
  proxy,     \* the callbacks "available" and "unavailable" of a proxy are installed
  memory,    \* _memoryAvailableSize
  alive,     \* the brokers in _brokers
  payload,   \* _payloads: what waits for the socket
  used,      \* _available: the bytes of it, as the budget counts them
  armed,     \* the WRITE event of the broker is enabled
  backlog,   \* Proxy::_payloads: records that were refused
  wire,      \* what the socket has taken
  next       \* the next record the application sends

vars == <<instant, proxy, memory, alive, payload, used, armed, backlog, wire, next>>

Units(r) == [k \in 1..Size[r] |-> <<r, k>>]

Take(s, n) == SubSeq(s, 1, n)
Drop(s, n) == SubSeq(s, n + 1, Len(s))
Least(m, n) == IF m <= n THEN m ELSE n

(***************************************************************************)
(* The state of one broker while a handler runs: the units that wait, the  *)
(* budget it has used, the event, the backlog, the socket, and the memory  *)
(* all brokers share.                                                      *)
(***************************************************************************)
Of(b) == [memory |-> memory, payload |-> payload[b], used |-> used[b],
          armed |-> armed[b], backlog |-> backlog[b], wire |-> wire[b]]

Becomes(b, s) ==
  /\ memory' = s.memory
  /\ payload' = [payload EXCEPT ![b] = s.payload]
  /\ used' = [used EXCEPT ![b] = s.used]
  /\ armed' = [armed EXCEPT ![b] = s.armed]
  /\ backlog' = [backlog EXCEPT ![b] = s.backlog]
  /\ wire' = [wire EXCEPT ![b] = s.wire]

\* plausible slips: only one of the two limits is looked at
RoomInMemory(s) == s.memory
RoomOfBroker(s) == BrokerLimit - s.used

\* what Node::send still accepts, and Node::erase reports as available
Room(s) == IF BrokerLimit < s.used THEN 0 ELSE Least(BrokerLimit - s.used, s.memory)

\* Node::send, accepted
Enqueue(s, bytes) ==
  [s EXCEPT !.payload = @ \o bytes, !.memory = @ - Len(bytes), !.used = @ + Len(bytes)]

\* Node::send, refused: the "unavailable" callback of a proxy keeps the record
Refuse(s, bytes) ==
  [s EXCEPT !.backlog = IF proxy THEN Append(@, bytes) ELSE @]

NodeSend(s, bytes) ==
  IF Len(bytes) <= Room(s) THEN Enqueue(s, bytes) ELSE Refuse(s, bytes)

\* the socket takes the first n bytes; write() disables the event first
Put(s, bytes, n) == [s EXCEPT !.wire = @ \o Take(bytes, n), !.armed = FALSE]

\* a plausible slip: the bytes are written although older ones wait
DirectAlways(s) == instant

\* send() writes past the queue only when nothing waits
Direct(s) == instant /\ s.payload = <<>>

\* what does not fit into the socket waits for the WRITE event
Arm(s, n) == [s EXCEPT !.armed = TRUE]

\* Core::send() in which the socket takes n bytes of a direct write
CoreSend(s, bytes, n) ==
  IF Direct(s)
  THEN IF n = Len(bytes) THEN Put(s, bytes, n)
       ELSE Arm(NodeSend(Put(s, bytes, n), Drop(bytes, n)), n)
  ELSE IF Len(bytes) <= Room(s) \/ instant
       THEN Arm(NodeSend(s, bytes), 1) ELSE NodeSend(s, bytes)

\* the answer of Core::send()
Accepted(s, bytes, n) ==
  \/ Direct(s) /\ n = Len(bytes)
  \/ Direct(s) /\ Len(bytes) - n <= Room(s)
  \/ ~Direct(s) /\ Len(bytes) <= Room(s)

\* Node::erase: n bytes have left the queue
Release(s, n) ==
  [s EXCEPT !.memory = @ + n, !.used = @ - n, !.payload = Drop(@, n)]

\* a plausible slip: the record stays in the backlog although it was accepted
RetryKeeps(s, n) ==
  IF s.backlog # <<>> /\ Len(Head(s.backlog)) <= Room(s)
  THEN CoreSend(s, Head(s.backlog), n) ELSE s

\* Proxy::available: the oldest record of the backlog is tried again
Retry(s, n) ==
  LET oldest == Head(s.backlog)
      after == CoreSend(s, oldest, n)
  IN IF s.backlog # <<>> /\ Len(oldest) <= Room(s)
     THEN IF Accepted(s, oldest, n)
          THEN [after EXCEPT !.backlog = Tail(@)] ELSE after
     ELSE s

\* a plausible slip: one WRITE event is thought to be enough
RearmNothing(s) == s

\* what is left after a WRITE event waits for another one
Rearm(s) == IF s.payload # <<>> THEN Arm(s, 1) ELSE s

(***************************************************************************)
(* Actions                                                                 *)
(***************************************************************************)
\* the application sends its next record, of which a direct write takes n bytes
Send(b, n) ==
  /\ b \in alive
  /\ next[b] \in Records
  /\ n <= Size[next[b]]
  /\ ~Direct(Of(b)) => n = 0
  /\ Becomes(b, CoreSend(Of(b), Units(next[b]), n))
  /\ next' = [next EXCEPT ![b] = @ + 1]
  /\ UNCHANGED <<instant, proxy, alive>>

\* the WRITE event: the socket takes n bytes of what waits, then m of a retry
Writable(b, n, m) ==
  /\ b \in alive
  /\ armed[b]
  /\ n <= Len(payload[b])
  /\ LET written == Put(Of(b), payload[b], n)
         erased == Release(written, n)
         retried == IF n = 0 THEN written
                    ELSE IF proxy THEN Retry(erased, m) ELSE erased
     IN /\ \/ m = 0
           \/ /\ n > 0 /\ proxy /\ Direct(erased) /\ backlog[b] # <<>>
              /\ m <= Len(Head(backlog[b]))
        /\ Becomes(b, Rearm(retried))
  /\ UNCHANGED <<instant, proxy, alive, next>>

\* close() and Node::remove: everything the broker has is dropped
Close(b) ==
  /\ b \in alive
  /\ alive' = alive \ {b}
  /\ Becomes(b, [Of(b) EXCEPT !.payload = <<>>, !.used = 0, !.armed = FALSE,
                              !.backlog = <<>>])
  /\ UNCHANGED <<instant, proxy, next>>

\* Node::sending: the application changes the mode
Sending(mode) ==
  /\ instant' = mode
  /\ UNCHANGED <<proxy, memory, alive, payload, used, armed, backlog, wire, next>>

Init ==
  /\ instant \in Modes
  /\ proxy \in Proxies
  /\ memory = MemoryLimit
  /\ alive = Brokers
  /\ payload = [b \in Brokers |-> <<>>]
  /\ used = [b \in Brokers |-> 0]
  /\ armed = [b \in Brokers |-> FALSE]
  /\ backlog = [b \in Brokers |-> <<>>]
  /\ wire = [b \in Brokers |-> <<>>]
  /\ next = [b \in Brokers |-> 1]

\* what the socket may take of a record
Bytes == UNION {0..Size[r] : r \in Records}

Next ==
  \/ \E b \in Brokers :
       \/ \E n \in Bytes : Send(b, n)
       \/ \E n \in 0..Len(payload[b]), m \in Bytes : Writable(b, n, m)
       \/ Close(b)
  \/ \E mode \in Modes : Sending(mode)

Spec == Init /\ [][Next]_vars

\* A socket that is watched takes something sooner or later.
Progress(b) == \E n \in 1..Len(payload[b]), m \in Bytes : Writable(b, n, m)

FairSpec == Spec /\ \A b \in Brokers : WF_vars(Progress(b))
-----------------------------------------------------------------------------
Unit == UNION {{r} \X (1..Size[r]) : r \in Records}

(***************************************************************************)
(* The types of the state; the two budgets are size_t in node.hpp, and a   *)
(* subtraction below zero would make them huge.                            *)
(***************************************************************************)
TypeOK ==
  /\ instant \in BOOLEAN /\ proxy \in BOOLEAN
  /\ memory \in Nat
  /\ alive \subseteq Brokers
  /\ payload \in [Brokers -> Seq(Unit)]
  /\ used \in [Brokers -> Nat]
  /\ armed \in [Brokers -> BOOLEAN]
  /\ backlog \in [Brokers -> Seq(Seq(Unit))]
  /\ wire \in [Brokers -> Seq(Unit)]
  /\ next \in [Brokers -> Nat]

(***************************************************************************)
(* The budget of a broker (Node::_available) is the length of its queue,   *)
(* and within its limit.                                                   *)
(***************************************************************************)
BudgetExact ==
  \A b \in Brokers : used[b] = Len(payload[b]) /\ used[b] <= BrokerLimit

(***************************************************************************)
(* As long as no broker with waiting data has been closed, the common      *)
(* budget and what waits add up to the limit.                              *)
(***************************************************************************)
BudgetConserved ==
  alive = Brokers =>
    memory + MapThenSumSet(LAMBDA b : Len(payload[b]), Brokers)
      = MemoryLimit

(***************************************************************************)
(* What waits for the socket is waited for.                                *)
(***************************************************************************)
QueueIsArmed == \A b \in alive : payload[b] # <<>> => armed[b]

(***************************************************************************)
(* The peer gets the units of the records in the order of the send calls   *)
(* (client.cpp:1442: nothing is written past what waits).                  *)
(***************************************************************************)
Before(u, v) == u[1] < v[1] \/ (u[1] = v[1] /\ u[2] < v[2])

InOrder(b) ==
  LET stream == wire[b] \o payload[b] IN
  \A i \in 1..Len(stream) - 1 : Before(stream[i], stream[i + 1])

SendOrder == ~proxy => \A b \in Brokers : InOrder(b)

\* the units of the records before the record n
Sent(n) == UNION {ToSet(Units(r)) : r \in {q \in Records : q < n}}

\* each of the units is in the stream or in one of the records kept, and at one place
Once(stream, kept, units) ==
  /\ IsInjective(stream)
  /\ \A k \in DOMAIN kept : IsInjective(kept[k]) /\ ToSet(kept[k]) \cap ToSet(stream) = {}
  /\ \A j, k \in DOMAIN kept : j # k => ToSet(kept[j]) \cap ToSet(kept[k]) = {}
  /\ ToSet(stream) \cup UNION {ToSet(kept[k]) : k \in DOMAIN kept} = units

(***************************************************************************)
(* With the callbacks of a proxy a record that was refused, whole or in    *)
(* part, is in the backlog: each unit that was ever sent on a connection   *)
(* is taken by the socket, or waits, or is kept, and only once.            *)
(***************************************************************************)
NothingLost ==
  proxy => \A b \in alive : Once(wire[b] \o payload[b], backlog[b], Sent(next[b]))

(***************************************************************************)
(* Everything that waits reaches the socket unless the broker is closed.   *)
(***************************************************************************)
QueueDrains ==
  \A b \in Brokers : b \in alive ~> payload[b] = <<>>

(***************************************************************************)
(* _memoryAvailableSize is "the maximal size of memory for the payload of  *)
(* all brokers" (node.hpp:194): when no payload waits, all of it is there. *)
(***************************************************************************)
MemoryReturned ==
  (\A b \in Brokers : payload[b] = <<>>) => memory = MemoryLimit
=============================================================================
