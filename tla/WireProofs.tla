----------------------------- MODULE WireProofs -----------------------------
(***************************************************************************)
(* What holds of the two components that are about bytes of one connection *)
(* in their order: of Outbox, for any connections, records, limits and     *)
(* modes, and of HttpServer, for any programs of requests and any reads.   *)
(***************************************************************************)
EXTENDS Outbox, HttpServer, FiniteSetTheorems, SequenceTheorems, WellFoundedInduction, TLAPS

(***************************************************************************)
(* OUTBOX. A handler works on the state of one broker, so the invariant is *)
(* first stated of such a state (Sound) and shown to be kept by each       *)
(* operator the handlers are built from; the actions follow.               *)
(***************************************************************************)
StateOf == [memory : Nat, payload : Seq(Unit), used : Nat, armed : BOOLEAN,
            backlog : Seq(Seq(Unit)), wire : Seq(Unit)]

\* the broker's budget counts what waits, and stays within its limit
Sound(s) == s \in StateOf /\ s.used = Len(s.payload) /\ s.used <= BrokerLimit

Watched(s) == s.payload # <<>> => s.armed

(***************************************************************************)
(* The pieces of the handlers.                                             *)
(***************************************************************************)
LEMMA RoomBounds ==
  ASSUME NEW s, Sound(s)
  PROVE  Room(s) \in Nat /\ Room(s) <= s.memory /\ s.used + Room(s) <= BrokerLimit
BY OutboxAssumption DEF Sound, StateOf, Room, Least

LEMMA NodeSendSound ==
  ASSUME NEW s, Sound(s), NEW bytes \in Seq(Unit)
  PROVE  Sound(NodeSend(s, bytes))
<1>1. CASE Len(bytes) <= Room(s)
  <2>1. s.memory - Len(bytes) \in Nat /\ s.used + Len(bytes) <= BrokerLimit
    <3>1. Room(s) \in Nat /\ Room(s) <= s.memory /\ s.used + Room(s) <= BrokerLimit
      BY RoomBounds
    <3>2. s.memory \in Nat /\ s.used \in Nat BY DEF Sound, StateOf
    <3>3. BrokerLimit \in Nat /\ Len(bytes) \in Nat BY OutboxAssumption
    <3> QED BY <1>1, <3>1, <3>2, <3>3
  <2>2. s.payload \o bytes \in Seq(Unit) /\ Len(s.payload \o bytes) = s.used + Len(bytes)
    BY DEF Sound, StateOf
  <2> DEFINE p == s.payload \o bytes
             m == s.memory - Len(bytes)
             u == s.used + Len(bytes)
  <2>3. p \in Seq(Unit) /\ m \in Nat /\ u \in Nat /\ u = Len(p) /\ u <= BrokerLimit
    BY <2>1, <2>2 DEF Sound, StateOf
  <2>4. NodeSend(s, bytes) = [s EXCEPT !.payload = p, !.memory = m, !.used = u]
    BY <1>1 DEF NodeSend, Enqueue
  <2> HIDE DEF p, m, u
  <2> QED BY <2>3, <2>4 DEF Sound, StateOf
<1>2. CASE ~(Len(bytes) <= Room(s))
  <2> DEFINE k == IF proxy THEN Append(s.backlog, bytes) ELSE s.backlog
  <2>1. k \in Seq(Seq(Unit)) BY DEF Sound, StateOf
  <2>2. NodeSend(s, bytes) = [s EXCEPT !.backlog = k] BY <1>2 DEF NodeSend, Refuse
  <2> HIDE DEF k
  <2> QED BY <2>1, <2>2 DEF Sound, StateOf
<1> QED BY <1>1, <1>2

LEMMA NodeSendBacklog ==
  ASSUME NEW s, Sound(s), s.backlog # <<>>, NEW bytes \in Seq(Unit)
  PROVE  NodeSend(s, bytes).backlog # <<>>
<1>1. s.backlog \in Seq(Seq(Unit)) BY DEF Sound, StateOf
<1>2. Append(s.backlog, bytes) # <<>>
  <2> DEFINE k == s.backlog
  <2>1. k \in Seq(Seq(Unit)) BY <1>1
  <2> HIDE DEF k
  <2>2. Append(k, bytes) # <<>> BY <2>1, AppendProperties
  <2> QED BY <2>2 DEF k
<1>3. Enqueue(s, bytes).backlog = s.backlog BY DEF Enqueue, Sound, StateOf
<1>4. Refuse(s, bytes).backlog = IF proxy THEN Append(s.backlog, bytes) ELSE s.backlog
  BY DEF Refuse, Sound, StateOf
<1> QED BY <1>2, <1>3, <1>4 DEF NodeSend

LEMMA PutSound ==
  ASSUME NEW s, Sound(s), NEW bytes \in Seq(Unit), NEW n \in 0..Len(bytes)
  PROVE  Sound(Put(s, bytes, n)) /\ Put(s, bytes, n).payload = s.payload
<1> DEFINE w == s.wire \o Take(bytes, n)
<1>1. Take(bytes, n) \in Seq(Unit) BY DEF Take
<1>2. w \in Seq(Unit) BY <1>1 DEF Sound, StateOf
<1>3. Put(s, bytes, n) = [s EXCEPT !.wire = w, !.armed = FALSE] BY DEF Put
<1> HIDE DEF w
<1> QED BY <1>2, <1>3 DEF Sound, StateOf

LEMMA ArmSound ==
  ASSUME NEW s, Sound(s), NEW n
  PROVE  Sound(Arm(s, n)) /\ Watched(Arm(s, n))
BY DEF Arm, Sound, StateOf, Watched

LEMMA CoreSendSound ==
  ASSUME NEW s, Sound(s), NEW bytes \in Seq(Unit), NEW n \in Nat,
         Direct(s) => n <= Len(bytes)
  PROVE  Sound(CoreSend(s, bytes, n)) /\ (Watched(s) => Watched(CoreSend(s, bytes, n)))
<1>1. CASE Direct(s)
  <2>1. n \in 0..Len(bytes) BY <1>1
  <2>2. Sound(Put(s, bytes, n)) /\ Put(s, bytes, n).payload = <<>>
    BY <1>1, <2>1, PutSound DEF Direct
  <2>3. Drop(bytes, n) \in Seq(Unit) BY <2>1 DEF Drop
  <2>4. Sound(NodeSend(Put(s, bytes, n), Drop(bytes, n)))
    BY <2>2, <2>3, NodeSendSound
  <2>5. Sound(Arm(NodeSend(Put(s, bytes, n), Drop(bytes, n)), n))
        /\ Watched(Arm(NodeSend(Put(s, bytes, n), Drop(bytes, n)), n))
    BY <2>4, ArmSound
  <2> QED BY <1>1, <2>2, <2>5 DEF CoreSend, Watched
<1>2. CASE ~Direct(s)
  <2>1. Sound(NodeSend(s, bytes)) BY NodeSendSound
  <2>2. Sound(Arm(NodeSend(s, bytes), 1)) /\ Watched(Arm(NodeSend(s, bytes), 1))
    BY <2>1, ArmSound
  <2>3. Watched(s) /\ ~(Len(bytes) <= Room(s)) => Watched(NodeSend(s, bytes))
    BY DEF NodeSend, Refuse, Watched, Sound, StateOf
  <2> QED BY <1>2, <2>1, <2>2, <2>3 DEF CoreSend
<1> QED BY <1>1, <1>2

LEMMA ReleaseSound ==
  ASSUME NEW s, Sound(s), NEW n \in 0..Len(s.payload)
  PROVE  Sound(Release(s, n))
<1>1. s.payload \in Seq(Unit) BY DEF Sound, StateOf
<1>2. Drop(s.payload, n) \in Seq(Unit) /\ Len(Drop(s.payload, n)) = Len(s.payload) - n
  BY <1>1 DEF Drop
<1>3. s.memory + n \in Nat /\ s.used - n \in Nat /\ s.used - n <= BrokerLimit
  BY OutboxAssumption DEF Sound, StateOf
<1> QED BY <1>2, <1>3 DEF Release, Sound, StateOf

LEMMA RetrySound ==
  ASSUME NEW s, Sound(s), NEW n \in Nat,
         Direct(s) /\ s.backlog # <<>> => n <= Len(Head(s.backlog))
  PROVE  Sound(Retry(s, n))
<1>1. CASE s.backlog # <<>> /\ Len(Head(s.backlog)) <= Room(s)
  <2> DEFINE oldest == Head(s.backlog)
             after == CoreSend(s, oldest, n)
  <2>1. oldest \in Seq(Unit) BY <1>1 DEF Sound, StateOf
  <2>2. Sound(after) BY <1>1, <2>1, CoreSendSound
  <2>3. after.backlog # <<>>
    <3> DEFINE put == Put(s, oldest, n)
    <3>1. ASSUME Direct(s)
          PROVE  NodeSend(put, Drop(oldest, n)).backlog # <<>> /\ put.backlog # <<>>
      <4>1. n \in 0..Len(oldest) BY <1>1, <3>1
      <4>2. Sound(put) BY <2>1, <4>1, PutSound
      <4>3. put.backlog = s.backlog BY DEF Put, Sound, StateOf
      <4>4. Drop(oldest, n) \in Seq(Unit) BY <2>1, <4>1 DEF Drop
      <4> QED BY <1>1, <4>2, <4>3, <4>4, NodeSendBacklog
    <3>2. NodeSend(s, oldest).backlog # <<>>
      BY <1>1, <2>1, NodeSendBacklog
    <3>3. \A r, k : Sound(r) => Arm(r, k).backlog = r.backlog
      BY DEF Arm, Sound, StateOf
    <3>4. Sound(NodeSend(s, oldest)) BY <2>1, NodeSendSound
    <3>5. Direct(s) => Sound(NodeSend(put, Drop(oldest, n)))
      <4>1. SUFFICES ASSUME Direct(s) PROVE Sound(NodeSend(put, Drop(oldest, n))) OBVIOUS
      <4>2. n \in 0..Len(oldest) BY <1>1, <4>1
      <4>3. Drop(oldest, n) \in Seq(Unit) BY <2>1, <4>2 DEF Drop
      <4> QED BY <2>1, <4>2, <4>3, PutSound, NodeSendSound
    <3> QED BY <3>1, <3>2, <3>3, <3>4, <3>5 DEF CoreSend
  <2>4. Tail(after.backlog) \in Seq(Seq(Unit)) BY <2>2, <2>3 DEF Sound, StateOf
  <2>5. Retry(s, n) = IF Accepted(s, oldest, n) THEN [after EXCEPT !.backlog = Tail(@)] ELSE after
    BY <1>1 DEF Retry
  <2> HIDE DEF oldest, after
  <2>6. Sound([after EXCEPT !.backlog = Tail(@)])
    BY <2>2, <2>3, <2>4 DEF Sound, StateOf
  <2> QED BY <2>2, <2>5, <2>6
<1>2. CASE ~(s.backlog # <<>> /\ Len(Head(s.backlog)) <= Room(s))
  BY <1>2 DEF Retry
<1> QED BY <1>1, <1>2

LEMMA RearmSound ==
  ASSUME NEW s, Sound(s)
  PROVE  Sound(Rearm(s)) /\ Watched(Rearm(s))
BY ArmSound DEF Rearm, Watched

(***************************************************************************)
(* The invariant of the system, and how a handler of one broker keeps it.  *)
(***************************************************************************)
IInv == TypeOK /\ BudgetExact /\ QueueIsArmed

LEMMA OfSound ==
  ASSUME IInv, NEW b \in Brokers
  PROVE  Sound(Of(b)) /\ (b \in alive => Watched(Of(b)))
BY DEF IInv, TypeOK, BudgetExact, QueueIsArmed, Sound, StateOf, Of, Watched

LEMMA BecomesKeeps ==
  ASSUME IInv, NEW b \in Brokers, NEW s, Sound(s), Becomes(b, s),
         instant' \in BOOLEAN, proxy' \in BOOLEAN, next' \in [Brokers -> Nat],
         alive' \subseteq alive, b \in alive' => Watched(s)
  PROVE  IInv'
<1>1. TypeOK' BY DEF IInv, TypeOK, Becomes, Sound, StateOf
<1>2. ASSUME NEW c \in Brokers
      PROVE  /\ payload'[c] = IF c = b THEN s.payload ELSE payload[c]
             /\ used'[c] = IF c = b THEN s.used ELSE used[c]
             /\ armed'[c] = IF c = b THEN s.armed ELSE armed[c]
  BY DEF IInv, TypeOK, Becomes
<1>3. BudgetExact' BY <1>2 DEF IInv, BudgetExact, Sound
<1>4. QueueIsArmed'
  BY <1>1, <1>2 DEF IInv, TypeOK, QueueIsArmed, Watched
<1> QED BY <1>1, <1>3, <1>4 DEF IInv

LEMMA UnitsType ==
  ASSUME NEW r \in Records
  PROVE  Units(r) \in Seq(Unit) /\ Len(Units(r)) = Size[r] /\ Size[r] \in Nat
<1>1. Size[r] \in Nat BY OutboxAssumption
<1>2. \A k \in 1..Size[r] : <<r, k>> \in Unit BY DEF Unit
<1> QED BY <1>1, <1>2 DEF Units

LEMMA BytesNat == Bytes \subseteq Nat
BY OutboxAssumption DEF Bytes

LEMMA SendKeeps ==
  ASSUME IInv, NEW b \in Brokers, NEW n \in Bytes, Send(b, n)
  PROVE  IInv'
<1> DEFINE r == next[b]
<1>1. r \in Records /\ b \in alive /\ n <= Size[r] /\ Becomes(b, CoreSend(Of(b), Units(r), n))
  BY DEF Send
<1>2. Sound(CoreSend(Of(b), Units(r), n)) /\ Watched(CoreSend(Of(b), Units(r), n))
  BY <1>1, OfSound, UnitsType, BytesNat, CoreSendSound
<1>3. next' \in [Brokers -> Nat] /\ alive' = alive /\ instant' = instant /\ proxy' = proxy
  BY <1>1 DEF Send, IInv, TypeOK
<1>4. instant' \in BOOLEAN /\ proxy' \in BOOLEAN BY <1>3 DEF IInv, TypeOK
<1> HIDE DEF r
<1> QED BY <1>1, <1>2, <1>3, <1>4, BecomesKeeps

LEMMA WritableKeeps ==
  ASSUME IInv, NEW b \in Brokers, NEW n \in 0..Len(payload[b]), NEW m \in Bytes,
         Writable(b, n, m)
  PROVE  IInv'
<1> DEFINE written == Put(Of(b), payload[b], n)
           erased == Release(written, n)
           retried == IF n = 0 THEN written ELSE IF proxy THEN Retry(erased, m) ELSE erased
<1>1. payload[b] \in Seq(Unit) /\ Of(b).payload = payload[b] /\ Of(b).backlog = backlog[b]
  BY DEF IInv, TypeOK, Of
<1>2. Sound(written) /\ written.payload = payload[b]
  BY <1>1, OfSound, PutSound
<1>3. Sound(erased) BY <1>2, ReleaseSound
<1>4. erased.backlog = backlog[b]
  BY <1>1 DEF Put, Release, Of
<1>5. m = 0 \/ (Direct(erased) /\ m <= Len(Head(backlog[b]))) BY DEF Writable
<1>6. m \in Nat BY BytesNat
<1>7. Direct(erased) /\ erased.backlog # <<>> => m <= Len(Head(erased.backlog))
  <2>1. erased.backlog # <<>> => Len(Head(erased.backlog)) \in Nat
    BY <1>3 DEF Sound, StateOf
  <2> QED BY <1>4, <1>5, <2>1
<1> HIDE DEF erased, written
<1>8. Sound(retried) BY <1>2, <1>3, <1>6, <1>7, RetrySound
<1>9. Becomes(b, Rearm(retried)) BY DEF Writable, retried, erased, written
<1>10. instant' = instant /\ proxy' = proxy /\ alive' = alive /\ next' = next
  BY DEF Writable
<1>11. instant' \in BOOLEAN /\ proxy' \in BOOLEAN /\ next' \in [Brokers -> Nat]
  BY <1>10 DEF IInv, TypeOK
<1> HIDE DEF retried
<1> QED BY <1>8, <1>9, <1>10, <1>11, RearmSound, BecomesKeeps

LEMMA CloseKeeps ==
  ASSUME IInv, NEW b \in Brokers, Close(b)
  PROVE  IInv'
<1> DEFINE o == Of(b)
           s == [o EXCEPT !.payload = <<>>, !.used = 0, !.armed = FALSE, !.backlog = <<>>]
<1>1. Sound(s) /\ Watched(s)
  <2>1. Sound(o) BY OfSound
  <2>2. <<>> \in Seq(Unit) /\ <<>> \in Seq(Seq(Unit)) /\ Len(<<>>) = 0 OBVIOUS
  <2> HIDE DEF o
  <2>3. s \in StateOf /\ s.payload = <<>> /\ s.used = 0
    BY <2>1, <2>2 DEF Sound, StateOf
  <2> QED BY <2>2, <2>3, OutboxAssumption DEF Sound, Watched
<1>2. Becomes(b, s) /\ alive' \subseteq alive /\ instant' = instant /\ proxy' = proxy /\ next' = next
  BY DEF Close
<1>3. instant' \in BOOLEAN /\ proxy' \in BOOLEAN /\ next' \in [Brokers -> Nat]
  BY <1>2 DEF IInv, TypeOK
<1> HIDE DEF s
<1> QED BY <1>1, <1>2, <1>3, BecomesKeeps

(***************************************************************************)
(* Node::_available counts exactly what waits for a broker and never       *)
(* exceeds its limit, the common budget never goes below zero (it is a     *)
(* size_t), and what waits for a socket has its WRITE event enabled: the   *)
(* send path never stands still with data in the queue.                    *)
(***************************************************************************)
THEOREM BudgetAndEvents == Spec => [](TypeOK /\ BudgetExact /\ QueueIsArmed)
<1>1. Init => IInv
  BY OutboxAssumption DEF Init, IInv, TypeOK, BudgetExact, QueueIsArmed
<1>2. ASSUME IInv, [Next]_vars PROVE IInv'
  <2>1. ASSUME NEW b \in Brokers, NEW n \in Bytes, Send(b, n) PROVE IInv'
    BY <1>2, <2>1, SendKeeps
  <2>2. ASSUME NEW b \in Brokers, NEW n \in 0..Len(payload[b]), NEW m \in Bytes,
               Writable(b, n, m)
        PROVE  IInv'
    BY <1>2, <2>2, WritableKeeps
  <2>3. ASSUME NEW b \in Brokers, Close(b) PROVE IInv'
    BY <1>2, <2>3, CloseKeeps
  <2>4. ASSUME NEW mode \in Modes, Sending(mode) PROVE IInv'
    BY <1>2, <2>4, OutboxAssumption DEF Sending, IInv, TypeOK, BudgetExact, QueueIsArmed
  <2>5. CASE UNCHANGED vars
    BY <1>2, <2>5 DEF vars, IInv, TypeOK, BudgetExact, QueueIsArmed
  <2> QED BY <1>2, <2>1, <2>2, <2>3, <2>4, <2>5 DEF Next
<1> QED BY <1>1, <1>2, PTL DEF Spec, IInv

(***************************************************************************)
(* Order. What a connection has sent and what waits is one stream, and     *)
(* without the backlog of a proxy it only ever grows at its end, by a      *)
(* beginning of the record that is sent.                                   *)
(***************************************************************************)
Ordered(st, limit) ==
  /\ st \in Seq(Unit)
  /\ \A i \in 1..Len(st) - 1 : Before(st[i], st[i + 1])
  /\ \A i \in 1..Len(st) : st[i][1] < limit

StreamOf(s) == s.wire \o s.payload

OInv == ~proxy => \A b \in Brokers : Ordered(wire[b] \o payload[b], next[b])

LEMMA UnitParts ==
  ASSUME NEW u \in Unit
  PROVE  u[1] \in Nat /\ u[2] \in Nat
BY OutboxAssumption DEF Unit

LEMMA SplitJoin ==
  ASSUME NEW st \in Seq(Unit), NEW n \in 0..Len(st)
  PROVE  /\ Take(st, n) \in Seq(Unit) /\ Len(Take(st, n)) = n
         /\ Drop(st, n) \in Seq(Unit) /\ Len(Drop(st, n)) = Len(st) - n
         /\ Take(st, n) \o Drop(st, n) = st
<1>1. /\ Take(st, n) \in Seq(Unit) /\ Len(Take(st, n)) = n
      /\ \A i \in 1..n : Take(st, n)[i] = st[i]
  <2>1. \A i \in 1..n : st[i] \in Unit OBVIOUS
  <2> QED BY <2>1, SubSeqProperties DEF Take
<1>2. /\ Drop(st, n) \in Seq(Unit) /\ Len(Drop(st, n)) = Len(st) - n
      /\ \A i \in 1..Len(st) - n : Drop(st, n)[i] = st[n + i]
  <2>1. \A i \in n + 1..Len(st) : st[i] \in Unit OBVIOUS
  <2> DEFINE a == n + 1
             l == Len(st)
  <2>2. /\ a \in Int /\ l \in Int /\ l - a + 1 = l - n
        /\ (IF a <= l THEN l - a + 1 ELSE 0) = l - n
        /\ \A i \in Int : a + i - 1 = n + i
    OBVIOUS
  <2>3. Drop(st, n) = SubSeq(st, a, l) BY DEF Drop
  <2>4. \A i \in a..l : st[i] \in Unit BY <2>1
  <2> HIDE DEF a, l
  <2>5. /\ SubSeq(st, a, l) \in Seq(Unit) /\ Len(SubSeq(st, a, l)) = l - n
        /\ \A i \in 1..l - n : SubSeq(st, a, l)[i] = st[n + i]
    BY <2>2, <2>4, SubSeqProperties
  <2> QED BY <2>3, <2>5 DEF l
<1> DEFINE j == Take(st, n) \o Drop(st, n)
<1>3. /\ j \in Seq(Unit) /\ Len(j) = Len(st)
      /\ \A i \in 1..Len(st) : j[i] = IF i <= n THEN Take(st, n)[i] ELSE Drop(st, n)[i - n]
  BY <1>1, <1>2, ConcatProperties
<1>4. \A i \in 1..Len(st) : j[i] = st[i] BY <1>1, <1>2, <1>3
<1> HIDE DEF j
<1>5. j = st BY <1>3, <1>4
<1> QED BY <1>1, <1>2, <1>5 DEF j

\* an equation between concatenations is kept under a name: spelled out, it is
\* rewritten without end by the provers
Regroups(x, y, z) == (x \o y) \o z = x \o (y \o z)

LEMMA Regrouped ==
  ASSUME NEW x \in Seq(Unit), NEW y \in Seq(Unit), NEW z \in Seq(Unit)
  PROVE  Regroups(x, y, z)
BY ConcatAssociative DEF Regroups

LEMMA NothingJoined ==
  ASSUME NEW x \in Seq(Unit)
  PROVE  x \o <<>> = x /\ <<>> \o x = x
BY ConcatEmptySeq

LEMMA OrderedGrows ==
  ASSUME NEW r \in Records, NEW st, Ordered(st, r), NEW k \in 0..Size[r]
  PROVE  Ordered(st \o Take(Units(r), k), r + 1)
<1> DEFINE x == Take(Units(r), k)
           j == st \o x
<1>1. Size[r] \in Nat /\ r \in Nat /\ Units(r) \in Seq(Unit) /\ Len(Units(r)) = Size[r]
  BY UnitsType, OutboxAssumption
<1>2. x \in Seq(Unit) /\ Len(x) = k /\ \A i \in 1..k : x[i] = <<r, i>>
  <2>1. \A i \in 1..k : Units(r)[i] = <<r, i>> BY <1>1 DEF Units
  <2>2. \A i \in 1..k : Units(r)[i] \in Unit BY <1>1
  <2>3. k \in Int /\ k - 1 + 1 = k /\ (IF 1 <= k THEN k - 1 + 1 ELSE 0) = k
        /\ \A i \in Int : 1 + i - 1 = i
    BY <1>1
  <2> QED BY <2>1, <2>2, <2>3, SubSeqProperties DEF Take
<1>3. /\ st \in Seq(Unit) /\ Len(st) \in Nat /\ k \in Nat
      /\ \A i \in 1..Len(st) - 1 : Before(st[i], st[i + 1])
      /\ \A i \in 1..Len(st) : st[i] \in Unit /\ st[i][1] \in Nat /\ st[i][1] < r
  <2>1. st \in Seq(Unit) /\ Len(st) \in Nat BY DEF Ordered
  <2>2. \A i \in 1..Len(st) : st[i] \in Unit BY <2>1
  <2> QED BY <1>1, <2>1, <2>2, UnitParts DEF Ordered
<1> HIDE DEF x
<1>4. /\ j \in Seq(Unit) /\ Len(j) = Len(st) + k
      /\ \A i \in 1..Len(st) + k : j[i] = IF i <= Len(st) THEN st[i] ELSE x[i - Len(st)]
  <2>1. st \in Seq(Unit) /\ x \in Seq(Unit) /\ Len(x) = k BY <1>2, <1>3
  <2> QED BY <2>1, ConcatProperties
<1>5. /\ \A i \in 1..Len(st) : j[i] = st[i]
      /\ \A i \in Len(st) + 1..Len(st) + k : j[i] = <<r, i - Len(st)>>
  <2>1. ASSUME NEW i \in 1..Len(st) PROVE j[i] = st[i]
    <3>1. i \in 1..Len(st) + k /\ i <= Len(st) BY <1>3
    <3> QED BY <1>4, <3>1
  <2>2. ASSUME NEW i \in Len(st) + 1..Len(st) + k PROVE j[i] = <<r, i - Len(st)>>
    <3>1. i \in 1..Len(st) + k /\ ~(i <= Len(st)) /\ i - Len(st) \in 1..k BY <1>3
    <3> HIDE DEF j, x
    <3> QED BY <1>2, <1>4, <3>1
  <2> QED BY <2>1, <2>2
<1> HIDE DEF x, j
<1>6. ASSUME NEW i \in 1..Len(st) + k PROVE j[i][1] < r + 1
  <2>1. CASE i <= Len(st)
    <3>1. i \in 1..Len(st) BY <1>3, <2>1
    <3>2. j[i] = st[i] BY <1>5, <3>1
    <3> QED BY <1>1, <1>3, <3>1, <3>2
  <2>2. CASE ~(i <= Len(st))
    <3>1. i \in Len(st) + 1..Len(st) + k BY <1>3, <2>2
    <3>2. j[i][1] = r BY <1>5, <3>1
    <3> QED BY <1>1, <3>2
  <2> QED BY <2>1, <2>2
<1>7. ASSUME NEW i \in 1..Len(st) + k - 1 PROVE Before(j[i], j[i + 1])
  <2>1. i \in 1..Len(st) + k /\ i + 1 \in 1..Len(st) + k /\ i \in Nat BY <1>3
  <2>2. CASE i + 1 <= Len(st)
    <3>1. i \in 1..Len(st) - 1 /\ i \in 1..Len(st) /\ i + 1 \in 1..Len(st)
      BY <1>3, <2>1, <2>2
    <3>2. j[i] = st[i] /\ j[i + 1] = st[i + 1] BY <1>5, <3>1
    <3> QED BY <1>3, <3>1, <3>2
  <2>3. CASE i = Len(st)
    <3>0. i \in 1..Len(st) /\ i + 1 \in Len(st) + 1..Len(st) + k BY <1>3, <2>1, <2>3
    <3>1. j[i] = st[i] BY <1>5, <3>0
    <3>2. j[i + 1] = <<r, i + 1 - Len(st)>> BY <1>5, <3>0
    <3>3. st[i][1] < r BY <1>3, <2>1, <2>3
    <3>4. j[i + 1][1] = r BY <3>2
    <3> QED BY <3>1, <3>3, <3>4 DEF Before
  <2>4. CASE i > Len(st)
    <3>0. /\ i \in Len(st) + 1..Len(st) + k
          /\ i + 1 \in Len(st) + 1..Len(st) + k
      BY <1>3, <2>1, <2>4
    <3>1. j[i] = <<r, i - Len(st)>> BY <1>5, <3>0
    <3>2. j[i + 1] = <<r, i + 1 - Len(st)>> BY <1>5, <3>0
    <3>3. j[i][1] = j[i + 1][1] /\ j[i][2] < j[i + 1][2] BY <1>3, <2>1, <3>1, <3>2
    <3> QED BY <3>3 DEF Before
  <2> QED BY <1>3, <2>1, <2>2, <2>3, <2>4
<1> QED BY <1>4, <1>6, <1>7 DEF Ordered, j, x

LEMMA OrderedShrinks ==
  ASSUME NEW x \in Seq(Unit), NEW y \in Seq(Unit), NEW limit, Ordered(x \o y, limit)
  PROVE  Ordered(x, limit)
<1>1. Len(x \o y) = Len(x) + Len(y) /\ \A i \in 1..Len(x) : (x \o y)[i] = x[i]
  OBVIOUS
<1> QED BY <1>1 DEF Ordered

LEMMA TakeEnds ==
  ASSUME NEW st \in Seq(Unit)
  PROVE  Take(st, 0) = <<>> /\ Take(st, Len(st)) = st
BY SubSeqEmpty, SubSeqFull DEF Take

LEMMA NodeSendStream ==
  ASSUME NEW s, Sound(s), NEW bytes \in Seq(Unit)
  PROVE  \/ StreamOf(NodeSend(s, bytes)) = StreamOf(s) \o bytes
         \/ StreamOf(NodeSend(s, bytes)) = StreamOf(s)
<1>1. CASE Len(bytes) <= Room(s)
  <2>1. NodeSend(s, bytes).wire = s.wire /\ NodeSend(s, bytes).payload = s.payload \o bytes
    BY <1>1 DEF NodeSend, Enqueue, Sound, StateOf
  <2>2. s.wire \in Seq(Unit) /\ s.payload \in Seq(Unit) BY DEF Sound, StateOf
  <2>3. (s.wire \o s.payload) \o bytes = s.wire \o (s.payload \o bytes)
    <3>1. Regroups(s.wire, s.payload, bytes) BY <2>2, Regrouped
    <3> QED BY <3>1 DEF Regroups
  <2>4. StreamOf(NodeSend(s, bytes)) = s.wire \o (s.payload \o bytes)
    BY <2>1, Zenon DEF StreamOf
  <2> QED BY <2>3, <2>4, Zenon DEF StreamOf
<1>2. CASE ~(Len(bytes) <= Room(s))
  BY <1>2 DEF NodeSend, Refuse, StreamOf, Sound, StateOf
<1> QED BY <1>1, <1>2

LEMMA CoreSendStream ==
  ASSUME NEW s, Sound(s), NEW bytes \in Seq(Unit), NEW n \in Nat,
         Direct(s) => n <= Len(bytes)
  PROVE  \E k \in 0..Len(bytes) :
           StreamOf(CoreSend(s, bytes, n)) = StreamOf(s) \o Take(bytes, k)
<1> DEFINE put == Put(s, bytes, n)
<1>1. \A r, k : Sound(r) => StreamOf(Arm(r, k)) = StreamOf(r)
  BY DEF Arm, StreamOf, Sound, StateOf
<1>2. StreamOf(s) \in Seq(Unit) /\ s.wire \in Seq(Unit) /\ s.payload \in Seq(Unit)
  BY DEF StreamOf, Sound, StateOf
<1>3. StreamOf(s) = StreamOf(s) \o Take(bytes, 0)
  <2>1. StreamOf(s) \o <<>> = StreamOf(s) BY <1>2, NothingJoined
  <2>2. Take(bytes, 0) = <<>> BY TakeEnds
  <2> QED BY <2>1, <2>2
<1>4. StreamOf(s) \o bytes = StreamOf(s) \o Take(bytes, Len(bytes)) BY TakeEnds
<1>5. Len(bytes) \in Nat /\ 0 \in 0..Len(bytes) /\ Len(bytes) \in 0..Len(bytes) OBVIOUS
<1>6. CASE Direct(s)
  <2>1. n \in 0..Len(bytes) BY <1>6
  <2>2. /\ Take(bytes, n) \in Seq(Unit) /\ Drop(bytes, n) \in Seq(Unit)
        /\ Take(bytes, n) \o Drop(bytes, n) = bytes
    BY <2>1, SplitJoin
  <2>3. Sound(put) /\ put.payload = s.payload /\ s.payload = <<>>
    BY <1>6, <2>1, PutSound DEF Direct
  <2>4. put.wire = s.wire \o Take(bytes, n) BY DEF Put, Sound, StateOf
  <2>5. StreamOf(put) = StreamOf(s) \o Take(bytes, n)
    <3> DEFINE t == Take(bytes, n)
    <3>1. put.payload = <<>> /\ s.payload = <<>> /\ put.wire = s.wire \o t /\ t \in Seq(Unit)
      BY <2>2, <2>3, <2>4
    <3> HIDE DEF t, put
    <3>2. s.wire \o t \in Seq(Unit) BY <1>2, <3>1, ConcatProperties
    <3>3. (s.wire \o t) \o <<>> = s.wire \o t /\ s.wire \o <<>> = s.wire
      BY <1>2, <3>2, NothingJoined
    <3>4. StreamOf(put) = StreamOf(s) \o t BY <3>1, <3>3 DEF StreamOf
    <3> QED BY <3>4 DEF t
  <2>6. StreamOf(put) \o Drop(bytes, n) = StreamOf(s) \o bytes
    <3> DEFINE x == StreamOf(s)
               y == Take(bytes, n)
               z == Drop(bytes, n)
    <3>1. x \in Seq(Unit) /\ y \in Seq(Unit) /\ z \in Seq(Unit) BY <1>2, <2>2
    <3>2. StreamOf(put) = x \o y /\ y \o z = bytes BY <2>2, <2>5
    <3> HIDE DEF x, y, z, put
    <3>3. Regroups(x, y, z) BY <3>1, Regrouped
    <3>4. StreamOf(put) \o z = x \o bytes BY <3>2, <3>3 DEF Regroups
    <3> QED BY <3>4 DEF x, z
  <2> DEFINE rest == NodeSend(put, Drop(bytes, n))
  <2>7. Sound(rest) /\ (\/ StreamOf(rest) = StreamOf(put) \o Drop(bytes, n)
                        \/ StreamOf(rest) = StreamOf(put))
    BY <2>2, <2>3, NodeSendSound, NodeSendStream
  <2>8. CoreSend(s, bytes, n) = IF n = Len(bytes) THEN put ELSE Arm(rest, n)
    BY <1>6 DEF CoreSend
  <2> HIDE DEF put, rest
  <2> QED BY <1>1, <1>4, <1>5, <2>1, <2>5, <2>6, <2>7, <2>8
<1>7. CASE ~Direct(s)
  <2> DEFINE all == NodeSend(s, bytes)
  <2>1. Sound(all) /\ (StreamOf(all) = StreamOf(s) \o bytes \/ StreamOf(all) = StreamOf(s))
    BY NodeSendSound, NodeSendStream
  <2>2. CoreSend(s, bytes, n) = all \/ CoreSend(s, bytes, n) = Arm(all, 1)
    BY <1>7 DEF CoreSend
  <2> HIDE DEF all
  <2> QED BY <1>1, <1>3, <1>4, <1>5, <2>1, <2>2
<1> QED BY <1>6, <1>7

(***************************************************************************)
(* The actions.                                                            *)
(***************************************************************************)
LEMMA BecomesOrdered ==
  ASSUME IInv, OInv, NEW b \in Brokers, NEW s, Sound(s), Becomes(b, s),
         proxy' = proxy, NEW limit \in Nat, next' = [next EXCEPT ![b] = limit],
         ~proxy => Ordered(StreamOf(s), limit)
  PROVE  OInv'
<1>1. SUFFICES ASSUME ~proxy, NEW c \in Brokers
               PROVE  Ordered(wire'[c] \o payload'[c], next'[c])
  BY DEF OInv
<1>2. /\ wire'[c] = IF c = b THEN s.wire ELSE wire[c]
      /\ payload'[c] = IF c = b THEN s.payload ELSE payload[c]
      /\ next'[c] = IF c = b THEN limit ELSE next[c]
  BY DEF IInv, TypeOK, Becomes
<1>3. Ordered(wire[c] \o payload[c], next[c]) BY <1>1 DEF OInv
<1>4. Ordered(s.wire \o s.payload, limit) BY <1>1 DEF StreamOf
<1> QED BY <1>2, <1>3, <1>4

LEMMA SendOrdered ==
  ASSUME IInv, OInv, NEW b \in Brokers, NEW n \in Bytes, Send(b, n)
  PROVE  OInv'
<1> DEFINE r == next[b]
           s == CoreSend(Of(b), Units(r), n)
<1>1. /\ r \in Records /\ r \in Nat /\ n \in Nat /\ n <= Size[r] /\ Becomes(b, s)
      /\ next' = [next EXCEPT ![b] = r + 1] /\ proxy' = proxy
  BY OutboxAssumption, BytesNat DEF Send
<1>2. Sound(Of(b)) /\ Units(r) \in Seq(Unit) /\ Len(Units(r)) = Size[r]
  BY <1>1, OfSound, UnitsType
<1>3. Sound(s) BY <1>1, <1>2, CoreSendSound
<1>4. StreamOf(Of(b)) = wire[b] \o payload[b] BY DEF StreamOf, Of
<1>5. PICK k \in 0..Size[r] : StreamOf(s) = StreamOf(Of(b)) \o Take(Units(r), k)
  BY <1>1, <1>2, CoreSendStream
<1>6. ~proxy => Ordered(StreamOf(s), r + 1)
  BY <1>1, <1>4, <1>5, OrderedGrows DEF OInv
<1>7. r + 1 \in Nat BY <1>1
<1> HIDE DEF r, s
<1> QED BY <1>1, <1>3, <1>6, <1>7, BecomesOrdered

LEMMA WritableOrdered ==
  ASSUME IInv, OInv, NEW b \in Brokers, NEW n \in 0..Len(payload[b]), NEW m \in Bytes,
         Writable(b, n, m)
  PROVE  OInv'
<1>1. CASE proxy
  BY <1>1 DEF Writable, OInv
<1>2. CASE ~proxy
  <2> DEFINE written == Put(Of(b), payload[b], n)
             erased == Release(written, n)
             s == Rearm(IF n = 0 THEN written ELSE erased)
  <2>1. /\ payload[b] \in Seq(Unit) /\ wire[b] \in Seq(Unit) /\ Sound(Of(b))
        /\ Of(b).payload = payload[b] /\ Of(b).wire = wire[b]
    BY OfSound DEF IInv, TypeOK, Of
  <2>2. /\ Take(payload[b], n) \in Seq(Unit) /\ Drop(payload[b], n) \in Seq(Unit)
        /\ Take(payload[b], n) \o Drop(payload[b], n) = payload[b]
    BY <2>1, SplitJoin
  <2>3. /\ Sound(written) /\ written.payload = payload[b]
        /\ written.wire = wire[b] \o Take(payload[b], n)
    BY <2>1, PutSound DEF Put, Of
  <2>4. /\ Sound(erased) /\ erased.payload = Drop(payload[b], n)
        /\ erased.wire = wire[b] \o Take(payload[b], n)
    <3> HIDE DEF written
    <3> QED BY <2>3, ReleaseSound DEF Release, Sound, StateOf
  <2>5. StreamOf(erased) = wire[b] \o payload[b]
    <3>1. (wire[b] \o Take(payload[b], n)) \o Drop(payload[b], n)
            = wire[b] \o (Take(payload[b], n) \o Drop(payload[b], n))
      <4>1. Regroups(wire[b], Take(payload[b], n), Drop(payload[b], n))
        BY <2>1, <2>2, Regrouped
      <4> QED BY <4>1 DEF Regroups
    <3> HIDE DEF erased
    <3>2. StreamOf(erased) = (wire[b] \o Take(payload[b], n)) \o Drop(payload[b], n)
      BY <2>4 DEF StreamOf
    <3> QED BY <2>2, <3>1, <3>2, Zenon
  <2>6. n = 0 => StreamOf(written) = wire[b] \o payload[b]
    <3> HIDE DEF written
    <3>1. wire[b] \o <<>> = wire[b] BY <2>1, NothingJoined
    <3>2. n = 0 => written.wire = wire[b]
      <4>1. Take(payload[b], 0) = <<>> BY <2>1, TakeEnds
      <4> QED BY <2>3, <3>1, <4>1
    <3>3. StreamOf(written) = written.wire \o payload[b] BY <2>3 DEF StreamOf
    <3> QED BY <3>2, <3>3
  <2>7. \A r : Sound(r) => StreamOf(Rearm(r)) = StreamOf(r)
    BY DEF Rearm, Arm, StreamOf, Sound, StateOf
  <2> HIDE DEF written, erased
  <2>8. Sound(s) /\ StreamOf(s) = wire[b] \o payload[b]
    BY <2>3, <2>4, <2>5, <2>6, <2>7, RearmSound
  <2>9. Becomes(b, s) /\ proxy' = proxy /\ next' = next
    BY <1>2 DEF Writable, written, erased
  <2>10. next[b] \in Nat /\ next' = [next EXCEPT ![b] = next[b]]
    BY <2>9 DEF IInv, TypeOK
  <2>11. Ordered(StreamOf(s), next[b]) BY <1>2, <2>8 DEF OInv
  <2> HIDE DEF s
  <2> QED BY <2>8, <2>9, <2>10, <2>11, BecomesOrdered
<1> QED BY <1>1, <1>2

LEMMA CloseOrdered ==
  ASSUME IInv, OInv, NEW b \in Brokers, Close(b)
  PROVE  OInv'
<1>1. SUFFICES ASSUME ~proxy, NEW c \in Brokers
               PROVE  Ordered(wire'[c] \o payload'[c], next'[c])
  BY DEF OInv, Close
<1>2. wire[c] \in Seq(Unit) /\ payload[c] \in Seq(Unit) BY DEF IInv, TypeOK
<1>3. /\ wire'[c] = wire[c] /\ next'[c] = next[c]
      /\ payload'[c] = <<>> \/ payload'[c] = payload[c]
  BY DEF Close, Becomes, Of, IInv, TypeOK
<1>4. Ordered(wire[c] \o payload[c], next[c]) BY <1>1 DEF OInv
<1>5. Ordered(wire[c], next[c]) BY <1>2, <1>4, OrderedShrinks
<1>6. wire[c] \o <<>> = wire[c] BY <1>2, NothingJoined
<1> QED BY <1>3, <1>4, <1>5, <1>6

(***************************************************************************)
(* Without the backlog of a proxy the peer gets the bytes of a connection  *)
(* in the order of the calls, whatever part of a record the socket takes,  *)
(* the budget refuses or a change of the mode sends past the queue.        *)
(***************************************************************************)
THEOREM SentInOrder == Spec => []SendOrder
<1>1. Init => IInv /\ OInv
  <2>1. Init => IInv
    BY OutboxAssumption DEF Init, IInv, TypeOK, BudgetExact, QueueIsArmed
  <2>2. Init => \A b \in Brokers : wire[b] \o payload[b] = <<>>
    BY DEF Init
  <2>3. Ordered(<<>>, 1) BY DEF Ordered
  <2>4. Init => \A b \in Brokers : next[b] = 1 BY DEF Init
  <2> QED BY <2>1, <2>2, <2>3, <2>4 DEF OInv
<1>2. ASSUME IInv, OInv, [Next]_vars PROVE IInv' /\ OInv'
  <2>1. ASSUME NEW b \in Brokers, NEW n \in Bytes, Send(b, n) PROVE IInv' /\ OInv'
    BY <1>2, <2>1, SendKeeps, SendOrdered
  <2>2. ASSUME NEW b \in Brokers, NEW n \in 0..Len(payload[b]), NEW m \in Bytes,
               Writable(b, n, m)
        PROVE  IInv' /\ OInv'
    BY <1>2, <2>2, WritableKeeps, WritableOrdered
  <2>3. ASSUME NEW b \in Brokers, Close(b) PROVE IInv' /\ OInv'
    BY <1>2, <2>3, CloseKeeps, CloseOrdered
  <2>4. ASSUME NEW mode \in Modes, Sending(mode) PROVE IInv' /\ OInv'
    BY <1>2, <2>4, OutboxAssumption
    DEF Sending, IInv, OInv, TypeOK, BudgetExact, QueueIsArmed
  <2>5. CASE UNCHANGED vars
    BY <1>2, <2>5 DEF vars, IInv, OInv, TypeOK, BudgetExact, QueueIsArmed
  <2> QED BY <1>2, <2>1, <2>2, <2>3, <2>4, <2>5 DEF Next
<1>3. OInv => SendOrder BY DEF OInv, SendOrder, InOrder, Ordered
<1> QED BY <1>1, <1>2, <1>3, PTL DEF Spec

(***************************************************************************)
(* Completeness. With the backlog of a proxy what is sent is divided among *)
(* the stream and the records that are kept; a handler adds to the one or  *)
(* the other, or moves the oldest record that is kept to the stream.       *)
(***************************************************************************)
LEMMA JoinedUnits ==
  ASSUME NEW x \in Seq(Unit), NEW y \in Seq(Unit)
  PROVE  /\ ToSet(x \o y) = ToSet(x) \cup ToSet(y)
         /\ IsInjective(x) /\ IsInjective(y) /\ ToSet(x) \cap ToSet(y) = {}
              => IsInjective(x \o y)
         /\ IsInjective(x \o y)
              => IsInjective(x) /\ IsInjective(y) /\ ToSet(x) \cap ToSet(y) = {}
<1> DEFINE z == x \o y
<1>1. /\ DOMAIN x = 1..Len(x) /\ DOMAIN y = 1..Len(y) /\ Len(x) \in Nat /\ Len(y) \in Nat
      /\ DOMAIN z = 1..Len(x) + Len(y)
      /\ \A i \in 1..Len(x) + Len(y) : z[i] = IF i <= Len(x) THEN x[i] ELSE y[i - Len(x)]
  BY ConcatProperties
<1> HIDE DEF z
<1>2. ASSUME NEW i \in DOMAIN x PROVE i \in DOMAIN z /\ z[i] = x[i]
  BY <1>1
<1>3. ASSUME NEW i \in DOMAIN y PROVE Len(x) + i \in DOMAIN z /\ z[Len(x) + i] = y[i]
  <2>1. Len(x) + i \in 1..Len(x) + Len(y) /\ ~(Len(x) + i <= Len(x)) /\ Len(x) + i - Len(x) = i
    BY <1>1
  <2> QED BY <1>1, <2>1
<1>4. ASSUME NEW i \in DOMAIN z
      PROVE  i \in DOMAIN x \/ \E j \in DOMAIN y : i = Len(x) + j
  <2>1. i \in Int /\ ~(i <= Len(x)) => i - Len(x) \in 1..Len(y) /\ i = Len(x) + (i - Len(x))
    BY <1>1
  <2>2. i <= Len(x) => i \in DOMAIN x BY <1>1
  <2> QED BY <1>1, <2>1, <2>2
<1>5. ToSet(z) = ToSet(x) \cup ToSet(y)
  BY <1>2, <1>3, <1>4 DEF ToSet
<1>6. ASSUME IsInjective(x), IsInjective(y), ToSet(x) \cap ToSet(y) = {} PROVE IsInjective(z)
  <2>1. \A i \in DOMAIN x, j \in DOMAIN y : x[i] # y[j] BY <1>6 DEF ToSet
  <2> SUFFICES ASSUME NEW i \in DOMAIN z, NEW j \in DOMAIN z, z[i] = z[j] PROVE i = j
    BY DEF IsInjective
  <2>2. CASE i \in DOMAIN x /\ j \in DOMAIN x BY <1>2, <1>6, <2>2 DEF IsInjective
  <2>3. CASE i \in DOMAIN x /\ \E l \in DOMAIN y : j = Len(x) + l BY <1>2, <1>3, <2>1, <2>3
  <2>4. CASE j \in DOMAIN x /\ \E l \in DOMAIN y : i = Len(x) + l BY <1>2, <1>3, <2>1, <2>4
  <2>5. CASE \E l, k \in DOMAIN y : i = Len(x) + l /\ j = Len(x) + k
    BY <1>3, <1>6, <2>5 DEF IsInjective
  <2> QED BY <1>4, <2>2, <2>3, <2>4, <2>5
<1>7. ASSUME IsInjective(z)
      PROVE  IsInjective(x) /\ IsInjective(y) /\ ToSet(x) \cap ToSet(y) = {}
  <2>1. IsInjective(x) BY <1>2, <1>7 DEF IsInjective
  <2>2. IsInjective(y)
    <3> SUFFICES ASSUME NEW i \in DOMAIN y, NEW j \in DOMAIN y, y[i] = y[j] PROVE i = j
      BY DEF IsInjective
    <3>1. Len(x) + i = Len(x) + j BY <1>3, <1>7 DEF IsInjective
    <3> QED BY <1>1, <3>1
  <2>3. \A i \in DOMAIN x, j \in DOMAIN y : x[i] # y[j]
    <3> SUFFICES ASSUME NEW i \in DOMAIN x, NEW j \in DOMAIN y, x[i] = y[j] PROVE FALSE
      OBVIOUS
    <3>1. i = Len(x) + j BY <1>2, <1>3, <1>7 DEF IsInjective
    <3> QED BY <1>1, <3>1
  <2> QED BY <2>1, <2>2, <2>3 DEF ToSet
<1> QED BY <1>5, <1>6, <1>7 DEF z

LEMMA OnceStream ==
  ASSUME NEW st \in Seq(Unit), NEW kept \in Seq(Seq(Unit)), NEW units, Once(st, kept, units),
         NEW y \in Seq(Unit), IsInjective(y), ToSet(y) \cap units = {}
  PROVE  Once(st \o y, kept, units \cup ToSet(y))
<1>1. ToSet(st \o y) = ToSet(st) \cup ToSet(y) /\ ToSet(st) \subseteq units
  BY JoinedUnits DEF Once
<1>2. IsInjective(st \o y) BY <1>1, JoinedUnits DEF Once
<1>3. \A k \in DOMAIN kept : ToSet(kept[k]) \subseteq units BY DEF Once
<1> QED BY <1>1, <1>2, <1>3 DEF Once

LEMMA OnceKept ==
  ASSUME NEW st \in Seq(Unit), NEW kept \in Seq(Seq(Unit)), NEW units, Once(st, kept, units),
         NEW y \in Seq(Unit), IsInjective(y), ToSet(y) \cap units = {}
  PROVE  Once(st, Append(kept, y), units \cup ToSet(y))
<1> DEFINE z == Append(kept, y)
           e == Len(kept) + 1
<1>1. /\ DOMAIN z = DOMAIN kept \cup {e} /\ e \notin DOMAIN kept /\ z[e] = y
      /\ \A k \in DOMAIN kept : z[k] = kept[k]
  OBVIOUS
<1>2. ToSet(st) \subseteq units /\ \A k \in DOMAIN kept : ToSet(kept[k]) \subseteq units
  BY DEF Once
<1> HIDE DEF z, e
<1>3. \A k \in DOMAIN z : IsInjective(z[k]) /\ ToSet(z[k]) \cap ToSet(st) = {}
  BY <1>1, <1>2 DEF Once
<1>4. \A j, k \in DOMAIN z : j # k => ToSet(z[j]) \cap ToSet(z[k]) = {}
  BY <1>1, <1>2 DEF Once
<1>5. UNION {ToSet(z[k]) : k \in DOMAIN z}
        = ToSet(y) \cup UNION {ToSet(kept[k]) : k \in DOMAIN kept}
  <2>1. ASSUME NEW u PROVE (\E k \in DOMAIN z : u \in ToSet(z[k]))
                           <=> u \in ToSet(y) \/ \E k \in DOMAIN kept : u \in ToSet(kept[k])
    BY <1>1
  <2> QED BY <2>1
<1>6. ToSet(st) \cup UNION {ToSet(z[k]) : k \in DOMAIN z} = units \cup ToSet(y)
  BY <1>5 DEF Once
<1>7. IsInjective(st) BY DEF Once
<1>8. Once(st, z, units \cup ToSet(y)) BY <1>3, <1>4, <1>6, <1>7 DEF Once
<1> QED BY <1>8 DEF z

LEMMA OnceMoved ==
  ASSUME NEW st \in Seq(Unit), NEW kept \in Seq(Seq(Unit)), NEW units, Once(st, kept, units),
         kept # <<>>
  PROVE  Once(st \o Head(kept), Tail(kept), units)
<1> DEFINE h == Head(kept)
           z == Tail(kept)
<1>1. /\ h = kept[1] /\ 1 \in DOMAIN kept /\ h \in Seq(Unit) /\ z \in Seq(Seq(Unit))
      /\ \A k \in DOMAIN z : k + 1 \in DOMAIN kept /\ k + 1 # 1 /\ z[k] = kept[k + 1]
      /\ \A k \in DOMAIN kept : k # 1 => k - 1 \in DOMAIN z /\ z[k - 1] = kept[k]
      /\ DOMAIN z \subseteq Int
  BY HeadTailProperties
<1> HIDE DEF h, z
<1>2. ToSet(st \o h) = ToSet(st) \cup ToSet(h) BY <1>1, JoinedUnits
<1>3. IsInjective(st) /\ IsInjective(h) /\ ToSet(h) \cap ToSet(st) = {} BY <1>1 DEF Once
<1>4. IsInjective(st \o h) BY <1>1, <1>3, JoinedUnits
<1>5. \A k \in DOMAIN z : IsInjective(z[k]) /\ ToSet(z[k]) \cap ToSet(st \o h) = {}
  BY <1>1, <1>2 DEF Once
<1>6. \A j, k \in DOMAIN z : j # k => ToSet(z[j]) \cap ToSet(z[k]) = {}
  <2> SUFFICES ASSUME NEW j \in DOMAIN z, NEW k \in DOMAIN z, j # k
               PROVE  ToSet(z[j]) \cap ToSet(z[k]) = {}
    OBVIOUS
  <2>1. j + 1 # k + 1 BY <1>1
  <2> QED BY <1>1, <2>1 DEF Once
<1>7. UNION {ToSet(kept[k]) : k \in DOMAIN kept}
        = ToSet(h) \cup UNION {ToSet(z[k]) : k \in DOMAIN z}
  <2>1. ASSUME NEW u PROVE (\E k \in DOMAIN kept : u \in ToSet(kept[k]))
                           <=> u \in ToSet(h) \/ \E k \in DOMAIN z : u \in ToSet(z[k])
    BY <1>1
  <2> QED BY <2>1
<1>8. ToSet(st \o h) \cup UNION {ToSet(z[k]) : k \in DOMAIN z} = units
  BY <1>2, <1>7 DEF Once
<1> QED BY <1>4, <1>5, <1>6, <1>8 DEF Once, h, z

(***************************************************************************)
(* A record that goes through Core::send(): what is before k is in the     *)
(* stream, and the rest, if there is one, is the youngest record kept.     *)
(***************************************************************************)
Divided(s, t, bytes) ==
  \/ StreamOf(t) = StreamOf(s) \o bytes /\ t.backlog = s.backlog
  \/ \E k \in 0..Len(bytes) : /\ StreamOf(t) = StreamOf(s) \o Take(bytes, k)
                              /\ t.backlog = Append(s.backlog, Drop(bytes, k))

LEMMA NodeSendDivided ==
  ASSUME proxy, NEW s, Sound(s), NEW bytes \in Seq(Unit)
  PROVE  /\ Len(bytes) <= Room(s) =>
              /\ StreamOf(NodeSend(s, bytes)) = StreamOf(s) \o bytes
              /\ NodeSend(s, bytes).backlog = s.backlog
         /\ ~(Len(bytes) <= Room(s)) =>
              /\ StreamOf(NodeSend(s, bytes)) = StreamOf(s)
              /\ NodeSend(s, bytes).backlog = Append(s.backlog, bytes)
<1>1. CASE Len(bytes) <= Room(s)
  <2>1. /\ NodeSend(s, bytes).wire = s.wire /\ NodeSend(s, bytes).payload = s.payload \o bytes
        /\ NodeSend(s, bytes).backlog = s.backlog
    BY <1>1 DEF NodeSend, Enqueue, Sound, StateOf
  <2>2. s.wire \in Seq(Unit) /\ s.payload \in Seq(Unit) BY DEF Sound, StateOf
  <2>3. (s.wire \o s.payload) \o bytes = s.wire \o (s.payload \o bytes)
    <3>1. Regroups(s.wire, s.payload, bytes) BY <2>2, Regrouped
    <3> QED BY <3>1 DEF Regroups
  <2>4. StreamOf(NodeSend(s, bytes)) = s.wire \o (s.payload \o bytes)
    BY <2>1, Zenon DEF StreamOf
  <2>5. StreamOf(NodeSend(s, bytes)) = StreamOf(s) \o bytes
    BY <2>3, <2>4, Zenon DEF StreamOf
  <2> QED BY <1>1, <2>1, <2>5
<1>2. CASE ~(Len(bytes) <= Room(s))
  BY <1>2 DEF NodeSend, Refuse, StreamOf, Sound, StateOf
<1> QED BY <1>1, <1>2

LEMMA CoreSendDivided ==
  ASSUME proxy, NEW s, Sound(s), NEW bytes \in Seq(Unit), NEW n \in Nat,
         Direct(s) => n <= Len(bytes)
  PROVE  /\ Divided(s, CoreSend(s, bytes, n), bytes)
         /\ Len(bytes) <= Room(s) =>
              /\ StreamOf(CoreSend(s, bytes, n)) = StreamOf(s) \o bytes
              /\ CoreSend(s, bytes, n).backlog = s.backlog
<1> DEFINE put == Put(s, bytes, n)
<1>1. \A r, k : Sound(r) => StreamOf(Arm(r, k)) = StreamOf(r) /\ Arm(r, k).backlog = r.backlog
  BY DEF Arm, StreamOf, Sound, StateOf
<1>2. StreamOf(s) \in Seq(Unit) /\ s.wire \in Seq(Unit) /\ s.payload \in Seq(Unit)
  BY DEF StreamOf, Sound, StateOf
<1>3. StreamOf(s) = StreamOf(s) \o Take(bytes, 0)
  <2>1. StreamOf(s) \o <<>> = StreamOf(s) BY <1>2, NothingJoined
  <2>2. Take(bytes, 0) = <<>> BY TakeEnds
  <2> QED BY <2>1, <2>2
<1>4. bytes = Drop(bytes, 0) BY DEF Drop
<1>5. Len(bytes) \in Nat /\ 0 \in 0..Len(bytes) OBVIOUS
<1>6. CASE Direct(s)
  <2>1. n \in 0..Len(bytes) BY <1>6
  <2>2. /\ Take(bytes, n) \in Seq(Unit) /\ Drop(bytes, n) \in Seq(Unit)
        /\ Take(bytes, n) \o Drop(bytes, n) = bytes
        /\ Len(Drop(bytes, n)) <= Len(bytes)
    <3>1. Len(Drop(bytes, n)) = Len(bytes) - n BY <2>1, SplitJoin
    <3>2. /\ Take(bytes, n) \in Seq(Unit) /\ Drop(bytes, n) \in Seq(Unit)
          /\ Take(bytes, n) \o Drop(bytes, n) = bytes
      BY <2>1, SplitJoin
    <3>3. Len(Drop(bytes, n)) <= Len(bytes) BY <1>5, <2>1, <3>1
    <3> QED BY <3>2, <3>3
  <2>3. Sound(put) /\ put.payload = s.payload /\ s.payload = <<>>
    BY <1>6, <2>1, PutSound DEF Direct
  <2>4. /\ put.wire = s.wire \o Take(bytes, n) /\ put.backlog = s.backlog
        /\ put.memory = s.memory /\ put.used = s.used
    BY DEF Put, Sound, StateOf
  <2>5. Room(put) = Room(s) BY <2>4 DEF Room
  <2>6. StreamOf(put) = StreamOf(s) \o Take(bytes, n)
    <3> DEFINE t == Take(bytes, n)
    <3>1. put.payload = <<>> /\ s.payload = <<>> /\ put.wire = s.wire \o t /\ t \in Seq(Unit)
      BY <2>2, <2>3, <2>4
    <3> HIDE DEF t, put
    <3>2. s.wire \o t \in Seq(Unit) BY <1>2, <3>1, ConcatProperties
    <3>3. (s.wire \o t) \o <<>> = s.wire \o t /\ s.wire \o <<>> = s.wire
      BY <1>2, <3>2, NothingJoined
    <3>4. StreamOf(put) = StreamOf(s) \o t BY <3>1, <3>3 DEF StreamOf
    <3> QED BY <3>4 DEF t
  <2>7. StreamOf(put) \o Drop(bytes, n) = StreamOf(s) \o bytes
    <3> DEFINE x == StreamOf(s)
               y == Take(bytes, n)
               z == Drop(bytes, n)
    <3>1. x \in Seq(Unit) /\ y \in Seq(Unit) /\ z \in Seq(Unit) BY <1>2, <2>2
    <3>2. StreamOf(put) = x \o y /\ y \o z = bytes BY <2>2, <2>6
    <3> HIDE DEF x, y, z, put
    <3>3. Regroups(x, y, z) BY <3>1, Regrouped
    <3>4. StreamOf(put) \o z = x \o bytes BY <3>2, <3>3 DEF Regroups
    <3> QED BY <3>4 DEF x, z
  <2> DEFINE rest == NodeSend(put, Drop(bytes, n))
  <2>8. Sound(rest) BY <2>2, <2>3, NodeSendSound
  <2>9. CoreSend(s, bytes, n) = IF n = Len(bytes) THEN put ELSE Arm(rest, n)
    BY <1>6 DEF CoreSend
  <2>10. /\ Len(Drop(bytes, n)) <= Room(s) =>
              StreamOf(rest) = StreamOf(put) \o Drop(bytes, n) /\ rest.backlog = put.backlog
         /\ ~(Len(Drop(bytes, n)) <= Room(s)) =>
              /\ StreamOf(rest) = StreamOf(put)
              /\ rest.backlog = Append(put.backlog, Drop(bytes, n))
    BY <2>2, <2>3, <2>5, NodeSendDivided
  <2>11. n = Len(bytes) => StreamOf(put) = StreamOf(s) \o bytes
    BY <2>6, TakeEnds
  <2>12. Len(Drop(bytes, n)) \in Nat /\ Room(s) \in Nat
    BY <2>2, RoomBounds
  <2> HIDE DEF put, rest
  <2>13. CASE n = Len(bytes) BY <2>4, <2>9, <2>11, <2>13 DEF Divided
  <2>14. CASE n # Len(bytes) /\ Len(Drop(bytes, n)) <= Room(s)
    BY <1>1, <2>4, <2>7, <2>8, <2>9, <2>10, <2>14 DEF Divided
  <2>15. CASE n # Len(bytes) /\ ~(Len(Drop(bytes, n)) <= Room(s))
    <3>1. ~(Len(bytes) <= Room(s)) BY <1>5, <2>2, <2>12, <2>15
    <3>2. StreamOf(rest) = StreamOf(s) \o Take(bytes, n)
          /\ rest.backlog = Append(s.backlog, Drop(bytes, n))
      BY <2>4, <2>6, <2>10, <2>15
    <3>3. CoreSend(s, bytes, n) = Arm(rest, n) BY <2>9, <2>15
    <3>4. /\ StreamOf(CoreSend(s, bytes, n)) = StreamOf(s) \o Take(bytes, n)
          /\ CoreSend(s, bytes, n).backlog = Append(s.backlog, Drop(bytes, n))
      BY <1>1, <2>8, <3>2, <3>3
    <3> QED BY <2>1, <3>1, <3>4 DEF Divided
  <2> QED BY <2>13, <2>14, <2>15
<1>7. CASE ~Direct(s)
  <2> DEFINE all == NodeSend(s, bytes)
  <2>1. Sound(all) BY NodeSendSound
  <2>2. CoreSend(s, bytes, n) = all \/ CoreSend(s, bytes, n) = Arm(all, 1)
    BY <1>7 DEF CoreSend
  <2>3. /\ Len(bytes) <= Room(s) =>
             StreamOf(all) = StreamOf(s) \o bytes /\ all.backlog = s.backlog
        /\ ~(Len(bytes) <= Room(s)) =>
             StreamOf(all) = StreamOf(s) /\ all.backlog = Append(s.backlog, bytes)
    BY NodeSendDivided
  <2> HIDE DEF all
  <2>4. CASE Len(bytes) <= Room(s) BY <1>1, <2>1, <2>2, <2>3, <2>4 DEF Divided
  <2>5. CASE ~(Len(bytes) <= Room(s))
    BY <1>1, <1>3, <1>4, <1>5, <2>1, <2>2, <2>3, <2>5 DEF Divided
  <2> QED BY <2>4, <2>5
<1> QED BY <1>6, <1>7

LEMMA DividedOnce ==
  ASSUME NEW s, Sound(s), NEW t, NEW units, Once(StreamOf(s), s.backlog, units),
         NEW bytes \in Seq(Unit), IsInjective(bytes), ToSet(bytes) \cap units = {},
         Divided(s, t, bytes)
  PROVE  Once(StreamOf(t), t.backlog, units \cup ToSet(bytes))
<1>1. StreamOf(s) \in Seq(Unit) /\ s.backlog \in Seq(Seq(Unit))
  BY DEF StreamOf, Sound, StateOf
<1>2. CASE StreamOf(t) = StreamOf(s) \o bytes /\ t.backlog = s.backlog
  BY <1>1, <1>2, OnceStream
<1>3. ASSUME NEW k \in 0..Len(bytes), StreamOf(t) = StreamOf(s) \o Take(bytes, k),
             t.backlog = Append(s.backlog, Drop(bytes, k))
      PROVE  Once(StreamOf(t), t.backlog, units \cup ToSet(bytes))
  <2> DEFINE x == Take(bytes, k)
             y == Drop(bytes, k)
  <2>1. x \in Seq(Unit) /\ y \in Seq(Unit) /\ x \o y = bytes BY SplitJoin
  <2> HIDE DEF x, y
  <2>2. /\ ToSet(bytes) = ToSet(x) \cup ToSet(y) /\ IsInjective(x) /\ IsInjective(y)
        /\ ToSet(x) \cap ToSet(y) = {}
    BY <2>1, JoinedUnits
  <2>3. Once(StreamOf(s) \o x, s.backlog, units \cup ToSet(x))
    BY <1>1, <2>1, <2>2, OnceStream
  <2>4. StreamOf(s) \o x \in Seq(Unit) /\ ToSet(y) \cap (units \cup ToSet(x)) = {}
    BY <1>1, <2>1, <2>2
  <2>5. Once(StreamOf(s) \o x, Append(s.backlog, y), (units \cup ToSet(x)) \cup ToSet(y))
    BY <1>1, <2>1, <2>2, <2>3, <2>4, OnceKept
  <2>6. (units \cup ToSet(x)) \cup ToSet(y) = units \cup ToSet(bytes) BY <2>2
  <2> QED BY <1>3, <2>5, <2>6 DEF x, y
<1> QED BY <1>2, <1>3 DEF Divided

\* the oldest record kept is not tried before there is room for all of it
LEMMA RetryOnce ==
  ASSUME proxy, NEW s, Sound(s), NEW n \in Nat, NEW units,
         Once(StreamOf(s), s.backlog, units),
         Direct(s) /\ s.backlog # <<>> => n <= Len(Head(s.backlog))
  PROVE  Once(StreamOf(Retry(s, n)), Retry(s, n).backlog, units)
<1>1. CASE s.backlog # <<>> /\ Len(Head(s.backlog)) <= Room(s)
  <2> DEFINE oldest == Head(s.backlog)
             after == CoreSend(s, oldest, n)
             z == [after EXCEPT !.backlog = Tail(@)]
  <2>1. oldest \in Seq(Unit) /\ Len(oldest) \in Nat BY <1>1 DEF Sound, StateOf
  <2>2. Sound(after) BY <1>1, <2>1, CoreSendSound
  <2>3. StreamOf(after) = StreamOf(s) \o oldest /\ after.backlog = s.backlog
    BY <1>1, <2>1, CoreSendDivided
  <2>4. Accepted(s, oldest, n)
    <3>1. Len(oldest) <= Room(s) /\ Room(s) \in Nat BY <1>1, RoomBounds
    <3>2. Len(oldest) - n <= Room(s) BY <2>1, <3>1
    <3> QED BY <3>1, <3>2 DEF Accepted
  <2>5. Retry(s, n) = z BY <1>1, <2>4 DEF Retry
  <2> HIDE DEF oldest, after
  <2>6. StreamOf(z) = StreamOf(s) \o oldest /\ z.backlog = Tail(s.backlog)
    BY <2>2, <2>3 DEF StreamOf, Sound, StateOf
  <2>7. StreamOf(s) \in Seq(Unit) /\ s.backlog \in Seq(Seq(Unit))
    BY DEF StreamOf, Sound, StateOf
  <2> HIDE DEF z
  <2>8. Once(StreamOf(s) \o oldest, Tail(s.backlog), units)
    BY <1>1, <2>7, OnceMoved DEF oldest
  <2> QED BY <2>5, <2>6, <2>8
<1>2. CASE ~(s.backlog # <<>> /\ Len(Head(s.backlog)) <= Room(s))
  BY <1>2 DEF Retry
<1> QED BY <1>1, <1>2

LEMMA SentMore ==
  ASSUME NEW r \in Records
  PROVE  /\ Sent(r + 1) = Sent(r) \cup ToSet(Units(r))
         /\ IsInjective(Units(r)) /\ ToSet(Units(r)) \cap Sent(r) = {}
<1>1. \A q \in Records : q \in Nat BY OutboxAssumption
<1>2. \A q \in Records : \A u \in ToSet(Units(q)) : u[1] = q
  <2> SUFFICES ASSUME NEW q \in Records, NEW k \in DOMAIN Units(q) PROVE Units(q)[k][1] = q
    BY DEF ToSet
  <2>1. Units(q)[k] = <<q, k>> BY DEF Units
  <2> QED BY <2>1
<1>3. \A q \in Records : q < r + 1 <=> q < r \/ q = r BY <1>1
<1>4. Sent(r + 1) = Sent(r) \cup ToSet(Units(r))
  <2>1. ASSUME NEW u PROVE (\E q \in Records : q < r + 1 /\ u \in ToSet(Units(q)))
                           <=> \/ \E q \in Records : q < r /\ u \in ToSet(Units(q))
                               \/ u \in ToSet(Units(r))
    BY <1>3
  <2> QED BY <2>1 DEF Sent
<1>5. IsInjective(Units(r)) BY DEF IsInjective, Units
<1>6. ToSet(Units(r)) \cap Sent(r) = {}
  <2> SUFFICES ASSUME NEW q \in Records, q < r, NEW u \in ToSet(Units(q)),
                      u \in ToSet(Units(r))
               PROVE  FALSE
    BY DEF Sent
  <2> QED BY <1>1, <1>2
<1> QED BY <1>4, <1>5, <1>6

LEMMA BecomesOnce ==
  ASSUME IInv, NothingLost, NEW b \in Brokers, NEW s, Becomes(b, s), proxy' = proxy,
         alive' = alive, NEW limit, next' = [next EXCEPT ![b] = limit],
         proxy => Once(StreamOf(s), s.backlog, Sent(limit))
  PROVE  NothingLost'
<1>1. SUFFICES ASSUME proxy, NEW c \in alive
               PROVE  Once(wire'[c] \o payload'[c], backlog'[c], Sent(next'[c]))
  BY DEF NothingLost, Once, Sent
<1>2. c \in Brokers BY <1>1 DEF IInv, TypeOK
<1>3. /\ wire'[c] = IF c = b THEN s.wire ELSE wire[c]
      /\ payload'[c] = IF c = b THEN s.payload ELSE payload[c]
      /\ backlog'[c] = IF c = b THEN s.backlog ELSE backlog[c]
      /\ next'[c] = IF c = b THEN limit ELSE next[c]
  BY <1>2 DEF IInv, TypeOK, Becomes
<1>4. Once(wire[c] \o payload[c], backlog[c], Sent(next[c])) BY <1>1 DEF NothingLost
<1>5. Once(s.wire \o s.payload, s.backlog, Sent(limit)) BY <1>1 DEF StreamOf
<1> QED BY <1>3, <1>4, <1>5

LEMMA SendComplete ==
  ASSUME IInv, NothingLost, NEW b \in Brokers, NEW n \in Bytes, Send(b, n)
  PROVE  NothingLost'
<1> DEFINE r == next[b]
           s == CoreSend(Of(b), Units(r), n)
<1>1. /\ r \in Records /\ r \in Nat /\ n \in Nat /\ n <= Size[r] /\ Becomes(b, s)
      /\ next' = [next EXCEPT ![b] = r + 1] /\ proxy' = proxy /\ b \in alive
      /\ alive' = alive
  BY OutboxAssumption, BytesNat DEF Send
<1>2. Sound(Of(b)) /\ Units(r) \in Seq(Unit) /\ Len(Units(r)) = Size[r]
  BY <1>1, OfSound, UnitsType
<1>3. StreamOf(Of(b)) = wire[b] \o payload[b] /\ Of(b).backlog = backlog[b]
  BY DEF StreamOf, Of
<1>4. proxy => Once(StreamOf(Of(b)), Of(b).backlog, Sent(r))
  BY <1>1, <1>3 DEF NothingLost
<1>5. proxy => Divided(Of(b), s, Units(r)) BY <1>1, <1>2, CoreSendDivided
<1>6. /\ Sent(r + 1) = Sent(r) \cup ToSet(Units(r))
      /\ IsInjective(Units(r)) /\ ToSet(Units(r)) \cap Sent(r) = {}
  BY <1>1, SentMore
<1> HIDE DEF r, s
<1>7. ASSUME proxy PROVE Once(StreamOf(s), s.backlog, Sent(r + 1))
  <2> DEFINE u == Sent(r)
             bytes == Units(r)
  <2>1. /\ Once(StreamOf(Of(b)), Of(b).backlog, u) /\ Divided(Of(b), s, bytes)
        /\ bytes \in Seq(Unit) /\ IsInjective(bytes) /\ ToSet(bytes) \cap u = {}
    BY <1>2, <1>4, <1>5, <1>6, <1>7
  <2> HIDE DEF u, bytes
  <2>2. Once(StreamOf(s), s.backlog, u \cup ToSet(bytes)) BY <1>2, <2>1, DividedOnce
  <2> QED BY <1>6, <2>2 DEF u, bytes
<1> QED BY <1>1, <1>7, BecomesOnce

LEMMA WritableComplete ==
  ASSUME IInv, NothingLost, NEW b \in Brokers, NEW n \in 0..Len(payload[b]),
         NEW m \in Bytes, Writable(b, n, m)
  PROVE  NothingLost'
<1>1. CASE ~proxy
  BY <1>1 DEF Writable, NothingLost
<1>2. CASE proxy
  <2> DEFINE written == Put(Of(b), payload[b], n)
             erased == Release(written, n)
             retried == IF n = 0 THEN written ELSE Retry(erased, m)
             s == Rearm(retried)
             units == Sent(next[b])
  <2>1. /\ payload[b] \in Seq(Unit) /\ wire[b] \in Seq(Unit) /\ Sound(Of(b))
        /\ Of(b).payload = payload[b] /\ Of(b).wire = wire[b] /\ Of(b).backlog = backlog[b]
    BY OfSound DEF IInv, TypeOK, Of
  <2>2. /\ Take(payload[b], n) \in Seq(Unit) /\ Drop(payload[b], n) \in Seq(Unit)
        /\ Take(payload[b], n) \o Drop(payload[b], n) = payload[b]
    BY <2>1, SplitJoin
  <2>3. /\ Sound(written) /\ written.payload = payload[b] /\ written.backlog = backlog[b]
        /\ written.wire = wire[b] \o Take(payload[b], n)
    BY <2>1, PutSound DEF Put, Of
  <2>4. /\ Sound(erased) /\ erased.payload = Drop(payload[b], n)
        /\ erased.wire = wire[b] \o Take(payload[b], n) /\ erased.backlog = backlog[b]
    <3> HIDE DEF written
    <3> QED BY <2>3, ReleaseSound DEF Release, Sound, StateOf
  <2>5. StreamOf(erased) = wire[b] \o payload[b]
    <3>1. (wire[b] \o Take(payload[b], n)) \o Drop(payload[b], n)
            = wire[b] \o (Take(payload[b], n) \o Drop(payload[b], n))
      <4>1. Regroups(wire[b], Take(payload[b], n), Drop(payload[b], n))
        BY <2>1, <2>2, Regrouped
      <4> QED BY <4>1 DEF Regroups
    <3> HIDE DEF erased
    <3>2. StreamOf(erased) = (wire[b] \o Take(payload[b], n)) \o Drop(payload[b], n)
      BY <2>4 DEF StreamOf
    <3> QED BY <2>2, <3>1, <3>2, Zenon
  <2>6. n = 0 => StreamOf(written) = wire[b] \o payload[b]
    <3> HIDE DEF written
    <3>1. wire[b] \o <<>> = wire[b] BY <2>1, NothingJoined
    <3>2. n = 0 => written.wire = wire[b]
      <4>1. Take(payload[b], 0) = <<>> BY <2>1, TakeEnds
      <4> QED BY <2>3, <3>1, <4>1
    <3>3. StreamOf(written) = written.wire \o payload[b] BY <2>3 DEF StreamOf
    <3> QED BY <3>2, <3>3
  <2>7. \A r : Sound(r) => StreamOf(Rearm(r)) = StreamOf(r) /\ Rearm(r).backlog = r.backlog
    BY DEF Rearm, Arm, StreamOf, Sound, StateOf
  <2>8. /\ m \in Nat /\ b \in alive /\ Becomes(b, s) /\ proxy' = proxy /\ next' = next
        /\ alive' = alive
        /\ m = 0 \/ (Direct(erased) /\ m <= Len(Head(backlog[b])))
    BY <1>2, BytesNat DEF Writable
  <2>9. Once(wire[b] \o payload[b], backlog[b], units) BY <1>2, <2>8 DEF NothingLost
  <2>10. Direct(erased) /\ erased.backlog # <<>> => m <= Len(Head(erased.backlog))
    <3>1. erased.backlog # <<>> => Len(Head(erased.backlog)) \in Nat
      BY <2>4 DEF Sound, StateOf
    <3> QED BY <2>4, <2>8, <3>1
  <2> HIDE DEF written, erased, units
  <2>11. /\ Sound(Retry(erased, m))
         /\ Once(StreamOf(Retry(erased, m)), Retry(erased, m).backlog, units)
    BY <1>2, <2>4, <2>5, <2>8, <2>9, <2>10, RetrySound, RetryOnce
  <2>12. Sound(retried) /\ Once(StreamOf(retried), retried.backlog, units)
    BY <2>3, <2>6, <2>9, <2>11
  <2> HIDE DEF retried
  <2>13. Once(StreamOf(s), s.backlog, units) BY <2>7, <2>12
  <2>14. next' = [next EXCEPT ![b] = next[b]] BY <2>8 DEF IInv, TypeOK
  <2> HIDE DEF s
  <2> QED BY <2>8, <2>13, <2>14, BecomesOnce DEF units
<1> QED BY <1>1, <1>2

LEMMA CloseComplete ==
  ASSUME IInv, NothingLost, NEW b \in Brokers, Close(b)
  PROVE  NothingLost'
<1>1. SUFFICES ASSUME proxy, NEW c \in alive'
               PROVE  Once(wire'[c] \o payload'[c], backlog'[c], Sent(next'[c]))
  BY DEF NothingLost, Once, Sent, Close
<1>2. c \in alive /\ c # b /\ c \in Brokers BY DEF Close, IInv, TypeOK
<1>3. /\ wire'[c] = wire[c] /\ next'[c] = next[c] /\ payload'[c] = payload[c]
      /\ backlog'[c] = backlog[c]
  BY <1>2 DEF Close, Becomes, IInv, TypeOK
<1>4. Once(wire[c] \o payload[c], backlog[c], Sent(next[c])) BY <1>1, <1>2 DEF NothingLost
<1> QED BY <1>3, <1>4

(***************************************************************************)
(* With the callbacks of a proxy every unit that was sent on a connection  *)
(* that is still open is taken by the socket, or waits, or is kept in the  *)
(* backlog, and is in one place only, whatever part of a record the socket *)
(* takes and whatever the budget refuses.                                  *)
(***************************************************************************)
THEOREM ProxyLosesNothing == Spec => []NothingLost
<1>1. Init => IInv /\ NothingLost
  <2>1. Init => IInv
    BY OutboxAssumption DEF Init, IInv, TypeOK, BudgetExact, QueueIsArmed
  <2>2. Init => \A b \in Brokers : /\ wire[b] \o payload[b] = <<>> /\ backlog[b] = <<>>
                                   /\ next[b] = 1
    BY DEF Init
  <2>3. Sent(1) = {}
    <3>1. \A q \in Records : ~(q < 1) BY OutboxAssumption
    <3>2. {q \in Records : q < 1} = {} BY <3>1
    <3> QED BY <3>2 DEF Sent
  <2>4. Once(<<>>, <<>>, {}) BY DEF Once, IsInjective, ToSet
  <2> QED BY <2>1, <2>2, <2>3, <2>4 DEF NothingLost, Init
<1>2. ASSUME IInv, NothingLost, [Next]_vars PROVE IInv' /\ NothingLost'
  <2>1. ASSUME NEW b \in Brokers, NEW n \in Bytes, Send(b, n) PROVE IInv' /\ NothingLost'
    BY <1>2, <2>1, SendKeeps, SendComplete
  <2>2. ASSUME NEW b \in Brokers, NEW n \in 0..Len(payload[b]), NEW m \in Bytes,
               Writable(b, n, m)
        PROVE  IInv' /\ NothingLost'
    BY <1>2, <2>2, WritableKeeps, WritableComplete
  <2>3. ASSUME NEW b \in Brokers, Close(b) PROVE IInv' /\ NothingLost'
    BY <1>2, <2>3, CloseKeeps, CloseComplete
  <2>4. ASSUME NEW mode \in Modes, Sending(mode) PROVE IInv' /\ NothingLost'
    BY <1>2, <2>4, OutboxAssumption
    DEF Sending, IInv, NothingLost, TypeOK, BudgetExact, QueueIsArmed
  <2>5. CASE UNCHANGED vars
    BY <1>2, <2>5 DEF vars, IInv, NothingLost, TypeOK, BudgetExact, QueueIsArmed
  <2> QED BY <1>2, <2>1, <2>2, <2>3, <2>4, <2>5 DEF Next
<1> QED BY <1>1, <1>2, PTL DEF Spec

(***************************************************************************)
(* HTTPSERVER. The parser is a loop over letters, so it is first said      *)
(* where in the stream requests, chunks and data lie, then what one letter *)
(* does to a parser that is there, then what the loops do; the handlers    *)
(* follow, once for careful reads (HttpInv) and once for reads that end    *)
(* anywhere (ClosesInv).                                                   *)
(***************************************************************************)
\* A set of numbers has a least one.
LEMMA LeastNat ==
  ASSUME NEW B, B \subseteq Nat, B # {}
  PROVE  \E n \in B : \A y \in B : n <= y
<1> DEFINE R == {ss \in Nat \X Nat : ss[1] < ss[2]}
<1>1. IsWellFoundedOn(R, Nat)
  BY NatLessThanWellFounded DEF OpToRel
<1>2. \A y, z \in Nat : ~(<<y, z>> \in R) => z <= y
  OBVIOUS
<1> HIDE DEF R
<1>3. \E n \in B : \A y \in B : ~(<<y, n>> \in R)
  BY <1>1, WFMin
<1> QED
  BY <1>2, <1>3

(***************************************************************************)
(* Sequences joined from pieces.                                           *)
(***************************************************************************)
\* what FlattenSeq computes for the first m pieces
JoinsTo(seqs, f, m) ==
  f = [i \in 1..m |-> IF i = 1 THEN seqs[i] ELSE f[i - 1] \o seqs[i]]

\* Every number of pieces can be joined.
LEMMA JoinsToAny ==
  ASSUME NEW seqs, NEW m \in Nat
  PROVE  \E f : JoinsTo(seqs, f, m)
<1> DEFINE B == {i \in Nat : ~\E f : JoinsTo(seqs, f, i)}
           G(i, x) == x \o seqs[i]
<1> SUFFICES ASSUME B # {} PROVE FALSE
  OBVIOUS
<1>1. PICK n \in B : \A y \in B : n <= y
  <2>1. B \subseteq Nat
    OBVIOUS
  <2> HIDE DEF B
  <2> QED
    BY <2>1, LeastNat
<1>2. n \in Nat /\ ~\E f : JoinsTo(seqs, f, n)
  BY <1>1
<1>3. n # 0
  <2> DEFINE f == [i \in 1..0 |-> 0]
  <2>1. f = [i \in 1..0 |-> IF i = 1 THEN seqs[i] ELSE f[i - 1] \o seqs[i]]
    OBVIOUS
  <2>2. JoinsTo(seqs, f, 0)
    BY <2>1 DEF JoinsTo
  <2> QED
    BY <1>2, <2>2
<1>4. n - 1 \in Nat /\ n - 1 \notin B
  BY <1>1, <1>2, <1>3
<1>5. PICK f : JoinsTo(seqs, f, n - 1)
  BY <1>4
<1>6. \A i \in 1..n - 1 : f[i] = IF i = 1 THEN seqs[i] ELSE G(i, f[i - 1])
  BY <1>5 DEF JoinsTo
<1> DEFINE z == IF n = 1 THEN seqs[n] ELSE G(n, f[n - 1])
           g == [i \in 1..n |-> IF i = n THEN z ELSE f[i]]
<1> HIDE DEF G
<1>7. \A i \in 1..n : g[i] = IF i = 1 THEN seqs[i] ELSE G(i, g[i - 1])
  <2> SUFFICES ASSUME NEW i \in 1..n PROVE g[i] = IF i = 1 THEN seqs[i] ELSE G(i, g[i - 1])
    OBVIOUS
  <2>1. CASE i = n
    <3>1. g[i] = z
      BY <2>1
    <3>2. n # 1 => g[n - 1] = f[n - 1]
      BY <1>2, <1>3
    <3> QED
      BY <2>1, <3>1, <3>2
  <2>2. CASE i # n
    <3>1. i \in 1..n - 1 /\ (i # 1 => i - 1 \in 1..n /\ i - 1 # n)
      BY <1>2, <2>2
    <3>2. g[i] = f[i] /\ (i # 1 => g[i - 1] = f[i - 1])
      BY <2>2, <3>1
    <3> QED
      BY <1>6, <3>1, <3>2
  <2> QED
    BY <2>1, <2>2
<1>8. g = [i \in 1..n |-> IF i = 1 THEN seqs[i] ELSE G(i, g[i - 1])]
  <2>1. g = [i \in 1..n |-> g[i]]
    OBVIOUS
  <2> HIDE DEF g
  <2> QED
    BY <1>7, <2>1
<1>9. JoinsTo(seqs, g, n)
  <2> HIDE DEF g
  <2> QED
    BY <1>8 DEF JoinsTo, G
<1> QED
  BY <1>2, <1>9

\* the pieces, joined one after the other
Joined(seqs) == CHOOSE f : JoinsTo(seqs, f, Len(seqs))

\* how much of the joined sequence its first j pieces are
Offset(seqs, j) == IF j = 0 THEN 0 ELSE Len(Joined(seqs)[j])

\* Places in a sum of lengths.
LEMMA InSum ==
  ASSUME NEW a \in Nat, NEW b \in Nat, NEW i \in 1..b
  PROVE  a + i \in 1..a + b
OBVIOUS

\* The same of the first length.
LEMMA InLonger ==
  ASSUME NEW a \in Nat, NEW b \in Nat, NEW i \in 1..a
  PROVE  i \in 1..a + b
OBVIOUS

\* The joined sequence grows by one piece at a time.
LEMMA JoinedSteps ==
  ASSUME NEW S, NEW seqs \in Seq(Seq(S)), seqs # <<>>
  PROVE  /\ Joined(seqs)[1] = seqs[1]
         /\ \A j \in 2..Len(seqs) : Joined(seqs)[j] = Joined(seqs)[j - 1] \o seqs[j]
         /\ FlattenSeq(seqs) = Joined(seqs)[Len(seqs)]
<1> DEFINE c == Joined(seqs)
<1>0. \E f : JoinsTo(seqs, f, Len(seqs))
  <2>1. Len(seqs) \in Nat
    OBVIOUS
  <2> QED
    BY <2>1, JoinsToAny
<1>1. JoinsTo(seqs, c, Len(seqs))
  BY <1>0, Zenon DEF Joined
<1>2. c = CHOOSE f : f = [i \in 1..Len(seqs) |-> IF i = 1 THEN seqs[i] ELSE f[i - 1] \o seqs[i]]
  BY Zenon DEF JoinsTo, Joined
<1>3. Len(seqs) # 0
  OBVIOUS
<1> HIDE DEF c
<1>4. FlattenSeq(seqs) = c[Len(seqs)]
  BY <1>2, <1>3 DEF FlattenSeq
<1> DEFINE G(i, x) == x \o seqs[i]
<1>5. c = [i \in 1..Len(seqs) |-> IF i = 1 THEN seqs[i] ELSE G(i, c[i - 1])]
  BY <1>1 DEF JoinsTo
<1> HIDE DEF G
<1>6. c[1] = seqs[1] /\ \A j \in 2..Len(seqs) : c[j] = G(j, c[j - 1])
  <2>1. \A j \in 1..Len(seqs) : c[j] = IF j = 1 THEN seqs[j] ELSE G(j, c[j - 1])
    BY <1>5, Zenon
  <2>2. 1 \in 1..Len(seqs) /\ \A j \in 2..Len(seqs) : j \in 1..Len(seqs) /\ j # 1
    BY <1>3
  <2> QED
    BY <2>1, <2>2, Zenon
<1>7. c[1] = seqs[1] /\ \A j \in 2..Len(seqs) : c[j] = c[j - 1] \o seqs[j]
  BY <1>6, Zenon DEF G
<1> QED
  BY <1>4, <1>7 DEF c

\* The pieces decide what the joined sequence is made of.
LEMMA JoinedType ==
  ASSUME NEW S, NEW seqs \in Seq(Seq(S)), seqs # <<>>
  PROVE  \A j \in 1..Len(seqs) : Joined(seqs)[j] \in Seq(S)
<1> DEFINE c == Joined(seqs)
           B == {j \in Nat : j \in 1..Len(seqs) /\ c[j] \notin Seq(S)}
<1>1. c[1] = seqs[1] /\ \A j \in 2..Len(seqs) : c[j] = c[j - 1] \o seqs[j]
  BY JoinedSteps, Zenon
<1> SUFFICES \A j \in 1..Len(seqs) : c[j] \in Seq(S)
  BY Zenon
<1> HIDE DEF c
<1> SUFFICES B = {}
  <2> SUFFICES ASSUME B = {}, NEW j \in 1..Len(seqs) PROVE c[j] \in Seq(S)
    OBVIOUS
  <2>1. Len(seqs) \in Nat
    OBVIOUS
  <2>2. j \in Nat
    <3> HIDE DEF B
    <3> QED
      BY <2>1
  <2>3. (j \in Nat /\ j \in 1..Len(seqs) /\ c[j] \notin Seq(S)) => j \in B
    BY Zenon
  <2>4. j \notin B
    <3> HIDE DEF B
    <3> QED
      BY Zenon
  <2> QED
    BY <2>2, <2>3, <2>4, Zenon
<1> SUFFICES ASSUME B # {} PROVE FALSE
  OBVIOUS
<1>2. PICK j \in B : \A y \in B : j <= y
  <2>1. B \subseteq Nat
    OBVIOUS
  <2> HIDE DEF B
  <2> QED
    BY <2>1, LeastNat
<1>3. j \in 2..Len(seqs)
  BY <1>1, <1>2
<1>4. j - 1 \in 1..Len(seqs) /\ j - 1 \notin B
  BY <1>2, <1>3
<1>5. c[j - 1] \in Seq(S) /\ seqs[j] \in Seq(S)
  BY <1>3, <1>4
<1>6. c[j - 1] \o seqs[j] \in Seq(S)
  BY <1>5
<1> QED
  BY <1>1, <1>2, <1>3, <1>6

\* So does FlattenSeq.
LEMMA FlattenType ==
  ASSUME NEW S, NEW seqs \in Seq(Seq(S))
  PROVE  FlattenSeq(seqs) \in Seq(S)
<1>1. CASE seqs = <<>>
  BY <1>1 DEF FlattenSeq
<1>2. CASE seqs # <<>>
  <2>1. Len(seqs) \in 1..Len(seqs)
    BY <1>2
  <2> QED
    BY <1>2, <2>1, JoinedSteps, JoinedType
<1> QED
  BY <1>1, <1>2

\* Where the pieces begin.
LEMMA OffsetSteps ==
  ASSUME NEW S, NEW seqs \in Seq(Seq(S))
  PROVE  /\ Offset(seqs, 0) = 0
         /\ \A j \in 0..Len(seqs) : Offset(seqs, j) \in Nat
         /\ \A j \in 1..Len(seqs) :
              Len(seqs[j]) \in Nat /\ Offset(seqs, j) = Offset(seqs, j - 1) + Len(seqs[j])
         /\ Offset(seqs, Len(seqs)) = Len(FlattenSeq(seqs))
<1>1. CASE seqs = <<>>
  BY <1>1 DEF FlattenSeq, Offset
<1>2. CASE seqs # <<>>
  <2> DEFINE c == Joined(seqs)
  <2>1. c[1] = seqs[1] /\ \A j \in 2..Len(seqs) : c[j] = c[j - 1] \o seqs[j]
    BY <1>2, JoinedSteps
  <2>2. \A j \in 1..Len(seqs) : c[j] \in Seq(S)
    BY <1>2, JoinedType
  <2>3. FlattenSeq(seqs) = c[Len(seqs)]
    BY <1>2, JoinedSteps
  <2> HIDE DEF c
  <2>4. Len(seqs) \in Nat /\ Len(seqs) # 0 /\ \A j \in 1..Len(seqs) : seqs[j] \in Seq(S)
    BY <1>2
  <2>5. Offset(seqs, 0) = 0 /\ \A j \in 1..Len(seqs) : Offset(seqs, j) = Len(c[j])
    BY DEF Offset, c
  <2>6. \A j \in 0..Len(seqs) : Offset(seqs, j) \in Nat
    <3> SUFFICES ASSUME NEW j \in 0..Len(seqs), j # 0 PROVE Offset(seqs, j) \in Nat
      BY <2>5
    <3>1. j \in 1..Len(seqs)
      BY <2>4
    <3> QED
      BY <2>2, <2>5, <3>1
  <2>7. ASSUME NEW j \in 1..Len(seqs)
        PROVE  Len(seqs[j]) \in Nat /\ Offset(seqs, j) = Offset(seqs, j - 1) + Len(seqs[j])
    <3>1. seqs[j] \in Seq(S) /\ Len(seqs[j]) \in Nat
      BY <2>4
    <3>2. CASE j = 1
      BY <2>1, <2>5, <3>1, <3>2
    <3>3. CASE j # 1
      <4>1. j \in 2..Len(seqs) /\ j - 1 \in 1..Len(seqs)
        BY <2>4, <3>3
      <4>2. c[j] = c[j - 1] \o seqs[j] /\ c[j - 1] \in Seq(S)
        BY <2>1, <2>2, <4>1
      <4>3. Len(c[j - 1] \o seqs[j]) = Len(c[j - 1]) + Len(seqs[j])
        BY <3>1, <4>2
      <4> QED
        BY <2>5, <3>1, <4>1, <4>2, <4>3
    <3> QED
      BY <3>2, <3>3
  <2> QED
    BY <2>3, <2>4, <2>5, <2>6, <2>7
<1> QED
  BY <1>1, <1>2

\* What the pieces are.
LEMMA OffsetHolds ==
  ASSUME NEW S, NEW seqs \in Seq(Seq(S)), NEW j \in 1..Len(seqs), NEW i \in 1..Len(seqs[j])
  PROVE  /\ FlattenSeq(seqs)[Offset(seqs, j - 1) + i] = seqs[j][i]
         /\ Offset(seqs, j - 1) + i \in 1..Len(FlattenSeq(seqs))
<1> DEFINE c == Joined(seqs)
           x == Offset(seqs, j - 1) + i
           B == {m \in Nat : m \in j..Len(seqs) /\ ~(x \in 1..Len(c[m]) /\ c[m][x] = seqs[j][i])}
<1>0. seqs # <<>>
  OBVIOUS
<1>1. c[1] = seqs[1] /\ \A m \in 2..Len(seqs) : c[m] = c[m - 1] \o seqs[m]
  BY <1>0, JoinedSteps
<1>2. \A m \in 1..Len(seqs) : c[m] \in Seq(S) /\ seqs[m] \in Seq(S)
  BY <1>0, JoinedType
<1>3. FlattenSeq(seqs) = c[Len(seqs)]
  BY <1>0, JoinedSteps
<1>4. Offset(seqs, 0) = 0 /\ \A m \in 1..Len(seqs) : Offset(seqs, m) = Len(c[m])
  BY DEF Offset
<1> HIDE DEF c
<1>5. Len(seqs) \in Nat /\ j \in Nat
  OBVIOUS
<1>6. ASSUME NEW m \in 2..Len(seqs)
      PROVE  /\ c[m] = c[m - 1] \o seqs[m]
             /\ c[m - 1] \in Seq(S) /\ seqs[m] \in Seq(S)
             /\ Len(c[m - 1]) \in Nat /\ Len(seqs[m]) \in Nat
             /\ Len(c[m]) = Len(c[m - 1]) + Len(seqs[m])
             /\ \A y \in 1..Len(c[m - 1]) : c[m][y] = c[m - 1][y]
             /\ \A y \in 1..Len(seqs[m]) : c[m][Len(c[m - 1]) + y] = seqs[m][y]
  <2>1. m \in 1..Len(seqs) /\ m - 1 \in 1..Len(seqs)
    BY <1>5
  <2>2. c[m] = c[m - 1] \o seqs[m] /\ c[m - 1] \in Seq(S) /\ seqs[m] \in Seq(S)
    BY <1>1, <1>2, <2>1
  <2> DEFINE u == c[m - 1]
             v == seqs[m]
  <2> HIDE DEF u, v
  <2>3. u \in Seq(S) /\ v \in Seq(S)
    BY <2>2 DEF u, v
  <2>4. /\ Len(u \o v) = Len(u) + Len(v) /\ Len(u) \in Nat /\ Len(v) \in Nat
        /\ \A y \in 1..Len(u) : (u \o v)[y] = u[y]
        /\ \A y \in 1..Len(v) : (u \o v)[Len(u) + y] = v[y]
    BY <2>3, ConcatProperties
  <2> QED
    BY <2>2, <2>4 DEF u, v
<1>7. x \in 1..Len(c[j]) /\ c[j][x] = seqs[j][i]
  <2>1. CASE j = 1
    <3>1. x = i
      BY <1>4, <2>1
    <3> QED
      BY <1>1, <2>1, <3>1
  <2>2. CASE j # 1
    <3>1. j \in 2..Len(seqs) /\ j - 1 \in 1..Len(seqs)
      BY <1>5, <2>2
    <3>2. x = Len(c[j - 1]) + i
      BY <1>4, <3>1
    <3> HIDE DEF x
    <3>3. /\ Len(c[j - 1]) \in Nat /\ Len(seqs[j]) \in Nat
          /\ Len(c[j]) = Len(c[j - 1]) + Len(seqs[j])
          /\ c[j][Len(c[j - 1]) + i] = seqs[j][i]
      BY <1>6, <3>1
    <3>4. c[j][x] = seqs[j][i]
      BY <3>2, <3>3
    <3>5. x \in 1..Len(c[j])
      BY <3>2, <3>3, InSum
    <3> QED
      BY <3>4, <3>5
  <2> QED
    BY <2>1, <2>2
<1> HIDE DEF x
<1>8. B = {}
  <2> SUFFICES ASSUME B # {} PROVE FALSE
    OBVIOUS
  <2>1. PICK m \in B : \A y \in B : m <= y
    <3>1. B \subseteq Nat
      OBVIOUS
    <3> HIDE DEF B
    <3> QED
      BY <3>1, LeastNat
  <2>2. m \in j..Len(seqs) /\ m # j
    BY <1>7, <2>1
  <2>3. m \in 2..Len(seqs) /\ m - 1 \in j..Len(seqs) /\ m - 1 \in Nat /\ m - 1 \notin B
    BY <1>5, <2>1, <2>2
  <2>4. x \in 1..Len(c[m - 1]) /\ c[m - 1][x] = seqs[j][i]
    BY <2>3
  <2>5. /\ Len(c[m - 1]) \in Nat /\ Len(seqs[m]) \in Nat
        /\ Len(c[m]) = Len(c[m - 1]) + Len(seqs[m])
        /\ \A y \in 1..Len(c[m - 1]) : c[m][y] = c[m - 1][y]
    BY <1>6, <2>3
  <2>6. c[m][x] = c[m - 1][x]
    BY <2>4, <2>5
  <2>7. x \in 1..Len(c[m])
    BY <2>4, <2>5, InLonger
  <2> QED
    BY <2>1, <2>4, <2>6, <2>7
<1>9. Len(seqs) \in j..Len(seqs) /\ Len(seqs) \in Nat
  BY <1>5
<1> QED
  BY <1>3, <1>8, <1>9 DEF x

(***************************************************************************)
(* The stream: the marks of a request.                                     *)
(***************************************************************************)
\* w is s, of length a, and then t, of length b
IsJoined(w, s, a, t, b, S) ==
  /\ w \in Seq(S) /\ Len(w) = a + b
  /\ \A i \in 1..a : w[i] = s[i]
  /\ \A i \in 1..b : w[a + i] = t[i]

\* What is joined of two sequences.
LEMMA Joining ==
  ASSUME NEW S, NEW s \in Seq(S), NEW t \in Seq(S), NEW a, NEW b, Len(s) = a, Len(t) = b
  PROVE  IsJoined(s \o t, s, a, t, b, S)
<1>1. s \o t \in Seq(S) /\ Len(s \o t) = a + b /\ a \in Nat /\ b \in Nat
  BY ConcatProperties
<1>2. \A i \in 1..a + b : (s \o t)[i] = IF i <= a THEN s[i] ELSE t[i - a]
  BY ConcatProperties
<1> DEFINE w == s \o t
<1> HIDE DEF w
<1>3. \A i \in 1..a : i \in 1..a + b /\ i <= a
  BY <1>1
<1>4. \A i \in 1..b : a + i \in 1..a + b /\ ~(a + i <= a) /\ a + i - a = i
  BY <1>1
<1>5. \A i \in 1..a + b : w[i] = IF i <= a THEN s[i] ELSE t[i - a]
  BY <1>2 DEF w
<1>6. \A i \in 1..a : w[i] = s[i]
  BY <1>3, <1>5
<1>7. \A i \in 1..b : w[a + i] = t[i]
  BY <1>4, <1>5
<1> QED
  BY <1>1, <1>6, <1>7 DEF IsJoined, w

\* the marks there are
MarkNames == {"query", "header", "cr", "lf", "x", "0", "1", "2", "3"}

\* the entries of the stream that request k may have; data are "x" and "lf"
Letters(k) ==
  {x \in [of : {k}, mark : MarkNames, data : BOOLEAN] : x.data => x.mark \in {"x", "lf"}}

\* a byte of data of request k
DataLetters(k) == [of : {k}, mark : {"x", "lf"}, data : {TRUE}]

\* a mark of request k that is not data
Plain(k, c) == [of |-> k, mark |-> c, data |-> FALSE]

\* A line is one mark.
LEMMA LineIs ==
  ASSUME NEW k, NEW c \in MarkNames
  PROVE  /\ Line(k, c) \in Seq(Letters(k)) /\ Len(Line(k, c)) = 1
         /\ Line(k, c)[1] = Plain(k, c)
<1>1. Line(k, c) = <<Plain(k, c)>>
  BY DEF Line, Plain
<1>2. Plain(k, c) \in Letters(k)
  BY DEF Plain, Letters
<1> QED
  BY <1>1, <1>2

\* The end of a line.
LEMMA CrlfIs ==
  ASSUME NEW k
  PROVE  /\ Crlf(k) \in Seq(Letters(k)) /\ Len(Crlf(k)) = 2
         /\ Crlf(k)[1] = Plain(k, "cr") /\ Crlf(k)[2] = Plain(k, "lf")
<1> DEFINE S == Letters(k)
           r == Line(k, "cr")
           f == Line(k, "lf")
<1>1. /\ r \in Seq(S) /\ Len(r) = 1 /\ r[1] = Plain(k, "cr")
      /\ f \in Seq(S) /\ Len(f) = 1 /\ f[1] = Plain(k, "lf")
  BY LineIs DEF MarkNames
<1>2. Crlf(k) = r \o f
  BY DEF Crlf
<1> HIDE DEF S, r, f
<1> DEFINE w == r \o f
<1>3. IsJoined(w, r, 1, f, 1, S)
  BY <1>1, Joining
<1> HIDE DEF w
<1>4. w \in Seq(S) /\ Len(w) = 2 /\ w[1] = r[1] /\ w[2] = f[1]
  BY <1>3 DEF IsJoined
<1>5. Crlf(k) = w
  BY <1>2 DEF w
<1> QED
  BY <1>1, <1>4, <1>5 DEF S

\* The data of a piece.
LEMMA DataIs ==
  ASSUME NEW k, NEW n \in Nat
  PROVE  /\ Data(k, n) \in Seq(Letters(k)) /\ Len(Data(k, n)) = n
         /\ \A i \in 1..n : Data(k, n)[i].of = k /\ Data(k, n)[i].data
         /\ Data(k, n) \in Seq(DataLetters(k))
BY DEF Data, DataLetters, Letters, MarkNames

\* A request begins with its query, one header and the blank line.
LEMMA HeadersIs ==
  ASSUME NEW k
  PROVE  /\ Headers(k) \in Seq(Letters(k)) /\ Len(Headers(k)) = 4
         /\ Headers(k)[1] = Plain(k, "query") /\ Headers(k)[2] = Plain(k, "header")
         /\ Headers(k)[3] = Plain(k, "cr") /\ Headers(k)[4] = Plain(k, "lf")
<1> DEFINE S == Letters(k)
           q == Line(k, "query")
           h == Line(k, "header")
           c == Crlf(k)
<1>1. /\ q \in Seq(S) /\ Len(q) = 1 /\ q[1] = Plain(k, "query")
      /\ h \in Seq(S) /\ Len(h) = 1 /\ h[1] = Plain(k, "header")
  BY LineIs DEF MarkNames
<1>2. c \in Seq(S) /\ Len(c) = 2 /\ c[1] = Plain(k, "cr") /\ c[2] = Plain(k, "lf")
  BY CrlfIs
<1>3. Headers(k) = (q \o h) \o c
  BY DEF Headers
<1> HIDE DEF S, q, h, c
<1> DEFINE u == q \o h
           w == u \o c
<1>4. IsJoined(u, q, 1, h, 1, S)
  BY <1>1, Joining
<1> HIDE DEF u
<1>5. u \in Seq(S) /\ Len(u) = 2 /\ u[1] = q[1] /\ u[2] = h[1]
  BY <1>4 DEF IsJoined
<1>6. IsJoined(w, u, 2, c, 2, S)
  BY <1>2, <1>5, Joining
<1> HIDE DEF w
<1>7. w \in Seq(S) /\ Len(w) = 4 /\ w[1] = u[1] /\ w[2] = u[2] /\ w[3] = c[1] /\ w[4] = c[2]
  BY <1>6 DEF IsJoined
<1>8. Headers(k) = w
  BY <1>3 DEF w, u
<1> QED
  BY <1>1, <1>2, <1>5, <1>7, <1>8 DEF S

\* a chunk of n bytes
IsChunk(s, k, n) ==
  /\ s \in Seq(Letters(k)) /\ Len(s) = n + 5
  /\ s[1] = Plain(k, Digits[n]) /\ s[2] = Plain(k, "cr") /\ s[3] = Plain(k, "lf")
  /\ \A i \in 1..n : s[3 + i].data
  /\ s[n + 4] = Plain(k, "cr") /\ s[n + 5] = Plain(k, "lf")

\* The digits are the sizes of chunks.
LEMMA DigitsAre ==
  /\ DOMAIN Digits = 1..3
  /\ \A n \in 1..3 : Digits[n] \in {"1", "2", "3"} /\ Digits[n] \in MarkNames
BY DEF Digits, MarkNames

\* The marks of a chunk.
LEMMA ChunkIs ==
  ASSUME NEW k, NEW n \in 1..3
  PROVE  IsChunk(Chunk(k, n), k, n)
<1> DEFINE S == Letters(k)
           l == Line(k, Digits[n])
           c == Crlf(k)
           d == Data(k, n)
<1>1. l \in Seq(S) /\ Len(l) = 1 /\ l[1] = Plain(k, Digits[n])
  BY LineIs, DigitsAre
<1>2. c \in Seq(S) /\ Len(c) = 2 /\ c[1] = Plain(k, "cr") /\ c[2] = Plain(k, "lf")
  BY CrlfIs
<1>3. d \in Seq(S) /\ Len(d) = n /\ \A i \in 1..n : d[i].data
  <2>1. n \in Nat
    OBVIOUS
  <2> QED
    BY <2>1, DataIs
<1>4. Chunk(k, n) = ((l \o c) \o d) \o c
  BY DEF Chunk
<1> HIDE DEF S, l, c, d
<1> DEFINE u == l \o c
           v == u \o d
           w == v \o c
<1>5. IsJoined(u, l, 1, c, 2, S)
  BY <1>1, <1>2, Joining
<1> HIDE DEF u
<1>6. u \in Seq(S) /\ Len(u) = 3 /\ u[1] = l[1] /\ u[2] = c[1] /\ u[3] = c[2]
  BY <1>5 DEF IsJoined
<1>7. IsJoined(v, u, 3, d, n, S)
  BY <1>3, <1>6, Joining
<1> HIDE DEF v
<1>8. /\ v \in Seq(S) /\ Len(v) = 3 + n /\ v[1] = u[1] /\ v[2] = u[2] /\ v[3] = u[3]
      /\ \A i \in 1..n : v[3 + i] = d[i]
  BY <1>7 DEF IsJoined
<1>a. IsJoined(w, v, 3 + n, c, 2, S)
  BY <1>2, <1>8, Joining
<1> HIDE DEF w
<1>b. /\ w \in Seq(S) /\ Len(w) = n + 5 /\ w[1] = v[1] /\ w[2] = v[2] /\ w[3] = v[3]
      /\ w[n + 4] = c[1] /\ w[n + 5] = c[2]
  <2>1. 3 + n + 1 = n + 4 /\ 3 + n + 2 = n + 5
    OBVIOUS
  <2>2. w[3 + n + 1] = c[1] /\ w[3 + n + 2] = c[2]
    BY <1>a DEF IsJoined
  <2> QED
    BY <1>a, <2>1, <2>2 DEF IsJoined
<1>c. \A i \in 1..n : w[3 + i] = v[3 + i]
  BY <1>a DEF IsJoined
<1>9. w = Chunk(k, n)
  BY <1>4 DEF w, v, u
<1> HIDE DEF w
<1>10. IsChunk(w, k, n)
  BY <1>1, <1>2, <1>3, <1>6, <1>8, <1>b, <1>c DEF IsChunk, S
<1> QED
  BY <1>9, <1>10

\* the chunks of a body
ChunksOf(k, sizes) == [j \in DOMAIN sizes |-> Chunk(k, sizes[j])]

\* the sizes of pieces
Sizes == Seq(DOMAIN Digits)

\* They are 1, 2 and 3.
LEMMA SizesAre ==
  ASSUME NEW sizes \in Sizes
  PROVE  /\ Len(sizes) \in Nat /\ DOMAIN sizes = 1..Len(sizes)
         /\ \A j \in 1..Len(sizes) : sizes[j] \in 1..3
BY DigitsAre DEF Sizes

\* Chunks are joined from pieces of known length.
LEMMA ChunksOfAre ==
  ASSUME NEW k, NEW sizes \in Sizes
  PROVE  /\ ChunksOf(k, sizes) \in Seq(Seq(Letters(k)))
         /\ Len(ChunksOf(k, sizes)) = Len(sizes)
         /\ \A j \in 1..Len(sizes) : ChunksOf(k, sizes)[j] = Chunk(k, sizes[j])
<1>1. \A j \in 1..Len(sizes) : Chunk(k, sizes[j]) \in Seq(Letters(k))
  BY SizesAre, ChunkIs DEF IsChunk
<1> QED
  BY <1>1, SizesAre DEF ChunksOf

\* the body of chunks: the chunks, then five marks
LEMMA ChunksAre ==
  ASSUME NEW k, NEW sizes \in Sizes
  PROVE  LET q == ChunksOf(k, sizes)
             x == Offset(q, Len(sizes))
             s == Chunks(k, sizes)
         IN /\ s \in Seq(Letters(k)) /\ x \in Nat /\ Len(s) = x + 5
            /\ x = Len(FlattenSeq(q))
            /\ \A i \in 1..x : s[i] = FlattenSeq(q)[i]
            /\ s[x + 1] = Plain(k, "0") /\ s[x + 2] = Plain(k, "cr") /\ s[x + 3] = Plain(k, "lf")
            /\ s[x + 4] = Plain(k, "cr") /\ s[x + 5] = Plain(k, "lf")
<1> DEFINE S == Letters(k)
           f == FlattenSeq(ChunksOf(k, sizes))
           l == Line(k, "0")
           c == Crlf(k)
           x == Offset(ChunksOf(k, sizes), Len(sizes))
<1>1. f \in Seq(S) /\ x \in Nat /\ Len(f) = x
  BY ChunksOfAre, FlattenType, OffsetSteps
<1>2. l \in Seq(S) /\ Len(l) = 1 /\ l[1] = Plain(k, "0")
  BY LineIs DEF MarkNames
<1>3. c \in Seq(S) /\ Len(c) = 2 /\ c[1] = Plain(k, "cr") /\ c[2] = Plain(k, "lf")
  BY CrlfIs
<1>4. Chunks(k, sizes) = ((f \o l) \o c) \o c
  BY DEF Chunks, ChunksOf
<1> HIDE DEF S, f, l, c, x
<1> DEFINE u == f \o l
           v == u \o c
           w == v \o c
<1>5. IsJoined(u, f, x, l, 1, S)
  BY <1>1, <1>2, Joining
<1> HIDE DEF u
<1>6. u \in Seq(S) /\ Len(u) = x + 1 /\ u[x + 1] = l[1] /\ \A i \in 1..x : u[i] = f[i]
  BY <1>5 DEF IsJoined
<1>7. IsJoined(v, u, x + 1, c, 2, S)
  BY <1>3, <1>6, Joining
<1> HIDE DEF v
<1>8. /\ v \in Seq(S) /\ Len(v) = x + 1 + 2 /\ \A i \in 1..x + 1 : v[i] = u[i]
      /\ v[x + 1 + 1] = c[1] /\ v[x + 1 + 2] = c[2]
  BY <1>7 DEF IsJoined
<1>a. IsJoined(w, v, x + 1 + 2, c, 2, S)
  BY <1>3, <1>8, Joining
<1> HIDE DEF w
<1>b. /\ w \in Seq(S) /\ Len(w) = x + 1 + 2 + 2 /\ \A i \in 1..x + 1 + 2 : w[i] = v[i]
      /\ w[x + 1 + 2 + 1] = c[1] /\ w[x + 1 + 2 + 2] = c[2]
  BY <1>a DEF IsJoined
<1>c. w = Chunks(k, sizes)
  BY <1>4 DEF w, v, u
<1>d. /\ x + 1 + 1 = x + 2 /\ x + 1 + 2 = x + 3 /\ x + 1 + 2 + 1 = x + 4 /\ x + 1 + 2 + 2 = x + 5
      /\ \A i \in 1..x : i \in 1..x + 1 /\ i \in 1..x + 3
      /\ x + 1 \in 1..x + 1 /\ x + 1 \in 1..x + 3 /\ x + 2 \in 1..x + 3 /\ x + 3 \in 1..x + 3
  BY <1>1
<1>9. \A i \in 1..x : w[i] = f[i]
  BY <1>6, <1>8, <1>b, <1>d
<1>10. w[x + 1] = l[1] /\ w[x + 2] = c[1] /\ w[x + 3] = c[2] /\ w[x + 4] = c[1] /\ w[x + 5] = c[2]
  BY <1>6, <1>8, <1>b, <1>d
<1>11. w \in Seq(S) /\ Len(w) = x + 5
  BY <1>b, <1>d
<1> QED
  BY <1>1, <1>2, <1>3, <1>c, <1>9, <1>10, <1>11 DEF f, x, S

\* a body of a length: nothing but data
LEMMA PiecesAre ==
  ASSUME NEW k, NEW sizes \in Sizes
  PROVE  /\ Pieces(k, sizes) \in Seq(Letters(k)) /\ Len(Pieces(k, sizes)) \in Nat
         /\ \A i \in 1..Len(Pieces(k, sizes)) : Pieces(k, sizes)[i].data
         /\ sizes = <<>> <=> Len(Pieces(k, sizes)) = 0
<1> DEFINE T == DataLetters(k)
           q == [j \in DOMAIN sizes |-> Data(k, sizes[j])]
<1>1. \A j \in 1..Len(sizes) : /\ Data(k, sizes[j]) \in Seq(T)
                               /\ sizes[j] \in 1..3 /\ Len(Data(k, sizes[j])) = sizes[j]
  <2> SUFFICES ASSUME NEW j \in 1..Len(sizes)
               PROVE  /\ Data(k, sizes[j]) \in Seq(T)
                      /\ sizes[j] \in 1..3 /\ Len(Data(k, sizes[j])) = sizes[j]
    OBVIOUS
  <2> DEFINE n == sizes[j]
  <2>1. n \in 1..3 /\ n \in Nat
    BY SizesAre
  <2> HIDE DEF n
  <2>2. Data(k, n) \in Seq(T) /\ Len(Data(k, n)) = n
    BY <2>1, DataIs
  <2> QED
    BY <2>1, <2>2 DEF n
<1> HIDE DEF T
<1>2. /\ q \in Seq(Seq(T)) /\ Len(q) = Len(sizes)
      /\ \A j \in 1..Len(sizes) : q[j] = Data(k, sizes[j])
  BY <1>1, SizesAre
<1>3. Pieces(k, sizes) = FlattenSeq(q)
  BY DEF Pieces
<1> HIDE DEF q
<1> DEFINE f == FlattenSeq(q)
<1>4. f \in Seq(T)
  BY <1>2, FlattenType
<1>5. Offset(q, Len(q)) = Len(f)
  BY <1>2, OffsetSteps
<1>6. /\ Offset(q, 0) = 0
      /\ Len(q) # 0 => Offset(q, 1) > 0 /\ Len(f) > 0
  <2>1. Offset(q, 0) = 0
    BY <1>2, OffsetSteps
  <2>2. ASSUME Len(q) # 0 PROVE Len(f) > 0
    <3>0. Len(q) \in Nat /\ 1 \in 1..Len(q)
      BY <1>2, <2>2, SizesAre
    <3>1. Len(q[1]) \in 1..3
      BY <1>1, <1>2, <3>0
    <3>3. 1 \in 1..Len(q[1])
      BY <3>1
    <3>2. Offset(q, 1 - 1) + 1 \in 1..Len(f)
      BY <1>2, <3>0, <3>3, OffsetHolds
    <3> QED
      BY <3>2, <1>4
  <2>3. ASSUME Len(q) # 0 PROVE Offset(q, 1) > 0
    <3>0. Len(q) \in Nat /\ 1 \in 1..Len(q)
      BY <1>2, <2>3, SizesAre
    <3>1. 1 \in 1..Len(q) /\ Len(q[1]) > 0
      <4>1. Len(q[1]) \in 1..3
        BY <1>1, <1>2, <3>0
      <4>2. Len(q[1]) > 0
        BY <4>1
      <4> QED
        BY <3>0, <4>2
    <3>2. Offset(q, 1) = Offset(q, 1 - 1) + Len(q[1])
      <4>1. \A x \in 1..Len(q) : Offset(q, x) = Offset(q, x - 1) + Len(q[x])
        BY <1>2, OffsetSteps
      <4> QED
        BY <3>1, <4>1
    <3>3. Len(q[1]) \in Nat
      BY <1>1, <1>2, <3>1
    <3> QED
      BY <2>1, <3>1, <3>2, <3>3
  <2> QED
    BY <2>1, <2>2, <2>3
<1> HIDE DEF f
<1>7. f \in Seq(Letters(k)) /\ \A i \in 1..Len(f) : f[i].data
  <2>1. T \subseteq Letters(k) /\ \A t \in T : t.data
    BY DEF T, DataLetters, Letters, MarkNames
  <2>2. \A i \in 1..Len(f) : f[i] \in T
    BY <1>4
  <2> QED
    BY <1>4, <2>1, <2>2, SeqMonotonic
<1>8. Len(f) \in Nat /\ (sizes = <<>> <=> Len(f) = 0)
  BY <1>2, <1>4, <1>5, <1>6, SizesAre DEF Sizes
<1> QED
  BY <1>3, <1>7, <1>8 DEF f

(***************************************************************************)
(* The stream: where requests begin and end.                               *)
(***************************************************************************)
\* What a request says.
LEMMA RequestsAre ==
  ASSUME NEW r \in Requests
  PROVE  r.sizes \in Sizes /\ r.body \in {"none", "length", "chunks"} /\ r.closes \in BOOLEAN
BY DEF Requests, Sizes

\* The marks of a body.
LEMMA PayloadIs ==
  ASSUME NEW k, NEW r \in Requests
  PROVE  Payload(k, r) \in Seq(Letters(k)) /\ Len(Payload(k, r)) \in Nat
<1>1. CASE r.body = "none"
  BY <1>1 DEF Payload
<1>2. CASE r.body = "length"
  BY <1>2, RequestsAre, PiecesAre DEF Payload
<1>3. CASE r.body = "chunks"
  BY <1>3, RequestsAre, ChunksAre DEF Payload
<1> QED
  BY <1>1, <1>2, <1>3, RequestsAre

\* A request is its lines, then its body.
LEMMA EncodeIs ==
  ASSUME NEW k, NEW r \in Requests
  PROVE  /\ IsJoined(Encode(k, r), Headers(k), 4, Payload(k, r), Len(Payload(k, r)), Letters(k))
         /\ Encode(k, r) \in Seq(Letters(k)) /\ Len(Encode(k, r)) = 4 + Len(Payload(k, r))
<1> DEFINE S == Letters(k)
           h == Headers(k)
           p == Payload(k, r)
<1>1. h \in Seq(S) /\ Len(h) = 4 /\ p \in Seq(S)
  BY HeadersIs, PayloadIs
<1>2. Encode(k, r) = h \o p
  BY DEF Encode
<1> HIDE DEF S, h, p
<1>3. IsJoined(h \o p, h, 4, p, Len(p), S)
  BY <1>1, Joining
<1> QED
  BY <1>2, <1>3 DEF IsJoined, S, h, p

\* the requests of a program
Encodings(e) == [k \in DOMAIN e.program |-> Encode(k, e.program[k])]

\* what the client sends
SentBy(e) == Stream(e.program)

\* where request k ends
EndOf(e, k) == Offset(Encodings(e), k)

\* where it begins
Begins(e, k) == EndOf(e, k - 1)

\* the number of requests
Count(e) == Len(e.program)

\* the entries of any stream
AllLetters ==
  {x \in [of : Nat, mark : MarkNames, data : BOOLEAN] : x.data => x.mark \in {"x", "lf"}}

\* The program of an environment.
LEMMA ProgramIs ==
  ASSUME NEW e \in Environments
  PROVE  /\ e.program \in Seq(Requests) /\ Count(e) \in Nat
         /\ DOMAIN e.program = 1..Count(e)
         /\ \A k \in 1..Count(e) : k \in Nat /\ e.program[k] \in Requests
<1> DEFINE p == e.program
<1>1. p \in Seq(Requests)
  BY HttpServerAssumption
<1> HIDE DEF p
<1>2. /\ Len(p) \in Nat /\ DOMAIN p = 1..Len(p)
      /\ \A k \in 1..Len(p) : k \in Nat /\ p[k] \in Requests
  BY <1>1
<1> QED
  BY <1>1, <1>2 DEF p, Count

\* Its requests are sequences of marks.
LEMMA EncodingsAre ==
  ASSUME NEW e \in Environments
  PROVE  /\ Encodings(e) \in Seq(Seq(AllLetters))
         /\ Len(Encodings(e)) = Count(e)
         /\ \A k \in 1..Count(e) : Encodings(e)[k] = Encode(k, e.program[k])
<1>1. ASSUME NEW k \in 1..Count(e) PROVE Encode(k, e.program[k]) \in Seq(AllLetters)
  <2>1. k \in Nat /\ e.program[k] \in Requests
    BY ProgramIs
  <2>2. Letters(k) \subseteq AllLetters
    BY <2>1 DEF Letters, AllLetters
  <2>3. Encode(k, e.program[k]) \in Seq(Letters(k))
    BY <2>1, EncodeIs
  <2> QED
    BY <2>2, <2>3, SeqMonotonic
<1> QED
  BY <1>1, ProgramIs DEF Encodings

\* The stream is the requests, one after the other.
LEMMA Layout ==
  ASSUME NEW e \in Environments
  PROVE  /\ SentBy(e) \in Seq(AllLetters)
         /\ EndOf(e, 0) = 0 /\ EndOf(e, Count(e)) = Len(SentBy(e))
         /\ \A k \in 0..Count(e) : EndOf(e, k) \in Nat
         /\ \A k \in 1..Count(e) :
              /\ Len(Payload(k, e.program[k])) \in Nat
              /\ EndOf(e, k) = Begins(e, k) + 4 + Len(Payload(k, e.program[k]))
<1> DEFINE q == Encodings(e)
<1>1. q \in Seq(Seq(AllLetters)) /\ Len(q) = Count(e)
  BY EncodingsAre
<1>2. SentBy(e) = FlattenSeq(q)
  BY DEF SentBy, Stream, Encodings
<1> HIDE DEF q
<1>3. SentBy(e) \in Seq(AllLetters)
  BY <1>1, <1>2, FlattenType
<1>4. EndOf(e, 0) = 0 /\ EndOf(e, Count(e)) = Len(SentBy(e)) /\ \A k \in 0..Count(e) : EndOf(e, k) \in Nat
  BY <1>1, <1>2, OffsetSteps DEF EndOf, q
<1>5. ASSUME NEW k \in 1..Count(e)
      PROVE  /\ Len(Payload(k, e.program[k])) \in Nat
             /\ EndOf(e, k) = Begins(e, k) + 4 + Len(Payload(k, e.program[k]))
  <2>1. e.program[k] \in Requests /\ q[k] = Encode(k, e.program[k])
    BY ProgramIs, EncodingsAre DEF q
  <2>2. Len(q[k]) = 4 + Len(Payload(k, e.program[k])) /\ Len(Payload(k, e.program[k])) \in Nat
    BY <2>1, EncodeIs, PayloadIs
  <2>3. Offset(q, k) = Offset(q, k - 1) + Len(q[k])
    BY <1>1, OffsetSteps
  <2>4. k - 1 \in 0..Count(e) /\ Begins(e, k) \in Nat
    BY <1>4, ProgramIs DEF Begins
  <2> QED
    BY <2>2, <2>3, <2>4 DEF Begins, EndOf, q
<1> QED
  BY <1>3, <1>4, <1>5

\* what the stream holds of request k
LEMMA SentIs ==
  ASSUME NEW e \in Environments, NEW k \in 1..Count(e)
  PROVE  /\ Begins(e, k) \in Nat /\ EndOf(e, k) \in Nat /\ Begins(e, k) + 4 <= EndOf(e, k)
         /\ EndOf(e, k) <= Len(SentBy(e))
         /\ \A i \in 1..4 : SentBy(e)[Begins(e, k) + i] = Headers(k)[i]
         /\ \A i \in 1..Len(Payload(k, e.program[k])) :
              SentBy(e)[Begins(e, k) + 4 + i] = Payload(k, e.program[k])[i]
         /\ \A i \in 1..EndOf(e, k) - Begins(e, k) :
              /\ SentBy(e)[Begins(e, k) + i].of = k
              /\ Begins(e, k) + i \in 1..Len(SentBy(e))
<1> DEFINE q == Encodings(e)
           p == Payload(k, e.program[k])
           n == Encode(k, e.program[k])
           b == Begins(e, k)
<1>1. q \in Seq(Seq(AllLetters)) /\ Len(q) = Count(e) /\ q[k] = n
  BY EncodingsAre
<1>2. SentBy(e) = FlattenSeq(q) /\ b = Offset(q, k - 1)
  BY DEF SentBy, Stream, Encodings, Begins, EndOf
<1>3. e.program[k] \in Requests
  BY ProgramIs
<1>4. Len(p) \in Nat /\ Len(n) = 4 + Len(p) /\ n \in Seq(Letters(k))
  BY <1>3, EncodeIs, PayloadIs
<1>5. IsJoined(n, Headers(k), 4, p, Len(p), Letters(k))
  BY <1>3, EncodeIs
<1>6. b \in Nat /\ EndOf(e, k) = b + 4 + Len(p)
  <2>1. k - 1 \in 0..Count(e)
    BY ProgramIs
  <2> QED
    BY <2>1, Layout DEF Begins
<1> HIDE DEF q, p, n, b
<1>7. \A i \in 1..Len(n) : SentBy(e)[b + i] = n[i] /\ b + i \in 1..Len(SentBy(e))
  <2> SUFFICES ASSUME NEW i \in 1..Len(n) PROVE SentBy(e)[b + i] = n[i] /\ b + i \in 1..Len(SentBy(e))
    OBVIOUS
  <2>1. k \in 1..Len(q) /\ i \in 1..Len(q[k])
    BY <1>1
  <2> QED
    BY <1>1, <1>2, <2>1, OffsetHolds
<1>8. \A i \in 1..4 : i \in 1..Len(n) /\ n[i] = Headers(k)[i]
  BY <1>4, <1>5 DEF IsJoined
<1>9. ASSUME NEW i \in 1..Len(p)
      PROVE  4 + i \in 1..Len(n) /\ n[4 + i] = p[i] /\ b + (4 + i) = b + 4 + i
  BY <1>4, <1>5, <1>6 DEF IsJoined
<1>10. \A i \in 1..Len(n) : n[i].of = k
  <2>1. \A i \in 1..Len(n) : n[i] \in Letters(k)
    BY <1>4
  <2>2. \A l \in Letters(k) : l.of = k
    BY DEF Letters
  <2> QED
    BY <2>1, <2>2
<1>11. EndOf(e, k) - b = Len(n) /\ EndOf(e, k) \in Nat /\ b + 4 <= EndOf(e, k)
  BY <1>4, <1>6
<1>12. EndOf(e, k) <= Len(SentBy(e))
  <2>1. Len(n) \in 1..Len(n) /\ b + Len(n) = EndOf(e, k)
    BY <1>4, <1>6
  <2>2. EndOf(e, k) \in 1..Len(SentBy(e))
    BY <1>7, <2>1
  <2>3. Len(SentBy(e)) \in Nat
    BY Layout
  <2> QED
    BY <2>2, <2>3
<1>13. \A i \in 1..4 : SentBy(e)[b + i] = Headers(k)[i]
  BY <1>7, <1>8
<1>14. \A i \in 1..Len(p) : SentBy(e)[b + 4 + i] = p[i]
  BY <1>7, <1>9
<1>15. \A i \in 1..EndOf(e, k) - b : SentBy(e)[b + i].of = k /\ b + i \in 1..Len(SentBy(e))
  BY <1>7, <1>10, <1>11
<1> QED
  BY <1>6, <1>11, <1>12, <1>13, <1>14, <1>15 DEF b, p

\* A later request ends later.
LEMMA EndsRise ==
  ASSUME NEW e \in Environments, NEW j \in 0..Count(e), NEW k \in j..Count(e)
  PROVE  EndOf(e, j) <= EndOf(e, k)
<1> DEFINE B == {m \in Nat : m \in j..Count(e) /\ ~(EndOf(e, j) <= EndOf(e, m))}
<1> SUFFICES ASSUME B # {} PROVE FALSE
  BY ProgramIs
<1>1. PICK m \in B : \A y \in B : m <= y
  <2>1. B \subseteq Nat
    OBVIOUS
  <2> HIDE DEF B
  <2> QED
    BY <2>1, LeastNat
<1>2. Count(e) \in Nat /\ EndOf(e, j) \in Nat
  BY ProgramIs, Layout
<1>3. m # j
  BY <1>1, <1>2
<1>4. m \in 1..Count(e) /\ m - 1 \in Nat /\ m - 1 \in j..Count(e) /\ m - 1 \notin B
  BY <1>1, <1>2, <1>3
<1>5. Begins(e, m) \in Nat /\ EndOf(e, m) \in Nat /\ Begins(e, m) + 4 <= EndOf(e, m)
  BY <1>4, SentIs
<1> QED
  BY <1>1, <1>2, <1>4, <1>5 DEF Begins

\* Every mark is one of a request.
LEMMA Covered ==
  ASSUME NEW e \in Environments, NEW o \in 1..Len(SentBy(e))
  PROVE  \E k \in 1..Count(e) : /\ o \in Begins(e, k) + 1..EndOf(e, k) /\ SentBy(e)[o].of = k
<1> DEFINE B == {m \in Nat : m \in 0..Count(e) /\ o <= EndOf(e, m)}
<1>1. Count(e) \in B
  BY ProgramIs, Layout
<1>2. PICK k \in B : \A y \in B : k <= y
  <2>1. B \subseteq Nat /\ B # {}
    BY <1>1
  <2> HIDE DEF B
  <2> QED
    BY <2>1, LeastNat
<1>3. k # 0
  BY <1>2, Layout
<1>4. k \in 1..Count(e) /\ k - 1 \in Nat /\ k - 1 \in 0..Count(e) /\ k - 1 \notin B
  BY <1>2, <1>3, ProgramIs
<1>5. Begins(e, k) \in Nat /\ EndOf(e, k) \in Nat
  BY <1>4, SentIs
<1>6. o \in Begins(e, k) + 1..EndOf(e, k)
  BY <1>2, <1>4, <1>5 DEF Begins
<1>7. o - Begins(e, k) \in 1..EndOf(e, k) - Begins(e, k) /\ Begins(e, k) + (o - Begins(e, k)) = o
  BY <1>5, <1>6
<1>8. SentBy(e)[o].of = k
  <2> DEFINE i == o - Begins(e, k)
  <2>1. \A x \in 1..EndOf(e, k) - Begins(e, k) : SentBy(e)[Begins(e, k) + x].of = k
    BY <1>4, SentIs
  <2>2. i \in 1..EndOf(e, k) - Begins(e, k) /\ Begins(e, k) + i = o
    BY <1>7
  <2> HIDE DEF i
  <2>3. SentBy(e)[Begins(e, k) + i].of = k
    BY <2>1, <2>2
  <2> QED
    BY <2>2, <2>3
<1> QED
  BY <1>4, <1>6, <1>8

\* It names the request it is of.
LEMMA OfIs ==
  ASSUME NEW e \in Environments, NEW o \in 1..Len(SentBy(e)), NEW k \in 0..Count(e)
  PROVE  SentBy(e)[o].of <= k <=> o <= EndOf(e, k)
<1>1. PICK j \in 1..Count(e) : o \in Begins(e, j) + 1..EndOf(e, j) /\ SentBy(e)[o].of = j
  BY Covered
<1>2. /\ Begins(e, j) \in Nat /\ EndOf(e, j) \in Nat /\ EndOf(e, k) \in Nat /\ Count(e) \in Nat
  BY SentIs, Layout, ProgramIs
<1>3. CASE j <= k
  <2>1. EndOf(e, j) <= EndOf(e, k)
    BY <1>2, <1>3, EndsRise
  <2> QED
    BY <1>1, <1>2, <1>3, <2>1
<1>4. CASE ~(j <= k)
  <2>1. j - 1 \in k..Count(e)
    BY <1>2, <1>4
  <2>2. EndOf(e, k) <= Begins(e, j)
    BY <2>1, EndsRise DEF Begins
  <2> QED
    BY <1>1, <1>2, <1>4, <2>2
<1> QED
  BY <1>3, <1>4

\* Where the module says that a request ends.
LEMMA EndsIs ==
  ASSUME env \in Environments, stream = SentBy(env), NEW k \in 0..Count(env)
  PROVE  Ends(k) = EndOf(env, k) /\ Total = Len(SentBy(env))
<1> DEFINE M == {0} \cup {o \in 1..Len(SentBy(env)) : SentBy(env)[o].of <= k}
           x == EndOf(env, k)
<1>1. Ends(k) = CHOOSE m \in M : \A y \in M : m >= y
  BY DEF Ends, Max, Total
<1>2. x \in Nat /\ Len(SentBy(env)) \in Nat /\ x <= Len(SentBy(env))
  <2>1. x \in Nat /\ Len(SentBy(env)) \in Nat
    BY Layout
  <2>2. Count(env) \in k..Count(env) /\ k \in 0..Count(env)
    BY ProgramIs
  <2>3. x <= EndOf(env, Count(env))
    BY <2>2, EndsRise
  <2> QED
    BY <2>1, <2>3, Layout
<1>3. \A o \in 1..Len(SentBy(env)) : SentBy(env)[o].of <= k <=> o <= x
  BY OfIs
<1> HIDE DEF x
<1>4. M = 0..x
  BY <1>2, <1>3
<1>5. x \in M /\ \A y \in M : x >= y
  BY <1>2, <1>4
<1>6. \A z \in M : (\A y \in M : z >= y) => z = x
  BY <1>2, <1>4
<1> HIDE DEF M
<1>7. Ends(k) = x
  BY <1>1, <1>5, <1>6
<1> QED
  BY <1>7 DEF x, Total

(***************************************************************************)
(* The stream: where chunks begin and end.                                 *)
(***************************************************************************)
\* the line of the size of a chunk, the j chunks before it counted
SizeLine(e, k, j) == Begins(e, k) + 5 + Offset(ChunksOf(k, e.program[k].sizes), j)

\* offset o is where the line of a size begins
Sized(e, k, o) == \E j \in 0..Len(e.program[k].sizes) : o = SizeLine(e, k, j)

\* the mark of size n
SizeMark(n) == IF n = 0 THEN "0" ELSE Digits[n]

\* the marks of a chunk of n bytes with its size at offset o, and what follows it
Frame(e, k, o, n) ==
  /\ o \in Nat /\ Begins(e, k) + 5 <= o /\ o + n + 4 <= EndOf(e, k)
  /\ SentBy(e)[o] = Plain(k, SizeMark(n))
  /\ SentBy(e)[o + 1] = Plain(k, "cr") /\ SentBy(e)[o + 2] = Plain(k, "lf")
  /\ \A i \in 1..n : SentBy(e)[o + 2 + i].data
  /\ SentBy(e)[o + n + 3] = Plain(k, "cr") /\ SentBy(e)[o + n + 4] = Plain(k, "lf")
  /\ IF n = 0 THEN EndOf(e, k) = o + 4
     ELSE Sized(e, k, o + n + 5) /\ o + n + 5 + 4 <= EndOf(e, k)

\* The first lines of a request.
LEMMA HeadMarks ==
  ASSUME NEW e \in Environments, NEW k \in 1..Count(e)
  PROVE  LET b == Begins(e, k)
         IN /\ SentBy(e)[b + 1] = Plain(k, "query") /\ SentBy(e)[b + 2] = Plain(k, "header")
            /\ SentBy(e)[b + 3] = Plain(k, "cr") /\ SentBy(e)[b + 4] = Plain(k, "lf")
<1> DEFINE b == Begins(e, k)
           h == Headers(k)
<1>1. \A i \in 1..4 : SentBy(e)[b + i] = h[i]
  BY SentIs
<1>2. h[1] = Plain(k, "query") /\ h[2] = Plain(k, "header") /\ h[3] = Plain(k, "cr") /\ h[4] = Plain(k, "lf")
  BY HeadersIs
<1> HIDE DEF b, h
<1>3. 1 \in 1..4 /\ 2 \in 1..4 /\ 3 \in 1..4 /\ 4 \in 1..4
  OBVIOUS
<1>4. SentBy(e)[b + 1] = h[1] /\ SentBy(e)[b + 2] = h[2] /\ SentBy(e)[b + 3] = h[3] /\ SentBy(e)[b + 4] = h[4]
  BY <1>1, <1>3
<1>5. /\ SentBy(e)[b + 1] = Plain(k, "query") /\ SentBy(e)[b + 2] = Plain(k, "header")
      /\ SentBy(e)[b + 3] = Plain(k, "cr") /\ SentBy(e)[b + 4] = Plain(k, "lf")
  BY <1>2, <1>4
<1> QED
  BY <1>5 DEF b

\* A request of no body is its lines.
LEMMA NoneEnds ==
  ASSUME NEW e \in Environments, NEW k \in 1..Count(e), e.program[k].body = "none"
  PROVE  EndOf(e, k) = Begins(e, k) + 4
<1>1. Payload(k, e.program[k]) = <<>>
  BY DEF Payload
<1>2. EndOf(e, k) = Begins(e, k) + 4 + Len(Payload(k, e.program[k])) /\ Begins(e, k) \in Nat
  BY Layout, SentIs
<1> QED
  BY <1>1, <1>2

\* the length request k announces
Announced(e, k) == Len(Pieces(k, e.program[k].sizes))

\* Where a request with a body of a length ends.
LEMMA LengthEnds ==
  ASSUME NEW e \in Environments, NEW k \in 1..Count(e), e.program[k].body = "length"
  PROVE  /\ Announced(e, k) \in Nat /\ EndOf(e, k) = Begins(e, k) + 4 + Announced(e, k)
         /\ \A i \in 1..Announced(e, k) : SentBy(e)[Begins(e, k) + 4 + i].data
         /\ Announced(e, k) = 0 <=> e.program[k].sizes = <<>>
<1>1. e.program[k] \in Requests
  BY ProgramIs
<1>2. e.program[k].sizes \in Sizes
  BY <1>1, RequestsAre
<1>3. Payload(k, e.program[k]) = Pieces(k, e.program[k].sizes)
  BY DEF Payload
<1>4. Announced(e, k) \in Nat /\ (Announced(e, k) = 0 <=> e.program[k].sizes = <<>>)
  BY <1>2, PiecesAre DEF Announced
<1>5. \A i \in 1..Announced(e, k) : Payload(k, e.program[k])[i].data
  BY <1>2, <1>3, PiecesAre DEF Announced
<1>6. EndOf(e, k) = Begins(e, k) + 4 + Announced(e, k)
  BY <1>3, Layout DEF Announced
<1>7. \A i \in 1..Announced(e, k) : SentBy(e)[Begins(e, k) + 4 + i] = Payload(k, e.program[k])[i]
  BY <1>3, SentIs DEF Announced
<1> QED
  BY <1>4, <1>5, <1>6, <1>7

\* A size is one digit.
LEMMA SizeMarks ==
  /\ SizeMark(0) = "0" /\ \A n \in 1..3 : SizeMark(n) = Digits[n]
BY DEF SizeMark

\* A chunk, and the last line of a body of chunks.
LEMMA FrameIs ==
  ASSUME NEW e \in Environments, NEW k \in 1..Count(e), e.program[k].body = "chunks",
         NEW j \in 0..Len(e.program[k].sizes)
  PROVE  \E n \in 0..3 : Frame(e, k, SizeLine(e, k, j), n)
<1> DEFINE sizes == e.program[k].sizes
           q == ChunksOf(k, sizes)
           b == Begins(e, k)
           m == Len(sizes)
           s == Chunks(k, sizes)
           f == FlattenSeq(q)
           y == Offset(q, j)
           o == SizeLine(e, k, j)
<1>1. e.program[k] \in Requests
  BY ProgramIs
<1>2. sizes \in Sizes
  BY <1>1, RequestsAre
<1>3. q \in Seq(Seq(Letters(k))) /\ Len(q) = m /\ m \in Nat
  BY <1>2, ChunksOfAre, SizesAre
<1>4. Payload(k, e.program[k]) = s
  BY DEF Payload
<1>5. /\ Len(s) = Offset(q, m) + 5 /\ Offset(q, m) \in Nat
      /\ \A i \in 1..Offset(q, m) : s[i] = f[i]
      /\ Len(f) = Offset(q, m)
  BY <1>2, ChunksAre
<1>6. b \in Nat /\ EndOf(e, k) = b + 4 + (Offset(q, m) + 5)
  BY <1>4, <1>5, SentIs, Layout
<1>7. \A i \in 1..Offset(q, m) + 5 : SentBy(e)[b + 4 + i] = s[i]
  <2>1. \A i \in 1..Len(Payload(k, e.program[k])) :
          SentBy(e)[b + 4 + i] = Payload(k, e.program[k])[i]
    BY SentIs
  <2> HIDE DEF s, b
  <2>2. \A i \in 1..Len(s) : SentBy(e)[b + 4 + i] = s[i]
    BY <1>4, <2>1, Zenon
  <2> QED
    BY <1>5, <2>2
<1>8. y \in Nat /\ o = b + 5 + y
  BY <1>3, OffsetSteps DEF SizeLine
<1>t. LET x == Offset(q, m)
      IN /\ s[x + 1] = Plain(k, "0") /\ s[x + 2] = Plain(k, "cr") /\ s[x + 3] = Plain(k, "lf")
         /\ s[x + 4] = Plain(k, "cr") /\ s[x + 5] = Plain(k, "lf")
  BY <1>2, ChunksAre
<1>9. CASE j = m
  <2> HIDE DEF s, f, b, o, q
  <2>1. Offset(q, m) = y
    BY <1>9
  <2> HIDE DEF y
  <2>2. /\ s[y + 1] = Plain(k, "0") /\ s[y + 2] = Plain(k, "cr") /\ s[y + 3] = Plain(k, "lf")
        /\ s[y + 4] = Plain(k, "cr") /\ s[y + 5] = Plain(k, "lf")
    BY <1>t, <2>1
  <2>3. ASSUME NEW i \in 1..5 PROVE SentBy(e)[b + 4 + (y + i)] = s[y + i]
    <3>1. \A x \in 1..y + 5 : SentBy(e)[b + 4 + x] = s[x]
      BY <1>7, <2>1
    <3>2. y + i \in 1..y + 5
      BY <1>8
    <3> QED
      BY <3>1, <3>2
  <2>4. /\ b + 4 + (y + 1) = o /\ b + 4 + (y + 2) = o + 1 /\ b + 4 + (y + 3) = o + 2
        /\ b + 4 + (y + 4) = o + 0 + 3 /\ b + 4 + (y + 5) = o + 0 + 4
    BY <1>6, <1>8
  <2>5. /\ SentBy(e)[o] = Plain(k, "0") /\ SentBy(e)[o + 1] = Plain(k, "cr")
        /\ SentBy(e)[o + 2] = Plain(k, "lf") /\ SentBy(e)[o + 0 + 3] = Plain(k, "cr")
        /\ SentBy(e)[o + 0 + 4] = Plain(k, "lf")
    BY <2>2, <2>3, <2>4
  <2>6. o \in Nat /\ b + 5 <= o /\ EndOf(e, k) = o + 4 /\ o + 0 + 4 <= EndOf(e, k)
    BY <1>6, <1>8, <2>1
  <2>7. Frame(e, k, o, 0)
    BY <2>5, <2>6, SizeMarks DEF Frame, b
  <2> QED
    BY <2>7 DEF o
<1>10. CASE j # m
  <2> DEFINE n == sizes[j + 1]
             c == q[j + 1]
  <2>1. j + 1 \in 1..m /\ j \in Nat /\ j + 1 - 1 = j
    BY <1>3, <1>10
  <2>2. n \in 1..3 /\ c = Chunk(k, n)
    BY <1>2, <2>1, SizesAre, ChunksOfAre
  <2>3. IsChunk(c, k, n)
    BY <2>2, ChunkIs
  <2> HIDE DEF n, c
  <2>4. Len(c) = n + 5 /\ n + 5 \in Nat /\ n \in Nat
    BY <2>2, <2>3 DEF IsChunk
  <2>5. \A i \in 1..n + 5 : f[y + i] = c[i] /\ y + i \in 1..Offset(q, m)
    <3> SUFFICES ASSUME NEW i \in 1..n + 5 PROVE f[y + i] = c[i] /\ y + i \in 1..Offset(q, m)
      OBVIOUS
    <3>1. j + 1 \in 1..Len(q) /\ i \in 1..Len(q[j + 1])
      <4> HIDE DEF q
      <4>1. Len(q[j + 1]) = n + 5
        BY <2>4 DEF c
      <4>2. j + 1 \in 1..Len(q)
        BY <1>3, <2>1
      <4> QED
        BY <4>1, <4>2
    <3>2. /\ f[Offset(q, j + 1 - 1) + i] = q[j + 1][i]
          /\ Offset(q, j + 1 - 1) + i \in 1..Len(f)
      <4> HIDE DEF q, c, y, m
      <4>1. \A x \in 1..Len(q) : \A z \in 1..Len(q[x]) :
              /\ FlattenSeq(q)[Offset(q, x - 1) + z] = q[x][z]
              /\ Offset(q, x - 1) + z \in 1..Len(FlattenSeq(q))
        BY <1>3, OffsetHolds
      <4> QED
        BY <3>1, <4>1
    <3> QED
      BY <1>5, <2>1, <3>2 DEF c
  <2>6. Offset(q, j + 1) = y + (n + 5) /\ Offset(q, j + 1) \in Nat
    <3>1. j + 1 \in 1..Len(q) /\ j + 1 \in 0..Len(q)
      BY <1>3, <2>1
    <3>2. Offset(q, j + 1) = Offset(q, j + 1 - 1) + Len(q[j + 1])
      <4> HIDE DEF q
      <4>1. \A x \in 1..Len(q) : Offset(q, x) = Offset(q, x - 1) + Len(q[x])
        BY <1>3, OffsetSteps
      <4> QED
        BY <3>1, <4>1
    <3> QED
      BY <2>1, <2>4, <3>2, <1>8 DEF c
  <2>7. SizeLine(e, k, j + 1) = o + n + 5
    BY <1>6, <1>8, <2>4, <2>6 DEF SizeLine, b
  <2>8. Sized(e, k, o + n + 5)
    <3>1. j + 1 \in 0..Len(e.program[k].sizes)
      BY <1>3, <2>1
    <3> QED
      BY <2>7, <3>1 DEF Sized
  <2>9. y + n + 5 <= Offset(q, m)
    <3>1. n + 5 \in 1..n + 5
      BY <2>4
    <3>2. y + (n + 5) \in 1..Offset(q, m)
      BY <2>5, <3>1
    <3> QED
      BY <1>5, <1>8, <2>4, <3>2
  <2> HIDE DEF s, f, b, o, q, y
  <2>10. ASSUME NEW i \in 1..n + 5 PROVE SentBy(e)[o - 1 + i] = c[i]
    <3>1. y + i \in 1..Offset(q, m) /\ f[y + i] = c[i]
      BY <2>5
    <3>2. s[y + i] = c[i]
      BY <1>5, <3>1
    <3>3. y + i \in 1..Offset(q, m) + 5
      BY <1>5, <3>1
    <3>4. SentBy(e)[b + 4 + (y + i)] = c[i]
      BY <1>7, <3>2, <3>3
    <3>5. b + 4 + (y + i) = o - 1 + i
      BY <1>6, <1>8
    <3> QED
      BY <3>4, <3>5
  <2>11. /\ SentBy(e)[o - 1 + 1] = c[1] /\ SentBy(e)[o - 1 + 2] = c[2] /\ SentBy(e)[o - 1 + 3] = c[3]
         /\ SentBy(e)[o - 1 + (n + 4)] = c[n + 4] /\ SentBy(e)[o - 1 + (n + 5)] = c[n + 5]
         /\ \A i \in 1..n : SentBy(e)[o - 1 + (3 + i)] = c[3 + i]
    BY <2>4, <2>10
  <2>12. o \in Nat /\ b + 5 <= o
    BY <1>6, <1>8
  <2>13. /\ o - 1 + 1 = o /\ o - 1 + 2 = o + 1 /\ o - 1 + 3 = o + 2
         /\ o - 1 + (n + 4) = o + n + 3 /\ o - 1 + (n + 5) = o + n + 4
         /\ \A i \in 1..n : o - 1 + (3 + i) = o + 2 + i
    BY <2>4, <2>12
  <2>14. /\ SentBy(e)[o] = Plain(k, SizeMark(n)) /\ SentBy(e)[o + 1] = Plain(k, "cr")
         /\ SentBy(e)[o + 2] = Plain(k, "lf") /\ SentBy(e)[o + n + 3] = Plain(k, "cr")
         /\ SentBy(e)[o + n + 4] = Plain(k, "lf")
         /\ \A i \in 1..n : SentBy(e)[o + 2 + i].data
    BY <2>2, <2>3, <2>11, <2>13, SizeMarks DEF IsChunk
  <2>15. n # 0 /\ o + n + 5 + 4 <= EndOf(e, k) /\ o + n + 4 <= EndOf(e, k)
    <3> DEFINE x == Offset(q, m)
               z == EndOf(e, k)
    <3>1. x \in Nat /\ b \in Nat /\ z = b + 4 + (x + 5) /\ o = b + 5 + y /\ y \in Nat
      BY <1>5, <1>6, <1>8
    <3>2. n \in 1..3 /\ y + n + 5 <= x
      BY <2>2, <2>9
    <3> HIDE DEF x, z
    <3>3. n # 0 /\ o + n + 5 + 4 <= z /\ o + n + 4 <= z
      BY <3>1, <3>2
    <3> QED
      BY <3>3 DEF z
  <2>16. Frame(e, k, o, n)
    BY <2>8, <2>12, <2>14, <2>15 DEF Frame, b
  <2>17. n \in 0..3
    BY <2>2
  <2> QED
    BY <2>16, <2>17 DEF o
<1> QED
  BY <1>9, <1>10

\* Where the line of a size begins, a chunk begins or the last line is.
LEMMA Framed ==
  ASSUME NEW e \in Environments, NEW k \in 1..Count(e), e.program[k].body = "chunks",
         NEW o, Sized(e, k, o)
  PROVE  \E n \in 0..3 : Frame(e, k, o, n)
BY FrameIs DEF Sized

\* The first size follows the blank line.
LEMMA FirstSized ==
  ASSUME NEW e \in Environments, NEW k \in 1..Count(e)
  PROVE  Sized(e, k, Begins(e, k) + 5)
<1>1. e.program[k] \in Requests /\ Begins(e, k) \in Nat
  BY ProgramIs, SentIs
<1>2. e.program[k].sizes \in Sizes
  BY <1>1, RequestsAre
<1>3. 0 \in 0..Len(e.program[k].sizes)
  BY <1>2, SizesAre
<1>4. SizeLine(e, k, 0) = Begins(e, k) + 5
  BY <1>1 DEF SizeLine, Offset
<1> QED
  BY <1>3, <1>4 DEF Sized

(***************************************************************************)
(* The data of a request.                                                  *)
(***************************************************************************)
\* The fields of a mark that is not data.
LEMMA PlainIs ==
  \A k, c : Plain(k, c).of = k /\ Plain(k, c).mark = c /\ Plain(k, c).data = FALSE
BY DEF Plain

\* the data of request k
DataIn(e, k) == {o \in 1..Len(SentBy(e)) : SentBy(e)[o].of = k /\ SentBy(e)[o].data}

\* the data of request k up to offset x
UpTo(e, k, x) == {d \in DataIn(e, k) : d <= x}

\* the data after offset x up to y
DataBetween(e, x, y) == {d \in x + 1..y : SentBy(e)[d].data}

\* Data between the ends of a request are its own.
LEMMA DataPlace ==
  ASSUME NEW e \in Environments, NEW k \in 1..Count(e)
  PROVE  DataIn(e, k) = DataBetween(e, Begins(e, k), EndOf(e, k))
<1>1. /\ Begins(e, k) \in Nat /\ EndOf(e, k) \in Nat /\ EndOf(e, k) <= Len(SentBy(e))
      /\ Len(SentBy(e)) \in Nat
  BY SentIs, Layout
<1>2. ASSUME NEW o \in 1..Len(SentBy(e))
      PROVE  SentBy(e)[o].of = k <=> o \in Begins(e, k) + 1..EndOf(e, k)
  <2>1. k \in 0..Count(e) /\ k - 1 \in 0..Count(e)
    BY ProgramIs
  <2>2. /\ SentBy(e)[o].of <= k <=> o <= EndOf(e, k)
        /\ SentBy(e)[o].of <= k - 1 <=> o <= Begins(e, k)
    BY <2>1, OfIs DEF Begins
  <2>3. SentBy(e)[o].of \in Nat
    <3>1. SentBy(e)[o] \in AllLetters
      BY Layout
    <3> QED
      BY <3>1 DEF AllLetters
  <2> QED
    BY <1>1, <2>2, <2>3
<1>3. Begins(e, k) + 1..EndOf(e, k) \subseteq 1..Len(SentBy(e))
  BY <1>1
<1> QED
  BY <1>2, <1>3 DEF DataIn, DataBetween

\* A read adds the data in it.
LEMMA UpToMore ==
  ASSUME NEW e \in Environments, NEW k \in 1..Count(e),
         NEW x \in Begins(e, k)..EndOf(e, k), NEW y \in x..EndOf(e, k)
  PROVE  UpTo(e, k, y) = UpTo(e, k, x) \cup DataBetween(e, x, y)
<1>1. Begins(e, k) \in Nat /\ EndOf(e, k) \in Nat
  BY SentIs
<1> QED
  BY <1>1, DataPlace DEF UpTo, DataBetween

\* Before the body there are no data, and at the end there are all.
LEMMA UpToBegin ==
  ASSUME NEW e \in Environments, NEW k \in 1..Count(e)
  PROVE  /\ UpTo(e, k, Begins(e, k)) = {} /\ UpTo(e, k, Begins(e, k) + 4) = {}
         /\ UpTo(e, k, EndOf(e, k)) = DataIn(e, k)
<1> DEFINE b == Begins(e, k)
<1>1. b \in Nat /\ EndOf(e, k) \in Nat /\ b + 4 <= EndOf(e, k)
  BY SentIs
<1>2. UpTo(e, k, b) = {}
  BY <1>1, DataPlace DEF UpTo, DataBetween
<1>3. UpTo(e, k, EndOf(e, k)) = DataIn(e, k)
  BY <1>1, DataPlace DEF UpTo, DataBetween
<1>4. UpTo(e, k, b + 4) = UpTo(e, k, b) \cup DataBetween(e, b, b + 4)
  <2>1. b \in b..EndOf(e, k) /\ b + 4 \in b..EndOf(e, k)
    BY <1>1
  <2> QED
    BY <2>1, UpToMore
<1>5. ~SentBy(e)[b + 1].data /\ ~SentBy(e)[b + 2].data /\ ~SentBy(e)[b + 3].data /\ ~SentBy(e)[b + 4].data
  <2>1. /\ SentBy(e)[b + 1] = Plain(k, "query") /\ SentBy(e)[b + 2] = Plain(k, "header")
        /\ SentBy(e)[b + 3] = Plain(k, "cr") /\ SentBy(e)[b + 4] = Plain(k, "lf")
    BY HeadMarks
  <2> QED
    BY <2>1, PlainIs
<1> HIDE DEF b
<1>6. \A d \in b + 1..b + 4 : d = b + 1 \/ d = b + 2 \/ d = b + 3 \/ d = b + 4
  BY <1>1 DEF b
<1>7. DataBetween(e, b, b + 4) = {}
  BY <1>5, <1>6 DEF DataBetween
<1> QED
  BY <1>2, <1>3, <1>4, <1>7 DEF b

\* In a body of a length every mark is data.
LEMMA UpToLength ==
  ASSUME NEW e \in Environments, NEW k \in 1..Count(e), e.program[k].body = "length",
         NEW x \in Begins(e, k) + 4..EndOf(e, k), NEW y \in x..EndOf(e, k)
  PROVE  UpTo(e, k, y) = UpTo(e, k, x) \cup (x + 1..y)
<1> DEFINE b == Begins(e, k)
           n == Announced(e, k)
<1>1. b \in Nat /\ n \in Nat /\ EndOf(e, k) = b + 4 + n /\ \A i \in 1..n : SentBy(e)[b + 4 + i].data
  BY SentIs, LengthEnds
<1> HIDE DEF b, n
<1>2. x \in b + 4..b + 4 + n /\ y \in x..b + 4 + n
  BY <1>1 DEF b
<1>3. \A d \in x + 1..y : d - (b + 4) \in 1..n /\ b + 4 + (d - (b + 4)) = d
  BY <1>1, <1>2
<1>4. \A d \in x + 1..y : SentBy(e)[d].data
  BY <1>1, <1>3
<1>5. x \in Begins(e, k)..EndOf(e, k)
  BY <1>1, <1>2 DEF b
<1> QED
  BY <1>4, <1>5, UpToMore DEF DataBetween

\* The data of a chunk of n bytes, or of none, are those after the end of its line.
LEMMA UpToChunk ==
  ASSUME NEW e \in Environments, NEW k \in 1..Count(e), e.program[k].body = "chunks",
         NEW n \in 0..3, NEW o, Frame(e, k, o, n)
  PROVE  /\ n # 0 => UpTo(e, k, o + n + 5) = UpTo(e, k, o) \cup (o + 3..o + 2 + n)
         /\ n = 0 => UpTo(e, k, EndOf(e, k)) = UpTo(e, k, o)
<1> DEFINE b == Begins(e, k)
           z == EndOf(e, k)
<1>1. b \in Nat /\ z \in Nat /\ o \in Nat /\ b + 5 <= o /\ o + n + 4 <= z
  BY SentIs DEF Frame
<1>2. /\ ~SentBy(e)[o + 1].data /\ ~SentBy(e)[o + 2].data
      /\ ~SentBy(e)[o + n + 3].data /\ ~SentBy(e)[o + n + 4].data
      /\ \A i \in 1..n : SentBy(e)[o + 2 + i].data
  BY DEF Frame, Plain
<1>3. \A d \in o + 3..o + 2 + n : d - (o + 2) \in 1..n /\ o + 2 + (d - (o + 2)) = d
  BY <1>1
<1>4. \A d \in o + 3..o + 2 + n : SentBy(e)[d].data
  BY <1>2, <1>3
<1>5. UpTo(e, k, o + n + 4) = UpTo(e, k, o) \cup (o + 3..o + 2 + n)
  <2>1. o \in b..z /\ o + n + 4 \in o..z
    BY <1>1
  <2>2. UpTo(e, k, o + n + 4) = UpTo(e, k, o) \cup DataBetween(e, o, o + n + 4)
    BY <2>1, UpToMore
  <2>3. \A d \in o + 1..o + n + 4 :
          \/ d = o + 1 \/ d = o + 2 \/ d \in o + 3..o + 2 + n \/ d = o + n + 3 \/ d = o + n + 4
    BY <1>1
  <2>4. o + 3..o + 2 + n \subseteq o + 1..o + n + 4
    BY <1>1
  <2>5. DataBetween(e, o, o + n + 4) = o + 3..o + 2 + n
    BY <1>2, <1>4, <2>3, <2>4 DEF DataBetween
  <2> QED
    BY <2>2, <2>5
<1>6. ASSUME n = 0 PROVE UpTo(e, k, z) = UpTo(e, k, o)
  <2>1. z = o + n + 4
    BY <1>1, <1>6 DEF Frame
  <2>2. o + 3..o + 2 + n = {}
    BY <1>1, <1>6
  <2> QED
    BY <1>5, <2>1, <2>2
<1>7. ASSUME n # 0 PROVE UpTo(e, k, o + n + 5) = UpTo(e, k, o + n + 4)
  <2>1. Sized(e, k, o + n + 5) /\ o + n + 5 + 4 <= z
    BY <1>7 DEF Frame
  <2>2. ~SentBy(e)[o + n + 5].data
    <3>1. \E m \in 0..3 : SentBy(e)[o + n + 5] = Plain(k, SizeMark(m))
      <4> DEFINE o2 == o + n + 5
      <4> HIDE DEF o2
      <4>1. Sized(e, k, o2)
        BY <2>1 DEF o2
      <4>2. PICK m \in 0..3 : Frame(e, k, o2, m)
        BY <4>1, Framed
      <4>3. SentBy(e)[o2] = Plain(k, SizeMark(m))
        BY <4>2 DEF Frame
      <4> QED
        BY <4>3 DEF o2
    <3> QED
      BY <3>1, PlainIs
  <2>3. o + n + 4 \in b..z /\ o + n + 5 \in o + n + 4..z
    BY <1>1, <2>1
  <2>4. UpTo(e, k, o + n + 5) = UpTo(e, k, o + n + 4) \cup DataBetween(e, o + n + 4, o + n + 5)
    BY <2>3, UpToMore
  <2>5. o + n + 4 + 1..o + n + 5 = {o + n + 5}
    BY <1>1
  <2> QED
    BY <2>2, <2>4, <2>5 DEF DataBetween
<1> QED
  BY <1>5, <1>6, <1>7

(***************************************************************************)
(* Bodies.                                                                 *)
(***************************************************************************)
\* a body in the order of the stream
Rising(s) == \A i, j \in DOMAIN s : i < j => s[i] < s[j]

\* the body that is kept is the data of request k up to offset x
Has(e, k, x, body) == body \in Seq(Int) /\ Rising(body) /\ Range(body) = UpTo(e, k, x)

\* The marks of a read rise.
LEMMA MarksAre ==
  ASSUME NEW a \in Nat, NEW b \in Nat, a <= b
  PROVE  /\ Marks(a, b) \in Seq(Int) /\ Len(Marks(a, b)) = b - a
         /\ \A i \in 1..b - a : Marks(a, b)[i] = a + i
         /\ Marks(a, a) = <<>>
BY DEF Marks

\* A body begins empty.
LEMMA NothingKept ==
  ASSUME NEW e, NEW k, NEW x, UpTo(e, k, x) = {}
  PROVE  Has(e, k, x, <<>>)
<1>1. <<>> \in Seq(Int) /\ DOMAIN <<>> = {}
  OBVIOUS
<1> QED
  BY <1>1 DEF Has, Rising, Range

\* A body that is the data up to one offset goes on to be the data up to another.
LEMMA MoreKept ==
  ASSUME NEW e, NEW k, NEW body, NEW x, NEW y, NEW a \in Nat, NEW b \in Nat, a <= b,
         Has(e, k, x, body), \A d \in UpTo(e, k, x) : d <= a,
         UpTo(e, k, y) = UpTo(e, k, x) \cup (a + 1..b)
  PROVE  Has(e, k, y, body \o Marks(a, b)) /\ Len(body \o Marks(a, b)) = Len(body) + (b - a)
<1> DEFINE m == Marks(a, b)
           w == body \o m
<1>1. m \in Seq(Int) /\ Len(m) = b - a /\ \A i \in 1..b - a : m[i] = a + i
  BY MarksAre
<1>2. body \in Seq(Int) /\ Rising(body) /\ Range(body) = UpTo(e, k, x)
  BY DEF Has
<1> HIDE DEF m
<1>3. IsJoined(w, body, Len(body), m, b - a, Int)
  BY <1>1, <1>2, Joining
<1> HIDE DEF w
<1> DEFINE n == Len(body)
<1>4. n \in Nat /\ b - a \in Nat /\ DOMAIN body = 1..n
  BY <1>2
<1> HIDE DEF n
<1>5. w \in Seq(Int) /\ Len(w) = n + (b - a) /\ DOMAIN w = 1..n + (b - a)
  BY <1>3 DEF IsJoined, n
<1>6. \A i \in 1..n : w[i] = body[i] /\ body[i] \in Int /\ body[i] <= a
  <2>1. \A i \in 1..n : body[i] \in Range(body) /\ body[i] \in Int
    BY <1>2, <1>4 DEF Range
  <2> QED
    BY <1>2, <1>3, <2>1 DEF IsJoined, n
<1>7. \A i \in 1..b - a : w[n + i] = a + i
  BY <1>1, <1>3 DEF IsJoined, n
<1>8. \A i \in n + 1..n + (b - a) : w[i] = a + (i - n) /\ i - n \in 1..b - a
  <2> SUFFICES ASSUME NEW i \in n + 1..n + (b - a) PROVE w[i] = a + (i - n) /\ i - n \in 1..b - a
    OBVIOUS
  <2>1. i - n \in 1..b - a /\ n + (i - n) = i
    BY <1>4
  <2> QED
    BY <1>7, <2>1
<1>9. Rising(w)
  <2> SUFFICES ASSUME NEW i \in 1..n + (b - a), NEW j \in 1..n + (b - a), i < j
               PROVE  w[i] < w[j]
    BY <1>5 DEF Rising
  <2>1. CASE j \in 1..n
    BY <1>2, <1>4, <1>6, <2>1 DEF Rising
  <2>2. CASE i \in 1..n /\ j \notin 1..n
    BY <1>4, <1>6, <1>8, <2>2
  <2>3. CASE i \notin 1..n /\ j \notin 1..n
    BY <1>4, <1>8, <2>3
  <2> QED
    BY <1>4, <2>1, <2>2, <2>3
<1>10. Range(w) = Range(body) \cup (a + 1..b)
  <2>1. ASSUME NEW d \in a + 1..b PROVE d \in Range(w)
    <3>1. n + (d - a) \in n + 1..n + (b - a) /\ n + (d - a) \in 1..n + (b - a)
      BY <1>4
    <3>2. w[n + (d - a)] = d
      BY <1>4, <1>8, <3>1
    <3> QED
      BY <1>5, <3>1, <3>2 DEF Range
  <2>2. ASSUME NEW d \in Range(body) PROVE d \in Range(w)
    <3>1. PICK i \in 1..n : d = body[i]
      BY <1>4 DEF Range
    <3>2. i \in 1..n + (b - a) /\ w[i] = d
      BY <1>4, <1>6, <3>1
    <3> QED
      BY <1>5, <3>2 DEF Range
  <2>3. ASSUME NEW d \in Range(w) PROVE d \in Range(body) \cup (a + 1..b)
    <3>1. PICK i \in 1..n + (b - a) : d = w[i]
      BY <1>5 DEF Range
    <3>2. CASE i \in 1..n
      BY <1>4, <1>6, <3>1, <3>2 DEF Range
    <3>3. CASE i \notin 1..n
      BY <1>4, <1>8, <3>1, <3>3
    <3> QED
      BY <3>2, <3>3
  <2> QED
    BY <2>1, <2>2, <2>3
<1> QED
  BY <1>2, <1>5, <1>9, <1>10 DEF Has, w, m, n

(***************************************************************************)
(* The states the parser is in.                                            *)
(***************************************************************************)
\* opaque to the provers: they lose literals inside of records
No == FALSE
\* the same of TRUE
Yes == TRUE

\* the state of a chunk
ChunkState(stage, size, data) == [stage |-> stage, size |-> size, data |-> data]

\* the state of the parser
Web(state, k, length, header, chunk, body) ==
  [state |-> state, of |-> k, length |-> length, header |-> header, chunk |-> chunk,
   body |-> body, astray |-> No]

\* the state of a pass over chunks
Pass(p, s, done) == [p |-> p, taken |-> s, done |-> done]

\* the parser in a body of chunks
OfChunks(k, chunk, body) == Web("body", k, -1, k, chunk, body)

\* what is set of a pass
Moved(r, o) == [r EXCEPT !.taken = o]
Finished(r, f) == [r EXCEPT !.done = f]
Became(r, p) == [r EXCEPT !.p = p]
Staged(r, stage) == [r EXCEPT !.p.chunk.stage = stage]
Filled(r, data) == [r EXCEPT !.p.chunk.data = data]
Chunked(r, c) == [r EXCEPT !.p.chunk = c]
Ended(r, state) == [r EXCEPT !.p.state = state]
Strayed(r, f) == [r EXCEPT !.p.astray = f]

\* what is set of a parser
WithBody(p, d) == [p EXCEPT !.body = d]
\* its chunk
WithChunk(p, c) == [p EXCEPT !.chunk = c]

\* Setting the chunk or the body leaves the parser in a body of chunks.
LEMMA OfChunksSet ==
  ASSUME NEW k, NEW c, NEW d, NEW x
  PROVE  /\ WithBody(OfChunks(k, c, d), x) = OfChunks(k, c, x)
         /\ WithChunk(OfChunks(k, c, d), x) = OfChunks(k, x, d)
BY DEF WithBody, WithChunk, OfChunks, Web

\* The fields of a pass.
LEMMA PassIs ==
  ASSUME NEW p, NEW s, NEW f
  PROVE  Pass(p, s, f).p = p /\ Pass(p, s, f).taken = s /\ Pass(p, s, f).done = f
BY DEF Pass

\* Setting one leaves the others.
LEMMA PassSet ==
  ASSUME NEW p, NEW s, NEW f, NEW x
  PROVE  /\ Moved(Pass(p, s, f), x) = Pass(p, x, f) /\ Finished(Pass(p, s, f), x) = Pass(p, s, x)
         /\ Became(Pass(p, s, f), x) = Pass(x, s, f)
BY DEF Pass, Moved, Finished, Became

\* The fields of the parser.
LEMMA WebIs ==
  ASSUME NEW a, NEW k, NEW l, NEW h, NEW c, NEW d
  PROVE  /\ Web(a, k, l, h, c, d).state = a /\ Web(a, k, l, h, c, d).of = k
         /\ Web(a, k, l, h, c, d).length = l /\ Web(a, k, l, h, c, d).header = h
         /\ Web(a, k, l, h, c, d).chunk = c /\ Web(a, k, l, h, c, d).body = d
         /\ Web(a, k, l, h, c, d).astray = No
BY DEF Web

\* Setting one leaves the others.
LEMMA WebSet ==
  ASSUME NEW a, NEW k, NEW l, NEW h, NEW c, NEW d, NEW s, NEW f, NEW x
  PROVE  /\ Chunked(Pass(Web(a, k, l, h, c, d), s, f), x) = Pass(Web(a, k, l, h, x, d), s, f)
         /\ Ended(Pass(Web(a, k, l, h, c, d), s, f), x) = Pass(Web(x, k, l, h, c, d), s, f)
         /\ Strayed(Pass(Web(a, k, l, h, c, d), s, f), No) = Pass(Web(a, k, l, h, c, d), s, f)
<1> DEFINE p == Web(a, k, l, h, c, d)
<1> HIDE DEF p
<1>1. /\ [Pass(p, s, f) EXCEPT !.p.chunk = x] = Pass([p EXCEPT !.chunk = x], s, f)
      /\ [Pass(p, s, f) EXCEPT !.p.state = x] = Pass([p EXCEPT !.state = x], s, f)
      /\ [Pass(p, s, f) EXCEPT !.p.astray = No] = Pass([p EXCEPT !.astray = No], s, f)
  BY DEF Pass
<1>2. [p EXCEPT !.chunk = x] = Web(a, k, l, h, x, d)
  BY DEF p, Web
<1>3. [p EXCEPT !.state = x] = Web(x, k, l, h, c, d)
  BY DEF p, Web
<1>4. [p EXCEPT !.astray = No] = p
  BY DEF p, Web
<1> QED
  BY <1>1, <1>2, <1>3, <1>4 DEF p, Chunked, Ended, Strayed

\* So does setting a field of the chunk in a pass.
LEMMA ChunkSet ==
  ASSUME NEW k, NEW t, NEW n, NEW m, NEW d, NEW s, NEW f, NEW x
  PROVE  /\ Staged(Pass(OfChunks(k, ChunkState(t, n, m), d), s, f), x)
              = Pass(OfChunks(k, ChunkState(x, n, m), d), s, f)
         /\ Filled(Pass(OfChunks(k, ChunkState(t, n, m), d), s, f), x)
              = Pass(OfChunks(k, ChunkState(t, n, x), d), s, f)
<1> DEFINE c == ChunkState(t, n, m)
           p == OfChunks(k, c, d)
<1>1. /\ [c EXCEPT !.stage = x] = ChunkState(x, n, m)
      /\ [c EXCEPT !.data = x] = ChunkState(t, n, x)
  BY DEF ChunkState
<1> HIDE DEF c
<1>2. p.chunk = c /\ \A y : [p EXCEPT !.chunk = y] = OfChunks(k, y, d)
  BY DEF OfChunks, Web
<1> HIDE DEF p
<1>3. /\ [p EXCEPT !.chunk.stage = x] = [p EXCEPT !.chunk = [p.chunk EXCEPT !.stage = x]]
      /\ [p EXCEPT !.chunk.data = x] = [p EXCEPT !.chunk = [p.chunk EXCEPT !.data = x]]
  OBVIOUS
<1>4. /\ [Pass(p, s, f) EXCEPT !.p.chunk.stage = x] = Pass([p EXCEPT !.chunk.stage = x], s, f)
      /\ [Pass(p, s, f) EXCEPT !.p.chunk.data = x] = Pass([p EXCEPT !.chunk.data = x], s, f)
  BY DEF Pass
<1>5. /\ [p EXCEPT !.chunk.stage = x] = OfChunks(k, ChunkState(x, n, m), d)
      /\ [p EXCEPT !.chunk.data = x] = OfChunks(k, ChunkState(t, n, x), d)
  BY <1>1, <1>2, <1>3, Zenon
<1> QED
  BY <1>4, <1>5 DEF Staged, Filled, p, c

\* The fields of a chunk.
LEMMA ChunkIsOf ==
  ASSUME NEW k, NEW t, NEW n, NEW m, NEW d, NEW s, NEW f
  PROVE  LET r == Pass(OfChunks(k, ChunkState(t, n, m), d), s, f)
         IN r.p.chunk.stage = t /\ r.p.chunk.size = n /\ r.p.chunk.data = m
BY DEF Pass, OfChunks, Web, ChunkState

\* offset s, where the parser is in the chunk of n bytes with its size at offset o
InChunk(c, s, o, n) ==
  \/ c = Fresh /\ s = o - 1
  \/ c = ChunkState("size", 0, <<o>>) /\ s = o
  \/ c = ChunkState("end_size", n, <<>>) /\ s = o + 1
  \/ c = ChunkState("body", n, Marks(o + 2, s)) /\ n # 0 /\ s \in o + 2..o + 1 + n
  \/ c = ChunkState("stop_body", n, Marks(o + 2, o + 2 + n)) /\ s = o + 2 + n
  \/ c = ChunkState("end_body", n, Marks(o + 2, o + 2 + n)) /\ s = o + 3 + n

\* The digit of a size is kept.
LEMMA SizeLetterFirst ==
  ASSUME NEW k, NEW d, NEW o, NEW s, Mark(o) # "cr"
  PROVE  SizeLetter(Pass(OfChunks(k, Fresh, d), s, No), o)
           = Pass(OfChunks(k, ChunkState("size", 0, <<o>>), d), o, No)
<1> DEFINE r == Pass(OfChunks(k, ChunkState("size", 0, <<>>), d), s, No)
<1>1. r.p.chunk.data = <<>> /\ Append(<<>>, o) = <<o>>
  BY ChunkIsOf
<1>2. Fresh = ChunkState("size", 0, <<>>)
  BY DEF Fresh, ChunkState
<1>3. Filled(Moved(r, o), <<o>>) = Pass(OfChunks(k, ChunkState("size", 0, <<o>>), d), o, No)
  BY PassSet, ChunkSet
<1> HIDE DEF r
<1>4. SizeLetter(r, o) = Filled(Moved(r, o), <<o>>)
  BY <1>1 DEF SizeLetter, Filled, Moved
<1> QED
  BY <1>2, <1>3, <1>4 DEF r

\* At the end of its line it is the size.
LEMMA SizeLetterSecond ==
  ASSUME NEW k, NEW d, NEW o, NEW s, NEW u, NEW n \in 0..3, Mark(u) = "cr", SizeOf(<<o>>) = n
  PROVE  SizeLetter(Pass(OfChunks(k, ChunkState("size", 0, <<o>>), d), s, No), u)
           = Pass(OfChunks(k, ChunkState("end_size", n, <<>>), d), u, No)
<1> DEFINE r == Pass(OfChunks(k, ChunkState("size", 0, <<o>>), d), s, No)
           c == ChunkState("end_size", n, <<>>)
           v == <<o>>
<1> HIDE DEF v
<1>1. r.p.chunk.data = v /\ r.p.astray = No
  BY ChunkIsOf, PassIs, WebIs DEF OfChunks, v
<1>2. Chunked(Strayed(Moved(r, u), No), c) = Pass(OfChunks(k, c, d), u, No)
  <2> HIDE DEF c
  <2>1. Moved(r, u) = Pass(OfChunks(k, ChunkState("size", 0, <<o>>), d), u, No)
    BY PassSet
  <2> QED
    BY <2>1, WebSet DEF OfChunks
<1> HIDE DEF r
<1>3. SizeOf(r.p.chunk.data) = n /\ (r.p.astray \/ SizeOf(r.p.chunk.data) = -1) = No
  <2>1. SizeOf(v) = n /\ n # -1
    BY DEF v
  <2>2. (r.p.astray \/ n = -1) = No
    BY <1>1, <2>1 DEF No
  <2> QED
    BY <1>1, <2>1, <2>2
<1>4. SizeLetter(r, u) = Chunked(Strayed(Moved(r, u), No), c)
  BY <1>3 DEF SizeLetter, Chunked, Strayed, Moved, ChunkState
<1> QED
  BY <1>2, <1>4 DEF r

\* What begins after the line of a size.
LEMMA EndSizeLetterIs ==
  ASSUME NEW k, NEW d, NEW n \in 0..3, NEW o \in Nat, NEW b \in Nat, NEW s, Mark(o) = "lf",
         NEW x \in Nat, x = o + n, NEW r,
         r = EndSizeLetter(Pass(OfChunks(k, ChunkState("end_size", n, <<>>), d), s, No), o, b)
  PROVE  /\ n = 0 => r = Pass(OfChunks(k, ChunkState("stop_body", n, <<>>), d), o, No)
         /\ n # 0 /\ x <= b =>
              r = Pass(OfChunks(k, ChunkState("stop_body", n, Marks(o, x)), d), x, No)
         /\ n # 0 /\ ~(x <= b) =>
              r = Pass(OfChunks(k, ChunkState("body", n, Marks(o, b)), d), b, No)
<1> DEFINE r0 == Pass(OfChunks(k, ChunkState("end_size", n, <<>>), d), s, No)
           u == Marks(o, x)
           v == Marks(o, b)
<1>0. r = EndSizeLetter(r0, o, b) /\ (x <= b <=> b - o >= n)
  OBVIOUS
<1>1. r0.p.chunk.size = n
  BY ChunkIsOf
<1> HIDE DEF u, v
<1>2. /\ Staged(Moved(r0, o), "stop_body") = Pass(OfChunks(k, ChunkState("stop_body", n, <<>>), d), o, No)
      /\ Filled(Staged(Moved(r0, x), "stop_body"), u)
           = Pass(OfChunks(k, ChunkState("stop_body", n, u), d), x, No)
      /\ Filled(Staged(Moved(r0, b), "body"), v)
           = Pass(OfChunks(k, ChunkState("body", n, v), d), b, No)
  BY PassSet, ChunkSet
<1> HIDE DEF r0
<1>3. CASE n = 0
  <2>1. EndSizeLetter(r0, o, b) = Staged(Moved(r0, o), "stop_body")
    BY <1>1, <1>3 DEF EndSizeLetter, Staged, Moved
  <2> QED
    BY <1>0, <1>2, <1>3, <2>1
<1>4. CASE n # 0 /\ x <= b
  <2>0. x = o + n /\ b - o >= n /\ u = Marks(o, o + n)
    BY <1>0, <1>4 DEF u
  <2>1. EndSizeLetter(r0, o, b) = Filled(Staged(Moved(r0, o + n), "stop_body"), Marks(o, o + n))
    BY <1>1, <1>4, <2>0 DEF EndSizeLetter, Staged, Moved, Filled
  <2>2. EndSizeLetter(r0, o, b) = Filled(Staged(Moved(r0, x), "stop_body"), u)
    BY <2>0, <2>1, Zenon
  <2> QED
    BY <1>0, <1>2, <1>4, <2>2 DEF u
<1>5. CASE n # 0 /\ ~(x <= b)
  <2>1. EndSizeLetter(r0, o, b) = Filled(Staged(Moved(r0, b), "body"), v)
    BY <1>0, <1>1, <1>5 DEF EndSizeLetter, Staged, Moved, Filled, v
  <2> QED
    BY <1>0, <1>2, <1>5, <2>1 DEF v
<1> QED
  BY <1>3, <1>4, <1>5

\* w is u and then v
IsConcat(w, u, v) == w = u \o v

\* offset x, where a chunk of n bytes ends when its data m go on after offset a
RestEnds(x, a, n, m) == m \in Seq(Int) /\ x \in Nat /\ x = a + (n - Len(m))

\* what BodyPart makes of a chunk: it is complete, or all of the buffer was taken
BodyTo(r, k, n, d, m, a, b, x) ==
  /\ x <= b => r = Pass(OfChunks(k, ChunkState("stop_body", n, m \o Marks(a, x)), d), x, No)
  /\ ~(x <= b) => r = Pass(OfChunks(k, ChunkState("body", n, m \o Marks(a, b)), d), b, No)

\* The rest of a chunk, or a part of it, is added to its data.
LEMMA BodyPartIs ==
  ASSUME NEW k, NEW n \in 0..3, NEW m, NEW d, NEW s, NEW a \in Nat, NEW b \in Nat,
         NEW x \in Nat, RestEnds(x, a, n, m)
  PROVE  BodyTo(BodyPart(Pass(OfChunks(k, ChunkState("body", n, m), d), s, No), a, b),
                k, n, d, m, a, b, x)
<1> DEFINE r0 == Pass(OfChunks(k, ChunkState("body", n, m), d), s, No)
           rest == n - Len(m)
           u == m \o Marks(a, x)
           v == m \o Marks(a, b)
<1>1. r0.p.chunk.size = n /\ r0.p.chunk.data = m
  BY ChunkIsOf
<1>2. (x <= b <=> b - a >= rest) /\ x = a + rest
  BY DEF RestEnds
<1> HIDE DEF u, v
<1>3. /\ Filled(Staged(Moved(r0, x), "stop_body"), u)
           = Pass(OfChunks(k, ChunkState("stop_body", n, u), d), x, No)
      /\ Filled(Moved(r0, b), v) = Pass(OfChunks(k, ChunkState("body", n, v), d), b, No)
  BY PassSet, ChunkSet
<1> HIDE DEF r0
<1>4. ASSUME x <= b PROVE BodyPart(r0, a, b) = Filled(Staged(Moved(r0, x), "stop_body"), u)
  <2>1. b - a >= rest
    BY <1>2, <1>4
  <2>2. BodyPart(r0, a, b)
          = Filled(Staged(Moved(r0, a + rest), "stop_body"), m \o Marks(a, a + rest))
    BY <1>1, <2>1 DEF BodyPart, Staged, Moved, Filled
  <2> HIDE DEF rest
  <2> QED
    BY <1>2, <2>2 DEF u
<1>5. ASSUME ~(x <= b) PROVE BodyPart(r0, a, b) = Filled(Moved(r0, b), v)
  <2>1. ~(b - a >= rest)
    BY <1>2, <1>5
  <2> QED
    BY <1>1, <2>1 DEF BodyPart, Moved, Filled, v
<1> QED
  BY <1>3, <1>4, <1>5 DEF BodyTo, r0, u, v

\* After the data there is a carriage return.
LEMMA StopBodyLetterIs ==
  ASSUME NEW k, NEW d, NEW n, NEW m, NEW o, NEW s, Mark(o) = "cr"
  PROVE  StopBodyLetter(Pass(OfChunks(k, ChunkState("stop_body", n, m), d), s, No), o)
           = Pass(OfChunks(k, ChunkState("end_body", n, m), d), o, No)
<1> DEFINE r0 == Pass(OfChunks(k, ChunkState("stop_body", n, m), d), s, No)
<1>1. Staged(Moved(r0, o), "end_body") = Pass(OfChunks(k, ChunkState("end_body", n, m), d), o, No)
  BY PassSet, ChunkSet
<1> HIDE DEF r0
<1>2. StopBodyLetter(r0, o) = Staged(Moved(r0, o), "end_body")
  BY DEF StopBodyLetter, Staged, Moved
<1> QED
  BY <1>1, <1>2 DEF r0

\* After a chunk comes another one; its data are added to the body.
LEMMA EndBodyLetterMore ==
  ASSUME NEW k, NEW d, NEW n \in 1..3, NEW m, NEW o, NEW s, Mark(o) = "lf",
         NEW u, IsConcat(u, d, m)
  PROVE  EndBodyLetter(Pass(OfChunks(k, ChunkState("end_body", n, m), d), s, No), o)
           = Pass(OfChunks(k, Fresh, u), o, No)
<1> DEFINE p0 == OfChunks(k, ChunkState("end_body", n, m), d)
           r0 == Pass(p0, s, No)
           p1 == WithBody(p0, u)
           p2 == WithChunk(p1, Fresh)
<1>1. r0.p = p0 /\ r0.p.chunk.size = n /\ r0.p.chunk.data = m /\ r0.p.body = d
  BY ChunkIsOf, PassIs, WebIs DEF OfChunks
<1>2. p1 = OfChunks(k, ChunkState("end_body", n, m), u)
  BY OfChunksSet
<1> HIDE DEF p1
<1>3. p2 = OfChunks(k, Fresh, u)
  BY <1>2, OfChunksSet
<1>4. Became(Moved(r0, o), p2) = Pass(p2, o, No)
  <2> HIDE DEF p0, p2
  <2> QED
    BY PassSet
<1> HIDE DEF r0, p0
<1>5. EndBodyLetter(r0, o) = Became(Moved(r0, o), p2)
  <2>1. ~(n <= 0)
    OBVIOUS
  <2>2. Binary(r0.p, r0.p.chunk.data) = p1
    BY <1>1 DEF Binary, p1, WithBody, IsConcat
  <2> QED
    BY <1>1, <2>1, <2>2 DEF EndBodyLetter, Became, Moved, WithChunk
<1> QED
  BY <1>3, <1>4, <1>5 DEF r0, p0

\* After the last one the body is complete.
LEMMA EndBodyLetterLast ==
  ASSUME NEW k, NEW d, NEW m, NEW o, NEW s, Mark(o) = "lf"
  PROVE  EndBodyLetter(Pass(OfChunks(k, ChunkState("end_body", 0, m), d), s, No), o)
           = Pass(Web("end", k, -1, k, Fresh, d), o, Yes)
<1> DEFINE p0 == OfChunks(k, ChunkState("end_body", 0, m), d)
           r0 == Pass(p0, s, No)
<1>1. r0.p = p0 /\ r0.p.chunk.size = 0 /\ r0.p.astray = No
  BY ChunkIsOf, PassIs, WebIs DEF OfChunks
<1> HIDE DEF r0, p0
<1>2. EndBodyLetter(r0, o) = StopAt(r0, o, FALSE)
  BY <1>1 DEF EndBodyLetter
<1>3. (r0.p.astray \/ FALSE) = No
  BY <1>1 DEF No
<1>4. StopAt(r0, o, FALSE)
        = Finished(Moved(Strayed(Ended(Chunked(r0, Fresh), "end"), No), o), Yes)
  BY <1>3 DEF StopAt, Finished, Moved, Strayed, Ended, Chunked, Yes
<1>5. Finished(Moved(Strayed(Ended(Chunked(r0, Fresh), "end"), No), o), Yes)
        = Pass(Web("end", k, -1, k, Fresh, d), o, Yes)
  BY PassSet, WebSet DEF r0, p0, OfChunks
<1> QED
  BY <1>2, <1>4, <1>5 DEF r0, p0

\* The size a digit says.
LEMMA SizeOfIs ==
  ASSUME NEW o, NEW n \in 0..3, Mark(o) = SizeMark(n)
  PROVE  SizeOf(<<o>>) = n /\ SizeOf(<<o>>) # -1 /\ Mark(o) # "cr"
<1>1. Len(<<o>>) = 1 /\ <<o>>[1] = o
  OBVIOUS
<1>2. DOMAIN Digits = 1..3 /\ Digits[1] = "1" /\ Digits[2] = "2" /\ Digits[3] = "3"
  BY DEF Digits
<1>3. CASE n = 0
  <2>1. Mark(o) = "0"
    BY <1>3, SizeMarks
  <2> QED
    BY <1>1, <1>3, <2>1 DEF SizeOf
<1>4. CASE n # 0
  <2>1. n \in 1..3 /\ Mark(o) = Digits[n]
    BY <1>4, SizeMarks
  <2>2. Mark(o) # "0" /\ Mark(o) # "cr" /\ Mark(o) \in Range(Digits)
    BY <1>2, <2>1 DEF Range
  <2>3. SizeOf(<<o>>) = CHOOSE i \in DOMAIN Digits : Digits[i] = Mark(o)
    BY <1>1, <2>2 DEF SizeOf
  <2>4. \A i \in DOMAIN Digits : Digits[i] = Mark(o) => i = n
    BY <1>2, <2>1
  <2>5. SizeOf(<<o>>) = n
    BY <1>2, <2>1, <2>3, <2>4
  <2> QED
    BY <2>1, <2>2, <2>5
<1> QED
  BY <1>3, <1>4

(***************************************************************************)
(* One letter of a body of chunks.                                         *)
(***************************************************************************)
\* The stage of a chunk.
LEMMA StageOf ==
  ASSUME NEW k, NEW t, NEW n, NEW m, NEW d
  PROVE  ChunkState(t, n, m).stage = t /\ OfChunks(k, ChunkState(t, n, m), d).chunk.stage = t
BY DEF ChunkState, OfChunks, Web

\* No chunk was begun.
LEMMA FreshIs == Fresh = ChunkState("size", 0, <<>>) /\ Fresh.stage = "size"
BY DEF Fresh, ChunkState

\* What is done to a letter depends on the stage.
LEMMA ChunkLetterIs ==
  ASSUME NEW p, NEW s \in Nat, NEW u \in Nat, s < u, NEW a, NEW b, NEW r,
         r = ChunkLetter(Pass(p, s, No), u, a, b)
  PROVE  /\ p.chunk.stage = "size" => r = SizeLetter(Pass(p, s, No), u)
         /\ p.chunk.stage = "end_size" => r = EndSizeLetter(Pass(p, s, No), u, b)
         /\ p.chunk.stage = "body" => r = BodyPart(Pass(p, s, No), a, b)
         /\ p.chunk.stage = "stop_body" => r = StopBodyLetter(Pass(p, s, No), u)
         /\ p.chunk.stage = "end_body" => r = EndBodyLetter(Pass(p, s, No), u)
<1> DEFINE q == Pass(p, s, No)
<1>1. q.p = p /\ q.taken = s /\ ~q.done
  <2>1. q.p = p /\ q.taken = s /\ q.done = No
    BY PassIs
  <2> HIDE DEF q
  <2>2. No = FALSE
    BY DEF No
  <2> QED
    BY <2>1, <2>2, Zenon
<1>0. r = ChunkLetter(q, u, a, b)
  OBVIOUS
<1> HIDE DEF q
<1>2. ~(q.done \/ u <= q.taken)
  BY <1>1
<1>3. r =
        CASE p.chunk.stage = "size" -> SizeLetter(q, u)
          [] p.chunk.stage = "end_size" -> EndSizeLetter(q, u, b)
          [] p.chunk.stage = "body" -> BodyPart(q, a, b)
          [] p.chunk.stage = "stop_body" -> StopBodyLetter(q, u)
          [] p.chunk.stage = "end_body" -> EndBodyLetter(q, u)
  BY <1>0, <1>1, <1>2 DEF ChunkLetter
<1> QED
  BY <1>3 DEF q

\* Nothing is done when the pass is done with.
LEMMA LetterOver ==
  ASSUME NEW p, NEW s, NEW u, NEW a, NEW b
  PROVE  ChunkLetter(Pass(p, s, Yes), u, a, b) = Pass(p, s, Yes)
<1> DEFINE q == Pass(p, s, Yes)
<1>1. q.done = Yes
  BY PassIs
<1> HIDE DEF q
<1>2. Yes = TRUE
  BY DEF Yes
<1>3. q.done
  BY <1>1, <1>2, Zenon
<1> QED
  BY <1>3 DEF ChunkLetter, q

\* Nothing is done to data that were jumped over.
LEMMA LetterPassed ==
  ASSUME NEW p, NEW s \in Nat, NEW f, NEW u \in Nat, u <= s, NEW a, NEW b
  PROVE  ChunkLetter(Pass(p, s, f), u, a, b) = Pass(p, s, f)
<1> DEFINE q == Pass(p, s, f)
<1>1. q.taken = s
  BY PassIs
<1> HIDE DEF q
<1> QED
  BY <1>1 DEF ChunkLetter, q

\* what is left is the data of the chunk
LEMMA MarksJoined ==
  ASSUME NEW a \in Nat, NEW b \in Nat, NEW c \in Nat, a <= b, b <= c
  PROVE  Marks(a, b) \o Marks(b, c) = Marks(a, c)
<1> DEFINE u == Marks(a, b)
           v == Marks(b, c)
           w == u \o v
           x == Marks(a, c)
<1>1. /\ u \in Seq(Int) /\ Len(u) = b - a /\ \A i \in 1..b - a : u[i] = a + i
      /\ v \in Seq(Int) /\ Len(v) = c - b /\ \A i \in 1..c - b : v[i] = b + i
      /\ x \in Seq(Int) /\ Len(x) = c - a /\ \A i \in 1..c - a : x[i] = a + i
  <2>1. a <= c
    OBVIOUS
  <2> QED
    BY <2>1, MarksAre
<1> HIDE DEF u, v, x
<1>2. IsJoined(w, u, b - a, v, c - b, Int)
  BY <1>1, Joining
<1> HIDE DEF w
<1>3. /\ w \in Seq(Int) /\ Len(w) = b - a + (c - b)
      /\ \A i \in 1..b - a : w[i] = u[i]
      /\ \A i \in 1..c - b : w[b - a + i] = v[i]
  BY <1>2 DEF IsJoined
<1>4. ASSUME NEW i \in 1..c - a PROVE w[i] = a + i
  <2>1. CASE i \in 1..b - a
    BY <1>1, <1>3, <2>1
  <2>2. CASE i \notin 1..b - a
    <3>1. i - (b - a) \in 1..c - b /\ b - a + (i - (b - a)) = i /\ b + (i - (b - a)) = a + i
      BY <2>2
    <3> QED
      BY <1>1, <1>3, <3>1
  <2> QED
    BY <2>1, <2>2
<1>5. Len(w) = Len(x) /\ Len(w) = c - a
  BY <1>1, <1>3
<1>6. \A i \in 1..Len(w) : w[i] = x[i]
  BY <1>1, <1>4, <1>5
<1>7. w = x
  BY <1>1, <1>3, <1>5, <1>6, SeqEqual
<1> QED
  BY <1>7 DEF w, u, v, x

\* One letter of a chunk: it is in the chunk, past its last mark, or past the last chunk.
GoesOn(k, d, o, n, s, b, r) ==
  \E c, t : /\ t \in Nat /\ s < t /\ t <= b
            /\ r = Pass(OfChunks(k, c, d), t, No) /\ InChunk(c, t, o, n)
            /\ c.stage = "body" => t = b

\* one letter later, at offset u
Stepped(k, d, o, n, s, u, b, r) ==
  \/ GoesOn(k, d, o, n, s, b, r)
  \/ /\ n # 0 /\ u = o + n + 4
     /\ r = Pass(OfChunks(k, Fresh, d \o Marks(o + 2, o + 2 + n)), u, No)
  \/ /\ n = 0 /\ u = o + 4
     /\ r = Pass(Web("end", k, -1, k, Fresh, d), u, Yes)

\* The chunk goes on.
LEMMA Goes ==
  ASSUME NEW k, NEW d, NEW o \in Nat, NEW n \in Nat, NEW s \in Nat, NEW u, NEW b \in Nat, NEW c,
         NEW t \in Nat, NEW r,
         r = Pass(OfChunks(k, c, d), t, No), s < t, t <= b, InChunk(c, t, o, n),
         c.stage = "body" => t = b
  PROVE  Stepped(k, d, o, n, s, u, b, r)
<1>1. GoesOn(k, d, o, n, s, b, r)
  BY DEF GoesOn
<1> QED
  BY <1>1 DEF Stepped

\* One letter of a chunk.
LEMMA ChunkStep ==
  ASSUME env \in Environments, stream = SentBy(env), NEW k \in 1..Count(env), NEW n \in 0..3,
         NEW o, Frame(env, k, o, n), NEW a \in Nat, NEW b \in Nat,
         NEW s \in Nat, a <= s, NEW u \in Nat, u = s + 1, u <= b, NEW c, NEW d,
         InChunk(c, s, o, n), c.stage = "body" => s = a,
         NEW p, p = OfChunks(k, c, d), NEW r, r = ChunkLetter(Pass(p, s, No), u, a, b)
  PROVE  Stepped(k, d, o, n, s, u, b, r)
<1>1. /\ o \in Nat /\ n \in Nat /\ s < u
      /\ Mark(o) = SizeMark(n) /\ Mark(o + 1) = "cr" /\ Mark(o + 2) = "lf"
      /\ Mark(o + n + 3) = "cr" /\ Mark(o + n + 4) = "lf"
  BY PlainIs DEF Frame, Mark
<1>2. p.chunk = c
  BY WebIs DEF OfChunks
<1>r. /\ c.stage = "size" => r = SizeLetter(Pass(p, s, No), u)
      /\ c.stage = "end_size" => r = EndSizeLetter(Pass(p, s, No), u, b)
      /\ c.stage = "body" => r = BodyPart(Pass(p, s, No), a, b)
      /\ c.stage = "stop_body" => r = StopBodyLetter(Pass(p, s, No), u)
      /\ c.stage = "end_body" => r = EndBodyLetter(Pass(p, s, No), u)
  BY <1>1, <1>2, ChunkLetterIs
<1>3. CASE c = Fresh /\ s = o - 1
  <2> DEFINE c2 == ChunkState("size", 0, <<o>>)
  <2>1. r = SizeLetter(Pass(OfChunks(k, Fresh, d), s, No), u)
    BY <1>r, <1>3, FreshIs
  <2>2. u = o
    BY <1>1, <1>3
  <2>3. Mark(o) # "cr"
    BY <1>1, SizeOfIs
  <2>4. r = Pass(OfChunks(k, c2, d), u, No)
    BY <2>1, <2>2, <2>3, SizeLetterFirst
  <2>5. c2.stage = "size" /\ InChunk(c2, u, o, n)
    BY <1>1, <2>2, StageOf DEF InChunk
  <2> HIDE DEF c2
  <2> QED
    BY <1>1, <2>4, <2>5, Goes
<1>4. CASE c = ChunkState("size", 0, <<o>>) /\ s = o
  <2> DEFINE c2 == ChunkState("end_size", n, <<>>)
  <2>1. r = SizeLetter(Pass(OfChunks(k, ChunkState("size", 0, <<o>>), d), s, No), u)
    BY <1>r, <1>4, StageOf
  <2>2. SizeOf(<<o>>) = n
    BY <1>1, SizeOfIs
  <2>3. u = o + 1 /\ Mark(u) = "cr"
    BY <1>1, <1>4
  <2>4. r = Pass(OfChunks(k, c2, d), u, No)
    BY <2>1, <2>2, <2>3, SizeLetterSecond
  <2>5. c2.stage = "end_size" /\ InChunk(c2, u, o, n)
    BY <2>3, StageOf DEF InChunk
  <2> HIDE DEF c2
  <2> QED
    BY <1>1, <2>4, <2>5, Goes
<1>5. CASE c = ChunkState("end_size", n, <<>>) /\ s = o + 1
  <2>1. r = EndSizeLetter(Pass(OfChunks(k, ChunkState("end_size", n, <<>>), d), s, No), u, b)
    BY <1>r, <1>5, StageOf
  <2>2. u = o + 2 /\ Mark(u) = "lf"
    BY <1>1, <1>5
  <2> DEFINE x == u + n
  <2>3. x \in Nat /\ x = o + 2 + n /\ s < x
    BY <1>1, <2>2
  <2>4. /\ n = 0 => r = Pass(OfChunks(k, ChunkState("stop_body", n, <<>>), d), u, No)
        /\ n # 0 /\ x <= b =>
             r = Pass(OfChunks(k, ChunkState("stop_body", n, Marks(u, x)), d), x, No)
        /\ n # 0 /\ ~(x <= b) =>
             r = Pass(OfChunks(k, ChunkState("body", n, Marks(u, b)), d), b, No)
    <3>1. x = u + n
      OBVIOUS
    <3> HIDE DEF x
    <3> QED
      BY <2>1, <2>2, <2>3, <3>1, EndSizeLetterIs
  <2> HIDE DEF x
  <2>5. Marks(u, x) = Marks(o + 2, o + 2 + n) /\ (n = 0 => Marks(u, x) = <<>> /\ x = u)
    <3>1. n = 0 => x = u
      BY <2>2, <2>3
    <3>2. Marks(u, u) = <<>>
      BY MarksAre
    <3> QED
      BY <2>2, <2>3, <3>1, <3>2
  <2>6. CASE n = 0 \/ x <= b
    <3> DEFINE c2 == ChunkState("stop_body", n, Marks(u, x))
    <3>1. r = Pass(OfChunks(k, c2, d), x, No) /\ x <= b
      BY <2>4, <2>5, <2>6
    <3>2. c2.stage = "stop_body" /\ InChunk(c2, x, o, n)
      BY <2>3, <2>5, StageOf DEF InChunk
    <3> HIDE DEF c2
    <3> QED
      BY <1>1, <2>3, <3>1, <3>2, Goes
  <2>7. CASE ~(n = 0 \/ x <= b)
    <3> DEFINE c2 == ChunkState("body", n, Marks(u, b))
    <3>1. r = Pass(OfChunks(k, c2, d), b, No)
      BY <2>4, <2>7
    <3>2. b \in o + 2..o + 1 + n /\ s < b
      BY <1>1, <2>2, <2>3, <2>7
    <3>3. InChunk(c2, b, o, n)
      BY <2>2, <2>7, <3>2 DEF InChunk
    <3> HIDE DEF c2
    <3> QED
      BY <1>1, <3>1, <3>2, <3>3, Goes
  <2> QED
    BY <2>6, <2>7
<1>6. CASE c = ChunkState("body", n, Marks(o + 2, s)) /\ n # 0 /\ s \in o + 2..o + 1 + n
  <2> DEFINE m == Marks(o + 2, s)
             x == o + 2 + n
             rest == n - (s - (o + 2))
  <2>0. o + 2 \in Nat /\ o + 2 <= s /\ s = a /\ x \in Nat /\ s < x /\ rest \in Nat /\ x = a + rest
    <3>1. c.stage = "body"
      BY <1>6, StageOf
    <3> QED
      BY <1>1, <1>6, <3>1
  <2>1. m \in Seq(Int) /\ Len(m) = s - (o + 2)
    BY <1>1, <2>0, MarksAre
  <2>2. r = BodyPart(Pass(OfChunks(k, ChunkState("body", n, m), d), s, No), a, b)
    BY <1>r, <1>6, StageOf
  <2>3. rest = n - Len(m)
    BY <2>1
  <2>4. m \o Marks(a, x) = Marks(o + 2, o + 2 + n) /\ (s <= b => m \o Marks(a, b) = Marks(o + 2, b))
    <3> DEFINE z == o + 2
    <3>0. z \in Nat /\ z <= s /\ s <= x /\ x \in Nat
      BY <2>0
    <3> HIDE DEF z, x
    <3>1. Marks(z, s) \o Marks(s, x) = Marks(z, x)
      BY <3>0, MarksJoined
    <3>2. s <= b => Marks(z, s) \o Marks(s, b) = Marks(z, b)
      BY <3>0, MarksJoined
    <3> QED
      BY <2>0, <3>1, <3>2 DEF z, x
  <2>5. /\ x <= b => r = Pass(OfChunks(k, ChunkState("stop_body", n, m \o Marks(a, x)), d), x, No)
        /\ ~(x <= b) => r = Pass(OfChunks(k, ChunkState("body", n, m \o Marks(a, b)), d), b, No)
    <3>1. RestEnds(x, a, n, m) /\ x \in Nat
      BY <2>0, <2>1, <2>3 DEF RestEnds
    <3> HIDE DEF m, x, rest
    <3>2. BodyTo(BodyPart(Pass(OfChunks(k, ChunkState("body", n, m), d), s, No), a, b),
                 k, n, d, m, a, b, x)
      BY <3>1, BodyPartIs
    <3>3. BodyTo(r, k, n, d, m, a, b, x)
      BY <2>2, <3>2
    <3> QED
      BY <3>3 DEF BodyTo
  <2>6. CASE x <= b
    <3> DEFINE c2 == ChunkState("stop_body", n, m \o Marks(a, x))
    <3>1. r = Pass(OfChunks(k, c2, d), x, No)
      BY <2>5, <2>6, Zenon
    <3>a. c2.stage = "stop_body"
      BY StageOf, Zenon
    <3>b. c2 = ChunkState("stop_body", n, Marks(o + 2, o + 2 + n)) /\ x = o + 2 + n
      BY <2>4, Zenon
    <3> HIDE DEF c2, x
    <3>c. InChunk(c2, x, o, n)
      BY <3>b, Zenon DEF InChunk
    <3>2. c2.stage = "stop_body" /\ InChunk(c2, x, o, n)
      BY <3>a, <3>c
    <3> QED
      BY <1>1, <2>0, <2>6, <3>1, <3>2, Goes
  <2>7. CASE ~(x <= b)
    <3> DEFINE c2 == ChunkState("body", n, m \o Marks(a, b))
    <3>1. r = Pass(OfChunks(k, c2, d), b, No)
      BY <2>5, <2>7
    <3>2. b \in o + 2..o + 1 + n /\ s < b /\ s <= b
      BY <1>1, <2>0, <2>7
    <3>3. InChunk(c2, b, o, n)
      BY <1>6, <2>4, <3>2 DEF InChunk
    <3> HIDE DEF c2
    <3> QED
      BY <1>1, <3>1, <3>2, <3>3, Goes
  <2> QED
    BY <2>6, <2>7
<1>7. CASE c = ChunkState("stop_body", n, Marks(o + 2, o + 2 + n)) /\ s = o + 2 + n
  <2> DEFINE m == Marks(o + 2, o + 2 + n)
             c2 == ChunkState("end_body", n, m)
  <2>1. r = StopBodyLetter(Pass(OfChunks(k, ChunkState("stop_body", n, m), d), s, No), u)
    BY <1>r, <1>7, StageOf
  <2>2. u = o + n + 3 /\ u = o + 3 + n /\ Mark(u) = "cr"
    BY <1>1, <1>7
  <2>3. r = Pass(OfChunks(k, c2, d), u, No)
    BY <2>1, <2>2, StopBodyLetterIs
  <2>4. c2.stage = "end_body" /\ InChunk(c2, u, o, n)
    BY <2>2, StageOf DEF InChunk
  <2> HIDE DEF c2
  <2> QED
    BY <1>1, <2>3, <2>4, Goes
<1>8. CASE c = ChunkState("end_body", n, Marks(o + 2, o + 2 + n)) /\ s = o + 3 + n
  <2> DEFINE m == Marks(o + 2, o + 2 + n)
  <2>1. r = EndBodyLetter(Pass(OfChunks(k, ChunkState("end_body", n, m), d), s, No), u)
    BY <1>r, <1>8, StageOf
  <2>2. u = o + n + 4 /\ (n = 0 => u = o + 4) /\ Mark(u) = "lf"
    BY <1>1, <1>8
  <2>3. /\ n # 0 => r = Pass(OfChunks(k, Fresh, d \o m), u, No)
        /\ n = 0 => r = Pass(Web("end", k, -1, k, Fresh, d), u, Yes)
    <3> HIDE DEF m
    <3>1. CASE n = 0
      BY <2>1, <2>2, <3>1, EndBodyLetterLast
    <3>2. CASE n # 0
      <4>1. n \in 1..3
        BY <3>2
      <4> DEFINE w == d \o m
      <4>0. IsConcat(w, d, m)
        BY DEF IsConcat
      <4> HIDE DEF w
      <4>2. EndBodyLetter(Pass(OfChunks(k, ChunkState("end_body", n, m), d), s, No), u)
              = Pass(OfChunks(k, Fresh, w), u, No)
        BY <2>2, <4>0, <4>1, EndBodyLetterMore
      <4> QED
        BY <2>1, <3>2, <4>2 DEF w
    <3> QED
      BY <3>1, <3>2
  <2> QED
    BY <2>2, <2>3 DEF Stepped
<1> QED
  BY <1>3, <1>4, <1>5, <1>6, <1>7, <1>8 DEF InChunk

(***************************************************************************)
(* The loops over letters.                                                 *)
(***************************************************************************)
\* one letter of the loop over headers or over chunks
Letter(kind, r, o, a, b) ==
  IF kind = "headers" THEN PrepareLetter(r, o) ELSE ChunkLetter(r, o, a, b)

\* f is the loop over n letters from x
RunsTo(kind, x, a, b, n, f) ==
  f = [i \in 0..n |-> IF i = 0 THEN x
                      ELSE Only({Letter(kind, r, a + i, a, b) : r \in {f[i - 1]}})]

\* There is a loop over any number of letters.
LEMMA RunsToAny ==
  ASSUME NEW kind, NEW x, NEW a, NEW b, NEW m \in Nat
  PROVE  \E f : RunsTo(kind, x, a, b, m, f)
<1> DEFINE B == {i \in Nat : ~\E f : RunsTo(kind, x, a, b, i, f)}
           G(i, y) == Only({Letter(kind, r, a + i, a, b) : r \in {y}})
<1> SUFFICES ASSUME B # {} PROVE FALSE
  OBVIOUS
<1>1. PICK n \in B : \A y \in B : n <= y
  <2>1. B \subseteq Nat
    OBVIOUS
  <2> HIDE DEF B
  <2> QED
    BY <2>1, LeastNat
<1>2. n \in Nat /\ ~\E f : RunsTo(kind, x, a, b, n, f)
  BY <1>1
<1>3. n # 0
  <2> DEFINE f == [i \in 0..0 |-> x]
  <2>1. f = [i \in 0..0 |-> IF i = 0 THEN x ELSE G(i, f[i - 1])]
    <3> HIDE DEF G
    <3> QED
      OBVIOUS
  <2>2. RunsTo(kind, x, a, b, 0, f)
    <3> HIDE DEF f
    <3> QED
      BY <2>1 DEF RunsTo
  <2> QED
    BY <1>2, <2>2
<1>4. n - 1 \in Nat /\ n - 1 \notin B
  BY <1>1, <1>2, <1>3
<1>5. PICK f : RunsTo(kind, x, a, b, n - 1, f)
  BY <1>4
<1>6. \A i \in 0..n - 1 : f[i] = IF i = 0 THEN x ELSE G(i, f[i - 1])
  <2>1. f = [i \in 0..n - 1 |-> IF i = 0 THEN x ELSE G(i, f[i - 1])]
    BY <1>5 DEF RunsTo
  <2> HIDE DEF G
  <2> QED
    BY <2>1, Zenon
<1> DEFINE z == G(n, f[n - 1])
           g == [i \in 0..n |-> IF i = n THEN z ELSE f[i]]
<1> HIDE DEF G
<1>7. \A i \in 0..n : g[i] = IF i = 0 THEN x ELSE G(i, g[i - 1])
  <2> SUFFICES ASSUME NEW i \in 0..n PROVE g[i] = IF i = 0 THEN x ELSE G(i, g[i - 1])
    OBVIOUS
  <2>1. CASE i = n
    <3>1. g[i] = z
      BY <2>1
    <3>2. g[n - 1] = f[n - 1]
      BY <1>2, <1>3
    <3> QED
      BY <1>3, <2>1, <3>1, <3>2
  <2>2. CASE i # n
    <3>1. i \in 0..n - 1 /\ (i # 0 => i - 1 \in 0..n /\ i - 1 # n)
      BY <1>2, <2>2
    <3>2. g[i] = f[i] /\ (i # 0 => g[i - 1] = f[i - 1])
      BY <2>2, <3>1
    <3> QED
      BY <1>6, <3>1, <3>2
  <2> QED
    BY <2>1, <2>2
<1>8. g = [i \in 0..n |-> IF i = 0 THEN x ELSE G(i, g[i - 1])]
  <2>1. g = [i \in 0..n |-> g[i]]
    OBVIOUS
  <2> HIDE DEF g
  <2> QED
    BY <1>7, <2>1
<1>9. RunsTo(kind, x, a, b, n, g)
  <2> HIDE DEF g
  <2> QED
    BY <1>8 DEF RunsTo, G
<1> QED
  BY <1>2, <1>9

\* the state of the loop over the headers
Lines(p, s, stop, old, done) ==
  [p |-> p, taken |-> s, stop |-> stop, old |-> old, done |-> done]

\* f is the loop over n letters after offset a
IsRun(kind, x, a, b, n, f) ==
  f[0] = x /\ \A i \in 1..n : f[i] = Letter(kind, f[i - 1], a + i, a, b)

\* A loop is what its definition says.
LEMMA RunSteps ==
  ASSUME NEW kind, NEW x, NEW a, NEW b, NEW n \in Nat, NEW f, RunsTo(kind, x, a, b, n, f)
  PROVE  IsRun(kind, x, a, b, n, f)
<1> DEFINE G(i, y) == Only({Letter(kind, r, a + i, a, b) : r \in {y}})
<1>1. f = [i \in 0..n |-> IF i = 0 THEN x ELSE G(i, f[i - 1])]
  BY DEF RunsTo
<1>2. \A i, y : G(i, y) = Letter(kind, y, a + i, a, b)
  <2> TAKE i, y
  <2> DEFINE z == Letter(kind, y, a + i, a, b)
             S == {Letter(kind, r, a + i, a, b) : r \in {y}}
  <2>1. S = {z}
    OBVIOUS
  <2> HIDE DEF z, S
  <2>2. (CHOOSE s \in S : TRUE) = z
    BY <2>1
  <2> QED
    BY <2>2 DEF Only, z, S
<1> HIDE DEF G
<1>3. f[0] = x /\ \A i \in 1..n : f[i] = G(i, f[i - 1])
  <2>1. \A i \in 0..n : f[i] = IF i = 0 THEN x ELSE G(i, f[i - 1])
    BY <1>1, Zenon
  <2>2. 0 \in 0..n /\ \A i \in 1..n : i \in 0..n /\ i # 0
    OBVIOUS
  <2> QED
    BY <2>1, <2>2, Zenon
<1> QED
  BY <1>2, <1>3, Zenon DEF IsRun

\* ReadChunks is the loop over chunks.
LEMMA ReadChunksIs ==
  ASSUME NEW p, NEW a \in Nat, NEW b \in Nat, a <= b
  PROVE  \E f : IsRun("body", Pass(p, a, No), a, b, b - a, f) /\ ReadChunks(p, a, b) = f[b - a]
<1> DEFINE x == Pass(p, a, No)
           G(i, y) == Only({ChunkLetter(r, a + i, a, b) : r \in {y}})
           H(i, y) == Only({Letter("body", r, a + i, a, b) : r \in {y}})
           Q(f) == f = [i \in 0..(b - a) |->
                          IF i = 0 THEN [p |-> p, taken |-> a, done |-> FALSE] ELSE G(i, f[i - 1])]
           c == CHOOSE f : Q(f)
<1>0. b - a \in Nat
  OBVIOUS
<1>1. ReadChunks(p, a, b) = c[b - a]
  BY Zenon DEF ReadChunks
<1>2. \A i, y : G(i, y) = H(i, y)
  <2>1. \A r, i : Letter("body", r, a + i, a, b) = ChunkLetter(r, a + i, a, b)
    BY DEF Letter
  <2>2. \A i, y : {Letter("body", r, a + i, a, b) : r \in {y}}
                    = {ChunkLetter(r, a + i, a, b) : r \in {y}}
    BY <2>1, Zenon
  <2> QED
    BY <2>2, Zenon
<1>3. \A f : RunsTo("body", x, a, b, b - a, f) <=>
               f = [i \in 0..(b - a) |-> IF i = 0 THEN x ELSE H(i, f[i - 1])]
  BY Zenon DEF RunsTo
<1>4. x = [p |-> p, taken |-> a, done |-> FALSE]
  BY DEF Pass, No
<1> HIDE DEF G, H, x
<1>5. \A f : [i \in 0..(b - a) |-> IF i = 0 THEN x ELSE H(i, f[i - 1])]
               = [i \in 0..(b - a) |->
                    IF i = 0 THEN [p |-> p, taken |-> a, done |-> FALSE] ELSE G(i, f[i - 1])]
  BY <1>2, <1>4, Zenon
<1>6. \A f : RunsTo("body", x, a, b, b - a, f) <=> Q(f)
  BY <1>3, <1>5, Zenon
<1>7. \E f : RunsTo("body", x, a, b, b - a, f)
  BY <1>0, RunsToAny
<1> HIDE DEF Q
<1>8. Q(c)
  BY <1>6, <1>7, Zenon
<1> HIDE DEF c
<1>9. IsRun("body", x, a, b, b - a, c)
  BY <1>0, <1>6, <1>8, RunSteps
<1> QED
  BY <1>1, <1>9 DEF x

\* ReadHeaders is the loop over the headers.
LEMMA ReadHeadersIs ==
  ASSUME NEW p, NEW a \in Nat, NEW b \in Nat, a <= b
  PROVE  \E f : IsRun("headers", Lines(p, a, No, "begin", No), a, b, b - a, f)
                /\ ReadHeaders(p, a, b) = f[b - a]
<1> DEFINE x == Lines(p, a, No, "begin", No)
           G(i, y) == Only({PrepareLetter(r, a + i) : r \in {y}})
           H(i, y) == Only({Letter("headers", r, a + i, a, b) : r \in {y}})
           z == [p |-> p, taken |-> a, stop |-> FALSE, old |-> "begin", done |-> FALSE]
           Q(f) == f = [i \in 0..(b - a) |-> IF i = 0 THEN z ELSE G(i, f[i - 1])]
           c == CHOOSE f : Q(f)
<1>0. b - a \in Nat
  OBVIOUS
<1>1. ReadHeaders(p, a, b) = c[b - a]
  BY Zenon DEF ReadHeaders
<1>2. \A i, y : G(i, y) = H(i, y)
  <2>1. \A r, i : Letter("headers", r, a + i, a, b) = PrepareLetter(r, a + i)
    BY DEF Letter
  <2>2. \A i, y : {Letter("headers", r, a + i, a, b) : r \in {y}}
                    = {PrepareLetter(r, a + i) : r \in {y}}
    BY <2>1, Zenon
  <2> QED
    BY <2>2, Zenon
<1>3. \A f : RunsTo("headers", x, a, b, b - a, f) <=>
               f = [i \in 0..(b - a) |-> IF i = 0 THEN x ELSE H(i, f[i - 1])]
  BY Zenon DEF RunsTo
<1>4. x = z
  BY DEF Lines, No
<1> HIDE DEF G, H, x, z
<1>5. \A f : [i \in 0..(b - a) |-> IF i = 0 THEN x ELSE H(i, f[i - 1])]
               = [i \in 0..(b - a) |-> IF i = 0 THEN z ELSE G(i, f[i - 1])]
  BY <1>2, <1>4
<1>6. \A f : RunsTo("headers", x, a, b, b - a, f) <=> Q(f)
  BY <1>3, <1>5, Zenon
<1>7. \E f : RunsTo("headers", x, a, b, b - a, f)
  BY <1>0, RunsToAny
<1> HIDE DEF Q
<1>8. Q(c)
  BY <1>6, <1>7, Zenon
<1> HIDE DEF c
<1>9. IsRun("headers", x, a, b, b - a, c)
  BY <1>0, <1>6, <1>8, RunSteps
<1> QED
  BY <1>1, <1>9 DEF x

(***************************************************************************)
(* A body of chunks.                                                       *)
(***************************************************************************)
\* the parser is in a chunk of request k; reads have ended at the offsets of S
Amid(e, k, p, s, S) ==
  \E o, n, c, d : /\ n \in 0..3 /\ Sized(e, k, o) /\ Frame(e, k, o, n) /\ InChunk(c, s, o, n)
                  /\ Has(e, k, o, d) /\ p = OfChunks(k, c, d) /\ (c.stage = "body" => s \in S)

\* the parser is in a chunk, and the last read has ended there
Within(e, k, p, s) == Amid(e, k, p, s, {s})

\* the last chunk was read
Over(e, k, p, s) ==
  \E d : p = Web("end", k, -1, k, Fresh, d) /\ s = EndOf(e, k) /\ Has(e, k, s, d)

\* the loop over chunks is after i letters in a chunk, or done with the body
InLoop(e, k, a, b, i, r) ==
  \E q, t : /\ t \in Nat /\ a <= t /\ t <= b
            /\ \/ r = Pass(q, t, Yes) /\ a < t /\ Over(e, k, q, t)
               \/ r = Pass(q, t, No) /\ a + i <= t /\ Amid(e, k, q, t, {a, b})

\* The state of a parser in a chunk.
LEMMA AmidIs ==
  ASSUME NEW e, NEW k, NEW p, NEW s, NEW S, NEW o, NEW n \in 0..3, NEW c, NEW d,
         Sized(e, k, o), Frame(e, k, o, n), InChunk(c, s, o, n), Has(e, k, o, d),
         p = OfChunks(k, c, d), c.stage = "body" => s \in S
  PROVE  Amid(e, k, p, s, S)
BY DEF Amid

\* After a chunk the parser is at the next one.
LEMMA NextChunk ==
  ASSUME NEW e \in Environments, NEW k \in 1..Count(e), e.program[k].body = "chunks",
         NEW n \in 1..3, NEW o, Frame(e, k, o, n), NEW d, Has(e, k, o, d), NEW u, u = o + n + 4,
         NEW S
  PROVE  Amid(e, k, OfChunks(k, Fresh, d \o Marks(o + 2, o + 2 + n)), u, S)
<1> DEFINE x == o + n + 5
           w == d \o Marks(o + 2, o + 2 + n)
<1>1. o \in Nat /\ Sized(e, k, x) /\ n \in 0..3 /\ n # 0
  BY DEF Frame
<1>2. PICK m \in 0..3 : Frame(e, k, x, m)
  <2>1. Sized(e, k, x)
    BY <1>1
  <2> HIDE DEF x
  <2> QED
    BY <2>1, Framed
<1>3. InChunk(Fresh, u, x, m)
  BY <1>1 DEF InChunk
<1>4. Has(e, k, x, w)
  <2> DEFINE y == o + 2
             z == o + 2 + n
  <2>1. UpTo(e, k, x) = UpTo(e, k, o) \cup (y + 1..z)
    <3>1. UpTo(e, k, o + n + 5) = UpTo(e, k, o) \cup (o + 3..o + 2 + n)
      BY <1>1, UpToChunk
    <3>2. y + 1 = o + 3
      BY <1>1
    <3> QED
      BY <3>1, <3>2
  <2>2. y \in Nat /\ z \in Nat /\ y <= z
    BY <1>1
  <2>3. \A i \in UpTo(e, k, o) : i <= y
    BY <1>1 DEF UpTo, DataIn
  <2> HIDE DEF x, y, z
  <2>4. Has(e, k, x, d \o Marks(y, z))
    BY <2>1, <2>2, <2>3, MoreKept
  <2> QED
    BY <2>4 DEF y, z
<1>5. Fresh.stage # "body"
  BY FreshIs
<1> HIDE DEF x, w
<1>6. Amid(e, k, OfChunks(k, Fresh, w), u, S)
  BY <1>1, <1>2, <1>3, <1>4, <1>5, AmidIs
<1> QED
  BY <1>6 DEF w

\* One letter of the loop keeps it in a chunk, or ends the body.
LEMMA LoopStep ==
  ASSUME env \in Environments, stream = SentBy(env), NEW k \in 1..Count(env),
         env.program[k].body = "chunks", NEW a \in Nat, NEW b \in Nat, NEW i \in Nat,
         a + i < b, NEW r, InLoop(env, k, a, b, i, r)
  PROVE  InLoop(env, k, a, b, i + 1, ChunkLetter(r, a + (i + 1), a, b))
<1> DEFINE u == a + (i + 1)
           v == ChunkLetter(r, u, a, b)
           j == i + 1
<1>0. u \in Nat /\ u <= b /\ j \in Nat /\ a + j = u
  OBVIOUS
<1>1. PICK q, t : /\ t \in Nat /\ a <= t /\ t <= b
                  /\ \/ r = Pass(q, t, Yes) /\ a < t /\ Over(env, k, q, t)
                     \/ r = Pass(q, t, No) /\ a + i <= t /\ Amid(env, k, q, t, {a, b})
  BY DEF InLoop
<1>2. CASE r = Pass(q, t, Yes) /\ a < t /\ Over(env, k, q, t)
  <2>1. v = r
    BY <1>2, LetterOver
  <2> HIDE DEF v, u
  <2> QED
    BY <1>1, <1>2, <2>1 DEF InLoop, v, u
<1>3. CASE r = Pass(q, t, No) /\ a + i <= t /\ Amid(env, k, q, t, {a, b})
  <2>1. CASE u <= t
    <3>1. v = r
      <4> HIDE DEF u
      <4> QED
        BY <1>0, <1>1, <1>3, <2>1, LetterPassed
    <3>2. a + j <= t
      BY <1>0, <2>1
    <3> HIDE DEF v, u, j
    <3>3. InLoop(env, k, a, b, j, v)
      BY <1>1, <1>3, <3>1, <3>2 DEF InLoop
    <3> QED
      BY <3>3 DEF v, u, j
  <2>2. CASE ~(u <= t)
    <3>1. u = t + 1 /\ t < b
      BY <1>0, <1>1, <1>3, <2>2
    <3>2. PICK o, n, c, d :
            /\ n \in 0..3 /\ Sized(env, k, o) /\ Frame(env, k, o, n) /\ InChunk(c, t, o, n)
            /\ Has(env, k, o, d) /\ q = OfChunks(k, c, d) /\ (c.stage = "body" => t \in {a, b})
      BY <1>3 DEF Amid
    <3>3. c.stage = "body" => t = a
      BY <3>1, <3>2
    <3>4. v = ChunkLetter(Pass(q, t, No), u, a, b)
      BY <1>3
    <3> HIDE DEF v, u, j
    <3>5. Stepped(k, d, o, n, t, u, b, v)
      BY <1>0, <1>1, <3>1, <3>2, <3>3, <3>4, ChunkStep
    <3>6. CASE GoesOn(k, d, o, n, t, b, v)
      <4>1. PICK c2, t2 : /\ t2 \in Nat /\ t < t2 /\ t2 <= b
                          /\ v = Pass(OfChunks(k, c2, d), t2, No) /\ InChunk(c2, t2, o, n)
                          /\ c2.stage = "body" => t2 = b
        BY <3>6 DEF GoesOn
      <4> DEFINE p2 == OfChunks(k, c2, d)
      <4>2. Amid(env, k, p2, t2, {a, b})
        BY <3>2, <4>1, AmidIs
      <4>3. a <= t2 /\ a + j <= t2
        BY <1>0, <1>1, <3>1, <4>1
      <4>4. v = Pass(p2, t2, No)
        BY <4>1
      <4> HIDE DEF p2
      <4>5. InLoop(env, k, a, b, j, v)
        BY <4>1, <4>2, <4>3, <4>4 DEF InLoop
      <4> QED
        BY <4>5 DEF v, u, j
    <3>7. CASE /\ n # 0 /\ u = o + n + 4
               /\ v = Pass(OfChunks(k, Fresh, d \o Marks(o + 2, o + 2 + n)), u, No)
      <4> DEFINE p2 == OfChunks(k, Fresh, d \o Marks(o + 2, o + 2 + n))
      <4>1. n \in 1..3
        BY <3>2, <3>7
      <4>2. Amid(env, k, p2, u, {a, b})
        BY <3>2, <3>7, <4>1, NextChunk
      <4>3. a <= u /\ a + j <= u
        BY <1>0, <1>1, <3>1
      <4>4. v = Pass(p2, u, No)
        BY <3>7
      <4> HIDE DEF p2
      <4>5. InLoop(env, k, a, b, j, v)
        BY <1>0, <4>2, <4>3, <4>4 DEF InLoop
      <4> QED
        BY <4>5 DEF v, u, j
    <3>8. CASE /\ n = 0 /\ u = o + 4
               /\ v = Pass(Web("end", k, -1, k, Fresh, d), u, Yes)
      <4> DEFINE p2 == Web("end", k, -1, k, Fresh, d)
      <4>1. EndOf(env, k) = u
        BY <3>2, <3>8 DEF Frame
      <4>2. UpTo(env, k, u) = UpTo(env, k, o)
        <5>1. UpTo(env, k, EndOf(env, k)) = UpTo(env, k, o)
          BY <3>2, <3>8, UpToChunk
        <5> QED
          BY <4>1, <5>1
      <4>3. Has(env, k, u, d)
        BY <3>2, <4>2 DEF Has
      <4>4. Over(env, k, p2, u)
        BY <4>1, <4>3 DEF Over
      <4>5. a < u
        BY <1>0, <1>1, <3>1
      <4>6. v = Pass(p2, u, Yes)
        BY <3>8
      <4> HIDE DEF p2
      <4>7. InLoop(env, k, a, b, j, v)
        BY <1>0, <4>4, <4>5, <4>6 DEF InLoop
      <4> QED
        BY <4>7 DEF v, u, j
    <3> QED
      BY <3>5, <3>6, <3>7, <3>8 DEF Stepped
  <2> QED
    BY <2>1, <2>2
<1> QED
  BY <1>1, <1>2, <1>3

\* What is read of a body of chunks is all that came of it, or the body is complete.
ChunksRead(e, k, a, b, r) ==
  /\ r.taken \in Nat /\ a <= r.taken /\ r.taken <= b
  /\ \/ a < r.taken /\ Over(e, k, r.p, r.taken)
     \/ r.taken = b /\ Within(e, k, r.p, b)

\* So does the loop.
LEMMA ChunkLoop ==
  ASSUME env \in Environments, stream = SentBy(env), NEW k \in 1..Count(env),
         env.program[k].body = "chunks", NEW a \in Nat, NEW b \in Nat, a <= b,
         NEW p, Within(env, k, p, a)
  PROVE  ChunksRead(env, k, a, b, ReadChunks(p, a, b))
<1>1. PICK f : IsRun("body", Pass(p, a, No), a, b, b - a, f) /\ ReadChunks(p, a, b) = f[b - a]
  BY ReadChunksIs
<1>2. /\ f[0] = Pass(p, a, No)
      /\ \A i \in 1..b - a : f[i] = ChunkLetter(f[i - 1], a + i, a, b)
  BY <1>1 DEF IsRun, Letter
<1>3. InLoop(env, k, a, b, 0, f[0])
  <2>1. Amid(env, k, p, a, {a, b})
    BY DEF Within, Amid
  <2>2. a + 0 <= a
    OBVIOUS
  <2> QED
    BY <1>2, <2>1, <2>2 DEF InLoop
<1> DEFINE B == {i \in Nat : i <= b - a /\ ~InLoop(env, k, a, b, i, f[i])}
<1>4. B = {}
  <2> SUFFICES ASSUME B # {} PROVE FALSE
    OBVIOUS
  <2>1. PICK n \in B : \A y \in B : n <= y
    <3>1. B \subseteq Nat
      OBVIOUS
    <3> HIDE DEF B
    <3> QED
      BY <3>1, LeastNat
  <2>2. n \in Nat /\ n <= b - a /\ ~InLoop(env, k, a, b, n, f[n])
    BY <2>1
  <2>3. n # 0
    BY <1>3, <2>2
  <2> DEFINE i == n - 1
  <2>4. i \in Nat /\ i \notin B /\ i <= b - a /\ a + i < b /\ i + 1 = n /\ n \in 1..b - a
    BY <2>1, <2>2, <2>3
  <2>5. InLoop(env, k, a, b, i, f[i])
    BY <2>4
  <2>6. f[n] = ChunkLetter(f[i], a + (i + 1), a, b)
    BY <1>2, <2>4
  <2> HIDE DEF i
  <2>7. InLoop(env, k, a, b, i + 1, ChunkLetter(f[i], a + (i + 1), a, b))
    BY <2>4, <2>5, LoopStep
  <2> QED
    BY <2>2, <2>4, <2>6, <2>7
<1>5. InLoop(env, k, a, b, b - a, f[b - a])
  <2>1. b - a \in Nat /\ b - a <= b - a
    OBVIOUS
  <2> QED
    BY <1>4, <2>1
<1> DEFINE r == ReadChunks(p, a, b)
           n == b - a
<1>6. InLoop(env, k, a, b, n, r) /\ a + n = b
  BY <1>1, <1>5
<1> HIDE DEF r, n
<1>7. PICK q, t : /\ t \in Nat /\ a <= t /\ t <= b
                  /\ \/ r = Pass(q, t, Yes) /\ a < t /\ Over(env, k, q, t)
                     \/ r = Pass(q, t, No) /\ a + n <= t /\ Amid(env, k, q, t, {a, b})
  BY <1>6 DEF InLoop
<1>8. r.p = q /\ r.taken = t
  BY <1>7, PassIs
<1>9. CASE r = Pass(q, t, No) /\ a + n <= t /\ Amid(env, k, q, t, {a, b})
  <2>1. t = b
    BY <1>6, <1>7, <1>9
  <2>2. Within(env, k, q, t)
    BY <1>9 DEF Amid, Within
  <2> QED
    BY <1>7, <1>8, <2>1, <2>2 DEF ChunksRead, r
<1> QED
  BY <1>7, <1>8, <1>9 DEF ChunksRead, r

(***************************************************************************)
(* A body of a length.                                                     *)
(***************************************************************************)
\* What is taken of a read is at most what the body still wants.
LEMMA LessIs ==
  ASSUME NEW x \in Int, NEW y \in Int, x <= y
  PROVE  Min({x, y}) = x /\ Min({y, x}) = x
<1>1. \A m \in {x, y} : (\A i \in {x, y} : m <= i) => m = x
  OBVIOUS
<1>2. x \in {x, y} /\ \A i \in {x, y} : x <= i
  OBVIOUS
<1>3. Min({x, y}) = x
  BY <1>1, <1>2 DEF Min
<1>4. {x, y} = {y, x}
  OBVIOUS
<1> QED
  BY <1>3, <1>4

\* what is set of the size of a chunk
Resized(p, n) == [p EXCEPT !.chunk.size = n]

\* The size is set, nothing else.
LEMMA ResizedIs ==
  ASSUME NEW a, NEW k, NEW l, NEW h, NEW t, NEW n, NEW m, NEW d, NEW x
  PROVE  Resized(Web(a, k, l, h, ChunkState(t, n, m), d), x) = Web(a, k, l, h, ChunkState(t, x, m), d)
<1> DEFINE c == ChunkState(t, n, m)
           p == Web(a, k, l, h, c, d)
<1>1. [c EXCEPT !.size = x] = ChunkState(t, x, m)
  BY DEF ChunkState
<1> HIDE DEF c
<1>2. p.chunk = c /\ \A y : [p EXCEPT !.chunk = y] = Web(a, k, l, h, y, d)
  BY DEF Web
<1> HIDE DEF p
<1>3. [p EXCEPT !.chunk.size = x] = [p EXCEPT !.chunk = [p.chunk EXCEPT !.size = x]]
  OBVIOUS
<1>4. [p EXCEPT !.chunk.size = x] = Web(a, k, l, h, ChunkState(t, x, m), d)
  BY <1>1, <1>2, <1>3, Zenon
<1> QED
  BY <1>4 DEF Resized, p, c

\* all of the length was read
Closed(p) == [p EXCEPT !.state = "end", !.chunk = Fresh]

\* The body of a length ends.
LEMMA ClosedIs ==
  ASSUME NEW a, NEW k, NEW l, NEW h, NEW c, NEW d
  PROVE  /\ Closed(Web(a, k, l, h, c, d)) = Web("end", k, l, h, Fresh, d)
         /\ WithBody(Web(a, k, l, h, c, d), Fresh) = Web(a, k, l, h, c, Fresh)
<1> DEFINE p == Web(a, k, l, h, c, d)
           q == [p EXCEPT !.state = "end"]
<1>1. q = Web("end", k, l, h, c, d)
  BY DEF Web
<1>2. WithBody(p, Fresh) = Web(a, k, l, h, c, Fresh)
  BY DEF Web, WithBody
<1> HIDE DEF p
<1>3. Closed(p) = [q EXCEPT !.chunk = Fresh]
  BY DEF Closed
<1> HIDE DEF q
<1>4. [q EXCEPT !.chunk = Fresh] = Web("end", k, l, h, Fresh, d)
  BY <1>1 DEF Web
<1> QED
  BY <1>2, <1>3, <1>4 DEF p

\* The body is set, nothing else.
LEMMA BodySet ==
  ASSUME NEW a, NEW k, NEW l, NEW h, NEW c, NEW d, NEW x
  PROVE  WithBody(Web(a, k, l, h, c, d), x) = Web(a, k, l, h, c, x)
BY DEF Web, WithBody

\* what is read of a body of length l, with y bytes of it read in all
LengthTo(r, k, l, y, w, t) ==
  /\ r.taken = t
  /\ y = l => r.p = Web("end", k, l, k, Fresh, w)
  /\ y # l => r.p = Web("body", k, l, k, ChunkState("size", y, <<>>), w)

\* What ReadLength makes of a read.
LEMMA LengthSet ==
  ASSUME NEW k, NEW l \in Nat, NEW z \in Nat, NEW d, NEW a \in Nat, NEW b \in Nat, NEW t \in Nat,
         NEW w, NEW p, p = Web("body", k, l, k, ChunkState("size", z, <<>>), d),
         IsConcat(w, d, Marks(a, t)), l # 0, Min({b - a, l - Kept(p)}) = t - a
  PROVE  LengthTo(ReadLength(p, a, b), k, l, z + (t - a), w, t)
<1> DEFINE n == t - a
           y == z + n
           q == WithBody(Resized(p, y), w)
<1>1. p.length = l /\ p.chunk.size = z /\ p.body = d
  BY WebIs DEF ChunkState
<1>2. q = Web("body", k, l, k, ChunkState("size", y, <<>>), w)
  <2>1. Resized(p, y) = Web("body", k, l, k, ChunkState("size", y, <<>>), d)
    <3> HIDE DEF y
    <3> QED
      BY ResizedIs
  <2> HIDE DEF y
  <2> QED
    BY <2>1, BodySet
<1>3. q.chunk.size = y
  <2> HIDE DEF y, q
  <2> QED
    BY <1>2, WebIs DEF ChunkState
<1>4. a + n = t /\ Min({b - a, l - Kept(p)}) = n /\ w = d \o Marks(a, t)
  BY DEF IsConcat
<1>5. Binary([p EXCEPT !.chunk.size = z + n], Marks(a, t)) = q
  <2>1. [p EXCEPT !.chunk.size = z + n].body = d
    BY <1>1, <1>2 DEF Web
  <2> HIDE DEF n
  <2> QED
    BY <1>4, <2>1 DEF Binary, WithBody, Resized
<1> HIDE DEF n
<1>6. ReadLength(p, a, b)
        = [p |-> IF q.chunk.size = l THEN Closed(q) ELSE q, taken |-> t]
  <2> HIDE DEF q
  <2>1. [p EXCEPT !.chunk.size = IF p.length = 0 THEN @ ELSE @ + n]
          = [p EXCEPT !.chunk.size = z + n]
    BY <1>1
  <2>2. (IF p.length = 0 THEN b - a ELSE Min({b - a, p.length - Kept(p)})) = n
    BY <1>1, <1>4
  <2> QED
    BY <1>1, <1>4, <1>5, <2>1, <2>2, Zenon DEF ReadLength, Closed
<1> HIDE DEF q
<1>7. Closed(q) = Web("end", k, l, k, Fresh, w)
  <2> HIDE DEF y
  <2> QED
    BY <1>2, ClosedIs
<1> QED
  BY <1>2, <1>3, <1>6, <1>7 DEF LengthTo, n

(***************************************************************************)
(* A read of a body of a length.                                           *)
(***************************************************************************)
\* the parser is in a body of a length, of which the marks up to offset s were read
InLength(e, k, p, s) ==
  \E d : /\ s \in Nat /\ Begins(e, k) + 4 <= s /\ s < EndOf(e, k)
         /\ Len(d) = s - (Begins(e, k) + 4) /\ Has(e, k, s, d)
         /\ p = Web("body", k, Announced(e, k), k, ChunkState("size", s - (Begins(e, k) + 4), <<>>), d)

\* the body is complete
Done(e, k, p, s) ==
  \E l, d : p = Web("end", k, l, k, Fresh, d) /\ s = EndOf(e, k) /\ Has(e, k, s, d)

\* What is read of a body of a length is all that came of it, or the body is complete.
LengthRead(e, k, a, b, r) ==
  /\ r.taken \in Nat /\ a <= r.taken /\ r.taken <= b
  /\ \/ a < r.taken /\ Done(e, k, r.p, r.taken)
     \/ r.taken = b /\ InLength(e, k, r.p, b)

\* One read of a body of a length.
LEMMA LengthPiece ==
  ASSUME env \in Environments, NEW k \in 1..Count(env), env.program[k].body = "length",
         NEW a \in Nat, NEW b \in Nat, a <= b, env.keeps \/ b <= EndOf(env, k),
         NEW p, InLength(env, k, p, a)
  PROVE  LengthRead(env, k, a, b, ReadLength(p, a, b))
<1> DEFINE g == Begins(env, k) + 4
           z == EndOf(env, k)
           l == Announced(env, k)
           t == IF b < z THEN b ELSE z
           y == a - g
<1>1. PICK d : /\ g <= a /\ a < z /\ Len(d) = y /\ Has(env, k, a, d)
               /\ p = Web("body", k, l, k, ChunkState("size", y, <<>>), d)
  BY DEF InLength
<1>2. g \in Nat /\ z \in Nat /\ l \in Nat /\ z = g + l
  BY SentIs, LengthEnds
<1> DEFINE w == d \o Marks(a, t)
<1>3. y \in Nat /\ l # 0 /\ t \in Nat /\ a <= t /\ t <= b /\ t <= z /\ t - a \in Nat /\ y + (t - a) = t - g
  <2>1. g <= a /\ a < z
    BY <1>1
  <2>2. t \in {b, z} /\ t <= b /\ t <= z
    <3> HIDE DEF g, z
    <3> QED
      BY <1>2
  <2>3. y = a - g
    OBVIOUS
  <2> HIDE DEF t, y, g, z, l
  <2> QED
    BY <1>2, <2>1, <2>2, <2>3
<1>4. p.body = d
  BY <1>1, WebIs
<1>5. Has(env, k, t, w)
  <2>1. a \in g..z /\ t \in a..z
    BY <1>1, <1>2, <1>3
  <2>2. UpTo(env, k, t) = UpTo(env, k, a) \cup (a + 1..t)
    <3> HIDE DEF t
    <3> QED
      BY <2>1, UpToLength
  <2>3. \A i \in UpTo(env, k, a) : i <= a
    BY DEF UpTo
  <2>4. Has(env, k, a, d) /\ a \in Nat /\ t \in Nat /\ a <= t
    BY <1>1, <1>3
  <2> HIDE DEF t, y
  <2> QED
    BY <2>2, <2>3, <2>4, MoreKept DEF w
<1>6. Len(w) = t - g
  <2> DEFINE m == Marks(a, t)
             n == t - a
  <2>1. d \in Seq(Int) /\ Len(d) = y
    BY <1>1 DEF Has
  <2>2. m \in Seq(Int) /\ Len(m) = n
    <3> HIDE DEF t
    <3> QED
      BY <1>3, MarksAre
  <2>3. n \in Nat /\ y \in Nat /\ y + n = t - g
    BY <1>3
  <2> HIDE DEF w, m, n, t, y
  <2>4. IsJoined(w, d, y, m, n, Int)
    BY <2>1, <2>2, <2>3, Joining DEF w, m
  <2> QED
    BY <2>3, <2>4 DEF IsJoined
<1>7. Min({b - a, l - Kept(p)}) = t - a
  <2> DEFINE x == l - Kept(p)
  <2>1. CASE env.keeps
    <3>1. x = z - a
      BY <1>1, <1>2, <1>4, <2>1 DEF Kept
    <3>2. CASE b < z
      <4>1. b - a \in Int /\ x \in Int /\ b - a <= x /\ t = b
        BY <1>2, <3>1, <3>2
      <4> HIDE DEF x, t
      <4> QED
        BY <4>1, LessIs DEF x
    <3>3. CASE ~(b < z)
      <4>1. b - a \in Int /\ x \in Int /\ x <= b - a /\ t - a = x
        BY <1>2, <3>1, <3>3
      <4> HIDE DEF x, t
      <4> QED
        BY <4>1, LessIs DEF x
    <3> QED
      BY <3>2, <3>3
  <2>2. CASE ~env.keeps
    <3>1. x = l /\ b <= z
      BY <1>2, <2>2 DEF Kept
    <3>2. b - a \in Int /\ x \in Int /\ b - a <= x /\ t = b
      BY <1>1, <1>2, <1>3, <3>1
    <3> HIDE DEF x, t
    <3> QED
      BY <3>2, LessIs DEF x
  <2> QED
    BY <2>1, <2>2
<1> DEFINE r == ReadLength(p, a, b)
<1>8. IsConcat(w, d, Marks(a, t))
  BY DEF IsConcat
<1> HIDE DEF w, t, l, y, g, z
<1>9. LengthTo(r, k, l, y + (t - a), w, t)
  BY <1>1, <1>2, <1>3, <1>7, <1>8, LengthSet
<1> HIDE DEF r
<1>10. /\ r.taken = t
       /\ t - g = l => r.p = Web("end", k, l, k, Fresh, w)
       /\ t - g # l => r.p = Web("body", k, l, k, ChunkState("size", t - g, <<>>), w)
  BY <1>3, <1>9 DEF LengthTo
<1>11. CASE t = z
  <2>1. t - g = l /\ a < t
    BY <1>1, <1>2, <1>11
  <2>2. Done(env, k, r.p, t)
    BY <1>5, <1>10, <1>11, <2>1 DEF Done, z
  <2> QED
    BY <1>3, <1>10, <2>1, <2>2 DEF LengthRead, r
<1>12. CASE t # z
  <2>1. t - g # l /\ t = b /\ t < z /\ g <= t
    BY <1>1, <1>2, <1>3, <1>12 DEF t
  <2>2. InLength(env, k, r.p, t)
    BY <1>3, <1>5, <1>6, <1>10, <2>1 DEF InLength, g, z, l
  <2> QED
    BY <1>3, <1>10, <2>1, <2>2 DEF LengthRead, r
<1> QED
  BY <1>11, <1>12

\* the parser takes what follows for the body
Swallows(e, k, p, s) ==
  /\ s \in Nat /\ EndOf(e, k) <= s
  /\ e.program[k].body = "length" /\ e.program[k].sizes = <<>> /\ e.program[k].closes
  /\ \E d : p = Web("body", k, 0, k, Fresh, d)

\* It keeps taking it.
LEMMA Swallowed ==
  ASSUME NEW e, NEW k, EndOf(e, k) \in Nat, NEW a \in Nat, NEW b \in Nat, a <= b, NEW p,
         Swallows(e, k, p, a)
  PROVE  ReadLength(p, a, b).taken = b /\ Swallows(e, k, ReadLength(p, a, b).p, b)
<1>1. PICK d : p = Web("body", k, 0, k, Fresh, d)
  BY DEF Swallows
<1> DEFINE w == d \o Marks(a, b)
           n == b - a
           c == Fresh
<1>2. p.length = 0 /\ p.body = d
  BY <1>1, WebIs
<1>3. a + n = b
  OBVIOUS
<1>4. [p EXCEPT !.chunk.size = IF p.length = 0 THEN @ ELSE @ + n] = p
  <2>1. Fresh = ChunkState("size", 0, <<>>)
    BY FreshIs
  <2>2. p.chunk.size = 0
    BY <1>1, <2>1, WebIs DEF ChunkState
  <2>3. Resized(p, 0) = p
    BY <1>1, <2>1, ResizedIs
  <2>4. [p EXCEPT !.chunk.size = IF p.length = 0 THEN @ ELSE @ + n] = [p EXCEPT !.chunk.size = 0]
    BY <1>2, <2>2
  <2> QED
    BY <2>3, <2>4 DEF Resized
<1>5. Binary(p, Marks(a, a + n)) = Web("body", k, 0, k, Fresh, w)
  <2>1. Binary(p, Marks(a, a + n)) = WithBody(p, w)
    BY <1>2, <1>3 DEF Binary, WithBody
  <2>2. WithBody(p, w) = Web("body", k, 0, k, Fresh, w)
    <3> HIDE DEF w
    <3> QED
      BY <1>1, BodySet
  <2> QED
    BY <2>1, <2>2
<1> HIDE DEF n, w
<1>6. ReadLength(p, a, b) = [p |-> Binary(p, Marks(a, a + n)), taken |-> a + n]
  <2>1. (IF p.length = 0 THEN b - a ELSE Min({b - a, p.length - Kept(p)})) = n
    BY <1>2 DEF n
  <2>2. ~(p.length # 0)
    BY <1>2
  <2> QED
    BY <1>4, <2>1, <2>2, Zenon DEF ReadLength
<1>7. ReadLength(p, a, b).taken = b /\ ReadLength(p, a, b).p = Web("body", k, 0, k, Fresh, w)
  BY <1>3, <1>5, <1>6
<1> QED
  <2>1. EndOf(e, k) <= b
    <3> DEFINE z == EndOf(e, k)
    <3>1. z <= a
      BY DEF Swallows
    <3> QED
      BY <3>1
  <2> QED
    BY <1>7, <2>1 DEF Swallows

(***************************************************************************)
(* The lines of a request.                                                 *)
(***************************************************************************)
\* the query of request k was read
Named(k) == Web("headers", k, -1, 0, Fresh, <<>>)

\* and its header
Titled(k) == Web("headers", k, -1, k, Fresh, <<>>)

\* the parser before a request
BeginIs == Begin = Web("query", 0, -1, 0, Fresh, <<>>)

\* The parser begins with the query.
LEMMA Beginning == BeginIs
BY DEF BeginIs, Begin, Web, No

\* what is set of the loop over the lines
Stopping(r, f) == [r EXCEPT !.stop = f]
\* and of its memory of the letter before
Aged(r, w) == [r EXCEPT !.old = w]

\* The fields of the loop over the lines.
LEMMA LinesAre ==
  ASSUME NEW p, NEW s, NEW f, NEW w, NEW g
  PROVE  /\ Lines(p, s, f, w, g).p = p /\ Lines(p, s, f, w, g).taken = s
         /\ Lines(p, s, f, w, g).stop = f /\ Lines(p, s, f, w, g).old = w
         /\ Lines(p, s, f, w, g).done = g
BY DEF Lines

\* Setting one leaves the others.
LEMMA LinesSet ==
  ASSUME NEW p, NEW s, NEW f, NEW w, NEW g, NEW x
  PROVE  /\ Became(Lines(p, s, f, w, g), x) = Lines(x, s, f, w, g)
         /\ Moved(Lines(p, s, f, w, g), x) = Lines(p, x, f, w, g)
         /\ Stopping(Lines(p, s, f, w, g), x) = Lines(p, s, x, w, g)
         /\ Aged(Lines(p, s, f, w, g), x) = Lines(p, s, f, x, g)
         /\ Finished(Lines(p, s, f, w, g), x) = Lines(p, s, f, w, x)
BY DEF Lines, Became, Moved, Stopping, Aged, Finished

\* A line of the query or of a header is parsed.
LEMMA LineLetter ==
  ASSUME NEW p, NEW s, NEW o, NEW w \in {"begin", "line"}, EndsLine(o),
         NEW q, q = LineRead(p, o)
  PROVE  PrepareLetter(Lines(p, s, No, w, No), o) = Lines(q, o, No, "line", No)
<1> DEFINE r == Lines(p, s, No, w, No)
<1>1. r.p = p /\ r.old = w /\ ~r.done /\ ~r.stop
  <2>1. r.p = p /\ r.old = w /\ r.done = No /\ r.stop = No
    BY LinesAre
  <2> HIDE DEF r
  <2> QED
    BY <2>1 DEF No
<1>2. Aged(Moved(Became(r, q), o), "line") = Lines(q, o, No, "line", No)
  BY LinesSet
<1> HIDE DEF r
<1>3. PrepareLetter(r, o) = [r EXCEPT !.p = LineRead(@, o), !.taken = o, !.old = "line"]
  BY <1>1, Zenon DEF PrepareLetter
<1>4. [r EXCEPT !.p = LineRead(@, o), !.taken = o, !.old = "line"]
        = Aged(Moved(Became(r, q), o), "line")
  BY <1>1 DEF Aged, Moved, Became
<1> QED
  BY <1>2, <1>3, <1>4 DEF r

\* A carriage return begins the blank line.
LEMMA BlankLetter ==
  ASSUME NEW p, NEW s, NEW o, Mark(o) = "cr"
  PROVE  PrepareLetter(Lines(p, s, No, "line", No), o) = Lines(p, s, Yes, "blank", No)
<1> DEFINE r == Lines(p, s, No, "line", No)
<1>1. r.old = "line" /\ ~r.done /\ ~r.stop
  <2>1. r.old = "line" /\ r.done = No /\ r.stop = No
    BY LinesAre
  <2> HIDE DEF r
  <2> QED
    BY <2>1 DEF No
<1>2. Aged(Stopping(r, Yes), "blank") = Lines(p, s, Yes, "blank", No)
  BY LinesSet
<1>3. ~EndsLine(o)
  BY DEF EndsLine
<1> HIDE DEF r
<1>4. PrepareLetter(r, o) = [r EXCEPT !.stop = TRUE, !.old = "blank"]
  BY <1>1, <1>3 DEF PrepareLetter
<1>5. [r EXCEPT !.stop = TRUE, !.old = "blank"] = Aged(Stopping(r, Yes), "blank")
  BY DEF Aged, Stopping, Yes
<1> QED
  BY <1>2, <1>4, <1>5 DEF r

\* The line feed after it ends the headers.
LEMMA EndLetter ==
  ASSUME NEW p, NEW s, NEW o, NEW w, EndsLine(o), NEW q, q = HeadersEnd(p)
  PROVE  PrepareLetter(Lines(p, s, Yes, w, No), o) = Lines(q, o, Yes, w, Yes)
<1> DEFINE r == Lines(p, s, Yes, w, No)
<1>1. r.p = p /\ ~r.done /\ r.stop
  <2>1. r.p = p /\ r.done = No /\ r.stop = Yes
    BY LinesAre
  <2> HIDE DEF r
  <2> QED
    BY <2>1 DEF No, Yes
<1>2. Finished(Moved(Became(r, q), o), Yes) = Lines(q, o, Yes, w, Yes)
  BY LinesSet
<1> HIDE DEF r
<1>3. PrepareLetter(r, o) = [r EXCEPT !.p = HeadersEnd(@), !.taken = o, !.done = TRUE]
  BY <1>1, Zenon DEF PrepareLetter
<1>4. [r EXCEPT !.p = HeadersEnd(@), !.taken = o, !.done = TRUE]
        = Finished(Moved(Became(r, q), o), Yes)
  BY <1>1 DEF Finished, Moved, Became, Yes
<1> QED
  BY <1>2, <1>3, <1>4 DEF r

\* Nothing is done after the end.
LEMMA DoneLetter ==
  ASSUME NEW p, NEW s, NEW o, NEW w, NEW f
  PROVE  PrepareLetter(Lines(p, s, f, w, Yes), o) = Lines(p, s, f, w, Yes)
<1> DEFINE r == Lines(p, s, f, w, Yes)
<1>1. r.done
  <2>1. r.done = Yes
    BY LinesAre
  <2> HIDE DEF r
  <2> QED
    BY <2>1 DEF Yes
<1> HIDE DEF r
<1> QED
  BY <1>1 DEF PrepareLetter, r

\* What is made of the two lines.
LEMMA LinesRead ==
  ASSUME NEW k, NEW o, stream[o].of = k
  PROVE  /\ Mark(o) = "query" => LineRead(Begin, o) = Named(k)
         /\ Mark(o) = "header" => LineRead(Named(k), o) = Titled(k)
<1>1. ASSUME Mark(o) = "query"
      PROVE  LineRead(Begin, o) = Named(k)
  <2>0. Begin.state = "query"
    BY DEF Begin
  <2>1. LineRead(Begin, o) = [Begin EXCEPT !.state = "headers", !.of = k]
    BY <1>1, <2>0 DEF LineRead
  <2> DEFINE p == [Begin EXCEPT !.state = "headers"]
  <2>3. p = Web("headers", 0, -1, 0, Fresh, <<>>)
    <3>1. [Web("query", 0, -1, 0, Fresh, <<>>) EXCEPT !.state = "headers"]
            = Web("headers", 0, -1, 0, Fresh, <<>>)
      BY DEF Web
    <3> QED
      BY <3>1, Beginning DEF BeginIs
  <2>4. [Web("headers", 0, -1, 0, Fresh, <<>>) EXCEPT !.of = k] = Named(k)
    BY DEF Named, Web
  <2>5. [Begin EXCEPT !.state = "headers", !.of = k] = [p EXCEPT !.of = k]
    <3> DEFINE x == Begin
    <3> HIDE DEF x
    <3>1. [x EXCEPT !.state = "headers", !.of = k] = [[x EXCEPT !.state = "headers"] EXCEPT !.of = k]
      OBVIOUS
    <3> QED
      BY <3>1 DEF x
  <2> HIDE DEF p
  <2>2. [Begin EXCEPT !.state = "headers", !.of = k] = Named(k)
    BY <2>3, <2>4, <2>5
  <2> QED
    BY <2>1, <2>2
<1>2. ASSUME Mark(o) = "header"
      PROVE  LineRead(Named(k), o) = Titled(k)
  <2>1. Named(k).state = "headers"
    BY WebIs DEF Named
  <2>2. LineRead(Named(k), o) = [Named(k) EXCEPT !.header = k]
    BY <1>2, <2>1 DEF LineRead
  <2>3. [Named(k) EXCEPT !.header = k] = Titled(k)
    BY DEF Named, Titled, Web
  <2> QED
    BY <2>2, <2>3
<1> QED
  BY <1>1, <1>2

(***************************************************************************)
(* The loop over the lines, and what follows them.                         *)
(***************************************************************************)
\* the loop over the lines of a request that begins after offset g, at offset o
OnLine(k, g, o, r) ==
  /\ o = g => r = Lines(Begin, o, No, "begin", No)
  /\ o = g + 1 => \E w \in {"begin", "line"} : r = Lines(Named(k), o, No, w, No)
  /\ o = g + 2 => r = Lines(Titled(k), o, No, "line", No)
  /\ o = g + 3 => r = Lines(Titled(k), g + 2, Yes, "blank", No)
  /\ o \notin g..g + 3 => r = Lines(HeadersEnd(Titled(k)), g + 4, Yes, "blank", Yes)

\* One letter of the lines of a request.
LEMMA NextLine ==
  ASSUME env \in Environments, stream = SentBy(env), NEW k \in 1..Count(env),
         NEW g, g = Begins(env, k), NEW o \in Nat, g <= o, NEW r, OnLine(k, g, o, r)
  PROVE  OnLine(k, g, o + 1, PrepareLetter(r, o + 1))
<1> DEFINE u == o + 1
           v == PrepareLetter(r, u)
<1>1. /\ g \in Nat
      /\ Mark(g + 1) = "query" /\ stream[g + 1].of = k /\ Mark(g + 2) = "header"
      /\ stream[g + 2].of = k /\ Mark(g + 3) = "cr" /\ Mark(g + 4) = "lf"
  <2>1. /\ SentBy(env)[g + 1] = Plain(k, "query") /\ SentBy(env)[g + 2] = Plain(k, "header")
        /\ SentBy(env)[g + 3] = Plain(k, "cr") /\ SentBy(env)[g + 4] = Plain(k, "lf")
    BY HeadMarks
  <2>2. \A c : Plain(k, c).mark = c /\ Plain(k, c).of = k
    BY PlainIs
  <2>3. g \in Nat
    BY SentIs
  <2> QED
    BY <2>1, <2>2, <2>3 DEF Mark
<1>2. EndsLine(g + 1) /\ EndsLine(g + 2) /\ EndsLine(g + 4)
  BY <1>1 DEF EndsLine
<1>3. LineRead(Begin, g + 1) = Named(k) /\ LineRead(Named(k), g + 2) = Titled(k)
  BY <1>1, LinesRead
<1> SUFFICES OnLine(k, g, u, v)
  OBVIOUS
<1>4. CASE o = g
  <2>1. r = Lines(Begin, o, No, "begin", No)
    BY <1>4 DEF OnLine
  <2>2. u = g + 1
    BY <1>4
  <2>3. PrepareLetter(Lines(Begin, o, No, "begin", No), u) = Lines(Named(k), u, No, "line", No)
    BY <1>2, <1>3, <2>2, LineLetter
  <2> HIDE DEF u
  <2> QED
    BY <1>1, <2>1, <2>2, <2>3 DEF OnLine
<1>5. CASE o = g + 1
  <2>1. PICK w \in {"begin", "line"} : r = Lines(Named(k), o, No, w, No)
    BY <1>5 DEF OnLine
  <2>2. u = g + 2
    BY <1>1, <1>5
  <2>3. PrepareLetter(Lines(Named(k), o, No, w, No), u) = Lines(Titled(k), u, No, "line", No)
    BY <1>2, <1>3, <2>2, LineLetter
  <2> HIDE DEF u
  <2> QED
    BY <1>1, <2>1, <2>2, <2>3 DEF OnLine
<1>6. CASE o = g + 2
  <2>1. r = Lines(Titled(k), o, No, "line", No)
    BY <1>6 DEF OnLine
  <2>2. u = g + 3
    BY <1>1, <1>6
  <2>3. PrepareLetter(Lines(Titled(k), o, No, "line", No), u) = Lines(Titled(k), o, Yes, "blank", No)
    BY <1>1, <2>2, BlankLetter
  <2> HIDE DEF u
  <2> QED
    BY <1>1, <1>6, <2>1, <2>2, <2>3 DEF OnLine
<1>7. CASE o = g + 3
  <2> DEFINE q == HeadersEnd(Titled(k))
  <2>1. r = Lines(Titled(k), g + 2, Yes, "blank", No)
    BY <1>1, <1>7 DEF OnLine
  <2>2. u = g + 4
    BY <1>1, <1>7
  <2>3. PrepareLetter(Lines(Titled(k), g + 2, Yes, "blank", No), u) = Lines(q, u, Yes, "blank", Yes)
    BY <1>2, <2>2, EndLetter
  <2> HIDE DEF u
  <2> QED
    BY <1>1, <2>1, <2>2, <2>3 DEF OnLine
<1>8. CASE o \notin g..g + 3
  <2> DEFINE q == HeadersEnd(Titled(k))
  <2>1. r = Lines(q, g + 4, Yes, "blank", Yes)
    BY <1>8 DEF OnLine
  <2>2. u \notin g..g + 3 /\ u # g /\ u # g + 1 /\ u # g + 2 /\ u # g + 3
    BY <1>1, <1>8
  <2> HIDE DEF u
  <2>3. PrepareLetter(Lines(q, g + 4, Yes, "blank", Yes), u) = Lines(q, g + 4, Yes, "blank", Yes)
    BY DoneLetter
  <2> QED
    BY <2>1, <2>2, <2>3 DEF OnLine
<1> QED
  BY <1>1, <1>4, <1>5, <1>6, <1>7, <1>8

\* where the parser is in the lines of request k
Starts(k, g, p, s) == (s = g /\ p = Begin) \/ (s = g + 1 /\ p = Named(k))

\* The loop over them.
LEMMA HeadersLoop ==
  ASSUME env \in Environments, stream = SentBy(env), NEW k \in 1..Count(env),
         NEW g, g = Begins(env, k), NEW a \in Nat, NEW b \in Nat, a <= b,
         NEW p, Starts(k, g, p, a)
  PROVE  OnLine(k, g, b, ReadHeaders(p, a, b))
<1>1. PICK f : IsRun("headers", Lines(p, a, No, "begin", No), a, b, b - a, f)
               /\ ReadHeaders(p, a, b) = f[b - a]
  BY ReadHeadersIs
<1>2. /\ f[0] = Lines(p, a, No, "begin", No)
      /\ \A i \in 1..b - a : f[i] = PrepareLetter(f[i - 1], a + i)
  BY <1>1 DEF IsRun, Letter
<1>3. OnLine(k, g, a, f[0]) /\ g <= a /\ g \in Nat
  <2>1. g \in Nat
    BY SentIs
  <2> QED
    BY <1>2, <2>1 DEF OnLine, Starts
<1> DEFINE B == {i \in Nat : i <= b - a /\ ~OnLine(k, g, a + i, f[i])}
<1>4. B = {}
  <2> SUFFICES ASSUME B # {} PROVE FALSE
    OBVIOUS
  <2>1. PICK n \in B : \A y \in B : n <= y
    <3>1. B \subseteq Nat
      OBVIOUS
    <3> HIDE DEF B
    <3> QED
      BY <3>1, LeastNat
  <2>2. n \in Nat /\ n <= b - a /\ ~OnLine(k, g, a + n, f[n])
    BY <2>1
  <2>3. n # 0
    <3>1. a + 0 = a
      OBVIOUS
    <3> QED
      BY <1>3, <2>2, <3>1
  <2> DEFINE i == n - 1
             o == a + i
  <2>4. i \in Nat /\ i \notin B /\ i <= b - a /\ n \in 1..b - a /\ o \in Nat /\ g <= o /\ o + 1 = a + n
    BY <1>3, <2>1, <2>2, <2>3
  <2>5. OnLine(k, g, o, f[i])
    BY <2>4
  <2>6. f[n] = PrepareLetter(f[i], o + 1)
    BY <1>2, <2>4
  <2> HIDE DEF i, o
  <2>7. OnLine(k, g, o + 1, PrepareLetter(f[i], o + 1))
    BY <2>4, <2>5, NextLine
  <2> QED
    BY <2>2, <2>4, <2>6, <2>7
<1>5. OnLine(k, g, a + (b - a), f[b - a])
  <2>1. b - a \in Nat /\ b - a <= b - a
    OBVIOUS
  <2> QED
    BY <1>4, <2>1
<1>6. a + (b - a) = b
  OBVIOUS
<1> QED
  BY <1>1, <1>5, <1>6

\* What follows the lines.
Headed(e, k, p, s) ==
  \/ /\ e.program[k].body = "none" /\ p = Web("end", k, -1, k, Fresh, <<>>) /\ s = EndOf(e, k)
  \/ e.program[k].body = "chunks" /\ Within(e, k, p, s) /\ p.state = "body" /\ p.length = -1
  \/ e.program[k].body = "length" /\ p = Web("end", k, 0, k, Fresh, <<>>) /\ s = EndOf(e, k)
  \/ e.program[k].body = "length" /\ InLength(e, k, p, s)
  \/ Swallows(e, k, p, s)

\* The end of the headers of a request with a body of chunks.
LEMMA ChunksHead ==
  ASSUME NEW k \in Nat, k # 0, env.program[k].body = "chunks"
  PROVE  HeadersEnd(Titled(k)) = OfChunks(k, Fresh, <<>>)
<1> DEFINE t == Titled(k)
<1>1. t.of = k /\ t.header = k
  BY WebIs DEF Titled
<1>2. HeadersEnd(t) = [t EXCEPT !.state = "body"]
  <2> HIDE DEF t
  <2> QED
    BY <1>1 DEF HeadersEnd
<1>3. [t EXCEPT !.state = "body"] = OfChunks(k, Fresh, <<>>)
  BY DEF Titled, Web, OfChunks
<1> QED
  BY <1>2, <1>3

\* The end of the headers of any request.
LEMMA HeadersEndIs ==
  ASSUME env \in Environments, stream = SentBy(env), NEW k \in 1..Count(env)
  PROVE  Headed(env, k, HeadersEnd(Titled(k)), Begins(env, k) + 4)
<1> DEFINE g == Begins(env, k)
           s == g + 4
           t == Titled(k)
           q == HeadersEnd(t)
           r == env.program[k]
<1> SUFFICES Headed(env, k, q, s)
  OBVIOUS
<1>1. t.of = k /\ t.header = k /\ k # 0 /\ k \in Nat
  <2>1. k # 0 /\ k \in Nat
    BY ProgramIs
  <2>2. t.of = k /\ t.header = k
    BY WebIs DEF Titled
  <2> QED
    BY <2>1, <2>2
<1>2. r.body \in {"none", "length", "chunks"} /\ r.closes \in BOOLEAN
  BY ProgramIs, RequestsAre
<1>3. g \in Nat /\ s \in Nat /\ EndOf(env, k) \in Nat
  BY SentIs
<1>0. Fresh = ChunkState("size", 0, <<>>) /\ Fresh.stage = "size"
  BY FreshIs
<1>4. CASE r.body = "none"
  <2>1. q = [t EXCEPT !.state = "end"]
    <3> HIDE DEF t
    <3> QED
      BY <1>1, <1>4 DEF HeadersEnd
  <2>2. q = Web("end", k, -1, k, Fresh, <<>>)
    BY <2>1 DEF Titled, Web
  <2>3. s = EndOf(env, k)
    BY <1>4, NoneEnds
  <2> HIDE DEF q, s
  <2> QED
    BY <1>4, <2>2, <2>3 DEF Headed
<1>5. CASE r.body = "chunks"
  <2>2. q = OfChunks(k, Fresh, <<>>)
    BY <1>1, <1>5, ChunksHead
  <2>3. q.state = "body" /\ q.length = -1
    BY <2>2, WebIs DEF OfChunks
  <2>4. Sized(env, k, s + 1)
    <3>1. s + 1 = Begins(env, k) + 5
      BY <1>3
    <3> QED
      BY <3>1, FirstSized
  <2>5. PICK n \in 0..3 : Frame(env, k, s + 1, n)
    BY <1>5, <2>4, Framed
  <2>6. Has(env, k, s + 1, <<>>)
    <3>1. UpTo(env, k, g + 5) = {}
      <4> DEFINE y == g + 5
      <4>1. UpTo(env, k, g + 4) = {}
        BY UpToBegin
      <4>2. g + 4 \in Begins(env, k)..EndOf(env, k) /\ y \in g + 4..EndOf(env, k) /\ s + 1 = y
        BY <1>3, <2>5 DEF Frame
      <4>3. ~SentBy(env)[y].data
        <5>1. SentBy(env)[y] = Plain(k, SizeMark(n))
          BY <2>5, <4>2 DEF Frame
        <5> QED
          BY <5>1 DEF Plain
      <4>4. UpTo(env, k, y) = UpTo(env, k, g + 4) \cup DataBetween(env, g + 4, y)
        <5> HIDE DEF y
        <5> QED
          BY <4>2, UpToMore
      <4>5. \A d \in g + 4 + 1..y : d = y
        BY <1>3
      <4>6. DataBetween(env, g + 4, y) = {}
        <5> HIDE DEF y
        <5> QED
          BY <4>3, <4>5 DEF DataBetween
      <4> QED
        BY <4>1, <4>4, <4>6
    <3>2. s + 1 = g + 5
      BY <1>3
    <3> QED
      BY <3>1, <3>2, NothingKept
  <2>7. InChunk(Fresh, s, s + 1, n)
    BY <1>3 DEF InChunk
  <2> HIDE DEF q, s
  <2>8. Within(env, k, q, s)
    BY <1>0, <2>2, <2>4, <2>5, <2>6, <2>7, AmidIs DEF Within
  <2> QED
    BY <1>5, <2>3, <2>8 DEF Headed
<1>6. CASE r.body = "length"
  <2> DEFINE l == Length(k)
             w == Announced(env, k)
             p == [t EXCEPT !.length = l]
             y == IF l = 0 /\ ~r.closes THEN "end" ELSE "body"
  <2>1. l = w /\ w \in Nat /\ EndOf(env, k) = s + w /\ (w = 0 <=> r.sizes = <<>>)
    BY <1>6, LengthEnds DEF Length, Announced
  <2>2. q = [p EXCEPT !.state = y]
    <3> DEFINE z == t
    <3>1. [z EXCEPT !.length = l, !.state = y] = [[z EXCEPT !.length = l] EXCEPT !.state = y]
      <4> HIDE DEF z, y, l
      <4> QED
        OBVIOUS
    <3>2. q = [z EXCEPT !.length = l, !.state = y]
      <4>1. z.of = k /\ z.header = k
        BY <1>1
      <4>2. q = HeadersEnd(z)
        OBVIOUS
      <4> HIDE DEF z, q
      <4> QED
        BY <1>1, <1>6, <4>1, <4>2, Zenon DEF HeadersEnd
    <3> QED
      BY <3>1, <3>2
  <2>3. p = Web("headers", k, l, k, Fresh, <<>>)
    <3> HIDE DEF l
    <3> QED
      BY DEF Titled, Web
  <2>4. q = Web(y, k, l, k, Fresh, <<>>)
    <3>1. [Web("headers", k, l, k, Fresh, <<>>) EXCEPT !.state = y] = Web(y, k, l, k, Fresh, <<>>)
      <4> HIDE DEF y, l
      <4> QED
        BY DEF Web
    <3> HIDE DEF p, y, l, q
    <3> QED
      BY <2>2, <2>3, <3>1
  <2> HIDE DEF q, l, p
  <2>5. CASE w = 0 /\ ~r.closes
    <3>1. q = Web("end", k, 0, k, Fresh, <<>>)
      BY <2>1, <2>4, <2>5
    <3>2. s = EndOf(env, k)
      BY <1>3, <2>1, <2>5
    <3> HIDE DEF s
    <3> QED
      BY <1>6, <3>1, <3>2 DEF Headed
  <2>6. CASE w = 0 /\ r.closes
    <3>1. q = Web("body", k, 0, k, Fresh, <<>>)
      BY <2>1, <2>4, <2>6
    <3>2. EndOf(env, k) <= s
      BY <1>3, <2>1, <2>6
    <3>3. r.sizes = <<>>
      BY <2>1, <2>6
    <3> HIDE DEF s
    <3>4. Swallows(env, k, q, s)
      BY <1>3, <1>6, <2>6, <3>1, <3>2, <3>3 DEF Swallows
    <3> QED
      BY <3>4 DEF Headed
  <2>7. CASE w # 0
    <3>1. q = Web("body", k, w, k, ChunkState("size", 0, <<>>), <<>>)
      BY <1>0, <2>1, <2>4, <2>7
    <3>2. s < EndOf(env, k) /\ s - (Begins(env, k) + 4) = 0 /\ Begins(env, k) + 4 <= s
      BY <1>3, <2>1, <2>7
    <3>3. Has(env, k, s, <<>>)
      <4>1. UpTo(env, k, g + 4) = {}
        BY UpToBegin
      <4> QED
        BY <4>1, NothingKept
    <3>4. InLength(env, k, q, s)
      <4> DEFINE d == <<>>
      <4>1. Len(d) = s - (Begins(env, k) + 4)
        BY <3>2
      <4>2. q = Web("body", k, Announced(env, k), k, ChunkState("size", s - (Begins(env, k) + 4), <<>>), d)
        BY <3>1, <3>2
      <4>3. Has(env, k, s, d)
        BY <3>3
      <4> HIDE DEF d, s
      <4> QED
        BY <1>3, <3>2, <4>1, <4>2, <4>3, Zenon DEF InLength
    <3> HIDE DEF s
    <3> QED
      BY <1>6, <3>4 DEF Headed
  <2> QED
    BY <1>2, <2>5, <2>6, <2>7
<1> QED
  BY <1>2, <1>4, <1>5, <1>6

(***************************************************************************)
(* Web::parse().                                                           *)
(***************************************************************************)
\* the parser is in the body of request k
Inside(e, k, p, s) ==
  \/ e.program[k].body = "length" /\ InLength(e, k, p, s)
  \/ e.program[k].body = "chunks" /\ Within(e, k, p, s)
  \/ Swallows(e, k, p, s)

\* the parser expects request k, or is in it
Place(e, k, p, s) ==
  \/ s = Begins(e, k) /\ p = Begin
  \/ k \in 1..Count(e) /\ s = Begins(e, k) + 1 /\ p = Named(k)
  \/ k \in 1..Count(e) /\ Inside(e, k, p, s)

\* what parsing gives
Advance(e, k, a, b, r) ==
  /\ r.taken \in Nat /\ a <= r.taken /\ r.taken <= b
  /\ \/ k \in 1..Count(e) /\ a < r.taken /\ Done(e, k, r.p, r.taken)
     \/ Place(e, k, r.p, r.taken)

\* The parser in a body.
LEMMA InsideIs ==
  ASSUME NEW e \in Environments, NEW k \in 1..Count(e), NEW p, NEW s, Inside(e, k, p, s)
  PROVE  /\ p.state = "body" /\ p.astray = No /\ p.of = k
         /\ p.length > -1 <=> ~(e.program[k].body = "chunks")
<1>1. CASE e.program[k].body = "length" /\ InLength(e, k, p, s)
  <2>1. PICK c, d : p = Web("body", k, Announced(e, k), k, c, d)
    BY <1>1 DEF InLength
  <2>2. p.state = "body" /\ p.astray = No /\ p.of = k /\ p.length = Announced(e, k)
    BY <2>1, WebIs
  <2>3. Announced(e, k) \in Nat
    BY <1>1, LengthEnds
  <2> QED
    BY <1>1, <2>2, <2>3
<1>2. CASE e.program[k].body = "chunks" /\ Within(e, k, p, s)
  <2>1. PICK c, d : p = Web("body", k, -1, k, c, d)
    BY <1>2 DEF Within, Amid, OfChunks
  <2>2. p.state = "body" /\ p.astray = No /\ p.of = k /\ p.length = -1
    BY <2>1, WebIs
  <2> QED
    BY <1>2, <2>2
<1>3. CASE Swallows(e, k, p, s)
  <2>1. PICK c, d : p = Web("body", k, 0, k, c, d)
    BY <1>3 DEF Swallows
  <2>2. p.state = "body" /\ p.astray = No /\ p.of = k /\ p.length = 0
    BY <2>1, WebIs
  <2>3. e.program[k].body = "length"
    BY <1>3 DEF Swallows
  <2> QED
    BY <2>2, <2>3
<1> QED
  BY <1>1, <1>2, <1>3 DEF Inside

\* A parser that expects a request has neither one nor lost its way.
LEMMA PlaceIs ==
  ASSUME NEW e \in Environments, NEW k, NEW p, NEW s, Place(e, k, p, s)
  PROVE  p.state # "end" /\ p.astray = No
<1>1. CASE p = Begin
  BY <1>1, Beginning, WebIs DEF BeginIs
<1>2. CASE p = Named(k)
  BY <1>2, WebIs DEF Named
<1>3. CASE k \in 1..Count(e) /\ Inside(e, k, p, s)
  BY <1>3, InsideIs
<1> QED
  BY <1>1, <1>2, <1>3 DEF Place

\* A parser that is done has the request and its body.
LEMMA DoneIs ==
  ASSUME NEW e, NEW k, NEW p, NEW s, Done(e, k, p, s)
  PROVE  /\ p.state = "end" /\ p.astray = No /\ p.of = k /\ s = EndOf(e, k)
         /\ Has(e, k, s, p.body)
<1>1. PICK l, d : p = Web("end", k, l, k, Fresh, d) /\ s = EndOf(e, k) /\ Has(e, k, s, d)
  BY DEF Done
<1> QED
  BY <1>1, WebIs

\* A read of a body.
LEMMA BodyRead ==
  ASSUME env \in Environments, stream = SentBy(env), NEW k \in 1..Count(env),
         NEW a \in Nat, NEW b \in Nat, a <= b, env.keeps \/ b <= EndOf(env, k),
         NEW p, Inside(env, k, p, a)
  PROVE  Advance(env, k, a, b, ReadPayload(p, a, b))
<1> DEFINE r == ReadPayload(p, a, b)
           l == ReadLength(p, a, b)
           c == ReadChunks(p, a, b)
<1>1. /\ ~(env.program[k].body = "chunks") => r.p = l.p /\ r.taken = l.taken
      /\ env.program[k].body = "chunks" => r.p = c.p /\ r.taken = c.taken
  <2>1. p.length > -1 <=> ~(env.program[k].body = "chunks")
    BY InsideIs
  <2> HIDE DEF l, c
  <2>2. r = LET v == IF p.length > -1 THEN l ELSE c IN [p |-> v.p, taken |-> v.taken]
    BY DEF ReadPayload, l, c
  <2> HIDE DEF r
  <2> QED
    BY <2>1, <2>2
<1>2. CASE env.program[k].body = "length" /\ InLength(env, k, p, a)
  <2>1. LengthRead(env, k, a, b, l)
    BY <1>2, LengthPiece
  <2>2. r.p = l.p /\ r.taken = l.taken
    BY <1>1, <1>2
  <2> HIDE DEF l, r
  <2> QED
    BY <1>2, <2>1, <2>2 DEF LengthRead, Advance, Place, Inside, r
<1>3. CASE env.program[k].body = "chunks" /\ Within(env, k, p, a)
  <2>1. ChunksRead(env, k, a, b, c)
    BY <1>3, ChunkLoop
  <2>2. r.p = c.p /\ r.taken = c.taken
    BY <1>1, <1>3
  <2>3. \A q, t : Over(env, k, q, t) => Done(env, k, q, t)
    BY DEF Over, Done
  <2> HIDE DEF c, r
  <2> QED
    BY <1>3, <2>1, <2>2, <2>3 DEF ChunksRead, Advance, Place, Inside, r
<1>4. CASE Swallows(env, k, p, a)
  <2>1. l.taken = b /\ Swallows(env, k, l.p, b)
    <3>1. EndOf(env, k) \in Nat
      BY SentIs
    <3> QED
      BY <1>4, <3>1, Swallowed
  <2>2. r.p = l.p /\ r.taken = l.taken
    BY <1>1, <1>4 DEF Swallows
  <2> HIDE DEF l, r
  <2> QED
    BY <1>4, <2>1, <2>2 DEF Advance, Place, Inside, r
<1> QED
  BY <1>2, <1>3, <1>4 DEF Inside

\* the buffer of a client may end at offset b when request k is read
Readable(e, k, b) ==
  /\ b <= Len(SentBy(e))
  /\ k \in 1..Count(e) => /\ b # Begins(e, k) + 2 /\ b # Begins(e, k) + 3
                          /\ e.keeps \/ b <= EndOf(e, k)

\* A read from before the blank line.
LEMMA HeadersRead ==
  ASSUME env \in Environments, stream = SentBy(env), NEW k \in 1..Count(env),
         NEW a \in Nat, NEW b \in Nat, a <= b, Readable(env, k, b), NEW p,
         Starts(k, Begins(env, k), p, a), p.state # "body"
  PROVE  Advance(env, k, a, b, Parse(p, a, b))
<1> DEFINE g == Begins(env, k)
           r == ReadHeaders(p, a, b)
           v == Parse(p, a, b)
           q == HeadersEnd(Titled(k))
<1>1. OnLine(k, g, b, r)
  BY HeadersLoop
<1>2. v = IF r.p.state = "body" /\ r.taken < b THEN ReadPayload(r.p, r.taken, b)
          ELSE [p |-> r.p, taken |-> r.taken]
  BY Zenon DEF Parse
<1>3. g \in Nat /\ g <= a /\ b # g + 2 /\ b # g + 3 /\ (a = g \/ a = g + 1)
      /\ g + 4 <= EndOf(env, k) /\ EndOf(env, k) \in Nat
  BY SentIs DEF Readable, Starts
<1> SUFFICES Advance(env, k, a, b, v)
  OBVIOUS
<1>4. CASE b = g
  <2>1. r = Lines(Begin, b, No, "begin", No)
    BY <1>1, <1>4 DEF OnLine
  <2>2. r.p = Begin /\ r.taken = b /\ r.p.state = "query"
    BY <2>1, LinesAre DEF Begin
  <2> HIDE DEF r, v
  <2>3. v.p = Begin /\ v.taken = b
    BY <1>2, <2>2
  <2> QED
    BY <1>4, <2>3 DEF Advance, Place
<1>5. CASE b = g + 1
  <2>1. PICK w \in {"begin", "line"} : r = Lines(Named(k), b, No, w, No)
    BY <1>1, <1>5 DEF OnLine
  <2>2. r.p = Named(k) /\ r.taken = b /\ r.p.state = "headers"
    BY <2>1, LinesAre, WebIs DEF Named
  <2> HIDE DEF r, v
  <2>3. v.p = Named(k) /\ v.taken = b
    BY <1>2, <2>2
  <2> QED
    BY <1>5, <2>3 DEF Advance, Place
<1>6. CASE b \notin g..g + 3
  <2> DEFINE s == g + 4
  <2>1. r.p = q /\ r.taken = s
    <3>1. r = Lines(q, g + 4, Yes, "blank", Yes)
      BY <1>1, <1>6 DEF OnLine
    <3> HIDE DEF r, q
    <3> QED
      BY <3>1, LinesAre
  <2>2. s \in Nat /\ a < s /\ s <= b
    BY <1>3, <1>6
  <2>3. Headed(env, k, q, s)
    BY HeadersEndIs
  <2>4. /\ env.program[k].body \in {"none", "length", "chunks"}
        /\ UpTo(env, k, s) = {}
    BY ProgramIs, RequestsAre, UpToBegin
  <2> HIDE DEF q, s, r, v
  <2>5. CASE Inside(env, k, q, s)
    <3>1. q.state = "body"
      BY <2>5, InsideIs
    <3>2. CASE s < b
      <4>1. v = ReadPayload(q, s, b)
        BY <1>2, <2>1, <3>1, <3>2
      <4>2. Advance(env, k, s, b, ReadPayload(q, s, b))
        BY <2>2, <2>5, BodyRead DEF Readable
      <4>3. Advance(env, k, s, b, v)
        BY <4>1, <4>2
      <4> QED
        BY <2>2, <4>3 DEF Advance
    <3>3. CASE ~(s < b)
      <4>1. v = [p |-> q, taken |-> s]
        BY <1>2, <2>1, <3>3
      <4> QED
        BY <2>2, <2>5, <4>1 DEF Advance, Place
    <3> QED
      BY <3>2, <3>3
  <2>6. CASE \E l : q = Web("end", k, l, k, Fresh, <<>>) /\ s = EndOf(env, k)
    <3>1. PICK l : q = Web("end", k, l, k, Fresh, <<>>) /\ s = EndOf(env, k)
      BY <2>6
    <3>2. q.state = "end"
      BY <3>1, WebIs
    <3>3. v = [p |-> q, taken |-> s]
      BY <1>2, <2>1, <3>2
    <3>4. Has(env, k, s, <<>>)
      BY <2>4, NothingKept
    <3>5. Done(env, k, q, s)
      BY <3>1, <3>4 DEF Done
    <3> QED
      BY <2>2, <3>3, <3>5 DEF Advance
  <2> QED
    BY <2>3, <2>5, <2>6 DEF Headed, Inside
<1>7. b \in g..g + 3 => b = g \/ b = g + 1
  BY <1>3
<1> QED
  BY <1>4, <1>5, <1>6, <1>7

\* Web::parse() takes the request further, or completes it.
LEMMA Parsed ==
  ASSUME env \in Environments, stream = SentBy(env), NEW k \in 1..Count(env) + 1,
         NEW a \in Nat, NEW b \in Nat, a <= b, Readable(env, k, b),
         NEW p, Place(env, k, p, a)
  PROVE  Advance(env, k, a, b, Parse(p, a, b))
<1>0. Count(env) \in Nat
  BY ProgramIs
<1>1. CASE k \in 1..Count(env) /\ Inside(env, k, p, a)
  <2>1. p.state = "body"
    BY <1>1, InsideIs
  <2>2. Parse(p, a, b) = ReadPayload(p, a, b)
    BY <2>1 DEF Parse
  <2>3. Advance(env, k, a, b, ReadPayload(p, a, b))
    BY <1>1, BodyRead DEF Readable
  <2> QED
    BY <2>2, <2>3
<1>2. CASE k \in 1..Count(env) /\ Starts(k, Begins(env, k), p, a)
  <2>1. p.state # "body"
    <3>1. Begin.state # "body" /\ Named(k).state # "body"
      BY WebIs DEF Begin, Named
    <3> QED
      BY <1>2, <3>1 DEF Starts
  <2> QED
    BY <1>2, <2>1, HeadersRead
<1>3. CASE k = Count(env) + 1 /\ a = Begins(env, k) /\ p = Begin
  <2> DEFINE r == ReadHeaders(p, a, b)
  <2>1. a = b
    <3>1. k - 1 = Count(env)
      BY <1>0, <1>3
    <3>2. a = Len(SentBy(env))
      BY <1>3, <3>1, Layout DEF Begins
    <3> QED
      BY <3>2 DEF Readable
  <2>2. PICK f : IsRun("headers", Lines(p, a, No, "begin", No), a, b, b - a, f)
                 /\ ReadHeaders(p, a, b) = f[b - a]
    BY ReadHeadersIs
  <2>3. b - a = 0
    BY <2>1
  <2>4. r = Lines(Begin, a, No, "begin", No)
    BY <1>3, <2>2, <2>3 DEF IsRun
  <2>5. r.p = Begin /\ r.taken = a /\ r.p.state = "query" /\ p.state = "query"
    BY <1>3, <2>4, LinesAre DEF Begin
  <2>6. Parse(p, a, b) = [p |-> Begin, taken |-> a]
    <3>1. Parse(p, a, b) = IF r.p.state = "body" /\ r.taken < b THEN ReadPayload(r.p, r.taken, b)
                           ELSE [p |-> r.p, taken |-> r.taken]
      BY <2>5, Zenon DEF Parse
    <3> HIDE DEF r
    <3> QED
      BY <2>5, <3>1
  <2> QED
    BY <1>3, <2>6 DEF Advance, Place
<1> QED
  BY <1>0, <1>1, <1>2, <1>3 DEF Place, Starts

(***************************************************************************)
(* The inductive invariant of a connection read with care.                 *)
(***************************************************************************)
\* a call of "complete"
Handed == [request : Nat, body : Seq(Int)]

\* what was delivered is what was sent
Faithful(e, d) ==
  /\ d \in Seq(Handed) /\ Len(d) <= Count(e)
  /\ \A j \in 1..Len(d) : d[j].request = j /\ Has(e, j, EndOf(e, j), d[j].body)

\* no read ends in the blank line or before it
Whole(e, g) == \A k \in 1..Count(e) : g # Begins(e, k) + 2 /\ g # Begins(e, k) + 3

\* a client that waits has sent no more than the request that is to be answered
InStep(e, n, g) == ~e.pipelines /\ n < Count(e) => g <= EndOf(e, n + 1)

\* an answer is owed
Owing(e, d, n, s, p) ==
  /\ d # <<>> /\ n = Len(d) - 1 /\ s = EndOf(e, Len(d))
  /\ p.state = "end" /\ p.of = Len(d) /\ p.astray = No

\* the next request is expected
Ready(e, d, n, s, p) == n = Len(d) /\ Place(e, Len(d) + 1, p, s)

\* the state of a connection
Steady(e, g, s, p, w, d, n, c) ==
  /\ g \in Nat /\ s \in Nat /\ s <= g /\ g <= Len(SentBy(e))
  /\ Whole(e, g) /\ InStep(e, n, g) /\ Faithful(e, d) /\ c # "astray"
  /\ w \in BOOLEAN
  /\ w => Owing(e, d, n, s, p)
  /\ ~w => Ready(e, d, n, s, p)

\* the inductive invariant of AsSentCareful
HttpInv ==
  /\ env \in Environments /\ stream = SentBy(env)
  /\ Careful => Steady(env, got, start, parser, good, delivered, answered, conn)

\* What careful means.
LEMMA CarefulIs ==
  /\ Careful => env.cuts = "usual"
  /\ Careful /\ env.pipelines => env.keeps /\ ~AtOnce
BY DEF Careful, AtOnce

\* It holds when a connection is opened.
LEMMA HttpInvInit == HttpInit => HttpInv
<1> SUFFICES ASSUME HttpInit PROVE HttpInv
  OBVIOUS
<1>1. env \in Environments /\ stream = SentBy(env)
  BY DEF HttpInit, SentBy
<1>2. /\ Count(env) \in Nat /\ EndOf(env, 0) = 0 /\ Len(SentBy(env)) \in Nat
      /\ \A k \in 0..Count(env) : EndOf(env, k) \in Nat
  <2>1. EndOf(env, 0) = 0 /\ SentBy(env) \in Seq(AllLetters)
    BY <1>1, Layout
  <2> QED
    BY <1>1, <2>1, Layout, ProgramIs
<1>3. Whole(env, 0)
  <2>1. \A k \in 1..Count(env) : Begins(env, k) \in Nat
    BY <1>1, SentIs
  <2> QED
    BY <2>1 DEF Whole
<1>4. InStep(env, 0, 0)
  <2>1. Count(env) > 0 => EndOf(env, 0 + 1) \in Nat
    <3>1. Count(env) > 0 => 1 \in 0..Count(env) /\ 0 + 1 = 1
      BY <1>2
    <3> QED
      BY <1>2, <3>1
  <2> QED
    BY <1>2, <2>1 DEF InStep
<1>5. Faithful(env, <<>>)
  BY <1>2 DEF Faithful
<1>6. Ready(env, <<>>, 0, 0, Begin)
  <2>1. Begins(env, 0 + 1) = 0 /\ Len(<<>>) = 0
    <3>1. (0 + 1) - 1 = 0
      OBVIOUS
    <3> QED
      BY <1>2, <3>1 DEF Begins
  <2> QED
    BY <2>1 DEF Ready, Place
<1>7. /\ got = 0 /\ start = 0 /\ parser = Begin /\ good = FALSE /\ delivered = <<>> /\ answered = 0
      /\ conn = "open"
  BY DEF HttpInit
<1>8. /\ Whole(env, got) /\ InStep(env, answered, got) /\ Faithful(env, delivered)
      /\ Ready(env, delivered, answered, start, parser)
  BY <1>3, <1>4, <1>5, <1>6, <1>7
<1>9. /\ got \in Nat /\ start \in Nat /\ start <= got /\ got <= Len(SentBy(env)) /\ conn # "astray"
      /\ ~good /\ good \in BOOLEAN
  <2>1. got \in Nat /\ start \in Nat /\ start <= got /\ got <= Len(SentBy(env))
    BY <1>2, <1>7
  <2> QED
    BY <1>7, <2>1
<1>10. Steady(env, got, start, parser, good, delivered, answered, conn)
  BY <1>8, <1>9 DEF Steady
<1> QED
  BY <1>1, <1>10 DEF HttpInv

\* Where a careful read ends.
LEMMA MayReadIs ==
  ASSUME env \in Environments, stream = SentBy(env), Careful, NEW o \in 1..Total, MayRead(o),
         answered \in Nat
  PROVE  /\ o \in Nat /\ o <= Len(SentBy(env)) /\ Whole(env, o) /\ InStep(env, answered, o)
<1>1. /\ Count(env) \in Nat /\ Total = Len(SentBy(env)) /\ Len(SentBy(env)) \in Nat
  <2>1. SentBy(env) \in Seq(AllLetters)
    BY Layout
  <2> QED
    BY <2>1, ProgramIs DEF Total
<1>2. Whole(env, o)
  <2> SUFFICES ASSUME NEW k \in 1..Count(env), o = Begins(env, k) + 2 \/ o = Begins(env, k) + 3
               PROVE  FALSE
    BY DEF Whole
  <2> DEFINE g == Begins(env, k)
  <2>1. g \in Nat /\ g + 4 <= Total
    BY <1>1, SentIs
  <2>2. Mark(g + 2) = "header"
    <3>1. stream[g + 2] = Plain(k, "header")
      BY HeadMarks
    <3> QED
      BY <3>1, PlainIs DEF Mark
  <2>3. ~BeforeBlank(o)
    BY CarefulIs DEF MayRead
  <2> HIDE DEF g
  <2>4. o < Total
    BY <1>1, <2>1 DEF g
  <2>5. CASE o = g + 2
    BY <2>2, <2>3, <2>4, <2>5 DEF BeforeBlank
  <2>6. CASE o = g + 3
    <3>1. o - 1 = g + 2 /\ o > 1
      BY <2>1, <2>6
    <3> QED
      BY <2>2, <2>3, <2>4, <3>1 DEF BeforeBlank
  <2> QED
    BY <2>5, <2>6 DEF g
<1>3. InStep(env, answered, o)
  <2> SUFFICES ASSUME ~env.pipelines, answered < Count(env) PROVE o <= EndOf(env, answered + 1)
    BY DEF InStep
  <2>1. o <= Ends(answered + 1)
    BY DEF MayRead, Count
  <2>2. answered + 1 \in 0..Count(env)
    BY <1>1
  <2>3. Ends(answered + 1) = EndOf(env, answered + 1)
    BY <2>2, EndsIs
  <2> QED
    BY <2>1, <2>3
<1> QED
  BY <1>1, <1>2, <1>3

\* Such a buffer can be parsed.
LEMMA ReadableIs ==
  ASSUME NEW e \in Environments, e.pipelines => e.keeps, NEW g, NEW s, NEW p, NEW w, NEW d, NEW n, NEW c,
         Steady(e, g, s, p, w, d, n, c), ~w
  PROVE  /\ Len(d) + 1 \in 1..Count(e) + 1 /\ Len(d) \in Nat
         /\ Readable(e, Len(d) + 1, g) /\ Place(e, Len(d) + 1, p, s)
<1> DEFINE k == Len(d) + 1
<1>1. d \in Seq(Handed) /\ Len(d) <= Count(e) /\ n = Len(d) /\ Place(e, k, p, s)
  BY DEF Steady, Faithful, Ready
<1>2. Len(d) \in Nat /\ Count(e) \in Nat
  BY <1>1, ProgramIs
<1>3. k \in 1..Count(e) + 1
  BY <1>1, <1>2
<1>4. Readable(e, k, g)
  <2>1. g <= Len(SentBy(e)) /\ Whole(e, g) /\ InStep(e, n, g)
    BY DEF Steady
  <2>2. k \in 1..Count(e) => e.keeps \/ g <= EndOf(e, k)
    <3>1. k \in 1..Count(e) => n < Count(e)
      BY <1>1, <1>2
    <3>2. n + 1 = k
      BY <1>1
    <3> HIDE DEF k
    <3> QED
      BY <2>1, <3>1, <3>2 DEF InStep
  <2> HIDE DEF k
  <2> QED
    BY <2>1, <2>2 DEF Readable, Whole
<1> QED
  BY <1>1, <1>2, <1>3, <1>4

\* A read keeps it.
LEMMA ReceiveKeeps == ASSUME HttpInv, NEW o \in 1..Total, Receive(o) PROVE HttpInv'
<1>1. env' = env /\ stream' = stream /\ env \in Environments /\ stream = SentBy(env)
  BY DEF HttpInv, Receive
<1>2. Careful' <=> Careful
  BY <1>1 DEF Careful
<1> SUFFICES ASSUME Careful
             PROVE  Steady(env, got', start', parser', good', delivered', answered', conn')
  BY <1>1, <1>2 DEF HttpInv
<1>3. Steady(env, got, start, parser, good, delivered, answered, conn)
  BY DEF HttpInv
<1>4. /\ got' = o /\ got < o /\ start' = start /\ parser' = parser /\ good' = good
      /\ delivered' = delivered /\ answered' = answered /\ MayRead(o)
      /\ conn' # "astray"
  BY DEF Receive
<1>5. answered \in Nat
  <2>1. delivered \in Seq(Handed) /\ (good \/ ~good)
    BY <1>3 DEF Steady, Faithful
  <2>2. Len(delivered) \in Nat /\ (delivered # <<>> => Len(delivered) # 0)
    BY <2>1
  <2>3. answered = Len(delivered) \/ (delivered # <<>> /\ answered = Len(delivered) - 1)
    BY <1>3, <2>1 DEF Steady, Owing, Ready
  <2> QED
    BY <2>2, <2>3
<1>6. o \in Nat /\ o <= Len(SentBy(env)) /\ Whole(env, o) /\ InStep(env, answered, o)
  BY <1>1, <1>4, <1>5, MayReadIs
<1>7. start \in Nat /\ start <= o
  BY <1>3, <1>4, <1>6 DEF Steady
<1> QED
  BY <1>3, <1>4, <1>6, <1>7 DEF Steady

\* an answer: the buffer goes on after the request
LEMMA Responding ==
  ASSUME env \in Environments, Careful, NEW g \in Nat, NEW s \in Nat, s <= g, g <= Len(SentBy(env)),
         Whole(env, g), NEW k \in 1..Count(env), InStep(env, k - 1, g), s = EndOf(env, k),
         NEW z, z = IF AtOnce THEN g ELSE s
  PROVE  /\ z \in Nat /\ z <= g /\ InStep(env, k, g)
         /\ Place(env, k + 1, Begin, z)
<1>1. k \in Nat /\ Count(env) \in Nat
  BY ProgramIs
<1>2. z = s
  <2>1. CASE AtOnce
    <3>1. ~env.pipelines /\ k - 1 < Count(env) /\ k - 1 + 1 = k
      <4>1. ~env.pipelines
        <5>1. env.pipelines \in BOOLEAN
          BY HttpServerAssumption
        <5> QED
          BY <2>1, <5>1, CarefulIs
      <4> QED
        BY <1>1, <4>1
    <3>2. g <= EndOf(env, k)
      BY <3>1 DEF InStep
    <3> QED
      BY <2>1, <3>2
  <2>2. CASE ~AtOnce
    BY <2>2
  <2> QED
    BY <2>1, <2>2
<1>3. InStep(env, k, g)
  <2> SUFFICES ASSUME ~env.pipelines, k < Count(env) PROVE g <= EndOf(env, k + 1)
    BY DEF InStep
  <2>1. k - 1 < Count(env) /\ k - 1 + 1 = k
    BY <1>1
  <2>2. g <= EndOf(env, k)
    BY <2>1 DEF InStep
  <2>3. k \in 0..Count(env) /\ k + 1 \in k..Count(env) /\ k + 1 \in 1..Count(env)
    BY <1>1
  <2>4. EndOf(env, k) <= EndOf(env, k + 1) /\ EndOf(env, k) \in Nat /\ EndOf(env, k + 1) \in Nat
    BY <2>3, EndsRise, SentIs
  <2> QED
    BY <2>2, <2>4
<1>4. Begins(env, k + 1) = EndOf(env, k)
  <2>1. (k + 1) - 1 = k
    BY <1>1
  <2> QED
    BY <2>1 DEF Begins
<1> QED
  BY <1>2, <1>3, <1>4 DEF Place

\* a request is handed over and owed an answer, or it was answered
LEMMA Answered ==
  ASSUME NEW e, NEW g, NEW s, NEW d, NEW n, NEW c, Faithful(e, d), n = Len(d), Whole(e, g), InStep(e, n, g),
         g \in Nat, g <= Len(SentBy(e)), s \in Nat, s <= g, Place(e, n + 1, Begin, s), c # "astray",
         NEW w, w = FALSE
  PROVE  Steady(e, g, s, Begin, w, d, n, c)
BY DEF Steady, Ready

\* A late answer keeps it.
LEMMA RespondLaterKeeps == ASSUME HttpInv, RespondLater PROVE HttpInv'
<1>1. env' = env /\ stream' = stream /\ env \in Environments /\ stream = SentBy(env)
  BY DEF HttpInv, RespondLater
<1>2. Careful' <=> Careful
  BY <1>1 DEF Careful
<1> SUFFICES ASSUME Careful
             PROVE  Steady(env, got', start', parser', good', delivered', answered', conn')
  BY <1>1, <1>2 DEF HttpInv
<1>3. Steady(env, got, start, parser, good, delivered, answered, conn)
  BY DEF HttpInv
<1> DEFINE k == Len(delivered)
<1>4. /\ good /\ got' = got /\ start' = (IF AtOnce THEN got ELSE start) /\ parser' = Begin
      /\ good' = FALSE /\ delivered' = delivered /\ answered' = parser.of /\ conn' = conn
  BY DEF RespondLater, Respond
<1>5. /\ answered = k - 1 /\ start = EndOf(env, k) /\ parser.of = k /\ delivered # <<>>
      /\ Faithful(env, delivered) /\ InStep(env, answered, got) /\ Whole(env, got)
      /\ got \in Nat /\ start \in Nat /\ start <= got /\ got <= Len(SentBy(env)) /\ conn # "astray"
  BY <1>3, <1>4 DEF Steady, Owing
<1>6. k \in 1..Count(env)
  <2>1. delivered \in Seq(Handed) /\ k <= Count(env)
    BY <1>5 DEF Faithful
  <2>2. Count(env) \in Nat
    BY <1>1, ProgramIs
  <2> QED
    BY <1>5, <2>1, <2>2
<1>7. InStep(env, k - 1, got)
  BY <1>5
<1> HIDE DEF k
<1>8. /\ start' \in Nat /\ start' <= got /\ InStep(env, k, got) /\ Place(env, k + 1, Begin, start')
  BY <1>1, <1>4, <1>5, <1>6, <1>7, Responding
<1>9. Steady(env, got, start', Begin, good', delivered, k, conn)
  BY <1>4, <1>5, <1>8, Answered DEF k
<1> QED
  BY <1>4, <1>5, <1>9

\* So does a request that is complete,
LEMMA HandleKeeps ==
  ASSUME env \in Environments, Careful, NEW k, k = Len(delivered) + 1, k \in 1..Count(env), ~good,
         Steady(env, got, start, parser, good, delivered, answered, conn),
         NEW r, start < r.taken, r.taken \in Nat, r.taken <= got, Done(env, k, r.p, r.taken),
         Handle(r), got' = got, conn' # "astray"
  PROVE  Steady(env, got', start', parser', good', delivered', answered', conn')
<1> DEFINE s == r.taken
           x == [request |-> r.p.of, body |-> r.p.body]
<1>1. /\ r.p.state = "end" /\ r.p.astray = No /\ r.p.of = k /\ s = EndOf(env, k)
      /\ Has(env, k, s, r.p.body)
  BY DoneIs
<1>2. /\ Faithful(env, delivered) /\ answered = Len(delivered) /\ InStep(env, answered, got)
      /\ Whole(env, got) /\ got \in Nat /\ got <= Len(SentBy(env))
  BY DEF Steady, Ready
<1>3. delivered' = Append(delivered, x)
  BY DEF Handle
<1>4. k - 1 = answered /\ k \in Nat /\ delivered \in Seq(Handed)
  BY <1>2 DEF Faithful
<1>5. x \in Handed /\ x.request = k /\ Has(env, k, EndOf(env, k), x.body)
  <2>1. r.p.body \in Seq(Int)
    BY <1>1 DEF Has
  <2> QED
    BY <1>1, <1>4, <2>1 DEF Handed
<1> HIDE DEF x, s
<1>6. delivered' \in Seq(Handed) /\ Len(delivered') = k /\ delivered' # <<>> /\ delivered'[k] = x
      /\ \A j \in 1..Len(delivered) : delivered'[j] = delivered[j]
  BY <1>3, <1>4, <1>5
<1>7. Faithful(env, delivered')
  <2>1. \A j \in 1..k : j # k => j \in 1..Len(delivered)
    BY <1>4
  <2>2. \A j \in 1..k : delivered'[j].request = j /\ Has(env, j, EndOf(env, j), delivered'[j].body)
    BY <1>2, <1>5, <1>6, <2>1 DEF Faithful
  <2>3. k <= Count(env)
    BY ProgramIs
  <2> QED
    BY <1>6, <2>2, <2>3 DEF Faithful
<1>8. CASE env.answers \in {"at once", "in parts"}
  <2>1. /\ start' = (IF AtOnce THEN got ELSE s) /\ parser' = Begin /\ good' = FALSE
        /\ answered' = k
    BY <1>1, <1>8 DEF Handle, Respond, s
  <2>2. InStep(env, k - 1, got) /\ s \in Nat /\ s <= got
    BY <1>2, <1>4 DEF s
  <2>3. /\ start' \in Nat /\ start' <= got /\ InStep(env, k, got) /\ Place(env, k + 1, Begin, start')
    BY <1>1, <1>2, <2>1, <2>2, Responding DEF s
  <2>4. Steady(env, got, start', Begin, good', delivered', k, conn')
    BY <1>2, <1>6, <1>7, <2>1, <2>3, Answered
  <2> QED
    BY <2>1, <2>4
<1>9. CASE env.answers \notin {"at once", "in parts"}
  <2>1. parser' = r.p /\ good' = TRUE /\ start' = s /\ answered' = answered
    BY <1>9 DEF Handle, s
  <2>2. Owing(env, delivered', answered', start', parser')
    BY <1>1, <1>4, <1>6, <2>1 DEF Owing, s
  <2>3. start' \in Nat /\ start' <= got
    BY <2>1 DEF s
  <2> QED
    BY <1>2, <1>7, <2>1, <2>2, <2>3 DEF Steady
<1> QED
  BY <1>8, <1>9

\* a pass of the loop,
LEMMA IterateKeeps == ASSUME HttpInv, Iterate PROVE HttpInv'
<1>1. env' = env /\ stream' = stream /\ got' = got /\ env \in Environments /\ stream = SentBy(env)
  BY DEF HttpInv, Iterate
<1>2. Careful' <=> Careful
  BY <1>1 DEF Careful
<1> SUFFICES ASSUME Careful
             PROVE  Steady(env, got', start', parser', good', delivered', answered', conn')
  BY <1>1, <1>2 DEF HttpInv
<1>3. Steady(env, got, start, parser, good, delivered, answered, conn)
  BY DEF HttpInv
<1> DEFINE r == IF good THEN [p |-> parser, taken |-> start] ELSE Parse(parser, start, got)
           n == r.taken - start
<1>4. \/ /\ r.p.astray /\ conn' = "astray"
      \/ /\ n > 0 /\ r.p.state = "end" /\ Handle(r) /\ GoOn(n)
      \/ /\ ~(n > 0 /\ r.p.state = "end") /\ start' = r.taken /\ parser' = r.p /\ GoOn(n)
         /\ UNCHANGED <<good, delivered, answered, close, stopped>>
  <2> HIDE DEF r
  <2> QED
    BY DEF Iterate, r
<1>5. GoOn(n) => conn' # "astray"
  BY DEF GoOn
<1>6. /\ Faithful(env, delivered) /\ InStep(env, answered, got) /\ Whole(env, got) /\ good \in BOOLEAN
      /\ got \in Nat /\ start \in Nat /\ start <= got /\ got <= Len(SentBy(env))
  BY <1>3 DEF Steady
<1>7. CASE good
  <2>1. Owing(env, delivered, answered, start, parser)
    BY <1>3, <1>7 DEF Steady
  <2>2. r.p = parser /\ r.taken = start
    BY <1>7
  <2> HIDE DEF r
  <2>3. ~(n > 0) /\ ~r.p.astray
    BY <1>6, <2>1, <2>2 DEF Owing, No
  <2> HIDE DEF n
  <2>4. /\ start' = start /\ parser' = parser /\ good' = good /\ delivered' = delivered
        /\ answered' = answered /\ conn' # "astray"
    BY <1>4, <1>5, <2>2, <2>3
  <2> QED
    BY <1>1, <1>3, <2>4 DEF Steady
<1>8. CASE ~good
  <2> DEFINE k == Len(delivered) + 1
  <2>1. /\ k \in 1..Count(env) + 1 /\ Readable(env, k, got) /\ Place(env, k, parser, start)
        /\ answered = Len(delivered)
    <3>1. env.pipelines => env.keeps
      BY CarefulIs
    <3>2. answered = Len(delivered)
      BY <1>3, <1>8 DEF Steady, Ready
    <3> QED
      BY <1>1, <1>3, <1>8, <3>1, <3>2, ReadableIs
  <2>2. r = Parse(parser, start, got)
    BY <1>8
  <2> HIDE DEF r, k
  <2>3. Advance(env, k, start, got, r)
    BY <1>1, <1>6, <2>1, <2>2, Parsed
  <2>4. r.taken \in Nat /\ start <= r.taken /\ r.taken <= got
    BY <2>3 DEF Advance
  <2>5. CASE k \in 1..Count(env) /\ start < r.taken /\ Done(env, k, r.p, r.taken)
    <3>1. r.p.state = "end" /\ ~r.p.astray
      <4> DEFINE p == r.p
      <4>1. Done(env, k, p, r.taken)
        BY <2>5
      <4> HIDE DEF p
      <4>2. p.state = "end" /\ p.astray = No
        BY <4>1, DoneIs
      <4> QED
        BY <4>2 DEF No, p
    <3>2. n > 0
      BY <1>6, <2>4, <2>5
    <3>3. Handle(r) /\ conn' # "astray"
      BY <1>4, <1>5, <3>1, <3>2
    <3> QED
      BY <1>1, <1>3, <1>8, <2>4, <2>5, <3>3, HandleKeeps DEF k
  <2>6. CASE Place(env, k, r.p, r.taken)
    <3>1. r.p.state # "end" /\ ~r.p.astray
      BY <1>1, <2>6, PlaceIs DEF No
    <3> HIDE DEF n
    <3>2. /\ start' = r.taken /\ parser' = r.p /\ good' = good /\ delivered' = delivered
          /\ answered' = answered /\ conn' # "astray"
      BY <1>4, <1>5, <3>1
    <3>3. Ready(env, delivered, answered, r.taken, r.p)
      BY <2>1, <2>6 DEF Ready, k
    <3> QED
      BY <1>1, <1>6, <1>8, <2>4, <3>2, <3>3 DEF Steady
  <2> QED
    BY <2>3, <2>5, <2>6 DEF Advance
<1> QED
  BY <1>6, <1>7, <1>8

\* and every step.
LEMMA HttpInvStep == HttpInv /\ [HttpNext]_httpVars => HttpInv'
<1> SUFFICES ASSUME HttpInv, [HttpNext]_httpVars PROVE HttpInv'
  OBVIOUS
<1>1. CASE \E o \in 1..Total : Receive(o)
  BY <1>1, ReceiveKeeps
<1>2. CASE Iterate
  BY <1>2, IterateKeeps
<1>3. CASE RespondLater
  BY <1>3, RespondLaterKeeps
<1>4. ASSUME UNCHANGED <<env, stream, got, start, parser, good, delivered, answered>>,
             conn' = conn \/ conn' = "closed"
      PROVE  HttpInv'
  <2>1. Careful' <=> Careful
    BY <1>4 DEF Careful
  <2> QED
    BY <1>4, <2>1 DEF HttpInv, Steady
<1>5. CASE Written
  BY <1>4, <1>5 DEF Written
<1>6. CASE Pinging
  BY <1>4, <1>6 DEF Pinging
<1>7. CASE UNCHANGED httpVars
  BY <1>4, <1>7 DEF httpVars
<1> QED
  BY <1>1, <1>2, <1>3, <1>5, <1>6, <1>7 DEF HttpNext

\* It says that what was sent was delivered.
LEMMA HttpInvSent == HttpInv => AsSentCareful
<1> SUFFICES ASSUME HttpInv, Careful PROVE AsSent
  BY DEF AsSentCareful
<1>1. /\ env \in Environments /\ stream = SentBy(env) /\ conn # "astray"
      /\ delivered \in Seq(Handed) /\ Len(delivered) <= Count(env)
      /\ \A j \in 1..Len(delivered) :
           delivered[j].request = j /\ Has(env, j, EndOf(env, j), delivered[j].body)
  BY DEF HttpInv, Steady, Faithful
<1>2. ASSUME NEW j \in DOMAIN delivered
      PROVE  /\ delivered[j].request = j /\ Range(delivered[j].body) = DataOf(j)
             /\ \A i, n \in DOMAIN delivered[j].body :
                  i < n => delivered[j].body[i] < delivered[j].body[n]
  <2>1. j \in 1..Len(delivered) /\ j \in 1..Count(env)
    <3>1. Count(env) \in Nat
      BY <1>1, ProgramIs
    <3> QED
      BY <1>1, <3>1
  <2>2. delivered[j].request = j /\ Has(env, j, EndOf(env, j), delivered[j].body)
    BY <1>1, <2>1
  <2>3. UpTo(env, j, EndOf(env, j)) = DataIn(env, j)
    BY <1>1, <2>1, UpToBegin
  <2>4. DataIn(env, j) = DataOf(j)
    BY <1>1 DEF DataIn, DataOf, Total
  <2> QED
    BY <2>2, <2>3, <2>4 DEF Has, Rising
<1> QED
  BY <1>1, <1>2 DEF AsSent

\* Every request is delivered once, in order and with its own body, for any programs of
\* requests and any cut of careful reads (AsSentCareful; Web::parse(), readEvents()).
THEOREM AsSentAlways == HttpSpec => []AsSentCareful
<1>1. HttpInit => HttpInv
  BY HttpInvInit
<1>2. HttpInv /\ [HttpNext]_httpVars => HttpInv'
  BY HttpInvStep
<1>3. HttpInv => AsSentCareful
  BY HttpInvSent
<1> QED
  BY <1>1, <1>2, <1>3, PTL DEF HttpSpec

(***************************************************************************)
(* Reads that end anywhere, of a client that waits for its answers.        *)
(***************************************************************************)
\* the stages of a chunk
Stages == {"size", "end_size", "body", "stop_body", "end_body"}

\* a chunk is in one of them
OnStage(c) == "stage" \in DOMAIN c /\ c.stage \in Stages

\* a pass over chunks that lost its way
Adrift(r) ==
  /\ DOMAIN r = {"p", "taken", "done"}
  /\ {"chunk", "state", "body"} \subseteq DOMAIN r.p /\ OnStage(r.p.chunk)
  /\ "astray" \in DOMAIN r.p /\ r.p.astray = Yes

\* Setting what follows does not bring it back.
LEMMA AdriftSet ==
  ASSUME NEW r, Adrift(r), NEW x, NEW t \in Stages, NEW c, OnStage(c)
  PROVE  /\ Adrift(Moved(r, x)) /\ Adrift(Finished(r, x)) /\ Adrift(Strayed(r, Yes))
         /\ Adrift(Staged(r, t)) /\ Adrift(Filled(r, x)) /\ Adrift(Chunked(r, c)) /\ Adrift(Ended(r, x))
         /\ Adrift(Became(r, WithBody(r.p, x)))
<1> DEFINE Drifts(p) == {"chunk", "state", "body"} \subseteq DOMAIN p /\ OnStage(p.chunk)
                       /\ "astray" \in DOMAIN p /\ p.astray = Yes
<1>1. DOMAIN r = {"p", "taken", "done"} /\ Drifts(r.p)
  BY DEF Adrift
<1>2. Adrift(Moved(r, x)) /\ Adrift(Finished(r, x))
  BY <1>1 DEF Adrift, Moved, Finished
<1>3. Adrift(Strayed(r, Yes)) /\ Adrift(Chunked(r, c)) /\ Adrift(Ended(r, x))
  BY <1>1 DEF Adrift, Chunked, Ended, Strayed
<1>4. Adrift(Staged(r, t)) /\ Adrift(Filled(r, x))
  BY <1>1 DEF Adrift, Staged, Filled, OnStage
<1>5. Adrift(Became(r, WithBody(r.p, x)))
  BY <1>1 DEF Adrift, Became, WithBody
<1> QED
  BY <1>2, <1>3, <1>4, <1>5

\* The stages of the chunks there are.
LEMMA StagesAre ==
  "stop_body" \in Stages /\ "end_body" \in Stages /\ "body" \in Stages /\ OnStage(Fresh)
BY DEF Stages, OnStage, Fresh

\* A chunk that ends does not bring it back,
LEMMA AdriftStops ==
  ASSUME NEW r, Adrift(r), NEW o, NEW f \in BOOLEAN
  PROVE  Adrift(StopAt(r, o, f))
<1>1. r.p.astray = Yes
  BY DEF Adrift
<1>2. (r.p.astray \/ f) = Yes
  BY <1>1 DEF Yes
<1>3. StopAt(r, o, f) = Finished(Moved(Strayed(Ended(Chunked(r, Fresh), "end"), Yes), o), Yes)
  BY <1>2 DEF StopAt, Finished, Moved, Strayed, Ended, Chunked, Yes
<1>4. Adrift(Finished(Moved(Strayed(Ended(Chunked(r, Fresh), "end"), Yes), o), Yes))
  BY AdriftSet, StagesAre
<1> QED
  BY <1>3, <1>4

\* nor does a size,
LEMMA AdriftSizes ==
  ASSUME NEW r, Adrift(r), NEW o
  PROVE  Adrift(SizeLetter(r, o))
<1> DEFINE c == [stage |-> "end_size", size |-> SizeOf(r.p.chunk.data), data |-> <<>>]
<1>1. CASE Mark(o) = "cr"
  <2>1. r.p.astray = Yes
    BY DEF Adrift
  <2>2. (r.p.astray \/ SizeOf(r.p.chunk.data) = -1) = Yes
    BY <2>1 DEF Yes
  <2>3. SizeLetter(r, o)
          = [r EXCEPT !.taken = o, !.p.astray = @ \/ SizeOf(r.p.chunk.data) = -1, !.p.chunk = c]
    BY <1>1 DEF SizeLetter
  <2>5. OnStage(c)
    BY DEF OnStage, Stages
  <2> HIDE DEF c
  <2>4. SizeLetter(r, o) = Chunked(Strayed(Moved(r, o), Yes), c)
    BY <2>2, <2>3 DEF Chunked, Strayed, Moved
  <2> QED
    BY <2>4, <2>5, AdriftSet, StagesAre
<1>2. CASE Mark(o) # "cr"
  <2> DEFINE d == Append(r.p.chunk.data, o)
  <2>1. SizeLetter(r, o) = Filled(Moved(r, o), d)
    BY <1>2 DEF SizeLetter, Filled, Moved
  <2> HIDE DEF d
  <2> QED
    BY <2>1, AdriftSet, StagesAre
<1> QED
  BY <1>1, <1>2

\* nor does any letter.
LEMMA AdriftLetters ==
  ASSUME NEW r, Adrift(r), NEW o, NEW a, NEW b
  PROVE  Adrift(ChunkLetter(r, o, a, b))
<1>1. Adrift(EndSizeLetter(r, o, b))
  <2> DEFINE n == r.p.chunk.size
  <2>1. CASE Mark(o) # "lf"
    BY <2>1, AdriftStops DEF EndSizeLetter
  <2>2. CASE Mark(o) = "lf" /\ n <= 0
    <3>1. EndSizeLetter(r, o, b) = Staged(Moved(r, o), "stop_body")
      BY <2>2 DEF EndSizeLetter, Staged, Moved
    <3> QED
      BY <3>1, AdriftSet, StagesAre
  <2>3. CASE Mark(o) = "lf" /\ ~(n <= 0) /\ b - o >= n
    <3> DEFINE d == Marks(o, o + n)
    <3>1. EndSizeLetter(r, o, b) = Filled(Staged(Moved(r, o + n), "stop_body"), d)
      BY <2>3 DEF EndSizeLetter, Staged, Moved, Filled
    <3> HIDE DEF d, n
    <3> QED
      BY <3>1, AdriftSet, StagesAre
  <2>4. CASE Mark(o) = "lf" /\ ~(n <= 0) /\ ~(b - o >= n)
    <3> DEFINE d == Marks(o, b)
    <3>1. EndSizeLetter(r, o, b) = Filled(Staged(Moved(r, b), "body"), d)
      BY <2>4 DEF EndSizeLetter, Staged, Moved, Filled
    <3> HIDE DEF d
    <3> QED
      BY <3>1, AdriftSet, StagesAre
  <2> QED
    BY <2>1, <2>2, <2>3, <2>4
<1>2. Adrift(BodyPart(r, a, b))
  <2> DEFINE rest == r.p.chunk.size - Len(r.p.chunk.data)
  <2>1. CASE b - a >= rest
    <3> DEFINE d == r.p.chunk.data \o Marks(a, a + rest)
    <3>1. BodyPart(r, a, b) = Filled(Staged(Moved(r, a + rest), "stop_body"), d)
      BY <2>1 DEF BodyPart, Staged, Moved, Filled
    <3> HIDE DEF d, rest
    <3> QED
      BY <3>1, AdriftSet, StagesAre
  <2>2. CASE ~(b - a >= rest)
    <3> DEFINE d == r.p.chunk.data \o Marks(a, b)
    <3>1. BodyPart(r, a, b) = Filled(Moved(r, b), d)
      BY <2>2 DEF BodyPart, Moved, Filled
    <3> HIDE DEF d
    <3> QED
      BY <3>1, AdriftSet, StagesAre
  <2> QED
    BY <2>1, <2>2
<1>3. Adrift(StopBodyLetter(r, o))
  <2>1. CASE Mark(o) # "cr"
    BY <2>1, AdriftStops DEF StopBodyLetter
  <2>2. CASE Mark(o) = "cr"
    <3>1. StopBodyLetter(r, o) = Staged(Moved(r, o), "end_body")
      BY <2>2 DEF StopBodyLetter, Staged, Moved
    <3> QED
      BY <3>1, AdriftSet, StagesAre
  <2> QED
    BY <2>1, <2>2
<1>4. Adrift(EndBodyLetter(r, o))
  <2>1. CASE Mark(o) # "lf"
    BY <2>1, AdriftStops DEF EndBodyLetter
  <2>2. CASE Mark(o) = "lf" /\ r.p.chunk.size <= 0
    BY <2>2, AdriftStops DEF EndBodyLetter
  <2>3. CASE Mark(o) = "lf" /\ ~(r.p.chunk.size <= 0)
    <3> DEFINE d == r.p.body \o r.p.chunk.data
               q == WithBody(r.p, d)
               v == Became(r, q)
    <3>1. EndBodyLetter(r, o) = [r EXCEPT !.taken = o, !.p = [Binary(@, @.chunk.data) EXCEPT !.chunk = Fresh]]
      BY <2>3 DEF EndBodyLetter
    <3>2. Binary(r.p, r.p.chunk.data) = q
      BY DEF Binary, WithBody
    <3>3. Adrift(v)
      <4> HIDE DEF d
      <4> QED
        BY AdriftSet, StagesAre
    <3>4. v.p = q
      <4>1. "p" \in DOMAIN r
        BY DEF Adrift
      <4> HIDE DEF q
      <4> QED
        BY <4>1 DEF Became
    <3> HIDE DEF q
    <3>5. EndBodyLetter(r, o) = Became(Moved(r, o), WithChunk(q, Fresh))
      BY <3>1, <3>2 DEF Became, Moved, WithChunk
    <3>6. Became(Moved(r, o), WithChunk(q, Fresh)) = Chunked(Moved(v, o), Fresh)
      BY <3>4 DEF Became, Moved, Chunked, WithChunk
    <3> HIDE DEF v
    <3> QED
      BY <3>3, <3>5, <3>6, AdriftSet, StagesAre
  <2> QED
    BY <2>1, <2>2, <2>3
<1>5. Adrift(SizeLetter(r, o))
  BY AdriftSizes
<1>6. CASE r.done \/ o <= r.taken
  BY <1>6 DEF ChunkLetter
<1>7. CASE ~(r.done \/ o <= r.taken)
  <2>1. r.p.chunk.stage \in Stages
    BY DEF Adrift, OnStage
  <2> QED
    BY <1>1, <1>2, <1>3, <1>4, <1>5, <1>7, <2>1 DEF ChunkLetter, Stages
<1> QED
  BY <1>6, <1>7

\* a read that ended before the blank line leaves the parser after the line of the first
\* chunk, whose data it takes for a size
Junk(e, k, p, s) ==
  \E n \in 0..3 : /\ Frame(e, k, Begins(e, k) + 5, n)
                  /\ s \in Begins(e, k) + 7..Begins(e, k) + 7 + n
                  /\ p = OfChunks(k, ChunkState("size", 0, Marks(Begins(e, k) + 7, s)), <<>>)

\* The marks of data.
LEMMA DataMarks ==
  ASSUME NEW e \in Environments, NEW o \in 1..Len(SentBy(e)), SentBy(e)[o].data
  PROVE  SentBy(e)[o].mark \in {"x", "lf"}
<1>1. SentBy(e)[o] \in AllLetters
  BY Layout
<1> QED
  BY <1>1 DEF AllLetters

\* Data are no size.
LEMMA NoSize ==
  ASSUME NEW o \in Nat, NEW s \in Nat, o <= s, s = o + 1 => Mark(s) \in {"x", "lf"}
  PROVE  SizeOf(Marks(o, s)) = -1
<1> DEFINE m == Marks(o, s)
<1>1. m \in Seq(Int) /\ Len(m) = s - o /\ \A i \in 1..s - o : m[i] = o + i
  BY MarksAre
<1>2. ~(Len(m) = 1 /\ Mark(m[1]) \in {"0"} \cup Range(Digits))
  <2> SUFFICES ASSUME Len(m) = 1, Mark(m[1]) \in {"0"} \cup Range(Digits) PROVE FALSE
    OBVIOUS
  <2>1. s = o + 1 /\ m[1] = s
    <3> HIDE DEF m
    <3>1. s - o = 1
      BY <1>1
    <3> QED
      BY <1>1, <3>1
  <2>2. Mark(s) \in {"x", "lf"}
    BY <2>1
  <2>3. Range(Digits) = {"1", "2", "3"}
    BY DEF Range, Digits
  <2> HIDE DEF m
  <2> QED
    BY <2>1, <2>2, <2>3
<1> HIDE DEF m
<1> QED
  BY <1>2 DEF SizeOf, m

\* Data are collected as a size until a carriage return makes them one; it is none.
LEMMA JunkLetter ==
  ASSUME env \in Environments, stream = SentBy(env), NEW k \in 1..Count(env),
         NEW p, NEW s \in Nat, Junk(env, k, p, s), NEW u, u = s + 1, u <= EndOf(env, k),
         NEW a, NEW b, NEW r, r = ChunkLetter(Pass(p, s, No), u, a, b)
  PROVE  Adrift(r) \/ (r = Pass(r.p, u, No) /\ Junk(env, k, r.p, u))
<1> DEFINE o == Begins(env, k) + 7
           m == Marks(o, s)
           c == ChunkState("size", 0, m)
           q == Pass(p, s, No)
<1>1. PICK n \in 0..3 : /\ Frame(env, k, Begins(env, k) + 5, n) /\ s \in o..o + n
                        /\ p = OfChunks(k, c, <<>>)
  BY DEF Junk
<1>2. o \in Nat /\ o <= s /\ EndOf(env, k) <= Total /\ s < u /\ u \in 1..Total
  <2>1. Begins(env, k) \in Nat /\ EndOf(env, k) \in Nat /\ EndOf(env, k) <= Total
    BY SentIs DEF Total
  <2>2. Total \in Nat
    BY Layout DEF Total
  <2> QED
    BY <1>1, <2>1, <2>2
<1>3. /\ \A i \in 1..n : stream[o + i].data
      /\ stream[o + n + 1] = Plain(k, "cr") /\ o + n + 2 <= EndOf(env, k)
  <2> DEFINE y == Begins(env, k) + 5
  <2>1. /\ y + n + 4 <= EndOf(env, k) /\ \A i \in 1..n : SentBy(env)[y + 2 + i].data
        /\ SentBy(env)[y + n + 3] = Plain(k, "cr")
    BY <1>1 DEF Frame
  <2>2. Begins(env, k) \in Nat
    BY SentIs
  <2>3. y + 2 = o /\ y + n + 3 = o + n + 1 /\ y + n + 4 = o + n + 2
    BY <2>2
  <2> HIDE DEF y, o
  <2> QED
    BY <2>1, <2>3
<1>4. \A v \in o + 1..o + n : Mark(v) \in {"x", "lf"}
  <2> TAKE v \in o + 1..o + n
  <2>1. v - o \in 1..n /\ o + (v - o) = v /\ v \in 1..Total
    <3>1. EndOf(env, k) \in Nat /\ Total \in Nat
      BY SentIs, Layout DEF Total
    <3> QED
      BY <1>2, <1>3, <3>1
  <2>2. stream[v].data
    BY <1>3, <2>1
  <2> QED
    BY <2>1, <2>2, DataMarks DEF Mark, Total
<1>5. r = SizeLetter(q, u)
  <2>1. p.chunk.stage = "size"
    BY <1>1, StageOf
  <2> QED
    BY <1>2, <2>1, ChunkLetterIs
<1>6. q.p = p /\ p.chunk = c /\ c.data = m
  BY <1>1, PassIs, WebIs DEF OfChunks, ChunkState
<1>7. CASE u <= o + n
  <2> DEFINE w == Append(m, u)
  <2>1. Mark(u) # "cr"
    <3>1. u \in o + 1..o + n
      BY <1>2, <1>7
    <3> QED
      BY <1>4, <3>1
  <2>2. r = Filled(Moved(q, u), w)
    <3> HIDE DEF q, c, m
    <3> QED
      BY <1>5, <1>6, <2>1 DEF SizeLetter, Filled, Moved
  <2>3. Filled(Moved(q, u), w) = Pass(OfChunks(k, ChunkState("size", 0, w), <<>>), u, No)
    <3> HIDE DEF w, m
    <3> QED
      BY <1>1, PassSet, ChunkSet
  <2>4. w = Marks(o, u)
    <3>1. m \in Seq(Int) /\ Len(m) = s - o /\ \A i \in 1..s - o : m[i] = o + i
      BY <1>2, MarksAre
    <3> DEFINE z == Marks(o, u)
               y == s - o
    <3>2. z \in Seq(Int) /\ Len(z) = u - o /\ \A i \in 1..u - o : z[i] = o + i
      <4>1. u \in Nat /\ o <= u
        BY <1>2
      <4> HIDE DEF o
      <4> QED
        BY <1>2, <4>1, MarksAre
    <3>6. y \in Nat /\ u - o = y + 1 /\ u \in Int /\ o + (y + 1) = u
      BY <1>2
    <3> HIDE DEF m, z, o, y
    <3>7. Len(m) = y /\ \A i \in 1..y : m[i] = o + i
      BY <3>1 DEF y
    <3>8. m \in Seq(Int)
      BY <3>1
    <3>9. w \in Seq(Int) /\ Len(w) = y + 1 /\ w[y + 1] = u /\ \A i \in 1..y : w[i] = m[i]
      BY <3>6, <3>7, <3>8
    <3> HIDE DEF w
    <3>3. Len(w) = y + 1 /\ \A i \in 1..y + 1 : w[i] = z[i]
      <4>1. \A i \in 1..y + 1 : i \in 1..y \/ i = y + 1
        BY <3>6
      <4>2. \A i \in 1..y + 1 : z[i] = o + i
        BY <3>2, <3>6
      <4> QED
        BY <3>6, <3>7, <3>9, <4>1, <4>2
    <3>4. z \in Seq(Int) /\ Len(z) = y + 1
      BY <3>2, <3>6
    <3>5. w = z
      BY <3>3, <3>4, <3>9
    <3> QED
      BY <3>5 DEF z
  <2>5. r = Pass(OfChunks(k, ChunkState("size", 0, Marks(o, u)), <<>>), u, No)
    BY <2>2, <2>3, <2>4
  <2>6. u \in o..o + n
    BY <1>2, <1>7
  <2>7. r.p = OfChunks(k, ChunkState("size", 0, Marks(o, u)), <<>>)
    BY <2>5, PassIs
  <2> QED
    BY <1>1, <2>5, <2>6, <2>7 DEF Junk
<1>8. CASE ~(u <= o + n)
  <2>1. u = o + n + 1 /\ s = o + n
    BY <1>1, <1>2, <1>8
  <2>2. Mark(u) = "cr"
    BY <1>3, <2>1, PlainIs DEF Mark
  <2>3. SizeOf(m) = -1
    <3>1. s = o + 1 => s \in o + 1..o + n
      BY <1>1, <1>2
    <3>2. s = o + 1 => Mark(s) \in {"x", "lf"}
      BY <1>4, <3>1
    <3> QED
      BY <1>2, <3>2, NoSize
  <2> DEFINE x == ChunkState("end_size", -1, <<>>)
             v == Pass(Web("body", k, -1, k, x, <<>>), u, No)
  <2>4. r = [q EXCEPT !.taken = u, !.p.astray = @ \/ TRUE, !.p.chunk = x]
    <3>1. SizeOf(q.p.chunk.data) = -1
      BY <1>6, <2>3
    <3>2. [stage |-> "end_size", size |-> -1, data |-> <<>>] = x
      BY DEF ChunkState
    <3> HIDE DEF q, x
    <3> QED
      BY <1>5, <2>2, <3>1, <3>2 DEF SizeLetter
  <2>5. r = Strayed(Chunked(Moved(q, u), x), Yes)
    <3>1. (q.p.astray \/ TRUE) = Yes
      BY DEF Yes
    <3> HIDE DEF q, x
    <3> QED
      BY <2>4, <3>1 DEF Strayed, Chunked, Moved
  <2>6. Chunked(Moved(q, u), x) = v
    <3> HIDE DEF x, c
    <3> QED
      BY <1>1, PassSet, WebSet DEF OfChunks
  <2>7. Adrift(Strayed(v, Yes))
    <3>1. OnStage(x)
      BY DEF OnStage, Stages, ChunkState
    <3> HIDE DEF x
    <3> QED
      BY <3>1 DEF Adrift, Strayed, Pass, Web
  <2> QED
    BY <2>5, <2>6, <2>7
<1> QED
  BY <1>7, <1>8

(***************************************************************************)
(* Bodies that are read after a blank line was cut.                        *)
(***************************************************************************)
\* the loop over chunks, in such data or adrift
JunkRun(e, k, a, i, r) ==
  Adrift(r) \/ (r = Pass(r.p, a + i, No) /\ Junk(e, k, r.p, a + i))

\* The loop stays there or loses its way.
LEMMA JunkLoop ==
  ASSUME env \in Environments, stream = SentBy(env), NEW k \in 1..Count(env),
         NEW a \in Nat, NEW b \in Nat, a <= b, b <= EndOf(env, k),
         NEW p, Junk(env, k, p, a), NEW r, r = ReadChunks(p, a, b)
  PROVE  Adrift(r) \/ (r.taken = b /\ Junk(env, k, r.p, b))
<1>1. PICK f : IsRun("body", Pass(p, a, No), a, b, b - a, f) /\ ReadChunks(p, a, b) = f[b - a]
  BY ReadChunksIs
<1>2. /\ f[0] = Pass(p, a, No)
      /\ \A i \in 1..b - a : f[i] = ChunkLetter(f[i - 1], a + i, a, b)
  BY <1>1 DEF IsRun, Letter
<1>3. JunkRun(env, k, a, 0, f[0])
  <2>1. a + 0 = a
    OBVIOUS
  <2>2. f[0].p = p
    BY <1>2, PassIs
  <2> QED
    BY <1>2, <2>1, <2>2 DEF JunkRun
<1> DEFINE B == {i \in Nat : i <= b - a /\ ~JunkRun(env, k, a, i, f[i])}
<1>4. B = {}
  <2> SUFFICES ASSUME B # {} PROVE FALSE
    OBVIOUS
  <2>1. PICK n \in B : \A y \in B : n <= y
    <3>1. B \subseteq Nat
      OBVIOUS
    <3> HIDE DEF B
    <3> QED
      BY <3>1, LeastNat
  <2>2. n \in Nat /\ n <= b - a /\ ~JunkRun(env, k, a, n, f[n])
    BY <2>1
  <2>3. n # 0
    BY <1>3, <2>2
  <2> DEFINE i == n - 1
             s == a + i
             u == a + n
             q == f[i]
             v == f[n]
  <2>4. i \in Nat /\ i \notin B /\ i <= b - a /\ n \in 1..b - a /\ s \in Nat /\ u = s + 1 /\ u <= EndOf(env, k)
    <3>1. EndOf(env, k) \in Nat
      BY SentIs
    <3> QED
      BY <2>1, <2>2, <2>3, <3>1
  <2>5. JunkRun(env, k, a, i, q)
    BY <2>4
  <2>6. v = ChunkLetter(q, u, a, b)
    BY <1>2, <2>4
  <2>7. ~JunkRun(env, k, a, n, v)
    BY <2>2
  <2>8. CASE Adrift(q)
    <3> HIDE DEF q, u
    <3>1. Adrift(v)
      BY <2>6, <2>8, AdriftLetters
    <3> HIDE DEF v
    <3> QED
      BY <2>7, <3>1 DEF JunkRun
  <2>9. CASE q = Pass(q.p, s, No) /\ Junk(env, k, q.p, s)
    <3> DEFINE y == q.p
    <3>1. v = ChunkLetter(Pass(y, s, No), u, a, b) /\ Junk(env, k, y, s)
      BY <2>6, <2>9
    <3> HIDE DEF y, q, v, i, s
    <3>2. Adrift(v) \/ (v = Pass(v.p, u, No) /\ Junk(env, k, v.p, u))
      BY <2>4, <3>1, JunkLetter
    <3> QED
      BY <2>7, <3>2 DEF JunkRun
  <2> HIDE DEF q, v, u
  <2> QED
    BY <2>5, <2>8, <2>9 DEF JunkRun
<1>5. JunkRun(env, k, a, b - a, f[b - a])
  <2>1. b - a \in Nat /\ b - a <= b - a
    OBVIOUS
  <2> QED
    BY <1>4, <2>1
<1>6. a + (b - a) = b
  OBVIOUS
<1>7. r = f[b - a]
  BY <1>1
<1>8. JunkRun(env, k, a, b - a, r)
  BY <1>5, <1>7
<1>9. CASE r = Pass(r.p, b, No) /\ Junk(env, k, r.p, b)
  <2>1. r.taken = b
    BY <1>9, PassIs
  <2> QED
    BY <1>9, <2>1
<1> QED
  BY <1>6, <1>8, <1>9 DEF JunkRun

\* the parser is in a body of a length, and may have missed some of it
Loose(e, k, p, s) ==
  \E m, d : /\ s \in Nat /\ Begins(e, k) + 4 <= s /\ s <= EndOf(e, k)
            /\ m \in Nat /\ m < Announced(e, k) /\ m <= s - (Begins(e, k) + 4)
            /\ d \in Seq(Int)
            /\ p = Web("body", k, Announced(e, k), k, ChunkState("size", m, <<>>), d)
            /\ Len(d) = m

\* the end of request k
Complete(e, k, p, s) ==
  p.state = "end" /\ p.astray = No /\ p.of = k /\ s = EndOf(e, k) /\ p.body \in Seq(Int)

\* Who has missed nothing may have missed some.
LEMMA LengthLoose ==
  ASSUME NEW e \in Environments, NEW k \in 1..Count(e), e.program[k].body = "length",
         NEW p, NEW s, InLength(e, k, p, s), NEW v \in Nat, s <= v, v <= EndOf(e, k)
  PROVE  Loose(e, k, p, v)
<1> DEFINE g == Begins(e, k) + 4
           l == Announced(e, k)
           m == s - g
           c == ChunkState("size", m, <<>>)
<1>1. PICK d : /\ s \in Nat /\ g <= s /\ s < EndOf(e, k) /\ Len(d) = m /\ Has(e, k, s, d)
               /\ p = Web("body", k, l, k, c, d)
  BY DEF InLength
<1>2. g \in Nat /\ l \in Nat /\ EndOf(e, k) = g + l
  BY SentIs, LengthEnds
<1>3. m \in Nat /\ m < l /\ m <= v - g /\ g <= v
  <2> HIDE DEF g, l
  <2> QED
    BY <1>1, <1>2
<1>4. d \in Seq(Int)
  BY <1>1 DEF Has
<1> HIDE DEF m
<1> QED
  BY <1>1, <1>3, <1>4 DEF Loose

\* A read of such a body.
LEMMA LoosePiece ==
  ASSUME env \in Environments, NEW k \in 1..Count(env), env.program[k].body = "length",
         NEW a \in Nat, NEW b \in Nat, a <= b, b <= EndOf(env, k),
         NEW p, Loose(env, k, p, a), NEW r, r = ReadLength(p, a, b)
  PROVE  /\ r.taken = b
         /\ (a < b /\ Complete(env, k, r.p, b)) \/ Loose(env, k, r.p, b)
<1> DEFINE g == Begins(env, k) + 4
           z == EndOf(env, k)
           l == Announced(env, k)
<1>1. PICK m, d : /\ g <= a /\ a <= z /\ m \in Nat /\ m < l /\ m <= a - g /\ d \in Seq(Int)
                  /\ p = Web("body", k, l, k, ChunkState("size", m, <<>>), d) /\ Len(d) = m
  BY DEF Loose
<1>2. g \in Nat /\ z \in Nat /\ l \in Nat /\ z = g + l
  BY SentIs, LengthEnds
<1> DEFINE y == m + (b - a)
           w == d \o Marks(a, b)
<1> HIDE DEF g, l
<1>3. /\ y \in Nat /\ l # 0 /\ y <= b - g /\ y <= l /\ b - a \in Nat
      /\ b - a <= l - m /\ b - a <= l
      /\ y = l => b = z /\ a < b
  <2>1. b <= z /\ g \in Nat /\ z \in Nat /\ l \in Nat /\ m \in Nat /\ z = g + l /\ g <= a /\ m < l /\ m <= a - g
    BY <1>1, <1>2
  <2> HIDE DEF z
  <2>2. y \in Nat /\ l # 0 /\ y <= b - g /\ b - a \in Nat
    BY <2>1
  <2>3. y <= l /\ b - a <= l - m /\ b - a <= l
    BY <2>1
  <2>4. y = l => b = z /\ a < b
    BY <2>1
  <2> QED
    BY <2>2, <2>3, <2>4
<1>4. p.body = d
  BY <1>1, WebIs
<1>5. w \in Seq(Int) /\ Len(w) = y
  <2> DEFINE x == Marks(a, b)
             n == b - a
  <2>1. x \in Seq(Int) /\ Len(x) = n
    BY MarksAre
  <2>2. n \in Nat
    BY <1>3
  <2> HIDE DEF x, n, w
  <2>3. IsJoined(w, d, m, x, n, Int)
    BY <1>1, <2>1, <2>2, Joining DEF w, x
  <2> QED
    BY <2>3 DEF IsJoined, n
<1>6. Min({b - a, l - Kept(p)}) = b - a
  <2> DEFINE x == l - Kept(p)
  <2>1. x \in Int /\ b - a <= x
    <3>1. CASE env.keeps
      <4>1. x = l - m
        BY <1>1, <1>4, <3>1 DEF Kept
      <4> QED
        BY <1>1, <1>2, <1>3, <4>1
    <3>2. CASE ~env.keeps
      <4>1. x = l
        BY <1>2, <3>2 DEF Kept
      <4> QED
        BY <1>2, <1>3, <4>1
    <3> QED
      BY <3>1, <3>2
  <2>2. b - a \in Int
    OBVIOUS
  <2> HIDE DEF x
  <2> QED
    BY <2>1, <2>2, LessIs DEF x
<1>7. IsConcat(w, d, Marks(a, b))
  BY DEF IsConcat
<1> HIDE DEF w
<1>8. LengthTo(r, k, l, m + (b - a), w, b)
  BY <1>1, <1>2, <1>3, <1>6, <1>7, LengthSet
<1>9. /\ r.taken = b
      /\ y = l => r.p = Web("end", k, l, k, Fresh, w)
      /\ y # l => r.p = Web("body", k, l, k, ChunkState("size", y, <<>>), w)
  BY <1>8 DEF LengthTo
<1>10. CASE y = l
  <2>1. r.p = Web("end", k, l, k, Fresh, w)
    BY <1>9, <1>10
  <2>2. r.p.state = "end" /\ r.p.astray = No /\ r.p.of = k /\ r.p.body = w
    BY <2>1, WebIs
  <2> QED
    BY <1>3, <1>5, <1>9, <1>10, <2>2 DEF Complete
<1>11. CASE y # l
  <2>1. y < l /\ g <= b
    BY <1>1, <1>2, <1>3, <1>11
  <2>2. r.p = Web("body", k, l, k, ChunkState("size", y, <<>>), w)
    BY <1>9, <1>11
  <2> HIDE DEF y
  <2>3. Loose(env, k, r.p, b)
    BY <1>3, <1>5, <2>1, <2>2 DEF Loose, g, l
  <2> QED
    BY <1>9, <2>3
<1> QED
  BY <1>10, <1>11

(***************************************************************************)
(* Blank lines that were cut.                                              *)
(***************************************************************************)
\* The blank line, read from its beginning, does not end the headers at once;
LEMMA FirstBlank ==
  ASSUME NEW p, NEW s, NEW o, Mark(o) = "cr"
  PROVE  PrepareLetter(Lines(p, s, No, "begin", No), o) = Lines(p, s, No, "blank", No)
<1> DEFINE r == Lines(p, s, No, "begin", No)
<1>1. r.old = "begin" /\ ~r.done /\ ~r.stop
  <2>1. r.old = "begin" /\ r.done = No /\ r.stop = No
    BY LinesAre
  <2> HIDE DEF r
  <2> QED
    BY <2>1 DEF No
<1>2. Aged(Stopping(r, No), "blank") = Lines(p, s, No, "blank", No)
  BY LinesSet
<1>3. ~EndsLine(o)
  BY DEF EndsLine
<1> HIDE DEF r
<1>4. PrepareLetter(r, o) = [r EXCEPT !.stop = FALSE, !.old = "blank"]
  BY <1>1, <1>3 DEF PrepareLetter
<1>5. [r EXCEPT !.stop = FALSE, !.old = "blank"] = Aged(Stopping(r, No), "blank")
  BY DEF Aged, Stopping, No
<1> QED
  BY <1>2, <1>4, <1>5 DEF r

\* its line feed does,
LEMMA FirstEnd ==
  ASSUME NEW p, p.state = "headers", NEW s, NEW o, Mark(o) = "lf", NEW q, q = HeadersEnd(p)
  PROVE  PrepareLetter(Lines(p, s, No, "blank", No), o) = Lines(q, o, Yes, "line", No)
<1> DEFINE r == Lines(p, s, No, "blank", No)
<1>1. r.p = p /\ r.old = "blank" /\ ~r.done /\ ~r.stop
  <2>1. r.p = p /\ r.old = "blank" /\ r.done = No /\ r.stop = No
    BY LinesAre
  <2> HIDE DEF r
  <2> QED
    BY <2>1 DEF No
<1>2. Became(Moved(Aged(Stopping(r, Yes), "line"), o), q) = Lines(q, o, Yes, "line", No)
  BY LinesSet
<1>3. EndsLine(o)
  BY DEF EndsLine
<1> HIDE DEF r
<1>4. r.p.state \in {"headers", "body"}
  BY <1>1
<1>5. PrepareLetter(r, o)
        = LET end == r.p.state \in {"headers", "body"}
          IN [r EXCEPT !.stop = end, !.old = "line", !.taken = o,
                       !.p = IF end THEN HeadersEnd(@) ELSE @]
  BY <1>1, <1>3, Zenon DEF PrepareLetter
<1>6. PrepareLetter(r, o) = [r EXCEPT !.stop = TRUE, !.old = "line", !.taken = o, !.p = HeadersEnd(@)]
  BY <1>4, <1>5
<1>7. [r EXCEPT !.stop = TRUE, !.old = "line", !.taken = o, !.p = HeadersEnd(@)]
        = Became(Moved(Aged(Stopping(r, Yes), "line"), o), q)
  BY <1>1 DEF Aged, Stopping, Became, Moved, Yes
<1> QED
  BY <1>2, <1>6, <1>7 DEF r

\* and other letters only go by.
LEMMA OtherLetter ==
  ASSUME NEW p, NEW s, NEW w, NEW o, ~EndsLine(o)
  PROVE  \E x : PrepareLetter(Lines(p, s, Yes, w, No), o) = Lines(p, s, Yes, x, No)
<1> DEFINE r == Lines(p, s, Yes, w, No)
           old == IF Mark(o) = "cr" THEN (IF r.old \in {"line", "begin"} THEN "blank" ELSE "cr")
                  ELSE "x"
<1>1. r.stop /\ ~r.done
  <2>1. r.stop = Yes /\ r.done = No
    BY LinesAre
  <2> HIDE DEF r
  <2> QED
    BY <2>1 DEF No, Yes
<1>2. \A x : Aged(Stopping(r, Yes), x) = Lines(p, s, Yes, x, No)
  BY LinesSet
<1> HIDE DEF r
<1>3. PrepareLetter(r, o) = [r EXCEPT !.stop = TRUE, !.old = old]
  BY <1>1 DEF PrepareLetter
<1>4. [r EXCEPT !.stop = TRUE, !.old = old] = Aged(Stopping(r, Yes), old)
  BY DEF Aged, Stopping, Yes
<1> HIDE DEF old
<1> QED
  BY <1>2, <1>3, <1>4 DEF r

\* the loop over the lines of a request when the read before ended before the blank line
OnBlank(k, g, o, r) ==
  LET q == HeadersEnd(Titled(k))
  IN /\ o = g + 2 => r = Lines(Titled(k), o, No, "begin", No)
     /\ o = g + 3 => r = Lines(Titled(k), g + 2, No, "blank", No)
     /\ o \notin g + 2..g + 3 =>
          \/ /\ \E w : r = Lines(q, g + 4, Yes, w, No)
             /\ \A v \in g + 5..o : ~EndsLine(v)
          \/ \E v \in g + 5..o : /\ EndsLine(v) /\ \A x \in g + 5..v - 1 : ~EndsLine(x)
                                 /\ \E w : r = Lines(HeadersEnd(q), v, Yes, w, Yes)

\* One letter of that loop.
LEMMA NextBlank ==
  ASSUME env \in Environments, stream = SentBy(env), NEW k \in 1..Count(env),
         NEW g, g = Begins(env, k), NEW o \in Nat, g + 2 <= o, NEW r, OnBlank(k, g, o, r),
         NEW u, u = o + 1
  PROVE  OnBlank(k, g, u, PrepareLetter(r, u))
<1> DEFINE v == PrepareLetter(r, u)
           q == HeadersEnd(Titled(k))
           q2 == HeadersEnd(q)
<1>1. g \in Nat /\ Mark(g + 3) = "cr" /\ Mark(g + 4) = "lf"
  <2>1. SentBy(env)[g + 3] = Plain(k, "cr") /\ SentBy(env)[g + 4] = Plain(k, "lf")
    BY HeadMarks
  <2>2. \A c : Plain(k, c).mark = c
    BY PlainIs
  <2>3. g \in Nat
    BY SentIs
  <2> QED
    BY <2>1, <2>2, <2>3 DEF Mark
<1> SUFFICES OnBlank(k, g, u, v)
  OBVIOUS
<1>2. CASE o = g + 2
  <2>1. r = Lines(Titled(k), o, No, "begin", No)
    BY <1>2 DEF OnBlank
  <2>2. u = g + 3 /\ u # g + 2 /\ u \in g + 2..g + 3
    BY <1>1, <1>2
  <2>3. v = Lines(Titled(k), g + 2, No, "blank", No)
    BY <1>1, <1>2, <2>1, <2>2, FirstBlank
  <2> HIDE DEF v
  <2> QED
    BY <2>2, <2>3 DEF OnBlank
<1>3. CASE o = g + 3
  <2>1. r = Lines(Titled(k), g + 2, No, "blank", No)
    BY <1>1, <1>3 DEF OnBlank
  <2>2. u = g + 4 /\ u # g + 2 /\ u # g + 3 /\ u \notin g + 2..g + 3
    BY <1>1, <1>3
  <2>3. Titled(k).state = "headers"
    BY WebIs DEF Titled
  <2>4. v = Lines(q, g + 4, Yes, "line", No)
    BY <1>1, <2>1, <2>2, <2>3, FirstEnd
  <2>5. \A x \in g + 5..u : ~EndsLine(x)
    BY <1>1, <2>2
  <2> HIDE DEF v, q
  <2> QED
    BY <2>2, <2>4, <2>5 DEF OnBlank, q
<1>4. CASE o \notin g + 2..g + 3
  <2>0. /\ u # g + 2 /\ u # g + 3 /\ u \notin g + 2..g + 3 /\ u \in g + 5..u
        /\ \A x \in g + 5..u : x # u => x \in g + 5..o
        /\ \A x \in g + 5..u - 1 : x \in g + 5..o
        /\ \A x \in g + 5..o : x \in g + 5..u
    BY <1>1, <1>4
  <2>1. CASE (\E w : r = Lines(q, g + 4, Yes, w, No)) /\ \A x \in g + 5..o : ~EndsLine(x)
    <3>1. PICK w : r = Lines(q, g + 4, Yes, w, No)
      BY <2>1
    <3>2. CASE EndsLine(u)
      <4>1. v = Lines(q2, u, Yes, w, Yes)
        BY <3>1, <3>2, EndLetter
      <4>2. \A x \in g + 5..u - 1 : ~EndsLine(x)
        BY <2>0, <2>1
      <4> HIDE DEF v, q2, q
      <4> QED
        BY <2>0, <3>2, <4>1, <4>2, Zenon DEF OnBlank, q2, q
    <3>3. CASE ~EndsLine(u)
      <4>1. \E x : v = Lines(q, g + 4, Yes, x, No)
        BY <3>1, <3>3, OtherLetter
      <4>2. \A x \in g + 5..u : ~EndsLine(x)
        BY <2>0, <2>1, <3>3
      <4> HIDE DEF v, q
      <4> QED
        BY <2>0, <4>1, <4>2, Zenon DEF OnBlank, q
    <3> QED
      BY <3>2, <3>3
  <2>2. CASE \E y \in g + 5..o : /\ EndsLine(y) /\ \A x \in g + 5..y - 1 : ~EndsLine(x)
                                /\ \E w : r = Lines(q2, y, Yes, w, Yes)
    <3>1. PICK y \in g + 5..o : /\ EndsLine(y) /\ \A x \in g + 5..y - 1 : ~EndsLine(x)
                               /\ \E w : r = Lines(q2, y, Yes, w, Yes)
      BY <2>2
    <3>2. PICK w : r = Lines(q2, y, Yes, w, Yes)
      BY <3>1
    <3>3. v = Lines(q2, y, Yes, w, Yes)
      <4> HIDE DEF q2
      <4> QED
        BY <3>2, DoneLetter
    <3>4. y \in g + 5..u
      BY <2>0
    <3> HIDE DEF v, q2, q
    <3> QED
      BY <2>0, <3>1, <3>3, <3>4, Zenon DEF OnBlank, q2, q
  <2>3. \/ (\E w : r = Lines(q, g + 4, Yes, w, No)) /\ \A x \in g + 5..o : ~EndsLine(x)
        \/ \E y \in g + 5..o : /\ EndsLine(y) /\ \A x \in g + 5..y - 1 : ~EndsLine(x)
                               /\ \E w : r = Lines(q2, y, Yes, w, Yes)
    <3> HIDE DEF q2, q
    <3> QED
      BY <1>4, Zenon DEF OnBlank, q2, q
  <2> QED
    BY <2>1, <2>2, <2>3
<1> QED
  BY <1>1, <1>2, <1>3, <1>4

(***************************************************************************)
(* What such reads come to.                                                *)
(***************************************************************************)
\* That loop.
LEMMA BlankLoop ==
  ASSUME env \in Environments, stream = SentBy(env), NEW k \in 1..Count(env),
         NEW g, g = Begins(env, k), NEW a, a = g + 2, NEW b \in Nat, a <= b
  PROVE  OnBlank(k, g, b, ReadHeaders(Titled(k), a, b))
<1> DEFINE p == Titled(k)
<1>0. g \in Nat /\ a \in Nat
  BY SentIs
<1>1. PICK f : IsRun("headers", Lines(p, a, No, "begin", No), a, b, b - a, f)
               /\ ReadHeaders(p, a, b) = f[b - a]
  <2> HIDE DEF p
  <2> QED
    BY <1>0, ReadHeadersIs
<1>2. /\ f[0] = Lines(p, a, No, "begin", No)
      /\ \A i \in 1..b - a : f[i] = PrepareLetter(f[i - 1], a + i)
  BY <1>1 DEF IsRun, Letter
<1>3. OnBlank(k, g, a, f[0])
  <2>1. a # g + 3 /\ a \in g + 2..g + 3
    BY <1>0
  <2> QED
    BY <1>2, <2>1 DEF OnBlank
<1> DEFINE B == {i \in Nat : i <= b - a /\ ~OnBlank(k, g, a + i, f[i])}
<1>4. B = {}
  <2> SUFFICES ASSUME B # {} PROVE FALSE
    OBVIOUS
  <2>1. PICK n \in B : \A y \in B : n <= y
    <3>1. B \subseteq Nat
      OBVIOUS
    <3> HIDE DEF B
    <3> QED
      BY <3>1, LeastNat
  <2>2. n \in Nat /\ n <= b - a /\ ~OnBlank(k, g, a + n, f[n])
    BY <2>1
  <2>3. n # 0
    <3>1. a + 0 = a
      BY <1>0
    <3> QED
      BY <1>3, <2>2, <3>1
  <2> DEFINE i == n - 1
             o == a + i
             u == a + n
  <2>4. i \in Nat /\ i \notin B /\ i <= b - a /\ n \in 1..b - a /\ o \in Nat /\ g + 2 <= o /\ u = o + 1
    BY <1>0, <2>1, <2>2, <2>3
  <2>5. OnBlank(k, g, o, f[i])
    BY <2>4
  <2>6. f[n] = PrepareLetter(f[i], u)
    BY <1>2, <2>4
  <2> HIDE DEF i, o, u
  <2>7. OnBlank(k, g, u, PrepareLetter(f[i], u))
    BY <2>4, <2>5, NextBlank
  <2> QED
    BY <2>2, <2>6, <2>7 DEF u
<1>5. OnBlank(k, g, a + (b - a), f[b - a])
  <2>1. b - a \in Nat /\ b - a <= b - a
    BY <1>0
  <2> QED
    BY <1>4, <2>1
<1>6. a + (b - a) = b
  BY <1>0
<1> QED
  BY <1>1, <1>5, <1>6

\* To end the headers a second time changes nothing.
LEMMA HeadersTwice ==
  ASSUME env \in Environments, NEW k \in 1..Count(env), NEW p, NEW s, Inside(env, k, p, s)
  PROVE  HeadersEnd(p) = p
<1>1. k # 0 /\ env.program[k] \in Requests
  BY ProgramIs
<1>2. CASE env.program[k].body = "chunks" /\ Within(env, k, p, s)
  <2>1. PICK c, d : p = Web("body", k, -1, k, c, d)
    BY <1>2 DEF Within, Amid, OfChunks
  <2>2. p.of = k /\ p.header = k /\ [p EXCEPT !.state = "body"] = p
    <3>1. p.of = k /\ p.header = k
      BY <2>1, WebIs
    <3> QED
      BY <2>1, <3>1 DEF Web
  <2> QED
    BY <1>1, <1>2, <2>2 DEF HeadersEnd
<1>3. ASSUME env.program[k].body = "length", NEW l, NEW c, NEW d, p = Web("body", k, l, k, c, d),
             l = Length(k), ~(l = 0 /\ ~env.program[k].closes)
      PROVE  HeadersEnd(p) = p
  <2>1. p.of = k /\ p.header = k
    BY <1>3, WebIs
  <2>2. HeadersEnd(p) = LET n == Length(k)
                        IN [p EXCEPT !.length = n,
                                     !.state = IF n = 0 /\ ~env.program[k].closes THEN "end" ELSE "body"]
    BY <1>1, <1>3, <2>1, Zenon DEF HeadersEnd
  <2>3. HeadersEnd(p) = [p EXCEPT !.length = l, !.state = "body"]
    BY <1>3, <2>2
  <2>4. [p EXCEPT !.length = l] = p
    BY <1>3 DEF Web
  <2>5. [p EXCEPT !.state = "body"] = p
    BY <1>3 DEF Web
  <2> DEFINE q == p
  <2>6. [q EXCEPT !.length = l, !.state = "body"] = [[q EXCEPT !.length = l] EXCEPT !.state = "body"]
    <3> HIDE DEF q
    <3> QED
      OBVIOUS
  <2> QED
    BY <2>3, <2>4, <2>5, <2>6
<1>4. CASE env.program[k].body = "length" /\ InLength(env, k, p, s)
  <2> DEFINE l == Announced(env, k)
  <2>1. PICK c, d : p = Web("body", k, l, k, c, d) /\ Begins(env, k) + 4 <= s /\ s < EndOf(env, k) /\ s \in Nat
    BY <1>4 DEF InLength
  <2>2. Begins(env, k) \in Nat /\ l \in Nat /\ EndOf(env, k) = Begins(env, k) + 4 + l
    BY <1>4, SentIs, LengthEnds
  <2>3. l # 0 /\ l = Length(k)
    BY <2>1, <2>2 DEF Length, Announced
  <2> HIDE DEF l
  <2> QED
    BY <1>3, <1>4, <2>1, <2>3
<1>5. CASE Swallows(env, k, p, s)
  <2>1. PICK d : p = Web("body", k, 0, k, Fresh, d)
    BY <1>5 DEF Swallows
  <2>2. env.program[k].body = "length" /\ env.program[k].closes /\ env.program[k].sizes = <<>>
    BY <1>5 DEF Swallows
  <2>3. Length(k) = 0
    BY <2>2, LengthEnds DEF Length, Announced
  <2> QED
    BY <1>3, <2>1, <2>2, <2>3
<1> QED
  BY <1>2, <1>4, <1>5 DEF Inside

\* the parser is in the body of request k, as far as it knows
Among(e, k, p, s) ==
  \/ e.program[k].body = "length" /\ Loose(e, k, p, s)
  \/ e.program[k].body = "chunks" /\ Within(e, k, p, s)
  \/ e.program[k].body = "chunks" /\ Junk(e, k, p, s)
  \/ Swallows(e, k, p, s)

\* the parser expects request k, or is in it, as far as it knows
Near(e, k, p, s) ==
  \/ s = Begins(e, k) /\ p = Begin
  \/ k \in 1..Count(e) /\ s = Begins(e, k) + 1 /\ p = Named(k)
  \/ k \in 1..Count(e) /\ s = Begins(e, k) + 2 /\ p = Titled(k)
  \/ k \in 1..Count(e) /\ Among(e, k, p, s)

\* what parsing gives, or the parser lost its way
Reached(e, k, a, b, r) ==
  \/ r.p.astray = Yes
  \/ /\ r.taken \in Nat /\ a <= r.taken /\ r.taken <= b
     /\ \/ k \in 1..Count(e) /\ a < r.taken /\ Complete(e, k, r.p, r.taken)
        \/ Near(e, k, r.p, r.taken)

\* The parser in a body, as far as it knows.
LEMMA AmongIs ==
  ASSUME NEW e \in Environments, NEW k \in 1..Count(e), NEW p, NEW s, Among(e, k, p, s)
  PROVE  /\ p.state = "body"
         /\ p.length > -1 <=> ~(e.program[k].body = "chunks")
<1>1. CASE e.program[k].body = "length" /\ Loose(e, k, p, s)
  <2>1. PICK c, d : p = Web("body", k, Announced(e, k), k, c, d)
    BY <1>1 DEF Loose
  <2>2. p.state = "body" /\ p.length = Announced(e, k)
    BY <2>1, WebIs
  <2>3. Announced(e, k) \in Nat
    BY <1>1, LengthEnds
  <2> QED
    BY <1>1, <2>2, <2>3
<1>2. CASE e.program[k].body = "chunks" /\ Within(e, k, p, s)
  BY <1>2, InsideIs DEF Inside
<1>3. CASE e.program[k].body = "chunks" /\ Junk(e, k, p, s)
  <2>1. PICK c, d : p = Web("body", k, -1, k, c, d)
    BY <1>3 DEF Junk, OfChunks
  <2>2. p.state = "body" /\ p.length = -1
    BY <2>1, WebIs
  <2> QED
    BY <1>3, <2>2
<1>4. CASE Swallows(e, k, p, s)
  BY <1>4, InsideIs DEF Inside
<1> QED
  BY <1>1, <1>2, <1>3, <1>4 DEF Among

\* Who is in a body knows it.
LEMMA InsideAmong ==
  ASSUME NEW e \in Environments, NEW k \in 1..Count(e), NEW p, NEW s \in Nat, s <= EndOf(e, k),
         Inside(e, k, p, s)
  PROVE  Among(e, k, p, s)
BY LengthLoose DEF Inside, Among

\* A body that was read has ended.
LEMMA DoneComplete ==
  ASSUME NEW e, NEW k, NEW p, NEW s, Done(e, k, p, s)
  PROVE  Complete(e, k, p, s)
BY DoneIs DEF Complete, Has

\* A read that goes well goes on.
LEMMA AdvanceReached ==
  ASSUME NEW e \in Environments, NEW k \in 1..Count(e), NEW a \in Nat, NEW b \in Nat,
         b <= EndOf(e, k), NEW r, Advance(e, k, a, b, r)
  PROVE  Reached(e, k, a, b, r)
<1> DEFINE p == r.p
           s == r.taken
<1>1. s \in Nat /\ a <= s /\ s <= b /\ s <= EndOf(e, k)
  <2>1. EndOf(e, k) \in Nat
    BY SentIs
  <2> QED
    BY <2>1 DEF Advance
<1> HIDE DEF p, s
<1>2. CASE a < s /\ Done(e, k, p, s)
  <2>1. Complete(e, k, p, s)
    BY <1>2, DoneComplete
  <2> QED
    BY <1>1, <1>2, <2>1 DEF Reached, p, s
<1>3. CASE Place(e, k, p, s)
  <2>1. Near(e, k, p, s)
    BY <1>1, <1>3, InsideAmong DEF Place, Near
  <2> QED
    BY <1>1, <2>1 DEF Reached, p, s
<1> QED
  BY <1>2, <1>3 DEF Advance, p, s

\* A read of a body, wherever the ones before it ended.
LEMMA BodyReached ==
  ASSUME env \in Environments, stream = SentBy(env), NEW k \in 1..Count(env),
         NEW a \in Nat, NEW b \in Nat, a <= b, b <= EndOf(env, k), NEW p, Among(env, k, p, a)
  PROVE  Reached(env, k, a, b, ReadPayload(p, a, b))
<1> DEFINE r == ReadPayload(p, a, b)
           l == ReadLength(p, a, b)
           c == ReadChunks(p, a, b)
<1>1. /\ ~(env.program[k].body = "chunks") => r.p = l.p /\ r.taken = l.taken
      /\ env.program[k].body = "chunks" => r.p = c.p /\ r.taken = c.taken
  <2>1. p.length > -1 <=> ~(env.program[k].body = "chunks")
    BY AmongIs
  <2> HIDE DEF l, c
  <2>2. r = LET v == IF p.length > -1 THEN l ELSE c IN [p |-> v.p, taken |-> v.taken]
    BY DEF ReadPayload, l, c
  <2> HIDE DEF r
  <2> QED
    BY <2>1, <2>2
<1>2. CASE env.program[k].body = "length" /\ Loose(env, k, p, a)
  <2>1. l.taken = b /\ ((a < b /\ Complete(env, k, l.p, b)) \/ Loose(env, k, l.p, b))
    <3>1. l = ReadLength(p, a, b)
      OBVIOUS
    <3> HIDE DEF l
    <3> QED
      BY <1>2, <3>1, LoosePiece
  <2>2. r.p = l.p /\ r.taken = l.taken
    BY <1>1, <1>2
  <2> HIDE DEF l, r
  <2> QED
    BY <1>2, <2>1, <2>2 DEF Reached, Near, Among, r
<1>3. CASE env.program[k].body = "chunks" /\ Junk(env, k, p, a)
  <2>1. Adrift(c) \/ (c.taken = b /\ Junk(env, k, c.p, b))
    <3>1. c = ReadChunks(p, a, b)
      OBVIOUS
    <3> HIDE DEF c
    <3> QED
      BY <1>3, <3>1, JunkLoop
  <2>2. r.p = c.p /\ r.taken = c.taken
    BY <1>1, <1>3
  <2> HIDE DEF c, r
  <2> QED
    BY <1>3, <2>1, <2>2 DEF Reached, Near, Among, Adrift, r
<1>4. CASE (env.program[k].body = "chunks" /\ Within(env, k, p, a)) \/ Swallows(env, k, p, a)
  <2>1. Advance(env, k, a, b, r)
    BY <1>4, BodyRead DEF Inside
  <2> HIDE DEF r
  <2> QED
    BY <2>1, AdvanceReached DEF r
<1> QED
  BY <1>2, <1>3, <1>4 DEF Among

(***************************************************************************)
(* Web::parse() of any read.                                               *)
(***************************************************************************)
\* The same when the lines before it came in the same read.
LEMMA Onward ==
  ASSUME env \in Environments, stream = SentBy(env), NEW k \in 1..Count(env),
         NEW a \in Nat, NEW b \in Nat, b <= EndOf(env, k), NEW s \in Nat, a <= s, s <= b,
         NEW q, Among(env, k, q, s), NEW v,
         v = IF q.state = "body" /\ s < b THEN ReadPayload(q, s, b) ELSE [p |-> q, taken |-> s]
  PROVE  Reached(env, k, a, b, v)
<1>1. q.state = "body"
  BY AmongIs
<1>2. CASE s < b
  <2>1. v = ReadPayload(q, s, b)
    BY <1>1, <1>2
  <2>2. Reached(env, k, s, b, ReadPayload(q, s, b))
    BY BodyReached
  <2>3. Reached(env, k, s, b, v)
    BY <2>1, <2>2
  <2> QED
    BY <2>3 DEF Reached
<1>3. CASE ~(s < b)
  <2>1. v = [p |-> q, taken |-> s]
    BY <1>3
  <2> QED
    BY <2>1 DEF Reached, Near
<1> QED
  BY <1>2, <1>3

\* The first end of a line after the blank line is that of the first size.
LEMMA FirstLineEnd ==
  ASSUME env \in Environments, stream = SentBy(env), NEW k \in 1..Count(env),
         env.program[k].body = "chunks", NEW g, g = Begins(env, k), NEW y \in Nat, g + 5 <= y, y <= EndOf(env, k),
         EndsLine(y), \A x \in g + 5..y - 1 : ~EndsLine(x)
  PROVE  Junk(env, k, OfChunks(k, Fresh, <<>>), y)
<1>1. g \in Nat
  BY SentIs
<1>2. PICK n \in 0..3 : Frame(env, k, g + 5, n)
  <2>1. Sized(env, k, g + 5)
    BY FirstSized
  <2> QED
    BY <2>1, Framed
<1>3. /\ stream[g + 5] = Plain(k, SizeMark(n)) /\ stream[g + 6] = Plain(k, "cr")
      /\ stream[g + 7] = Plain(k, "lf")
  <2>1. g + 5 + 1 = g + 6 /\ g + 5 + 2 = g + 7
    BY <1>1
  <2> QED
    BY <1>2, <2>1 DEF Frame
<1>4. Mark(g + 5) = SizeMark(n) /\ Mark(g + 6) = "cr" /\ Mark(g + 7) = "lf"
  BY <1>3, PlainIs DEF Mark
<1>5. SizeMark(n) \notin {"query", "header", "lf"}
  BY DEF SizeMark, Digits
<1>6. ~EndsLine(g + 5) /\ ~EndsLine(g + 6) /\ EndsLine(g + 7)
  BY <1>4, <1>5 DEF EndsLine
<1>7. y = g + 7
  <2>1. y # g + 5 /\ y # g + 6
    BY <1>6
  <2>2. ~(g + 7 < y)
    <3>1. g + 7 < y => g + 7 \in g + 5..y - 1
      BY <1>1
    <3> QED
      BY <1>6, <3>1
  <2> QED
    BY <1>1, <2>1, <2>2
<1>8. Fresh = ChunkState("size", 0, Marks(Begins(env, k) + 7, y))
  <2>1. Marks(y, y) = <<>>
    BY MarksAre
  <2> QED
    BY <1>7, <2>1, FreshIs
<1>9. y \in Begins(env, k) + 7..Begins(env, k) + 7 + n
  BY <1>1, <1>7
<1> QED
  BY <1>2, <1>8, <1>9 DEF Junk

\* A read from before the blank line, after one that ended there.
LEMMA BlankRead ==
  ASSUME env \in Environments, stream = SentBy(env), NEW k \in 1..Count(env),
         NEW a, a = Begins(env, k) + 2, NEW b \in Nat, a <= b, b <= EndOf(env, k)
  PROVE  Reached(env, k, a, b, Parse(Titled(k), a, b))
<1> DEFINE g == Begins(env, k)
           t == Titled(k)
           r == ReadHeaders(t, a, b)
           v == Parse(t, a, b)
           q == HeadersEnd(t)
           s == g + 4
<1>1. g \in Nat /\ a \in Nat /\ EndOf(env, k) \in Nat /\ s \in Nat
  BY SentIs
<1>2. OnBlank(k, g, b, r)
  BY BlankLoop
<1>3. t.state = "headers"
  BY WebIs DEF Titled
<1>4. v = IF r.p.state = "body" /\ r.taken < b THEN ReadPayload(r.p, r.taken, b)
          ELSE [p |-> r.p, taken |-> r.taken]
  BY <1>3, Zenon DEF Parse
<1> SUFFICES Reached(env, k, a, b, v)
  OBVIOUS
<1>5. CASE b \in g + 2..g + 3
  <2>1. \E w : r = Lines(t, g + 2, No, w, No)
    <3>1. b = g + 2 \/ b = g + 3
      BY <1>1, <1>5
    <3> QED
      BY <1>2, <3>1 DEF OnBlank
  <2>2. r.p = t /\ r.taken = a
    <3> HIDE DEF r, t
    <3> QED
      BY <2>1, LinesAre
  <2> HIDE DEF r, v, t
  <2>3. v.p = t /\ v.taken = a
    BY <1>3, <1>4, <2>2
  <2> HIDE DEF g
  <2> QED
    BY <1>1, <2>3 DEF Reached, Near, t
<1>6. CASE b \notin g + 2..g + 3
  <2>1. Headed(env, k, q, s)
    BY HeadersEndIs
  <2>2. a < s /\ s <= b
    BY <1>1, <1>6
  <2>3. UpTo(env, k, s) = {}
    BY UpToBegin
  <2>4. CASE \E w : r = Lines(q, s, Yes, w, No)
    <3>1. r.p = q /\ r.taken = s
      <4> HIDE DEF r, q
      <4> QED
        BY <2>4, LinesAre
    <3> HIDE DEF r, q, v, s
    <3>2. CASE Inside(env, k, q, s)
      <4>1. Among(env, k, q, s)
        <5>1. s <= EndOf(env, k)
          BY <1>1, <2>2
        <5> QED
          BY <1>1, <3>2, <5>1, InsideAmong
      <4>2. v = IF q.state = "body" /\ s < b THEN ReadPayload(q, s, b) ELSE [p |-> q, taken |-> s]
        BY <1>4, <3>1
      <4>3. a <= s
        BY <1>1, <2>2
      <4> QED
        BY <1>1, <2>2, <4>1, <4>2, <4>3, Onward
    <3>3. CASE \E l : q = Web("end", k, l, k, Fresh, <<>>) /\ s = EndOf(env, k)
      <4>1. PICK l : q = Web("end", k, l, k, Fresh, <<>>) /\ s = EndOf(env, k)
        BY <3>3
      <4>2. q.state = "end"
        BY <4>1, WebIs
      <4>3. v = [p |-> q, taken |-> s]
        BY <1>4, <3>1, <4>2
      <4>4. Has(env, k, s, <<>>)
        BY <2>3, NothingKept
      <4>5. Done(env, k, q, s)
        BY <4>1, <4>4 DEF Done
      <4>6. Complete(env, k, q, s)
        BY <4>5, DoneComplete
      <4> QED
        BY <1>1, <2>2, <4>3, <4>6 DEF Reached
    <3> QED
      BY <2>1, <3>2, <3>3 DEF Headed, Inside
  <2>5. CASE \E y \in g + 5..b : /\ EndsLine(y) /\ \A x \in g + 5..y - 1 : ~EndsLine(x)
                                /\ \E w : r = Lines(HeadersEnd(q), y, Yes, w, Yes)
    <3>1. PICK y \in g + 5..b : /\ EndsLine(y) /\ \A x \in g + 5..y - 1 : ~EndsLine(x)
                               /\ \E w : r = Lines(HeadersEnd(q), y, Yes, w, Yes)
      BY <2>5
    <3>2. y \in Nat /\ s < y /\ g + 5 <= y /\ y <= b /\ y <= EndOf(env, k) /\ s < EndOf(env, k) /\ a <= y
      BY <1>1, <3>1
    <3> HIDE DEF s
    <3>3. Inside(env, k, q, s) /\ ~Swallows(env, k, q, s)
      <4> HIDE DEF q
      <4>1. ~(s = EndOf(env, k)) /\ ~(EndOf(env, k) <= s)
        BY <1>1, <3>2
      <4> QED
        BY <2>1, <4>1 DEF Headed, Inside, Swallows
    <3>4. HeadersEnd(q) = q
      <4> HIDE DEF q
      <4> QED
        BY <3>3, HeadersTwice
    <3>5. r.p = q /\ r.taken = y
      <4>1. PICK w : r = Lines(HeadersEnd(q), y, Yes, w, Yes)
        BY <3>1
      <4> HIDE DEF r, q
      <4> QED
        BY <3>4, <4>1, LinesAre
    <3>6. Among(env, k, q, y)
      <4>1. CASE env.program[k].body = "length" /\ InLength(env, k, q, s)
        <5>1. s <= y
          BY <1>1, <3>2
        <5> HIDE DEF q
        <5> QED
          BY <3>2, <4>1, <5>1, LengthLoose DEF Among
      <4>2. CASE env.program[k].body = "chunks"
        <5>1. q = OfChunks(k, Fresh, <<>>)
          <6>1. k \in Nat /\ k # 0
            BY ProgramIs
          <6> QED
            BY <4>2, <6>1, ChunksHead
        <5>2. Junk(env, k, OfChunks(k, Fresh, <<>>), y)
          BY <3>1, <3>2, <4>2, FirstLineEnd
        <5> HIDE DEF q
        <5> QED
          BY <4>2, <5>1, <5>2 DEF Among
      <4> QED
        BY <3>3, <4>1, <4>2 DEF Inside
    <3> HIDE DEF r, q, v, g
    <3>7. v = IF q.state = "body" /\ y < b THEN ReadPayload(q, y, b) ELSE [p |-> q, taken |-> y]
      BY <1>4, <3>5
    <3> QED
      BY <1>1, <3>2, <3>6, <3>7, Onward
  <2>6. \/ \E w : r = Lines(q, s, Yes, w, No)
        \/ \E y \in g + 5..b : /\ EndsLine(y) /\ \A x \in g + 5..y - 1 : ~EndsLine(x)
                               /\ \E w : r = Lines(HeadersEnd(q), y, Yes, w, Yes)
    BY <1>2, <1>6, Zenon DEF OnBlank
  <2> QED
    BY <2>4, <2>5, <2>6
<1> QED
  BY <1>5, <1>6

\* Web::parse() takes the request further, completes it or loses its way.
LEMMA ParsedLoosely ==
  ASSUME env \in Environments, stream = SentBy(env), NEW k \in 1..Count(env) + 1,
         NEW a \in Nat, NEW b \in Nat, a <= b, b <= Len(SentBy(env)),
         k \in 1..Count(env) => b <= EndOf(env, k), NEW p, Near(env, k, p, a)
  PROVE  Reached(env, k, a, b, Parse(p, a, b))
<1> DEFINE g == Begins(env, k)
           v == Parse(p, a, b)
<1>1. CASE k \in 1..Count(env) /\ Among(env, k, p, a)
  <2>1. p.state = "body"
    BY <1>1, AmongIs
  <2>2. Parse(p, a, b) = ReadPayload(p, a, b)
    BY <2>1 DEF Parse
  <2>3. Reached(env, k, a, b, ReadPayload(p, a, b))
    BY <1>1, BodyReached
  <2> QED
    BY <2>2, <2>3
<1>2. CASE k \in 1..Count(env) /\ a = g + 2 /\ p = Titled(k)
  <2> HIDE DEF v
  <2> QED
    BY <1>2, BlankRead
<1>3. CASE k \in 1..Count(env) /\ Starts(k, g, p, a)
  <2>1. p.state # "body"
    <3>1. Begin.state # "body" /\ Named(k).state # "body"
      BY WebIs DEF Begin, Named
    <3> QED
      BY <1>3, <3>1 DEF Starts
  <2>2. CASE b # g + 2 /\ b # g + 3
    <3>1. Readable(env, k, b)
      BY <1>3, <2>2 DEF Readable
    <3>2. Advance(env, k, a, b, v)
      BY <1>3, <2>1, <3>1, HeadersRead
    <3> HIDE DEF v
    <3>3. Reached(env, k, a, b, v)
      BY <1>3, <3>2, AdvanceReached
    <3> QED
      BY <3>3 DEF v
  <2>3. CASE b = g + 2 \/ b = g + 3
    <3> DEFINE r == ReadHeaders(p, a, b)
    <3>1. g \in Nat /\ b # g /\ b # g + 1 /\ g + 2 <= b /\ a <= g + 2
      BY <1>3, <2>3, SentIs DEF Starts
    <3>2. OnLine(k, g, b, r)
      BY <1>3, HeadersLoop
    <3>3. \E f, w : r = Lines(Titled(k), g + 2, f, w, No)
      <4> HIDE DEF r
      <4> QED
        BY <2>3, <3>2 DEF OnLine
    <3>4. r.p = Titled(k) /\ r.taken = g + 2 /\ r.p.state # "body"
      <4>1. Titled(k).state = "headers"
        BY WebIs DEF Titled
      <4> HIDE DEF r
      <4> QED
        BY <3>3, <4>1, LinesAre
    <3>5. v = IF r.p.state = "body" /\ r.taken < b THEN ReadPayload(r.p, r.taken, b)
              ELSE [p |-> r.p, taken |-> r.taken]
      BY <2>1, Zenon DEF Parse
    <3> HIDE DEF r, v
    <3>6. v.p = Titled(k) /\ v.taken = g + 2
      BY <3>4, <3>5
    <3> QED
      BY <1>3, <3>1, <3>6 DEF Reached, Near, v
  <2> QED
    BY <2>2, <2>3
<1>4. CASE k \notin 1..Count(env)
  <2>1. Readable(env, k, b)
    BY <1>4 DEF Readable
  <2>2. Place(env, k, p, a)
    BY <1>4 DEF Near, Place
  <2>3. Advance(env, k, a, b, v)
    BY <2>1, <2>2, Parsed
  <2> HIDE DEF v
  <2> QED
    BY <1>4, <2>3 DEF Advance, Place, Reached, Near, v
<1> QED
  BY <1>1, <1>2, <1>3, <1>4 DEF Near, Starts

(***************************************************************************)
(* The inductive invariant of a client that waits, wherever reads end.     *)
(***************************************************************************)
\* an answer is owed
Owed(e, d, n, s, p) == d # <<>> /\ n = Len(d) - 1 /\ s = EndOf(e, Len(d)) /\ p.of = Len(d)

\* the next request is expected
Expecting(e, d, n, s, p) == n = Len(d) /\ Near(e, Len(d) + 1, p, s)

\* the state of a connection of such a client
Tame(e, g, s, p, w, d, n) ==
  /\ g \in Nat /\ s \in Nat /\ s <= g /\ g <= Len(SentBy(e))
  /\ InStep(e, n, g) /\ d \in Seq(Handed) /\ Len(d) <= Count(e)
  /\ w \in BOOLEAN
  /\ w => Owed(e, d, n, s, p)
  /\ ~w => Expecting(e, d, n, s, p)

\* the connection ends after the request that was answered last
StopsFor(n, t) == t => n \in 1..Count(env) /\ Closes(n)

\* the inductive invariant of ClosesAfter
ClosesInv ==
  /\ env \in Environments /\ stream = SentBy(env)
  /\ ~env.pipelines =>
       /\ Tame(env, got, start, parser, good, delivered, answered)
       /\ StopsFor(answered, stopped)
  /\ ClosesAfter

\* A parser that expects a request does not have one.
LEMMA NearIs ==
  ASSUME NEW e \in Environments, NEW k \in 1..Count(e) + 1, NEW p, NEW s, Near(e, k, p, s)
  PROVE  p.state # "end"
<1>1. CASE p = Begin \/ p = Named(k) \/ p = Titled(k)
  <2>1. Begin.state # "end" /\ Named(k).state # "end" /\ Titled(k).state # "end"
    BY WebIs DEF Begin, Named, Titled
  <2> QED
    BY <1>1, <2>1
<1>2. CASE k \in 1..Count(e) /\ Among(e, k, p, s)
  BY <1>2, AmongIs
<1> QED
  BY <1>1, <1>2 DEF Near

\* It holds when a connection is opened.
LEMMA ClosesInvInit == HttpInit => ClosesInv
<1> SUFFICES ASSUME HttpInit PROVE ClosesInv
  OBVIOUS
<1>1. /\ env \in Environments /\ stream = SentBy(env) /\ got = 0 /\ start = 0 /\ parser = Begin
      /\ good = FALSE /\ delivered = <<>> /\ answered = 0 /\ stopped = FALSE /\ conn = "open"
  BY DEF HttpInit, SentBy
<1>2. /\ Count(env) \in Nat /\ EndOf(env, 0) = 0 /\ Len(SentBy(env)) \in Nat
      /\ \A k \in 0..Count(env) : EndOf(env, k) \in Nat
  <2>1. EndOf(env, 0) = 0 /\ SentBy(env) \in Seq(AllLetters)
    BY <1>1, Layout
  <2> QED
    BY <1>1, <2>1, Layout, ProgramIs
<1>3. InStep(env, 0, 0)
  <2>1. Count(env) > 0 => EndOf(env, 0 + 1) \in Nat
    <3>1. Count(env) > 0 => 1 \in 0..Count(env) /\ 0 + 1 = 1
      BY <1>2
    <3> QED
      BY <1>2, <3>1
  <2> QED
    BY <1>2, <2>1 DEF InStep
<1>4. Expecting(env, <<>>, 0, 0, Begin)
  <2>1. Begins(env, 0 + 1) = 0 /\ Len(<<>>) = 0
    <3>1. (0 + 1) - 1 = 0
      OBVIOUS
    <3> QED
      BY <1>2, <3>1 DEF Begins
  <2> QED
    BY <2>1 DEF Expecting, Near
<1>5. /\ got \in Nat /\ start \in Nat /\ start <= got /\ got <= Len(SentBy(env)) /\ good \in BOOLEAN /\ ~good
  <2>1. got \in Nat /\ start \in Nat /\ start <= got /\ got <= Len(SentBy(env))
    BY <1>1, <1>2
  <2> QED
    BY <1>1, <2>1
<1>6. delivered \in Seq(Handed) /\ Len(delivered) <= Count(env)
  BY <1>1, <1>2
<1>7. InStep(env, answered, got) /\ Expecting(env, delivered, answered, start, parser)
  BY <1>1, <1>3, <1>4
<1>8. Tame(env, got, start, parser, good, delivered, answered)
  BY <1>5, <1>6, <1>7 DEF Tame
<1>9. StopsFor(answered, stopped) /\ ClosesAfter
  BY <1>1 DEF StopsFor, ClosesAfter
<1> QED
  BY <1>1, <1>8, <1>9 DEF ClosesInv

\* what is read is at most the request that is to be answered
LEMMA InTurn ==
  ASSUME env \in Environments, stream = SentBy(env), NEW o \in 1..Total, MayRead(o),
         answered \in Nat
  PROVE  o \in Nat /\ o <= Len(SentBy(env)) /\ InStep(env, answered, o)
<1>1. Count(env) \in Nat /\ Total = Len(SentBy(env)) /\ Len(SentBy(env)) \in Nat
  <2>1. SentBy(env) \in Seq(AllLetters)
    BY Layout
  <2> QED
    BY <2>1, ProgramIs DEF Total
<1>2. InStep(env, answered, o)
  <2> SUFFICES ASSUME ~env.pipelines, answered < Count(env) PROVE o <= EndOf(env, answered + 1)
    BY DEF InStep
  <2>1. o <= Ends(answered + 1)
    BY DEF MayRead, Count
  <2>2. answered + 1 \in 0..Count(env)
    BY <1>1
  <2>3. Ends(answered + 1) = EndOf(env, answered + 1)
    BY <2>2, EndsIs
  <2> QED
    BY <2>1, <2>3
<1> QED
  BY <1>1, <1>2

\* One answer is owed at most.
LEMMA TameIs ==
  ASSUME NEW e \in Environments, NEW g, NEW s, NEW p, NEW w, NEW d, NEW n, Tame(e, g, s, p, w, d, n)
  PROVE  /\ Len(d) \in Nat /\ n \in Nat /\ Count(e) \in Nat
         /\ w => n < Count(e) /\ n + 1 = Len(d) /\ Len(d) \in 1..Count(e)
         /\ ~w => n = Len(d) /\ Len(d) + 1 \in 1..Count(e) + 1
<1>1. d \in Seq(Handed) /\ Len(d) <= Count(e)
  BY DEF Tame
<1>2. Len(d) \in Nat /\ Count(e) \in Nat /\ (d # <<>> => Len(d) # 0)
  BY <1>1, ProgramIs
<1>3. w => d # <<>> /\ n = Len(d) - 1
  BY DEF Tame, Owed
<1>4. ~w => n = Len(d)
  BY DEF Tame, Expecting
<1>5. w \in BOOLEAN
  BY DEF Tame
<1>6. CASE w
  BY <1>1, <1>2, <1>3, <1>6
<1>7. CASE ~w
  BY <1>1, <1>2, <1>4, <1>7
<1> QED
  BY <1>5, <1>6, <1>7

\* A read keeps it; with an answer owed there is nothing to read.
LEMMA ClosesReceive == ASSUME ClosesInv, NEW o \in 1..Total, Receive(o) PROVE ClosesInv'
<1>1. /\ env' = env /\ stream' = stream /\ got' = o /\ got < o /\ start' = start /\ parser' = parser
      /\ good' = good /\ delivered' = delivered /\ answered' = answered /\ stopped' = stopped
      /\ MayRead(o) /\ conn = "open" /\ env \in Environments /\ stream = SentBy(env)
  BY DEF Receive, ClosesInv
<1>2. ASSUME ~env.pipelines
      PROVE  /\ Tame(env, o, start, parser, good, delivered, answered)
             /\ StopsFor(answered, stopped) /\ answered = Len(delivered) /\ ~good
  <2>1. Tame(env, got, start, parser, good, delivered, answered) /\ StopsFor(answered, stopped)
    BY <1>2 DEF ClosesInv
  <2>2. /\ answered \in Nat /\ (good => answered < Count(env) /\ answered + 1 = Len(delivered))
        /\ (~good => answered = Len(delivered))
    BY <1>1, <2>1, TameIs
  <2>3. o \in Nat /\ o <= Len(SentBy(env)) /\ InStep(env, answered, o)
    BY <1>1, <2>2, InTurn
  <2>4. got \in Nat /\ start \in Nat /\ start <= got
    BY <2>1 DEF Tame
  <2>5. ~good
    <3> SUFFICES ASSUME good PROVE FALSE
      OBVIOUS
    <3>1. o <= EndOf(env, Len(delivered))
      BY <1>2, <2>2, <2>3 DEF InStep
    <3>2. start = EndOf(env, Len(delivered))
      BY <2>1 DEF Tame, Owed
    <3> QED
      BY <1>1, <2>3, <2>4, <3>1, <3>2
  <2>6. start <= o
    BY <1>1, <2>3, <2>4
  <2>7. Tame(env, o, start, parser, good, delivered, answered)
    BY <2>1, <2>3, <2>4, <2>6 DEF Tame
  <2> QED
    BY <2>1, <2>2, <2>5, <2>7
<1>3. ClosesAfter'
  BY <1>1, <1>2 DEF ClosesAfter
<1>4. ~env.pipelines => /\ Tame(env', got', start', parser', good', delivered', answered')
                        /\ StopsFor(answered, stopped)'
  BY <1>1, <1>2 DEF StopsFor, Closes
<1> QED
  BY <1>1, <1>3, <1>4 DEF ClosesInv

\* an answer: the buffer goes on after the request
LEMMA AnsweredTame ==
  ASSUME env \in Environments, ~env.pipelines, NEW g \in Nat, NEW s \in Nat, s <= g, g <= Len(SentBy(env)),
         NEW d \in Seq(Handed), NEW k \in 1..Count(env), k = Len(d), InStep(env, k - 1, g), s = EndOf(env, k),
         NEW z, z = IF AtOnce THEN g ELSE s, NEW w, w = FALSE
  PROVE  Tame(env, g, z, Begin, w, d, k)
<1>1. k \in Nat /\ Count(env) \in Nat
  BY ProgramIs
<1>2. g <= EndOf(env, k)
  <2>1. k - 1 < Count(env) /\ k - 1 + 1 = k
    BY <1>1
  <2> QED
    BY <2>1 DEF InStep
<1>3. z = s
  BY <1>2
<1>4. InStep(env, k, g)
  <2> SUFFICES ASSUME k < Count(env) PROVE g <= EndOf(env, k + 1)
    BY DEF InStep
  <2>1. k \in 0..Count(env) /\ k + 1 \in k..Count(env) /\ k + 1 \in 1..Count(env)
    BY <1>1
  <2>2. EndOf(env, k) <= EndOf(env, k + 1) /\ EndOf(env, k) \in Nat /\ EndOf(env, k + 1) \in Nat
    BY <2>1, EndsRise, SentIs
  <2> QED
    BY <1>2, <2>2
<1>5. Begins(env, k + 1) = EndOf(env, k)
  <2>1. (k + 1) - 1 = k
    BY <1>1
  <2> QED
    BY <2>1 DEF Begins
<1>6. Expecting(env, d, k, z, Begin)
  BY <1>3, <1>5 DEF Expecting, Near
<1>7. k <= Count(env)
  BY <1>1
<1> QED
  BY <1>3, <1>4, <1>6, <1>7 DEF Tame

\* A late answer keeps it.
LEMMA ClosesRespondLater == ASSUME ClosesInv, RespondLater PROVE ClosesInv'
<1>1. /\ env' = env /\ stream' = stream /\ got' = got /\ start' = (IF AtOnce THEN got ELSE start)
      /\ parser' = Begin /\ good' = FALSE /\ delivered' = delivered /\ answered' = parser.of
      /\ stopped' = Closes(parser.of) /\ conn' = "open" /\ good
      /\ env \in Environments /\ stream = SentBy(env)
  BY DEF RespondLater, Respond, ClosesInv
<1>2. ASSUME ~env.pipelines
      PROVE  /\ Tame(env, got, start', parser', good', delivered, answered')
             /\ StopsFor(answered', stopped')
  <2> DEFINE k == Len(delivered)
  <2>1. Tame(env, got, start, parser, good, delivered, answered)
    BY <1>2 DEF ClosesInv
  <2>2. k \in 1..Count(env) /\ answered = k - 1
    <3>1. /\ answered \in Nat /\ (good => answered + 1 = Len(delivered))
          /\ (good => Len(delivered) \in 1..Count(env))
      <4>1. env \in Environments
        BY <1>1
      <4> QED
        BY <2>1, <4>1, TameIs
    <3>2. answered + 1 = k /\ k \in 1..Count(env)
      BY <1>1, <3>1
    <3> HIDE DEF k
    <3> QED
      BY <3>1, <3>2
  <2>3. /\ start = EndOf(env, k) /\ parser.of = k /\ InStep(env, answered, got)
        /\ got \in Nat /\ start \in Nat /\ start <= got /\ got <= Len(SentBy(env)) /\ delivered \in Seq(Handed)
    BY <1>1, <2>1 DEF Tame, Owed
  <2>4. InStep(env, k - 1, got)
    BY <2>2, <2>3
  <2>5. answered' = k /\ stopped' = Closes(k)
    BY <1>1, <2>3
  <2>6. k = Len(delivered)
    OBVIOUS
  <2> HIDE DEF k
  <2>7. Tame(env, got, start', Begin, good', delivered, k)
    BY <1>1, <1>2, <2>2, <2>3, <2>4, <2>6, AnsweredTame
  <2>8. StopsFor(answered', stopped')
    BY <2>2, <2>5, Zenon DEF StopsFor
  <2> QED
    BY <1>1, <2>5, <2>7, <2>8
<1>3. ClosesAfter'
  BY <1>1 DEF ClosesAfter
<1>4. StopsFor(answered', stopped') => StopsFor(answered, stopped)'
  BY <1>1 DEF StopsFor, Closes
<1> QED
  BY <1>1, <1>2, <1>3, <1>4 DEF ClosesInv

\* So does a request that is complete,
LEMMA ClosesHandle ==
  ASSUME env \in Environments, ~env.pipelines, NEW k, k = Len(delivered) + 1, k \in 1..Count(env), ~good,
         Tame(env, got, start, parser, good, delivered, answered), StopsFor(answered, stopped),
         NEW r, r.taken \in Nat, r.taken <= got, Complete(env, k, r.p, r.taken), Handle(r)
  PROVE  /\ Tame(env, got, start', parser', good', delivered', answered')
         /\ StopsFor(answered', stopped')
<1> DEFINE s == r.taken
           x == [request |-> r.p.of, body |-> r.p.body]
<1>1. r.p.of = k /\ s = EndOf(env, k) /\ r.p.body \in Seq(Int)
  BY DEF Complete
<1>2. /\ InStep(env, answered, got) /\ got \in Nat /\ got <= Len(SentBy(env))
      /\ delivered \in Seq(Handed) /\ s \in Nat /\ s <= got
  BY DEF Tame
<1>3. k \in Nat /\ answered = k - 1 /\ Count(env) \in Nat /\ k <= Count(env)
  <2>1. Len(delivered) \in Nat /\ answered = Len(delivered) /\ Count(env) \in Nat
    BY TameIs
  <2> QED
    BY <2>1
<1>4. delivered' = Append(delivered, x)
  BY DEF Handle
<1>5. x \in Handed
  BY <1>1, <1>3 DEF Handed
<1> HIDE DEF x, s
<1>6. delivered' \in Seq(Handed) /\ Len(delivered') = k /\ delivered' # <<>>
  BY <1>2, <1>4, <1>5
<1>7. InStep(env, k - 1, got)
  BY <1>2, <1>3
<1>8. CASE env.answers \in {"at once", "in parts"}
  <2>1. /\ start' = (IF AtOnce THEN got ELSE s) /\ parser' = Begin /\ good' = FALSE
        /\ answered' = k /\ stopped' = Closes(k)
    BY <1>1, <1>8 DEF Handle, Respond, s
  <2> DEFINE y == delivered'
             z == start'
             w == good'
  <2>2. y \in Seq(Handed) /\ k = Len(y) /\ z = (IF AtOnce THEN got ELSE s) /\ w = FALSE
    BY <1>6, <2>1
  <2> HIDE DEF y, z, w
  <2>3. Tame(env, got, z, Begin, w, y, k)
    BY <1>1, <1>2, <1>7, <2>2, AnsweredTame
  <2>4. StopsFor(answered', stopped')
    BY <2>1, Zenon DEF StopsFor
  <2> QED
    BY <2>1, <2>3, <2>4 DEF y, z, w
<1>9. CASE env.answers \notin {"at once", "in parts"}
  <2>1. /\ parser' = r.p /\ good' = TRUE /\ start' = s /\ answered' = answered /\ stopped' = stopped
    BY <1>9 DEF Handle, s
  <2>2. Owed(env, delivered', answered', start', parser')
    BY <1>1, <1>3, <1>6, <2>1 DEF Owed
  <2>3. Len(delivered') <= Count(env) /\ InStep(env, answered', got) /\ start' \in Nat /\ start' <= got
    BY <1>2, <1>3, <1>6, <2>1
  <2>4. Tame(env, got, start', parser', good', delivered', answered')
    BY <1>2, <1>6, <2>1, <2>2, <2>3 DEF Tame
  <2> QED
    BY <2>1, <2>4
<1> QED
  BY <1>8, <1>9

\* a pass of the loop,
LEMMA ClosesIterate == ASSUME ClosesInv, Iterate PROVE ClosesInv'
<1>1. env' = env /\ stream' = stream /\ got' = got /\ env \in Environments /\ stream = SentBy(env)
  BY DEF ClosesInv, Iterate
<1> DEFINE r == IF good THEN [p |-> parser, taken |-> start] ELSE Parse(parser, start, got)
           n == r.taken - start
           Same == /\ start' = start /\ parser' = parser /\ good' = good /\ delivered' = delivered
                   /\ answered' = answered /\ stopped' = stopped
<1>2. \/ r.p.astray /\ conn' = "astray" /\ Same
      \/ /\ ~r.p.astray /\ n > 0 /\ r.p.state = "end" /\ Handle(r) /\ GoOn(n)
      \/ /\ ~r.p.astray /\ ~(n > 0 /\ r.p.state = "end") /\ start' = r.taken /\ parser' = r.p /\ GoOn(n)
         /\ good' = good /\ delivered' = delivered /\ answered' = answered /\ stopped' = stopped
  <2> HIDE DEF r
  <2> QED
    BY DEF Iterate, r
<1>3. conn' # "closed"
  <2>1. GoOn(n) => conn' # "closed"
    BY DEF GoOn
  <2> HIDE DEF r, n, Same
  <2> QED
    BY <1>2, <2>1
<1>4. ClosesAfter'
  BY <1>3 DEF ClosesAfter
<1>5. ASSUME ~env.pipelines
      PROVE  /\ Tame(env, got, start', parser', good', delivered', answered')
             /\ StopsFor(answered', stopped')
  <2>1. Tame(env, got, start, parser, good, delivered, answered) /\ StopsFor(answered, stopped)
    BY <1>5 DEF ClosesInv
  <2>2. CASE Same
    BY <2>1, <2>2
  <2>3. /\ got \in Nat /\ start \in Nat /\ start <= got /\ got <= Len(SentBy(env)) /\ good \in BOOLEAN
        /\ InStep(env, answered, got) /\ delivered \in Seq(Handed) /\ Len(delivered) <= Count(env)
    BY <2>1 DEF Tame
  <2>4. CASE good
    <3>1. r.p = parser /\ r.taken = start
      BY <2>4
    <3> HIDE DEF r
    <3>2. ~(n > 0)
      BY <2>3, <3>1
    <3> HIDE DEF n
    <3>3. Same
      BY <1>2, <3>1, <3>2
    <3> QED
      BY <2>2, <3>3
  <2>5. CASE ~good
    <3> DEFINE k == Len(delivered) + 1
    <3>1. k \in 1..Count(env) + 1 /\ answered = Len(delivered) /\ answered = k - 1 /\ Count(env) \in Nat
      <4>1. Len(delivered) \in Nat /\ answered = Len(delivered) /\ k \in 1..Count(env) + 1 /\ Count(env) \in Nat
        BY <1>1, <2>1, <2>5, TameIs
      <4> QED
        BY <4>1
    <3>2. Near(env, k, parser, start)
      BY <2>1, <2>5 DEF Tame, Expecting
    <3>3. r = Parse(parser, start, got)
      BY <2>5
    <3>4. k = Len(delivered) + 1
      OBVIOUS
    <3> HIDE DEF r, k
    <3>5. k \in 1..Count(env) => got <= EndOf(env, k)
      <4>1. k \in 1..Count(env) => answered < Count(env) /\ answered + 1 = k
        BY <3>1
      <4> QED
        BY <1>5, <2>3, <4>1 DEF InStep
    <3>6. Reached(env, k, start, got, r)
      BY <1>1, <2>3, <3>1, <3>2, <3>3, <3>5, ParsedLoosely
    <3>7. CASE r.p.astray
      <4> HIDE DEF n, Same
      <4>1. Same
        BY <1>2, <3>7
      <4> QED
        BY <2>2, <4>1
    <3>8. CASE ~r.p.astray
      <4>1. r.p.astray # Yes
        BY <3>8, Zenon DEF Yes
      <4>2. r.taken \in Nat /\ start <= r.taken /\ r.taken <= got
        BY <3>6, <4>1 DEF Reached
      <4>3. CASE k \in 1..Count(env) /\ start < r.taken /\ Complete(env, k, r.p, r.taken)
        <5>1. r.p.state = "end" /\ n > 0
          BY <2>3, <4>2, <4>3 DEF Complete
        <5> HIDE DEF n, Same
        <5>2. Handle(r)
          BY <1>2, <3>8, <5>1
        <5> QED
          BY <1>1, <1>5, <2>1, <2>5, <3>4, <4>2, <4>3, <5>2, ClosesHandle
      <4>4. CASE Near(env, k, r.p, r.taken)
        <5>1. r.p.state # "end"
          BY <1>1, <3>1, <4>4, NearIs
        <5> HIDE DEF n, Same
        <5>2. /\ start' = r.taken /\ parser' = r.p /\ good' = good /\ delivered' = delivered
              /\ answered' = answered /\ stopped' = stopped
          BY <1>2, <3>8, <5>1
        <5>3. Expecting(env, delivered, answered, r.taken, r.p)
          BY <3>1, <3>4, <4>4 DEF Expecting
        <5>4. Tame(env, got, r.taken, r.p, good, delivered, answered)
          BY <2>3, <2>5, <4>2, <5>3 DEF Tame
        <5> QED
          BY <2>1, <5>2, <5>4
      <4> QED
        BY <3>6, <4>1, <4>3, <4>4 DEF Reached
    <3> QED
      BY <3>7, <3>8
  <2> QED
    BY <2>3, <2>4, <2>5
<1>6. StopsFor(answered', stopped') => StopsFor(answered, stopped)'
  BY <1>1 DEF StopsFor, Closes
<1> HIDE DEF r, n, Same
<1> QED
  BY <1>1, <1>4, <1>5, <1>6 DEF ClosesInv

\* the end of the last answer,
LEMMA ClosesWritten == ASSUME ClosesInv, Written PROVE ClosesInv'
<1>1. /\ UNCHANGED <<env, stream, got, start, parser, good, delivered, answered, stopped>> /\ stopped
      /\ env \in Environments
  BY DEF Written, ClosesInv
<1>2. ASSUME ~env.pipelines, ClosesLast PROVE answered = Len(delivered) /\ ~good
  <2>1. Tame(env, got, start, parser, good, delivered, answered) /\ StopsFor(answered, stopped)
    BY <1>2 DEF ClosesInv
  <2>2. answered = Count(env)
    BY <1>1, <1>2, <2>1 DEF StopsFor, ClosesLast, Count
  <2>3. /\ good => answered < Count(env)
        /\ ~good => answered = Len(delivered)
        /\ Count(env) \in Nat
    BY <1>1, <2>1, TameIs
  <2>4. ~good
    BY <2>2, <2>3
  <2> QED
    BY <2>3, <2>4
<1>3. ClosesAfter'
  BY <1>1, <1>2 DEF ClosesAfter, ClosesLast, Closes
<1> QED
  BY <1>1, <1>3 DEF ClosesInv, StopsFor, Closes

\* and every step.
LEMMA ClosesInvStep == ClosesInv /\ [HttpNext]_httpVars => ClosesInv'
<1> SUFFICES ASSUME ClosesInv, [HttpNext]_httpVars PROVE ClosesInv'
  OBVIOUS
<1>1. CASE \E o \in 1..Total : Receive(o)
  BY <1>1, ClosesReceive
<1>2. CASE Iterate
  BY <1>2, ClosesIterate
<1>3. CASE RespondLater
  BY <1>3, ClosesRespondLater
<1>4. CASE Written
  BY <1>4, ClosesWritten
<1>5. CASE Pinging
  BY <1>5 DEF Pinging, ClosesInv, ClosesAfter, StopsFor, Closes
<1>6. CASE UNCHANGED httpVars
  BY <1>6 DEF httpVars, ClosesInv, ClosesAfter, ClosesLast, StopsFor, Closes
<1> QED
  BY <1>1, <1>2, <1>3, <1>4, <1>5, <1>6 DEF HttpNext

\* No request that was read goes unanswered when the server closes the connection, for any
\* programs and any cut of the reads (ClosesAfter; writeEvents(), http1.cpp:498).
THEOREM ClosesAfterAlways == HttpSpec => []ClosesAfter
<1>1. HttpInit => ClosesInv
  BY ClosesInvInit
<1>2. ClosesInv /\ [HttpNext]_httpVars => ClosesInv'
  BY ClosesInvStep
<1>3. ClosesInv => ClosesAfter
  BY DEF ClosesInv
<1> QED
  BY <1>1, <1>2, <1>3, PTL DEF HttpSpec
=============================================================================
