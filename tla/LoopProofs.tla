----------------------------- MODULE LoopProofs -----------------------------
(***************************************************************************)
(* The event loop, the supervisor of the cluster, which is told of the     *)
(* end of its processes by the loop and by signals between its steps, and  *)
(* the link to a process, whose reads and writes the loop calls for.       *)
(*                                                                         *)
(* EventBase: no report of a batch is given to another registration than   *)
(* the one it was made for, for any registrations, any numbers of          *)
(* descriptors and any order of calls. The loop looks at a report, and     *)
(* tests whether its registration is there, before it reads; and what was  *)
(* reported in this batch is the first in the list that points to its      *)
(* registration, so that del() takes it out with it.                       *)
(*                                                                         *)
(* Cluster: what the numbers of descriptors, the indices in _pids and the  *)
(* brokers of the vector have to do with each other while processes fall,  *)
(* are started again and are erased, for any number of them.               *)
(*                                                                         *)
(* Channel: what lies between Cluster::send and the callback of the other  *)
(* process, as one line of units from the decoder to the encoder.          *)
(***************************************************************************)
EXTENDS EventBase, Cluster, Channel, FiniteSetTheorems, SequenceTheorems, WellFoundedInduction, TLAPS

What == {"IN", "OUT", "HUP"}

Entry == [peer : Peers \cup {Nobody}, what : SUBSET What,
          of : Peers \cup {Nobody}, fresh : BOOLEAN]

\* a sequence of reports, in which an entry of nobody is blank
Reports(s) ==
  /\ s \in Seq(Entry)
  /\ \A i \in DOMAIN s : s[i].peer = Nobody => s[i] = Blank

Sane ==
  /\ Reports(events)
  /\ ready \in [Peers -> SUBSET What]
  /\ change \subseteq Peers
  /\ index \in Nat \ {0}
  /\ at = "read" => cur.peer \in peers

\* a report of this batch is for a registration that is there, and the first for it
First(s, ps) ==
  \A i \in DOMAIN s : s[i].fresh =>
    /\ s[i].of = s[i].peer /\ s[i].peer \in ps
    /\ \A j \in DOMAIN s : s[j].peer = s[i].peer => i <= j

Meant ==
  /\ First(events, peers)
  /\ change \subseteq peers /\ peers \subseteq known /\ peers \subseteq Peers
  /\ cur.fresh => cur.of = cur.peer

(***************************************************************************)
(* The list of reports.                                                    *)
(***************************************************************************)
LEMMA BlankEntry == Blank \in Entry /\ Blank.peer = Nobody
BY DEF Blank, Entry, What

LEMMA RemoveAtIs ==
  ASSUME NEW X, NEW s \in Seq(X), NEW n \in 1..Len(s)
  PROVE  /\ RemoveAt(s, n) \in Seq(X) /\ Len(RemoveAt(s, n)) = Len(s) - 1
         /\ \A i \in 1..Len(RemoveAt(s, n)) :
              RemoveAt(s, n)[i] = IF i < n THEN s[i] ELSE s[i + 1]
<1> DEFINE a == SubSeq(s, 1, n - 1)
           b == SubSeq(s, n + 1, Len(s))
<1>1. a \in Seq(X) /\ b \in Seq(X) /\ Len(a) = n - 1 /\ Len(b) = Len(s) - n
  OBVIOUS
<1>2. \A k \in 1..Len(a) : a[k] = s[k]
  OBVIOUS
<1>3. \A k \in 1..Len(b) : b[k] = s[k + n]
  OBVIOUS
<1> HIDE DEF a, b
<1>4. a \o b \in Seq(X) /\ Len(a \o b) = Len(s) - 1
  BY <1>1
<1>5. \A i \in 1..Len(a \o b) :
        (a \o b)[i] = IF i < n THEN s[i] ELSE s[i + 1]
  <2> SUFFICES ASSUME NEW i \in 1..Len(a \o b)
               PROVE  (a \o b)[i] = IF i < n THEN s[i] ELSE s[i + 1]
    OBVIOUS
  <2>1. CASE i < n
    <3>1. i \in 1..Len(a) /\ (a \o b)[i] = a[i]
      BY <1>1, <2>1
    <3> QED
      BY <1>2, <2>1, <3>1
  <2>2. CASE ~(i < n)
    <3>0. i - Len(a) \in 1..Len(b)
      BY <1>1, <1>4, <2>2
    <3>1. i - Len(a) \in 1..Len(b) /\ (a \o b)[i] = b[i - Len(a)]
      BY <1>1, <1>4, <2>2, <3>0, ConcatProperties
    <3>2. i - Len(a) + n = i + 1
      BY <1>1
    <3> QED
      BY <1>3, <2>2, <3>1, <3>2
  <2> QED
    BY <2>1, <2>2
<1> QED
  BY <1>4, <1>5 DEF RemoveAt, a, b

LEMMA RemoveAtReports ==
  ASSUME NEW s, Reports(s), NEW n \in DOMAIN s
  PROVE  Reports(RemoveAt(s, n))
<1>1. s \in Seq(Entry) /\ n \in 1..Len(s)
  BY DEF Reports
<1> DEFINE a == SubSeq(s, 1, n - 1)
           b == SubSeq(s, n + 1, Len(s))
<1>2. a \in Seq(Entry) /\ b \in Seq(Entry)
  BY <1>1
<1>3. \A k \in DOMAIN a : k \in DOMAIN s /\ a[k] = s[k]
  BY <1>1
<1>4. \A k \in DOMAIN b : k + n \in DOMAIN s /\ b[k] = s[k + n]
  BY <1>1
<1> HIDE DEF a, b
<1>5. a \o b \in Seq(Entry)
  BY <1>2
<1>6. \A k \in DOMAIN (a \o b) :
        (k \in DOMAIN a /\ (a \o b)[k] = a[k])
        \/ (k - Len(a) \in DOMAIN b /\ (a \o b)[k] = b[k - Len(a)])
  BY <1>2
<1>7. \A k \in DOMAIN (a \o b) : \E i \in DOMAIN s : (a \o b)[k] = s[i]
  BY <1>3, <1>4, <1>6
<1> QED
  BY <1>5, <1>7 DEF Reports, RemoveAt, a, b

LEMMA PlacedReports ==
  ASSUME Reports(events), NEW p \in Peers, NEW q \in Peers
  PROVE  Reports(Placed(p, q))
<1> DEFINE s == [i \in DOMAIN events |->
                   IF events[i].peer = q THEN [events[i] EXCEPT !.peer = p] ELSE events[i]]
<1>1. events \in Seq(Entry) /\ q # Nobody /\ p # Nobody
  BY EventBaseAssumption DEF Reports
<1>2. \A i \in DOMAIN events : s[i] \in Entry /\ (s[i].peer = Nobody => s[i] = Blank)
  <2> TAKE i \in DOMAIN events
  <2>1. events[i] \in Entry
    BY <1>1
  <2>2. CASE events[i].peer = q
    <3>1. s[i] = [events[i] EXCEPT !.peer = p]
      BY <2>2
    <3> QED
      BY <1>1, <2>1, <3>1 DEF Entry
  <2>3. CASE events[i].peer # q
    BY <2>1, <2>3 DEF Reports
  <2> QED
    BY <2>2, <2>3
<1>3. DOMAIN s = 1..Len(events) /\ Len(events) \in Nat
  BY <1>1
<1>4. s \in Seq(Entry)
  <2>1. s \in [1..Len(events) -> Entry]
    BY <1>2, <1>3
  <2> HIDE DEF s
  <2> QED
    BY <1>3, <2>1, SeqDef
<1> HIDE DEF s
<1>5. Append(s, Blank) \in Seq(Entry)
  BY <1>4, BlankEntry
<1>6. \A k \in DOMAIN Append(s, Blank) :
        Append(s, Blank)[k] = Blank \/ (k \in DOMAIN s /\ Append(s, Blank)[k] = s[k])
  BY <1>4
<1>7. Placed(p, q) = Append(s, Blank)
  BY DEF Placed, s
<1> QED
  BY <1>1, <1>2, <1>3, <1>5, <1>6, <1>7 DEF Reports

\* what epoll_wait() writes over the first entries
Made(p) == [peer |-> p, what |-> Report(p), of |-> p, fresh |-> TRUE]
Left(e) == [e EXCEPT !.fresh = FALSE]
Written(b) == [i \in DOMAIN events |-> IF i <= Len(b) THEN Made(b[i]) ELSE Left(events[i])]

LEMMA ReportedAre ==
  ASSUME Sane, NEW b \in SetToSeqs(Reported)
  PROVE  /\ Len(b) \in Nat /\ \A i \in 1..Len(b) : b[i] \in change
         /\ \A i, j \in 1..Len(b) : b[i] = b[j] => i = j
<1> DEFINE N == Cardinality(Reported)
<1>1. IsFiniteSet(Reported) /\ Reported \subseteq change
  <2>1. Reported \subseteq change /\ change \subseteq Peers
    BY DEF Reported, Sane
  <2> QED
    BY <2>1, EventBaseAssumption, FS_Subset
<1>2. N \in Nat
  BY <1>1, FS_CardinalityType
<1>3. b \in [1..N -> Reported] /\ \A i, j \in 1..N : b[i] = b[j] => i = j
  BY DEF SetToSeqs
<1> HIDE DEF N
<1>4. Len(b) = N /\ DOMAIN b = 1..N
  BY <1>2, <1>3, SeqDef, LenProperties
<1> QED
  BY <1>1, <1>2, <1>3, <1>4

LEMMA WaitReports ==
  ASSUME Sane, NEW b \in SetToSeqs(Reported)
  PROVE  Reports(Written(b))
<1>1. Len(b) \in Nat /\ \A i \in 1..Len(b) : b[i] \in Peers
  BY ReportedAre DEF Sane
<1>2. \A p \in Peers : Made(p) \in Entry /\ Made(p).peer # Nobody
  BY EventBaseAssumption DEF Report, Entry, Sane, Made
<1>3. \A e \in Entry : Left(e) \in Entry /\ Left(e).peer = e.peer /\ (e = Blank => Left(e) = Blank)
  <2>1. \A e \in Entry : Left(e) \in Entry /\ Left(e).peer = e.peer
    BY DEF Left, Entry
  <2>2. Left(Blank) = Blank
    <3>1. Blank \in Entry /\ Left(Blank) \in Entry
      BY <2>1, BlankEntry
    <3>2. /\ Left(Blank).peer = Blank.peer /\ Left(Blank).what = Blank.what
          /\ Left(Blank).of = Blank.of /\ Left(Blank).fresh = Blank.fresh
      BY DEF Left, Blank
    <3>3. \A x, y \in Entry : x.peer = y.peer /\ x.what = y.what /\ x.of = y.of /\ x.fresh = y.fresh
                             => x = y
      BY DEF Entry
    <3> QED
      BY <3>1, <3>2, <3>3
  <2> QED
    BY <2>1, <2>2
<1>4. events \in Seq(Entry) /\ Len(events) \in Nat /\ DOMAIN events = 1..Len(events)
  BY DEF Sane, Reports
<1> DEFINE s == Written(b)
<1>5. \A i \in DOMAIN events : s[i] \in Entry /\ (s[i].peer = Nobody => s[i] = Blank)
  <2> TAKE i \in DOMAIN events
  <2>1. CASE i <= Len(b)
    <3>1. s[i] = Made(b[i]) /\ b[i] \in Peers
      BY <1>1, <1>4, <2>1 DEF Written
    <3> HIDE DEF s
    <3> QED
      BY <1>2, <3>1
  <2>2. CASE ~(i <= Len(b))
    <3>1. s[i] = Left(events[i]) /\ events[i] \in Entry
      BY <1>4, <2>2 DEF Written
    <3>2. events[i].peer = Nobody => events[i] = Blank
      BY DEF Sane, Reports
    <3> HIDE DEF s
    <3> QED
      BY <1>3, <3>1, <3>2
  <2> QED
    BY <2>1, <2>2
<1>6. s \in [1..Len(events) -> Entry] /\ DOMAIN s = DOMAIN events
  BY <1>4, <1>5 DEF Written
<1> HIDE DEF s
<1>7. s \in Seq(Entry)
  BY <1>4, <1>6, SeqDef
<1>8. Reports(s)
  BY <1>5, <1>6, <1>7 DEF Reports
<1> QED
  BY <1>8 DEF s

(***************************************************************************)
(* The steps.                                                              *)
(***************************************************************************)
LEMMA UnlistReports ==
  ASSUME Reports(events), NEW p, Unlist(p)
  PROVE  Reports(events')
<1>1. CASE events' = events
  BY <1>1
<1>2. CASE \E i \in DOMAIN events : events' = RemoveAt(events, i)
  <2>1. PICK i \in DOMAIN events : events' = RemoveAt(events, i)
    BY <1>2
  <2> QED
    BY <2>1, RemoveAtReports
<1> QED
  BY <1>1, <1>2 DEF Unlist

LEMMA DelSane ==
  ASSUME Sane, NEW p, Del(p)
  PROVE  Reports(events') /\ ready' \in [Peers -> SUBSET What] /\ change' \subseteq Peers
<1>1. Reports(events')
  BY UnlistReports DEF Sane, Del
<1>2. ready' \in [Peers -> SUBSET What]
  BY DEF Sane, Del
<1> QED
  BY <1>1, <1>2 DEF Sane, Del

LEMMA LookSane ==
  ASSUME Sane, Look
  PROVE  Sane'
<1>1. CASE at' # "read"
  BY <1>1 DEF Look, Sane, lists, world
<1>2. CASE at' = "read"
  <2>1. /\ ~(index > Len(events) \/ events[index] = Blank)
        /\ events[index].peer \notin Forgotten
        /\ cur' = events[index] /\ UNCHANGED index
    BY <1>2 DEF Look
  <2>2. index \in DOMAIN events
    BY <2>1 DEF Sane, Reports
  <2>3. events[index].peer \in Peers
    <3>1. events[index] \in Entry
      BY <2>2 DEF Sane, Reports
    <3>2. events[index].peer # Nobody
      BY <2>1, <2>2 DEF Sane, Reports
    <3> QED
      BY <3>1, <3>2 DEF Entry
  <2>4. events[index].peer \in peers
    BY <2>1, <2>2, <2>3 DEF Forgotten
  <2> QED
    BY <2>1, <2>4 DEF Look, Sane, lists, world
<1> QED
  BY <1>1, <1>2

LEMMA CloseSane ==
  ASSUME Sane, Close
  PROVE  Sane'
<1>1. index' \in Nat \ {0} /\ at' # "read"
  BY DEF Close, Sane, Calls, Passes
<1>2. Reports(events') /\ ready' \in [Peers -> SUBSET What] /\ change' \subseteq Peers
  <2>1. CASE \E q \in Same(cur.peer) : Del(q)
    BY <2>1, DelSane
  <2>2. CASE Phantom(Sock[cur.peer])
    <3>1. CASE events' = events
      BY <2>2, <3>1 DEF Phantom, Sane, world
    <3>2. CASE \E i \in DOMAIN events : events' = RemoveAt(events, i)
      <4>1. PICK i \in DOMAIN events : events' = RemoveAt(events, i)
        BY <3>2
      <4>2. Reports(events')
        BY <4>1, RemoveAtReports DEF Sane
      <4> QED
        BY <2>2, <4>2 DEF Phantom, Sane, world
    <3> QED
      BY <2>2, <3>1, <3>2 DEF Phantom
  <2>3. CASE UNCHANGED <<peers, modes, lists, world>>
    BY <2>3 DEF Sane, lists, world
  <2> QED
    BY <2>1, <2>2, <2>3 DEF Close
<1> QED
  BY <1>1, <1>2 DEF Sane

LEMMA SaneStep ==
  ASSUME Sane, [Next]_vars
  PROVE  Sane'
<1>1. CASE Wait
  <2>1. PICK b \in SetToSeqs(Reported) : events' = Written(b)
    BY <1>1 DEF Wait, Written, Made, Left
  <2>2. Reports(events')
    BY <2>1, WaitReports
  <2> QED
    BY <1>1, <2>2 DEF Wait, Sane
<1>2. CASE Look
  BY <1>2, LookSane
<1>3. CASE Read
  <2>1. ready' \in [Peers -> SUBSET What]
    BY <1>3 DEF Read, Sane
  <2> QED
    BY <1>3, <2>1 DEF Read, Sane, Calls, Passes, lists, batch
<1>4. CASE Write
  BY <1>4 DEF Write, Sane, Calls, Passes, lists, batch, world
<1>5. CASE Close
  BY <1>5, CloseSane
<1>6. CASE Return
  BY <1>6 DEF Return, Sane, lists
<1>7. CASE Kick
  <2>1. Reports(events')
    BY <1>7 DEF Kick, Reports
  <2> QED
    BY <1>7, <2>1 DEF Kick, Sane, batch
<1>8. ASSUME NEW p \in Peers, Add(p)
      PROVE  Sane'
  <2>1. PICK q \in Forgotten \cup {p} : events' = Placed(p, q)
    BY <1>8 DEF Add
  <2>2. Reports(events')
    BY <2>1, PlacedReports DEF Sane, Forgotten
  <2> QED
    BY <1>8, <2>2 DEF Add, Sane, batch, world
<1>9. ASSUME NEW p \in Peers, Drop(p)
      PROVE  Sane'
  BY <1>9, DelSane DEF Drop, Sane, batch
<1>10. ASSUME NEW p \in Peers, Expires(p)
       PROVE  Sane'
  <2>1. ready' \in [Peers -> SUBSET What]
    BY <1>10 DEF Expires, Sane, What
  <2> QED
    BY <1>10, <2>1 DEF Expires, Sane, lists, batch
<1>11. ASSUME NEW p \in Peers, NEW w \in What, Happens(p, w) \/ Uses(p, w)
       PROVE  Sane'
  <2>1. ready' \in [Peers -> SUBSET What]
    BY <1>11 DEF Happens, Uses, Sane
  <2> QED
    BY <1>11, <2>1 DEF Happens, Uses, Sane, lists, batch
<1>12. ASSUME NEW p \in Peers, NEW type, Mode(p, type)
       PROVE  Sane'
  BY <1>12 DEF Mode, Sane, batch
<1>13. CASE UNCHANGED vars
  BY <1>13 DEF vars, Sane, lists, batch, world
<1> QED
  BY <1>1, <1>2, <1>3, <1>4, <1>5, <1>6, <1>7, <1>8, <1>9, <1>10, <1>11, <1>12, <1>13
  DEF Next, Loop, What

(***************************************************************************)
(* What was reported in this batch.                                        *)
(***************************************************************************)
LEMMA RemovedFirst ==
  ASSUME NEW s, Reports(s), NEW ps, First(s, ps), NEW n \in DOMAIN s
  PROVE  /\ First(RemoveAt(s, n), ps)
         /\ \A p : s[n].peer = p /\ (\A j \in 1..n - 1 : s[j].peer # p)
                  => First(RemoveAt(s, n), ps \ {p})
<1> DEFINE r == RemoveAt(s, n)
           From(i) == IF i < n THEN i ELSE i + 1
<1>1. s \in Seq(Entry) /\ n \in 1..Len(s) /\ Len(s) \in Nat
  BY DEF Reports
<1>2. /\ r \in Seq(Entry) /\ Len(r) = Len(s) - 1
      /\ \A i \in 1..Len(r) : r[i] = s[From(i)]
  BY <1>1, RemoveAtIs
<1>3. DOMAIN r = 1..Len(r) /\ DOMAIN s = 1..Len(s)
  BY <1>1, <1>2
<1>4. /\ \A i \in DOMAIN r : From(i) \in DOMAIN s /\ From(i) # n
      /\ \A i, j \in DOMAIN r : From(i) <= From(j) => i <= j
  BY <1>1, <1>2, <1>3
<1>5. \A i \in DOMAIN r : r[i] = s[From(i)]
  BY <1>2, <1>3
<1>6. \A i \in DOMAIN r : From(i) <= n => From(i) \in 1..n - 1
  BY <1>1, <1>3, <1>4
<1> HIDE DEF r, From
<1>7. ASSUME NEW i \in DOMAIN r, r[i].fresh
      PROVE  /\ r[i].of = r[i].peer /\ r[i].peer \in ps
             /\ \A j \in DOMAIN r : r[j].peer = r[i].peer => i <= j
             /\ s[n].peer = r[i].peer => From(i) <= n
  BY <1>4, <1>5, <1>7 DEF First
<1>8. First(r, ps)
  BY <1>7 DEF First
<1>9. ASSUME NEW p, s[n].peer = p, \A j \in 1..n - 1 : s[j].peer # p
      PROVE  First(r, ps \ {p})
  <2>1. ASSUME NEW i \in DOMAIN r, r[i].fresh PROVE r[i].peer # p
    BY <1>5, <1>6, <1>7, <1>9, <2>1
  <2> QED
    BY <1>7, <2>1 DEF First
<1> QED
  BY <1>8, <1>9 DEF r

\* a new registration where one lay that is gone: only what is older is taken for its own
LEMMA PlacedFirst ==
  ASSUME Reports(events), First(events, peers), peers \subseteq Peers,
         NEW p \in Peers \ peers, NEW q \in Peers \ peers
  PROVE  First(Placed(p, q), peers \cup {p})
<1> DEFINE Moved(e) == IF e.peer = q THEN [e EXCEPT !.peer = p] ELSE e
           s == [i \in DOMAIN events |-> Moved(events[i])]
           r == Placed(p, q)
<1>1. events \in Seq(Entry) /\ Len(events) \in Nat /\ DOMAIN events = 1..Len(events)
  BY DEF Reports
<1>2. \A e \in Entry : /\ Moved(e) \in Entry /\ Moved(e).fresh = e.fresh /\ Moved(e).of = e.of
                       /\ Moved(e).peer = IF e.peer = q THEN p ELSE e.peer
  BY DEF Entry
<1>3. \A i \in DOMAIN events : events[i] \in Entry
  BY <1>1
<1> HIDE DEF Moved
<1>4. s \in [1..Len(events) -> Entry]
  BY <1>1, <1>2, <1>3
<1>5. s \in Seq(Entry) /\ Len(s) = Len(events) /\ \A i \in DOMAIN events : s[i] = Moved(events[i])
  <2>1. \A i \in DOMAIN events : s[i] = Moved(events[i])
    OBVIOUS
  <2> HIDE DEF s
  <2> QED
    BY <1>1, <1>4, <2>1, SeqDef, LenProperties
<1>6. r = Append(s, Blank)
  BY DEF Placed, Moved
<1> HIDE DEF s, r
<1>7. DOMAIN r = 1..Len(events) + 1 /\ r[Len(events) + 1] = Blank
      /\ \A i \in DOMAIN events : r[i] = Moved(events[i])
  BY <1>1, <1>5, <1>6, BlankEntry
<1>8. Blank.fresh = FALSE /\ Blank.peer = Nobody
  BY DEF Blank
<1>9. SUFFICES ASSUME NEW i \in DOMAIN r, r[i].fresh
               PROVE  /\ r[i].of = r[i].peer /\ r[i].peer \in peers
                      /\ \A j \in DOMAIN r : r[j].peer = r[i].peer => i <= j
  BY DEF First, r
<1>10. i \in DOMAIN events /\ r[i] = Moved(events[i])
  BY <1>1, <1>7, <1>8, <1>9
<1>11. /\ events[i].fresh /\ events[i].of = events[i].peer /\ events[i].peer \in peers
       /\ \A j \in DOMAIN events : events[j].peer = events[i].peer => i <= j
  BY <1>2, <1>3, <1>9, <1>10 DEF First
<1>12. r[i].of = events[i].of /\ r[i].peer = events[i].peer
  BY <1>2, <1>3, <1>10, <1>11
<1>13. ASSUME NEW j \in DOMAIN r, r[j].peer = r[i].peer PROVE i <= j
  <2>1. CASE j \in DOMAIN events
    <3>1. r[j].peer = IF events[j].peer = q THEN p ELSE events[j].peer
      BY <1>2, <1>3, <1>7, <2>1
    <3> QED
      BY <1>11, <1>12, <1>13, <2>1, <3>1
  <2>2. CASE j \notin DOMAIN events
    BY <1>1, <1>7, <1>10, <2>2
  <2> QED
    BY <2>1, <2>2
<1> QED
  BY <1>11, <1>12, <1>13

\* one report for each that is watched; what lies behind them is of an earlier batch
LEMMA WrittenFirst ==
  ASSUME Sane, Meant, NEW b \in SetToSeqs(Reported)
  PROVE  First(Written(b), peers)
<1> DEFINE s == Written(b)
<1>1. /\ Len(b) \in Nat /\ \A i \in 1..Len(b) : b[i] \in peers
      /\ \A i, j \in 1..Len(b) : b[i] = b[j] => i = j
  BY ReportedAre DEF Meant
<1>2. events \in Seq(Entry) /\ DOMAIN events = 1..Len(events) /\ Len(events) \in Nat
  BY DEF Sane, Reports
<1>3. /\ DOMAIN s = DOMAIN events
      /\ \A i \in DOMAIN s : i <= Len(b) => s[i] = Made(b[i])
      /\ \A i \in DOMAIN s : ~(i <= Len(b)) => s[i] = Left(events[i])
  BY DEF Written
<1>4. \A i \in DOMAIN s : ~(i <= Len(b)) => ~s[i].fresh
  <2>1. \A i \in DOMAIN events : events[i] \in Entry
    BY <1>2
  <2>2. \A e \in Entry : ~Left(e).fresh
    BY DEF Left, Entry
  <2> HIDE DEF s
  <2> QED
    BY <1>3, <2>1, <2>2
<1>5. \A x : Made(x).peer = x /\ Made(x).of = x
  BY DEF Made
<1> HIDE DEF s
<1>6. SUFFICES ASSUME NEW i \in DOMAIN s, s[i].fresh
               PROVE  /\ s[i].of = s[i].peer /\ s[i].peer \in peers
                      /\ \A j \in DOMAIN s : s[j].peer = s[i].peer => i <= j
  BY DEF First, s
<1>7. i \in 1..Len(b) /\ s[i] = Made(b[i])
  BY <1>2, <1>3, <1>4, <1>6
<1>8. ASSUME NEW j \in DOMAIN s, s[j].peer = s[i].peer PROVE i <= j
  <2>1. CASE j <= Len(b)
    <3>1. j \in 1..Len(b) /\ s[j] = Made(b[j])
      BY <1>1, <1>2, <1>3, <2>1
    <3>2. b[j] = b[i]
      BY <1>5, <1>7, <1>8, <3>1
    <3>3. j = i
      BY <1>1, <1>7, <3>1, <3>2
    <3> QED
      BY <1>7, <3>3
  <2>2. CASE ~(j <= Len(b))
    BY <1>1, <1>2, <1>3, <1>7, <2>2
  <2> QED
    BY <2>1, <2>2
<1> QED
  BY <1>1, <1>5, <1>7, <1>8

LEMMA DelMeant ==
  ASSUME Sane, Meant, NEW p, Del(p)
  PROVE  First(events', peers') /\ change' \subseteq peers' /\ peers' \subseteq peers
<1>1. peers' = peers \ {p} /\ change' = change \ {p} /\ Unlist(p)
  BY DEF Del
<1>2. CASE (\A i \in DOMAIN events : events[i].peer # p) /\ UNCHANGED events
  BY <1>1, <1>2 DEF Meant, First
<1>3. CASE \E i \in DOMAIN events :
             /\ events[i].peer = p /\ \A j \in 1..i - 1 : events[j].peer # p
             /\ events' = RemoveAt(events, i)
  BY <1>1, <1>3, RemovedFirst DEF Sane, Meant
<1>4. First(events', peers')
  BY <1>1, <1>2, <1>3 DEF Unlist
<1> QED
  BY <1>1, <1>4 DEF Meant

LEMMA CloseMeant ==
  ASSUME Sane, Meant, Close
  PROVE  Meant'
<1>1. cur' = cur /\ known' = known
  BY DEF Close
<1>2. First(events', peers') /\ change' \subseteq peers' /\ peers' \subseteq peers
  <2>1. CASE \E q \in Same(cur.peer) : Del(q)
    BY <2>1, DelMeant
  <2>2. CASE Phantom(Sock[cur.peer])
    <3>1. peers' = peers /\ change' = change
      BY <2>2 DEF Phantom
    <3>2. CASE events' = events
      BY <3>1, <3>2 DEF Meant
    <3>3. CASE \E i \in DOMAIN events : events' = RemoveAt(events, i)
      BY <3>1, <3>3, RemovedFirst DEF Sane, Meant
    <3> QED
      BY <2>2, <3>2, <3>3 DEF Phantom
  <2>3. CASE UNCHANGED <<peers, modes, lists, world>>
    BY <2>3 DEF Meant, lists
  <2> QED
    BY <2>1, <2>2, <2>3 DEF Close
<1> QED
  BY <1>1, <1>2 DEF Meant

LEMMA MeantStep ==
  ASSUME Sane, Meant, [Next]_vars
  PROVE  Meant'
<1>1. CASE Wait
  <2>1. PICK b \in SetToSeqs(Reported) : events' = Written(b)
    BY <1>1 DEF Wait, Written, Made, Left
  <2>2. First(events', peers)
    BY <2>1, WrittenFirst
  <2> QED
    BY <1>1, <2>2 DEF Wait, Meant
<1>2. CASE Look
  <2>1. cur' = Blank \/ cur' = cur \/ (index \in DOMAIN events /\ cur' = events[index])
    BY <1>2 DEF Look, Sane, Reports
  <2>2. cur'.fresh => cur'.of = cur'.peer
    BY <2>1 DEF Meant, First, Blank
  <2> QED
    BY <1>2, <2>2 DEF Look, Meant, lists
<1>3. CASE Close
  BY <1>3, CloseMeant
<1>4. CASE Read \/ Write \/ Return
  BY <1>4 DEF Read, Write, Return, Meant, lists, batch
<1>5. CASE Kick
  BY <1>5 DEF Kick, Meant, First, batch
<1>6. ASSUME NEW p \in Peers, Add(p)
      PROVE  Meant'
  <2>1. PICK q \in Forgotten \cup {p} : events' = Placed(p, q)
    BY <1>6 DEF Add
  <2>2. p \in Peers \ peers /\ q \in Peers \ peers
    BY <1>6, <2>1 DEF Add, Forgotten, Meant
  <2>3. First(events', peers \cup {p})
    BY <2>1, <2>2, PlacedFirst DEF Sane, Meant
  <2> QED
    BY <1>6, <2>3 DEF Add, Meant, batch
<1>7. ASSUME NEW p \in Peers, Drop(p)
      PROVE  Meant'
  BY <1>7, DelMeant DEF Drop, Meant, batch
<1>8. ASSUME NEW p \in Peers, NEW w, NEW type,
             Expires(p) \/ Happens(p, w) \/ Uses(p, w) \/ Mode(p, type)
      PROVE  Meant'
  BY <1>8 DEF Expires, Happens, Uses, Mode, Meant, lists, batch
<1>9. CASE UNCHANGED vars
  BY <1>9 DEF vars, lists, batch, Meant
<1> QED
  BY <1>1, <1>2, <1>3, <1>4, <1>5, <1>6, <1>7, <1>8, <1>9 DEF Next, Loop

LEMMA CallStep ==
  ASSUME Sane, Meant, Next, at # "call", at' = "call"
  PROVE  /\ call'.peer = cur.peer /\ cur.peer \in peers
         /\ call'.type \in modes[cur.peer]
         /\ cur.fresh => cur.peer = cur.of
<1>0. cur.fresh => cur.peer = cur.of
  BY DEF Meant
<1>1. CASE Read
  BY <1>0, <1>1 DEF Read, Calls, Passes, Sane
<1>2. CASE Write
  BY <1>0, <1>2 DEF Write, Calls, Passes, Same, Found
<1>3. CASE Close
  BY <1>0, <1>3 DEF Close, Calls, Passes, Same, Found
<1>4. CASE Wait \/ Look \/ Return
  BY <1>4 DEF Wait, Look, Return
<1>5. ASSUME NEW p \in Peers, NEW w, NEW type,
             Add(p) \/ Drop(p) \/ Expires(p) \/ Happens(p, w) \/ Uses(p, w) \/ Mode(p, type)
      PROVE  FALSE
  BY <1>5 DEF Add, Drop, Expires, Happens, Uses, Mode
<1>6. CASE Kick
  BY <1>6 DEF Kick
<1> QED
  BY <1>1, <1>2, <1>3, <1>4, <1>5, <1>6 DEF Next, Loop

\* A callback is one of a registration that is there and has the event enabled; and a report
\* made in the batch in hand is given to nobody else than the registration it was made for,
\* however callbacks close and take descriptors, drop registrations and put new ones where
\* they lay: start(), add() and del() of Base.
THEOREM CallsMeant == Spec => CallsWhoIsMeant
<1>1. Init => Sane /\ Meant
  <2> SUFFICES ASSUME Init
               PROVE  Sane /\ Meant
    OBVIOUS
  <2>1. peers \subseteq Peers /\ change = peers /\ cur = Blank
    BY EventBaseAssumption DEF Init
  <2>2. Cardinality(peers) \in Nat
    BY <2>1, EventBaseAssumption, FS_Subset, FS_CardinalityType
  <2>3. events \in [1..Cardinality(peers) -> Entry] /\ \A i \in DOMAIN events : events[i] = Blank
    BY BlankEntry DEF Init
  <2>4. events \in Seq(Entry)
    BY <2>2, <2>3, SeqDef
  <2>5. Reports(events)
    BY <2>3, <2>4 DEF Reports
  <2>6. ready \in [Peers -> SUBSET What]
    BY DEF Init
  <2>7. peers \subseteq known
    BY EventBaseAssumption DEF Init
  <2>8. First(events, peers) /\ ~cur.fresh
    BY <2>1, <2>3 DEF First, Blank
  <2> QED
    BY <2>1, <2>5, <2>6, <2>7, <2>8 DEF Init, Sane, Meant
<1>2. Sane /\ Meant /\ [Next]_vars => Sane' /\ Meant'
  BY SaneStep, MeantStep
<1>3. Sane /\ Meant /\ [Next]_vars =>
        [at # "call" /\ at' = "call" =>
           /\ call'.peer = cur.peer /\ cur.peer \in peers
           /\ call'.type \in modes[cur.peer]
           /\ cur.fresh => cur.peer = cur.of]_vars
  BY CallStep
<1> QED
  BY <1>1, <1>2, <1>3, PTL DEF Spec, CallsWhoIsMeant

-----------------------------------------------------------------------------
(***************************************************************************)
(* Numbers, and the lowest free descriptors.                               *)
(***************************************************************************)
\* A set of numbers has a least one.
LEMMA LeastNat ==
  ASSUME NEW B, B \subseteq Nat, B # {}
  PROVE  \E n \in B : \A y \in B : n <= y
<1> DEFINE R == {ss \in Nat \X Nat : ss[1] < ss[2]}
<1>1. IsWellFoundedOn(R, Nat)
  BY NatLessThanWellFounded DEF OpToRel
<1>2. \A y, z \in Nat : ~(<<y, z>> \in R) => z <= y
  OBVIOUS
<1> HIDE DEF R
<1>3. \E n \in B : \A y \in B : ~(<<y, n>> \in R)
  BY <1>1, WFMin
<1> QED
  BY <1>2, <1>3

\* how many of S are below x
Below(S, x) == Cardinality({e \in S : e < x})

LEMMA BelowBy ==
  ASSUME NEW S, S \subseteq Nat, IsFiniteSet(S), NEW x \in Nat
  PROVE  /\ Below(S, x) \in Nat
         /\ x \in S => Below(S, x + 1) = Below(S, x) + 1
         /\ x \notin S => Below(S, x + 1) = Below(S, x)
<1> DEFINE T == {e \in S : e < x}
<1>0. \A e \in S : e \in Nat /\ (e < x + 1 <=> e < x \/ e = x)
  OBVIOUS
<1>1. IsFiniteSet(T) /\ x \notin T
  BY FS_Subset
<1>2. Cardinality(T) \in Nat
  BY <1>1, FS_CardinalityType
<1>3. CASE x \in S
  <2>1. {e \in S : e < x + 1} = T \cup {x}
    BY <1>0, <1>3
  <2>2. Cardinality(T \cup {x}) = Cardinality(T) + 1
    BY <1>1, FS_AddElement
  <2> QED
    BY <1>2, <1>3, <2>1, <2>2 DEF Below
<1>4. CASE x \notin S
  <2>1. {e \in S : e < x + 1} = T
    BY <1>0, <1>4
  <2> QED
    BY <1>2, <1>4, <2>1 DEF Below
<1> QED
  BY <1>3, <1>4

\* A finite set of numbers has a k-th one.
LEMMA KthExists ==
  ASSUME NEW S, NEW m \in Nat, S \subseteq 0..m, NEW k \in Nat, 1 <= k, k <= Cardinality(S)
  PROVE  \E d \in S : Below(S, d) = k - 1
<1>1. IsFiniteSet(S) /\ S \subseteq Nat
  <2>1. IsFiniteSet(0..m)
    BY FS_Interval
  <2>2. IsFiniteSet(S)
    BY <2>1, FS_Subset
  <2> QED
    BY <2>2
<1>9. \A e \in S : e \in Nat /\ e < m + 1 /\ ~(e < 0)
  OBVIOUS
<1> DEFINE B == {x \in Nat : Below(S, x) >= k}
<1>2. m + 1 \in B
  <2>1. {e \in S : e < m + 1} = S
    BY <1>9
  <2> QED
    BY <2>1 DEF Below
<1>3. PICK x \in B : \A y \in B : x <= y
  BY <1>2, LeastNat
<1>4. x # 0
  <2>1. {e \in S : e < 0} = {}
    BY <1>9
  <2>2. Below(S, 0) = 0
    BY <2>1, FS_EmptySet DEF Below
  <2> QED
    BY <1>3, <2>2
<1>5. x - 1 \in Nat /\ Below(S, x) >= k /\ x - 1 \notin B
  BY <1>3, <1>4
<1>6. Below(S, x - 1) \in Nat /\ Below(S, x - 1) < k
  <2>1. Below(S, x - 1) \in Nat
    BY <1>1, <1>5, BelowBy
  <2>2. ~(Below(S, x - 1) >= k)
    BY <1>5
  <2> QED
    BY <2>1, <2>2
<1>7. /\ x - 1 \in S => Below(S, x) = Below(S, x - 1) + 1
      /\ x - 1 \notin S => Below(S, x) = Below(S, x - 1)
  <2> DEFINE y == x - 1
  <2>1. y \in Nat /\ y + 1 = x
    BY <1>3, <1>5
  <2> HIDE DEF y
  <2>2. /\ y \in S => Below(S, y + 1) = Below(S, y) + 1
        /\ y \notin S => Below(S, y + 1) = Below(S, y)
    BY <1>1, <2>1, BelowBy
  <2>3. /\ y \in S => Below(S, x) = Below(S, y) + 1
        /\ y \notin S => Below(S, x) = Below(S, y)
    BY <2>1, <2>2
  <2> QED
    BY <2>3 DEF y
<1> QED
  BY <1>5, <1>6, <1>7

\* The kernel hands out free numbers, each once.
LEMMA LowestFreeIs ==
  ASSUME NEW f, NEW n \in Nat, Enough(f, n)
  PROVE  /\ DOMAIN LowestFree(f, n) = 1..n
         /\ \A k \in 1..n : LowestFree(f, n)[k] \in Free(f)
         /\ \A k, l \in 1..n : LowestFree(f, n)[k] = LowestFree(f, n)[l] => k = l
<1> DEFINE S == Free(f)
           c == Cardinality(Descriptors)
<1>1. c \in Nat /\ Descriptors = 0..c - 1 /\ IsFiniteSet(Descriptors)
  BY ClusterAssumption, FS_CardinalityType
<1>2. S \subseteq 0..c
  BY <1>1 DEF Free
<1>3. n <= Cardinality(S) /\ Cardinality(S) \in Nat
  <2>1. IsFiniteSet(S)
    BY <1>1, FS_Subset DEF Free
  <2> QED
    BY <2>1, FS_CardinalityType DEF Enough
<1> DEFINE At1(k) == CHOOSE d \in S : Cardinality({e \in S : e < d}) = k - 1
<1>4. LowestFree(f, n) = [k \in 1..n |-> At1(k)]
  BY DEF LowestFree
<1> HIDE DEF S
<1>5. ASSUME NEW k \in 1..n
      PROVE  At1(k) \in S /\ Below(S, At1(k)) = k - 1
  <2>0. k \in Nat /\ 1 <= k /\ k <= Cardinality(S)
    BY <1>3
  <2>1. \E d \in S : Below(S, d) = k - 1
    BY <1>1, <1>2, <2>0, KthExists
  <2>2. \E d \in S : Cardinality({e \in S : e < d}) = k - 1
    BY <2>1 DEF Below
  <2>3. At1(k) \in S /\ Cardinality({e \in S : e < At1(k)}) = k - 1
    BY <2>2
  <2> HIDE DEF At1
  <2> QED
    BY <2>3 DEF Below
<1> HIDE DEF At1
<1>6. \A k \in 1..n : LowestFree(f, n)[k] = At1(k)
  BY <1>4
<1>7. \A k, l \in 1..n : At1(k) = At1(l) => k = l
  BY <1>5
<1> QED
  BY <1>4, <1>5, <1>6, <1>7 DEF S

(***************************************************************************)
(* The invariant. An entry of _pids is never behind the broker it is for,  *)
(* and is where it is while nothing is taken from the middle of the        *)
(* vector; what the master kept of the pairs of a process whose end it has *)
(* not been told of is still what it was, so that no number closed twice   *)
(* is one of them.                                                         *)
(***************************************************************************)
Running == {"run"} \cup Ended
States == {"none", "reaped"} \cup Running

Typed(bs, sl, f, ch) ==
  /\ bs \in Seq(Broker)
  /\ DOMAIN sl \subseteq Pids /\ \A p \in DOMAIN sl : sl[p] \in Nat \ {0}
  /\ f = [d \in Descriptors |-> f[d]]
  /\ ch \in [Pids -> States]

InTurn(ch) == \A p, q \in Pids : p < q /\ ch[q] # "none" => ch[p] # "none"

Born(bs, sl, ch) ==
  /\ \A i \in 1..Len(bs) : ch[bs[i].pid] # "none"
  /\ \A p \in DOMAIN sl : ch[p] # "none"

Once(bs) == \A i, j \in 1..Len(bs) : bs[i].pid = bs[j].pid => i = j

Ahead(e, bs, sl) ==
  ~e.eraseAny => \A i \in 1..Len(bs) : bs[i].pid \in DOMAIN sl =>
                   /\ i <= sl[bs[i].pid]
                   /\ ~e.closeFirst => i = sl[bs[i].pid]

Holds(f, b) == f[b.m[1]] = Reading(b.pid) /\ f[b.c[2]] = Writing(b.pid)

Watched(bs, sl, ch) ==
  \A i \in 1..Len(bs) : bs[i].pid \in DOMAIN sl => ch[bs[i].pid] \in Running

Paired(e, bs, f, ch) ==
  ~e.eraseAny /\ ~e.closeFirst =>
    \A i \in 1..Len(bs) : ch[bs[i].pid] \in Running => Holds(f, bs[i])

TInv(e, bs, sl, f, ch) ==
  /\ Typed(bs, sl, f, ch) /\ InTurn(ch) /\ Born(bs, sl, ch) /\ Once(bs)
  /\ Ahead(e, bs, sl) /\ Watched(bs, sl, ch) /\ Paired(e, bs, f, ch)

CInv == count \in Nat \ {0} /\ TInv(env, brokers, slot, fd, child)

LEMMA BrokerFields ==
  ASSUME NEW b \in Broker
  PROVE  /\ b.pid \in Pids
         /\ b.m[1] \in Descriptors /\ b.m[2] \in Descriptors
         /\ b.c[1] \in Descriptors /\ b.c[2] \in Descriptors
BY DEF Broker

LEMMA PidsAre == Pids \subseteq Nat /\ IsFiniteSet(Pids) /\ Cardinality(Pids) \in Nat
<1>1. IsFiniteSet(Pids) /\ Cardinality(Pids) \in Nat /\ Pids = 1..Cardinality(Pids)
  BY ClusterAssumption, FS_CardinalityType
<1> DEFINE c == Cardinality(Pids)
<1>2. 1..c \subseteq Nat
  BY <1>1
<1> QED
  BY <1>1, <1>2

\* Emptying the vector.
LEMMA NoBrokers ==
  ASSUME NEW e, NEW bs, NEW sl, NEW f, NEW ch, TInv(e, bs, sl, f, ch),
         NEW sl2, sl2 = sl \/ sl2 = <<>>, NEW numbers
  PROVE  TInv(e, <<>>, sl2, Shut(f, numbers), ch)
BY DEF TInv, Typed, InTurn, Born, Once, Ahead, Watched, Paired, Shut

\* What is not of one process is not closed with it.
LEMMA ShutOwn ==
  ASSUME NEW f, f = [d \in Descriptors |-> f[d]], NEW b \in Broker, NEW c \in Broker,
         Holds(f, b), Holds(f, c), b.pid # c.pid
  PROVE  Holds(Shut(f, Kept(c)), b)
<1>1. Reading(b.pid) # Reading(c.pid) /\ Writing(b.pid) # Writing(c.pid)
      /\ Reading(b.pid) # Writing(c.pid) /\ Writing(b.pid) # Reading(c.pid)
  BY DEF Reading, Writing
<1>2. /\ b.m[1] \in Descriptors /\ b.c[2] \in Descriptors
      /\ b.m[1] \notin Kept(c) /\ b.c[2] \notin Kept(c)
  BY <1>1, BrokerFields DEF Holds, Kept
<1> QED
  BY <1>2 DEF Holds, Shut

\* erase() and the CLOSE event: a broker is taken out of the vector.
LEMMA TakenOut ==
  ASSUME NEW e, NEW bs, NEW sl, NEW f, NEW ch, TInv(e, bs, sl, f, ch),
         NEW n \in 1..Len(bs),
         ~e.eraseAny /\ ~e.closeFirst => n = Len(bs) /\ ch[bs[n].pid] \in Running,
         NEW sl2, DOMAIN sl2 \subseteq DOMAIN sl, \A p \in DOMAIN sl2 : sl2[p] = sl[p]
  PROVE  TInv(e, RemoveAt(bs, n), sl2, Shut(f, Kept(bs[n])), ch)
<1> DEFINE s == RemoveAt(bs, n)
           From(i) == IF i < n THEN i ELSE i + 1
<1>1. bs \in Seq(Broker)
  BY DEF TInv, Typed
<1>2. /\ s \in Seq(Broker) /\ Len(s) = Len(bs) - 1
      /\ \A i \in 1..Len(s) : s[i] = bs[From(i)]
  BY <1>1, RemoveAtIs
<1>3. \A i \in 1..Len(s) : /\ From(i) \in 1..Len(bs) /\ i <= From(i) /\ From(i) # n
                           /\ n = Len(bs) => From(i) = i
  BY <1>1, <1>2
<1>4. \A i, j \in 1..Len(s) : From(i) = From(j) => i = j
  BY <1>1, <1>2
<1>5. bs[n] \in Broker
  BY <1>1
<1> HIDE DEF s, From
<1>6. Typed(s, sl2, Shut(f, Kept(bs[n])), ch)
  <2> DEFINE K == Kept(bs[n])
             g == Shut(f, K)
  <2> HIDE DEF K
  <2>1. g = [d \in Descriptors |-> g[d]]
    BY DEF Shut
  <2> HIDE DEF g
  <2>2. DOMAIN sl \subseteq Pids /\ (\A p \in DOMAIN sl : sl[p] \in Nat \ {0})
        /\ ch \in [Pids -> States]
    BY DEF TInv, Typed
  <2>3. DOMAIN sl2 \subseteq Pids /\ \A p \in DOMAIN sl2 : sl2[p] \in Nat \ {0}
    BY <2>2
  <2>4. Typed(s, sl2, g, ch)
    BY <1>2, <2>1, <2>2, <2>3 DEF Typed
  <2> QED
    BY <2>4 DEF g, K
<1>7. InTurn(ch) /\ Born(s, sl2, ch) /\ Once(s) /\ Watched(s, sl2, ch)
  <2>1. Born(s, sl2, ch)
    BY <1>2, <1>3 DEF TInv, Born
  <2>2. Once(s)
    BY <1>2, <1>3, <1>4 DEF TInv, Once
  <2>3. Watched(s, sl2, ch)
    BY <1>2, <1>3 DEF TInv, Watched
  <2> QED
    BY <2>1, <2>2, <2>3 DEF TInv
<1>8. Ahead(e, s, sl2)
  <2> SUFFICES ASSUME ~e.eraseAny, NEW i \in 1..Len(s), s[i].pid \in DOMAIN sl2
               PROVE  i <= sl2[s[i].pid] /\ (~e.closeFirst => i = sl2[s[i].pid])
    BY DEF Ahead
  <2> DEFINE j == From(i)
             q == bs[j].pid
  <2>1. j \in 1..Len(bs) /\ s[i].pid = q /\ q \in DOMAIN sl /\ sl2[q] = sl[q]
    BY <1>2, <1>3
  <2>2. sl[q] \in Nat /\ j <= sl[q] /\ (~e.closeFirst => j = sl[q])
    BY <2>1 DEF TInv, Typed, Ahead
  <2>3. i <= j /\ (~e.closeFirst => i = j)
    BY <1>3
  <2> HIDE DEF j, q
  <2>4. i \in Nat /\ j \in Nat
    BY <1>1, <1>2, <2>1
  <2> QED
    BY <2>1, <2>2, <2>3, <2>4
<1>9. Paired(e, s, Shut(f, Kept(bs[n])), ch)
  <2> SUFFICES ASSUME ~e.eraseAny, ~e.closeFirst, NEW i \in 1..Len(s), ch[s[i].pid] \in Running
               PROVE  Holds(Shut(f, Kept(bs[n])), s[i])
    BY DEF Paired
  <2>1. From(i) \in 1..Len(bs) /\ s[i] = bs[From(i)] /\ From(i) # n
    BY <1>2, <1>3
  <2>2. Holds(f, s[i]) /\ Holds(f, bs[n])
    BY <2>1 DEF TInv, Paired
  <2>3. s[i].pid # bs[n].pid
    BY <2>1 DEF TInv, Once
  <2>4. s[i] \in Broker
    BY <1>2
  <2> QED
    BY <1>5, <2>2, <2>3, <2>4, ShutOwn DEF TInv, Typed
<1> QED
  BY <1>6, <1>7, <1>8, <1>9 DEF TInv, s

\* process(): the pair is closed, the entry of _pids goes, the broker stays.
LEMMA EndClosed ==
  ASSUME NEW e, NEW bs, NEW sl, NEW f, NEW ch, TInv(e, bs, sl, f, ch),
         NEW n \in 1..Len(bs), ch[bs[n].pid] \in Ended
  PROVE  TInv(e, bs, [q \in DOMAIN sl \ {bs[n].pid} |-> sl[q]], Shut(f, Kept(bs[n])),
              [ch EXCEPT ![bs[n].pid] = "reaped"])
<1> DEFINE p == bs[n].pid
           sl2 == [q \in DOMAIN sl \ {p} |-> sl[q]]
           f2 == Shut(f, Kept(bs[n]))
           ch2 == [ch EXCEPT ![p] = "reaped"]
<1>1. bs \in Seq(Broker) /\ bs[n] \in Broker /\ p \in Pids
  <2>1. bs \in Seq(Broker) /\ bs[n] \in Broker
    BY DEF TInv, Typed
  <2> QED
    BY <2>1, BrokerFields
<1>2. /\ ch \in [Pids -> States] /\ ch2 \in [Pids -> States] /\ ch2[p] = "reaped"
      /\ \A q \in Pids : q # p => ch2[q] = ch[q]
  BY <1>1 DEF TInv, Typed, States
<1>3. "reaped" \notin Running /\ ch[p] \in Running /\ ch[p] # "none"
  BY DEF Running, Ended
<1>4. \A q \in Pids : (ch2[q] = "none" <=> ch[q] = "none")
  BY <1>2, <1>3
<1>5. DOMAIN sl2 = DOMAIN sl \ {p} /\ \A q \in DOMAIN sl2 : sl2[q] = sl[q]
  OBVIOUS
<1> HIDE DEF sl2, ch2, f2
<1>6. Typed(bs, sl2, f2, ch2)
  BY <1>2, <1>5 DEF TInv, Typed, Shut, f2
<1>7. \A i \in 1..Len(bs) : bs[i] \in Broker /\ bs[i].pid \in Pids
  <2>1. \A i \in 1..Len(bs) : bs[i] \in Broker
    BY <1>1
  <2> QED
    BY <2>1, BrokerFields
<1>8. Born(bs, sl2, ch2) /\ InTurn(ch2)
  BY <1>4, <1>5, <1>7 DEF TInv, Typed, Born, InTurn
<1>9. Watched(bs, sl2, ch2) /\ Ahead(e, bs, sl2)
  BY <1>2, <1>5, <1>7 DEF TInv, Watched, Ahead
<1>10. Paired(e, bs, f2, ch2)
  <2> SUFFICES ASSUME ~e.eraseAny, ~e.closeFirst, NEW i \in 1..Len(bs), ch2[bs[i].pid] \in Running
               PROVE  Holds(f2, bs[i])
    BY DEF Paired
  <2>1. bs[i].pid # p /\ ch[bs[i].pid] \in Running
    BY <1>2, <1>3, <1>7
  <2>2. Holds(f, bs[i]) /\ Holds(f, bs[n])
    BY <1>3, <2>1 DEF TInv, Paired
  <2> QED
    BY <1>1, <1>7, <2>1, <2>2, ShutOwn DEF TInv, Typed, f2
<1> QED
  BY <1>6, <1>8, <1>9, <1>10 DEF TInv, sl2, f2, ch2

\* How a process ends makes no difference to the tables of the master.
LEMMA OtherEnd ==
  ASSUME NEW e, NEW bs, NEW sl, NEW f, NEW ch, TInv(e, bs, sl, f, ch),
         NEW p \in Pids, NEW how \in States,
         \/ ch[p] = "run" /\ how \in Ended
         \/ /\ ch[p] \in Ended /\ how = "reaped"
            /\ \A i \in 1..Len(bs) : bs[i].pid # p
  PROVE  TInv(e, bs, sl, f, [ch EXCEPT ![p] = how])
<1> DEFINE ch2 == [ch EXCEPT ![p] = how]
<1>1. /\ ch \in [Pids -> States] /\ ch2 \in [Pids -> States] /\ ch2[p] = how
      /\ \A q \in Pids : q # p => ch2[q] = ch[q]
  BY DEF TInv, Typed, States
<1>2. \A q \in Pids : (ch2[q] = "none" <=> ch[q] = "none")
  BY <1>1 DEF Ended
<1>3. \A i \in 1..Len(bs) : bs[i].pid \in Pids
  <2>1. \A i \in 1..Len(bs) : bs[i] \in Broker
    BY DEF TInv, Typed
  <2> QED
    BY <2>1, BrokerFields
<1>4. \A i \in 1..Len(bs) : (ch2[bs[i].pid] \in Running <=> ch[bs[i].pid] \in Running)
  BY <1>1, <1>3 DEF Running
<1> HIDE DEF ch2
<1> QED
  <2>1. Typed(bs, sl, f, ch2)
    BY <1>1 DEF TInv, Typed
  <2>2. Born(bs, sl, ch2) /\ InTurn(ch2)
    BY <1>2, <1>3 DEF TInv, Typed, Born, InTurn
  <2>3. Watched(bs, sl, ch2) /\ Paired(e, bs, f, ch2)
    BY <1>4 DEF TInv, Watched, Paired
  <2> QED
    BY <2>1, <2>2, <2>3 DEF TInv, ch2

\* Ends that were free are those of nobody else.
LEMMA KeepsOwn ==
  ASSUME NEW f, f = [d \in Descriptors |-> f[d]], NEW c \in Broker,
         c.m[1] # c.c[2], c.m[1] \in Free(f), c.c[2] \in Free(f)
  PROVE  /\ Holds(Keeps(f, c), c)
         /\ \A b \in Broker : Holds(f, b) => Holds(Keeps(f, c), b)
<1>1. Holds(Keeps(f, c), c)
  BY BrokerFields DEF Holds, Keeps
<1>2. ASSUME NEW b \in Broker, Holds(f, b)
      PROVE  Holds(Keeps(f, c), b)
  <2>1. Reading(b.pid) # Closed /\ Writing(b.pid) # Closed
    BY DEF Reading, Writing, Closed
  <2>2. f[c.m[1]] = Closed /\ f[c.c[2]] = Closed
    BY DEF Free
  <2>3. b.m[1] # c.m[1] /\ b.m[1] # c.c[2] /\ b.c[2] # c.m[1] /\ b.c[2] # c.c[2]
    BY <1>2, <2>1, <2>2 DEF Holds
  <2> QED
    BY <1>2, <2>3, BrokerFields DEF Holds, Keeps
<1> QED
  BY <1>1, <1>2

LEMMA NewBrokerIs ==
  ASSUME NEW f, Enough(f, 4), NEW p \in Pids
  PROVE  /\ NewBroker(f, p) \in Broker /\ NewBroker(f, p).pid = p
         /\ NewBroker(f, p).m[1] # NewBroker(f, p).c[2]
         /\ NewBroker(f, p).m[1] \in Free(f) /\ NewBroker(f, p).c[2] \in Free(f)
<1> DEFINE n == LowestFree(f, 4)
<1>1. /\ n[1] \in Free(f) /\ n[2] \in Free(f) /\ n[3] \in Free(f) /\ n[4] \in Free(f)
      /\ n[1] # n[4]
  <2>1. /\ \A k \in 1..4 : n[k] \in Free(f)
        /\ \A k, l \in 1..4 : n[k] = n[l] => k = l
    BY LowestFreeIs
  <2> HIDE DEF n
  <2> QED
    BY <2>1
<1>2. Free(f) \subseteq Descriptors
  BY DEF Free
<1> HIDE DEF n
<1>3. NewBroker(f, p) = [pid |-> p, m |-> <<n[1], n[2]>>, c |-> <<n[3], n[4]>>]
  BY DEF NewBroker, n
<1> QED
  BY <1>1, <1>2, <1>3 DEF Broker

\* emplace(wid, pid)
LEMMA ForkKeeps ==
  ASSUME NEW e, NEW bs, NEW sl, NEW f, NEW ch, TInv(e, bs, sl, f, ch),
         NEW p \in Pids, ch[p] = "none", \A q \in Pids : ch[q] = "none" => p <= q,
         Enough(f, 4), NEW b, b = NewBroker(f, p)
  PROVE  TInv(e, Append(bs, b),
              [q \in DOMAIN sl \cup {p} |-> IF q = p THEN Len(bs) + 1 ELSE sl[q]],
              Keeps(f, b), [ch EXCEPT ![p] = "run"])
<1> DEFINE s == Append(bs, b)
           sl2 == [q \in DOMAIN sl \cup {p} |-> IF q = p THEN Len(bs) + 1 ELSE sl[q]]
           f2 == Keeps(f, b)
           ch2 == [ch EXCEPT ![p] = "run"]
<1>1. /\ b \in Broker /\ b.pid = p /\ b.m[1] # b.c[2]
      /\ b.m[1] \in Free(f) /\ b.c[2] \in Free(f)
  BY NewBrokerIs
<1>2. bs \in Seq(Broker) /\ Len(bs) \in Nat
  BY DEF TInv, Typed
<1>3. /\ s \in Seq(Broker) /\ Len(s) = Len(bs) + 1 /\ s[Len(bs) + 1] = b
      /\ \A i \in 1..Len(bs) : s[i] = bs[i]
  BY <1>1, <1>2
<1>4. \A i \in 1..Len(s) : i \in 1..Len(bs) \/ i = Len(bs) + 1
  BY <1>2, <1>3
<1>5. /\ ch2 \in [Pids -> States] /\ ch2[p] = "run"
      /\ \A q \in Pids : q # p => ch2[q] = ch[q]
  BY DEF TInv, Typed, States, Running
<1>6. /\ DOMAIN sl2 = DOMAIN sl \cup {p} /\ sl2[p] = Len(bs) + 1
      /\ \A q \in DOMAIN sl : q # p => sl2[q] = sl[q]
  OBVIOUS
<1>7. p \notin DOMAIN sl /\ \A i \in 1..Len(bs) : bs[i].pid # p
  BY DEF TInv, Born
<1>8. \A i \in 1..Len(bs) : bs[i] \in Broker /\ bs[i].pid \in Pids
  <2>1. \A i \in 1..Len(bs) : bs[i] \in Broker
    BY <1>2
  <2> QED
    BY <2>1, BrokerFields
<1>9. "run" \in Running /\ "run" # "none"
  BY DEF Running
<1> HIDE DEF s, sl2, f2, ch2
<1>10. Typed(s, sl2, f2, ch2)
  <2>1. DOMAIN sl2 \subseteq Pids /\ \A q \in DOMAIN sl2 : sl2[q] \in Nat \ {0}
    BY <1>2, <1>6, <1>7 DEF TInv, Typed
  <2>2. f2 = [d \in Descriptors |-> f2[d]]
    BY DEF f2, Keeps
  <2> QED
    BY <1>3, <1>5, <2>1, <2>2 DEF Typed
<1>11. InTurn(ch2)
  <2> SUFFICES ASSUME NEW q \in Pids, NEW r \in Pids, q < r, ch2[r] # "none"
               PROVE  ch2[q] # "none"
    BY DEF InTurn
  <2>1. CASE r = p
    <3>1. ~(p <= q)
      BY <2>1, PidsAre
    <3>2. ch[q] # "none" /\ q # p
      BY <2>1, <3>1, PidsAre
    <3> QED
      BY <1>5, <3>2
  <2>2. CASE r # p
    <3>1. ch[q] # "none"
      BY <1>5, <2>2 DEF TInv, InTurn
    <3> QED
      BY <1>5, <1>9, <3>1
  <2> QED
    BY <2>1, <2>2
<1>12. Born(s, sl2, ch2)
  <2>1. \A i \in 1..Len(s) : ch2[s[i].pid] # "none"
    BY <1>1, <1>3, <1>4, <1>5, <1>7, <1>8 DEF TInv, Born
  <2>2. \A q \in DOMAIN sl2 : ch2[q] # "none"
    BY <1>5, <1>6 DEF TInv, Typed, Born
  <2> QED
    BY <2>1, <2>2 DEF Born
<1>13. Once(s)
  BY <1>1, <1>3, <1>4, <1>7 DEF TInv, Once
<1>14. Ahead(e, s, sl2)
  <2> SUFFICES ASSUME ~e.eraseAny, NEW i \in 1..Len(s), s[i].pid \in DOMAIN sl2
               PROVE  i <= sl2[s[i].pid] /\ (~e.closeFirst => i = sl2[s[i].pid])
    BY DEF Ahead
  <2>1. CASE i \in 1..Len(bs)
    <3>1. s[i].pid = bs[i].pid /\ bs[i].pid # p
      BY <1>3, <1>7, <2>1
    <3>2. bs[i].pid \in DOMAIN sl /\ sl2[bs[i].pid] = sl[bs[i].pid]
      BY <1>6, <3>1
    <3> QED
      BY <2>1, <3>1, <3>2 DEF TInv, Ahead
  <2>2. CASE i = Len(bs) + 1
    BY <1>1, <1>2, <1>3, <1>6, <2>2
  <2> QED
    BY <1>4, <2>1, <2>2
<1>15. Watched(s, sl2, ch2)
  BY <1>1, <1>3, <1>4, <1>5, <1>6, <1>7, <1>8, <1>9 DEF TInv, Watched
<1>16. Paired(e, s, f2, ch2)
  <2> SUFFICES ASSUME ~e.eraseAny, ~e.closeFirst, NEW i \in 1..Len(s), ch2[s[i].pid] \in Running
               PROVE  Holds(f2, s[i])
    BY DEF Paired
  <2>0. f = [d \in Descriptors |-> f[d]]
    BY DEF TInv, Typed
  <2>1. CASE i \in 1..Len(bs)
    <3>1. s[i] = bs[i] /\ ch[bs[i].pid] \in Running
      BY <1>3, <1>5, <1>7, <1>8, <2>1
    <3>2. Holds(f, bs[i])
      BY <2>1, <3>1 DEF TInv, Paired
    <3> QED
      BY <1>1, <1>8, <2>0, <2>1, <3>1, <3>2, KeepsOwn DEF f2
  <2>2. CASE i = Len(bs) + 1
    BY <1>1, <1>3, <2>0, <2>2, KeepsOwn DEF f2
  <2> QED
    BY <1>4, <2>1, <2>2
<1> QED
  BY <1>10, <1>11, <1>12, <1>13, <1>14, <1>15, <1>16 DEF TInv, s, sl2, f2, ch2

LEMMA NewestIs ==
  ASSUME Unused # {}
  PROVE  /\ Newest \in Pids /\ child[Newest] = "none"
         /\ \A q \in Pids : child[q] = "none" => Newest <= q
<1>1. Unused \subseteq Nat
  BY PidsAre DEF Unused
<1>2. \E p \in Unused : \A q \in Unused : p <= q
  BY <1>1, LeastNat
<1>3. Newest \in Unused /\ \A q \in Unused : Newest <= q
  BY <1>2 DEF Newest
<1> QED
  BY <1>3 DEF Unused

LEMMA SpareIs ==
         /\ IsFiniteSet(Unused) /\ Cardinality(Unused) \in Nat
         /\ Spare \in Int /\ Spare <= Cardinality(Unused)
<1>1. IsFiniteSet(Unused) /\ IsFiniteSet({p \in Pids : child[p] = "error"})
  BY PidsAre, FS_Subset DEF Unused
<1>2. Cardinality(Unused) \in Nat /\ Cardinality({p \in Pids : child[p] = "error"}) \in Nat
  BY <1>1, FS_CardinalityType
<1> QED
  BY <1>1, <1>2 DEF Spare

LEMMA SomeUnused ==
  ASSUME Spare > 0
  PROVE  Unused # {}
<1>1. Cardinality(Unused) > 0
  BY SpareIs
<1> QED
  BY <1>1, FS_EmptySet

\* the processes start() forks
LEMMA NewOnes ==
  ASSUME CInv, Spare >= count
  PROVE  /\ Unused # {}
         /\ \A p \in Nat : Newest <= p /\ p <= Newest + count - 1 => p \in Pids /\ child[p] = "none"
<1> DEFINE c == Cardinality(Pids)
<1>1. c \in Nat /\ Pids = 1..c
  BY PidsAre, ClusterAssumption
<1>2. count \in Nat /\ count > 0
  BY DEF CInv
<1>3. Cardinality(Unused) \in Nat /\ count <= Cardinality(Unused)
  BY <1>2, SpareIs
<1>4. Unused # {}
  BY <1>2, <1>3, FS_EmptySet
<1>5. /\ Newest \in Pids /\ child[Newest] = "none"
      /\ \A q \in Pids : child[q] = "none" => Newest <= q
  BY <1>4, NewestIs
<1> DEFINE first == Newest
<1> HIDE DEF first, c
<1>6. first \in Nat /\ first <= c
  BY <1>1, <1>5 DEF first
<1>7. Unused \subseteq first..c
  BY <1>1, <1>5 DEF Unused, first
<1>8. IsFiniteSet(first..c) /\ Cardinality(first..c) = c - first + 1
  BY <1>1, <1>6, FS_Interval
<1>9. Cardinality(Unused) <= c - first + 1
  <2>1. Cardinality(Unused) <= Cardinality(first..c)
    BY <1>7, <1>8, FS_Subset
  <2> QED
    BY <1>8, <2>1
<1>10. ASSUME NEW p \in Nat, first <= p, p <= first + count - 1
       PROVE  p \in Pids /\ child[p] = "none"
  <2>1. p <= c /\ 1 <= first
    BY <1>1, <1>2, <1>3, <1>5, <1>6, <1>9, <1>10 DEF first
  <2>2. p \in Pids
    BY <1>1, <1>6, <1>10, <2>1
  <2>3. CASE p = first
    BY <1>5, <2>2, <2>3 DEF first
  <2>4. CASE p # first
    <3>1. first < p /\ first \in Pids
      BY <1>5, <1>6, <1>10, <2>4 DEF first
    <3> QED
      BY <1>5, <2>2, <3>1 DEF CInv, TInv, InTurn, first
  <2> QED
    BY <2>2, <2>3, <2>4
<1> QED
  BY <1>4, <1>10 DEF first

\* create()
LEMMA CreatedKeeps ==
  ASSUME CInv, Spare >= count, Enough(fd, 4 * count),
         NEW ch, ch = [p \in Pids |-> IF p \in DOMAIN Created.slot THEN "run" ELSE child[p]]
  PROVE  TInv(env, Created.brokers, Created.slot, Created.fd, ch)
<1> DEFINE first == Newest
           all == LowestFree(fd, 4 * count)
           B(i) == [pid |-> first + i - 1,
                    m |-> <<all[4 * i - 3], all[4 * i - 2]>>,
                    c |-> <<all[4 * i - 1], all[4 * i]>>]
           made == [i \in 1..count |-> B(i)]
           sl == [p \in first..first + count - 1 |-> p - first + 1]
           Owner(d) == CHOOSE i \in 1..count : d \in Kept(made[i])
           f == [d \in Descriptors |->
                   IF \E i \in 1..count : d \in Kept(made[i])
                   THEN Keeps(fd, made[Owner(d)])[d]
                   ELSE fd[d]]
<1>1. /\ Created.brokers = made /\ Created.slot = sl /\ Created.fd = f
  BY DEF Created
<1>2. count \in Nat /\ count > 0
  BY DEF CInv
<1>3. /\ first \in Nat
      /\ \A p \in Nat : first <= p /\ p <= first + count - 1 => p \in Pids /\ child[p] = "none"
  <2>1. Newest \in Nat
    BY NewOnes, NewestIs, PidsAre
  <2> QED
    BY <2>1, NewOnes
<1>4. /\ \A k \in 1..(4 * count) : all[k] \in Descriptors
      /\ \A k, l \in 1..(4 * count) : all[k] = all[l] => k = l
  <2>1. 4 * count \in Nat
    BY <1>2
  <2>2. Free(fd) \subseteq Descriptors
    BY DEF Free
  <2> HIDE DEF all
  <2>3. /\ \A k \in 1..(4 * count) : all[k] \in Free(fd)
        /\ \A k, l \in 1..(4 * count) : all[k] = all[l] => k = l
    BY <2>1, LowestFreeIs DEF all
  <2> QED
    BY <2>2, <2>3
<1> HIDE DEF first, all
<1>5. ASSUME NEW i \in 1..count
      PROVE  /\ B(i) \in Broker /\ B(i).pid = first + i - 1
             /\ B(i).m[1] = all[4 * i - 3] /\ B(i).c[2] = all[4 * i]
             /\ Kept(B(i)) = {all[4 * i - 3], all[4 * i]}
             /\ first + i - 1 \in first..first + count - 1
  <2>1. /\ 4 * i - 3 \in 1..(4 * count) /\ 4 * i - 2 \in 1..(4 * count)
        /\ 4 * i - 1 \in 1..(4 * count) /\ 4 * i \in 1..(4 * count)
    BY <1>2
  <2>2. /\ all[4 * i - 3] \in Descriptors /\ all[4 * i - 2] \in Descriptors
        /\ all[4 * i - 1] \in Descriptors /\ all[4 * i] \in Descriptors
    BY <1>4, <2>1
  <2>3. first + i - 1 \in Nat /\ first <= first + i - 1 /\ first + i - 1 <= first + count - 1
    BY <1>2, <1>3
  <2>4. first + i - 1 \in Pids
    BY <1>3, <2>3
  <2>5. B(i) \in Broker
    BY <2>2, <2>4 DEF Broker
  <2> QED
    BY <2>3, <2>5 DEF Kept
<1>6. \A i, j \in 1..count : \A d \in Kept(B(i)) : d \in Kept(B(j)) => i = j
  <2> SUFFICES ASSUME NEW i \in 1..count, NEW j \in 1..count,
                      NEW d, d \in Kept(B(i)), d \in Kept(B(j))
               PROVE  i = j
    OBVIOUS
  <2>1. d \in {all[4 * i - 3], all[4 * i]} /\ d \in {all[4 * j - 3], all[4 * j]}
    BY <1>5
  <2>2. /\ 4 * i - 3 \in 1..(4 * count) /\ 4 * i \in 1..(4 * count)
        /\ 4 * j - 3 \in 1..(4 * count) /\ 4 * j \in 1..(4 * count)
    BY <1>2
  <2>3. \/ 4 * i - 3 = 4 * j - 3 \/ 4 * i - 3 = 4 * j
        \/ 4 * i = 4 * j - 3 \/ 4 * i = 4 * j
    BY <1>4, <2>1, <2>2
  <2> QED
    BY <2>3
<1>7. made \in Seq(Broker) /\ Len(made) = count /\ \A i \in 1..count : made[i] = B(i)
  <2>1. \A i \in 1..count : B(i) \in Broker
    BY <1>5
  <2> HIDE DEF B
  <2>2. made \in [1..count -> Broker]
    BY <2>1
  <2> QED
    BY <1>2, <2>2, SeqDef, LenProperties
<1>8. \A i \in 1..count : Holds(f, made[i])
  <2> SUFFICES ASSUME NEW i \in 1..count
               PROVE  Holds(f, made[i])
    OBVIOUS
  <2>1. made[i] = B(i) /\ B(i) \in Broker
    BY <1>5, <1>7
  <2>2. \A d \in Kept(B(i)) : Owner(d) = i
    <3> SUFFICES ASSUME NEW d \in Kept(B(i))
                 PROVE  Owner(d) = i
      OBVIOUS
    <3>1. i \in 1..count /\ d \in Kept(made[i])
      BY <2>1
    <3> HIDE DEF B, made
    <3>2. Owner(d) \in 1..count /\ d \in Kept(made[Owner(d)])
      BY <3>1
    <3> HIDE DEF Owner
    <3>3. d \in Kept(B(Owner(d)))
      BY <1>7, <3>2
    <3> QED
      BY <1>6, <3>2, <3>3
  <2>3. /\ B(i).m[1] \in Kept(B(i)) /\ B(i).c[2] \in Kept(B(i)) /\ B(i).m[1] # B(i).c[2]
    <3>1. 4 * i - 3 \in 1..(4 * count) /\ 4 * i \in 1..(4 * count) /\ 4 * i - 3 # 4 * i
      BY <1>2
    <3>2. all[4 * i - 3] # all[4 * i]
      BY <1>4, <3>1
    <3> QED
      BY <1>5, <3>2
  <2> HIDE DEF B, made, Owner
  <2>4. \A d \in Kept(B(i)) : d \in Descriptors => f[d] = Keeps(fd, B(i))[d]
    BY <2>1, <2>2
  <2> HIDE DEF f
  <2>5. /\ f[B(i).m[1]] = Keeps(fd, B(i))[B(i).m[1]]
        /\ f[B(i).c[2]] = Keeps(fd, B(i))[B(i).c[2]]
    BY <2>1, <2>3, <2>4, BrokerFields
  <2>6. Holds(Keeps(fd, B(i)), B(i))
    BY <2>1, <2>3, BrokerFields DEF Holds, Keeps
  <2> QED
    BY <2>1, <2>5, <2>6 DEF Holds
<1>9. f = [d \in Descriptors |-> f[d]]
  OBVIOUS
<1> HIDE DEF f
<1>10. \A p \in DOMAIN sl : p \in Pids /\ child[p] = "none" /\ sl[p] \in Nat \ {0} /\ sl[p] = p - first + 1
  <2> SUFFICES ASSUME NEW p \in first..first + count - 1
               PROVE  p \in Pids /\ child[p] = "none" /\ p - first + 1 \in Nat \ {0}
    OBVIOUS
  <2>1. p \in Nat /\ first <= p /\ p <= first + count - 1
    BY <1>2, <1>3
  <2> QED
    BY <1>3, <2>1
<1>11. /\ ch \in [Pids -> States] /\ \A p \in DOMAIN sl : ch[p] = "run"
       /\ \A p \in Pids \ DOMAIN sl : ch[p] = child[p]
  <2>1. ch = [p \in Pids |-> IF p \in DOMAIN sl THEN "run" ELSE child[p]]
    BY <1>1
  <2>2. child \in [Pids -> States] /\ "run" \in States
    BY DEF CInv, TInv, Typed, States, Running
  <2> HIDE DEF sl
  <2> QED
    BY <1>10, <2>1, <2>2
<1>12. DOMAIN sl = first..first + count - 1
  OBVIOUS
<1>13. \A i \in 1..count : /\ made[i].pid = first + i - 1 /\ made[i].pid \in DOMAIN sl
                           /\ sl[made[i].pid] = i
  <2> SUFFICES ASSUME NEW i \in 1..count
               PROVE  /\ made[i].pid = first + i - 1 /\ made[i].pid \in DOMAIN sl
                      /\ sl[made[i].pid] = i
    OBVIOUS
  <2>1. made[i].pid = first + i - 1 /\ first + i - 1 \in DOMAIN sl
    BY <1>5, <1>7
  <2> HIDE DEF made, sl
  <2>2. sl[first + i - 1] = (first + i - 1) - first + 1
    BY <1>10, <2>1
  <2> QED
    BY <1>2, <1>3, <2>1, <2>2
<1> HIDE DEF made, sl
<1>14. "run" \in Running /\ "run" # "none"
  BY DEF Running
<1>15. Typed(made, sl, f, ch)
  BY <1>7, <1>9, <1>10, <1>11 DEF Typed
<1>16. InTurn(ch)
  <2> SUFFICES ASSUME NEW q \in Pids, NEW r \in Pids, q < r, ch[r] # "none", ch[q] = "none"
               PROVE  FALSE
    BY DEF InTurn
  <2>1. q \notin DOMAIN sl /\ child[q] = "none"
    BY <1>11, <1>14
  <2>2. r \in DOMAIN sl
    <3>1. r \notin DOMAIN sl => child[r] # "none"
      BY <1>11
    <3> QED
      BY <2>1, <3>1 DEF CInv, TInv, InTurn
  <2>3. first <= q
    BY <2>1, NewOnes, NewestIs DEF first
  <2> QED
    BY <1>2, <1>3, <1>12, <2>1, <2>2, <2>3, PidsAre
<1>17. Born(made, sl, ch) /\ Watched(made, sl, ch)
  BY <1>7, <1>11, <1>13, <1>14 DEF Born, Watched
<1>18. Once(made)
  <2> SUFFICES ASSUME NEW i \in 1..Len(made), NEW j \in 1..Len(made), made[i].pid = made[j].pid
               PROVE  i = j
    BY DEF Once
  <2> QED
    BY <1>7, <1>13
<1>19. Ahead(env, made, sl)
  <2>1. \A i \in 1..Len(made) : i <= sl[made[i].pid] /\ i = sl[made[i].pid]
    BY <1>2, <1>7, <1>13
  <2> QED
    BY <2>1 DEF Ahead
<1>20. Paired(env, made, f, ch)
  BY <1>7, <1>8 DEF Paired
<1> QED
  BY <1>1, <1>15, <1>16, <1>17, <1>18, <1>19, <1>20 DEF TInv

(***************************************************************************)
(* The steps.                                                              *)
(***************************************************************************)
LEMMA ForkStep ==
  ASSUME NEW e, NEW bs, NEW sl, NEW f, NEW ch, TInv(e, bs, sl, f, ch),
         Unused # {}, \A q \in Pids : (ch[q] = "none" <=> child[q] = "none"),
         Enough(f, 4), Fork([brokers |-> bs, slot |-> sl, fd |-> f])
  PROVE  TInv(e, brokers', slot', fd', [ch EXCEPT ![Newest] = "run"])
<1> DEFINE b == NewBroker(f, Newest)
           t == [brokers |-> bs, slot |-> sl, fd |-> f]
<1>1. /\ Newest \in Pids /\ ch[Newest] = "none"
      /\ \A q \in Pids : ch[q] = "none" => Newest <= q
  BY NewestIs
<1>2. Becomes(Forked(t, b))
  BY DEF Fork
<1>3. b.pid = Newest
  BY <1>1, NewBrokerIs
<1> HIDE DEF b
<1>4. /\ brokers' = Append(bs, b)
      /\ slot' = [q \in DOMAIN sl \cup {Newest} |-> IF q = Newest THEN Len(bs) + 1 ELSE sl[q]]
      /\ fd' = Keeps(f, b)
  BY <1>2, <1>3 DEF Becomes, Forked
<1> QED
  BY <1>1, <1>4, ForkKeeps DEF b

LEMMA MatchingIs ==
  ASSUME NEW p, At(p) # {}, CInv
  PROVE  Matching(p) \in 1..Len(brokers) /\ brokers[Matching(p)].pid = p
<1>1. At(p) \subseteq Nat
  BY DEF At, CInv, TInv, Typed
<1>2. \E i \in At(p) : \A j \in At(p) : i <= j
  BY <1>1, LeastNat
<1>3. Matching(p) \in At(p)
  BY <1>2 DEF Matching
<1> QED
  BY <1>3 DEF At

LEMMA ExitKeeps ==
  ASSUME CInv, Exit
  PROVE  TInv(env, brokers', slot', fd', child)
<1>1. brokers' = <<>> /\ slot' = <<>> /\ fd' = Shut(fd, Descriptors)
  BY DEF Exit, Becomes
<1> QED
  BY <1>1, NoBrokers DEF CInv

LEMMA StartKeeps == ASSUME CInv, Start PROVE CInv'
<1>1. count' = count /\ env' = env
  BY DEF Start
<1>2. CASE Enough(fd, 4 * count)
  <2>1. /\ brokers' = Created.brokers /\ slot' = Created.slot /\ fd' = Created.fd
        /\ child' = [p \in Pids |-> IF p \in DOMAIN Created.slot THEN "run" ELSE child[p]]
    BY <1>2 DEF Start, Becomes, Run
  <2>2. TInv(env, Created.brokers, Created.slot, Created.fd, child')
    BY <1>2, <2>1, CreatedKeeps DEF Start
  <2> QED
    BY <1>1, <2>1, <2>2 DEF CInv
<1>3. CASE ~Enough(fd, 4 * count)
  <2>1. Exit /\ child' = child
    BY <1>3 DEF Start
  <2> QED
    BY <1>1, <2>1, ExitKeeps DEF CInv
<1> QED
  BY <1>2, <1>3

LEMMA DropKeeps == ASSUME CInv, Stop \/ CloseAll PROVE CInv'
<1>1. /\ count' = count /\ env' = env /\ child' = child
      /\ brokers' = <<>> /\ (slot' = slot \/ slot' = <<>>)
      /\ \E numbers : fd' = Shut(fd, numbers)
  BY DEF Stop, CloseAll, Dropped, Becomes
<1> QED
  BY <1>1, NoBrokers DEF CInv

LEMMA EmplaceKeeps == ASSUME CInv, Emplace PROVE CInv'
<1>1. count' = count + 1 /\ env' = env /\ count \in Nat
  BY DEF Emplace, CInv
<1>2. CASE Enough(fd, 4)
  <2>1. /\ Fork([brokers |-> brokers, slot |-> slot, fd |-> fd])
        /\ child' = [p \in Pids |-> IF p = Newest THEN "run" ELSE child[p]]
    BY <1>2 DEF Emplace, Table, Run
  <2>2. child' = [child EXCEPT ![Newest] = "run"]
    BY <2>1 DEF CInv, TInv, Typed
  <2>3. Unused # {}
    BY SomeUnused DEF Emplace
  <2>4. TInv(env, brokers', slot', fd', [child EXCEPT ![Newest] = "run"])
    BY <1>2, <2>1, <2>3, ForkStep DEF CInv
  <2> QED
    BY <1>1, <2>2, <2>4 DEF CInv
<1>3. CASE ~Enough(fd, 4)
  <2>1. Exit /\ child' = child
    BY <1>3 DEF Emplace
  <2>2. TInv(env, brokers', slot', fd', child)
    BY <2>1, ExitKeeps
  <2> QED
    BY <1>1, <2>1, <2>2 DEF CInv
<1> QED
  BY <1>2, <1>3

LEMMA EraseKeeps == ASSUME CInv, NEW p \in Pids, Erase(p) PROVE CInv'
<1> DEFINE n == slot[p]
<1>1. /\ count' = count /\ env' = env /\ p \in DOMAIN slot /\ slot[p] <= Len(brokers)
      /\ brokers' = RemoveAt(brokers, n)
      /\ slot' = [q \in DOMAIN slot \ {p} |-> slot[q]]
      /\ fd' = Shut(fd, Kept(brokers[n]))
  BY DEF Erase, Becomes, Table, Without
<1>2. brokers \in Seq(Broker) /\ n \in 1..Len(brokers)
  BY <1>1 DEF CInv, TInv, Typed
<1>3. ~env.eraseAny => n = Len(brokers) /\ brokers[n].pid = p
  <2> SUFFICES ASSUME ~env.eraseAny
               PROVE  n = Len(brokers) /\ brokers[n].pid = p
    OBVIOUS
  <2>1. brokers[Len(brokers)].pid = p /\ Len(brokers) \in 1..Len(brokers)
    BY <1>2 DEF Erase, Erasable, Last
  <2>2. Len(brokers) <= n
    BY <1>1, <2>1 DEF CInv, TInv, Ahead
  <2> QED
    BY <1>1, <1>2, <2>1, <2>2
<1>4. ~env.eraseAny => child[brokers[n].pid] \in Running
  BY <1>1, <1>2, <1>3 DEF CInv, TInv, Watched
<1>5. DOMAIN slot' \subseteq DOMAIN slot /\ \A q \in DOMAIN slot' : slot'[q] = slot[q]
  BY <1>1
<1>6. TInv(env, brokers', slot', fd', child)
  BY <1>1, <1>2, <1>3, <1>4, <1>5, TakenOut DEF CInv
<1>7. TInv(env, brokers', slot', fd', child')
  <2>1. CASE child[p] = "run"
    <3>1. PICK how \in {"error", "fatal"} : child' = [child EXCEPT ![p] = how]
      BY <2>1 DEF Erase, Kill
    <3>2. how \in Ended /\ how \in States
      BY DEF Ended, States, Running
    <3> QED
      BY <1>6, <2>1, <3>1, <3>2, OtherEnd
  <2>2. CASE child[p] # "run"
    <3>1. child' = child
      BY <2>2 DEF Erase, Kill
    <3> QED
      BY <1>6, <3>1
  <2> QED
    BY <2>1, <2>2
<1> QED
  BY <1>1, <1>7 DEF CInv

LEMMA NumberedIs ==
  ASSUME NEW m \in 1..Len(brokers), CInv
  PROVE  Numbered(brokers[m].m[1]) \in 1..Len(brokers)
<1> DEFINE d == brokers[m].m[1]
           WithIt == {i \in 1..Len(brokers) : brokers[i].m[1] = d}
<1>1. m \in WithIt /\ WithIt \subseteq Nat /\ Len(brokers) \in Nat
  BY DEF CInv, TInv, Typed
<1>2. PICK i \in WithIt : \A j \in WithIt : i <= j
  BY <1>1, LeastNat
<1>3. i \in 1..Len(brokers) /\ brokers[i].m[1] = d
  OBVIOUS
<1>4. ASSUME NEW j \in 1..i - 1 PROVE brokers[j].m[1] # d
  <2>1. j \in 1..Len(brokers) /\ ~(i <= j)
    BY <1>1, <1>3
  <2> QED
    BY <1>2, <2>1
<1> HIDE DEF d, WithIt
<1>5. \E k \in 1..Len(brokers) : brokers[k].m[1] = d /\ \A j \in 1..k - 1 : brokers[j].m[1] # d
  BY <1>3, <1>4
<1>6. Numbered(d) \in 1..Len(brokers)
  BY <1>5 DEF Numbered
<1> QED
  BY <1>6 DEF d

LEMMA HangupKeeps == ASSUME CInv, NEW p \in Pids, Hangup(p) PROVE CInv'
<1>1. count' = count /\ env' = env /\ child' = child
  BY DEF Hangup
<1>2. CASE restart
  <2> DEFINE n == Numbered(brokers[Matching(p)].m[1])
  <2>1. /\ brokers' = RemoveAt(brokers, n) /\ slot' = slot
        /\ fd' = Shut(fd, Kept(brokers[n]))
    BY <1>2 DEF Hangup, Becomes, Table
  <2>2. env.closeFirst /\ n \in 1..Len(brokers)
    BY NumberedIs, MatchingIs DEF Hangup, HungUp
  <2> HIDE DEF n
  <2>3. TInv(env, brokers', slot', fd', child)
    BY <2>1, <2>2, TakenOut DEF CInv
  <2> QED
    BY <1>1, <2>3 DEF CInv
<1>3. CASE ~restart
  <2>1. Exit
    BY <1>3 DEF Hangup
  <2> QED
    BY <1>1, <2>1, ExitKeeps DEF CInv
<1> QED
  BY <1>2, <1>3

LEMMA SigchldKeeps == ASSUME CInv, NEW p \in Pids, Sigchld(p) PROVE CInv'
<1>1. count' = count /\ env' = env /\ child[p] \in Ended
  BY DEF Sigchld
<1>2. "reaped" \in States /\ "reaped" # "none" /\ child[p] # "none" /\ child \in [Pids -> States]
  BY <1>1 DEF States, Ended, CInv, TInv, Typed
<1> DEFINE ch == [child EXCEPT ![p] = "reaped"]
<1>3. CASE At(p) = {} /\ child' = ch /\ UNCHANGED table
  <2>1. \A i \in 1..Len(brokers) : brokers[i].pid # p
    BY <1>3 DEF At
  <2>2. TInv(env, brokers, slot, fd, ch)
    BY <1>1, <1>2, <2>1, OtherEnd DEF CInv
  <2> QED
    BY <1>1, <1>3, <2>2 DEF CInv, table
<1>4. CASE Exit /\ child' = ch
  <2>1. TInv(env, brokers', slot', fd', child) /\ brokers' = <<>>
    BY <1>4, ExitKeeps DEF Exit, Becomes
  <2>2. \A i \in 1..Len(brokers') : brokers'[i].pid # p
    BY <2>1
  <2>3. TInv(env, brokers', slot', fd', ch)
    BY <1>1, <1>2, <2>1, <2>2, OtherEnd
  <2> QED
    BY <1>1, <1>4, <2>3 DEF CInv
<1>5. CASE At(p) # {} /\ (Becomes(AfterEnd(p)) \/ Fork(AfterEnd(p)))
  <2> DEFINE n == Matching(p)
             sl == [q \in DOMAIN slot \ {p} |-> slot[q]]
             f == Shut(fd, Kept(brokers[n]))
  <2>1. n \in 1..Len(brokers) /\ brokers[n].pid = p
    BY <1>5, MatchingIs
  <2>2. AfterEnd(p) = [brokers |-> brokers, slot |-> sl, fd |-> f]
    BY DEF AfterEnd, Without
  <2>3. TInv(env, brokers, sl, f, ch)
    <3> HIDE DEF n
    <3> QED
      BY <1>1, <2>1, EndClosed DEF CInv
  <2> HIDE DEF n, sl, f
  <2>4. CASE Becomes(AfterEnd(p)) /\ child' = ch
    BY <1>1, <2>2, <2>3, <2>4 DEF Becomes, CInv
  <2>5. CASE /\ Enough(AfterEnd(p).fd, 4) /\ Unused # {} /\ Fork(AfterEnd(p))
             /\ child' = [child EXCEPT ![p] = "reaped", ![Newest] = "run"]
    <3>1. \A q \in Pids : (ch[q] = "none" <=> child[q] = "none")
      BY <1>2
    <3>2. Enough(f, 4) /\ Fork([brokers |-> brokers, slot |-> sl, fd |-> f])
      BY <2>2, <2>5
    <3>3. TInv(env, brokers', slot', fd', [ch EXCEPT ![Newest] = "run"])
      <4> HIDE DEF ch
      <4> QED
        BY <2>3, <2>5, <3>1, <3>2, ForkStep
    <3>4. child' = [ch EXCEPT ![Newest] = "run"]
      BY <2>5
    <3> QED
      BY <1>1, <3>3, <3>4 DEF CInv
  <2>6. \/ Becomes(AfterEnd(p)) /\ child' = ch
        \/ /\ Enough(AfterEnd(p).fd, 4) /\ Unused # {} /\ Fork(AfterEnd(p))
           /\ child' = [child EXCEPT ![p] = "reaped", ![Newest] = "run"]
        \/ Exit /\ child' = ch
    BY <1>5 DEF Sigchld
  <2> QED
    BY <1>4, <2>4, <2>5, <2>6
<1>6. \/ At(p) = {} /\ child' = ch /\ UNCHANGED table
      \/ Exit /\ child' = ch
      \/ At(p) # {} /\ (Becomes(AfterEnd(p)) \/ Fork(AfterEnd(p)))
  BY DEF Sigchld
<1> QED
  BY <1>3, <1>4, <1>5, <1>6

LEMMA EndsKeep ==
  ASSUME CInv, NEW p \in Pids, ChildHangup(p) \/ \E how \in Ended : ChildEnds(p, how)
  PROVE  CInv'
<1>1. PICK how \in Ended : child[p] = "run" /\ child' = [child EXCEPT ![p] = how]
  BY DEF ChildHangup, ChildEnds, Ended
<1>2. UNCHANGED <<env, count, brokers, slot, fd>>
  BY DEF ChildHangup, ChildEnds, table
<1>3. how \in States
  BY DEF States, Running
<1>4. TInv(env, brokers, slot, fd, child')
  BY <1>1, <1>3, OtherEnd DEF CInv
<1> QED
  BY <1>2, <1>4 DEF CInv

LEMMA OpenKeeps == ASSUME CInv, Open PROVE CInv'
<1> DEFINE d == LowestFree(fd, 1)[1]
<1>1. d \in Free(fd)
  BY LowestFreeIs DEF Open
<1>2. /\ UNCHANGED <<env, count, brokers, slot, child>>
      /\ fd' = [fd EXCEPT ![d] = Stranger]
  BY DEF Open
<1> HIDE DEF d
<1>3. fd = [x \in Descriptors |-> fd[x]]
  BY DEF CInv, TInv, Typed
<1>4. /\ fd' = [x \in Descriptors |-> fd'[x]]
      /\ \A x \in Descriptors : x # d => fd'[x] = fd[x]
  BY <1>2, <1>3
<1>5. \A b \in Broker : Holds(fd, b) => Holds(fd', b)
  <2> SUFFICES ASSUME NEW b \in Broker, Holds(fd, b)
               PROVE  Holds(fd', b)
    OBVIOUS
  <2>1. Reading(b.pid) # Closed /\ Writing(b.pid) # Closed
    BY DEF Reading, Writing, Closed
  <2>2. b.m[1] # d /\ b.c[2] # d
    BY <1>1, <2>1 DEF Holds, Free
  <2> QED
    BY <1>4, <2>2, BrokerFields DEF Holds
<1>6. \A i \in 1..Len(brokers) : brokers[i] \in Broker
  BY DEF CInv, TInv, Typed
<1>7. Paired(env, brokers, fd', child)
  BY <1>5, <1>6 DEF CInv, TInv, Paired
<1>8. Typed(brokers, slot, fd', child)
  BY <1>4 DEF CInv, TInv, Typed
<1>9. TInv(env, brokers, slot, fd', child)
  BY <1>7, <1>8 DEF CInv, TInv
<1> QED
  BY <1>2, <1>9 DEF CInv

LEMMA CStep == ASSUME CInv, [ClusterNext]_clusterVars PROVE CInv'
<1>1. CASE Start
  BY <1>1, StartKeeps
<1>2. CASE Stop \/ CloseAll
  BY <1>2, DropKeeps
<1>3. CASE Emplace
  BY <1>3, EmplaceKeeps
<1>4. CASE Open
  BY <1>4, OpenKeeps
<1>5. CASE (\E mode \in BOOLEAN : AutoRestart(mode)) \/ UNCHANGED clusterVars
  <2>1. UNCHANGED <<env, count, brokers, slot, fd, child>>
    BY <1>5 DEF AutoRestart, clusterVars, table
  <2> QED
    BY <2>1 DEF CInv
<1>6. ASSUME NEW p \in Pids,
             \/ Erase(p) \/ Sigchld(p) \/ Hangup(p) \/ ChildHangup(p)
             \/ \E how \in Ended : ChildEnds(p, how)
      PROVE  CInv'
  BY <1>6, EraseKeeps, SigchldKeeps, HangupKeeps, EndsKeep
<1> QED
  BY <1>1, <1>2, <1>3, <1>4, <1>5, <1>6 DEF ClusterNext

LEMMA CFirst == ClusterInit => CInv
<1> SUFFICES ASSUME ClusterInit PROVE CInv
  OBVIOUS
<1>1. /\ count \in Nat \ {0} /\ brokers = <<>> /\ slot = <<>>
      /\ fd = [d \in Descriptors |-> Closed] /\ child = [p \in Pids |-> "none"]
  BY ClusterAssumption DEF ClusterInit
<1>2. fd = [d \in Descriptors |-> fd[d]]
  BY <1>1
<1>3. child \in [Pids -> States] /\ \A p \in Pids : child[p] = "none"
  BY <1>1 DEF States
<1>4. Typed(brokers, slot, fd, child)
  BY <1>1, <1>2, <1>3 DEF Typed
<1>5. InTurn(child) /\ Born(brokers, slot, child) /\ Once(brokers)
  BY <1>1, <1>3 DEF InTurn, Born, Once
<1>6. Ahead(env, brokers, slot) /\ Watched(brokers, slot, child) /\ Paired(env, brokers, fd, child)
  BY <1>1 DEF Ahead, Watched, Paired
<1> QED
  BY <1>1, <1>4, <1>5, <1>6 DEF CInv, TInv

(***************************************************************************)
(* While brokers leave the vector only at its end, send() writes to the    *)
(* pair of the process it was given the id of, for any number of           *)
(* processes and descriptors and any order of forks, exits, signals and    *)
(* calls: Cluster::send(), erase(), emplace() and process().               *)
(***************************************************************************)
THEOREM SentWhereMeant == ClusterSpec => []SendReachesInOrder
<1>1. CInv => SendReachesInOrder
  <2> SUFFICES ASSUME CInv, ~env.eraseAny, ~env.closeFirst, NEW p \in Addressed
               PROVE  Reaches(p)
    BY DEF SendReachesInOrder
  <2>1. p \in DOMAIN slot /\ At(p) # {} /\ child[p] = "run"
    BY DEF Addressed
  <2>2. PICK i \in 1..Len(brokers) : brokers[i].pid = p
    BY <2>1 DEF At
  <2>3. slot[p] = i
    BY <2>1, <2>2 DEF CInv, TInv, Ahead
  <2>4. Holds(fd, brokers[i])
    BY <2>1, <2>2 DEF CInv, TInv, Paired, Running
  <2>5. brokers \in Seq(Broker)
    BY DEF CInv, TInv, Typed
  <2> QED
    BY <2>2, <2>3, <2>4, <2>5 DEF Reaches, Holds
<1> QED
  BY <1>1, CFirst, CStep, PTL DEF ClusterSpec

(***************************************************************************)
(* The two ends the master kept of the pairs of a running process stay     *)
(* open, although the numbers of ends that were closed before are closed   *)
(* again by erase() and process(), as long as erase() takes the newest     *)
(* process and a signal comes before its CLOSE event, whose handler may    *)
(* close the number of another: Cluster::close().                          *)
(***************************************************************************)
THEOREM PairsStayOpen == ClusterSpec => []PairsOpen
<1>1. CInv => PairsOpen
  BY DEF CInv, TInv, Paired, PairsOpen, Holds, Running
<1> QED
  BY <1>1, CFirst, CStep, PTL DEF ClusterSpec

(***************************************************************************)
(* Who is served: a process that has not been reaped and has a broker.     *)
(***************************************************************************)
ServedBy(bs, ch) == {p \in Pids : ch[p] \in Running /\ \E i \in 1..Len(bs) : bs[i].pid = p}

Within == Cardinality(ServedBy(brokers, child)) <= count

LEMMA ServedFinite ==
  ASSUME NEW bs, NEW ch
  PROVE  IsFiniteSet(ServedBy(bs, ch)) /\ Cardinality(ServedBy(bs, ch)) \in Nat
<1>1. ServedBy(bs, ch) \subseteq Pids
  BY DEF ServedBy
<1>2. IsFiniteSet(ServedBy(bs, ch))
  BY <1>1, PidsAre, FS_Subset
<1> QED
  BY <1>2, FS_CardinalityType

LEMMA NoMoreServed ==
  ASSUME CInv, Within, count' \in Nat, count <= count', NEW X,
         ServedBy(brokers', child') \subseteq X,
         IsFiniteSet(X), Cardinality(X) <= count'
  PROVE  Within'
<1>1. Cardinality(ServedBy(brokers', child')) <= Cardinality(X)
  BY FS_Subset
<1>2. Cardinality(X) \in Nat /\ Cardinality(ServedBy(brokers', child')) \in Nat
  BY ServedFinite, FS_CardinalityType
<1> QED
  BY <1>1, <1>2 DEF Within

\* A step after which those served are some of those before.
LEMMA FewerServed ==
  ASSUME CInv, Within, count' = count, ServedBy(brokers', child') \subseteq ServedBy(brokers, child)
  PROVE  Within'
BY NoMoreServed, ServedFinite DEF CInv, Within

\* A fork adds one.
LEMMA ForkServes ==
  ASSUME NEW bs, NEW sl, NEW f, NEW ch, bs \in Seq(Broker), ch \in [Pids -> States],
         Newest \in Pids, Enough(f, 4), Fork([brokers |-> bs, slot |-> sl, fd |-> f])
  PROVE  ServedBy(brokers', [ch EXCEPT ![Newest] = "run"]) \subseteq ServedBy(bs, ch) \cup {Newest}
<1> DEFINE b == NewBroker(f, Newest)
           t == [brokers |-> bs, slot |-> sl, fd |-> f]
           ch2 == [ch EXCEPT ![Newest] = "run"]
<1>1. Becomes(Forked(t, b))
  BY DEF Fork
<1>2. b \in Broker /\ b.pid = Newest
  BY NewBrokerIs
<1> HIDE DEF b
<1>3. brokers' = Append(bs, b)
  BY <1>1 DEF Becomes, Forked
<1>4. \A i \in 1..Len(brokers') : \/ i \in 1..Len(bs) /\ brokers'[i] = bs[i]
                                  \/ brokers'[i].pid = Newest
  BY <1>2, <1>3
<1>5. \A p \in Pids : p # Newest => ch2[p] = ch[p]
  OBVIOUS
<1> HIDE DEF ch2
<1>6. ServedBy(brokers', ch2) \subseteq ServedBy(bs, ch) \cup {Newest}
  BY <1>4, <1>5 DEF ServedBy
<1> QED
  BY <1>6 DEF ch2

LEMMA StartServes == ASSUME CInv, Within, Start PROVE Within'
<1>1. count' = count /\ count \in Nat
  BY DEF Start, CInv
<1>2. CASE Enough(fd, 4 * count)
  <2> DEFINE X == Newest..Newest + count - 1
  <2>1. /\ brokers' = Created.brokers
        /\ child' = [p \in Pids |-> IF p \in DOMAIN Created.slot THEN "run" ELSE child[p]]
    BY <1>2 DEF Start, Becomes, Run
  <2>2. Newest \in Nat
    BY NewOnes, NewestIs, PidsAre DEF Start
  <2>3. \A i \in 1..Len(Created.brokers) : Created.brokers[i].pid \in X
    <3>1. DOMAIN Created.brokers = 1..count
      BY DEF Created
    <3>2. \A i \in 1..count : Created.brokers[i].pid = Newest + i - 1
      BY DEF Created
    <3>3. TInv(env, Created.brokers, Created.slot, Created.fd, child')
      BY <1>2, <2>1, CreatedKeeps DEF Start
    <3>4. Len(Created.brokers) = count
      BY <1>1, <3>1, <3>3, LenProperties DEF TInv, Typed
    <3> QED
      BY <1>1, <2>2, <3>2, <3>4
  <2>4. IsFiniteSet(X) /\ Cardinality(X) = count
    <3>1. count > 0 /\ Newest + count - 1 \in Nat
      BY <1>1, <2>2 DEF CInv
    <3> QED
      BY <1>1, <2>2, <3>1, FS_Interval
  <2> HIDE DEF X
  <2>5. ServedBy(brokers', child') \subseteq X
    BY <2>1, <2>3 DEF ServedBy
  <2> QED
    BY <1>1, <2>4, <2>5, NoMoreServed
<1>3. CASE ~Enough(fd, 4 * count)
  <2>1. brokers' = <<>>
    BY <1>3 DEF Start, Exit, Becomes
  <2> QED
    BY <1>1, <2>1, FewerServed DEF ServedBy
<1> QED
  BY <1>2, <1>3

LEMMA EmplaceServes == ASSUME CInv, Within, Emplace PROVE Within'
<1>1. count' = count + 1 /\ count \in Nat /\ count <= count' /\ count' \in Nat
  BY DEF Emplace, CInv
<1> DEFINE S == ServedBy(brokers, child)
<1>2. IsFiniteSet(S) /\ Cardinality(S) \in Nat
  BY ServedFinite
<1>3. CASE Enough(fd, 4)
  <2>1. /\ Fork([brokers |-> brokers, slot |-> slot, fd |-> fd])
        /\ child' = [p \in Pids |-> IF p = Newest THEN "run" ELSE child[p]]
    BY <1>3 DEF Emplace, Table, Run
  <2>2. child' = [child EXCEPT ![Newest] = "run"]
    BY <2>1 DEF CInv, TInv, Typed
  <2>3. Newest \in Pids
    BY SomeUnused, NewestIs DEF Emplace
  <2>4. ServedBy(brokers', child') \subseteq S \cup {Newest}
    BY <1>3, <2>1, <2>2, <2>3, ForkServes DEF CInv, TInv, Typed
  <2> HIDE DEF S
  <2>5. IsFiniteSet(S \cup {Newest}) /\ Cardinality(S \cup {Newest}) <= Cardinality(S) + 1
    BY <1>2, FS_AddElement
  <2>6. Cardinality(S \cup {Newest}) \in Nat
    BY <2>5, FS_CardinalityType
  <2>7. Cardinality(S \cup {Newest}) <= count'
    BY <1>1, <1>2, <2>5, <2>6 DEF Within, S
  <2> QED
    BY <1>1, <2>4, <2>5, <2>7, NoMoreServed
<1>4. CASE ~Enough(fd, 4)
  <2>1. brokers' = <<>>
    BY <1>4 DEF Emplace, Exit, Becomes
  <2>2. ServedBy(brokers', child') \subseteq {}
    BY <2>1 DEF ServedBy
  <2> QED
    BY <1>1, <2>2, FS_EmptySet, NoMoreServed
<1> QED
  BY <1>3, <1>4

\* what is left of a vector when one broker is taken out of it
LEMMA OutServes ==
  ASSUME NEW bs, bs \in Seq(Broker), NEW n \in 1..Len(bs), NEW ch, NEW ch2,
         \A p \in Pids : ch2[p] \in Running => ch[p] \in Running
  PROVE  ServedBy(RemoveAt(bs, n), ch2) \subseteq ServedBy(bs, ch)
<1>1. \A i \in 1..Len(RemoveAt(bs, n)) : \E j \in 1..Len(bs) : RemoveAt(bs, n)[i] = bs[j]
  <2> SUFFICES ASSUME NEW i \in 1..Len(RemoveAt(bs, n))
               PROVE  \E j \in 1..Len(bs) : RemoveAt(bs, n)[i] = bs[j]
    OBVIOUS
  <2>1. /\ Len(RemoveAt(bs, n)) = Len(bs) - 1
        /\ RemoveAt(bs, n)[i] = IF i < n THEN bs[i] ELSE bs[i + 1]
    BY RemoveAtIs
  <2> QED
    BY <2>1
<1> QED
  BY <1>1 DEF ServedBy

LEMMA SigchldServes == ASSUME CInv, Within, NEW p \in Pids, Sigchld(p) PROVE Within'
<1>1. count' = count /\ count \in Nat /\ child[p] \in Running /\ child \in [Pids -> States]
  BY DEF Sigchld, Running, CInv, TInv, Typed
<1>2. "reaped" \notin Running /\ "reaped" \in States
  BY DEF Running, Ended, States
<1> DEFINE ch == [child EXCEPT ![p] = "reaped"]
           S == ServedBy(brokers, child)
<1>3. /\ ch \in [Pids -> States] /\ ch[p] = "reaped"
      /\ \A q \in Pids : q # p => ch[q] = child[q]
  BY <1>1, <1>2
<1>4. CASE child' = ch /\ (brokers' = brokers \/ brokers' = <<>>)
  <2> HIDE DEF ch
  <2>1. ServedBy(brokers', child') \subseteq S
    BY <1>2, <1>3, <1>4 DEF ServedBy
  <2> QED
    BY <1>1, <2>1, FewerServed
<1>5. CASE /\ At(p) # {} /\ Enough(AfterEnd(p).fd, 4) /\ Unused # {} /\ Fork(AfterEnd(p))
           /\ child' = [child EXCEPT ![p] = "reaped", ![Newest] = "run"]
  <2> DEFINE f == Shut(fd, Kept(brokers[Matching(p)]))
             T == S \ {p}
  <2>1. Newest \in Pids
    BY <1>5, NewestIs
  <2>2. AfterEnd(p) = [brokers |-> brokers, slot |-> Without(p), fd |-> f]
    BY DEF AfterEnd
  <2> HIDE DEF f
  <2>3. Enough(f, 4) /\ Fork([brokers |-> brokers, slot |-> Without(p), fd |-> f])
    BY <1>5, <2>2
  <2>4. child' = [ch EXCEPT ![Newest] = "run"]
    BY <1>5
  <2> HIDE DEF ch
  <2>5. ServedBy(brokers', child') \subseteq ServedBy(brokers, ch) \cup {Newest}
    BY <1>3, <2>1, <2>3, <2>4, ForkServes DEF CInv, TInv, Typed
  <2>6. ServedBy(brokers, ch) \subseteq T
    BY <1>2, <1>3 DEF ServedBy
  <2>7. p \in S
    BY <1>1, <1>5, MatchingIs DEF ServedBy
  <2>8. IsFiniteSet(S) /\ Cardinality(S) \in Nat /\ Cardinality(S) <= count
    BY ServedFinite DEF Within
  <2> HIDE DEF S
  <2>9. IsFiniteSet(T) /\ Cardinality(T) = Cardinality(S) - 1
    BY <2>7, <2>8, FS_RemoveElement
  <2> HIDE DEF T
  <2>10. IsFiniteSet(T \cup {Newest}) /\ Cardinality(T \cup {Newest}) <= Cardinality(T) + 1
    <3> DEFINE x == Newest
    <3> HIDE DEF x
    <3>1. /\ IsFiniteSet(T \cup {x})
          /\ \/ Cardinality(T \cup {x}) = Cardinality(T)
             \/ Cardinality(T \cup {x}) = Cardinality(T) + 1
      BY <2>9, FS_AddElement
    <3>2. Cardinality(T) \in Nat
      BY <2>9, FS_CardinalityType
    <3>3. IsFiniteSet(T \cup {x}) /\ Cardinality(T \cup {x}) <= Cardinality(T) + 1
      BY <3>1, <3>2
    <3> QED
      BY <3>3 DEF x
  <2>11. Cardinality(T \cup {Newest}) <= count
    <3>1. Cardinality(T \cup {Newest}) \in Nat
      BY <2>10, FS_CardinalityType
    <3> QED
      BY <1>1, <2>8, <2>9, <2>10, <3>1
  <2> QED
    BY <1>1, <2>5, <2>6, <2>10, <2>11, NoMoreServed
<1> QED
  <2>1. \/ child' = ch /\ UNCHANGED table
        \/ child' = ch /\ Exit
        \/ child' = ch /\ Becomes(AfterEnd(p))
        \/ /\ At(p) # {} /\ Enough(AfterEnd(p).fd, 4) /\ Unused # {} /\ Fork(AfterEnd(p))
           /\ child' = [child EXCEPT ![p] = "reaped", ![Newest] = "run"]
    BY DEF Sigchld
  <2> HIDE DEF ch
  <2> QED
    BY <1>4, <1>5, <2>1 DEF Exit, Becomes, AfterEnd, table

LEMMA WithinStep == ASSUME CInv, Within, [ClusterNext]_clusterVars PROVE Within'
<1>0. brokers \in Seq(Broker) /\ child \in [Pids -> States]
  BY DEF CInv, TInv, Typed
<1>1. CASE Start
  BY <1>1, StartServes
<1>2. CASE Stop \/ CloseAll
  <2>1. count' = count /\ brokers' = <<>>
    BY <1>2 DEF Stop, CloseAll, Dropped, Becomes
  <2> QED
    BY <2>1, FewerServed DEF ServedBy
<1>3. CASE Emplace
  BY <1>3, EmplaceServes
<1>4. CASE Open \/ (\E mode \in BOOLEAN : AutoRestart(mode)) \/ UNCHANGED clusterVars
  <2>1. UNCHANGED <<count, brokers, child>>
    BY <1>4 DEF Open, AutoRestart, clusterVars, table
  <2> QED
    BY <2>1, FewerServed
<1>5. ASSUME NEW p \in Pids, Erase(p) PROVE Within'
  <2>1. /\ count' = count /\ slot[p] \in 1..Len(brokers)
        /\ brokers' = RemoveAt(brokers, slot[p])
    BY <1>5 DEF Erase, Becomes, Table, CInv, TInv, Typed
  <2>2. \A q \in Pids : child'[q] \in Running => child[q] \in Running
    BY <1>0, <1>5 DEF Erase, Kill, Running
  <2> QED
    BY <1>0, <2>1, <2>2, OutServes, FewerServed
<1>6. ASSUME NEW p \in Pids, Sigchld(p) PROVE Within'
  BY <1>6, SigchldServes
<1>7. ASSUME NEW p \in Pids, Hangup(p) PROVE Within'
  <2>1. count' = count /\ child' = child
    BY <1>7 DEF Hangup
  <2>2. CASE restart
    <3> DEFINE n == Numbered(brokers[Matching(p)].m[1])
    <3>1. n \in 1..Len(brokers) /\ brokers' = RemoveAt(brokers, n)
      BY <1>7, <2>2, MatchingIs, NumberedIs DEF Hangup, HungUp, Becomes, Table
    <3> HIDE DEF n
    <3> QED
      BY <1>0, <2>1, <3>1, OutServes, FewerServed
  <2>3. CASE ~restart
    <3>1. brokers' = <<>>
      BY <1>7, <2>3 DEF Hangup, Exit, Becomes
    <3> QED
      BY <2>1, <3>1, FewerServed DEF ServedBy
  <2> QED
    BY <2>2, <2>3
<1>8. ASSUME NEW p \in Pids, ChildHangup(p) \/ \E how \in Ended : ChildEnds(p, how)
      PROVE  Within'
  <2>1. UNCHANGED <<count, brokers>>
    BY <1>8 DEF ChildHangup, ChildEnds, table
  <2>2. \A q \in Pids : child'[q] \in Running => child[q] \in Running
    BY <1>0, <1>8 DEF ChildHangup, ChildEnds, Running
  <2>3. ServedBy(brokers', child') \subseteq ServedBy(brokers, child)
    BY <2>1, <2>2 DEF ServedBy
  <2> QED
    BY <2>1, <2>3, FewerServed
<1> QED
  BY <1>1, <1>2, <1>3, <1>4, <1>5, <1>6, <1>7, <1>8 DEF ClusterNext

(***************************************************************************)
(* However the CLOSE event, the signal and calls interleave, no more       *)
(* processes run with a broker than start() and emplace() have asked for:  *)
(* Cluster::process(), emplace() and Worker::message().                    *)
(***************************************************************************)
THEOREM ServesWithinCount == ClusterSpec => []WithinCount
<1>1. ClusterInit => Within
  <2> SUFFICES ASSUME ClusterInit PROVE Within
    OBVIOUS
  <2>1. ServedBy(brokers, child) = {}
    BY DEF ClusterInit, ServedBy
  <2>2. Cardinality(ServedBy(brokers, child)) = 0
    BY <2>1, FS_EmptySet
  <2>3. count \in Nat
    BY ClusterAssumption DEF ClusterInit
  <2> QED
    BY <2>2, <2>3 DEF Within
<1>2. CInv /\ Within => WithinCount
  <2> SUFFICES ASSUME CInv, Within PROVE WithinCount
    OBVIOUS
  <2> DEFINE R == {p \in Pids : child[p] = "run" /\ At(p) # {}}
  <2>1. R \subseteq ServedBy(brokers, child)
    BY DEF At, ServedBy, Running
  <2>2. IsFiniteSet(R) /\ Cardinality(R) <= Cardinality(ServedBy(brokers, child))
    BY <2>1, ServedFinite, FS_Subset
  <2>3. Cardinality(R) \in Nat
    BY <2>2, FS_CardinalityType
  <2> QED
    BY <2>2, <2>3, ServedFinite DEF Within, WithinCount, CInv
<1> QED
  BY <1>1, <1>2, CFirst, CStep, WithinStep, PTL DEF ClusterSpec

-----------------------------------------------------------------------------
(***************************************************************************)
(* Channel.  What is between the two ends, from the decoder's buffer to    *)
(* the encoder, as one line of units: every message on it is there to its  *)
(* end, units of one message lie together, after an end another message    *)
(* starts, and the decoder is where its pending header says it is.         *)
(***************************************************************************)
Total(m) == HeaderSize + Size[m]

\* from each of its units on, a message is there to its end
Runs(l) ==
  \A i \in DOMAIN l : \A n \in l[i][2]..Total(l[i][1]) :
    /\ i + n - l[i][2] \in DOMAIN l
    /\ l[i + n - l[i][2]] = <<l[i][1], n>>

StartsAnew(l) ==
  \A i \in DOMAIN l : i + 1 \in DOMAIN l /\ EndsMessage(l[i]) => l[i + 1][2] = 1

\* the first unit is the one the decoder waits for
Awaited(l, h) ==
  IF h = None THEN l # <<>> => l[1][2] = 1
              ELSE l # <<>> /\ l[1] = <<h, HeaderSize + 1>>

OnTheWay(l, h) ==
  /\ l \in Seq(Unit) /\ h \in Messages \cup {None}
  /\ Runs(l) /\ StartsAnew(l) /\ Awaited(l, h)

\* InOrder, of what is out, the line and what was sent
Precedes(q, m, n) == \E i, j \in DOMAIN q : i < j /\ q[i] = m /\ q[j] = n

Lost(m, o, l) ==
  /\ m \notin Undecodable /\ ~Among(m, o)
  /\ ~\E j \in DOMAIN l : l[j][1] = m /\ EndsMessage(l[j])

Arranged(o, l, q) ==
  /\ o \in Seq(Messages) /\ q \in Seq(Messages)
  /\ \A i, j \in DOMAIN o : i < j => Precedes(q, o[i], o[j])
  /\ \A i, j \in DOMAIN l :
       i < j /\ EndsMessage(l[i]) /\ EndsMessage(l[j]) => Precedes(q, l[i][1], l[j][1])
  /\ \A i \in DOMAIN o, j \in DOMAIN l : EndsMessage(l[j]) => Precedes(q, o[i], l[j][1])
  /\ \A i \in DOMAIN o : Among(o[i], q) /\ o[i] \notin Undecodable
  /\ \A i \in DOMAIN l : Among(l[i][1], q)
  /\ \A i \in DOMAIN q : ~Lost(q[i], o, l)

LEMMA UnitIs ==
  ASSUME NEW u \in Unit
  PROVE  /\ u[1] \in Messages /\ u[2] \in 1..Total(u[1]) /\ u = <<u[1], u[2]>>
         /\ EndsMessage(u) <=> u[2] = Total(u[1])
BY DEF Unit, Total, EndsMessage

LEMMA TotalIs ==
  ASSUME NEW m \in Messages
  PROVE  Total(m) \in Nat /\ HeaderSize < Total(m) /\ HeaderSize \in Nat \ {0}
         /\ Size[m] \in Nat \ {0} /\ Total(m) = HeaderSize + Size[m]
BY ChannelAssumption DEF Total

LEMMA UnitsAre ==
  ASSUME NEW m \in Messages
  PROVE  /\ Units(m) \in Seq(Unit) /\ Len(Units(m)) = Total(m)
         /\ DOMAIN Units(m) = 1..Total(m)
         /\ \A k \in 1..Total(m) : Units(m)[k] = <<m, k>>
<1>1. Total(m) \in Nat BY TotalIs
<1>2. \A k \in 1..Total(m) : <<m, k>> \in Unit
  BY DEF Unit, Total
<1>3. Units(m) = [k \in 1..Total(m) |-> <<m, k>>]
  BY DEF Units, Total
<1> QED BY <1>1, <1>2, <1>3

LEMMA PastIs ==
  ASSUME NEW S, NEW s \in Seq(S), NEW u \in 0..Len(s)
  PROVE  /\ Past(s, u) \in Seq(S) /\ Len(Past(s, u)) = Len(s) - u
         /\ DOMAIN Past(s, u) = 1..Len(s) - u
         /\ \A i \in 1..Len(s) - u : Past(s, u)[i] = s[i + u]
BY DEF Past

LEMMA PastJoined ==
  ASSUME NEW S, NEW x \in Seq(S), NEW y \in Seq(S), NEW u \in 0..Len(x)
  PROVE  Past(x \o y, u) = Past(x, u) \o y
<1> DEFINE j == x \o y
           p == Past(x, u)
<1>1. j \in Seq(S) /\ Len(j) = Len(x) + Len(y)
      /\ \A i \in 1..Len(x) + Len(y) :
           j[i] = IF i <= Len(x) THEN x[i] ELSE y[i - Len(x)]
  BY ConcatProperties
<1>2. p \in Seq(S) /\ Len(p) = Len(x) - u
      /\ \A i \in 1..Len(x) - u : p[i] = x[i + u]
  BY PastIs
<1> HIDE DEF j, p
<1> DEFINE a == Past(j, u)
           b == p \o y
<1>3. a \in Seq(S) /\ Len(a) = Len(j) - u
      /\ \A i \in 1..Len(j) - u : a[i] = j[i + u]
  <2>1. u \in 0..Len(j)
    BY <1>1
  <2> QED BY <2>1, <1>1, PastIs
<1>4. b \in Seq(S) /\ Len(b) = Len(p) + Len(y)
      /\ \A i \in 1..Len(p) + Len(y) :
           b[i] = IF i <= Len(p) THEN p[i] ELSE y[i - Len(p)]
  BY <1>2, ConcatProperties
<1> HIDE DEF a, b
<1>5. ASSUME NEW i \in 1..Len(a) PROVE a[i] = b[i]
  <2>1. i + u \in 1..Len(x) + Len(y) /\ i \in 1..Len(p) + Len(y) /\ i \in 1..Len(j) - u
    <3>1. Len(a) = Len(j) - u /\ Len(j) = Len(x) + Len(y) /\ Len(p) = Len(x) - u
      BY <1>1, <1>2, <1>3
    <3>2. Len(x) \in Nat /\ Len(y) \in Nat /\ u \in 0..Len(x)
      OBVIOUS
    <3> QED BY <3>1, <3>2
  <2>2. a[i] = IF i + u <= Len(x) THEN x[i + u] ELSE y[i + u - Len(x)]
    <3> DEFINE h == i + u
    <3>1. a[i] = j[h] /\ h \in 1..Len(x) + Len(y) BY <2>1, <1>3
    <3> HIDE DEF h
    <3>2. j[h] = IF h <= Len(x) THEN x[h] ELSE y[h - Len(x)] BY <3>1, <1>1
    <3> QED BY <3>1, <3>2 DEF h
  <2>3. b[i] = IF i <= Len(x) - u THEN p[i] ELSE y[i - (Len(x) - u)]
    BY <2>1, <1>2, <1>4
  <2>4. CASE i <= Len(x) - u
    <3>1. i \in 1..Len(x) - u /\ i + u <= Len(x)
      BY <2>4, <2>1
    <3> QED BY <3>1, <2>2, <2>3, <1>2
  <2>5. CASE ~(i <= Len(x) - u)
    <3>1. i - (Len(x) - u) = i + u - Len(x) /\ ~(i + u <= Len(x))
      BY <2>5, <2>1
    <3> QED BY <3>1, <2>2, <2>3
  <2> QED BY <2>4, <2>5
<1>6. a = b
  BY <1>1, <1>2, <1>3, <1>4, <1>5, SeqEqual
<1> QED BY <1>6 DEF a, b, j, p

LEMMA PastPast ==
  ASSUME NEW S, NEW s \in Seq(S), NEW u \in 0..Len(s), NEW v \in 0..Len(s) - u
  PROVE  Past(Past(s, u), v) = Past(s, u + v)
<1> DEFINE a == Past(s, u)
<1>1. a \in Seq(S) /\ Len(a) = Len(s) - u /\ \A i \in 1..Len(s) - u : a[i] = s[i + u]
  BY PastIs
<1> HIDE DEF a
<1> DEFINE b == Past(a, v)
           c == Past(s, u + v)
<1>2. b \in Seq(S) /\ Len(b) = Len(s) - u - v
      /\ \A i \in 1..Len(s) - u - v : b[i] = a[i + v]
  <2>1. v \in 0..Len(a) /\ Len(a) = Len(s) - u
    BY <1>1
  <2>2. b \in Seq(S) /\ Len(b) = Len(a) - v /\ \A i \in 1..Len(a) - v : b[i] = a[i + v]
    BY <1>1, <2>1, PastIs
  <2> HIDE DEF b
  <2> QED BY <2>1, <2>2
<1>3. u + v \in 0..Len(s)
  OBVIOUS
<1>4. c \in Seq(S) /\ Len(c) = Len(s) - (u + v)
      /\ \A i \in 1..Len(s) - (u + v) : c[i] = s[i + (u + v)]
  BY <1>3, PastIs
<1> HIDE DEF b, c
<1>5. \A i \in 1..Len(b) : b[i] = c[i]
  <2> SUFFICES ASSUME NEW i \in 1..Len(b) PROVE b[i] = c[i]
    OBVIOUS
  <2>1. i \in 1..Len(s) - u - v /\ i + v \in 1..Len(s) - u /\ i \in 1..Len(s) - (u + v)
    BY <1>2
  <2>2. i + v + u = i + (u + v)
    BY <2>1
  <2>3. b[i] = a[i + v]
    BY <2>1, <1>2
  <2>4. a[i + v] = s[i + v + u]
    <3> DEFINE h == i + v
    <3>1. h \in 1..Len(s) - u BY <2>1
    <3> HIDE DEF h
    <3>2. a[h] = s[h + u] BY <3>1, <1>1
    <3> QED BY <3>2 DEF h
  <2>5. c[i] = s[i + (u + v)]
    <3> DEFINE h == u + v
    <3>1. i \in 1..Len(s) - h BY <2>1
    <3>2. \A k \in 1..Len(s) - h : c[k] = s[k + h] BY <1>4
    <3> HIDE DEF h
    <3>3. c[i] = s[i + h] BY <3>1, <3>2
    <3> QED BY <3>3 DEF h
  <2> QED BY <2>2, <2>3, <2>4, <2>5
<1>6. b = c
  BY <1>2, <1>4, <1>5, SeqEqual
<1> QED BY <1>6 DEF a, b, c

(***************************************************************************)
(* Units are added at the end and taken from the front.                    *)
(***************************************************************************)
LEMMA PrecedesMore ==
  ASSUME NEW q \in Seq(Messages), NEW x \in Messages
  PROVE  /\ \A m, n : Precedes(q, m, n) => Precedes(Append(q, x), m, n)
         /\ \A m : Among(m, q) => Among(m, Append(q, x)) /\ Precedes(Append(q, x), m, x)
         /\ Among(x, Append(q, x))
<1>1. /\ Append(q, x) \in Seq(Messages) /\ Len(Append(q, x)) = Len(q) + 1
      /\ \A i \in 1..Len(q) : Append(q, x)[i] = q[i]
      /\ Append(q, x)[Len(q) + 1] = x
  OBVIOUS
<1> DEFINE r == Append(q, x)
<1>2. DOMAIN q = 1..Len(q) /\ DOMAIN r = 1..Len(q) + 1 /\ Len(q) \in Nat
  BY <1>1
<1> HIDE DEF r
<1>3. (\A i \in DOMAIN q : i \in DOMAIN r /\ r[i] = q[i] /\ i < Len(q) + 1)
      /\ Len(q) + 1 \in DOMAIN r /\ r[Len(q) + 1] = x
  BY <1>1, <1>2 DEF r
<1>4. \A m, n : Precedes(q, m, n) => Precedes(r, m, n)
  BY <1>3 DEF Precedes
<1>5. \A m : Among(m, q) => Among(m, r) /\ Precedes(r, m, x)
  BY <1>3 DEF Precedes, Among
<1>6. Among(x, r)
  BY <1>3 DEF Among
<1> QED BY <1>4, <1>5, <1>6 DEF r

LEMMA LineIs ==
  ASSUME NEW l \in Seq(Unit), NEW i \in DOMAIN l
  PROVE  /\ i \in 1..Len(l) /\ l[i] \in Unit
         /\ l[i][1] \in Messages /\ l[i][2] \in 1..Total(l[i][1]) /\ l[i] = <<l[i][1], l[i][2]>>
         /\ EndsMessage(l[i]) <=> l[i][2] = Total(l[i][1])
         /\ Total(l[i][1]) \in Nat
<1>1. i \in 1..Len(l) /\ l[i] \in Unit
  OBVIOUS
<1> QED BY <1>1, UnitIs, TotalIs

LEMMA PastRuns ==
  ASSUME NEW l \in Seq(Unit), Runs(l), StartsAnew(l), NEW u \in 0..Len(l)
  PROVE  Runs(Past(l, u)) /\ StartsAnew(Past(l, u))
<1> DEFINE p == Past(l, u)
<1>1. p \in Seq(Unit) /\ DOMAIN p = 1..Len(l) - u /\ \A i \in 1..Len(l) - u : p[i] = l[i + u]
  BY PastIs
<1>2. DOMAIN l = 1..Len(l) /\ Len(l) \in Nat
  OBVIOUS
<1> HIDE DEF p
<1>3. ASSUME NEW i \in DOMAIN p, NEW n \in p[i][2]..Total(p[i][1])
      PROVE  i + n - p[i][2] \in DOMAIN p /\ p[i + n - p[i][2]] = <<p[i][1], n>>
  <2>1. i + u \in DOMAIN l /\ p[i] = l[i + u] /\ i \in Nat /\ i >= 1
    BY <1>1, <1>2
  <2> DEFINE k == p[i][2]
  <2>2. k \in Nat /\ n \in Nat /\ k <= n
    BY <2>1, LineIs
  <2>3. i + u + n - k \in DOMAIN l /\ l[i + u + n - k] = <<p[i][1], n>>
    BY <2>1 DEF Runs
  <2> HIDE DEF k
  <2>4. i + n - k \in 1..Len(l) - u /\ (i + n - k) + u = i + u + n - k
    BY <2>1, <2>2, <2>3, <1>2
  <2>5. i + n - k \in DOMAIN p /\ p[i + n - k] = <<p[i][1], n>>
    BY <2>3, <2>4, <1>1
  <2> QED BY <2>5 DEF k
<1>4. ASSUME NEW i \in DOMAIN p, i + 1 \in DOMAIN p, EndsMessage(p[i])
      PROVE  p[i + 1][2] = 1
  <2>0. i \in 1..Len(l) - u /\ i + 1 \in 1..Len(l) - u
    BY <1>1, <1>4
  <2>1. i + u \in DOMAIN l /\ (i + u) + 1 \in DOMAIN l
    BY <2>0, <1>2
  <2>2. (i + 1) + u = (i + u) + 1 /\ p[i] = l[i + u] /\ p[i + 1] = l[(i + 1) + u]
    BY <2>0, <1>1
  <2>3. p[i + 1] = l[(i + u) + 1]
    BY <2>2
  <2> QED BY <2>1, <2>2, <2>3, <1>4 DEF StartsAnew
<1> QED BY <1>3, <1>4 DEF Runs, StartsAnew, p

LEMMA JoinedUnits ==
  ASSUME NEW l \in Seq(Unit), NEW m \in Messages
  PROVE  LET j == l \o Units(m) IN
         /\ j \in Seq(Unit) /\ DOMAIN j = 1..Len(l) + Total(m)
         /\ \A i \in 1..Len(l) : j[i] = l[i]
         /\ \A i \in Len(l) + 1..Len(l) + Total(m) : j[i] = <<m, i - Len(l)>>
<1> DEFINE n == Units(m)
           j == l \o n
<1>1. n \in Seq(Unit) /\ Len(n) = Total(m) /\ \A k \in 1..Total(m) : n[k] = <<m, k>>
  BY UnitsAre
<1>2. Total(m) \in Nat /\ Len(l) \in Nat
  BY TotalIs
<1> HIDE DEF n
<1>3. j \in Seq(Unit) /\ Len(j) = Len(l) + Len(n)
      /\ \A i \in 1..Len(l) + Len(n) : j[i] = IF i <= Len(l) THEN l[i] ELSE n[i - Len(l)]
  BY <1>1, ConcatProperties
<1> HIDE DEF j
<1>4. DOMAIN j = 1..Len(l) + Total(m)
  BY <1>1, <1>3
<1>5. \A i \in 1..Len(l) : j[i] = l[i]
  BY <1>1, <1>2, <1>3
<1>6. ASSUME NEW i \in Len(l) + 1..Len(l) + Total(m) PROVE j[i] = <<m, i - Len(l)>>
  <2>1. i \in 1..Len(l) + Len(n) /\ ~(i <= Len(l)) /\ i - Len(l) \in 1..Total(m)
    BY <1>1, <1>2
  <2> QED BY <2>1, <1>1, <1>3
<1> QED BY <1>3, <1>4, <1>5, <1>6 DEF j, n

LEMMA MoreOnTheWay ==
  ASSUME NEW l, NEW h, OnTheWay(l, h), NEW m \in Messages
  PROVE  OnTheWay(l \o Units(m), h)
<1> DEFINE j == l \o Units(m)
<1>0. l \in Seq(Unit) /\ Len(l) \in Nat /\ DOMAIN l = 1..Len(l)
      /\ Total(m) \in Nat /\ Total(m) > 0
  BY TotalIs DEF OnTheWay
<1>1. /\ j \in Seq(Unit) /\ DOMAIN j = 1..Len(l) + Total(m)
      /\ \A i \in 1..Len(l) : j[i] = l[i]
      /\ \A i \in Len(l) + 1..Len(l) + Total(m) : j[i] = <<m, i - Len(l)>>
  BY <1>0, JoinedUnits
<1> HIDE DEF j
<1>2. ASSUME NEW i \in DOMAIN j, NEW n \in j[i][2]..Total(j[i][1])
      PROVE  i + n - j[i][2] \in DOMAIN j /\ j[i + n - j[i][2]] = <<j[i][1], n>>
  <2>1. CASE i \in DOMAIN l
    <3>1. j[i] = l[i]
      BY <2>1, <1>0, <1>1
    <3>2. i + n - l[i][2] \in DOMAIN l /\ l[i + n - l[i][2]] = <<l[i][1], n>>
      BY <2>1, <3>1 DEF OnTheWay, Runs
    <3> QED BY <3>1, <3>2, <1>0, <1>1
  <2>2. CASE i \notin DOMAIN l
    <3>1. i \in Len(l) + 1..Len(l) + Total(m)
      BY <2>2, <1>0, <1>1
    <3>2. j[i] = <<m, i - Len(l)>>
      BY <3>1, <1>1
    <3>3. n \in i - Len(l)..Total(m)
      BY <3>2
    <3>4. i + n - (i - Len(l)) = Len(l) + n /\ Len(l) + n \in Len(l) + 1..Len(l) + Total(m)
          /\ (Len(l) + n) - Len(l) = n
      BY <3>1, <3>3, <1>0
    <3>5. j[Len(l) + n] = <<m, n>> /\ Len(l) + n \in DOMAIN j
      BY <3>4, <1>0, <1>1
    <3> QED BY <3>2, <3>4, <3>5
  <2> QED BY <2>1, <2>2
<1>3. ASSUME NEW i \in DOMAIN j, i + 1 \in DOMAIN j, EndsMessage(j[i])
      PROVE  j[i + 1][2] = 1
  <2>1. CASE i + 1 \in DOMAIN l
    <3>1. i \in DOMAIN l /\ j[i] = l[i] /\ j[i + 1] = l[i + 1]
      BY <2>1, <1>0, <1>1, <1>3
    <3> QED BY <2>1, <3>1, <1>3 DEF OnTheWay, StartsAnew
  <2>2. CASE i = Len(l)
    BY <2>2, <1>0, <1>1
  <2>3. CASE i > Len(l)
    <3>1. i \in Len(l) + 1..Len(l) + Total(m) /\ i + 1 <= Len(l) + Total(m)
      BY <2>3, <1>0, <1>1, <1>3
    <3>2. j[i] = <<m, i - Len(l)>>
      BY <3>1, <1>1
    <3>3. i - Len(l) = Total(m)
      BY <3>2, <1>3 DEF EndsMessage, Total
    <3> QED BY <3>1, <3>3, <1>0
  <2> QED BY <2>1, <2>2, <2>3, <1>0, <1>1
<1>4. Awaited(j, h)
  <2>1. CASE l = <<>>
    <3>1. h = None
      BY <2>1 DEF OnTheWay, Awaited
    <3>2. j[1][2] = 1
      BY <2>1, <1>0, <1>1
    <3> QED BY <3>1, <3>2 DEF Awaited
  <2>2. CASE l # <<>>
    <3>1. 1 \in 1..Len(l) /\ j # <<>>
      BY <2>2, <1>0, <1>1
    <3>2. j[1] = l[1]
      BY <3>1, <1>1
    <3> QED BY <2>2, <3>1, <3>2 DEF OnTheWay, Awaited
  <2> QED BY <2>1, <2>2
<1> QED BY <1>1, <1>2, <1>3, <1>4 DEF OnTheWay, Runs, StartsAnew, j

LEMMA MessageRuns ==
  ASSUME NEW l \in Seq(Unit), Runs(l), l # <<>>,
         NEW m, NEW k, l[1] = <<m, k>>, NEW u, u = Total(m) - k + 1
  PROVE  /\ m \in Messages /\ k \in 1..Total(m)
         /\ u \in 1..Len(l) /\ \A i \in 1..u : l[i] = <<m, k + i - 1>>
<1>1. 1 \in DOMAIN l /\ DOMAIN l = 1..Len(l) /\ l[1][1] = m /\ l[1][2] = k
  OBVIOUS
<1>2. m \in Messages /\ k \in 1..Total(m) /\ Total(m) \in Nat
  BY <1>1, LineIs
<1>3. \A n \in k..Total(m) : 1 + n - k \in DOMAIN l /\ l[1 + n - k] = <<m, n>>
  BY <1>1 DEF Runs
<1>4. u \in 1..Len(l)
  <2>1. Total(m) \in k..Total(m) /\ 1 + Total(m) - k = u /\ u >= 1
    BY <1>2
  <2>2. 1 + Total(m) - k \in DOMAIN l
    BY <2>1, <1>3
  <2> QED BY <2>1, <2>2, <1>1
<1>5. ASSUME NEW i \in 1..u PROVE l[i] = <<m, k + i - 1>>
  <2>1. k + i - 1 \in k..Total(m) /\ 1 + (k + i - 1) - k = i
    BY <1>2, <1>4
  <2>2. l[1 + (k + i - 1) - k] = <<m, k + i - 1>>
    BY <2>1, <1>3
  <2> QED BY <2>1, <2>2
<1> QED BY <1>2, <1>4, <1>5

LEMMA NextAwaited ==
  ASSUME NEW l \in Seq(Unit), Runs(l), StartsAnew(l), l # <<>>,
         NEW m, NEW k, l[1] = <<m, k>>, NEW u, u = Total(m) - k + 1
  PROVE  OnTheWay(Past(l, u), None)
<1>1. m \in Messages /\ k \in 1..Total(m) /\ u \in 1..Len(l)
      /\ \A i \in 1..u : l[i] = <<m, k + i - 1>>
  BY MessageRuns
<1> DEFINE p == Past(l, u)
<1>2. u \in 0..Len(l)
  BY <1>1
<1>3. p \in Seq(Unit) /\ DOMAIN p = 1..Len(l) - u /\ Len(p) = Len(l) - u
      /\ \A i \in 1..Len(l) - u : p[i] = l[i + u]
  BY <1>2, PastIs
<1>4. Runs(p) /\ StartsAnew(p)
  BY <1>2, PastRuns
<1> HIDE DEF p
<1>5. ASSUME p # <<>> PROVE p[1][2] = 1
  <2>1. Len(l) - u >= 1
    BY <1>3, <1>5
  <2>2. u \in DOMAIN l /\ u + 1 \in DOMAIN l /\ p[1] = l[u + 1]
    BY <2>1, <1>1, <1>3
  <2>3. l[u] = <<m, Total(m)>>
    <3>1. Total(m) \in Nat /\ u \in 1..u /\ k + u - 1 = Total(m)
      BY <1>1, TotalIs
    <3> QED BY <3>1, <1>1
  <2>4. EndsMessage(l[u])
    BY <2>3 DEF EndsMessage, Total
  <2> QED BY <2>2, <2>4 DEF StartsAnew
<1> QED BY <1>3, <1>4, <1>5 DEF OnTheWay, Awaited, p

LEMMA FirstUnit ==
  ASSUME NEW l, OnTheWay(l, None), l # <<>>
  PROVE  l[1] = <<l[1][1], 1>> /\ l[1][1] \in Messages
<1>1. l \in Seq(Unit) /\ l[1][2] = 1
  BY DEF OnTheWay, Awaited
<1>2. 1 \in DOMAIN l
  BY <1>1
<1> QED BY <1>1, <1>2, LineIs

LEMMA HeaderTaken ==
  ASSUME NEW l, OnTheWay(l, None), l # <<>>, NEW m, l[1] = <<m, 1>>
  PROVE  /\ m \in Messages /\ HeaderSize \in 1..Len(l)
         /\ OnTheWay(Past(l, HeaderSize), m)
         /\ \A i \in 1..HeaderSize : ~EndsMessage(l[i])
<1>1. l \in Seq(Unit) /\ Runs(l) /\ StartsAnew(l) /\ l[1] = <<m, 1>>
  BY DEF OnTheWay
<1> DEFINE u == Total(m) - 1 + 1
<1>u. u = Total(m) - 1 + 1
  OBVIOUS
<1> HIDE DEF u
<1>4. m \in Messages /\ u \in 1..Len(l) /\ \A i \in 1..u : l[i] = <<m, i>>
  <2> DEFINE k == 1
  <2>1. l[1] = <<m, k>> /\ u = Total(m) - k + 1 /\ k = 1
    BY <1>1, <1>u
  <2> HIDE DEF k
  <2>2. m \in Messages /\ u \in 1..Len(l) /\ \A i \in 1..u : l[i] = <<m, k + i - 1>>
    BY <1>1, <2>1, MessageRuns
  <2> QED BY <2>1, <2>2
<1>5. HeaderSize \in 1..Len(l) /\ HeaderSize + 1 \in 1..Len(l) /\ HeaderSize + 1 \in 1..u
      /\ HeaderSize < Total(m)
  <2>1. Total(m) \in Nat /\ HeaderSize < Total(m) /\ HeaderSize \in Nat \ {0}
    BY <1>4, TotalIs
  <2>2. u = Total(m) /\ Len(l) \in Nat /\ u <= Len(l)
    BY <1>1, <1>4, <1>u, <2>1
  <2> QED BY <2>1, <2>2
<1>6. \A i \in 1..HeaderSize + 1 : l[i] = <<m, i>>
  BY <1>4, <1>5
<1>7. ASSUME NEW i \in 1..HeaderSize PROVE ~EndsMessage(l[i])
  <2>1. l[i] = <<m, i>> /\ i # Total(m)
    BY <1>5, <1>6
  <2> QED BY <2>1 DEF EndsMessage, Total
<1> DEFINE p == Past(l, HeaderSize)
<1>8. p \in Seq(Unit) /\ Len(p) = Len(l) - HeaderSize
      /\ \A i \in 1..Len(l) - HeaderSize : p[i] = l[i + HeaderSize]
  BY <1>1, <1>5, PastIs
<1>9. Runs(p) /\ StartsAnew(p)
  BY <1>1, <1>5, PastRuns
<1> HIDE DEF p
<1>10. p # <<>> /\ p[1] = <<m, HeaderSize + 1>>
  <2>1. 1 \in 1..Len(l) - HeaderSize /\ 1 + HeaderSize = HeaderSize + 1
        /\ HeaderSize + 1 \in 1..HeaderSize + 1
    BY <1>1, <1>5
  <2> QED BY <2>1, <1>6, <1>8
<1>11. m # None
  BY <1>4, ChannelAssumption
<1> QED BY <1>4, <1>5, <1>7, <1>8, <1>9, <1>10, <1>11 DEF OnTheWay, Awaited, p

LEMMA SentMore ==
  ASSUME NEW o, NEW l, NEW q, Arranged(o, l, q), l \in Seq(Unit), NEW m \in Messages
  PROVE  Arranged(o, l \o Units(m), Append(q, m))
<1>1. o \in Seq(Messages) /\ q \in Seq(Messages)
  BY DEF Arranged
<1> DEFINE j == l \o Units(m)
           r == Append(q, m)
<1>2. /\ j \in Seq(Unit) /\ DOMAIN j = 1..Len(l) + Total(m)
      /\ \A i \in 1..Len(l) : j[i] = l[i]
      /\ \A i \in Len(l) + 1..Len(l) + Total(m) : j[i] = <<m, i - Len(l)>>
  BY JoinedUnits
<1>3. /\ \A x, y : Precedes(q, x, y) => Precedes(r, x, y)
      /\ \A x : Among(x, q) => Among(x, r) /\ Precedes(r, x, m)
      /\ Among(m, r)
  BY <1>1, PrecedesMore
<1>4. r \in Seq(Messages) /\ DOMAIN r = 1..Len(q) + 1 /\ DOMAIN q = 1..Len(q)
      /\ (\A i \in 1..Len(q) : r[i] = q[i]) /\ r[Len(q) + 1] = m
  BY <1>1
<1>5. Total(m) \in Nat /\ Total(m) > 0 /\ Len(l) \in Nat /\ DOMAIN l = 1..Len(l)
  BY TotalIs
<1> HIDE DEF j, r
<1>6. ASSUME NEW i \in DOMAIN j, EndsMessage(j[i])
      PROVE  \/ i \in DOMAIN l /\ j[i] = l[i]
             \/ i = Len(l) + Total(m) /\ j[i][1] = m
  <2>1. CASE i \in DOMAIN l
    BY <2>1, <1>2, <1>5
  <2>2. CASE i \notin DOMAIN l
    <3>1. i \in Len(l) + 1..Len(l) + Total(m) /\ j[i] = <<m, i - Len(l)>>
      BY <2>2, <1>2, <1>5
    <3>2. i - Len(l) = Total(m)
      BY <3>1, <1>6 DEF EndsMessage, Total
    <3> QED BY <3>1, <3>2, <1>5
  <2> QED BY <2>1, <2>2
<1>7. \A i, n \in DOMAIN o : i < n => Precedes(r, o[i], o[n])
  BY <1>3 DEF Arranged
<1>8. ASSUME NEW i \in DOMAIN j, NEW n \in DOMAIN j, i < n, EndsMessage(j[i]), EndsMessage(j[n])
      PROVE  Precedes(r, j[i][1], j[n][1])
  <2>1. i \in DOMAIN l /\ j[i] = l[i]
    BY <1>2, <1>5, <1>6, <1>8
  <2>2. CASE n \in DOMAIN l /\ j[n] = l[n]
    BY <2>1, <2>2, <1>3, <1>8 DEF Arranged
  <2>3. CASE j[n][1] = m
    BY <2>1, <2>3, <1>3 DEF Arranged
  <2> QED BY <2>2, <2>3, <1>6, <1>8
<1>9. ASSUME NEW i \in DOMAIN o, NEW n \in DOMAIN j, EndsMessage(j[n])
      PROVE  Precedes(r, o[i], j[n][1])
  <2>1. CASE n \in DOMAIN l /\ j[n] = l[n]
    BY <2>1, <1>3, <1>9 DEF Arranged
  <2>2. CASE j[n][1] = m
    BY <2>2, <1>3 DEF Arranged
  <2> QED BY <2>1, <2>2, <1>6, <1>9
<1>10. \A i \in DOMAIN o : Among(o[i], r) /\ o[i] \notin Undecodable
  BY <1>3 DEF Arranged
<1>11. ASSUME NEW i \in DOMAIN j PROVE Among(j[i][1], r)
  <2>1. CASE i \in DOMAIN l
    BY <2>1, <1>2, <1>3, <1>5 DEF Arranged
  <2>2. CASE i \notin DOMAIN l
    BY <2>2, <1>2, <1>3, <1>5
  <2> QED BY <2>1, <2>2
<1>12. ASSUME NEW i \in DOMAIN r PROVE ~Lost(r[i], o, j)
  <2>1. CASE i \in DOMAIN q
    <3>1. ~Lost(q[i], o, l) /\ r[i] = q[i]
      BY <2>1, <1>4 DEF Arranged
    <3>2. \A n \in DOMAIN l : n \in DOMAIN j /\ j[n] = l[n]
      BY <1>2, <1>5
    <3> QED BY <3>1, <3>2 DEF Lost
  <2>2. CASE i \notin DOMAIN q
    <3>1. r[i] = m
      BY <2>2, <1>1, <1>4
    <3>2. Len(l) + Total(m) \in DOMAIN j /\ j[Len(l) + Total(m)] = <<m, Total(m)>>
      <4>1. Len(l) + Total(m) \in Len(l) + 1..Len(l) + Total(m)
            /\ Len(l) + Total(m) - Len(l) = Total(m)
        BY <1>5
      <4> QED BY <4>1, <1>2, <1>5
    <3>3. EndsMessage(<<m, Total(m)>>)
      BY DEF EndsMessage, Total
    <3> QED BY <3>1, <3>2, <3>3 DEF Lost
  <2> QED BY <2>1, <2>2
<1> QED BY <1>1, <1>4, <1>7, <1>8, <1>9, <1>10, <1>11, <1>12 DEF Arranged, j, r

\* units that end no message leave the line
LEMMA Shorter ==
  ASSUME NEW o, NEW l, NEW q, Arranged(o, l, q), l \in Seq(Unit), NEW u \in 0..Len(l),
         \A i \in 1..u : ~EndsMessage(l[i])
  PROVE  Arranged(o, Past(l, u), q)
<1> DEFINE p == Past(l, u)
<1>1. p \in Seq(Unit) /\ DOMAIN p = 1..Len(l) - u /\ \A i \in 1..Len(l) - u : p[i] = l[i + u]
  BY PastIs
<1>2. Len(l) \in Nat /\ DOMAIN l = 1..Len(l)
  OBVIOUS
<1> HIDE DEF p
<1>3. \A i \in DOMAIN p : i \in Nat /\ i + u \in DOMAIN l /\ p[i] = l[i + u]
  BY <1>1, <1>2
<1>4. \A i, j \in DOMAIN p :
        i < j /\ EndsMessage(p[i]) /\ EndsMessage(p[j]) => Precedes(q, p[i][1], p[j][1])
  <2> SUFFICES ASSUME NEW i \in DOMAIN p, NEW j \in DOMAIN p, i < j,
                      EndsMessage(p[i]), EndsMessage(p[j])
               PROVE  Precedes(q, p[i][1], p[j][1])
    OBVIOUS
  <2>1. i + u \in DOMAIN l /\ j + u \in DOMAIN l /\ i + u < j + u
    BY <1>3
  <2> QED BY <2>1, <1>3 DEF Arranged
<1>5. \A i \in DOMAIN o, j \in DOMAIN p : EndsMessage(p[j]) => Precedes(q, o[i], p[j][1])
  BY <1>3 DEF Arranged
<1>6. \A i \in DOMAIN p : Among(p[i][1], q)
  BY <1>3 DEF Arranged
<1>7. ASSUME NEW i \in DOMAIN q PROVE ~Lost(q[i], o, p)
  <2>1. ~Lost(q[i], o, l)
    BY DEF Arranged
  <2>2. ASSUME NEW j \in DOMAIN l, EndsMessage(l[j]), l[j][1] = q[i]
        PROVE  \E n \in DOMAIN p : p[n][1] = q[i] /\ EndsMessage(p[n])
    <3>1. j - u \in DOMAIN p /\ (j - u) + u = j
      BY <2>2, <1>1, <1>2
    <3> QED BY <3>1, <1>3, <2>2
  <2> QED BY <2>1, <2>2 DEF Lost
<1> QED BY <1>4, <1>5, <1>6, <1>7 DEF Arranged, p

\* a message leaves the line and, if it can be decoded, comes out
LEMMA MessageOut ==
  ASSUME NEW o, NEW l, NEW q, Arranged(o, l, q), l \in Seq(Unit), NEW u \in 1..Len(l),
         NEW m \in Messages, l[u][1] = m, EndsMessage(l[u]),
         \A i \in 1..u : i # u => ~EndsMessage(l[i]),
         NEW e, e = IF m \in Undecodable THEN o ELSE Append(o, m)
  PROVE  Arranged(e, Past(l, u), q)
<1> DEFINE p == Past(l, u)
<1>1. p \in Seq(Unit) /\ DOMAIN p = 1..Len(l) - u /\ \A i \in 1..Len(l) - u : p[i] = l[i + u]
  <2>1. u \in 0..Len(l)
    OBVIOUS
  <2> QED BY <2>1, PastIs
<1>2. Len(l) \in Nat /\ DOMAIN l = 1..Len(l) /\ u \in DOMAIN l
  OBVIOUS
<1> HIDE DEF p
<1>3. \A i \in DOMAIN p : i \in Nat /\ i + u \in DOMAIN l /\ p[i] = l[i + u] /\ u < i + u
  BY <1>1, <1>2
<1>4. o \in Seq(Messages) /\ q \in Seq(Messages)
  BY DEF Arranged
<1>5. /\ e \in Seq(Messages)
      /\ \A i \in DOMAIN o : i \in DOMAIN e /\ e[i] = o[i]
      /\ \A i \in DOMAIN e :
           \/ i \in DOMAIN o /\ e[i] = o[i]
           \/ e[i] = m /\ m \notin Undecodable /\ \A j \in DOMAIN e : j <= i
      /\ m \in Undecodable \/ Among(m, e)
  <2>1. CASE m \in Undecodable
    BY <2>1, <1>4
  <2>2. CASE m \notin Undecodable
    <3>1. e = Append(o, m)
      BY <2>2
    <3>2. e \in Seq(Messages) /\ DOMAIN e = 1..Len(o) + 1 /\ DOMAIN o = 1..Len(o) /\ Len(o) \in Nat
          /\ (\A i \in 1..Len(o) : e[i] = o[i]) /\ e[Len(o) + 1] = m
      BY <3>1, <1>4
    <3>3. Len(o) + 1 \in DOMAIN e /\ \A i \in DOMAIN e : i \in DOMAIN o \/ i = Len(o) + 1
      BY <3>2
    <3>4. Among(m, e)
      BY <3>2, <3>3 DEF Among
    <3>5. \A i \in DOMAIN e : i <= Len(o) + 1
      BY <3>2
    <3>6. \A i \in DOMAIN o : i \in DOMAIN e /\ e[i] = o[i]
      BY <3>2
    <3> QED BY <2>2, <3>2, <3>3, <3>4, <3>5, <3>6
  <2> QED BY <2>1, <2>2
<1>6. ASSUME NEW i \in DOMAIN e, NEW j \in DOMAIN e, i < j PROVE Precedes(q, e[i], e[j])
  <2>0. i \in Nat /\ j \in Nat
    BY <1>5
  <2>1. i \in DOMAIN o /\ e[i] = o[i]
    BY <1>5, <1>6, <2>0
  <2>2. CASE j \in DOMAIN o /\ e[j] = o[j]
    BY <2>1, <2>2, <1>6 DEF Arranged
  <2>3. CASE e[j] = m
    BY <2>1, <2>3, <1>2 DEF Arranged
  <2> QED BY <2>2, <2>3, <1>5
<1>7. \A i, j \in DOMAIN p :
        i < j /\ EndsMessage(p[i]) /\ EndsMessage(p[j]) => Precedes(q, p[i][1], p[j][1])
  <2> SUFFICES ASSUME NEW i \in DOMAIN p, NEW j \in DOMAIN p, i < j,
                      EndsMessage(p[i]), EndsMessage(p[j])
               PROVE  Precedes(q, p[i][1], p[j][1])
    OBVIOUS
  <2>1. i + u \in DOMAIN l /\ j + u \in DOMAIN l /\ i + u < j + u
    BY <1>3
  <2> QED BY <2>1, <1>3 DEF Arranged
<1>8. ASSUME NEW i \in DOMAIN e, NEW j \in DOMAIN p, EndsMessage(p[j])
      PROVE  Precedes(q, e[i], p[j][1])
  <2>1. j + u \in DOMAIN l /\ p[j] = l[j + u] /\ u < j + u
    BY <1>3
  <2>2. CASE i \in DOMAIN o /\ e[i] = o[i]
    BY <2>1, <2>2, <1>8 DEF Arranged
  <2>3. CASE e[i] = m
    BY <2>1, <2>3, <1>2, <1>8 DEF Arranged
  <2> QED BY <2>2, <2>3, <1>5
<1>9. ASSUME NEW i \in DOMAIN e PROVE Among(e[i], q) /\ e[i] \notin Undecodable
  <2>1. Among(m, q)
    BY <1>2 DEF Arranged
  <2> QED BY <2>1, <1>5 DEF Arranged
<1>10. \A i \in DOMAIN p : Among(p[i][1], q)
  BY <1>3 DEF Arranged
<1>11. ASSUME NEW i \in DOMAIN q PROVE ~Lost(q[i], e, p)
  <2>1. ~Lost(q[i], o, l)
    BY DEF Arranged
  <2>2. Among(q[i], o) => Among(q[i], e)
    BY <1>5 DEF Among
  <2>3. ASSUME NEW j \in DOMAIN l, EndsMessage(l[j]), l[j][1] = q[i]
        PROVE  q[i] = m \/ \E n \in DOMAIN p : p[n][1] = q[i] /\ EndsMessage(p[n])
    <3>1. CASE j = u
      BY <3>1, <2>3
    <3>2. CASE j > u
      <4>1. j - u \in DOMAIN p /\ (j - u) + u = j
        BY <3>2, <1>1, <1>2
      <4> QED BY <4>1, <1>3, <2>3
    <3>3. CASE j < u
      <4>1. j \in 1..u /\ j # u
        BY <3>3, <1>2
      <4> QED BY <4>1, <2>3
    <3> QED BY <3>1, <3>2, <3>3, <1>2
  <2> QED BY <2>1, <2>2, <2>3, <1>5 DEF Lost
<1> QED BY <1>4, <1>5, <1>6, <1>7, <1>8, <1>9, <1>10, <1>11 DEF Arranged, p

(***************************************************************************)
(* What each step does to the line and to what is out.                     *)
(***************************************************************************)
ChannelInv ==
  /\ ChannelTypeOK /\ Len(wire) <= SocketBuffer
  /\ busy => buffer = <<>>
  /\ ~busy => input = <<>>
  /\ OnTheWay(Line, header)
  /\ Arranged(Out, Line, sent)

Regroups(x, y, z) == (x \o y) \o z = x \o (y \o z)

LEMMA Regrouped ==
  ASSUME NEW x \in Seq(Unit), NEW y \in Seq(Unit), NEW z \in Seq(Unit)
  PROVE  Regroups(x, y, z)
BY ConcatAssociative DEF Regroups

LEMMA RegroupedOut ==
  ASSUME NEW x \in Seq(Messages), NEW y \in Seq(Messages), NEW z \in Seq(Messages)
  PROVE  Regroups(x, y, z)
BY ConcatAssociative DEF Regroups

LEMMA TakeAndPast ==
  ASSUME NEW S, NEW s \in Seq(S), NEW n \in 0..Len(s)
  PROVE  /\ Take(s, n) \in Seq(S) /\ Past(s, n) \in Seq(S) /\ Len(Take(s, n)) = n
         /\ Take(s, n) \o Past(s, n) = s
<1>1. SubSeq(s, 1, n) \o SubSeq(s, n + 1, Len(s)) = SubSeq(s, 1, Len(s))
  <2>1. 1 \in 1..Len(s) + 1 /\ n \in 1 - 1..Len(s) /\ Len(s) \in n..Len(s)
    OBVIOUS
  <2> QED BY <2>1, ConcatAdjacentSubSeq
<1>2. SubSeq(s, 1, Len(s)) = s
  BY SubSeqFull
<1>3. Take(s, n) \in Seq(S) /\ Len(Take(s, n)) = n
  BY DEF Take
<1> QED BY <1>1, <1>2, <1>3, PastIs DEF Take, Past

LEMMA WriteMoves ==
  ASSUME NEW bytes \in Seq(Unit), NEW e \in BOOLEAN, wire \in Seq(Unit),
         Len(wire) <= SocketBuffer, WriteOut(bytes, e)
  PROVE  /\ wire' \in Seq(Unit) /\ encoder' \in Seq(Unit) /\ listens' \in BOOLEAN
         /\ Len(wire') <= SocketBuffer
         /\ wire' \o encoder' = wire \o bytes
<1> DEFINE n == Least(Len(bytes), SocketBuffer - Len(wire))
<1>1. SocketBuffer \in Nat
  BY ChannelAssumption
<1>2. n \in 0..Len(bytes) /\ n <= SocketBuffer - Len(wire)
  BY <1>1 DEF Least
<1>3. wire' = wire \o Take(bytes, n) /\ encoder' = Past(bytes, n)
      /\ listens' = (e \/ n < Len(bytes))
  BY DEF WriteOut
<1> HIDE DEF n
<1> DEFINE x == Take(bytes, n)
           y == Past(bytes, n)
<1>4. x \in Seq(Unit) /\ y \in Seq(Unit) /\ Len(x) = n /\ x \o y = bytes
  BY <1>2, TakeAndPast
<1> HIDE DEF x, y
<1>5. wire' = wire \o x /\ encoder' = y
  BY <1>3 DEF x, y
<1>6. (wire \o x) \o y = wire \o (x \o y)
  <2>1. Regroups(wire, x, y)
    BY <1>4, Regrouped
  <2> QED BY <2>1 DEF Regroups
<1>7. wire' \in Seq(Unit) /\ Len(wire') = Len(wire) + n
  BY <1>4, <1>5, ConcatProperties
<1>8. Len(wire') <= SocketBuffer
  BY <1>1, <1>2, <1>7
<1> QED BY <1>3, <1>4, <1>5, <1>6, <1>7, <1>8

LEMMA SendKeeps == ASSUME ChannelInv, NEW m \in Messages, Send(m) PROVE ChannelInv'
<1>1. /\ encoder \in Seq(Unit) /\ wire \in Seq(Unit) /\ buffer \in Seq(Unit)
      /\ input \in Seq(Unit) /\ sent \in Seq(Messages) /\ listens \in BOOLEAN
      /\ Len(wire) <= SocketBuffer
  BY DEF ChannelInv, ChannelTypeOK
<1>2. UNCHANGED <<buffer, header, input, busy, hung, queue, got>>
      /\ sent' = Append(sent, m) /\ sent' \in Seq(Messages)
  BY <1>1 DEF Send, decoder
<1> DEFINE n == Units(m)
           h == input \o buffer
<1>3. n \in Seq(Unit)
  BY UnitsAre
<1> HIDE DEF n
<1>4. /\ wire' \in Seq(Unit) /\ encoder' \in Seq(Unit) /\ listens' \in BOOLEAN
      /\ Len(wire') <= SocketBuffer
      /\ wire' \o encoder' = (wire \o encoder) \o n
  <2>1. CASE encoder = <<>> /\ WriteOut(n, listens)
    <3>1. wire \o encoder = wire
      BY <2>1, <1>1, ConcatEmptySeq
    <3> QED BY <2>1, <3>1, <1>1, <1>3, WriteMoves
  <2>2. CASE encoder' = encoder \o n /\ UNCHANGED <<listens, wire>>
    <3>1. wire \o (encoder \o n) = (wire \o encoder) \o n
      <4>1. Regroups(wire, encoder, n)
        BY <1>1, <1>3, Regrouped
      <4> QED BY <4>1 DEF Regroups
    <3>2. encoder \o n \in Seq(Unit)
      BY <1>1, <1>3, ConcatProperties
    <3> QED BY <2>2, <3>1, <3>2, <1>1
  <2> QED BY <2>1, <2>2 DEF Send, n
<1>5. Line' = Line \o n
  <2>0. h \in Seq(Unit) /\ wire \o encoder \in Seq(Unit)
        /\ Line = (h \o wire) \o encoder /\ Line' = (h \o wire') \o encoder'
    BY <1>1, <1>2, ConcatProperties DEF Line
  <2> HIDE DEF h
  <2>1. Line = h \o (wire \o encoder) /\ h \in Seq(Unit) /\ wire \o encoder \in Seq(Unit)
    <3>1. Regroups(h, wire, encoder)
      BY <2>0, <1>1, Regrouped
    <3> QED BY <2>0, <3>1 DEF Regroups
  <2>2. Line' = h \o (wire' \o encoder')
    <3>1. Regroups(h, wire', encoder')
      BY <2>0, <1>4, Regrouped
    <3> QED BY <2>0, <3>1 DEF Regroups
  <2>3. (h \o (wire \o encoder)) \o n = h \o ((wire \o encoder) \o n)
    <3>1. Regroups(h, wire \o encoder, n)
      BY <2>1, <1>3, Regrouped
    <3> QED BY <3>1 DEF Regroups
  <2> QED BY <2>1, <2>2, <2>3, <1>4
<1>6. OnTheWay(Line, header) /\ Arranged(Out, Line, sent) /\ Line \in Seq(Unit)
  BY DEF ChannelInv, OnTheWay
<1>7. OnTheWay(Line', header')
  BY <1>2, <1>5, <1>6, MoreOnTheWay DEF n
<1>8. Out' = Out
  BY <1>2 DEF Out
<1>9. Arranged(Out', Line', sent')
  BY <1>2, <1>5, <1>6, <1>8, SentMore DEF n
<1>10. ChannelTypeOK'
  BY <1>2, <1>4 DEF ChannelInv, ChannelTypeOK
<1> QED BY <1>2, <1>4, <1>7, <1>9, <1>10 DEF ChannelInv

LEMMA WritableKeeps == ASSUME ChannelInv, Writable PROVE ChannelInv'
<1>1. /\ encoder \in Seq(Unit) /\ wire \in Seq(Unit) /\ buffer \in Seq(Unit)
      /\ input \in Seq(Unit) /\ Len(wire) <= SocketBuffer
  BY DEF ChannelInv, ChannelTypeOK
<1>2. UNCHANGED <<buffer, header, input, busy, hung, queue, got, sent>>
      /\ WriteOut(encoder, FALSE)
  BY DEF Writable, decoder
<1>3. /\ wire' \in Seq(Unit) /\ encoder' \in Seq(Unit) /\ listens' \in BOOLEAN
      /\ Len(wire') <= SocketBuffer
      /\ wire' \o encoder' = wire \o encoder
  <2> DEFINE e == FALSE
  <2>1. e \in BOOLEAN /\ WriteOut(encoder, e)
    BY <1>2
  <2> HIDE DEF e
  <2> QED BY <2>1, <1>1, WriteMoves
<1>4. Line' = Line
  <2> DEFINE h == input \o buffer
  <2>0. h \in Seq(Unit) /\ Line = (h \o wire) \o encoder /\ Line' = (h \o wire') \o encoder'
    BY <1>1, <1>2, ConcatProperties DEF Line
  <2> HIDE DEF h
  <2>1. Line = h \o (wire \o encoder)
    <3>1. Regroups(h, wire, encoder)
      BY <2>0, <1>1, Regrouped
    <3> QED BY <2>0, <3>1 DEF Regroups
  <2>2. Line' = h \o (wire' \o encoder')
    <3>1. Regroups(h, wire', encoder')
      BY <2>0, <1>3, Regrouped
    <3> QED BY <2>0, <3>1 DEF Regroups
  <2> QED BY <2>1, <2>2, <1>3
<1>5. Out' = Out
  BY <1>2 DEF Out
<1>6. ChannelTypeOK'
  BY <1>2, <1>3 DEF ChannelInv, ChannelTypeOK
<1> QED BY <1>2, <1>3, <1>4, <1>5, <1>6 DEF ChannelInv

LEMMA RecvKeeps == ASSUME ChannelInv, NEW n \in 1..MaxRead, Recv(n) PROVE ChannelInv'
<1>1. /\ encoder \in Seq(Unit) /\ wire \in Seq(Unit) /\ buffer \in Seq(Unit)
      /\ Len(wire) <= SocketBuffer /\ SocketBuffer \in Nat /\ MaxRead \in Nat
  BY ChannelAssumption DEF ChannelInv, ChannelTypeOK
<1>2. input = <<>>
  BY DEF ChannelInv, Recv
<1> DEFINE x == Take(wire, n)
           y == Past(wire, n)
<1>3. n \in 0..Len(wire)
  BY <1>1 DEF Recv
<1>4. /\ input' = buffer \o x /\ buffer' = <<>> /\ wire' = y /\ busy' = TRUE
      /\ UNCHANGED <<encoder, listens, sent, header, hung, queue, got>>
  BY DEF Recv, sender
<1>5. x \in Seq(Unit) /\ y \in Seq(Unit) /\ x \o y = wire /\ Len(y) = Len(wire) - n
  BY <1>1, <1>3, TakeAndPast, PastIs
<1> HIDE DEF x, y
<1>6. buffer \o x \in Seq(Unit) /\ y \o encoder \in Seq(Unit)
  BY <1>1, <1>5, ConcatProperties
<1>7. Line = buffer \o (wire \o encoder)
  <2>1. <<>> \o buffer = buffer
    BY <1>1, ConcatEmptySeq
  <2>2. (buffer \o wire) \o encoder = buffer \o (wire \o encoder)
    <3>1. Regroups(buffer, wire, encoder)
      BY <1>1, Regrouped
    <3> QED BY <3>1 DEF Regroups
  <2> QED BY <2>1, <2>2, <1>2 DEF Line
<1>8. Line' = buffer \o (wire \o encoder)
  <2>1. (buffer \o x) \o <<>> = buffer \o x
    BY <1>6, ConcatEmptySeq
  <2>2. Line' = ((buffer \o x) \o y) \o encoder
    BY <2>1, <1>4 DEF Line
  <2>3. ((buffer \o x) \o y) \o encoder = (buffer \o x) \o (y \o encoder)
    <3> DEFINE z == buffer \o x
    <3>1. z \in Seq(Unit)
      BY <1>6
    <3> HIDE DEF z
    <3>2. (z \o y) \o encoder = z \o (y \o encoder)
      <4>1. Regroups(z, y, encoder)
        BY <3>1, <1>1, <1>5, Regrouped
      <4> QED BY <4>1 DEF Regroups
    <3> QED BY <3>2 DEF z
  <2>4. (buffer \o x) \o (y \o encoder) = buffer \o (x \o (y \o encoder))
    <3>1. Regroups(buffer, x, y \o encoder)
      BY <1>1, <1>5, <1>6, Regrouped
    <3> QED BY <3>1 DEF Regroups
  <2>5. x \o (y \o encoder) = (x \o y) \o encoder
    <3>1. Regroups(x, y, encoder)
      BY <1>1, <1>5, Regrouped
    <3> QED BY <3>1 DEF Regroups
  <2> QED BY <2>2, <2>3, <2>4, <2>5, <1>5
<1>9. Out' = Out
  BY <1>4 DEF Out
<1>10. ChannelTypeOK'
  <2>1. <<>> \in Seq(Unit)
    OBVIOUS
  <2> QED BY <2>1, <1>4, <1>5, <1>6 DEF ChannelInv, ChannelTypeOK
<1>11. Len(wire') <= SocketBuffer
  BY <1>1, <1>3, <1>4, <1>5
<1>12. header' = header /\ sent' = sent /\ busy' /\ buffer' = <<>>
  BY <1>4
<1> QED BY <1>7, <1>8, <1>9, <1>10, <1>11, <1>12 DEF ChannelInv

LEMMA DeliverKeeps == ASSUME ChannelInv, Deliver PROVE ChannelInv'
<1>1. queue \in Seq(Messages) /\ got \in Seq(Messages) /\ queue # <<>>
  BY DEF ChannelInv, ChannelTypeOK, Deliver
<1>2. /\ got' = Append(got, Head(queue)) /\ queue' = Tail(queue)
      /\ UNCHANGED <<encoder, listens, sent, wire, buffer, header, input, busy, hung>>
  BY DEF Deliver, sender
<1> DEFINE h == Head(queue)
           t == Tail(queue)
<1>3. h \in Messages /\ t \in Seq(Messages) /\ queue = <<h>> \o t /\ <<h>> \in Seq(Messages)
  <2>1. h = queue[1] /\ t = SubSeq(queue, 2, Len(queue)) /\ h \in Messages /\ t \in Seq(Messages)
    BY <1>1, HeadTailProperties, TailIsSubSeq
  <2>2. 1 \in 1..Len(queue) /\ Len(queue) \in 1..Len(queue)
    BY <1>1
  <2>3. SubSeq(queue, 1, Len(queue)) = <<queue[1]>> \o SubSeq(queue, 1 + 1, Len(queue))
    BY <2>2, <1>1, SubSeqRecursiveFirst
  <2>4. SubSeq(queue, 1, Len(queue)) = queue
    BY <1>1, SubSeqFull
  <2> QED BY <2>1, <2>3, <2>4
<1> HIDE DEF h, t
<1>4. Append(got, h) = got \o <<h>> /\ Append(got, h) \in Seq(Messages)
  BY <1>1, <1>3, AppendIsConcat
<1>5. (got \o <<h>>) \o t = got \o (<<h>> \o t)
  <2>1. Regroups(got, <<h>>, t)
    BY <1>1, <1>3, RegroupedOut
  <2> QED BY <2>1 DEF Regroups
<1>6. Out' = Out
  <2>1. Out' = Append(got, h) \o t
    BY <1>2 DEF Out, h, t
  <2> QED BY <2>1, <1>3, <1>4, <1>5 DEF Out
<1>7. Line' = Line
  BY <1>2 DEF Line
<1>8. ChannelTypeOK'
  <2>1. got' \in Seq(Messages) /\ queue' \in Seq(Messages)
    BY <1>2, <1>3, <1>4 DEF h, t
  <2> QED BY <2>1, <1>2 DEF ChannelInv, ChannelTypeOK
<1> QED BY <1>2, <1>6, <1>7, <1>8 DEF ChannelInv

LEMMA MessageTaken ==
  ASSUME NEW l \in Seq(Unit), Runs(l), StartsAnew(l), l # <<>>,
         NEW m, NEW k, l[1] = <<m, k>>, NEW u, u = Total(m) - k + 1,
         NEW o, NEW q, Arranged(o, l, q),
         NEW e, e = IF m \in Undecodable THEN o ELSE Append(o, m)
  PROVE  OnTheWay(Past(l, u), None) /\ Arranged(e, Past(l, u), q)
<1>1. m \in Messages /\ k \in 1..Total(m) /\ u \in 1..Len(l)
      /\ \A i \in 1..u : l[i] = <<m, k + i - 1>>
  BY MessageRuns
<1>2. Total(m) \in Nat
  BY <1>1, TotalIs
<1>3. l[u][1] = m /\ EndsMessage(l[u])
  <2>1. u \in 1..u /\ k + u - 1 = Total(m)
    BY <1>1, <1>2
  <2>2. l[u] = <<m, Total(m)>>
    BY <2>1, <1>1
  <2> QED BY <2>2 DEF EndsMessage, Total
<1>4. ASSUME NEW i \in 1..u, i # u PROVE ~EndsMessage(l[i])
  <2>1. l[i] = <<m, k + i - 1>> /\ k + i - 1 # Total(m)
    BY <1>1, <1>2, <1>4
  <2> QED BY <2>1 DEF EndsMessage, Total
<1> QED BY <1>1, <1>3, <1>4, NextAwaited, MessageOut

LEMMA LineBegins ==
  ASSUME ChannelInv, busy
  PROVE  /\ Line \in Seq(Unit) /\ Len(input) <= Len(Line)
         /\ \A i \in 1..Len(input) : Line[i] = input[i]
         /\ Line = input \o (wire \o encoder) /\ wire \o encoder \in Seq(Unit)
<1> DEFINE r == wire \o encoder
<1>1. /\ encoder \in Seq(Unit) /\ wire \in Seq(Unit) /\ input \in Seq(Unit)
      /\ buffer = <<>> /\ r \in Seq(Unit)
  BY ConcatProperties DEF ChannelInv, ChannelTypeOK
<1>2. input \o <<>> = input
  BY <1>1, ConcatEmptySeq
<1>3. Line = (input \o wire) \o encoder
  BY <1>1, <1>2 DEF Line
<1>4. Line = input \o r
  <2>1. Regroups(input, wire, encoder)
    BY <1>1, Regrouped
  <2> QED BY <1>3, <2>1 DEF Regroups
<1> HIDE DEF r
<1>5. /\ Line \in Seq(Unit) /\ Len(input) <= Len(Line)
      /\ \A i \in 1..Len(input) : Line[i] = input[i]
  BY <1>1, <1>4
<1> QED BY <1>1, <1>4, <1>5 DEF r

LEMMA LineShrinks ==
  ASSUME ChannelInv, busy, NEW u \in 0..Len(input), NEW left, left = Past(input, u),
         UNCHANGED <<wire, encoder>>,
         \/ input' = left /\ buffer' = <<>>
         \/ input' = <<>> /\ buffer' = left
  PROVE  Line' = Past(Line, u)
<1> DEFINE r == wire \o encoder
<1>1. /\ encoder \in Seq(Unit) /\ wire \in Seq(Unit) /\ input \in Seq(Unit)
      /\ Line = input \o r /\ r \in Seq(Unit)
  BY LineBegins DEF ChannelInv, ChannelTypeOK
<1>2. left \in Seq(Unit)
  BY <1>1, PastIs
<1>3. Line' = left \o r
  <2>1. left \o <<>> = left /\ <<>> \o left = left
    BY <1>2, ConcatEmptySeq
  <2>2. Line' = (left \o wire) \o encoder
    BY <2>1 DEF Line
  <2>3. (left \o wire) \o encoder = left \o r
    <3>1. Regroups(left, wire, encoder)
      BY <1>1, <1>2, Regrouped
    <3> QED BY <3>1 DEF Regroups
  <2> QED BY <2>2, <2>3
<1> HIDE DEF r
<1>4. Past(input \o r, u) = left \o r
  BY <1>1, PastJoined
<1> QED BY <1>1, <1>3, <1>4

LEMMA OutMore ==
  ASSUME NEW x \in Seq(Messages), NEW y \in Seq(Messages), NEW m \in Messages
  PROVE  x \o Append(y, m) = Append(x \o y, m)
<1> DEFINE e == <<m>>
           j == x \o y
<1>1. e \in Seq(Messages) /\ j \in Seq(Messages)
  BY ConcatProperties
<1>2. Append(y, m) = y \o e /\ Append(j, m) = j \o e
  BY <1>1, AppendIsConcat
<1> HIDE DEF e
<1>3. (x \o y) \o e = x \o (y \o e)
  <2>1. Regroups(x, y, e)
    BY <1>1, RegroupedOut
  <2> QED BY <2>1 DEF Regroups
<1> QED BY <1>2, <1>3

LEMMA ProcessKeeps == ASSUME ChannelInv, Process PROVE ChannelInv'
<1> DEFINE starts == header = None /\ Len(input) >= HeaderSize
           m == IF starts THEN input[1][1] ELSE header
           rest == IF starts THEN Past(input, HeaderSize) ELSE input
           complete == m # None /\ Len(rest) >= Size[m]
           left == IF complete THEN Past(rest, Size[m]) ELSE rest
<1>1. /\ input \in Seq(Unit) /\ header \in Messages \cup {None}
      /\ queue \in Seq(Messages) /\ got \in Seq(Messages)
      /\ busy /\ buffer = <<>> /\ None \notin Messages
      /\ HeaderSize \in Nat \ {0} /\ Len(input) \in Nat
  BY ChannelAssumption DEF ChannelInv, ChannelTypeOK, Process
<1>2. UNCHANGED <<encoder, listens, sent, wire, got>>
  BY DEF Process, sender
<1>3. CASE hung' = TRUE /\ UNCHANGED <<buffer, header, input, busy, queue>>
  <2>1. Line' = Line /\ Out' = Out
    BY <1>2, <1>3 DEF Line, Out
  <2>2. ChannelTypeOK'
    BY <1>2, <1>3 DEF ChannelInv, ChannelTypeOK
  <2> QED BY <2>1, <2>2, <1>2, <1>3 DEF ChannelInv
<1>4. CASE /\ queue' = IF complete /\ m \notin Undecodable THEN Append(queue, m) ELSE queue
           /\ header' = Pending(m, complete)
           /\ busy' = Again(Len(input) - Len(left), left)
           /\ IF busy' THEN input' = left /\ buffer' = <<>>
                       ELSE input' = <<>> /\ buffer' = left
           /\ UNCHANGED hung
  <2> DEFINE e == IF m \in Undecodable THEN Out ELSE Append(Out, m)
  <2>1. /\ Line \in Seq(Unit) /\ OnTheWay(Line, header) /\ Arranged(Out, Line, sent)
        /\ Runs(Line) /\ StartsAnew(Line) /\ Out \in Seq(Messages)
    BY DEF ChannelInv, OnTheWay, Arranged
  <2>2. ~complete => Out' = Out /\ header' = m
    BY <1>2, <1>4 DEF Out, Pending
  <2>3. complete /\ m \in Messages => Out' = e /\ header' = None
    BY <1>1, <1>2, <1>4, OutMore DEF Out, Pending
  <2>4. /\ busy' \in BOOLEAN
        /\ busy' => input' = left /\ buffer' = <<>>
        /\ ~busy' => input' = <<>> /\ buffer' = left
    BY <1>4 DEF Again
  <2>5. \E u \in 0..Len(input) :
          /\ left = Past(input, u)
          /\ Line' = Past(Line, u) /\ OnTheWay(Past(Line, u), header')
          /\ Arranged(Out', Past(Line, u), sent)
    <3>1. ASSUME NEW u \in 0..Len(input), left = Past(input, u)
          PROVE  Line' = Past(Line, u)
      <4> HIDE DEF left
      <4> QED BY <3>1, <1>1, <1>2, <2>4, LineShrinks
    <3>2. /\ Len(input) <= Len(Line)
          /\ \A i \in 1..Len(input) : Line[i] = input[i]
      BY <1>1, LineBegins
    <3>3. CASE ~starts /\ ~complete
      <4>1. left = Past(input, 0) /\ Past(Line, 0) = Line
        BY <3>3, <1>1, <2>1, SubSeqFull DEF Past
      <4>2. header' = header /\ Out' = Out
        BY <3>3, <2>2
      <4>3. 0 \in 0..Len(input)
        BY <1>1
      <4> HIDE DEF left
      <4> QED BY <4>1, <4>2, <4>3, <3>1, <2>1
    <3>4. CASE ~starts /\ complete
      <4>1. m = header /\ m # None /\ m \in Messages /\ rest = input
            /\ Len(input) >= Size[m] /\ left = Past(input, Size[m])
        BY <3>4, <1>1
      <4> DEFINE k == HeaderSize + 1
                 u == Size[m]
      <4>2. Line # <<>> /\ Line[1] = <<m, k>>
        BY <4>1 DEF ChannelInv, OnTheWay, Awaited
      <4>3. u = Total(m) - k + 1 /\ u \in 0..Len(input)
        <5> HIDE DEF left, m, complete, starts, rest
        <5>1. Total(m) = HeaderSize + Size[m] /\ Size[m] \in Nat /\ HeaderSize \in Nat
          BY <4>1, TotalIs
        <5> QED BY <5>1, <4>1, <1>1
      <4>4. Out' = e /\ header' = None
        BY <3>4, <4>1, <2>3
      <4>5. left = Past(input, u) /\ e = IF m \in Undecodable THEN Out ELSE Append(Out, m)
        BY <4>1
      <4> HIDE DEF left, m, complete, starts, rest, k, u, e
      <4>6. OnTheWay(Past(Line, u), None) /\ Arranged(e, Past(Line, u), sent)
        BY <4>2, <4>3, <4>5, <2>1, MessageTaken
      <4> QED BY <4>3, <4>4, <4>5, <4>6, <3>1
    <3>5. ASSUME starts
          PROVE  /\ Line # <<>> /\ Line[1] = <<m, 1>> /\ m \in Messages /\ OnTheWay(Line, None)
                 /\ HeaderSize \in 0..Len(input) /\ rest = Past(input, HeaderSize)
                 /\ Len(rest) = Len(input) - HeaderSize
      <4>1. header = None /\ Len(input) >= HeaderSize /\ m = input[1][1] /\ OnTheWay(Line, None)
            /\ HeaderSize \in 0..Len(input) /\ rest = Past(input, HeaderSize)
        BY <3>5, <1>1, <2>1
      <4>2. 1 \in 1..Len(input) /\ Line # <<>>
        BY <4>1, <3>2, <1>1, <2>1
      <4>3. m = Line[1][1]
        BY <4>1, <4>2, <3>2
      <4>4. Len(rest) = Len(input) - HeaderSize
        BY <4>1, <1>1, PastIs
      <4> HIDE DEF m, rest
      <4> QED BY <4>1, <4>2, <4>3, <4>4, FirstUnit
    <3>6. CASE starts /\ ~complete
      <4>1. left = Past(input, HeaderSize) /\ header' = m /\ Out' = Out
        BY <3>6, <3>5, <2>2
      <4>2. /\ Line # <<>> /\ Line[1] = <<m, 1>> /\ OnTheWay(Line, None)
            /\ HeaderSize \in 0..Len(input)
        BY <3>6, <3>5
      <4> HIDE DEF left, m, complete, starts, rest, e
      <4>3. /\ HeaderSize \in 1..Len(Line) /\ OnTheWay(Past(Line, HeaderSize), m)
            /\ \A i \in 1..HeaderSize : ~EndsMessage(Line[i])
        BY <4>2, HeaderTaken
      <4>4. Arranged(Out, Past(Line, HeaderSize), sent)
        <5>1. HeaderSize \in 0..Len(Line)
          BY <4>3
        <5> QED BY <5>1, <4>3, <2>1, Shorter
      <4> QED BY <4>1, <4>2, <4>3, <4>4, <3>1
    <3>7. CASE starts /\ complete
      <4> DEFINE k == 1
                 u == Total(m)
      <4>1. /\ Line # <<>> /\ Line[1] = <<m, k>> /\ m \in Messages
            /\ HeaderSize \in 0..Len(input) /\ rest = Past(input, HeaderSize)
            /\ Len(rest) = Len(input) - HeaderSize
        BY <3>7, <3>5
      <4>2. Len(rest) >= Size[m] /\ left = Past(rest, Size[m])
        BY <3>7
      <4>3. Out' = e /\ header' = None /\ e = IF m \in Undecodable THEN Out ELSE Append(Out, m)
        BY <3>7, <4>1, <2>3
      <4>k. k = 1
        OBVIOUS
      <4> HIDE DEF left, m, complete, starts, rest, k, e
      <4>4. u = Total(m) - k + 1 /\ u \in 0..Len(input) /\ u = HeaderSize + Size[m]
            /\ Size[m] \in 0..Len(input) - HeaderSize
        BY <4>k, <4>1, <4>2, <1>1, TotalIs
      <4>5. left = Past(input, u)
        BY <4>1, <4>2, <4>4, <1>1, PastPast
      <4> HIDE DEF u
      <4>6. OnTheWay(Past(Line, u), None) /\ Arranged(e, Past(Line, u), sent)
        BY <4>1, <4>3, <4>4, <2>1, MessageTaken
      <4> QED BY <4>3, <4>4, <4>5, <4>6, <3>1
    <3> QED BY <3>3, <3>4, <3>6, <3>7
  <2>6. ChannelTypeOK'
    <3>1. left \in Seq(Unit) /\ <<>> \in Seq(Unit)
      BY <2>5, <1>1, PastIs
    <3>2. queue' \in Seq(Messages) /\ header' \in Messages \cup {None}
      <4>1. header' \in Messages \cup {None}
        BY <2>5 DEF OnTheWay
      <4>2. m \in Messages \cup {None}
        <5>1. CASE starts
          <6>1. 1 \in DOMAIN input /\ m = input[1][1]
            BY <5>1, <1>1
          <6> QED BY <6>1, <1>1, LineIs
        <5>2. CASE ~starts
          BY <5>2, <1>1
        <5> QED BY <5>1, <5>2
      <4>3. complete => m \in Messages
        BY <4>2
      <4> HIDE DEF m, complete
      <4> QED BY <4>1, <4>3, <1>1, <1>4
    <3> HIDE DEF left, m, complete
    <3>3. input' \in Seq(Unit) /\ buffer' \in Seq(Unit) /\ hung' = hung
      BY <3>1, <2>4, <1>4
    <3> QED BY <3>2, <3>3, <2>4, <1>2 DEF ChannelInv, ChannelTypeOK
  <2> HIDE DEF left, m, complete, starts, rest
  <2>7. OnTheWay(Line', header') /\ Arranged(Out', Line', sent')
    BY <2>5, <1>2
  <2> QED BY <2>4, <2>6, <2>7, <1>2 DEF ChannelInv
<1> QED BY <1>3, <1>4 DEF Process

LEMMA ChannelStep == ASSUME ChannelInv, [ChannelNext]_channelVars PROVE ChannelInv'
<1>1. CASE UNCHANGED channelVars
  <2>1. UNCHANGED <<encoder, listens, sent, wire, buffer, header, input, busy, hung, queue, got>>
    BY <1>1 DEF channelVars, sender, decoder
  <2>2. Line' = Line /\ Out' = Out
    BY <2>1 DEF Line, Out
  <2>3. ChannelTypeOK'
    BY <2>1 DEF ChannelInv, ChannelTypeOK
  <2> QED BY <2>1, <2>2, <2>3 DEF ChannelInv
<1> QED
  BY <1>1, SendKeeps, WritableKeeps, RecvKeeps, ProcessKeeps, DeliverKeeps DEF ChannelNext

LEMMA ChannelFirst == ChannelInit => ChannelInv
<1> SUFFICES ASSUME ChannelInit PROVE ChannelInv
  OBVIOUS
<1>1. Line = <<>> /\ Out = <<>> /\ sent = <<>> /\ header = None /\ wire = <<>> /\ buffer = <<>>
      /\ input = <<>>
  BY ConcatEmptySeq DEF ChannelInit, Line, Out
<1>2. ChannelTypeOK
  <2>1. <<>> \in Seq(Unit) /\ <<>> \in Seq(Messages)
    OBVIOUS
  <2>2. listens \in BOOLEAN /\ busy \in BOOLEAN /\ hung \in BOOLEAN
    BY DEF ChannelInit
  <2> QED BY <2>1, <2>2 DEF ChannelInit, ChannelTypeOK
<1>3. OnTheWay(<<>>, None)
  BY DEF OnTheWay, Runs, StartsAnew, Awaited
<1>4. Arranged(<<>>, <<>>, <<>>)
  BY DEF Arranged
<1>5. Len(wire) <= SocketBuffer
  BY <1>1, ChannelAssumption
<1> QED BY <1>1, <1>2, <1>3, <1>4, <1>5 DEF ChannelInv

(***************************************************************************)
(* The messages leave the decoder of the other process once each, in the   *)
(* order Cluster::send was called, and none is lost on the way, whatever   *)
(* the reads and the writes take at a time (cluster.cpp, cmp.cpp); for any *)
(* messages, any sizes of them, of the header and of the buffers.          *)
(***************************************************************************)
THEOREM MessagesInOrder == ChannelSpec => []InOrder
<1>1. ChannelInv => InOrder
  BY DEF ChannelInv, Arranged, Lost, Precedes, InOrder, OutInOrder, EndsInOrder, OutFirst,
         NoneInvented, NoneLost, Before
<1> QED BY <1>1, ChannelStep, ChannelFirst, PTL DEF ChannelSpec

(***************************************************************************)
(* What a read leaves in the decoder, and what a write leaves in the       *)
(* encoder.                                                                *)
(***************************************************************************)
Waits ==
  ~busy => IF header = None THEN Len(buffer) < HeaderSize ELSE Len(buffer) < Size[header]

LEMMA ArmedStep == ASSUME ChannelInv, RestIsArmed, [ChannelNext]_channelVars PROVE RestIsArmed'
<1>1. encoder \in Seq(Unit) /\ SocketBuffer \in Nat /\ Len(wire) <= SocketBuffer
      /\ wire \in Seq(Unit)
  BY ChannelAssumption DEF ChannelInv, ChannelTypeOK
<1>2. ASSUME NEW bytes \in Seq(Unit), NEW e \in BOOLEAN, WriteOut(bytes, e)
      PROVE  RestIsArmed'
  <2> DEFINE n == Least(Len(bytes), SocketBuffer - Len(wire))
  <2>1. encoder' = Past(bytes, n) /\ listens' = (e \/ n < Len(bytes))
    BY <1>2 DEF WriteOut
  <2>2. n \in 0..Len(bytes)
    BY <1>1 DEF Least
  <2> HIDE DEF n
  <2>3. CASE n = Len(bytes)
    <3>1. Past(bytes, n) = <<>>
      BY <2>3 DEF Past
    <3> QED BY <3>1, <2>1 DEF RestIsArmed
  <2>4. CASE n # Len(bytes)
    <3>1. n < Len(bytes)
      BY <2>2, <2>4
    <3> QED BY <3>1, <2>1 DEF RestIsArmed
  <2> QED BY <2>3, <2>4
<1>3. ASSUME NEW m \in Messages, Send(m) PROVE RestIsArmed'
  <2>1. CASE encoder = <<>> /\ WriteOut(Units(m), listens)
    <3>1. listens \in BOOLEAN /\ Units(m) \in Seq(Unit)
      BY UnitsAre DEF ChannelInv, ChannelTypeOK
    <3> QED BY <2>1, <3>1, <1>2
  <2>2. CASE encoder # <<>> /\ listens' = listens
    BY <2>2 DEF RestIsArmed
  <2> QED BY <1>3, <2>1, <2>2 DEF Send
<1>4. CASE Writable
  <2> DEFINE e == FALSE
  <2>1. e \in BOOLEAN /\ WriteOut(encoder, e)
    BY <1>4 DEF Writable
  <2> HIDE DEF e
  <2> QED BY <2>1, <1>1, <1>2
<1>5. CASE UNCHANGED <<encoder, listens>>
  BY <1>5 DEF RestIsArmed
<1> QED BY <1>3, <1>4, <1>5 DEF ChannelNext, Recv, Process, Deliver, channelVars, sender

LEMMA WaitsStep == ASSUME ChannelInv, Waits, [ChannelNext]_channelVars PROVE Waits'
<1>1. CASE UNCHANGED <<busy, header, buffer>>
  BY <1>1 DEF Waits
<1>2. CASE \E n \in 1..MaxRead : Recv(n)
  BY <1>2 DEF Recv, Waits
<1>3. CASE Process
  <2> DEFINE starts == header = None /\ Len(input) >= HeaderSize
             m == IF starts THEN input[1][1] ELSE header
             rest == IF starts THEN Past(input, HeaderSize) ELSE input
             complete == m # None /\ Len(rest) >= Size[m]
             left == IF complete THEN Past(rest, Size[m]) ELSE rest
  <2>1. /\ input \in Seq(Unit) /\ header \in Messages \cup {None} /\ None \notin Messages
        /\ HeaderSize \in Nat \ {0} /\ Size \in [Messages -> Nat \ {0}]
    BY ChannelAssumption DEF ChannelInv, ChannelTypeOK
  <2>2. CASE UNCHANGED <<buffer, header, input, busy, queue>>
    BY <2>2, <1>1
  <2>3. CASE /\ header' = Pending(m, complete)
             /\ busy' = Again(Len(input) - Len(left), left)
             /\ IF busy' THEN input' = left /\ buffer' = <<>>
                         ELSE input' = <<>> /\ buffer' = left
    <3> SUFFICES ASSUME ~busy'
                 PROVE  IF header' = None THEN Len(left) < HeaderSize
                                          ELSE Len(left) < Size[header']
      BY <2>3 DEF Waits
    <3>1. ~Again(Len(input) - Len(left), left) /\ header' = Pending(m, complete)
      BY <2>3
    <3>2. starts => m \in Messages /\ rest \in Seq(Unit) /\ Len(rest) = Len(input) - HeaderSize
      <4>1. ASSUME starts PROVE input[1][1] \in Messages
        <5>1. 1 \in DOMAIN input
          BY <4>1, <2>1
        <5> QED BY <5>1, <2>1, LineIs
      <4>2. ASSUME starts
            PROVE  Past(input, HeaderSize) \in Seq(Unit)
                   /\ Len(Past(input, HeaderSize)) = Len(input) - HeaderSize
        <5>1. HeaderSize \in 0..Len(input)
          BY <4>2, <2>1
        <5> QED BY <5>1, <2>1, PastIs
      <4> QED BY <4>1, <4>2
    <3>3. ~starts => m = header /\ rest = input
      OBVIOUS
    <3>4. complete => m \in Messages /\ Size[m] \in Nat \ {0} /\ Len(rest) >= Size[m]
                      /\ left = Past(rest, Size[m])
      BY <3>2, <3>3, <2>1
    <3>5. ~complete => left = rest /\ (m # None => ~(Len(rest) >= Size[m]))
      OBVIOUS
    <3>6. starts <=> header = None /\ Len(input) >= HeaderSize
      OBVIOUS
    <3> HIDE DEF left, complete, rest, m, starts
    <3>7. CASE complete
      <4>1. rest \in Seq(Unit) /\ Len(rest) <= Len(input)
        BY <3>2, <3>3, <2>1
      <4>2. Size[m] \in 0..Len(rest)
        BY <4>1, <3>4, <3>7
      <4>3. Len(left) = Len(rest) - Size[m]
        BY <4>1, <4>2, <3>4, <3>7, PastIs
      <4>4. Len(input) - Len(left) > 0
        BY <4>1, <4>3, <3>4, <3>7, <2>1
      <4>5. Len(left) \in Nat /\ ~(Len(left) >= HeaderSize)
        BY <4>1, <4>2, <4>3, <4>4, <3>1 DEF Again
      <4>6. header' = None
        BY <3>1, <3>7 DEF Pending
      <4> QED BY <4>5, <4>6, <2>1
    <3>8. CASE ~complete
      <4>1. header' = m /\ left = rest
        BY <3>1, <3>5, <3>8 DEF Pending
      <4>2. m # None => m \in Messages /\ Len(left) < Size[m]
        <5>1. rest \in Seq(Unit)
          BY <3>2, <3>3, <2>1
        <5>2. m # None => m \in Messages /\ Size[m] \in Nat
          BY <3>2, <3>3, <2>1
        <5> QED BY <5>1, <5>2, <4>1, <3>5, <3>8
      <4>3. m = None => left = input /\ ~(Len(input) >= HeaderSize)
        BY <3>2, <3>3, <3>6, <4>1, <2>1
      <4>4. Len(input) \in Nat
        BY <2>1
      <4> QED BY <4>1, <4>2, <4>3, <4>4, <2>1
    <3> QED BY <3>7, <3>8
  <2> QED BY <1>3, <2>2, <2>3 DEF Process
<1> QED BY <1>1, <1>2, <1>3
        DEF ChannelNext, Send, Writable, Deliver, channelVars, sender, decoder

LEMMA BufferBegins ==
  ASSUME ChannelInv, ~busy
  PROVE  /\ Line \in Seq(Unit) /\ buffer \in Seq(Unit) /\ Len(buffer) <= Len(Line)
         /\ \A i \in 1..Len(buffer) : Line[i] = buffer[i]
<1> DEFINE r == wire \o encoder
<1>1. /\ encoder \in Seq(Unit) /\ wire \in Seq(Unit) /\ buffer \in Seq(Unit)
      /\ input = <<>> /\ r \in Seq(Unit)
  BY ConcatProperties DEF ChannelInv, ChannelTypeOK
<1>2. <<>> \o buffer = buffer
  BY <1>1, ConcatEmptySeq
<1>3. Line = (buffer \o wire) \o encoder
  BY <1>1, <1>2 DEF Line
<1>4. Line = buffer \o r
  <2>1. Regroups(buffer, wire, encoder)
    BY <1>1, Regrouped
  <2> QED BY <1>3, <2>1 DEF Regroups
<1> HIDE DEF r
<1> QED BY <1>1, <1>4

LEMMA WaitsMeans == ASSUME ChannelInv, Waits PROVE NothingHeldBack
<1> SUFFICES ASSUME ~busy, NEW m \in Messages, NEW i \in 1..Len(buffer), buffer[i] = <<m, Total(m)>>
             PROVE  FALSE
  BY DEF NothingHeldBack, Complete, Total
<1>1. /\ Line \in Seq(Unit) /\ buffer \in Seq(Unit) /\ Len(buffer) <= Len(Line)
      /\ \A n \in 1..Len(buffer) : Line[n] = buffer[n]
  BY BufferBegins
<1>2. Line # <<>> /\ Line[i] = <<m, Total(m)>> /\ Runs(Line) /\ OnTheWay(Line, header)
  BY <1>1 DEF ChannelInv, OnTheWay
<1> DEFINE a == Line[1][1]
           k == Line[1][2]
           u == Total(a) - k + 1
<1>3. Line[1] = <<a, k>> /\ a \in Messages
  <2>1. 1 \in DOMAIN Line
    BY <1>1, <1>2
  <2> QED BY <2>1, <1>1, LineIs
<1>4. /\ header = None => k = 1 /\ Len(buffer) < HeaderSize
      /\ header # None => header = a /\ k = HeaderSize + 1 /\ Len(buffer) < Size[a]
  BY <1>2 DEF OnTheWay, Awaited, Waits
<1>u. u = Total(a) - k + 1
  OBVIOUS
<1> HIDE DEF a, k, u
<1>5. \A n \in 1..u : Line[n] = <<a, k + n - 1>>
  BY <1>1, <1>2, <1>3, <1>u, MessageRuns
<1>6. Total(a) = HeaderSize + Size[a] /\ HeaderSize \in Nat \ {0} /\ Size[a] \in Nat \ {0}
  BY <1>3, TotalIs
<1>7. i \in 1..u /\ k + i - 1 # Total(a)
  <2>1. i \in Nat /\ i >= 1 /\ i <= Len(buffer) /\ Len(buffer) \in Nat
    BY <1>1
  <2>2. CASE header = None
    <3>1. k = 1 /\ i < HeaderSize
      BY <2>1, <2>2, <1>4, <1>6
    <3> QED BY <2>1, <3>1, <1>6, <1>u
  <2>3. CASE header # None
    <3>1. k = HeaderSize + 1 /\ i < Size[a]
      BY <2>1, <2>3, <1>4, <1>6
    <3>2. u = Size[a]
      BY <3>1, <1>6, <1>u
    <3>3. k + i - 1 = HeaderSize + i
      BY <2>1, <3>1, <1>6
    <3> QED BY <2>1, <3>1, <3>2, <3>3, <1>6
  <2> QED BY <2>2, <2>3
<1> QED BY <1>2, <1>5, <1>7

(***************************************************************************)
(* Nothing is forgotten at either end: what the encoder still holds is     *)
(* waited for by the WRITE event (cluster.cpp:817), and no message that    *)
(* has arrived whole waits in the decoder for another read (cmp.cpp:894);  *)
(* for any sizes of messages, header and buffers.                          *)
(***************************************************************************)
THEOREM NothingForgotten == ChannelSpec => [](RestIsArmed /\ NothingHeldBack)
<1>1. ChannelInit => RestIsArmed /\ Waits
  BY ChannelAssumption DEF ChannelInit, RestIsArmed, Waits
<1> QED BY <1>1, ChannelStep, ChannelFirst, ArmedStep, WaitsStep, WaitsMeans, PTL DEF ChannelSpec
=============================================================================
