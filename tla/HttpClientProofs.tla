-------------------------- MODULE HttpClientProofs --------------------------
(***************************************************************************)
(* What holds of HttpClient for any number of requests and attempts and    *)
(* any answers. For any application: no request is repeated more often     *)
(* than the client is allowed to. For a calm one, which does not send what *)
(* it does not know the connection for: it hears of its requests in their  *)
(* order, each with its own answer, and none is submitted without need.    *)
(***************************************************************************)
EXTENDS HttpClient, FiniteSetTheorems, WellFoundedInduction, TLAPS

Oldest(q) == Min(DOMAIN q)

\* a queue q after n requests: each of them is in it at most once
Queue(q, n) ==
  /\ IsFiniteSet(DOMAIN q) /\ DOMAIN q \subseteq Nat
  /\ \A i \in DOMAIN q : q[i] \in 1..n
  /\ \A i, j \in DOMAIN q : q[i] = q[j] => i = j

(***************************************************************************)
(* Queue q, the count a of attempts, n requests sent, the repetitions t    *)
(* and the number d of ends of connections: only the oldest request in the *)
(* queue has been repeated, and the count knows of each time.              *)
(***************************************************************************)
Counted(q, a, n, t, d) ==
  /\ n \in 0..Sends /\ d \in Nat /\ a \in Nat /\ a <= Attempts + d
  /\ Queue(q, n) /\ t \in Seq(1..n)
  /\ \A r \in 1..n : Times(r, t) <= Attempts + d
  /\ \A i \in DOMAIN q : Times(q[i], t) <= a /\ (i # Oldest(q) => Times(q[i], t) = 0)

Within(c, d) == Counted(c.requests, c.attempt, c.sent, c.retries, d)

HInv == Within(Now, drops)

(***************************************************************************)
(* Sequences and the queue.                                                *)
(***************************************************************************)
LEMMA TimesType ==
  ASSUME NEW S, NEW t \in Seq(S), NEW r
  PROVE  Times(r, t) \in Nat
<1>1. {k \in DOMAIN t : t[k] = r} \in SUBSET (1..Len(t)) /\ IsFiniteSet(1..Len(t))
  BY FS_Interval
<1> QED
  BY <1>1, FS_Subset, FS_CardinalityType DEF Times

\* one element more is one time more
LEMMA TimesAppend ==
  ASSUME NEW S, NEW t \in Seq(S), NEW x \in S, NEW r
  PROVE  Times(r, Append(t, x)) = IF x = r THEN Times(r, t) + 1 ELSE Times(r, t)
<1> DEFINE P(s) == {k \in DOMAIN s : s[k] = r}
<1>1. /\ DOMAIN t = 1..Len(t) /\ DOMAIN Append(t, x) = 1..(Len(t) + 1) /\ Len(t) \in Nat
      /\ Append(t, x)[Len(t) + 1] = x
      /\ \A k \in 1..Len(t) : Append(t, x)[k] = t[k]
  OBVIOUS
<1>2. P(Append(t, x)) = IF x = r THEN P(t) \cup {Len(t) + 1} ELSE P(t)
  <2>1. ASSUME NEW k
        PROVE  k \in P(Append(t, x)) <=> k \in P(t) \/ (x = r /\ k = Len(t) + 1)
    BY <1>1
  <2> QED
    BY <2>1
<1>3. IsFiniteSet(P(t)) /\ Len(t) + 1 \notin P(t)
  <2>1. P(t) \in SUBSET (1..Len(t)) /\ IsFiniteSet(1..Len(t))
    BY <1>1, FS_Interval
  <2>2. Len(t) + 1 \notin 1..Len(t)
    BY <1>1
  <2> QED
    BY <2>1, <2>2, FS_Subset
<1>4. Times(r, t) = Cardinality(P(t)) /\ Times(r, Append(t, x)) = Cardinality(P(Append(t, x)))
  BY DEF Times
<1> HIDE DEF P
<1>5. CASE x = r
  <2>1. Cardinality(P(t) \cup {Len(t) + 1}) = Cardinality(P(t)) + 1
    BY <1>3, FS_AddElement
  <2> QED
    BY <2>1, <1>2, <1>4, <1>5
<1>6. CASE x # r
  BY <1>2, <1>4, <1>6
<1> QED
  BY <1>5, <1>6

LEMMA TimesNone ==
  ASSUME NEW n \in Nat, NEW t \in Seq(1..n), NEW r \in Nat, r > n
  PROVE  Times(r, t) = 0
<1>1. \A k \in DOMAIN t : t[k] \in 1..n
  OBVIOUS
<1>2. {k \in DOMAIN t : t[k] = r} = {}
  BY <1>1
<1> QED
  BY <1>2, FS_EmptySet DEF Times

LEMMA OldestLeast ==
  ASSUME NEW q, DOMAIN q \subseteq Nat, DOMAIN q # {}
  PROVE  /\ Oldest(q) \in DOMAIN q /\ \A i \in DOMAIN q : Oldest(q) <= i
<1> DEFINE R == {ss \in Nat \X Nat : ss[1] < ss[2]}
<1>1. IsWellFoundedOn(R, Nat)
  BY NatLessThanWellFounded DEF OpToRel
<1>2. \A x, y \in Nat : ~(<<y, x>> \in R) => x <= y
  OBVIOUS
<1>3. \E x \in DOMAIN q : \A y \in DOMAIN q : ~(<<y, x>> \in R)
  <2> HIDE DEF R
  <2> QED
    BY <1>1, WFMin
<1>4. \E x \in DOMAIN q : \A y \in DOMAIN q : x <= y
  <2> HIDE DEF R
  <2> QED
    BY <1>2, <1>3
<1> QED
  BY <1>4 DEF Oldest, Min

(***************************************************************************)
(* What the handlers do to the queue.                                      *)
(***************************************************************************)
\* a repetition: of the oldest request, and counted
LEMMA Repeated ==
  ASSUME NEW q, NEW a, NEW n, NEW t, NEW d, Counted(q, a, n, t, d), DOMAIN q # {},
         NEW e \in Nat, d <= e, a + 1 <= Attempts + e
  PROVE  Counted(q, a + 1, n, Append(t, q[Oldest(q)]), e)
<1> DEFINE x == q[Oldest(q)]
           u == Append(t, x)
<1>1. /\ n \in 0..Sends /\ d \in Nat /\ a \in Nat /\ t \in Seq(1..n) /\ Queue(q, n)
      /\ Attempts \in Nat /\ n \in Nat
  BY HttpClientAssumption DEF Counted
<1>2. Oldest(q) \in DOMAIN q /\ x \in 1..n
  BY <1>1, OldestLeast DEF Queue
<1>3. u \in Seq(1..n)
  BY <1>1, <1>2
<1>4. \A r : Times(r, t) \in Nat /\ Times(r, u) = IF x = r THEN Times(r, t) + 1 ELSE Times(r, t)
  BY <1>1, <1>2, TimesType, TimesAppend
<1>5. Times(x, t) <= a
  BY <1>2 DEF Counted
<1>6. \A r \in 1..n : Times(r, u) <= Attempts + e
  <2> SUFFICES ASSUME NEW r \in 1..n
               PROVE  Times(r, u) <= Attempts + e
    OBVIOUS
  <2>1. Times(r, t) <= Attempts + d /\ Times(r, t) \in Nat
    BY <1>4 DEF Counted
  <2>2. CASE x = r
    BY <2>1, <2>2, <1>1, <1>4, <1>5
  <2>3. CASE x # r
    BY <2>1, <2>3, <1>1, <1>4
  <2> QED
    BY <2>2, <2>3
<1>7. \A i \in DOMAIN q : Times(q[i], u) <= a + 1 /\ (i # Oldest(q) => Times(q[i], u) = 0)
  <2> SUFFICES ASSUME NEW i \in DOMAIN q
               PROVE  Times(q[i], u) <= a + 1 /\ (i # Oldest(q) => Times(q[i], u) = 0)
    OBVIOUS
  <2>1. Times(q[i], t) <= a /\ (i # Oldest(q) => Times(q[i], t) = 0) /\ Times(q[i], t) \in Nat
    BY <1>4 DEF Counted
  <2>2. i # Oldest(q) => q[i] # x
    BY <1>1, <1>2 DEF Queue
  <2>3. CASE i = Oldest(q)
    BY <2>1, <2>3, <1>1, <1>4
  <2>4. CASE i # Oldest(q)
    <3>1. Times(q[i], u) = Times(q[i], t)
      BY <2>2, <2>4, <1>4
    <3> QED
      BY <2>1, <2>4, <3>1, <1>1
  <2> QED
    BY <2>3, <2>4
<1> HIDE DEF u
<1>8. a + 1 \in Nat
  BY <1>1
<1> QED
  BY <1>1, <1>3, <1>6, <1>7, <1>8 DEF Counted, u

\* the oldest request is answered, whether the count goes back to 0 or not
LEMMA Dequeued ==
  ASSUME NEW q, NEW a, NEW n, NEW t, NEW d, Counted(q, a, n, t, d), NEW b \in {0, a}
  PROVE  Counted([i \in DOMAIN q \ {Oldest(q)} |-> q[i]], b, n, t, d)
<1> DEFINE p == [i \in DOMAIN q \ {Oldest(q)} |-> q[i]]
<1>1. DOMAIN p = DOMAIN q \ {Oldest(q)} /\ \A i \in DOMAIN p : p[i] = q[i]
  OBVIOUS
<1> HIDE DEF p
<1>2. n \in 0..Sends /\ d \in Nat /\ a \in Nat /\ t \in Seq(1..n) /\ Attempts \in Nat
  BY HttpClientAssumption DEF Counted
<1>3. IsFiniteSet(DOMAIN p)
  <2>1. IsFiniteSet(DOMAIN q)
    BY DEF Counted, Queue
  <2> QED
    BY <2>1, <1>1, FS_RemoveElement
<1>4. Queue(p, n)
  BY <1>1, <1>3 DEF Counted, Queue
<1>5. \A i \in DOMAIN p : Times(p[i], t) = 0
  BY <1>1 DEF Counted
<1>6. b \in Nat /\ b <= Attempts + d
  BY <1>2 DEF Counted
<1>7. \A i \in DOMAIN p : Times(p[i], t) <= b /\ (i # Oldest(p) => Times(p[i], t) = 0)
  BY <1>5, <1>6
<1> QED
  BY <1>2, <1>4, <1>6, <1>7 DEF Counted, p

\* the queue goes with its connection
LEMMA Emptied ==
  ASSUME NEW q, NEW a, NEW n, NEW t, NEW d, Counted(q, a, n, t, d)
  PROVE  Counted(<<>>, a, n, t, d)
<1>1. DOMAIN <<>> = {}
  OBVIOUS
<1>2. Queue(<<>>, n)
  BY <1>1, FS_EmptySet DEF Queue
<1> QED
  BY <1>1, <1>2 DEF Counted

\* a connection ends, or the application sends what does not get into the queue
LEMMA Later ==
  ASSUME NEW q, NEW a, NEW n, NEW t, NEW d, Counted(q, a, n, t, d),
         NEW m \in 0..Sends, n <= m, NEW e \in Nat, d <= e
  PROVE  Counted(q, a, m, t, e)
<1>1. /\ n \in 0..Sends /\ d \in Nat /\ a \in Nat /\ t \in Seq(1..n) /\ Attempts \in Nat
      /\ Sends \in Nat
  BY HttpClientAssumption DEF Counted
<1>2. t \in Seq(1..m)
  <2>1. \A k \in 1..Len(t) : t[k] \in 1..m
    BY <1>1
  <2> QED
    BY <2>1, <1>1
<1>3. a <= Attempts + e
  BY <1>1 DEF Counted
<1>4. Queue(q, m)
  BY <1>1 DEF Counted, Queue
<1>5. \A r \in 1..m : Times(r, t) <= Attempts + e
  <2> SUFFICES ASSUME NEW r \in 1..m
               PROVE  Times(r, t) <= Attempts + e
    OBVIOUS
  <2>1. CASE r <= n
    <3>1. Times(r, t) <= Attempts + d /\ Times(r, t) \in Nat
      BY <2>1, <1>1, TimesType DEF Counted
    <3> QED
      BY <3>1, <1>1
  <2>2. CASE r > n
    <3>1. Times(r, t) = 0
      BY <2>2, <1>1, TimesNone
    <3> QED
      BY <3>1, <1>1
  <2> QED
    BY <2>1, <2>2, <1>1
<1> QED
  BY <1>1, <1>2, <1>3, <1>4, <1>5 DEF Counted

\* a new request in the queue, when nothing is being repeated
LEMMA Enqueued ==
  ASSUME NEW q, NEW n, NEW t, NEW d, Counted(q, 0, n, t, d), n + 1 <= Sends,
         NEW id \in Nat, id \notin DOMAIN q
  PROVE  Counted([i \in DOMAIN q \cup {id} |-> IF i = id THEN n + 1 ELSE q[i]], 0, n + 1, t, d)
<1> DEFINE p == [i \in DOMAIN q \cup {id} |-> IF i = id THEN n + 1 ELSE q[i]]
<1>1. /\ n \in 0..Sends /\ n + 1 \in 0..Sends /\ d \in Nat /\ t \in Seq(1..n) /\ n \in Nat
      /\ Attempts \in Nat /\ Queue(q, n)
  BY HttpClientAssumption DEF Counted
<1>2. Counted(q, 0, n + 1, t, d)
  BY <1>1, Later
<1>3. /\ DOMAIN p = DOMAIN q \cup {id} /\ p[id] = n + 1
      /\ \A i \in DOMAIN q : p[i] = q[i]
  OBVIOUS
<1> HIDE DEF p
<1>4. IsFiniteSet(DOMAIN p)
  BY <1>1, <1>3, FS_AddElement DEF Queue
<1>5. \A i \in DOMAIN p : p[i] \in 1..(n + 1)
  BY <1>1, <1>3 DEF Queue
<1>6. \A i, j \in DOMAIN p : p[i] = p[j] => i = j
  <2>1. \A i \in DOMAIN q : p[i] # p[id]
    BY <1>1, <1>3 DEF Queue
  <2> QED
    BY <2>1, <1>1, <1>3 DEF Queue
<1>7. Queue(p, n + 1)
  BY <1>1, <1>3, <1>4, <1>5, <1>6 DEF Queue
<1>8. \A i \in DOMAIN p : Times(p[i], t) = 0
  <2>1. Times(n + 1, t) = 0
    BY <1>1, TimesNone
  <2>2. ASSUME NEW i \in DOMAIN q
        PROVE  Times(q[i], t) = 0
    <3>1. Times(q[i], t) <= 0 /\ Times(q[i], t) \in Nat
      BY <1>1, TimesType DEF Counted
    <3> QED
      BY <3>1
  <2> QED
    BY <2>1, <2>2, <1>3
<1>9. \A i \in DOMAIN p : Times(p[i], t) <= 0 /\ (i # Oldest(p) => Times(p[i], t) = 0)
  BY <1>8
<1>10. Counted(p, 0, n + 1, t, d)
  BY <1>1, <1>2, <1>7, <1>9 DEF Counted
<1> QED
  BY <1>10 DEF p

(***************************************************************************)
(* What the handlers do to the state.                                      *)
(***************************************************************************)
Fields ==
  {"requests", "attempt", "stopped", "bid", "parser", "conn", "wire", "half", "sent", "ids",
   "given", "submitted", "retries", "results"}

IsState(c) == c = [f \in Fields |-> c[f]]

Good(c, d) == IsState(c) /\ Within(c, d)

\* what Counted looks at is the same
SameCounts(c, e) ==
  e.requests = c.requests /\ e.attempt = c.attempt /\ e.sent = c.sent /\ e.retries = c.retries

LEMMA SameGood ==
  ASSUME NEW c, NEW d, Within(c, d), NEW e, IsState(e), SameCounts(c, e)
  PROVE  Good(e, d)
BY DEF Within, SameCounts, Good

LEMMA SubmitGood ==
  ASSUME NEW c, NEW d, Good(c, d), NEW r
  PROVE  Good(Submit(c, r), d)
<1>1. IsState(Submit(c, r)) /\ SameCounts(c, Submit(c, r))
  BY DEF Good, IsState, Fields, SameCounts, Submit
<1> QED
  BY <1>1, SameGood DEF Good

\* the end of a connection on which nothing is repeated
LEMMA Disconnected ==
  ASSUME NEW c, IsState(c), ~Redirected(c), NEW u, u = Disconnect(c)
  PROVE  /\ IsState(u) /\ u.requests = <<>> /\ u.attempt = c.attempt
         /\ u.sent = c.sent /\ u.results = c.results /\ u.retries = c.retries
         /\ u.wire = <<>> /\ u.half = None /\ u.submitted = c.submitted
         /\ u.conn # "up" /\ u.parser = c.parser
<1> DEFINE k == [c EXCEPT !.wire = <<>>, !.half = None]
           m == [k EXCEPT !.requests = <<>>, !.given = @ \cup Queued(c)]
           Same(e) == /\ e.attempt = c.attempt /\ e.sent = c.sent /\ e.results = c.results
                      /\ e.retries = c.retries /\ e.submitted = c.submitted /\ e.parser = c.parser
                      /\ e.wire = <<>> /\ e.half = None
<1>1. u = IF env.alive THEN [m EXCEPT !.conn = "opening"]
          ELSE [m EXCEPT !.stopped = FALSE, !.bid = FALSE, !.conn = "down"]
  BY DEF Disconnect
<1>2. IsState(k)
  BY DEF IsState, Fields
<1>3. Same(k)
  BY DEF IsState, Fields
<1> HIDE DEF k
<1>4. IsState(m)
  BY <1>2 DEF IsState, Fields
<1>5. Same(m) /\ m.requests = <<>>
  BY <1>2, <1>3 DEF IsState, Fields
<1> HIDE DEF m
<1>6. CASE env.alive
  <2>1. u = [m EXCEPT !.conn = "opening"]
    BY <1>1, <1>6
  <2>2. IsState(u)
    BY <1>4, <2>1 DEF IsState, Fields
  <2>3. Same(u) /\ u.requests = <<>> /\ u.conn # "up"
    BY <1>4, <1>5, <2>1 DEF IsState, Fields
  <2> QED
    BY <2>2, <2>3
<1>7. CASE ~env.alive
  <2>1. u = [m EXCEPT !.stopped = FALSE, !.bid = FALSE, !.conn = "down"]
    BY <1>1, <1>7
  <2>2. IsState(u)
    BY <1>4, <2>1 DEF IsState, Fields
  <2>3. Same(u) /\ u.requests = <<>> /\ u.conn # "up"
    BY <1>4, <1>5, <2>1 DEF IsState, Fields
  <2> QED
    BY <2>2, <2>3
<1> QED
  BY <1>6, <1>7

\* a connection that ends counts as an attempt when a repetition was under way
LEMMA DisconnectGood ==
  ASSUME NEW c, NEW d, Good(c, d), NEW e \in Nat, d <= e,
         Redirected(c) => c.attempt + 1 <= Attempts + e
  PROVE  Good(Disconnect(c), e)
<1> DEFINE u == Disconnect(c)
<1>1. CASE Redirected(c)
  <2>1. /\ IsState(u) /\ u.requests = c.requests /\ u.attempt = c.attempt + 1
        /\ u.sent = c.sent /\ u.retries = Append(c.retries, c.requests[First(c)])
    BY <1>1 DEF Good, IsState, Fields, Disconnect
  <2>2. DOMAIN c.requests # {} /\ First(c) = Oldest(c.requests)
    BY <1>1 DEF Redirected, First, Oldest
  <2> HIDE DEF u
  <2>3. Counted(c.requests, c.attempt, c.sent, c.retries, d)
    BY DEF Good, Within
  <2>4. Counted(u.requests, u.attempt, u.sent, u.retries, e)
    BY <1>1, <2>1, <2>2, <2>3, Repeated
  <2> QED
    BY <2>1, <2>4 DEF Good, Within, u
<1>2. CASE ~Redirected(c)
  <2>1. /\ IsState(u) /\ u.requests = <<>> /\ u.attempt = c.attempt
        /\ u.sent = c.sent /\ u.retries = c.retries
    BY <1>2, Disconnected DEF Good
  <2> HIDE DEF u
  <2>2. Counted(<<>>, c.attempt, c.sent, c.retries, d) /\ c.sent \in 0..Sends
    BY Emptied DEF Good, Within, Counted
  <2>3. Counted(<<>>, c.attempt, c.sent, c.retries, e)
    BY <2>2, HttpClientAssumption, Later
  <2> QED
    BY <2>1, <2>3 DEF Good, Within, u
<1> QED
  BY <1>1, <1>2

LEMMA CloseCoreGood ==
  ASSUME NEW c, NEW d, Good(c, d), Redirected(c) => c.attempt + 1 <= Attempts + d
  PROVE  Good(CloseCore(c), d)
<1>1. d \in Nat /\ d <= d
  BY DEF Good, Within, Counted
<1> QED
  BY <1>1, DisconnectGood DEF CloseCore

\* send() of the next request, or of a request again
LEMMA SendGood ==
  ASSUME NEW c, NEW d, Good(c, d), NEW n \in 0..Sends,
         c.sent <= n, c.attempt = 0 => n = c.sent + 1
  PROVE  Good(Send(c, n), d)
<1>0. IsState(c)
  BY DEF Good
<1>1. /\ Counted(c.requests, c.attempt, c.sent, c.retries, d)
      /\ c.sent \in 0..Sends /\ d \in Nat /\ d <= d
  BY DEF Good, Within, Counted
<1>2. Counted(c.requests, c.attempt, n, c.retries, d)
  BY <1>1, Later
<1>3. CASE c.attempt = 0
  <2> DEFINE id == Count(c) + 1
             queue == IF id \in DOMAIN c.requests THEN c.requests
                      ELSE [i \in DOMAIN c.requests \cup {id} |->
                              IF i = id THEN n ELSE c.requests[i]]
             kept == [c EXCEPT !.requests = queue, !.ids[n] = id, !.sent = n]
  <2>1. id \in Nat
    BY <1>1, FS_CardinalityType DEF Count, Counted, Queue
  <2>2. Counted(queue, 0, n, c.retries, d)
    <3>1. CASE id \in DOMAIN c.requests
      BY <1>2, <1>3, <3>1
    <3>2. CASE id \notin DOMAIN c.requests
      <4>1. n = c.sent + 1 /\ n <= Sends
        BY <1>3
      <4> HIDE DEF id
      <4>2. Counted([i \in DOMAIN c.requests \cup {id} |->
                       IF i = id THEN c.sent + 1 ELSE c.requests[i]],
                    0, c.sent + 1, c.retries, d)
        BY <1>1, <1>3, <2>1, <3>2, <4>1, Enqueued
      <4> QED
        BY <3>2, <4>1, <4>2
    <3> QED
      BY <3>1, <3>2
  <2> HIDE DEF queue, id
  <2>3. /\ IsState(kept) /\ kept.requests = queue /\ kept.attempt = 0 /\ kept.sent = n
        /\ kept.retries = c.retries
    BY <1>0, <1>3 DEF IsState, Fields
  <2>4. Send(c, n) = IF Count(kept) = 1 THEN Submit(kept, n) ELSE kept
    BY <1>3 DEF Send, queue, id
  <2> HIDE DEF kept
  <2>5. Good(kept, d)
    BY <2>2, <2>3 DEF Good, Within
  <2> QED
    BY <2>4, <2>5, SubmitGood
<1>4. CASE c.attempt # 0 /\ DOMAIN c.requests # {}
  <2> DEFINE u == [c EXCEPT !.ids[n] = IF n > c.sent THEN Count(c) ELSE @, !.sent = n]
  <2>1. /\ IsState(u) /\ u.requests = c.requests /\ u.attempt = c.attempt /\ u.sent = n
        /\ u.retries = c.retries
    BY <1>0 DEF IsState, Fields
  <2>2. Send(c, n) = Submit(u, c.requests[First(c)])
    BY <1>4 DEF Send
  <2> HIDE DEF u
  <2>3. Good(u, d)
    BY <1>2, <2>1 DEF Good, Within
  <2> QED
    BY <2>2, <2>3, SubmitGood
<1>5. CASE c.attempt # 0 /\ DOMAIN c.requests = {}
  <2> DEFINE u == [c EXCEPT !.sent = n]
  <2>1. /\ IsState(u) /\ u.requests = c.requests /\ u.attempt = c.attempt /\ u.sent = n
        /\ u.retries = c.retries
    BY <1>0 DEF IsState, Fields
  <2>2. Send(c, n) = CloseCore(u)
    BY <1>5 DEF Send
  <2> HIDE DEF u
  <2>3. Good(u, d) /\ ~Redirected(u)
    BY <1>2, <1>5, <2>1 DEF Good, Within, Redirected
  <2> QED
    BY <2>2, <2>3, CloseCoreGood
<1> QED
  BY <1>3, <1>4, <1>5

\* result(): k is the count before the answer
LEMMA ResultGood ==
  ASSUME NEW c, NEW d, IsState(c), NEW k, Counted(c.requests, k, c.sent, c.retries, d),
         c.attempt \in {0, k}, NEW a
  PROVE  /\ Good(Result(c, a), d)
         /\ Result(c, a).parser = c.parser /\ Result(c, a).stopped = c.stopped
<1> DEFINE u == Result(c, a)
           rest == [i \in DOMAIN c.requests \ {Oldest(c.requests)} |-> c.requests[i]]
<1>1. First(c) = Oldest(c.requests)
  BY DEF First, Oldest
<1>2. /\ IsState(u) /\ u.requests = rest /\ u.attempt = c.attempt /\ u.sent = c.sent
      /\ u.retries = c.retries /\ u.parser = c.parser /\ u.stopped = c.stopped
  BY <1>1 DEF IsState, Fields, Result
<1>3. Counted(rest, c.attempt, c.sent, c.retries, d)
  BY Dequeued
<1> HIDE DEF u, rest
<1>4. Good(u, d)
  BY <1>2, <1>3 DEF Good, Within
<1> QED
  BY <1>2, <1>4 DEF u

LEMMA RepeatGood ==
  ASSUME NEW c, NEW d, Good(c, d), DOMAIN c.requests # {}, c.attempt < Attempts,
         NEW a, NEW here
  PROVE  Good(Repeat(c, a, here), d)
<1> DEFINE r == c.requests[First(c)]
           u == [c EXCEPT !.attempt = @ + 1, !.retries = Append(@, r)]
           v == [c EXCEPT !.stopped = FALSE]
<1>1. /\ Counted(c.requests, c.attempt, c.sent, c.retries, d) /\ IsState(c)
      /\ d \in Nat /\ d <= d /\ c.attempt \in Nat /\ Attempts \in Nat
  BY HttpClientAssumption DEF Good, Within, Counted
<1>2. c.attempt + 1 <= Attempts + d
  BY <1>1
<1>3. First(c) = Oldest(c.requests)
  BY DEF First, Oldest
<1>4. Good(u, d)
  <2>1. Counted(c.requests, c.attempt + 1, c.sent, Append(c.retries, r), d)
    BY <1>1, <1>2, <1>3, Repeated
  <2> HIDE DEF r
  <2>2. /\ IsState(u) /\ u.requests = c.requests /\ u.attempt = c.attempt + 1
        /\ u.sent = c.sent /\ u.retries = Append(c.retries, r)
    BY <1>1 DEF IsState, Fields
  <2> QED
    BY <2>1, <2>2 DEF Good, Within
<1>5. Good(v, d) /\ v.attempt = c.attempt
  <2>1. IsState(v) /\ SameCounts(c, v)
    BY <1>1 DEF IsState, Fields, SameCounts
  <2> QED
    BY <2>1, SameGood DEF Good, SameCounts
<1>6. Repeat(c, a, here) = IF a.alive /\ here THEN Submit(u, r) ELSE CloseCore(v)
  BY DEF Repeat
<1> HIDE DEF u, v, r
<1>7. Good(Submit(u, r), d)
  BY <1>4, SubmitGood
<1>8. Good(CloseCore(v), d)
  BY <1>2, <1>5, CloseCoreGood
<1> QED
  BY <1>6, <1>7, <1>8

\* an answer that is not repeated: the connection it may close does not repeat it either
LEMMA PreparedGood ==
  ASSUME NEW c, NEW d, Good(c, d), NEW a, c.parser = a
  PROVE  Good(Prepared(c, a), d)
<1> DEFINE u == [c EXCEPT !.stopped = TRUE]
           v == [c EXCEPT !.attempt = 0]
<1>1. Counted(c.requests, c.attempt, c.sent, c.retries, d) /\ IsState(c)
  BY DEF Good, Within
<1>2. /\ IsState(u) /\ u.requests = c.requests /\ u.attempt = c.attempt /\ u.sent = c.sent
      /\ u.retries = c.retries /\ u.stopped = TRUE
  BY <1>1 DEF IsState, Fields
<1>3. /\ IsState(v) /\ v.requests = c.requests /\ v.attempt = 0 /\ v.sent = c.sent
      /\ v.retries = c.retries /\ v.parser = a
  BY <1>1 DEF IsState, Fields
<1> HIDE DEF u, v
<1>4. Good(Result(u, a), d) /\ ~Redirected(Result(u, a))
  <2>1. Good(Result(u, a), d) /\ Result(u, a).stopped = TRUE
    BY <1>1, <1>2, ResultGood
  <2> QED
    BY <2>1 DEF Redirected
<1>5. Good(Result(v, a), d) /\ Result(v, a).parser = a
  BY <1>1, <1>3, ResultGood
<1>6. CASE Retry(a)
  <2>1. Prepared(c, a) = CloseCore(Result(u, a))
    BY <1>6 DEF Prepared, u
  <2> QED
    BY <2>1, <1>4, CloseCoreGood
<1>7. CASE ~Retry(a) /\ Fault(a)
  <2>1. Prepared(c, a) = Result(u, a)
    BY <1>7 DEF Prepared, u
  <2> QED
    BY <2>1, <1>4
<1>8. CASE ~Retry(a) /\ ~Fault(a)
  <2>1. Prepared(c, a) = IF a.alive THEN Result(v, a) ELSE CloseCore(Result(v, a))
    BY <1>8 DEF Prepared, v
  <2>2. ~Redirected(Result(v, a))
    BY <1>5, <1>8 DEF Redirected, Retry
  <2> QED
    BY <2>1, <2>2, <1>5, CloseCoreGood
<1> QED
  BY <1>6, <1>7, <1>8

LEMMA CallbackGood ==
  ASSUME NEW c, NEW d, Good(c, d), NEW e \in Callback(c)
  PROVE  Good(e, d)
<1>1. CASE e = c
  BY <1>1
<1>2. CASE e # c
  <2>1. MaySend(c) /\ e = Send(c, c.sent + 1)
    BY <1>2 DEF Callback
  <2>2. c.sent \in 0..Sends /\ c.sent < Sends /\ Sends \in Nat
    BY <2>1, HttpClientAssumption DEF MaySend, Good, Within, Counted
  <2>3. c.sent + 1 \in 0..Sends /\ c.sent <= c.sent + 1
    BY <2>2
  <2> QED
    BY <2>1, <2>3, SendGood
<1> QED
  BY <1>1, <1>2

LEMMA FinishedGood ==
  ASSUME NEW c, NEW d, Good(c, d), NEW a
  PROVE  Good(Finished(c, a), d)
<1> DEFINE u == [c EXCEPT !.parser = None]
<1>1. IsState(u) /\ SameCounts(c, u)
  BY DEF Good, IsState, Fields, SameCounts
<1>2. Good(u, d)
  BY <1>1, SameGood DEF Good
<1>3. Finished(c, a) = u \/ Finished(c, a) = Submit(u, c.requests[First(c)])
  BY DEF Finished
<1> HIDE DEF u
<1> QED
  BY <1>2, <1>3, SubmitGood

LEMMA CompletedGood ==
  ASSUME NEW c, NEW d, Good(c, d), DOMAIN c.requests # {}, NEW a, c.parser = a,
         NEW e \in Completed(c, a)
  PROVE  Good(e, d)
<1>1. CASE Retry(a) /\ c.attempt < Attempts
  <2>1. PICK here : e = Repeat(c, a, here)
    BY <1>1 DEF Completed
  <2> QED
    BY <2>1, <1>1, RepeatGood
<1>2. CASE ~(Retry(a) /\ c.attempt < Attempts)
  <2>1. PICK b \in Callback(Prepared(c, a)) : e = Finished(b, a)
    BY <1>2 DEF Completed
  <2>2. Good(b, d)
    BY PreparedGood, CallbackGood
  <2> QED
    BY <2>1, <2>2, FinishedGood
<1> QED
  BY <1>1, <1>2

(***************************************************************************)
(* The steps.                                                              *)
(***************************************************************************)
LEMMA NowGood ==
  ASSUME HInv
  PROVE  Good(Now, drops)
<1>1. IsState(Now)
  BY DEF IsState, Fields, Now
<1> QED
  BY <1>1 DEF Good, HInv

LEMMA BecomesGood ==
  ASSUME NEW c, Becomes(c), Good(c, drops')
  PROVE  HInv'
BY DEF Becomes, Good, Within, HInv, Now

LEMMA ReceiveGood ==
  ASSUME HInv, NEW a, Receive(a), drops' = drops
  PROVE  HInv'
<1> DEFINE c == [Now EXCEPT !.wire = Answered(a), !.half = None]
           p == [c EXCEPT !.parser = a]
<1>1. Good(Now, drops) /\ Now.requests = requests
  BY NowGood DEF Now
<1>2. IsState(c) /\ SameCounts(Now, c)
  BY <1>1 DEF Good, IsState, Fields, SameCounts
<1>3. Good(c, drops)
  BY <1>1, <1>2, SameGood DEF Good
<1>4. \/ Becomes(c)
      \/ DOMAIN requests # {} /\ \E e \in Completed(p, a) : Becomes(e)
  BY DEF Receive
<1>5. c.requests = requests
  BY <1>1, <1>2 DEF SameCounts
<1> HIDE DEF c
<1>6. IsState(p) /\ SameCounts(c, p) /\ p.parser = a
  BY <1>3 DEF Good, IsState, Fields, SameCounts
<1>7. Good(p, drops) /\ p.requests = requests
  BY <1>3, <1>5, <1>6, SameGood DEF Good, SameCounts
<1> HIDE DEF p
<1>8. CASE Becomes(c)
  BY <1>3, <1>8, BecomesGood
<1>9. CASE DOMAIN requests # {} /\ \E e \in Completed(p, a) : Becomes(e)
  <2>1. PICK e \in Completed(p, a) : Becomes(e)
    BY <1>9
  <2>2. Good(e, drops)
    BY <1>6, <1>7, <1>9, CompletedGood
  <2> QED
    BY <2>1, <2>2, BecomesGood
<1> QED
  BY <1>4, <1>8, <1>9

LEMMA ConnectGood ==
  ASSUME HInv, Connect
  PROVE  HInv'
<1> DEFINE c == [Now EXCEPT !.conn = "up", !.bid = TRUE]
<1>1. /\ Good(Now, drops) /\ Now.sent = sent /\ Now.attempt = attempt /\ drops' = drops
  BY NowGood DEF Now, Connect
<1>2. IsState(c) /\ SameCounts(Now, c)
  BY <1>1 DEF Good, IsState, Fields, SameCounts
<1>3. Good(c, drops) /\ c.sent = sent /\ c.attempt = attempt
  BY <1>1, <1>2, SameGood DEF Good, SameCounts
<1>4. Becomes(IF attempt > 0 /\ DOMAIN requests # {} THEN Send(c, sent)
              ELSE IF sent < Sends THEN Send(c, sent + 1) ELSE c)
  BY DEF Connect
<1> HIDE DEF c
<1>5. sent \in 0..Sends /\ attempt \in Nat /\ Sends \in Nat
  BY <1>3, HttpClientAssumption DEF Good, Within, Counted
<1>6. CASE attempt > 0 /\ DOMAIN requests # {}
  <2>1. Good(Send(c, sent), drops)
    BY <1>3, <1>5, <1>6, SendGood
  <2> QED
    BY <1>1, <1>4, <1>6, <2>1, BecomesGood
<1>7. CASE ~(attempt > 0 /\ DOMAIN requests # {}) /\ sent < Sends
  <2>1. sent + 1 \in 0..Sends /\ sent <= sent + 1
    BY <1>5, <1>7
  <2>2. Good(Send(c, sent + 1), drops)
    BY <1>3, <2>1, SendGood
  <2> QED
    BY <1>1, <1>4, <1>7, <2>2, BecomesGood
<1>8. CASE ~(attempt > 0 /\ DOMAIN requests # {}) /\ ~(sent < Sends)
  BY <1>1, <1>3, <1>4, <1>8, BecomesGood
<1> QED
  BY <1>6, <1>7, <1>8

LEMMA HInvInit == Init => HInv
<1> SUFFICES ASSUME Init
             PROVE  HInv
  OBVIOUS
<1>1. requests = <<>> /\ attempt = 0 /\ sent = 0 /\ retries = <<>> /\ drops = 0
  BY DEF Init
<1>2. Queue(<<>>, 0) /\ DOMAIN <<>> = {}
  BY FS_EmptySet DEF Queue
<1>3. Counted(<<>>, 0, 0, <<>>, 0)
  BY <1>2, HttpClientAssumption DEF Counted
<1> QED
  BY <1>1, <1>3 DEF HInv, Within, Now

LEMMA HInvStep == HInv /\ [Next]_vars => HInv'
<1> SUFFICES ASSUME HInv, [Next]_vars
             PROVE  HInv'
  OBVIOUS
<1>1. Good(Now, drops) /\ Now.sent = sent
  BY NowGood DEF Now
<1>2. drops \in Nat
  BY <1>1 DEF Good, Within, Counted
<1>3. CASE Connect
  BY <1>3, ConnectGood
<1>4. CASE AppSend
  <2>1. Becomes(Send(Now, sent + 1)) /\ drops' = drops /\ Send(Now, sent + 1) \in Callback(Now)
    BY <1>1, <1>4 DEF AppSend, Callback
  <2>2. Good(Send(Now, sent + 1), drops)
    BY <1>1, <2>1, CallbackGood
  <2> QED
    BY <2>1, <2>2, BecomesGood
<1>5. CASE Answer
  <2>1. drops' = drops /\ \E a : Receive(a)
    BY <1>5 DEF Answer
  <2> QED
    BY <2>1, ReceiveGood
<1>6. CASE SecondPart
  <2>1. drops' = drops /\ Receive(half)
    BY <1>6 DEF SecondPart
  <2> QED
    BY <2>1, ReceiveGood
<1>7. CASE FirstPart
  BY <1>7 DEF FirstPart, HInv, Within, Now
<1>8. CASE Astray
  BY <1>8 DEF Astray, HInv, Within, Now
<1>9. CASE Drop
  <2>1. Becomes(Disconnect(Now)) /\ drops' = drops + 1
    BY <1>9 DEF Drop
  <2>2. drops + 1 \in Nat /\ drops <= drops + 1
    BY <1>2
  <2>3. Now.attempt + 1 <= Attempts + (drops + 1)
    BY <1>1, <1>2, HttpClientAssumption DEF Good, Within, Counted
  <2>4. Good(Disconnect(Now), drops + 1)
    BY <1>1, <2>2, <2>3, DisconnectGood
  <2> QED
    BY <2>1, <2>4, BecomesGood
<1>10. CASE UNCHANGED vars
  BY <1>10 DEF vars, HInv, Within, Now
<1> QED
  BY <1>3, <1>4, <1>5, <1>6, <1>7, <1>8, <1>9, <1>10 DEF Next

\* No request is repeated more than Attempts times, apart from connections that ended,
\* however many requests there are, whatever the server answers and whenever the
\* application sends.
THEOREM RepeatsEnd == Spec => []AttemptsEnd
<1>1. HInv => AttemptsEnd
  <2> SUFFICES ASSUME HInv, NEW r \in Requests
               PROVE  Times(r, retries) <= Attempts + drops
    BY DEF AttemptsEnd
  <2>1. /\ sent \in 0..Sends /\ retries \in Seq(1..sent) /\ drops \in Nat
        /\ Attempts \in Nat /\ Sends \in Nat
        /\ \A n \in 1..sent : Times(n, retries) <= Attempts + drops
    BY HttpClientAssumption DEF HInv, Within, Counted, Now
  <2>2. CASE r <= sent
    BY <2>1, <2>2 DEF Requests
  <2>3. CASE r > sent
    <3>1. Times(r, retries) = 0
      BY <2>1, <2>3, TimesNone DEF Requests
    <3> QED
      BY <2>1, <3>1
  <2> QED
    BY <2>1, <2>2, <2>3 DEF Requests
<1> QED
  BY <1>1, HInvInit, HInvStep, PTL DEF Spec
(***************************************************************************)
(* A calm application: queue q, answers p told, requests s submitted and t *)
(* repeated after n requests.                                              *)
(***************************************************************************)
\* the queue is in the order of sending
Line(q, n) ==
  /\ IsFiniteSet(DOMAIN q) /\ DOMAIN q \subseteq Nat \ {0}
  /\ \A i \in DOMAIN q : q[i] \in 1..n
  /\ \A i, j \in DOMAIN q : i < j => q[i] < q[j]

\* what was told is about older requests than the queue
Told(p, q, n) ==
  /\ p \in Seq([request : 1..n, answer : 1..n])
  /\ \A k \in DOMAIN p : p[k].answer = p[k].request
  /\ \A j, k \in DOMAIN p : j < k => p[j].request < p[k].request
  /\ \A k \in DOMAIN p, i \in DOMAIN q : p[k].request < q[i]

\* of the queue only the oldest was ever submitted
Sparing(q, s, t, n) ==
  /\ s \in Seq(1..n) /\ t \in Seq(1..n)
  /\ \A r \in 1..n : Times(r, s) <= 1 + Times(r, t)
  /\ \A i \in DOMAIN q : i # Oldest(q) => Times(q[i], s) = 0

\* the oldest may be submitted
Fresh(q, s, t) == DOMAIN q # {} => Times(q[Oldest(q)], s) <= Times(q[Oldest(q)], t)

Orderly(c) ==
  /\ IsState(c) /\ c.sent \in 0..Sends /\ c.attempt \in Nat
  /\ Line(c.requests, c.sent) /\ Told(c.results, c.requests, c.sent)
  /\ Sparing(c.requests, c.submitted, c.retries, c.sent)

\* nothing is queued
Idle(c) ==
  /\ DOMAIN c.requests = {} /\ c.wire = <<>> /\ c.half = None /\ (c.conn = "up" => c.bid)

\* the oldest request is on its way
Busy(c) ==
  /\ DOMAIN c.requests # {} /\ c.conn \in {"up", "astray"} /\ c.bid
  /\ c.wire = <<c.requests[Oldest(c.requests)]>>
  /\ c.half = None \/ (c.half.to = Head(c.wire) /\ c.half.code \in env.codes)

\* it is to be submitted on the next connection
Again(c) ==
  /\ DOMAIN c.requests # {} /\ c.conn = "opening" /\ c.wire = <<>> /\ c.half = None
  /\ c.attempt > 0 /\ Fresh(c.requests, c.submitted, c.retries)

Steady(c) == Orderly(c) /\ (Idle(c) \/ Busy(c) \/ Again(c))

CalmInv == env \in Environments /\ (Calm => Steady(Now))

\* the oldest of a queue is the one no other is before
LEMMA OldestIs ==
  ASSUME NEW q, DOMAIN q \subseteq Nat, NEW o \in DOMAIN q, \A i \in DOMAIN q : o <= i
  PROVE  Oldest(q) = o
<1>1. Oldest(q) \in DOMAIN q /\ Oldest(q) <= o
  BY OldestLeast
<1>2. o <= Oldest(q)
  BY <1>1
<1>3. o \in Nat /\ Oldest(q) \in Nat
  BY <1>1
<1> QED
  BY <1>1, <1>2, <1>3

\* the oldest is submitted
LEMMA SubmittedOnce ==
  ASSUME NEW q, NEW n \in Nat, NEW s, NEW t,
         Line(q, n), Sparing(q, s, t, n), Fresh(q, s, t), DOMAIN q # {}
  PROVE  Sparing(q, Append(s, q[Oldest(q)]), t, n)
<1> DEFINE x == q[Oldest(q)]
           u == Append(s, x)
<1>1. s \in Seq(1..n) /\ t \in Seq(1..n) /\ DOMAIN q \subseteq Nat
  BY DEF Sparing, Line
<1>2. Oldest(q) \in DOMAIN q /\ x \in 1..n
  BY <1>1, OldestLeast DEF Line
<1>3. u \in Seq(1..n)
  BY <1>1, <1>2
<1>4. \A r : /\ Times(r, s) \in Nat /\ Times(r, t) \in Nat
             /\ Times(r, u) = IF x = r THEN Times(r, s) + 1 ELSE Times(r, s)
  BY <1>1, <1>2, TimesType, TimesAppend
<1>5. Times(x, s) <= Times(x, t)
  BY DEF Fresh
<1>6. \A i \in DOMAIN q : i # Oldest(q) => q[i] # x
  <2> SUFFICES ASSUME NEW i \in DOMAIN q, i # Oldest(q)
               PROVE  q[i] # x
    OBVIOUS
  <2>1. Oldest(q) < i
    <3>1. Oldest(q) <= i /\ i \in Nat /\ Oldest(q) \in Nat
      BY <1>1, <1>2, OldestLeast
    <3> QED
      BY <3>1
  <2>2. x < q[i] /\ q[i] \in 1..n
    BY <2>1, <1>2 DEF Line
  <2> QED
    BY <2>2, <1>2
<1> HIDE DEF u, x
<1>7. \A r \in 1..n : Times(r, u) <= 1 + Times(r, t)
  <2> SUFFICES ASSUME NEW r \in 1..n
               PROVE  Times(r, u) <= 1 + Times(r, t)
    OBVIOUS
  <2>1. Times(r, s) <= 1 + Times(r, t)
    BY DEF Sparing
  <2>2. CASE x = r
    BY <2>2, <1>4, <1>5
  <2>3. CASE x # r
    BY <2>1, <2>3, <1>4
  <2> QED
    BY <2>2, <2>3
<1>8. \A i \in DOMAIN q : i # Oldest(q) => Times(q[i], u) = 0
  BY <1>4, <1>6 DEF Sparing
<1> QED
  BY <1>1, <1>3, <1>7, <1>8 DEF Sparing, u, x

\* a repetition of the oldest is noted
LEMMA RepeatedOnce ==
  ASSUME NEW q, NEW n \in Nat, NEW s, NEW t, Line(q, n), Sparing(q, s, t, n), DOMAIN q # {}
  PROVE  /\ Sparing(q, s, Append(t, q[Oldest(q)]), n)
         /\ Fresh(q, s, Append(t, q[Oldest(q)]))
<1> DEFINE x == q[Oldest(q)]
           u == Append(t, x)
<1>1. s \in Seq(1..n) /\ t \in Seq(1..n) /\ DOMAIN q \subseteq Nat
  BY DEF Sparing, Line
<1>2. Oldest(q) \in DOMAIN q /\ x \in 1..n
  BY <1>1, OldestLeast DEF Line
<1>3. u \in Seq(1..n)
  BY <1>1, <1>2
<1>4. \A r : /\ Times(r, s) \in Nat /\ Times(r, t) \in Nat
             /\ Times(r, u) = IF x = r THEN Times(r, t) + 1 ELSE Times(r, t)
  BY <1>1, <1>2, TimesType, TimesAppend
<1>5. Times(x, s) <= Times(x, u)
  <2>1. Times(x, s) <= 1 + Times(x, t)
    BY <1>2 DEF Sparing
  <2> QED
    BY <2>1, <1>4
<1> HIDE DEF u, x
<1>6. \A r \in 1..n : Times(r, s) <= 1 + Times(r, u)
  <2> SUFFICES ASSUME NEW r \in 1..n
               PROVE  Times(r, s) <= 1 + Times(r, u)
    OBVIOUS
  <2>1. Times(r, s) <= 1 + Times(r, t)
    BY DEF Sparing
  <2> QED
    BY <2>1, <1>4
<1> QED
  BY <1>1, <1>3, <1>5, <1>6 DEF Sparing, Fresh, u, x

\* the oldest is answered
LEMMA AnsweredOnce ==
  ASSUME NEW q, NEW n \in Nat, NEW p, NEW s, NEW t, NEW x, NEW z,
         Line(q, n), Told(p, q, n), Sparing(q, s, t, n), DOMAIN q # {}, x = q[Oldest(q)],
         DOMAIN z = DOMAIN q \ {Oldest(q)}, \A i \in DOMAIN z : z[i] = q[i]
  PROVE  /\ Line(z, n) /\ Sparing(z, s, t, n) /\ Fresh(z, s, t) /\ 1 \notin DOMAIN z
         /\ Told(Append(p, [request |-> x, answer |-> x]), z, n)
<1>1. /\ s \in Seq(1..n) /\ t \in Seq(1..n) /\ DOMAIN q \subseteq Nat \ {0}
      /\ IsFiniteSet(DOMAIN q)
  BY DEF Sparing, Line
<1>2. Oldest(q) \in DOMAIN q /\ x \in 1..n /\ \A i \in DOMAIN q : Oldest(q) <= i
  BY <1>1, OldestLeast DEF Line
<1>3. DOMAIN z = DOMAIN q \ {Oldest(q)} /\ \A i \in DOMAIN z : z[i] = q[i]
  OBVIOUS
<1>4. \A i \in DOMAIN z : i \in DOMAIN q /\ Oldest(q) < i /\ x < z[i] /\ z[i] \in 1..n
  <2> SUFFICES ASSUME NEW i \in DOMAIN z
               PROVE  i \in DOMAIN q /\ Oldest(q) < i /\ x < z[i] /\ z[i] \in 1..n
    OBVIOUS
  <2>1. i \in DOMAIN q /\ Oldest(q) < i /\ z[i] = q[i]
    BY <1>1, <1>2, <1>3
  <2> QED
    BY <2>1, <1>2 DEF Line
<1>5. Line(z, n)
  <2>1. IsFiniteSet(DOMAIN z)
    BY <1>1, <1>3, FS_RemoveElement
  <2> QED
    BY <2>1, <1>1, <1>3, <1>4 DEF Line
<1>6. \A i \in DOMAIN z : Times(z[i], s) = 0
  BY <1>3 DEF Sparing
<1>7. Sparing(z, s, t, n)
  BY <1>6 DEF Sparing
<1>8. Fresh(z, s, t)
  <2> SUFFICES ASSUME DOMAIN z # {}
               PROVE  Times(z[Oldest(z)], s) <= Times(z[Oldest(z)], t)
    BY DEF Fresh
  <2>1. Oldest(z) \in DOMAIN z
    BY <1>5, OldestLeast DEF Line
  <2>2. Times(z[Oldest(z)], s) = 0 /\ Times(z[Oldest(z)], t) \in Nat
    BY <2>1, <1>1, <1>6, TimesType
  <2> QED
    BY <2>2
<1>9. 1 \notin DOMAIN z
  BY <1>1, <1>2, <1>4
<1>10. Told(Append(p, [request |-> x, answer |-> x]), z, n)
  <2> DEFINE e == [request |-> x, answer |-> x]
             S == [request : 1..n, answer : 1..n]
             u == Append(p, e)
  <2>1. e \in S /\ e.request = x /\ e.answer = x
    BY <1>2
  <2>2. p \in Seq(S)
    BY DEF Told
  <2> HIDE DEF e, S
  <2>3. /\ u \in Seq(S) /\ DOMAIN u = 1..(Len(p) + 1) /\ Len(p) \in Nat
        /\ DOMAIN p = 1..Len(p)
        /\ u[Len(p) + 1] = e /\ \A k \in DOMAIN p : u[k] = p[k]
    BY <2>1, <2>2
  <2> HIDE DEF u
  <2>4. \A k \in DOMAIN p : p[k].request < x /\ p[k].request \in 1..n
    <3>1. \A k \in DOMAIN p : p[k] \in S
      BY <2>2
    <3>2. \A k \in DOMAIN p : p[k].request \in 1..n
      BY <3>1 DEF S
    <3>3. \A k \in DOMAIN p : p[k].request < x
      BY <1>2 DEF Told
    <3> QED
      BY <3>2, <3>3
  <2>5. \A k \in DOMAIN u : k \in DOMAIN p \/ k = Len(p) + 1
    BY <2>3
  <2>6. \A k \in DOMAIN u : u[k].answer = u[k].request
    BY <2>1, <2>3, <2>5 DEF Told
  <2>7. \A j, k \in DOMAIN u : j < k => u[j].request < u[k].request
    <3> SUFFICES ASSUME NEW j \in DOMAIN u, NEW k \in DOMAIN u, j < k
                 PROVE  u[j].request < u[k].request
      OBVIOUS
    <3>1. j \in DOMAIN p
      BY <2>3
    <3>2. CASE k \in DOMAIN p
      BY <2>3, <3>1, <3>2 DEF Told
    <3>3. CASE k = Len(p) + 1
      BY <2>1, <2>3, <2>4, <3>1, <3>3
    <3> QED
      BY <2>5, <3>2, <3>3
  <2>8. \A k \in DOMAIN u, i \in DOMAIN z : u[k].request < z[i]
    <3> SUFFICES ASSUME NEW k \in DOMAIN u, NEW i \in DOMAIN z
                 PROVE  u[k].request < z[i]
      OBVIOUS
    <3>1. CASE k \in DOMAIN p
      BY <1>3, <1>4, <2>3, <3>1 DEF Told
    <3>2. CASE k = Len(p) + 1
      BY <1>4, <2>1, <2>3, <3>2
    <3> QED
      BY <2>5, <3>1, <3>2
  <2>9. Told(u, z, n)
    BY <2>3, <2>6, <2>7, <2>8 DEF Told, S
  <2> QED
    BY <2>9 DEF u, e
<1> QED
  BY <1>5, <1>7, <1>8, <1>9, <1>10

\* the queue goes with its connection
LEMMA NoneQueued ==
  ASSUME NEW q, NEW n \in Nat, NEW p, NEW s, NEW t, Line(q, n), Told(p, q, n),
         Sparing(q, s, t, n)
  PROVE  Line(<<>>, n) /\ Told(p, <<>>, n) /\ Sparing(<<>>, s, t, n)
<1>1. DOMAIN <<>> = {} /\ IsFiniteSet({})
  BY FS_EmptySet
<1> QED
  BY <1>1 DEF Line, Told, Sparing

\* one more request is sent
LEMMA OneMoreSent ==
  ASSUME NEW q, NEW n \in Nat, NEW p, NEW s, NEW t, Line(q, n), Told(p, q, n),
         Sparing(q, s, t, n)
  PROVE  Line(q, n + 1) /\ Told(p, q, n + 1) /\ Sparing(q, s, t, n + 1)
<1>1. Line(q, n + 1)
  BY DEF Line
<1>2. Told(p, q, n + 1)
  <2> DEFINE S == [request : 1..n, answer : 1..n]
             R == [request : 1..(n + 1), answer : 1..(n + 1)]
  <2>1. S \subseteq R
    OBVIOUS
  <2>2. p \in Seq(S)
    BY DEF Told
  <2> HIDE DEF S, R
  <2>3. p \in Seq(R)
    BY <2>1, <2>2
  <2> QED
    BY <2>3 DEF Told, R
<1>3. s \in Seq(1..n) /\ t \in Seq(1..n) /\ 1..n \subseteq 1..(n + 1)
  BY DEF Sparing
<1>4. s \in Seq(1..(n + 1)) /\ t \in Seq(1..(n + 1))
  BY <1>3
<1>5. Times(n + 1, s) = 0 /\ Times(n + 1, t) = 0
  BY <1>3, TimesNone
<1>6. \A r \in 1..(n + 1) : Times(r, s) <= 1 + Times(r, t)
  <2>1. \A r \in 1..(n + 1) : r \in 1..n \/ r = n + 1
    OBVIOUS
  <2> QED
    BY <2>1, <1>5 DEF Sparing
<1> QED
  BY <1>1, <1>2, <1>4, <1>6 DEF Sparing

\* queue z is q and, after all others, x
Joined(z, q, id, x) ==
  /\ id \in Nat \ {0} /\ \A i \in DOMAIN q : i < id
  /\ DOMAIN z = DOMAIN q \cup {id} /\ z[id] = x /\ \A i \in DOMAIN q : z[i] = q[i]

LEMMA OldestStays ==
  ASSUME NEW z, NEW q, NEW id, NEW x, Joined(z, q, id, x), DOMAIN q \subseteq Nat,
         DOMAIN q # {}
  PROVE  Oldest(z) = Oldest(q) /\ z[Oldest(z)] = q[Oldest(q)]
<1>1. /\ id \in Nat /\ DOMAIN z = DOMAIN q \cup {id}
      /\ \A i \in DOMAIN q : z[i] = q[i] /\ i < id
  BY DEF Joined
<1>2. Oldest(q) \in DOMAIN q /\ \A i \in DOMAIN q : Oldest(q) <= i
  BY OldestLeast
<1>3. Oldest(q) \in DOMAIN z /\ DOMAIN z \subseteq Nat /\ \A i \in DOMAIN z : Oldest(q) <= i
  BY <1>1, <1>2
<1>4. Oldest(z) = Oldest(q)
  BY <1>3, OldestIs
<1> QED
  BY <1>1, <1>2, <1>4

\* it comes to the end of the queue
LEMMA QueuedLast ==
  ASSUME NEW q, NEW n \in Nat, NEW p, NEW s, NEW t, NEW id, NEW z, NEW m, m = n + 1,
         Line(q, n), Told(p, q, n), Sparing(q, s, t, n), Joined(z, q, id, m)
  PROVE  /\ Line(z, m) /\ Told(p, z, m) /\ Sparing(z, s, t, m)
         /\ DOMAIN q = {} => Fresh(z, s, t)
<1>1. Line(q, n + 1) /\ Told(p, q, n + 1) /\ Sparing(q, s, t, n + 1)
  BY OneMoreSent
<1>2. /\ DOMAIN q \subseteq Nat \ {0} /\ IsFiniteSet(DOMAIN q) /\ id \notin DOMAIN q
      /\ id \in Nat \ {0}
  BY DEF Line, Joined
<1>3. /\ DOMAIN z = DOMAIN q \cup {id} /\ z[id] = n + 1
      /\ \A i \in DOMAIN q : z[i] = q[i] /\ q[i] \in 1..n /\ i < id
  BY <1>2 DEF Line, Joined
<1>4. Line(z, n + 1)
  <2>1. IsFiniteSet(DOMAIN z)
    BY <1>2, <1>3, FS_AddElement
  <2>2. \A i \in DOMAIN z : z[i] \in 1..(n + 1)
    BY <1>3
  <2>3. \A i, j \in DOMAIN z : i < j => z[i] < z[j]
    <3> SUFFICES ASSUME NEW i \in DOMAIN z, NEW j \in DOMAIN z, i < j
                 PROVE  z[i] < z[j]
      OBVIOUS
    <3>1. i \in DOMAIN q
      BY <1>2, <1>3
    <3>2. CASE j = id
      BY <1>3, <3>1, <3>2
    <3>3. CASE j \in DOMAIN q
      BY <1>3, <3>1, <3>3 DEF Line
    <3> QED
      BY <1>3, <3>2, <3>3
  <2> QED
    BY <2>1, <2>2, <2>3, <1>2, <1>3 DEF Line
<1>5. Told(p, z, n + 1)
  <2>1. \A k \in DOMAIN p : p[k].request \in 1..n
    <3> DEFINE S == [request : 1..n, answer : 1..n]
    <3>1. p \in Seq(S)
      BY DEF Told
    <3>2. \A k \in DOMAIN p : p[k] \in S
      <4> HIDE DEF S
      <4> QED
        BY <3>1
    <3> QED
      BY <3>2
  <2>2. \A k \in DOMAIN p, i \in DOMAIN z : p[k].request < z[i]
    BY <2>1, <1>3 DEF Told
  <2> QED
    BY <2>2, <1>1 DEF Told
<1>6. s \in Seq(1..n) /\ t \in Seq(1..n) /\ Times(n + 1, s) = 0 /\ Times(n + 1, t) \in Nat
  BY TimesNone, TimesType DEF Sparing
<1>7. DOMAIN q = {} => Fresh(z, s, t)
  <2> SUFFICES ASSUME DOMAIN q = {}
               PROVE  Fresh(z, s, t)
    OBVIOUS
  <2>1. DOMAIN z = {id}
    BY <1>3
  <2>2. Oldest(z) = id
    BY <2>1, <1>2, OldestIs
  <2> QED
    BY <2>2, <1>3, <1>6 DEF Fresh
<1>8. DOMAIN q # {} => Oldest(z) = Oldest(q)
  BY <1>2, OldestStays
<1>10. \A i \in DOMAIN z : i # Oldest(z) => Times(z[i], s) = 0
  <2> SUFFICES ASSUME NEW i \in DOMAIN z, i # Oldest(z)
               PROVE  Times(z[i], s) = 0
    OBVIOUS
  <2>1. CASE i = id
    BY <2>1, <1>3, <1>6
  <2>2. CASE i \in DOMAIN q
    <3>1. i # Oldest(q) /\ z[i] = q[i]
      BY <2>2, <1>3, <1>8
    <3> QED
      BY <2>2, <3>1 DEF Sparing
  <2> QED
    BY <1>3, <2>1, <2>2
<1>11. Sparing(z, s, t, n + 1)
  BY <1>1, <1>10 DEF Sparing
<1> QED
  BY <1>4, <1>5, <1>7, <1>11

(***************************************************************************)
(* What the handlers do for a calm application.                            *)
(***************************************************************************)
\* what was on its way has been answered, or nothing was
Clear(c) ==
  Orderly(c) /\ c.conn = "up" /\ c.bid /\ c.wire = <<>> /\ c.half = None

\* and the next request may go
Waiting(c) ==
  /\ Clear(c) /\ Fresh(c.requests, c.submitted, c.retries) /\ 1 \notin DOMAIN c.requests

\* the connection was closed, and the queue with it
Gone(c) == Orderly(c) /\ Idle(c) /\ c.conn # "up"

LEMMA SubmitSteady ==
  ASSUME NEW c, Clear(c), Fresh(c.requests, c.submitted, c.retries), DOMAIN c.requests # {},
         NEW r, r = c.requests[Oldest(c.requests)]
  PROVE  Steady(Submit(c, r)) /\ Submit(c, r).parser = None
<1> DEFINE u == Submit(c, r)
<1>1. IsState(c) /\ c.sent \in Nat /\ c.conn = "up" /\ c.bid /\ c.wire = <<>> /\ c.half = None
  BY HttpClientAssumption DEF Clear, Orderly
<1>2. Append(<<>>, r) = <<r>>
  OBVIOUS
<1>3. /\ IsState(u) /\ u.requests = c.requests /\ u.attempt = c.attempt /\ u.sent = c.sent
      /\ u.results = c.results /\ u.retries = c.retries /\ u.wire = <<r>> /\ u.half = None
      /\ u.submitted = Append(c.submitted, r) /\ u.conn = "up" /\ u.bid = c.bid
      /\ u.parser = None
  BY <1>1, <1>2 DEF IsState, Fields, Submit
<1> HIDE DEF u
<1>4. Sparing(c.requests, Append(c.submitted, r), c.retries, c.sent)
  BY <1>1, SubmittedOnce DEF Clear, Orderly
<1>5. Orderly(u)
  BY <1>3, <1>4 DEF Clear, Orderly
<1>6. Busy(u)
  BY <1>1, <1>3 DEF Busy
<1> QED
  BY <1>3, <1>5, <1>6 DEF Steady, u

LEMMA DisconnectSteady ==
  ASSUME NEW c, Orderly(c)
  PROVE  /\ Steady(Disconnect(c)) /\ Disconnect(c).parser = c.parser
         /\ ~Redirected(c) => Gone(Disconnect(c))
<1> DEFINE u == Disconnect(c)
           r == c.requests[Oldest(c.requests)]
<1>1. /\ IsState(c) /\ c.sent \in Nat /\ c.attempt \in Nat
      /\ Line(c.requests, c.sent) /\ Told(c.results, c.requests, c.sent)
      /\ Sparing(c.requests, c.submitted, c.retries, c.sent)
  BY HttpClientAssumption DEF Orderly
<1>2. First(c) = Oldest(c.requests)
  BY DEF First, Oldest
<1>3. CASE Redirected(c)
  <2>1. /\ IsState(u) /\ u.requests = c.requests /\ u.attempt = c.attempt + 1
        /\ u.sent = c.sent /\ u.results = c.results /\ u.retries = Append(c.retries, r)
        /\ u.wire = <<>> /\ u.half = None /\ u.submitted = c.submitted
        /\ u.conn = "opening" /\ u.parser = c.parser
    BY <1>1, <1>2, <1>3 DEF IsState, Fields, Disconnect
  <2>2. DOMAIN c.requests # {}
    BY <1>3 DEF Redirected
  <2>3. /\ Sparing(c.requests, c.submitted, Append(c.retries, r), c.sent)
        /\ Fresh(c.requests, c.submitted, Append(c.retries, r))
    BY <1>1, <2>2, RepeatedOnce
  <2> HIDE DEF u, r
  <2>4. Orderly(u)
    BY <1>1, <2>1, <2>3 DEF Orderly
  <2>5. Again(u)
    BY <1>1, <2>1, <2>2, <2>3 DEF Again
  <2> QED
    BY <1>3, <2>1, <2>4, <2>5 DEF Steady, u
<1>4. CASE ~Redirected(c)
  <2>1. /\ IsState(u) /\ u.requests = <<>> /\ u.attempt = c.attempt
        /\ u.sent = c.sent /\ u.results = c.results /\ u.retries = c.retries
        /\ u.wire = <<>> /\ u.half = None /\ u.submitted = c.submitted
        /\ u.conn # "up" /\ u.parser = c.parser
    BY <1>1, <1>4, Disconnected
  <2> HIDE DEF u
  <2>2. Orderly(u)
    BY <1>1, <2>1, NoneQueued DEF Orderly
  <2>3. DOMAIN <<>> = {}
    OBVIOUS
  <2>4. Idle(u)
    BY <2>1, <2>3 DEF Idle
  <2> QED
    BY <2>1, <2>2, <2>4 DEF Steady, Gone, u
<1> QED
  BY <1>3, <1>4

\* a calm application sends, and there is nothing in the queue
LEMMA SendFirst ==
  ASSUME NEW c, Clear(c), DOMAIN c.requests = {}, c.sent < Sends
  PROVE  \/ Steady(Send(c, c.sent + 1)) /\ Send(c, c.sent + 1).parser = None
         \/ Gone(Send(c, c.sent + 1)) /\ Send(c, c.sent + 1).parser = c.parser
<1> DEFINE n == c.sent + 1
<1>1. /\ IsState(c) /\ c.sent \in Nat /\ c.sent \in 0..Sends /\ n \in 0..Sends /\ Sends \in Nat
      /\ c.conn = "up" /\ c.bid /\ c.wire = <<>> /\ c.half = None /\ c.attempt \in Nat
      /\ Line(c.requests, c.sent) /\ Told(c.results, c.requests, c.sent)
      /\ Sparing(c.requests, c.submitted, c.retries, c.sent)
  BY HttpClientAssumption DEF Clear, Orderly
<1>2. Count(c) = 0
  BY FS_EmptySet DEF Count
<1>3. CASE c.attempt = 0
  <2> DEFINE queue == [i \in DOMAIN c.requests \cup {1} |-> IF i = 1 THEN n ELSE c.requests[i]]
             kept == [c EXCEPT !.requests = queue, !.ids[n] = 1, !.sent = n]
  <2>1. /\ Line(queue, n) /\ Told(c.results, queue, n)
        /\ Sparing(queue, c.submitted, c.retries, n)
        /\ Fresh(queue, c.submitted, c.retries)
    <3>1. Joined(queue, c.requests, 1, n) /\ n = c.sent + 1
      BY DEF Joined
    <3> HIDE DEF queue, kept, n
    <3>2. PICK k \in Nat : k = c.sent
      BY <1>1
    <3>3. /\ Line(c.requests, k) /\ Told(c.results, c.requests, k)
          /\ Sparing(c.requests, c.submitted, c.retries, k) /\ n = k + 1
      BY <1>1, <3>1, <3>2
    <3> QED
      BY <3>1, <3>3, QueuedLast
  <2>2. DOMAIN queue = {1} /\ queue[1] = n /\ Oldest(queue) = 1
    <3>1. DOMAIN queue = {1} /\ queue[1] = n
      OBVIOUS
    <3> HIDE DEF queue, kept, n
    <3> QED
      BY <3>1, OldestIs
  <2>3. Send(c, n) = IF Count(kept) = 1 THEN Submit(kept, n) ELSE kept
    BY <1>2, <1>3 DEF Send
  <2> HIDE DEF queue
  <2>4. /\ IsState(kept) /\ kept.requests = queue /\ kept.attempt = c.attempt /\ kept.sent = n
        /\ kept.results = c.results /\ kept.retries = c.retries /\ kept.wire = <<>>
        /\ kept.half = None /\ kept.submitted = c.submitted /\ kept.conn = "up"
        /\ kept.bid = c.bid
    BY <1>1 DEF IsState, Fields
  <2> HIDE DEF kept, n
  <2>5. Count(kept) = 1
    BY <2>2, <2>4, FS_Singleton DEF Count
  <2>6. Clear(kept)
    BY <1>1, <2>1, <2>4 DEF Clear, Orderly
  <2>7. Steady(Submit(kept, n)) /\ Submit(kept, n).parser = None
    BY <2>1, <2>2, <2>4, <2>6, SubmitSteady
  <2> QED
    BY <2>3, <2>5, <2>7 DEF n
<1>4. CASE c.attempt # 0
  <2> DEFINE u == [c EXCEPT !.sent = n]
  <2>1. /\ IsState(u) /\ u.requests = c.requests /\ u.attempt = c.attempt /\ u.sent = n
        /\ u.results = c.results /\ u.retries = c.retries /\ u.submitted = c.submitted
        /\ u.conn = "up" /\ u.parser = c.parser
    BY <1>1 DEF IsState, Fields
  <2>2. Send(c, n) = CloseCore(u)
    BY <1>4 DEF Send
  <2>3. Line(c.requests, n) /\ Told(c.results, c.requests, n)
        /\ Sparing(c.requests, c.submitted, c.retries, n)
    BY <1>1, OneMoreSent
  <2> HIDE DEF u, n
  <2>4. Orderly(u) /\ ~Redirected(u)
    BY <1>1, <2>1, <2>3 DEF Orderly, Redirected
  <2>5. Gone(Disconnect(u)) /\ Disconnect(u).parser = c.parser
    BY <2>1, <2>4, DisconnectSteady
  <2> QED
    BY <2>1, <2>2, <2>5 DEF CloseCore, n
<1> QED
  BY <1>3, <1>4

\* a calm application sends while the oldest request is on its way
LEMMA SendNext ==
  ASSUME NEW c, Orderly(c), Busy(c), c.conn = "up", c.attempt = 0,
         DOMAIN c.requests = 1..Count(c), c.sent < Sends
  PROVE  Steady(Send(c, c.sent + 1))
<1> DEFINE n == c.sent + 1
           id == Count(c) + 1
           queue == [i \in DOMAIN c.requests \cup {id} |-> IF i = id THEN n ELSE c.requests[i]]
           kept == [c EXCEPT !.requests = queue, !.ids[n] = id, !.sent = n]
<1>1. /\ IsState(c) /\ c.sent \in Nat /\ c.sent \in 0..Sends /\ n \in 0..Sends /\ Sends \in Nat
      /\ Line(c.requests, c.sent) /\ Told(c.results, c.requests, c.sent)
      /\ Sparing(c.requests, c.submitted, c.retries, c.sent)
  BY HttpClientAssumption DEF Orderly
<1>2. IsFiniteSet(DOMAIN c.requests) /\ Count(c) \in Nat /\ DOMAIN c.requests # {}
  BY <1>1, FS_CardinalityType DEF Count, Line, Busy
<1>3. id \in Nat \ {0} /\ id \notin DOMAIN c.requests /\ \A i \in DOMAIN c.requests : i < id
  BY <1>2
<1>4. Send(c, n) = IF Count(kept) = 1 THEN Submit(kept, n) ELSE kept
  <2> DEFINE z == IF id \in DOMAIN c.requests THEN c.requests ELSE queue
             all == [c EXCEPT !.requests = z, !.ids[n] = id, !.sent = n]
  <2>1. Send(c, n) = IF Count(all) = 1 THEN Submit(all, n) ELSE all
    BY DEF Send
  <2>2. z = queue
    BY <1>3
  <2> HIDE DEF z, queue
  <2> QED
    BY <2>1, <2>2
<1>5. DOMAIN queue = DOMAIN c.requests \cup {id}
  OBVIOUS
<1>6. /\ Line(queue, n) /\ Told(c.results, queue, n)
      /\ Sparing(queue, c.submitted, c.retries, n)
      /\ Oldest(queue) = Oldest(c.requests)
      /\ queue[Oldest(queue)] = c.requests[Oldest(c.requests)]
  <2>1. Joined(queue, c.requests, id, n) /\ n = c.sent + 1
    BY <1>3 DEF Joined
  <2> HIDE DEF queue, id, n, kept
  <2>2. PICK k \in Nat : k = c.sent
    BY <1>1
  <2>3. /\ Line(c.requests, k) /\ Told(c.results, c.requests, k)
        /\ Sparing(c.requests, c.submitted, c.retries, k) /\ n = k + 1
    BY <1>1, <2>1, <2>2
  <2>4. /\ Line(queue, n) /\ Told(c.results, queue, n)
        /\ Sparing(queue, c.submitted, c.retries, n)
    <3> DEFINE q == c.requests
               p == c.results
               s == c.submitted
               t == c.retries
    <3>1. Line(q, k) /\ Told(p, q, k) /\ Sparing(q, s, t, k) /\ Joined(queue, q, id, n)
          /\ n = k + 1
      BY <2>1, <2>3
    <3> HIDE DEF q, p, s, t
    <3>2. Line(queue, n) /\ Told(p, queue, n) /\ Sparing(queue, s, t, n)
      BY <3>1, QueuedLast
    <3> QED
      BY <3>2 DEF p, s, t
  <2>5. DOMAIN c.requests \subseteq Nat
    BY <1>1 DEF Line
  <2>6. /\ Oldest(queue) = Oldest(c.requests)
        /\ queue[Oldest(queue)] = c.requests[Oldest(c.requests)]
    BY <1>2, <2>1, <2>5, OldestStays
  <2> QED
    BY <2>4, <2>6
<1> HIDE DEF queue
<1>7. /\ IsState(kept) /\ kept.requests = queue /\ kept.attempt = c.attempt /\ kept.sent = n
      /\ kept.results = c.results /\ kept.retries = c.retries /\ kept.wire = c.wire
      /\ kept.half = c.half /\ kept.submitted = c.submitted /\ kept.conn = c.conn
      /\ kept.bid = c.bid
  BY <1>1 DEF IsState, Fields
<1> HIDE DEF kept
<1>8. Count(kept) # 1
  <2>1. Count(kept) = Count(c) + 1
    <3> HIDE DEF id
    <3>1. Cardinality(DOMAIN c.requests \cup {id}) = Cardinality(DOMAIN c.requests) + 1
      BY <1>2, <1>3, FS_AddElement
    <3> QED
      BY <1>5, <1>7, <3>1 DEF Count
  <2>2. Count(c) # 0
    BY <1>2, FS_EmptySet DEF Count
  <2> QED
    BY <2>1, <2>2, <1>2
<1>9. Orderly(kept)
  BY <1>1, <1>6, <1>7 DEF Orderly
<1>10. Busy(kept)
  BY <1>2, <1>5, <1>6, <1>7 DEF Busy
<1> QED
  BY <1>4, <1>8, <1>9, <1>10 DEF Steady

\* on the next connection the oldest request is sent again
LEMMA SendOldest ==
  ASSUME NEW c, Clear(c), Fresh(c.requests, c.submitted, c.retries), DOMAIN c.requests # {},
         c.attempt # 0
  PROVE  Steady(Send(c, c.sent))
<1> DEFINE u == [c EXCEPT !.ids[c.sent] = IF c.sent > c.sent THEN Count(c) ELSE @,
                          !.sent = c.sent]
<1>1. IsState(c) /\ c.conn = "up" /\ c.bid /\ c.wire = <<>> /\ c.half = None
  BY DEF Clear, Orderly
<1>2. First(c) = Oldest(c.requests)
  BY DEF First, Oldest
<1>3. Send(c, c.sent) = Submit(u, c.requests[First(c)])
  BY DEF Send
<1>4. /\ IsState(u) /\ u.requests = c.requests /\ u.attempt = c.attempt /\ u.sent = c.sent
      /\ u.results = c.results /\ u.retries = c.retries /\ u.wire = c.wire
      /\ u.half = c.half /\ u.submitted = c.submitted /\ u.conn = c.conn /\ u.bid = c.bid
  BY <1>1 DEF IsState, Fields
<1> HIDE DEF u
<1>5. Clear(u)
  BY <1>4 DEF Clear, Orderly
<1> QED
  BY <1>2, <1>3, <1>4, <1>5, SubmitSteady

\* result(): the answer is to the oldest request
LEMMA ResultSteady ==
  ASSUME NEW c, Clear(c), DOMAIN c.requests # {},
         NEW a, a.to = c.requests[Oldest(c.requests)]
  PROVE  /\ Waiting(Result(c, a)) /\ Result(c, a).parser = c.parser
         /\ Result(c, a).stopped = c.stopped
<1> DEFINE u == Result(c, a)
           x == c.requests[Oldest(c.requests)]
           rest == [i \in DOMAIN c.requests \ {Oldest(c.requests)} |-> c.requests[i]]
           told == Append(c.results, [request |-> x, answer |-> x])
<1>1. /\ IsState(c) /\ c.sent \in Nat /\ c.sent \in 0..Sends /\ c.attempt \in Nat
      /\ Line(c.requests, c.sent) /\ Told(c.results, c.requests, c.sent)
      /\ Sparing(c.requests, c.submitted, c.retries, c.sent)
  BY HttpClientAssumption DEF Clear, Orderly
<1>2. First(c) = Oldest(c.requests)
  BY DEF First, Oldest
<1>3. /\ IsState(u) /\ u.requests = rest /\ u.attempt = c.attempt /\ u.sent = c.sent
      /\ u.results = told /\ u.retries = c.retries /\ u.wire = c.wire
      /\ u.half = c.half /\ u.submitted = c.submitted /\ u.conn = c.conn /\ u.bid = c.bid
      /\ u.parser = c.parser /\ u.stopped = c.stopped
  BY <1>1, <1>2 DEF IsState, Fields, Result
<1>4. /\ DOMAIN rest = DOMAIN c.requests \ {Oldest(c.requests)}
      /\ \A i \in DOMAIN rest : rest[i] = c.requests[i]
  OBVIOUS
<1>a. x = c.requests[Oldest(c.requests)]
  OBVIOUS
<1> HIDE DEF u, rest, x
<1>5. /\ Line(rest, c.sent) /\ Sparing(rest, c.submitted, c.retries, c.sent)
      /\ Fresh(rest, c.submitted, c.retries) /\ 1 \notin DOMAIN rest
      /\ Told(told, rest, c.sent)
  <2> DEFINE q == c.requests
             n == c.sent
             p == c.results
             s == c.submitted
             t == c.retries
  <2>1. /\ n \in Nat /\ Line(q, n) /\ Told(p, q, n) /\ Sparing(q, s, t, n) /\ DOMAIN q # {}
        /\ x = q[Oldest(q)] /\ DOMAIN rest = DOMAIN q \ {Oldest(q)}
        /\ \A i \in DOMAIN rest : rest[i] = q[i]
    BY <1>1, <1>4, <1>a
  <2> HIDE DEF q, n, p, s, t
  <2>2. /\ Line(rest, n) /\ Sparing(rest, s, t, n) /\ Fresh(rest, s, t) /\ 1 \notin DOMAIN rest
        /\ Told(Append(p, [request |-> x, answer |-> x]), rest, n)
    BY <2>1, AnsweredOnce
  <2> QED
    BY <2>2 DEF q, n, p, s, t
<1> HIDE DEF told
<1>6. Waiting(u)
  BY <1>1, <1>3, <1>5 DEF Waiting, Clear, Orderly
<1> QED
  BY <1>3, <1>6 DEF u

\* the answer is not repeated: the next request may go, or the connection is closed
LEMMA PreparedSteady ==
  ASSUME NEW c, Clear(c), DOMAIN c.requests # {}, NEW a, c.parser = a,
         a.to = c.requests[Oldest(c.requests)]
  PROVE  /\ Waiting(Prepared(c, a)) \/ Gone(Prepared(c, a))
         /\ Prepared(c, a).parser = a
<1> DEFINE u == [c EXCEPT !.stopped = TRUE]
           v == [c EXCEPT !.attempt = 0]
<1>1. IsState(c)
  BY DEF Clear, Orderly
<1>2. Clear(u) /\ u.requests = c.requests /\ u.parser = a /\ u.stopped = TRUE
  <2>1. /\ IsState(u) /\ u.requests = c.requests /\ u.attempt = c.attempt
        /\ u.sent = c.sent /\ u.results = c.results /\ u.retries = c.retries
        /\ u.wire = c.wire /\ u.half = c.half /\ u.submitted = c.submitted
        /\ u.conn = c.conn /\ u.bid = c.bid /\ u.parser = c.parser /\ u.stopped = TRUE
    BY <1>1 DEF IsState, Fields
  <2> HIDE DEF u
  <2> QED
    BY <2>1 DEF Clear, Orderly
<1>3. Clear(v) /\ v.requests = c.requests /\ v.parser = a
  <2>1. /\ IsState(v) /\ v.requests = c.requests /\ v.attempt = 0
        /\ v.sent = c.sent /\ v.results = c.results /\ v.retries = c.retries
        /\ v.wire = c.wire /\ v.half = c.half /\ v.submitted = c.submitted
        /\ v.conn = c.conn /\ v.bid = c.bid /\ v.parser = c.parser
    BY <1>1 DEF IsState, Fields
  <2> HIDE DEF v
  <2> QED
    BY <2>1 DEF Clear, Orderly
<1> HIDE DEF u, v
<1>4. Waiting(Result(u, a)) /\ Result(u, a).parser = a /\ Result(u, a).stopped = TRUE
  BY <1>2, ResultSteady
<1>5. Waiting(Result(v, a)) /\ Result(v, a).parser = a
  BY <1>3, ResultSteady
<1>6. ASSUME NEW e, Waiting(e), e.parser = a, ~Redirected(e)
      PROVE  Gone(CloseCore(e)) /\ CloseCore(e).parser = a
  BY <1>6, DisconnectSteady DEF Waiting, Clear, CloseCore
<1>7. CASE Retry(a)
  <2>1. Prepared(c, a) = CloseCore(Result(u, a))
    BY <1>7 DEF Prepared, u
  <2>2. ~Redirected(Result(u, a))
    BY <1>4 DEF Redirected
  <2> QED
    BY <2>1, <2>2, <1>4, <1>6
<1>8. CASE ~Retry(a) /\ Fault(a)
  <2>1. Prepared(c, a) = Result(u, a)
    BY <1>8 DEF Prepared, u
  <2> QED
    BY <2>1, <1>4
<1>9. CASE ~Retry(a) /\ ~Fault(a)
  <2>1. Prepared(c, a) = IF a.alive THEN Result(v, a) ELSE CloseCore(Result(v, a))
    BY <1>9 DEF Prepared, v
  <2>2. ~Redirected(Result(v, a))
    BY <1>5, <1>9 DEF Redirected, Retry
  <2> QED
    BY <2>1, <2>2, <1>5, <1>6
<1> QED
  BY <1>7, <1>8, <1>9

\* in the callback a calm application sends only when the queue is empty
LEMMA CallbackSteady ==
  ASSUME Calm, NEW c, Waiting(c) \/ Gone(c), NEW e \in Callback(c)
  PROVE  \/ (Waiting(e) \/ Gone(e)) /\ e.parser = c.parser
         \/ Steady(e) /\ e.parser = None
<1>1. CASE e = c
  BY <1>1
<1>2. CASE e # c
  <2>1. MaySend(c) /\ e = Send(c, c.sent + 1)
    BY <1>2 DEF Callback
  <2>2. /\ c.conn = "up" /\ c.sent < Sends
        /\ DOMAIN c.requests = {} \/ DOMAIN c.requests = 1..Count(c)
    BY <2>1 DEF MaySend, Calm
  <2>3. Waiting(c)
    BY <2>2 DEF Gone
  <2>4. DOMAIN c.requests = {}
    <3>1. IsFiniteSet(DOMAIN c.requests) /\ 1 \notin DOMAIN c.requests
      BY <2>3 DEF Waiting, Clear, Orderly, Line
    <3>2. Count(c) \in Nat
      BY <3>1, FS_CardinalityType DEF Count
    <3>3. Count(c) # 0 => 1 \in 1..Count(c)
      BY <3>2
    <3>4. Count(c) = 0 => DOMAIN c.requests = {}
      BY <3>1, FS_EmptySet DEF Count
    <3> QED
      BY <2>2, <3>1, <3>3, <3>4
  <2>5. Clear(c)
    BY <2>3 DEF Waiting
  <2> QED
    BY <2>1, <2>2, <2>4, <2>5, SendFirst
<1> QED
  BY <1>1, <1>2

\* after the callback the next request goes out, once
LEMMA FinishedSteady ==
  ASSUME NEW c, NEW a, a.code \notin {"none", "interim"},
         \/ (Waiting(c) \/ Gone(c)) /\ c.parser = a
         \/ Steady(c) /\ c.parser = None
  PROVE  Steady(Finished(c, a))
<1> DEFINE u == [c EXCEPT !.parser = None]
<1>1. IsState(c)
  BY DEF Waiting, Clear, Gone, Steady, Orderly
<1>2. /\ IsState(u) /\ u.requests = c.requests /\ u.attempt = c.attempt
      /\ u.sent = c.sent /\ u.results = c.results /\ u.retries = c.retries
      /\ u.wire = c.wire /\ u.half = c.half /\ u.submitted = c.submitted
      /\ u.conn = c.conn /\ u.bid = c.bid
  BY <1>1 DEF IsState, Fields
<1>3. Finished(c, a) = IF c.parser.code \notin {"none", "interim"} /\ c.bid /\ DOMAIN c.requests # {}
                       THEN Submit(u, c.requests[Oldest(c.requests)]) ELSE u
  BY DEF Finished, First, Oldest
<1> HIDE DEF u
<1>4. Orderly(c) => Orderly(u)
  BY <1>2 DEF Orderly
<1>5. CASE Waiting(c) /\ c.parser = a
  <2>1. /\ Clear(u) /\ Fresh(u.requests, u.submitted, u.retries) /\ c.bid
        /\ u.conn = "up" /\ u.wire = <<>> /\ u.half = None /\ u.bid
    BY <1>2, <1>4, <1>5 DEF Waiting, Clear
  <2>2. CASE DOMAIN c.requests = {}
    <3>1. Idle(u)
      BY <1>2, <2>1, <2>2 DEF Idle
    <3> QED
      BY <1>3, <2>1, <2>2, <3>1 DEF Steady, Clear
  <2>3. CASE DOMAIN c.requests # {}
    <3>1. Finished(c, a) = Submit(u, u.requests[Oldest(u.requests)])
      BY <1>2, <1>3, <1>5, <2>1, <2>3
    <3> QED
      BY <1>2, <2>1, <2>3, <3>1, SubmitSteady
  <2> QED
    BY <2>2, <2>3
<1>6. CASE Gone(c)
  <2>1. Finished(c, a) = u
    BY <1>3, <1>6 DEF Gone, Idle
  <2>2. Orderly(u) /\ Idle(u)
    BY <1>2, <1>4, <1>6 DEF Gone, Idle
  <2> QED
    BY <2>1, <2>2 DEF Steady
<1>7. CASE Steady(c) /\ c.parser = None
  <2>1. Finished(c, a) = u
    BY <1>3, <1>7 DEF None
  <2>2. Steady(u)
    BY <1>2, <1>4, <1>7 DEF Steady, Idle, Busy, Again
  <2> QED
    BY <2>1, <2>2
<1> QED
  BY <1>5, <1>6, <1>7

\* the request is repeated, and the server has one answer less to give
LEMMA RepeatSteady ==
  ASSUME NEW c, Clear(c), DOMAIN c.requests # {}, NEW a, NEW here
  PROVE  Steady(Repeat(c, a, here))
<1> DEFINE r == c.requests[First(c)]
           u == [c EXCEPT !.attempt = @ + 1, !.retries = Append(@, r)]
           v == [c EXCEPT !.stopped = FALSE]
<1>1. /\ IsState(c) /\ c.sent \in Nat /\ c.attempt \in Nat
      /\ Line(c.requests, c.sent)
      /\ Sparing(c.requests, c.submitted, c.retries, c.sent)
  BY HttpClientAssumption DEF Clear, Orderly
<1>2. First(c) = Oldest(c.requests)
  BY DEF First, Oldest
<1>3. Repeat(c, a, here) = IF a.alive /\ here THEN Submit(u, r) ELSE CloseCore(v)
  BY DEF Repeat
<1>4. Steady(Submit(u, r))
  <2>1. /\ IsState(u) /\ u.requests = c.requests /\ u.attempt = c.attempt + 1
        /\ u.sent = c.sent /\ u.results = c.results /\ u.retries = Append(c.retries, r)
        /\ u.wire = c.wire /\ u.half = c.half /\ u.submitted = c.submitted
        /\ u.conn = c.conn /\ u.bid = c.bid
    BY <1>1 DEF IsState, Fields
  <2>2. /\ Sparing(c.requests, c.submitted, Append(c.retries, r), c.sent)
        /\ Fresh(c.requests, c.submitted, Append(c.retries, r))
    BY <1>1, <1>2, RepeatedOnce
  <2>3. r = c.requests[Oldest(c.requests)]
    BY <1>2
  <2> HIDE DEF u, r
  <2>4. Clear(u)
    BY <1>1, <2>1, <2>2 DEF Clear, Orderly
  <2> QED
    BY <2>1, <2>2, <2>3, <2>4, SubmitSteady
<1>5. Steady(CloseCore(v))
  <2>1. /\ IsState(v) /\ v.requests = c.requests /\ v.attempt = c.attempt
        /\ v.sent = c.sent /\ v.results = c.results /\ v.retries = c.retries
        /\ v.submitted = c.submitted /\ v.conn = c.conn
    BY <1>1 DEF IsState, Fields
  <2> HIDE DEF v
  <2>2. Orderly(v) /\ v.conn = "up"
    BY <2>1 DEF Clear, Orderly
  <2> QED
    BY <2>2, DisconnectSteady DEF CloseCore
<1> QED
  BY <1>3, <1>4, <1>5

LEMMA CompletedSteady ==
  ASSUME Calm, NEW c, Clear(c), DOMAIN c.requests # {}, NEW a, c.parser = a,
         a.to = c.requests[Oldest(c.requests)], a.code \notin {"none", "interim"},
         NEW e \in Completed(c, a)
  PROVE  Steady(e)
<1>1. CASE Retry(a) /\ c.attempt < Attempts
  <2>1. PICK here : e = Repeat(c, a, here)
    BY <1>1 DEF Completed
  <2> QED
    BY <2>1, RepeatSteady
<1>2. CASE ~(Retry(a) /\ c.attempt < Attempts)
  <2>1. PICK b \in Callback(Prepared(c, a)) : e = Finished(b, a)
    BY <1>2 DEF Completed
  <2>2. /\ Waiting(Prepared(c, a)) \/ Gone(Prepared(c, a))
        /\ Prepared(c, a).parser = a
    BY PreparedSteady
  <2>3. \/ (Waiting(b) \/ Gone(b)) /\ b.parser = a
        \/ Steady(b) /\ b.parser = None
    BY <2>1, <2>2, CallbackSteady
  <2> QED
    BY <2>1, <2>3, FinishedSteady
<1> QED
  BY <1>1, <1>2

(***************************************************************************)
(* The steps with a calm application.                                      *)
(***************************************************************************)
LEMMA BecomesSteady ==
  ASSUME NEW c, Becomes(c), Steady(c), env' = env
  PROVE  Steady(Now)'
<1>1. IsState(c)
  BY DEF Steady, Orderly
<1>2. c = Now'
  BY <1>1 DEF Becomes, IsState, Fields, Now
<1>3. Steady(c)'
  BY DEF Steady, Orderly, Idle, Busy, Again, Line, Told, Sparing, Fresh, IsState, Oldest,
         Times
<1> QED
  BY <1>2, <1>3

\* an answer, or the rest of one, to the request on its way
LEMMA ReceiveSteady ==
  ASSUME Calm, env \in Environments, Steady(Now), conn = "up", wire # <<>>,
         NEW a, a.to = Head(wire), a.code \in env.codes, Receive(a), env' = env
  PROVE  Steady(Now)'
<1> DEFINE c == [Now EXCEPT !.wire = Answered(a), !.half = None]
           p == [c EXCEPT !.parser = a]
<1>1. a.code \notin {"none", "interim"}
  BY HttpClientAssumption DEF Calm, Codes
<1>2. /\ Now.wire = wire /\ Now.conn = conn /\ Now.requests = requests
  BY DEF Now
<1>3. Orderly(Now) /\ Busy(Now)
  BY <1>2 DEF Steady, Idle, Again
<1>4. DOMAIN requests # {} /\ wire = <<requests[Oldest(requests)]>> /\ bid
  BY <1>2, <1>3 DEF Busy, Now
<1>5. Head(wire) = requests[Oldest(requests)] /\ Tail(wire) = <<>>
  BY <1>4
<1>6. Answered(a) = <<>>
  BY <1>1, <1>5 DEF Answered
<1>7. /\ IsState(p) /\ p.requests = requests /\ p.attempt = Now.attempt
      /\ p.sent = Now.sent /\ p.results = Now.results /\ p.retries = Now.retries
      /\ p.wire = <<>> /\ p.half = None /\ p.submitted = Now.submitted
      /\ p.conn = "up" /\ p.bid = bid /\ p.parser = a
  BY <1>6 DEF IsState, Fields, Now
<1>8. \E e \in Completed(p, a) : Becomes(e)
  BY <1>4 DEF Receive
<1> HIDE DEF p
<1>9. PICK e \in Completed(p, a) : Becomes(e)
  BY <1>8
<1>10. Clear(p)
  BY <1>2, <1>3, <1>4, <1>7 DEF Clear, Orderly
<1>11. Steady(e)
  BY <1>1, <1>4, <1>5, <1>7, <1>9, <1>10, CompletedSteady
<1> QED
  BY <1>9, <1>11, BecomesSteady

LEMMA ConnectSteady ==
  ASSUME Steady(Now), Connect
  PROVE  Steady(Now)'
<1> DEFINE c == [Now EXCEPT !.conn = "up", !.bid = TRUE]
<1>1. conn = "opening" /\ env' = env /\ attempt \in Nat /\ sent \in 0..Sends /\ Sends \in Nat
  BY HttpClientAssumption DEF Connect, Steady, Orderly, Now
<1>2. Becomes(IF attempt > 0 /\ DOMAIN requests # {} THEN Send(c, sent)
              ELSE IF sent < Sends THEN Send(c, sent + 1) ELSE c)
  BY DEF Connect
<1>3. /\ IsState(c) /\ c.requests = requests /\ c.attempt = attempt
      /\ c.sent = sent /\ c.results = Now.results /\ c.retries = Now.retries
      /\ c.wire = Now.wire /\ c.half = Now.half /\ c.submitted = Now.submitted
      /\ c.conn = "up" /\ c.bid /\ Now.requests = requests /\ Now.attempt = attempt
      /\ Now.sent = sent /\ Now.conn = conn
  BY DEF IsState, Fields, Now
<1> HIDE DEF c
<1>4. Orderly(c)
  BY <1>3 DEF Steady, Orderly
<1>5. Idle(Now) \/ Again(Now)
  BY <1>1, <1>3 DEF Steady, Busy
<1>6. Clear(c)
  BY <1>3, <1>4, <1>5 DEF Clear, Idle, Again
<1>7. CASE attempt > 0 /\ DOMAIN requests # {}
  <2>1. Fresh(c.requests, c.submitted, c.retries)
    BY <1>3, <1>5, <1>7 DEF Idle, Again
  <2>2. Steady(Send(c, sent))
    BY <1>1, <1>3, <1>6, <1>7, <2>1, SendOldest
  <2> QED
    BY <1>1, <1>2, <1>7, <2>2, BecomesSteady
<1>8. CASE ~(attempt > 0 /\ DOMAIN requests # {})
  <2>1. DOMAIN requests = {}
    BY <1>3, <1>5, <1>8 DEF Idle, Again
  <2>2. CASE sent < Sends
    <3>1. Steady(Send(c, sent + 1))
      BY <1>3, <1>6, <2>1, <2>2, SendFirst DEF Gone, Steady
    <3> QED
      BY <1>1, <1>2, <1>8, <2>2, <3>1, BecomesSteady
  <2>3. CASE ~(sent < Sends)
    <3>1. Idle(c)
      BY <1>3, <1>6, <2>1 DEF Idle, Clear
    <3>2. Steady(c)
      BY <1>4, <3>1 DEF Steady
    <3> QED
      BY <1>1, <1>2, <1>8, <2>3, <3>2, BecomesSteady
  <2> QED
    BY <2>2, <2>3
<1> QED
  BY <1>7, <1>8

LEMMA CalmInit == Init => CalmInv
<1> SUFFICES ASSUME Init
             PROVE  CalmInv
  OBVIOUS
<1>1. /\ env \in Environments /\ IsState(Now) /\ Now.requests = <<>> /\ Now.attempt = 0
      /\ Now.sent = 0 /\ Now.results = <<>> /\ Now.submitted = <<>> /\ Now.retries = <<>>
      /\ Now.wire = <<>> /\ Now.half = None /\ Now.conn = "opening"
  BY DEF Init, IsState, Fields, Now
<1>2. Line(<<>>, 0) /\ Told(<<>>, <<>>, 0) /\ Sparing(<<>>, <<>>, <<>>, 0) /\ DOMAIN <<>> = {}
  BY FS_EmptySet DEF Line, Told, Sparing
<1>3. 0 \in 0..Sends
  BY HttpClientAssumption
<1>4. Orderly(Now)
  BY <1>1, <1>2, <1>3 DEF Orderly
<1>5. Idle(Now)
  BY <1>1, <1>2 DEF Idle
<1> QED
  BY <1>1, <1>4, <1>5 DEF CalmInv, Steady

LEMMA CalmStep == CalmInv /\ [Next]_vars => CalmInv'
<1> SUFFICES ASSUME CalmInv, [Next]_vars
             PROVE  CalmInv'
  OBVIOUS
<1>1. env' = env /\ env \in Environments
  BY DEF CalmInv, Next, Connect, AppSend, Answer, FirstPart, SecondPart, Astray, Drop, vars
<1>2. SUFFICES ASSUME Calm
               PROVE  Steady(Now)'
  BY <1>1 DEF CalmInv, Calm
<1>3. Steady(Now)
  BY <1>2 DEF CalmInv
<1>4. /\ Now.requests = requests /\ Now.wire = wire /\ Now.half = half /\ Now.conn = conn
      /\ Now.sent = sent /\ Now.bid = bid /\ Now.attempt = attempt
  BY DEF Now
<1>5. CASE Connect
  BY <1>3, <1>5, ConnectSteady
<1>6. CASE AppSend
  <2>1. /\ conn = "up" /\ sent < Sends /\ Becomes(Send(Now, sent + 1))
        /\ \/ DOMAIN requests = {}
           \/ attempt = 0 /\ DOMAIN requests = 1..Count(Now)
    BY <1>2, <1>4, <1>6 DEF AppSend, MaySend, Calm
  <2>2. CASE DOMAIN requests = {}
    <3>1. Clear(Now)
      BY <1>3, <1>4, <2>1, <2>2 DEF Clear, Steady, Idle, Busy, Again
    <3>2. Steady(Send(Now, sent + 1))
      BY <1>4, <2>1, <2>2, <3>1, SendFirst DEF Gone, Steady
    <3> QED
      BY <1>1, <2>1, <3>2, BecomesSteady
  <2>3. CASE DOMAIN requests # {} /\ attempt = 0 /\ DOMAIN requests = 1..Count(Now)
    <3>1. Orderly(Now) /\ Busy(Now)
      BY <1>3, <1>4, <2>1, <2>3 DEF Steady, Idle, Again
    <3>2. Steady(Send(Now, sent + 1))
      BY <1>4, <2>1, <2>3, <3>1, SendNext
    <3> QED
      BY <1>1, <2>1, <3>2, BecomesSteady
  <2> QED
    BY <2>1, <2>2, <2>3
<1>7. CASE Answer
  <2>1. PICK a \in Answers(Head(wire)) : Receive(a)
    BY <1>7 DEF Answer
  <2>2. a.to = Head(wire) /\ a.code \in env.codes /\ conn = "up" /\ wire # <<>>
    BY <1>7, <2>1 DEF Answers, Answer
  <2> QED
    BY <1>1, <1>2, <1>3, <2>1, <2>2, ReceiveSteady
<1>8. CASE SecondPart
  <2>1. conn = "up" /\ half # None /\ Receive(half)
    BY <1>8 DEF SecondPart
  <2>2. Busy(Now)
    BY <1>3, <1>4, <2>1 DEF Steady, Idle, Again
  <2>3. wire # <<>> /\ half.to = Head(wire) /\ half.code \in env.codes
    BY <1>4, <2>1, <2>2 DEF Busy
  <2> QED
    BY <1>1, <1>2, <1>3, <2>1, <2>3, ReceiveSteady
<1>9. CASE FirstPart
  <2>1. PICK a \in Answers(Head(wire)) : half' = a
    BY <1>9 DEF FirstPart
  <2>2. a.to = Head(wire) /\ a.code \in env.codes /\ conn = "up" /\ wire # <<>>
    BY <1>9, <2>1 DEF Answers, FirstPart
  <2>3. Orderly(Now) /\ Busy(Now)
    BY <1>3, <1>4, <2>2 DEF Steady, Idle, Again
  <2> DEFINE c == [Now EXCEPT !.half = a, !.parser = parser']
  <2>4. /\ IsState(c) /\ c.requests = Now.requests /\ c.attempt = Now.attempt
        /\ c.sent = Now.sent /\ c.results = Now.results /\ c.retries = Now.retries
        /\ c.wire = Now.wire /\ c.half = a /\ c.submitted = Now.submitted
        /\ c.conn = Now.conn /\ c.bid = Now.bid
    BY DEF IsState, Fields, Now
  <2>5. Becomes(c)
    BY <1>9, <2>1 DEF FirstPart, Becomes, Now
  <2> HIDE DEF c
  <2>6. Orderly(c) /\ Busy(c)
    BY <1>4, <2>2, <2>3, <2>4 DEF Orderly, Busy
  <2>7. Steady(c)
    BY <2>6 DEF Steady
  <2> QED
    BY <1>1, <2>5, <2>7, BecomesSteady
<1>10. CASE Astray
  <2> DEFINE c == [Now EXCEPT !.conn = "astray"]
  <2>1. /\ IsState(c) /\ c.requests = Now.requests /\ c.attempt = Now.attempt
        /\ c.sent = Now.sent /\ c.results = Now.results /\ c.retries = Now.retries
        /\ c.wire = Now.wire /\ c.half = Now.half /\ c.submitted = Now.submitted
        /\ c.conn = "astray" /\ c.bid = Now.bid
    BY DEF IsState, Fields, Now
  <2>2. Becomes(c)
    BY <1>10 DEF Astray, Becomes, Now
  <2>3. Orderly(Now) /\ Busy(Now)
    BY <1>3, <1>4, <1>10 DEF Steady, Idle, Again, Astray
  <2> HIDE DEF c
  <2>4. Orderly(c) /\ Busy(c)
    BY <2>1, <2>3 DEF Orderly, Busy
  <2>5. Steady(c)
    BY <2>4 DEF Steady
  <2> QED
    BY <1>1, <2>2, <2>5, BecomesSteady
<1>11. CASE Drop
  <2>1. Becomes(Disconnect(Now))
    BY <1>11 DEF Drop
  <2>2. Steady(Disconnect(Now))
    BY <1>3, DisconnectSteady DEF Steady
  <2> QED
    BY <1>1, <2>1, <2>2, BecomesSteady
<1>12. CASE UNCHANGED vars
  <2>1. Becomes(Now)
    BY <1>12 DEF vars, Becomes, Now
  <2> QED
    BY <1>1, <1>3, <2>1, BecomesSteady
<1> QED
  BY <1>5, <1>6, <1>7, <1>8, <1>9, <1>10, <1>11, <1>12 DEF Next

\* A calm application is told of each request with the answer to that request, once and in
\* the order of sending, for any number of requests, attempts and ends of connections.
THEOREM OwnAnswersAlways == Spec => []OwnAnswers
<1>1. CalmInv => OwnAnswers
  BY DEF CalmInv, Steady, Orderly, Told, OwnAnswers, Now
<1> QED
  BY <1>1, CalmInit, CalmStep, PTL DEF Spec

\* For a calm application the server receives a request once, and once more for each time
\* the client had reason to repeat it.
THEOREM NoDuplicatesAlways == Spec => []NoDuplicates
<1>1. CalmInv => NoDuplicates
  <2> SUFFICES ASSUME CalmInv, Calm, NEW r \in Requests
               PROVE  Times(r, submitted) <= 1 + Times(r, retries)
    BY DEF NoDuplicates
  <2>1. /\ sent \in 0..Sends /\ sent \in Nat /\ Sends \in Nat
        /\ Sparing(requests, submitted, retries, sent)
    BY HttpClientAssumption DEF CalmInv, Steady, Orderly, Now
  <2>2. /\ submitted \in Seq(1..sent) /\ retries \in Seq(1..sent)
        /\ \A n \in 1..sent : Times(n, submitted) <= 1 + Times(n, retries)
    BY <2>1 DEF Sparing
  <2>3. CASE r <= sent
    BY <2>1, <2>2, <2>3 DEF Requests
  <2>4. CASE r > sent
    <3>1. Times(r, submitted) = 0 /\ Times(r, retries) = 0
      BY <2>1, <2>2, <2>4, TimesNone DEF Requests
    <3> QED
      BY <3>1
  <2> QED
    BY <2>1, <2>3, <2>4 DEF Requests
<1> QED
  BY <1>1, CalmInit, CalmStep, PTL DEF Spec
=============================================================================
