-------------------------- MODULE ClientCoreProofs --------------------------
(***************************************************************************)
(* What holds of ClientCore for one scheme in orderly surroundings, for    *)
(* any numbers of brokers and timers: the scheme never gets stuck, and     *)
(* one that is to be kept alive always has somebody who goes on with it.   *)
(***************************************************************************)
EXTENDS ClientCore, FiniteSetTheorems, WellFoundedInduction, TLAPS

Fields == {"status", "ip", "broker", "timers", "timeouts", "receive", "told", "wanted"}

IsState(t) == t = [f \in Fields |-> t[f]]

Modes == [work : {"ALLOW", "DISALLOW"}, wait : {"CONNECT", "RECONNECT", "DISCONNECT"},
          real : {"PRECONNECT", "CONNECT", "DISCONNECT"}]

\* what the timers of scheme x may call
Calls(x) == ({"connect", "reconnect"} \X {x}) \cup ({"close"} \X Bids)

Bounded(D) == D \subseteq Nat /\ \E n \in Nat : \A i \in D : i <= n

TimersFit(ts, x) == Bounded(DOMAIN ts) /\ \A i \in DOMAIN ts : ts[i] \in Calls(x)

\* scheme s is not used
Untouched(t, s) ==
  /\ t.status[s].work = "ALLOW" /\ t.status[s].wait = "DISCONNECT"
  /\ t.broker[s] = NoBroker /\ ~t.wanted[s]

\* no scheme but x is used
Shape(t, x) ==
  /\ IsState(t) /\ x \in Schemes
  /\ t.status \in [Schemes -> Modes] /\ t.ip \in [Schemes -> BOOLEAN]
  /\ t.broker \in [Schemes -> Bids \cup {NoBroker}] /\ t.wanted \in [Schemes -> BOOLEAN]
  /\ TimersFit(t.timers, x)
  /\ \A s \in Schemes \ {x} : Untouched(t, s)

\* between two handlers the scheme is not locked, and its status and its broker agree
Agrees(t, x) ==
  /\ t.broker[x] # NoBroker <=> t.status[x].real # "DISCONNECT"
  /\ t.status[x].work = "ALLOW"

Fit(t, x) == Shape(t, x) /\ Agrees(t, x)

\* a timer will go on with the scheme
TimedIn(ts, x) == \E i \in DOMAIN ts : ts[i][1] # "close" /\ ts[i][2] = x

Under(t, x) == t.broker[x] # NoBroker \/ TimedIn(t.timers, x)

(***************************************************************************)
(* The invariant: somebody goes on with a scheme that waits, and with one  *)
(* that is wanted and kept alive. An id that is kept for a scheme may be   *)
(* stale and name another timer, so that a handler stops the wrong one:    *)
(* it does so only while there is a broker or before it makes a new timer. *)
(***************************************************************************)
Safe(t, x) ==
  /\ Fit(t, x)
  /\ t.status[x].wait # "DISCONNECT" => Under(t, x)
  /\ env.alive /\ t.wanted[x] => Under(t, x)

Single(x) == env.schemes = {x} /\ ~env.stopsWaiting /\ (env.alive \/ ~env.unresolved)

CInv == env \in Environments /\ \A x \in Schemes : Single(x) => Safe(Now, x)

(***************************************************************************)
(* The timers.                                                             *)
(***************************************************************************)
LEMMA Greatest ==
  ASSUME NEW D, Bounded(D), D # {}
  PROVE  Max(D) \in D /\ \A i \in D : i <= Max(D)
<1> DEFINE R == {ss \in Nat \X Nat : ss[1] < ss[2]}
           B == {n \in Nat : \A i \in D : i <= n}
<1>1. IsWellFoundedOn(R, Nat)
  BY NatLessThanWellFounded DEF OpToRel
<1>2. \A y, z \in Nat : ~(<<y, z>> \in R) => z <= y
  OBVIOUS
<1>3. B \subseteq Nat /\ B # {} /\ D \subseteq Nat
  BY DEF Bounded
<1>4. \E n \in B : \A y \in B : ~(<<y, n>> \in R)
  <2> HIDE DEF R, B
  <2> QED
    BY <1>1, <1>3, WFMin
<1>5. PICK n \in B : \A y \in B : n <= y
  <2> HIDE DEF R, B
  <2> QED
    BY <1>2, <1>3, <1>4
<1>6. n \in D
  <2> SUFFICES ASSUME n \notin D PROVE FALSE
    OBVIOUS
  <2>1. n \in Nat /\ \A i \in D : i \in Nat /\ i <= n /\ i # n
    BY <1>3, <1>5
  <2>2. PICK i \in D : TRUE
    OBVIOUS
  <2>3. n - 1 \in Nat /\ \A j \in D : j <= n - 1
    BY <2>1, <2>2
  <2>4. n - 1 \in B
    BY <2>3
  <2> QED
    BY <1>5, <2>1, <2>4
<1>7. \A i \in D : i <= n
  BY <1>5
<1>8. \A i \in D : n >= i
  BY <1>3, <1>5, <1>7
<1>9. Max(D) \in D /\ \A i \in D : Max(D) >= i
  BY <1>6, <1>8 DEF Max
<1> QED
  BY <1>3, <1>9

LEMMA Dropped ==
  ASSUME NEW x, NEW ts, TimersFit(ts, x), NEW i
  PROVE  TimersFit(Restrict(ts, DOMAIN ts \ {i}), x)
BY DEF TimersFit, Bounded, Restrict

\* a new timer gets an id of its own
LEMMA Added ==
  ASSUME NEW x, NEW ts, TimersFit(ts, x), NEW call \in Calls(x), NEW new, NEW n,
         n = (IF DOMAIN ts = {} THEN 1 ELSE 1 + Max(DOMAIN ts)),
         new = [i \in DOMAIN ts \cup {n} |-> IF i \in DOMAIN ts THEN ts[i] ELSE call]
  PROVE  TimersFit(new, x) /\ n \in DOMAIN new /\ new[n] = call
<1>1. n \in Nat /\ n \notin DOMAIN ts /\ \A i \in DOMAIN ts : i \in Nat /\ i <= n
  <2>1. CASE DOMAIN ts = {}
    BY <2>1
  <2>2. CASE DOMAIN ts # {}
    <3>1. Bounded(DOMAIN ts)
      BY DEF TimersFit
    <3>2. DOMAIN ts \subseteq Nat
      BY <3>1 DEF Bounded
    <3>3. Max(DOMAIN ts) \in DOMAIN ts /\ \A i \in DOMAIN ts : i <= Max(DOMAIN ts)
      BY <2>2, <3>1, Greatest
    <3>4. PICK m \in Nat : m = Max(DOMAIN ts)
      BY <3>2, <3>3
    <3> QED
      BY <2>2, <3>2, <3>3, <3>4
  <2> QED
    BY <2>1, <2>2
<1>2. Bounded(DOMAIN new)
  BY <1>1 DEF Bounded
<1> QED
  BY <1>1, <1>2 DEF TimersFit

(***************************************************************************)
(* What the small operators do to a scheme.                                *)
(***************************************************************************)
Alike(u, t) ==
  /\ IsState(u) /\ u.status = t.status /\ u.ip = t.ip
  /\ u.broker = t.broker /\ u.wanted = t.wanted

LEMMA AlikeFits ==
  ASSUME NEW x, NEW t, NEW u, Alike(u, t), TimersFit(u.timers, x)
  PROVE  /\ Shape(t, x) => Shape(u, x)
         /\ Agrees(t, x) => Agrees(u, x)
BY DEF Alike, Shape, Agrees, Untouched

LEMMA ClearedIs ==
  ASSUME NEW x, NEW t, Shape(t, x), NEW i
  PROVE  /\ Alike(ClearTimer(t, i), t) /\ TimersFit(ClearTimer(t, i).timers, x)
         /\ ClearTimer(t, i).timers = Restrict(t.timers, DOMAIN t.timers \ {i})
<1>1. IsState(t) /\ TimersFit(t.timers, x)
  BY DEF Shape
<1>2. ClearTimer(t, i).timers = Restrict(t.timers, DOMAIN t.timers \ {i})
  BY <1>1 DEF ClearTimer, IsState, Fields
<1>3. Alike(ClearTimer(t, i), t)
  BY <1>1 DEF Alike, ClearTimer, IsState, Fields
<1> QED
  BY <1>1, <1>2, <1>3, Dropped

LEMMA TimeoutIs ==
  ASSUME NEW x, NEW t, Shape(t, x), NEW call \in Calls(x)
  PROVE  /\ Alike(Timeout(t, call), t) /\ TimersFit(Timeout(t, call).timers, x)
         /\ NewTid(t) \in DOMAIN Timeout(t, call).timers
         /\ Timeout(t, call).timers[NewTid(t)] = call
<1>1. IsState(t) /\ TimersFit(t.timers, x)
  BY DEF Shape
<1>2. Alike(Timeout(t, call), t)
  BY <1>1 DEF Alike, Timeout, IsState, Fields
<1>3. Timeout(t, call).timers =
        [i \in DOMAIN t.timers \cup {NewTid(t)} |-> IF i \in DOMAIN t.timers THEN t.timers[i] ELSE call]
  BY <1>1 DEF Timeout, IsState, Fields
<1>4. NewTid(t) = IF DOMAIN t.timers = {} THEN 1 ELSE 1 + Max(DOMAIN t.timers)
  BY DEF NewTid
<1>5. /\ TimersFit(Timeout(t, call).timers, x)
      /\ NewTid(t) \in DOMAIN Timeout(t, call).timers
      /\ Timeout(t, call).timers[NewTid(t)] = call
  <2> DEFINE ts == t.timers
             new == Timeout(t, call).timers
             n == NewTid(t)
  <2>1. /\ TimersFit(ts, x) /\ n = (IF DOMAIN ts = {} THEN 1 ELSE 1 + Max(DOMAIN ts))
        /\ new = [i \in DOMAIN ts \cup {n} |-> IF i \in DOMAIN ts THEN ts[i] ELSE call]
    BY <1>1, <1>3, <1>4
  <2> HIDE DEF ts, new, n
  <2>2. TimersFit(new, x) /\ n \in DOMAIN new /\ new[n] = call
    BY <2>1, Added
  <2> QED
    BY <2>2 DEF new, n
<1> QED
  BY <1>2, <1>5

\* u is t with a new status of scheme x
Restated(u, t, x, work, wait, real) ==
  /\ Shape(u, x) /\ u.status[x] = [work |-> work, wait |-> wait, real |-> real]
  /\ u.ip = t.ip /\ u.broker = t.broker /\ u.wanted = t.wanted /\ u.timers = t.timers

LEMMA RestatedIs ==
  ASSUME NEW x, NEW t, Shape(t, x), NEW u, IsState(u),
         NEW m \in Modes, u.status = [t.status EXCEPT ![x] = m],
         u.ip = t.ip, u.broker = t.broker, u.wanted = t.wanted, u.timers = t.timers
  PROVE  Restated(u, t, x, m.work, m.wait, m.real)
<1>1. u.status \in [Schemes -> Modes] /\ u.status[x] = m
  BY DEF Shape
<1>2. \A s \in Schemes \ {x} : Untouched(u, s)
  BY DEF Shape, Untouched
<1>3. m = [work |-> m.work, wait |-> m.wait, real |-> m.real]
  BY DEF Modes
<1> QED
  BY <1>1, <1>2, <1>3 DEF Restated, Shape

LEMMA BothAre ==
  ASSUME NEW o \in Modes
  PROVE  [[o EXCEPT !.wait = "DISCONNECT"] EXCEPT !.real = "DISCONNECT"]
           = [work |-> o.work, wait |-> "DISCONNECT", real |-> "DISCONNECT"]
<1>1. PICK a \in {"ALLOW", "DISALLOW"}, w \in {"CONNECT", "RECONNECT", "DISCONNECT"},
           r \in {"PRECONNECT", "CONNECT", "DISCONNECT"} :
             o = [work |-> a, wait |-> w, real |-> r]
  BY DEF Modes
<1>2. [o EXCEPT !.wait = "DISCONNECT"] = [work |-> a, wait |-> "DISCONNECT", real |-> r]
  BY <1>1
<1>3. [[work |-> a, wait |-> "DISCONNECT", real |-> r] EXCEPT !.real = "DISCONNECT"]
        = [work |-> a, wait |-> "DISCONNECT", real |-> "DISCONNECT"]
  OBVIOUS
<1>4. o.work = a
  BY <1>1
<1> QED
  BY <1>2, <1>3, <1>4

LEMMA StatusIs ==
  ASSUME NEW x, NEW t, Shape(t, x), NEW o, o = t.status[x]
  PROVE  /\ \A m \in {"CONNECT", "RECONNECT", "DISCONNECT"} :
              Restated(Wait(t, x, m), t, x, o.work, m, o.real)
         /\ \A m \in {"ALLOW", "DISALLOW"} : Restated(Work(t, x, m), t, x, m, o.wait, o.real)
         /\ \A m \in {"PRECONNECT", "CONNECT", "DISCONNECT"} :
              Restated(Real(t, x, m), t, x, o.work, o.wait, m)
<1>1. o \in Modes /\ o = [work |-> o.work, wait |-> o.wait, real |-> o.real] /\ IsState(t)
      /\ x \in Schemes /\ t.status \in [Schemes -> Modes]
  BY DEF Shape, Modes
<1>2. ASSUME NEW m \in {"CONNECT", "RECONNECT", "DISCONNECT"}
      PROVE  Restated(Wait(t, x, m), t, x, o.work, m, o.real)
  <2> DEFINE n == [work |-> o.work, wait |-> m, real |-> o.real]
             u == Wait(t, x, m)
  <2>1. n \in Modes
    BY <1>1 DEF Modes
  <2>2. [o EXCEPT !.wait = m] = n
    BY <1>1
  <2>3. u = [t EXCEPT !.status = [t.status EXCEPT ![x] = n]]
    BY <1>1, <2>2 DEF Wait, IsState, Fields
  <2> HIDE DEF n
  <2>4. /\ IsState(u) /\ u.status = [t.status EXCEPT ![x] = n]
        /\ u.ip = t.ip /\ u.broker = t.broker /\ u.wanted = t.wanted /\ u.timers = t.timers
    BY <1>1, <2>3 DEF IsState, Fields
  <2> HIDE DEF u
  <2>5. Restated(u, t, x, n.work, n.wait, n.real)
    BY <2>1, <2>4, RestatedIs
  <2>6. n.work = o.work /\ n.wait = m /\ n.real = o.real
    BY DEF n
  <2>7. Restated(u, t, x, o.work, m, o.real)
    BY <2>5, <2>6
  <2> QED
    BY <2>7 DEF u
<1>3. ASSUME NEW m \in {"ALLOW", "DISALLOW"}
      PROVE  Restated(Work(t, x, m), t, x, m, o.wait, o.real)
  <2> DEFINE n == [work |-> m, wait |-> o.wait, real |-> o.real]
             u == Work(t, x, m)
  <2>1. n \in Modes
    BY <1>1 DEF Modes
  <2>2. [o EXCEPT !.work = m] = n
    BY <1>1
  <2>3. u = [t EXCEPT !.status = [t.status EXCEPT ![x] = n]]
    BY <1>1, <2>2 DEF Work, IsState, Fields
  <2> HIDE DEF n
  <2>4. /\ IsState(u) /\ u.status = [t.status EXCEPT ![x] = n]
        /\ u.ip = t.ip /\ u.broker = t.broker /\ u.wanted = t.wanted /\ u.timers = t.timers
    BY <1>1, <2>3 DEF IsState, Fields
  <2> HIDE DEF u
  <2>5. Restated(u, t, x, n.work, n.wait, n.real)
    BY <2>1, <2>4, RestatedIs
  <2>6. n.work = m /\ n.wait = o.wait /\ n.real = o.real
    BY DEF n
  <2>7. Restated(u, t, x, m, o.wait, o.real)
    BY <2>5, <2>6
  <2> QED
    BY <2>7 DEF u
<1>4. ASSUME NEW m \in {"PRECONNECT", "CONNECT", "DISCONNECT"}
      PROVE  Restated(Real(t, x, m), t, x, o.work, o.wait, m)
  <2> DEFINE n == [work |-> o.work, wait |-> o.wait, real |-> m]
             u == Real(t, x, m)
  <2>1. n \in Modes
    BY <1>1 DEF Modes
  <2>2. [o EXCEPT !.real = m] = n
    BY <1>1
  <2>3. u = [t EXCEPT !.status = [t.status EXCEPT ![x] = n]]
    BY <1>1, <2>2 DEF Real, IsState, Fields
  <2> HIDE DEF n
  <2>4. /\ IsState(u) /\ u.status = [t.status EXCEPT ![x] = n]
        /\ u.ip = t.ip /\ u.broker = t.broker /\ u.wanted = t.wanted /\ u.timers = t.timers
    BY <1>1, <2>3 DEF IsState, Fields
  <2> HIDE DEF u
  <2>5. Restated(u, t, x, n.work, n.wait, n.real)
    BY <2>1, <2>4, RestatedIs
  <2>6. n.work = o.work /\ n.wait = o.wait /\ n.real = m
    BY DEF n
  <2>7. Restated(u, t, x, o.work, o.wait, m)
    BY <2>5, <2>6
  <2> QED
    BY <2>7 DEF u
<1> QED
  BY <1>2, <1>3, <1>4

LEMMA ToldIs ==
  ASSUME NEW x, NEW t, Shape(t, x)
  PROVE  Alike(Told(t, x), t) /\ Told(t, x).timers = t.timers
<1>1. IsState(t)
  BY DEF Shape
<1> QED
  BY <1>1 DEF Told, Alike, IsState, Fields

\* giving up, when the scheme does not wait
LEMMA GivenUpSafe ==
  ASSUME NEW x, NEW t, Fit(t, x), t.status[x].wait = "DISCONNECT"
  PROVE  Safe(GivenUp(t, x), x)
<1> DEFINE u == GivenUp(t, x)
<1>1. IsState(t) /\ x \in Schemes /\ t.wanted \in [Schemes -> BOOLEAN]
  BY DEF Fit, Shape
<1>2. /\ IsState(u) /\ u.status = t.status /\ u.ip = t.ip /\ u.broker = t.broker
      /\ u.timers = t.timers /\ u.wanted = [t.wanted EXCEPT ![x] = FALSE]
  BY <1>1 DEF GivenUp, Told, IsState, Fields
<1> HIDE DEF u
<1>3. u.wanted \in [Schemes -> BOOLEAN] /\ ~u.wanted[x]
  BY <1>1, <1>2
<1>4. \A s \in Schemes \ {x} : Untouched(u, s)
  BY <1>1, <1>2 DEF Fit, Shape, Untouched
<1>5. Fit(u, x)
  BY <1>2, <1>3, <1>4 DEF Fit, Shape, Agrees
<1>6. Safe(u, x)
  BY <1>2, <1>3, <1>5 DEF Safe
<1> QED
  BY <1>6 DEF u

\* the timer of _timeouts will go on with the scheme
LEMMA CreateTimeoutSafe ==
  ASSUME NEW x, NEW t, Fit(t, x), NEW mode \in {"connect", "reconnect"}
  PROVE  Safe(CreateTimeout(t, x, mode), x)
<1> DEFINE c == ClearTimer(t, t.timeouts[x])
           d == Timeout(c, <<mode, x>>)
           u == CreateTimeout(t, x, mode)
<1>1. Shape(c, x) /\ Agrees(c, x)
  BY ClearedIs, AlikeFits DEF Fit
<1>2. <<mode, x>> \in Calls(x)
  BY DEF Calls
<1>3. /\ Alike(d, c) /\ TimersFit(d.timers, x)
      /\ NewTid(c) \in DOMAIN d.timers /\ d.timers[NewTid(c)] = <<mode, x>>
  <2> HIDE DEF c
  <2> QED
    BY <1>1, <1>2, TimeoutIs
<1>4. u = [d EXCEPT !.timeouts[x] = NewTid(c)]
  BY DEF CreateTimeout
<1> HIDE DEF c, d, u
<1>5. IsState(d)
  BY <1>3 DEF Alike
<1>6. Alike(u, d) /\ u.timers = d.timers
  BY <1>4, <1>5 DEF Alike, IsState, Fields
<1>7. Alike(u, c) /\ TimersFit(u.timers, x)
  BY <1>3, <1>6 DEF Alike
<1>8. Fit(u, x)
  BY <1>1, <1>7, AlikeFits DEF Fit
<1>9. TimedIn(u.timers, x)
  BY <1>3, <1>6 DEF TimedIn
<1>10. Safe(u, x)
  BY <1>8, <1>9 DEF Safe, Under
<1> QED
  BY <1>10 DEF u

(***************************************************************************)
(* The handlers.                                                           *)
(***************************************************************************)
\* an address that is known, or a scheme that is kept alive
LEMMA AddressedIs ==
  ASSUME NEW x, Single(x), NEW t, Fit(t, x), NEW r \in Addressed(t, x)
  PROVE  /\ Fit(r, x) /\ r.ip[x] \in BOOLEAN /\ (r.ip[x] \/ env.alive)
         /\ r.status = t.status
<1>1. /\ IsState(t) /\ x \in Schemes /\ t.ip \in [Schemes -> BOOLEAN]
  BY DEF Fit, Shape
<1>2. CASE r = t
  <2>1. t.ip[x] \/ env.unresolved
    BY <1>1, <1>2 DEF Addressed, Resolved, Fit, Shape, IsState, Fields
  <2> QED
    BY <1>1, <1>2, <2>1 DEF Single
<1>3. CASE r = [t EXCEPT !.ip[x] = TRUE]
  <2>1. /\ IsState(r) /\ r.status = t.status /\ r.broker = t.broker /\ r.wanted = t.wanted
        /\ r.timers = t.timers /\ r.ip = [t.ip EXCEPT ![x] = TRUE]
    BY <1>1, <1>3 DEF IsState, Fields
  <2>2. r.ip \in [Schemes -> BOOLEAN] /\ r.ip[x]
    BY <1>1, <2>1
  <2>3. \A s \in Schemes \ {x} : Untouched(r, s)
    BY <2>1 DEF Fit, Shape, Untouched
  <2> QED
    BY <2>1, <2>2, <2>3 DEF Fit, Shape, Agrees
<1>4. r = t \/ r = [t EXCEPT !.ip[x] = TRUE]
  BY DEF Addressed, Resolved
<1> QED
  BY <1>2, <1>3, <1>4

LEMMA ReconnectSafe ==
  ASSUME NEW x, Single(x), NEW t, Fit(t, x), t.status[x].wait = "DISCONNECT",
         NEW u \in Reconnect(t, x)
  PROVE  Safe(u, x)
<1> DEFINE w == Wait(t, x, "RECONNECT")
<1>1. Ready(t, x)
  BY DEF Ready, Fit, Agrees
<1>2. PICK r \in Addressed(w, x) : u = Waiting(r, x)
  BY <1>1 DEF Reconnect
<1>3. Restated(w, t, x, t.status[x].work, "RECONNECT", t.status[x].real)
  BY StatusIs DEF Fit
<1> HIDE DEF w
<1>4. Fit(w, x)
  BY <1>3 DEF Restated, Fit, Agrees
<1>5. Fit(r, x) /\ r.ip[x] \in BOOLEAN /\ (r.ip[x] \/ env.alive)
  BY <1>4, AddressedIs
<1>6. \E mode \in {"connect", "reconnect"} : u = CreateTimeout(r, x, mode)
  BY <1>2, <1>5 DEF Waiting
<1> QED
  BY <1>5, <1>6, CreateTimeoutSafe

LEMMA ClearTimeoutIs ==
  ASSUME NEW x, NEW t, Shape(t, x)
  PROVE  Alike(ClearTimeout(t, x), t) /\ TimersFit(ClearTimeout(t, x).timers, x)
<1> DEFINE c == ClearTimer(t, t.timeouts[x])
           u == ClearTimeout(t, x)
<1>1. Alike(c, t) /\ TimersFit(c.timers, x)
  BY ClearedIs
<1>2. u = [c EXCEPT !.timeouts[x] = NoTimer]
  BY DEF ClearTimeout
<1> HIDE DEF c, u
<1>3. IsState(c)
  BY <1>1 DEF Alike
<1>4. Alike(u, c) /\ u.timers = c.timers
  BY <1>2, <1>3 DEF Alike, IsState, Fields
<1>5. Alike(u, t) /\ TimersFit(u.timers, x)
  BY <1>1, <1>4 DEF Alike
<1> QED
  BY <1>5 DEF u

\* without its broker the scheme is ready, whatever its status was
LEMMA DetachedFits ==
  ASSUME NEW x, NEW t, Shape(t, x), t.status[x].work = "ALLOW"
  PROVE  Fit(Detached(t, x), x) /\ Detached(t, x).status[x].wait = "DISCONNECT"
<1> DEFINE a == IF env.read THEN ClearTimer(t, t.receive[x]) ELSE t
           c == ClearTimeout(a, x)
           u == Detached(t, x)
           o == t.status[x]
           n == [work |-> "ALLOW", wait |-> "DISCONNECT", real |-> "DISCONNECT"]
<1>1. Alike(a, t) /\ Shape(a, x)
  <2>1. IsState(t) /\ TimersFit(t.timers, x)
    BY DEF Shape
  <2>2. Alike(a, t) /\ TimersFit(a.timers, x)
    BY <2>1, ClearedIs DEF Alike
  <2> QED
    BY <2>2, AlikeFits
<1>2. u = [c EXCEPT !.broker[x] = NoBroker, !.receive[x] = NoTimer,
                    !.status[x].wait = "DISCONNECT", !.status[x].real = "DISCONNECT"]
  BY DEF Detached
<1> HIDE DEF a
<1>3. Alike(c, a) /\ TimersFit(c.timers, x)
  BY <1>1, ClearTimeoutIs
<1> HIDE DEF c, u
<1>4. Shape(c, x) /\ c.status = t.status
  BY <1>1, <1>3, AlikeFits DEF Alike
<1>5. IsState(c) /\ x \in Schemes /\ c.status \in [Schemes -> Modes]
      /\ c.broker \in [Schemes -> Bids \cup {NoBroker}]
  BY <1>4 DEF Shape
<1>6. o \in Modes /\ o.work = "ALLOW"
  BY <1>4, <1>5
<1>7. [[o EXCEPT !.wait = "DISCONNECT"] EXCEPT !.real = "DISCONNECT"] = n
  <2> HIDE DEF o, n
  <2>1. [[o EXCEPT !.wait = "DISCONNECT"] EXCEPT !.real = "DISCONNECT"]
          = [work |-> o.work, wait |-> "DISCONNECT", real |-> "DISCONNECT"]
    BY <1>6, BothAre
  <2> QED
    BY <1>6, <2>1 DEF n
<1>8. /\ IsState(u) /\ u.ip = c.ip /\ u.wanted = c.wanted /\ u.timers = c.timers
      /\ u.broker = [c.broker EXCEPT ![x] = NoBroker]
      /\ u.status = [[c.status EXCEPT ![x].wait = "DISCONNECT"] EXCEPT ![x].real = "DISCONNECT"]
  BY <1>2, <1>5 DEF IsState, Fields
<1>9. u.status = [c.status EXCEPT ![x] = n]
  BY <1>4, <1>5, <1>7, <1>8
<1>10. n \in Modes
  BY DEF Modes
<1> HIDE DEF n
<1>11. u.status \in [Schemes -> Modes] /\ u.status[x] = n
  BY <1>5, <1>9, <1>10
<1>12. u.broker \in [Schemes -> Bids \cup {NoBroker}] /\ u.broker[x] = NoBroker
  BY <1>5, <1>8
<1>13. \A s \in Schemes \ {x} : Untouched(u, s)
  BY <1>4, <1>5, <1>8, <1>9 DEF Shape, Untouched
<1>14. Shape(u, x)
  BY <1>4, <1>8, <1>11, <1>12, <1>13 DEF Shape
<1>15. n.work = "ALLOW" /\ n.wait = "DISCONNECT" /\ n.real = "DISCONNECT"
  BY DEF n
<1>16. Fit(u, x) /\ u.status[x].wait = "DISCONNECT"
  BY <1>11, <1>12, <1>14, <1>15 DEF Fit, Agrees
<1> QED
  BY <1>16 DEF u

\* close(bid), also when connect() has already reset the status
LEMMA CloseSafe ==
  ASSUME NEW x, Single(x), NEW t, Shape(t, x), t.status[x].work = "ALLOW",
         NEW u \in Close(t, x)
  PROVE  Safe(u, x)
<1> DEFINE d == Detached(t, x)
<1>1. Fit(d, x) /\ d.status[x].wait = "DISCONNECT"
  BY DetachedFits
<1>2. u \in Reconnect(Told(d, x), x) \/ u = GivenUp(d, x)
  BY DEF Close
<1> HIDE DEF d
<1>3. Fit(Told(d, x), x) /\ Told(d, x).status = d.status
  <2>1. TimersFit(d.timers, x) /\ Shape(d, x)
    BY <1>1 DEF Fit, Shape
  <2>2. Alike(Told(d, x), d) /\ TimersFit(Told(d, x).timers, x)
    BY <2>1, ToldIs
  <2> QED
    BY <1>1, <2>2, AlikeFits DEF Fit, Alike
<1>4. CASE u \in Reconnect(Told(d, x), x)
  BY <1>1, <1>3, <1>4, ReconnectSafe
<1>5. CASE u = GivenUp(d, x)
  BY <1>1, <1>5, GivenUpSafe
<1> QED
  BY <1>2, <1>4, <1>5

\* the beginning of connect(), up to a new broker
LEMMA BeganIs ==
  ASSUME NEW x, NEW t, Shape(t, x)
  PROVE  /\ Shape(Began(t, x), x) /\ Began(t, x).broker[x] = NoBroker
         /\ Began(t, x).status[x] =
              [work |-> "DISALLOW", wait |-> "DISCONNECT", real |-> "PRECONNECT"]
<1> DEFINE u == Began(t, x)
           n == [work |-> "DISALLOW", wait |-> "DISCONNECT", real |-> "PRECONNECT"]
<1>1. IsState(t) /\ x \in Schemes /\ t.status \in [Schemes -> Modes]
      /\ t.broker \in [Schemes -> Bids \cup {NoBroker}]
  BY DEF Shape
<1>2. /\ IsState(u) /\ u.ip = t.ip /\ u.wanted = t.wanted /\ u.timers = t.timers
      /\ u.broker = [t.broker EXCEPT ![x] = NoBroker] /\ u.status = [t.status EXCEPT ![x] = n]
  BY <1>1 DEF Began, IsState, Fields
<1>3. n \in Modes
  BY DEF Modes
<1> HIDE DEF u, n
<1>4. u.status \in [Schemes -> Modes] /\ u.status[x] = n
      /\ u.broker \in [Schemes -> Bids \cup {NoBroker}] /\ u.broker[x] = NoBroker
  BY <1>1, <1>2, <1>3
<1>5. \A s \in Schemes \ {x} : Untouched(u, s)
  BY <1>1, <1>2 DEF Shape, Untouched
<1>6. Shape(u, x)
  BY <1>2, <1>4, <1>5 DEF Shape
<1> QED
  BY <1>4, <1>6 DEF u, n

LEMMA EndedIs ==
  ASSUME NEW x, NEW t, Shape(t, x)
  PROVE  Restated(Ended(t, x), t, x, "ALLOW", t.status[x].wait, "DISCONNECT")
<1> DEFINE r == Real(t, x, "DISCONNECT")
           o == t.status[x]
<1>1. Restated(r, t, x, o.work, o.wait, "DISCONNECT")
  BY StatusIs
<1>2. Ended(t, x) = Work(r, x, "ALLOW")
  BY DEF Ended
<1> HIDE DEF r
<1>3. Shape(r, x) /\ r.status[x].wait = o.wait /\ r.status[x].real = "DISCONNECT"
  BY <1>1 DEF Restated
<1>4. Restated(Work(r, x, "ALLOW"), r, x, "ALLOW", r.status[x].wait, r.status[x].real)
  BY <1>3, StatusIs
<1> QED
  BY <1>1, <1>2, <1>3, <1>4 DEF Restated

LEMMA AttachIs ==
  ASSUME NEW x, NEW t, Shape(t, x), Fresh(t) # {}, ClientAssumption
  PROVE  /\ Shape(Attach(t, x), x) /\ Attach(t, x).broker[x] # NoBroker
         /\ Attach(t, x).status = t.status
<1> DEFINE b == Min(Fresh(t))
           u == Attach(t, x)
           R == {ss \in Nat \X Nat : ss[1] < ss[2]}
<1>1. IsState(t) /\ x \in Schemes /\ t.broker \in [Schemes -> Bids \cup {NoBroker}]
  BY DEF Shape
<1>2. Fresh(t) \subseteq Bids /\ Bids \subseteq Nat
  BY DEF Fresh, ClientAssumption
<1>3. b \in Fresh(t)
  <2>1. IsWellFoundedOn(R, Nat)
    BY NatLessThanWellFounded DEF OpToRel
  <2>2. \A y, z \in Nat : ~(<<y, z>> \in R) => z <= y
    OBVIOUS
  <2> HIDE DEF R
  <2>3. \E n \in Fresh(t) : \A y \in Fresh(t) : ~(<<y, n>> \in R)
    BY <1>2, <2>1, WFMin
  <2>4. \E n \in Fresh(t) : \A y \in Fresh(t) : n <= y
    BY <1>2, <2>2, <2>3
  <2> QED
    BY <2>4 DEF Min
<1>4. b \in Bids /\ b # NoBroker
  BY <1>2, <1>3 DEF ClientAssumption, NoBroker
<1>5. /\ IsState(u) /\ u.ip = t.ip /\ u.wanted = t.wanted /\ u.timers = t.timers
      /\ u.broker = [t.broker EXCEPT ![x] = b] /\ u.status = t.status
  BY <1>1 DEF Attach, IsState, Fields
<1> HIDE DEF b, u
<1>6. u.broker \in [Schemes -> Bids \cup {NoBroker}] /\ u.broker[x] = b
  BY <1>1, <1>4, <1>5
<1>7. \A s \in Schemes \ {x} : Untouched(u, s)
  BY <1>1, <1>5 DEF Shape, Untouched
<1>8. Shape(u, x)
  BY <1>5, <1>6, <1>7 DEF Shape
<1> QED
  BY <1>4, <1>5, <1>6, <1>8 DEF u

LEMMA ConnectSafe ==
  ASSUME NEW x, Single(x), NEW t, Fit(t, x), ClientAssumption, NEW u \in Connect(t, x)
  PROVE  Safe(u, x)
<1> DEFINE b == Began(t, x)
           e == Ended(b, x)
           a == Attach(b, x)
           f == [Ended(a, x) EXCEPT !.ip[x] = FALSE]
<1>1. CASE ~MayConnect(t, x)
  <2>1. u = t
    BY <1>1 DEF Connect
  <2>2. t.broker[x] # NoBroker
    BY <1>1 DEF MayConnect, Fit, Agrees
  <2> QED
    BY <2>1, <2>2 DEF Safe, Under
<1>2. CASE MayConnect(t, x)
  <2>1. \/ Fresh(b) # {} /\ (u \in Pending(b, x) \/ u \in Refused(b, x))
        \/ u \in Reconnect(e, x) \/ u \in BadSocket(b, x) \/ u = GivenUp(e, x)
    BY <1>2 DEF Connect
  <2>2. /\ Shape(b, x) /\ b.broker[x] = NoBroker
        /\ b.status[x] = [work |-> "DISALLOW", wait |-> "DISCONNECT", real |-> "PRECONNECT"]
    BY BeganIs DEF Fit
  <2> HIDE DEF b
  <2>3. Fit(e, x) /\ e.status[x].wait = "DISCONNECT"
    <3>1. Restated(e, b, x, "ALLOW", b.status[x].wait, "DISCONNECT")
      BY <2>2, EndedIs
    <3> HIDE DEF e
    <3> QED
      BY <2>2, <3>1 DEF Restated, Fit, Agrees
  <2>4. CASE Fresh(b) # {} /\ u \in Pending(b, x)
    <3>1. Shape(a, x) /\ a.broker[x] # NoBroker /\ a.status = b.status
      BY <2>2, <2>4, AttachIs
    <3>2. u = Work(a, x, "ALLOW")
      BY <2>4 DEF Pending
    <3> HIDE DEF a
    <3>3. Restated(u, a, x, "ALLOW", "DISCONNECT", "PRECONNECT")
      BY <2>2, <3>1, <3>2, StatusIs
    <3> QED
      BY <3>1, <3>3 DEF Restated, Safe, Fit, Agrees, Under
  <2>5. CASE Fresh(b) # {} /\ u \in Refused(b, x)
    <3>1. Shape(a, x)
      BY <2>2, <2>5, AttachIs
    <3>2. u \in Close(f, x)
      BY <2>5 DEF Refused
    <3> HIDE DEF a
    <3>3. Shape(Ended(a, x), x) /\ Ended(a, x).status[x].work = "ALLOW"
      <4>1. Restated(Ended(a, x), a, x, "ALLOW", a.status[x].wait, "DISCONNECT")
        BY <3>1, EndedIs
      <4> QED
        BY <4>1 DEF Restated
    <3>4. Shape(f, x) /\ f.status = Ended(a, x).status
      <4> DEFINE c == Ended(a, x)
      <4>1. IsState(c) /\ x \in Schemes /\ c.ip \in [Schemes -> BOOLEAN]
        BY <3>3 DEF Shape
      <4>2. f = [c EXCEPT !.ip[x] = FALSE]
        OBVIOUS
      <4> HIDE DEF c, f
      <4>3. /\ IsState(f) /\ f.status = c.status /\ f.broker = c.broker
            /\ f.wanted = c.wanted /\ f.timers = c.timers /\ f.ip = [c.ip EXCEPT ![x] = FALSE]
        BY <4>1, <4>2 DEF IsState, Fields
      <4>4. f.ip \in [Schemes -> BOOLEAN]
        BY <4>1, <4>3
      <4>5. Shape(c, x)
        BY <3>3 DEF c
      <4> QED
        BY <4>3, <4>4, <4>5 DEF Shape, Untouched, c
    <3> HIDE DEF f
    <3> QED
      BY <3>2, <3>3, <3>4, CloseSafe
  <2>6. CASE u \in Reconnect(e, x)
    BY <2>3, <2>6, ReconnectSafe
  <2>7. CASE u = GivenUp(e, x)
    BY <2>3, <2>7, GivenUpSafe
  <2>8. CASE u \in BadSocket(b, x)
    <3>1. u \in Reconnect(e, x) \/ u = GivenUp(e, x)
      BY <2>8 DEF BadSocket
    <3> QED
      BY <2>6, <2>7, <3>1
  <2> QED
    BY <2>1, <2>4, <2>5, <2>6, <2>7, <2>8
<1> QED
  BY <1>1, <1>2

LEMMA OpenSafe ==
  ASSUME NEW x, Single(x), NEW t, Safe(t, x), ClientAssumption, NEW u \in Open(t, x)
  PROVE  Safe(u, x)
<1> DEFINE a == [t EXCEPT !.wanted[x] = TRUE]
           w == Wait(a, x, "CONNECT")
<1>1. IsState(t) /\ x \in Schemes /\ t.wanted \in [Schemes -> BOOLEAN]
  BY DEF Safe, Fit, Shape
<1>2. /\ IsState(a) /\ a.status = t.status /\ a.ip = t.ip /\ a.broker = t.broker
      /\ a.timers = t.timers /\ a.wanted = [t.wanted EXCEPT ![x] = TRUE]
  BY <1>1 DEF IsState, Fields
<1>3. \/ Ready(t, x) /\ \E r \in Addressed(w, x) : u \in Opening(r, x)
      \/ ~Ready(t, x) /\ u = a
  <2>1. Open(t, x) = IF Ready(t, x) THEN UNION {Opening(r, x) : r \in Addressed(w, x)} ELSE {a}
    BY DEF Open
  <2> HIDE DEF a, w
  <2> QED
    BY <2>1
<1> HIDE DEF a
<1>4. a.wanted \in [Schemes -> BOOLEAN]
  BY <1>1, <1>2
<1>5. \A s \in Schemes \ {x} : Untouched(a, s)
  BY <1>1, <1>2 DEF Safe, Fit, Shape, Untouched
<1>6. Fit(a, x)
  BY <1>2, <1>4, <1>5 DEF Safe, Fit, Shape, Agrees
<1>7. CASE ~Ready(t, x) /\ u = a
  <2>1. Under(t, x)
    BY <1>2, <1>7 DEF Ready, Safe, Fit, Agrees
  <2>2. Under(a, x)
    BY <1>2, <2>1 DEF Under
  <2> QED
    BY <1>6, <1>7, <2>2 DEF Safe
<1>8. CASE Ready(t, x) /\ \E r \in Addressed(w, x) : u \in Opening(r, x)
  <2>1. Restated(w, a, x, a.status[x].work, "CONNECT", a.status[x].real)
    BY <1>6, StatusIs DEF Fit
  <2> HIDE DEF w
  <2>2. Fit(w, x)
    BY <1>6, <2>1 DEF Restated, Fit, Agrees
  <2>3. PICK r \in Addressed(w, x) : u \in Opening(r, x)
    BY <1>8
  <2>4. Fit(r, x) /\ r.ip[x] \in BOOLEAN /\ (r.ip[x] \/ env.alive)
    BY <2>2, AddressedIs
  <2>5. u \in Connect(r, x) \/ u = CreateTimeout(r, x, "reconnect")
    BY <2>3, <2>4 DEF Opening
  <2> QED
    BY <2>4, <2>5, ConnectSafe, CreateTimeoutSafe
<1> QED
  BY <1>3, <1>7, <1>8

\* close() of everything: the schemes without a broker keep their status
LEMMA CloseAllFits ==
  ASSUME NEW x, NEW t, Fit(t, x), NEW u, u = CloseAll(t)
  PROVE  /\ Fit(u, x) /\ u.broker[x] = NoBroker /\ ~u.wanted[x]
         /\ t.status[x].wait = "DISCONNECT" => u.status[x].wait = "DISCONNECT"
<1> DEFINE has == {s \in Schemes : t.broker[s] # NoBroker}
           st == [s \in Schemes |->
                   IF s \in has THEN [t.status[s] EXCEPT !.wait = "DISCONNECT", !.real = "DISCONNECT"]
                   ELSE t.status[s]]
<1>1. IsState(t) /\ x \in Schemes /\ t.status \in [Schemes -> Modes]
      /\ t.broker \in [Schemes -> Bids \cup {NoBroker}]
  BY DEF Fit, Shape
<1>2. /\ IsState(u) /\ u.status = st /\ u.ip = t.ip /\ u.timers = <<>>
      /\ u.broker = [s \in Schemes |-> NoBroker] /\ u.wanted = [s \in Schemes |-> FALSE]
  BY <1>1 DEF CloseAll, ClosedSilently, IsState, Fields
<1>3. ASSUME NEW s \in Schemes
      PROVE  /\ st[s] \in Modes /\ st[s].work = t.status[s].work
             /\ st[s].wait = t.status[s].wait \/ st[s].wait = "DISCONNECT"
             /\ s \in has => st[s].real = "DISCONNECT"
             /\ s \notin has => st[s] = t.status[s]
  <2> DEFINE o == t.status[s]
             n == [[o EXCEPT !.wait = "DISCONNECT"] EXCEPT !.real = "DISCONNECT"]
  <2>1. o \in Modes /\ o = [work |-> o.work, wait |-> o.wait, real |-> o.real]
    BY <1>1 DEF Modes
  <2>2. st[s] = IF s \in has THEN n ELSE o
    OBVIOUS
  <2> HIDE DEF o, has, st
  <2>3. n = [work |-> o.work, wait |-> "DISCONNECT", real |-> "DISCONNECT"]
    BY <2>1, BothAre
  <2>4. n \in Modes
    BY <2>1, <2>3 DEF Modes
  <2> HIDE DEF n
  <2> QED
    BY <2>1, <2>2, <2>3, <2>4 DEF o
<1>4. TimersFit(u.timers, x)
  <2>1. DOMAIN <<>> = {}
    OBVIOUS
  <2>2. u.timers = <<>>
    BY <1>2
  <2>3. DOMAIN u.timers = {}
    BY <2>1, <2>2
  <2> HIDE DEF has, st
  <2> QED
    BY <2>3 DEF TimersFit, Bounded
<1> HIDE DEF st
<1>5. u.status \in [Schemes -> Modes]
  <2>1. u.status = [s \in Schemes |-> u.status[s]]
    BY <1>2 DEF st
  <2>2. \A s \in Schemes : u.status[s] \in Modes
    BY <1>2, <1>3
  <2> HIDE DEF has
  <2> QED
    BY <2>1, <2>2
<1>6. /\ u.broker \in [Schemes -> Bids \cup {NoBroker}] /\ u.wanted \in [Schemes -> BOOLEAN]
      /\ \A s \in Schemes : u.broker[s] = NoBroker /\ ~u.wanted[s]
  BY <1>2
<1>7. \A s \in Schemes \ {x} : Untouched(u, s)
  BY <1>2, <1>3, <1>6 DEF Fit, Shape, Untouched
<1>8. Shape(u, x)
  BY <1>1, <1>2, <1>4, <1>5, <1>6, <1>7 DEF Fit, Shape
<1>9. u.status[x].work = "ALLOW" /\ u.status[x].real = "DISCONNECT"
  <2>1. t.status[x].work = "ALLOW" /\ (x \notin has => t.status[x].real = "DISCONNECT")
    BY <1>1 DEF Fit, Agrees
  <2> QED
    BY <1>1, <1>2, <1>3, <2>1
<1>10. t.status[x].wait = "DISCONNECT" => u.status[x].wait = "DISCONNECT"
  BY <1>1, <1>2, <1>3
<1> QED
  BY <1>1, <1>6, <1>8, <1>9, <1>10 DEF Fit, Agrees

LEMMA ReleasedSafe ==
  ASSUME NEW x, Single(x), NEW t, Fit(t, x), t.broker[x] = NoBroker, ~t.wanted[x],
         NEW u \in Released(t, x)
  PROVE  Safe(u, x)
<1> DEFINE r == Real(t, x, "DISCONNECT")
           w == Wait(r, x, "DISCONNECT")
           f == Work(w, x, "ALLOW")
           a == [f EXCEPT !.wanted[x] = TRUE]
<1>1. \/ env.alive /\ u \in Reconnect(a, x)
      \/ ~env.alive /\ u = f
  BY DEF Released
<1>2. Restated(r, t, x, t.status[x].work, t.status[x].wait, "DISCONNECT")
  BY StatusIs DEF Fit
<1> HIDE DEF r
<1>3. Restated(w, t, x, t.status[x].work, "DISCONNECT", "DISCONNECT")
  <2>1. Shape(r, x)
    BY <1>2 DEF Restated
  <2>2. Restated(w, r, x, r.status[x].work, "DISCONNECT", r.status[x].real)
    BY <2>1, StatusIs
  <2> HIDE DEF w
  <2> QED
    BY <1>2, <2>2 DEF Restated
<1> HIDE DEF w
<1>4. Restated(f, t, x, "ALLOW", "DISCONNECT", "DISCONNECT")
  <2>1. Shape(w, x)
    BY <1>3 DEF Restated
  <2>2. Restated(f, w, x, "ALLOW", w.status[x].wait, w.status[x].real)
    BY <2>1, StatusIs
  <2> HIDE DEF f
  <2> QED
    BY <1>3, <2>2 DEF Restated
<1> HIDE DEF f
<1>5. Fit(f, x) /\ f.status[x].wait = "DISCONNECT" /\ ~f.wanted[x]
  BY <1>4 DEF Restated, Fit, Agrees
<1>6. CASE ~env.alive /\ u = f
  BY <1>5, <1>6 DEF Safe
<1>7. CASE env.alive /\ u \in Reconnect(a, x)
  <2>1. IsState(f) /\ x \in Schemes /\ f.wanted \in [Schemes -> BOOLEAN]
    BY <1>5 DEF Fit, Shape
  <2>2. /\ IsState(a) /\ a.status = f.status /\ a.ip = f.ip /\ a.broker = f.broker
        /\ a.timers = f.timers /\ a.wanted = [f.wanted EXCEPT ![x] = TRUE]
    BY <2>1 DEF IsState, Fields
  <2> HIDE DEF a
  <2>3. a.wanted \in [Schemes -> BOOLEAN]
    BY <2>1, <2>2
  <2>4. \A s \in Schemes \ {x} : Untouched(a, s)
    BY <1>5, <2>1, <2>2 DEF Fit, Shape, Untouched
  <2>5. Fit(a, x)
    BY <1>5, <2>2, <2>3, <2>4 DEF Fit, Shape, Agrees
  <2> QED
    BY <1>5, <1>7, <2>2, <2>5, ReconnectSafe
<1> QED
  BY <1>1, <1>6, <1>7

\* close() of a timer: its broker may be gone, and then nothing happens
LEMMA CalledSafe ==
  ASSUME NEW x, Single(x), ClientAssumption, NEW t, Safe(t, x), NEW i \in DOMAIN t.timers,
         NEW u \in Called(ClearTimer(t, i), t.timers[i])
  PROVE  Safe(u, x)
<1> DEFINE c == ClearTimer(t, i)
           call == t.timers[i]
<1>1. Fit(t, x) /\ Shape(t, x) /\ IsState(t)
  BY DEF Safe, Fit, Shape
<1>2. Alike(c, t) /\ TimersFit(c.timers, x) /\ c.timers = Restrict(t.timers, DOMAIN t.timers \ {i})
  BY <1>1, ClearedIs
<1>3. Fit(c, x)
  BY <1>1, <1>2, AlikeFits DEF Fit
<1>4. call \in Calls(x)
  BY <1>1 DEF Shape, TimersFit
<1> HIDE DEF c
<1>5. CASE call[1] = "connect"
  <2>1. call[2] = x
    BY <1>4, <1>5 DEF Calls
  <2>2. u \in Connect(c, x)
    BY <1>5, <2>1 DEF Called, c
  <2> QED
    BY <1>3, <2>2, ConnectSafe
<1>6. CASE call[1] = "reconnect"
  <2> DEFINE w == Wait(c, x, "DISCONNECT")
  <2>1. call[2] = x
    BY <1>4, <1>6 DEF Calls
  <2>2. u \in Reconnect(w, x)
    BY <1>6, <2>1 DEF Called, Again, c
  <2>3. Restated(w, c, x, c.status[x].work, "DISCONNECT", c.status[x].real)
    BY <1>3, StatusIs DEF Fit
  <2> HIDE DEF w
  <2>4. Fit(w, x) /\ w.status[x].wait = "DISCONNECT"
    BY <1>3, <2>3 DEF Restated, Fit, Agrees
  <2> QED
    BY <2>2, <2>4, ReconnectSafe
<1>7. CASE call[1] = "close"
  <2>1. call[2] \in Bids /\ call[2] # NoBroker
    BY <1>4, <1>7 DEF Calls, ClientAssumption, NoBroker
  <2>2. u \in CloseOf(c, call[2])
    BY <1>7 DEF Called, c
  <2> DEFINE b == call[2]
             s == CHOOSE s \in Schemes : c.broker[s] = b
  <2>3. CASE \E y \in Schemes : c.broker[y] = b
    <3>1. s \in Schemes /\ c.broker[s] = b
      BY <2>3
    <3>2. u \in Close(c, s)
      BY <2>2, <2>3 DEF CloseOf
    <3> HIDE DEF s, b
    <3>3. s = x
      BY <1>3, <2>1, <3>1 DEF Fit, Shape, Untouched, b
    <3>4. Shape(c, x) /\ c.status[x].work = "ALLOW"
      BY <1>3 DEF Fit, Agrees
    <3> QED
      BY <3>2, <3>3, <3>4, CloseSafe
  <2>4. CASE ~\E y \in Schemes : c.broker[y] = b
    <3>1. u = c
      BY <2>2, <2>4 DEF CloseOf
    <3>2. TimedIn(t.timers, x) => TimedIn(c.timers, x)
      <4> SUFFICES ASSUME NEW j \in DOMAIN t.timers, t.timers[j][1] # "close", t.timers[j][2] = x
                   PROVE  TimedIn(c.timers, x)
        BY DEF TimedIn
      <4>1. j # i
        BY <1>7
      <4>2. j \in DOMAIN c.timers /\ c.timers[j] = t.timers[j]
        BY <1>2, <4>1 DEF Restrict
      <4> QED
        BY <4>2 DEF TimedIn
    <3>3. Under(t, x) => Under(c, x)
      BY <1>2, <3>2 DEF Under, Alike
    <3> QED
      BY <1>2, <1>3, <3>1, <3>3 DEF Safe, Alike
  <2> QED
    BY <2>3, <2>4
<1> QED
  BY <1>4, <1>5, <1>6, <1>7 DEF Calls

\* the WRITE event
LEMMA ConnectedSafe ==
  ASSUME NEW x, NEW t, Fit(t, x), t.broker[x] # NoBroker, NEW u,
         u = [Wait(Real(ClearTimeout(t, x), x, "CONNECT"), x, "DISCONNECT") EXCEPT !.told[x] = "connect"]
  PROVE  Safe(u, x)
<1> DEFINE c == ClearTimeout(t, x)
           r == Real(c, x, "CONNECT")
           w == Wait(r, x, "DISCONNECT")
<1>1. Alike(c, t) /\ Shape(c, x) /\ Agrees(c, x)
  BY ClearTimeoutIs, AlikeFits DEF Fit
<1>2. u = [w EXCEPT !.told[x] = "connect"]
  OBVIOUS
<1> HIDE DEF c
<1>3. Restated(r, c, x, c.status[x].work, c.status[x].wait, "CONNECT")
  BY <1>1, StatusIs
<1> HIDE DEF r
<1>4. Restated(w, r, x, r.status[x].work, "DISCONNECT", r.status[x].real)
  <2>1. Shape(r, x)
    BY <1>3 DEF Restated
  <2> QED
    BY <2>1, StatusIs
<1> HIDE DEF w
<1>5. Fit(w, x) /\ w.broker[x] # NoBroker
  BY <1>1, <1>3, <1>4 DEF Restated, Fit, Agrees, Alike
<1>6. Alike(u, w) /\ u.timers = w.timers
  BY <1>2, <1>5 DEF Fit, Shape, Alike, IsState, Fields
<1>7. TimersFit(u.timers, x)
  BY <1>5, <1>6 DEF Fit, Shape
<1>8. Fit(u, x)
  BY <1>5, <1>6, <1>7, AlikeFits DEF Fit
<1> QED
  BY <1>5, <1>6, <1>8 DEF Safe, Under, Alike

\* the READ event
LEMMA ReadSafe ==
  ASSUME NEW x, NEW t, Fit(t, x), t.broker[x] # NoBroker, NEW u, u = CreateReceive(t, x)
  PROVE  Safe(u, x)
<1> DEFINE c == ClearTimer(t, t.receive[x])
           call == <<"close", t.broker[x]>>
           d == Timeout(c, call)
<1>1. Alike(c, t) /\ Shape(c, x) /\ Agrees(c, x)
  BY ClearedIs, AlikeFits DEF Fit
<1>2. call \in Calls(x)
  BY DEF Fit, Shape, Calls
<1>3. u = [d EXCEPT !.receive[x] = NewTid(c)]
  BY DEF CreateReceive
<1> HIDE DEF c, call
<1>4. Alike(d, c) /\ TimersFit(d.timers, x)
  BY <1>1, <1>2, TimeoutIs
<1> HIDE DEF d
<1>5. Alike(u, d) /\ u.timers = d.timers
  BY <1>3, <1>4 DEF Alike, IsState, Fields
<1>6. Fit(u, x)
  BY <1>1, <1>4, <1>5, AlikeFits DEF Fit
<1> QED
  BY <1>1, <1>4, <1>5, <1>6 DEF Safe, Under, Alike

\* a loop over one scheme runs once
LEMMA OpensOne ==
  ASSUME NEW x, env.schemes = {x}, NEW t
  PROVE  OpenAll(t) = Open(t, x)
<1> DEFINE op(s, ts) == UNION {Open(r, s) : r \in ts}
           pick(s) == CHOOSE y \in s : TRUE
           Body(f) == [s \in SUBSET {x} |-> IF s = {} THEN {t} ELSE op(pick(s), f[s \ {pick(s)}])]
           f == [s \in SUBSET {x} |-> IF s = {} THEN {t} ELSE op(x, {t})]
           g == CHOOSE h : h = Body(h)
<1>1. OpenAll(t) = g[{x}]
  BY DEF OpenAll, FoldSet, MapThenFoldSet
<1>2. \A s \in SUBSET {x} : s # {} => s = {x} /\ pick(s) = x /\ s \ {pick(s)} = {}
  OBVIOUS
<1>3. f = Body(f)
  <2>1. f[{}] = {t}
    OBVIOUS
  <2> HIDE DEF op, pick
  <2> QED
    BY <2>1, <1>2
<1>4. g = Body(g)
  <2> HIDE DEF Body, f
  <2> QED
    BY <1>3
<1>5. g[{}] = {t} /\ g[{x}] = op(x, g[{}])
  <2> HIDE DEF op, pick, g
  <2>1. \A h : Body(h)[{}] = {t} /\ Body(h)[{x}] = op(x, h[{}])
    BY <1>2
  <2>2. Body(g)[{}] = {t} /\ Body(g)[{x}] = op(x, g[{}])
    BY <2>1
  <2> HIDE DEF Body
  <2> QED
    BY <2>2, <1>4
<1> QED
  BY <1>1, <1>5

LEMMA ReleasesOne ==
  ASSUME NEW x, env.schemes = {x}, NEW t
  PROVE  ReleasedAll(t) = Released(t, x)
<1> DEFINE op(s, ts) == UNION {Released(r, s) : r \in ts}
           pick(s) == CHOOSE y \in s : TRUE
           Body(f) == [s \in SUBSET {x} |-> IF s = {} THEN {t} ELSE op(pick(s), f[s \ {pick(s)}])]
           f == [s \in SUBSET {x} |-> IF s = {} THEN {t} ELSE op(x, {t})]
           g == CHOOSE h : h = Body(h)
<1>1. ReleasedAll(t) = g[{x}]
  BY DEF ReleasedAll, FoldSet, MapThenFoldSet
<1>2. \A s \in SUBSET {x} : s # {} => s = {x} /\ pick(s) = x /\ s \ {pick(s)} = {}
  OBVIOUS
<1>3. f = Body(f)
  <2>1. f[{}] = {t}
    OBVIOUS
  <2> HIDE DEF op, pick
  <2> QED
    BY <2>1, <1>2
<1>4. g = Body(g)
  <2> HIDE DEF Body, f
  <2> QED
    BY <1>3
<1>5. g[{}] = {t} /\ g[{x}] = op(x, g[{}])
  <2> HIDE DEF op, pick, g
  <2>1. \A h : Body(h)[{}] = {t} /\ Body(h)[{x}] = op(x, h[{}])
    BY <1>2
  <2>2. Body(g)[{}] = {t} /\ Body(g)[{x}] = op(x, g[{}])
    BY <2>1
  <2> HIDE DEF Body
  <2> QED
    BY <2>2, <1>4
<1> QED
  BY <1>1, <1>5

(***************************************************************************)
(* The steps.                                                              *)
(***************************************************************************)
LEMMA StartsSafe ==
  ASSUME Init PROVE CInv
<1> SUFFICES ASSUME NEW x \in Schemes PROVE Safe(Now, x)
  BY DEF CInv, Init
<1>1. DOMAIN <<>> = {}
  OBVIOUS
<1>2. Now.timers = <<>> /\ DOMAIN Now.timers = {}
  BY <1>1 DEF Init, Now
<1>3. TimersFit(Now.timers, x)
  BY <1>2 DEF TimersFit, Bounded
<1>4. IsState(Now)
  BY DEF Now, IsState, Fields
<1>5. /\ Now.status = [s \in Schemes |-> [work |-> "ALLOW", wait |-> "DISCONNECT", real |-> "DISCONNECT"]]
      /\ Now.ip = [s \in Schemes |-> FALSE] /\ Now.broker = [s \in Schemes |-> NoBroker]
      /\ Now.wanted = [s \in Schemes |-> FALSE]
  BY DEF Init, Now
<1>6. /\ Now.status \in [Schemes -> Modes] /\ Now.ip \in [Schemes -> BOOLEAN]
      /\ Now.broker \in [Schemes -> Bids \cup {NoBroker}] /\ Now.wanted \in [Schemes -> BOOLEAN]
  BY <1>5 DEF Modes
<1>7. \A s \in Schemes : Untouched(Now, s) /\ Now.status[s].real = "DISCONNECT"
  BY <1>5 DEF Untouched
<1> HIDE DEF Now
<1>8. Fit(Now, x)
  BY <1>3, <1>4, <1>6, <1>7 DEF Fit, Shape, Agrees, Untouched
<1> QED
  BY <1>7, <1>8 DEF Safe, Untouched

LEMMA BecomesSafe ==
  ASSUME NEW x, NEW t, Safe(t, x), Becomes(t), env' = env
  PROVE  Safe(Now, x)'
<1>1. IsState(t)
  BY DEF Safe, Fit, Shape
<1>2. t = Now'
  BY <1>1 DEF Becomes, IsState, Fields, Now
<1> QED
  BY <1>2 DEF Safe, Fit, Shape, Agrees, Under, TimersFit, TimedIn, Bounded, Untouched, Calls, IsState

LEMMA StepsSafe ==
  ASSUME ClientAssumption, NEW x \in Schemes, Single(x), Safe(Now, x), Next
  PROVE  Safe(Now, x)'
<1>1. env.schemes = {x} /\ ~env.stopsWaiting /\ Fit(Now, x)
  BY DEF Single, Safe
<1>2. Shape(Now, x) /\ Now.status[x].work = "ALLOW"
  BY <1>1 DEF Fit, Agrees
<1>3. \A s \in Schemes : broker[s] # NoBroker => s = x
  BY <1>2 DEF Shape, Untouched, Now
<1>4. Now.status = status /\ Now.broker = broker /\ Now.timers = timers /\ Now.receive = receive
  BY DEF Now
<1>5. ASSUME NEW t, Becomes(t), env' = env, Safe(t, x) PROVE Safe(Now, x)'
  BY <1>5, BecomesSafe
<1>6. CASE Orderly /\ Becomes(CloseAll(Now)) /\ env' = env
  <2> DEFINE t == CloseAll(Now)
  <2>1. Now.status[x].wait = "DISCONNECT"
    BY <1>1, <1>4, <1>6 DEF Orderly
  <2>2. /\ Fit(t, x) /\ ~t.wanted[x] /\ t.status[x].wait = "DISCONNECT"
    BY <1>1, <2>1, CloseAllFits
  <2> HIDE DEF t
  <2>3. Safe(t, x)
    BY <2>2 DEF Safe
  <2>4. Becomes(t)
    BY <1>6 DEF t
  <2> QED
    BY <1>5, <1>6, <2>3, <2>4
<1>7. CASE Start
  <2>1. PICK t \in Open(Now, x) : Becomes(t)
    BY <1>1, <1>7, OpensOne DEF Start
  <2>2. Safe(t, x)
    BY <2>1, OpenSafe
  <2> QED
    BY <1>5, <1>7, <2>1, <2>2 DEF Start
<1>8. CASE Stop
  BY <1>6, <1>8 DEF Stop
<1>9. CASE CloseEverything
  BY <1>6, <1>9 DEF CloseEverything
<1>10. CASE Reset
  <2> DEFINE c == CloseAll(Now)
  <2>1. PICK t \in Released(c, x) : Becomes(t)
    BY <1>1, <1>10, ReleasesOne DEF Reset
  <2>2. Fit(c, x) /\ c.broker[x] = NoBroker /\ ~c.wanted[x]
    BY <1>1, CloseAllFits
  <2> HIDE DEF c
  <2>3. Safe(t, x)
    BY <2>1, <2>2, ReleasedSafe
  <2> QED
    BY <1>5, <1>10, <2>1, <2>3 DEF Reset
<1>11. ASSUME NEW s \in Schemes, OpenScheme(s) PROVE Safe(Now, x)'
  <2>1. s = x /\ env' = env
    BY <1>1, <1>11 DEF OpenScheme
  <2>2. PICK t \in Open(Now, x) : Becomes(t)
    BY <1>11, <2>1 DEF OpenScheme
  <2>3. Safe(t, x)
    BY <2>2, OpenSafe
  <2> QED
    BY <1>5, <2>1, <2>2, <2>3
<1>12. ASSUME NEW s \in Schemes, CloseBroker(s) PROVE Safe(Now, x)'
  <2>1. s = x /\ env' = env
    BY <1>3, <1>12 DEF CloseBroker
  <2>2. PICK t \in Close(Now, x) : Becomes(t)
    BY <1>12, <2>1 DEF CloseBroker
  <2>3. Safe(t, x)
    BY <1>2, <2>2, CloseSafe
  <2> QED
    BY <1>5, <2>1, <2>2, <2>3
<1>13. ASSUME NEW s \in Schemes, Connected(s) PROVE Safe(Now, x)'
  <2>1. s = x /\ env' = env /\ Now.broker[x] # NoBroker /\ status[x].work = "ALLOW"
    BY <1>2, <1>3, <1>4, <1>13 DEF Connected
  <2> DEFINE t == [Wait(Real(ClearTimeout(Now, x), x, "CONNECT"), x, "DISCONNECT")
                     EXCEPT !.told[x] = "connect"]
  <2>2. Becomes(t)
    BY <1>13, <2>1 DEF Connected
  <2>3. Safe(t, x)
    BY <1>1, <2>1, ConnectedSafe
  <2> HIDE DEF t
  <2> QED
    BY <1>5, <2>1, <2>2, <2>3
<1>14. ASSUME NEW s \in Schemes, Read(s) PROVE Safe(Now, x)'
  <2>1. s = x /\ env' = env /\ Now.broker[x] # NoBroker
    BY <1>3, <1>4, <1>14 DEF Read
  <2>2. Becomes(CreateReceive(Now, x))
    BY <1>14, <2>1 DEF Read
  <2>3. Safe(CreateReceive(Now, x), x)
    BY <1>1, <2>1, ReadSafe
  <2> QED
    BY <1>5, <2>1, <2>2, <2>3
<1>15. ASSUME NEW tid \in 1..TidBound, Fire(tid) PROVE Safe(Now, x)'
  <2>1. tid \in DOMAIN Now.timers /\ env' = env
    BY <1>4, <1>15 DEF Fire
  <2>2. PICK t \in Called(ClearTimer(Now, tid), Now.timers[tid]) : Becomes(t)
    BY <1>4, <1>15 DEF Fire
  <2>3. Safe(t, x)
    BY <2>1, <2>2, CalledSafe
  <2> QED
    BY <1>5, <2>1, <2>2, <2>3
<1> QED
  BY <1>7, <1>8, <1>9, <1>10, <1>11, <1>12, <1>13, <1>14, <1>15 DEF Next

LEMMA InductiveStep ==
  ASSUME ClientAssumption, CInv, [Next]_vars
  PROVE  CInv'
<1>1. CASE UNCHANGED vars
  BY <1>1 DEF CInv, Single, Safe, Fit, Shape, Agrees, Under, TimersFit, TimedIn, Bounded,
              Untouched, Calls, IsState, Now, vars
<1>2. CASE Next
  <2>1. env' = env
    BY <1>2 DEF Next, Start, Stop, CloseEverything, Reset, OpenScheme, CloseBroker, Connected,
                Read, Fire
  <2>2. ASSUME NEW x \in Schemes, Single(x)' PROVE Safe(Now, x)'
    <3>1. Single(x)
      BY <2>1, <2>2 DEF Single
    <3> QED
      BY <1>2, <3>1, StepsSafe DEF CInv
  <2> QED
    BY <2>1, <2>2 DEF CInv
<1> QED
  BY <1>1, <1>2

(***************************************************************************)
(* Under Usual some scheme is the only one, and it is safe.                *)
(***************************************************************************)
LEMMA InUse ==
  ASSUME CInv, Usual
  PROVE  \E x \in Schemes : Single(x) /\ Safe(Now, x)
BY DEF CInv, Usual, Single

LEMMA InvariantHolds ==
  ASSUME ClientAssumption PROVE Spec => []CInv
<1>1. Init => CInv
  BY StartsSafe
<1>2. CInv /\ [Next]_vars => CInv'
  BY InductiveStep
<1> QED
  BY <1>1, <1>2, PTL DEF Spec

(***************************************************************************)
(* A scheme that has neither a broker nor a timer is ready to be opened    *)
(* (client.cpp:996), for any number of brokers and timers: no path through *)
(* connect(), close() and reconnect() leaves it locked, although the ids   *)
(* that are kept of its timers may be stale.                               *)
(***************************************************************************)
THEOREM NeverStuck == Spec => []IdleCanOpenUsual
<1>1. CInv => IdleCanOpenUsual
  <2> SUFFICES ASSUME CInv, Usual, NEW s \in Schemes, Idle(s) PROVE Ready(Now, s)
    BY DEF IdleCanOpenUsual, IdleCanOpen
  <2>1. PICK x \in Schemes : Safe(Now, x)
    BY InUse
  <2>2. CASE s # x
    BY <2>1, <2>2 DEF Safe, Fit, Shape, Untouched, Ready
  <2>3. CASE s = x
    <3>1. Now.broker[x] = NoBroker /\ ~TimedIn(Now.timers, x)
      BY <2>3 DEF Idle, TimersOf, TimedIn, Now
    <3>2. ~Under(Now, x)
      BY <3>1 DEF Under
    <3> QED
      BY <2>1, <2>3, <3>2 DEF Safe, Fit, Shape, Agrees, Modes, Ready
  <2> QED
    BY <2>2, <2>3
<1> QED
  BY <1>1, InvariantHolds, ClientAssumption, PTL

(***************************************************************************)
(* A scheme that the application wants connected and that is kept alive    *)
(* (scheme_t::alive) always has a broker or a timer that goes on with it.  *)
(***************************************************************************)
THEOREM AlwaysPersistent == Spec => []Persistent
<1>1. CInv => Persistent
  <2> SUFFICES ASSUME CInv, Usual, env.alive, NEW s \in Schemes, wanted[s], Idle(s) PROVE FALSE
    BY DEF Persistent
  <2>1. PICK x \in Schemes : Safe(Now, x)
    BY InUse
  <2>2. s = x
    BY <2>1 DEF Safe, Fit, Shape, Untouched, Now
  <2>3. Now.broker[x] = NoBroker /\ ~TimedIn(Now.timers, x) /\ Now.wanted[x]
    BY <2>2 DEF Idle, TimersOf, TimedIn, Now
  <2> QED
    BY <2>1, <2>3 DEF Safe, Under
<1> QED
  BY <1>1, InvariantHolds, ClientAssumption, PTL

=============================================================================
