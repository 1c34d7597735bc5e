-------------------------- MODULE ServerCoreProofs --------------------------
(***************************************************************************)
(* What holds of ServerCore for any schemes, sockets, brokers, timers and  *)
(* surroundings: who owns the timers that close, what stop() leaves, and   *)
(* for TCP that the kernel is asked for every socket that is in use.       *)
(***************************************************************************)
EXTENDS ServerCore, FiniteSetTheorems, WellFoundedInduction, TLAPS

Fields == {"up", "loop", "sock", "listener", "peers", "epoll", "brokers", "last", "waiting",
           "inbox", "timers", "timeouts", "receive", "told"}

IsState(t) == t = [f \in Fields |-> t[f]]

Who == ({"nobody"} \X {0}) \cup ({"listener"} \X Sids) \cup ({"broker"} \X Bids)

Shape(t) ==
  /\ IsState(t) /\ t.up \in BOOLEAN /\ t.loop \in BOOLEAN
  /\ t.sock \in [Sids -> Fds \cup {NoFd}] /\ t.listener \in [Sids -> Fds \cup {NoFd}]
  /\ t.peers \in [Fds -> [who : Who, read : BOOLEAN]] /\ t.epoll \subseteq Fds
  /\ t.brokers \in [Bids -> {Gone} \cup [sid : env.sids, fd : Fds]]
  /\ DOMAIN t.receive = Bids /\ DOMAIN t.timeouts = Sids
  /\ \A s \in Sids \ env.sids : t.sock[s] = NoFd

Tcp == env.sonet = "TCP"

\* a timer calls what it was made for; with a listening broker it can only close
Owned(ts, rs, bs) ==
  \A i \in DOMAIN ts :
    /\ ts[i] \in {"close", "read", "accept"} \X Bids
    /\ Tcp => ts[i][1] = "close"
    /\ \A b \in Bids : ts[i] = <<"close", b>> => bs[b] # Gone /\ rs[b] = i

\* a broker and a scheme have the number they use, so no number has two users
Watched(ps, ep, f, who) == f \in ep /\ ps[f] = [who |-> who, read |-> TRUE]

Heard(ps, ep, ss, bs) ==
  /\ \A s \in Sids : ss[s] # NoFd => Watched(ps, ep, ss[s], Listener(s))
  /\ \A b \in Bids : bs[b] # Gone => Watched(ps, ep, bs[b].fd, Broker(b))

Orderly == Tcp \/ ~env.reacts

Ended(t) ==
  ~t.up => /\ ~t.loop
           /\ Orderly => \A b \in Bids : t.brokers[b] = Gone
           /\ Orderly => \A s \in Sids : t.sock[s] = NoFd

Sound(t) ==
  /\ Shape(t)
  /\ Owned(t.timers, t.receive, t.brokers)
  /\ ~env.fails => Ended(t)
  /\ Tcp /\ ~env.again => Heard(t.peers, t.epoll, t.sock, t.brokers)

SInv == env \in Environments /\ Sound(Now)

(***************************************************************************)
(* Timers.                                                                 *)
(***************************************************************************)
\* only the timers, the kept ids and what brokers are told and sent are different
Alike(u, t) ==
  /\ IsState(u) /\ DOMAIN u.receive = Bids /\ DOMAIN u.timeouts = Sids
  /\ u.up = t.up /\ u.loop = t.loop /\ u.sock = t.sock /\ u.listener = t.listener
  /\ u.peers = t.peers /\ u.epoll = t.epoll /\ u.brokers = t.brokers

LEMMA AlikeSound ==
  ASSUME NEW t, Sound(t), NEW u, Alike(u, t), Owned(u.timers, u.receive, u.brokers)
  PROVE  Sound(u)
<1>1. Shape(u)
  BY DEF Sound, Shape, Alike
<1>2. Ended(t) => Ended(u)
  BY DEF Ended, Alike
<1> QED
  BY <1>1, <1>2 DEF Sound, Alike

LEMMA AlikeAgain ==
  ASSUME NEW t, NEW u, NEW w, Alike(u, t), Alike(w, u)
  PROVE  Alike(w, t)
BY DEF Alike

LEMMA ClearTimerIs ==
  ASSUME NEW t, Shape(t), NEW i
  PROVE  /\ Alike(ClearTimer(t, i), t) /\ ClearTimer(t, i).receive = t.receive
         /\ ClearTimer(t, i).timeouts = t.timeouts
         /\ ClearTimer(t, i).timers = Restrict(t.timers, DOMAIN t.timers \ {i})
BY DEF Shape, Alike, ClearTimer, IsState, Fields

LEMMA FewerOwned ==
  ASSUME NEW ts, NEW rs, NEW bs, Owned(ts, rs, bs), NEW D
  PROVE  Owned(Restrict(ts, DOMAIN ts \ D), rs, bs)
BY DEF Owned, Restrict

LEMMA ClearTimerSound ==
  ASSUME NEW t, Sound(t), NEW i
  PROVE  Sound(ClearTimer(t, i))
<1> DEFINE u == ClearTimer(t, i)
<1>1. /\ Alike(u, t) /\ u.receive = t.receive
      /\ u.timers = Restrict(t.timers, DOMAIN t.timers \ {i})
  BY ClearTimerIs DEF Sound
<1> HIDE DEF u
<1>2. Owned(t.timers, t.receive, t.brokers)
  BY DEF Sound
<1>3. Owned(Restrict(t.timers, DOMAIN t.timers \ {i}), t.receive, t.brokers)
  BY <1>2, FewerOwned
<1>4. u.brokers = t.brokers
  BY <1>1 DEF Alike
<1>5. Sound(u)
  BY <1>1, <1>3, <1>4, AlikeSound
<1> QED
  BY <1>5 DEF u

LEMMA TimeoutIs ==
  ASSUME NEW t, Shape(t), NEW call
  PROVE  /\ Alike(Timeout(t, call), t) /\ Timeout(t, call).receive = t.receive
         /\ Timeout(t, call).timeouts = t.timeouts
         /\ Timeout(t, call).timers = [i \in DOMAIN t.timers \cup {NewTid(t)} |->
                                         IF i = NewTid(t) THEN call ELSE t.timers[i]]
<1> DEFINE n == NewTid(t)
<1>1. Timeout(t, call) = [t EXCEPT !.timers = [i \in DOMAIN t.timers \cup {n} |->
                                                IF i = n THEN call ELSE t.timers[i]]]
  BY DEF Shape, IsState, Fields, Timeout
<1> HIDE DEF n
<1>2. /\ Alike(Timeout(t, call), t) /\ Timeout(t, call).receive = t.receive
      /\ Timeout(t, call).timeouts = t.timeouts
      /\ Timeout(t, call).timers = [i \in DOMAIN t.timers \cup {n} |->
                                      IF i = n THEN call ELSE t.timers[i]]
  BY <1>1 DEF Shape, Alike, IsState, Fields
<1> QED
  BY <1>2 DEF n

LEMMA ClearReceiveSound ==
  ASSUME NEW t, Sound(t), NEW b \in Bids
  PROVE  Sound(ClearReceive(t, b)) /\ Alike(ClearReceive(t, b), t)
<1> DEFINE c == ClearTimer(t, t.receive[b])
           u == ClearReceive(t, b)
<1>1. /\ Alike(c, t) /\ c.receive = t.receive /\ Sound(c)
      /\ c.timers = Restrict(t.timers, DOMAIN t.timers \ {t.receive[b]})
  BY ClearTimerIs, ClearTimerSound DEF Sound
<1>2. u = [c EXCEPT !.receive[b] = NoTimer]
  BY DEF ClearReceive
<1>3. Owned(t.timers, t.receive, t.brokers)
  BY DEF Sound
<1> HIDE DEF c
<1>4. /\ Alike(u, c) /\ u.receive = [c.receive EXCEPT ![b] = NoTimer] /\ u.timers = c.timers
      /\ u.brokers = t.brokers
  BY <1>1, <1>2 DEF Alike, IsState, Fields
<1> HIDE DEF u
<1>5. DOMAIN t.receive = Bids
  BY DEF Sound, Shape
<1>6. Owned(u.timers, u.receive, u.brokers)
  <2>1. \A d \in Bids : d # b => u.receive[d] = t.receive[d]
    BY <1>1, <1>4, <1>5
  <2>2. \A i \in DOMAIN u.timers : i \in DOMAIN t.timers /\ i # t.receive[b] /\ u.timers[i] = t.timers[i]
    BY <1>1, <1>4 DEF Restrict
  <2> QED
    BY <1>3, <1>4, <2>1, <2>2 DEF Owned
<1>7. Sound(u) /\ Alike(u, t)
  BY <1>1, <1>4, <1>6, AlikeSound, AlikeAgain
<1> QED
  BY <1>7 DEF u

LEMMA ClearSchemeSound ==
  ASSUME NEW t, Sound(t), NEW s
  PROVE  Sound(ClearScheme(t, s)) /\ Alike(ClearScheme(t, s), t)
<1> DEFINE c == ClearTimer(t, t.timeouts[s])
           u == ClearScheme(t, s)
<1>1. Alike(c, t) /\ Sound(c)
  BY ClearTimerIs, ClearTimerSound DEF Sound
<1>2. u = [c EXCEPT !.timeouts[s] = NoTimer]
  BY DEF ClearScheme
<1> HIDE DEF c
<1>3. Alike(u, c) /\ u.receive = c.receive /\ u.timers = c.timers /\ u.brokers = c.brokers
  BY <1>1, <1>2 DEF Alike, IsState, Fields
<1> HIDE DEF u
<1>4. Sound(u)
  BY <1>1, <1>3, AlikeSound DEF Sound
<1>5. Alike(u, t)
  BY <1>1, <1>3, AlikeAgain
<1> QED
  BY <1>4, <1>5 DEF u

LEMMA CreateReceiveSound ==
  ASSUME NEW t, Sound(t), NEW b \in Bids
  PROVE  Sound(CreateReceive(t, b)) /\ Alike(CreateReceive(t, b), t)
<1>1. CASE ~Has(t, b)
  BY <1>1 DEF CreateReceive, Alike, Sound, Shape
<1>2. CASE Has(t, b)
  <2> DEFINE c == ClearTimer(t, t.receive[b])
             n == NewTid(c)
             call == <<"close", b>>
             d == Timeout(c, call)
             u == CreateReceive(t, b)
  <2>1. /\ Alike(c, t) /\ c.receive = t.receive /\ Sound(c)
        /\ c.timers = Restrict(t.timers, DOMAIN t.timers \ {t.receive[b]})
    BY ClearTimerIs, ClearTimerSound DEF Sound
  <2>2. u = [d EXCEPT !.receive[b] = n]
    BY <1>2 DEF CreateReceive
  <2> HIDE DEF c, call
  <2>3. /\ Alike(d, c) /\ d.receive = c.receive
        /\ d.timers = [i \in DOMAIN c.timers \cup {n} |-> IF i = n THEN call ELSE c.timers[i]]
    BY <2>1, TimeoutIs DEF Sound
  <2> HIDE DEF d, n
  <2>4. /\ Alike(u, d) /\ u.receive = [d.receive EXCEPT ![b] = n] /\ u.timers = d.timers
    BY <2>2, <2>3 DEF Alike, IsState, Fields
  <2> HIDE DEF u
  <2>5. Owned(t.timers, t.receive, t.brokers) /\ DOMAIN t.receive = Bids /\ t.brokers[b] # Gone
    BY <1>2 DEF Sound, Shape, Has
  <2>6. u.brokers = t.brokers
    BY <2>1, <2>3, <2>4 DEF Alike
  <2>7. Owned(u.timers, u.receive, u.brokers)
    <3>1. u.receive[b] = n /\ \A e \in Bids : e # b => u.receive[e] = t.receive[e]
      BY <2>1, <2>3, <2>4, <2>5
    <3>2. \A i \in DOMAIN c.timers :
            i \in DOMAIN t.timers /\ i # t.receive[b] /\ c.timers[i] = t.timers[i]
      BY <2>1 DEF Restrict
    <3>3. \A i \in DOMAIN u.timers : \/ i = n /\ u.timers[i] = <<"close", b>>
                                     \/ i \in DOMAIN c.timers /\ u.timers[i] = c.timers[i]
      BY <2>3, <2>4 DEF call
    <3>4. \A e : <<"close", e>> = <<"close", b>> => e = b
      OBVIOUS
    <3> SUFFICES ASSUME NEW i \in DOMAIN u.timers
                 PROVE  /\ u.timers[i] \in {"close", "read", "accept"} \X Bids
                        /\ Tcp => u.timers[i][1] = "close"
                        /\ \A e \in Bids : u.timers[i] = <<"close", e>>
                              => u.brokers[e] # Gone /\ u.receive[e] = i
      BY DEF Owned
    <3>5. CASE i = n /\ u.timers[i] = <<"close", b>>
      BY <2>5, <2>6, <3>1, <3>4, <3>5
    <3>6. CASE i \in DOMAIN c.timers /\ u.timers[i] = c.timers[i]
      <4>1. i \in DOMAIN t.timers /\ i # t.receive[b] /\ u.timers[i] = t.timers[i]
        BY <3>2, <3>6
      <4>2. /\ t.timers[i] \in {"close", "read", "accept"} \X Bids
            /\ Tcp => t.timers[i][1] = "close"
            /\ \A e \in Bids : t.timers[i] = <<"close", e>>
                  => t.brokers[e] # Gone /\ t.receive[e] = i
        BY <2>5, <4>1 DEF Owned
      <4> QED
        BY <2>6, <3>1, <4>1, <4>2
    <3> QED
      BY <3>3, <3>5, <3>6
  <2>8. Alike(u, t) /\ Sound(u)
    BY <2>1, <2>3, <2>4, <2>7, AlikeAgain, AlikeSound
  <2> QED
    BY <2>8 DEF u
<1> QED
  BY <1>1, <1>2

LEMMA CreateSchemeSound ==
  ASSUME NEW t, Sound(t), NEW s, NEW call \in {"read", "accept"} \X Bids, ~Tcp
  PROVE  Sound(CreateScheme(t, s, call)) /\ Alike(CreateScheme(t, s, call), t)
<1> DEFINE c == ClearTimer(t, t.timeouts[s])
           n == NewTid(c)
           d == Timeout(c, call)
           u == CreateScheme(t, s, call)
<1>1. Alike(c, t) /\ Sound(c)
  BY ClearTimerIs, ClearTimerSound DEF Sound
<1>2. u = [d EXCEPT !.timeouts[s] = n]
  BY DEF CreateScheme
<1> HIDE DEF c
<1>3. /\ Alike(d, c) /\ d.receive = c.receive
      /\ d.timers = [i \in DOMAIN c.timers \cup {n} |-> IF i = n THEN call ELSE c.timers[i]]
  BY <1>1, TimeoutIs DEF Sound
<1> HIDE DEF d, n
<1>4. /\ Alike(u, d) /\ u.receive = d.receive /\ u.timers = d.timers
  BY <1>2, <1>3 DEF Alike, IsState, Fields
<1> HIDE DEF u
<1>5. Owned(c.timers, c.receive, c.brokers) /\ u.brokers = c.brokers
  BY <1>1, <1>3, <1>4 DEF Sound, Alike
<1>6. Owned(u.timers, u.receive, u.brokers)
  BY <1>3, <1>4, <1>5 DEF Owned
<1>7. Sound(u) /\ Alike(u, t)
  BY <1>1, <1>3, <1>4, <1>6, AlikeAgain, AlikeSound
<1> QED
  BY <1>7 DEF u

(***************************************************************************)
(* Numbers and their users.                                                *)
(***************************************************************************)
LEMMA NamesDiffer ==
  /\ \A s : \A b : Listener(s) # Broker(b)
  /\ \A b, d : Broker(b) = Broker(d) => b = d
  /\ \A s, r : Listener(s) = Listener(r) => s = r
  /\ \A s : Listener(s) # Unused.who
  /\ \A b : Broker(b) # Unused.who
BY DEF Listener, Broker, Unused

\* what a watched number is registered for
LEMMA WatchedWho ==
  ASSUME NEW ps, NEW ep, NEW f, NEW who, Watched(ps, ep, f, who)
  PROVE  ps[f].who = who
BY DEF Watched

LEMMA BrokerHas ==
  ASSUME NEW t, Shape(t), NEW b \in Bids
  PROVE  /\ t.brokers[b] # Gone => t.brokers[b] \in [sid : env.sids, fd : Fds] /\ t.brokers[b].fd \in Fds
         /\ t.brokers[b] = Gone => t.brokers[b].fd = NoFd
         /\ NoFd \notin Fds
BY ServerAssumption DEF Shape, Gone, NoFd

\* u is t without the brokers of bs
Without(u, t, bs) ==
  /\ IsState(u) /\ u.up = t.up /\ u.loop = t.loop /\ u.sock = t.sock /\ u.listener = t.listener
  /\ u.timeouts = t.timeouts
  /\ u.timers = Restrict(t.timers, DOMAIN t.timers \ {t.receive[b] : b \in bs})
  /\ u.receive = [b \in Bids |-> IF b \in bs THEN NoTimer ELSE t.receive[b]]
  /\ u.peers = [f \in Fds |-> IF \E b \in bs : t.brokers[b].fd = f /\ t.peers[f].who = Broker(b)
                              THEN Unused ELSE t.peers[f]]
  /\ u.epoll = t.epoll \ {t.brokers[b].fd : b \in bs}
  /\ u.brokers = [b \in Bids |-> IF b \in bs THEN Gone ELSE t.brokers[b]]

LEMMA RemovedAllIs ==
  ASSUME NEW t, Shape(t), NEW bs
  PROVE  Without(RemovedAll(t, bs), t, bs)
<1> DEFINE ts == Restrict(t.timers, DOMAIN t.timers \ {t.receive[b] : b \in bs})
           rs == [b \in Bids |-> IF b \in bs THEN NoTimer ELSE t.receive[b]]
           ps == [f \in Fds |-> IF \E b \in bs : t.brokers[b].fd = f /\ t.peers[f].who = Broker(b)
                                THEN Unused ELSE t.peers[f]]
           ep == t.epoll \ {t.brokers[b].fd : b \in bs}
           ks == [b \in Bids |-> IF b \in bs THEN Gone ELSE t.brokers[b]]
           in == [b \in Bids |-> IF b \in bs THEN {} ELSE t.inbox[b]]
           to == [b \in Bids |-> IF b \in bs THEN "disconnect" ELSE t.told[b]]
           u == RemovedAll(t, bs)
<1>1. u = [t EXCEPT !.timers = ts, !.receive = rs, !.peers = ps, !.epoll = ep, !.brokers = ks,
                    !.inbox = in, !.told = to]
  BY DEF Shape, IsState, Fields, RemovedAll
<1> HIDE DEF ts, rs, ps, ep, ks, in, to, u
<1>2. /\ IsState(u) /\ u.up = t.up /\ u.loop = t.loop /\ u.sock = t.sock /\ u.listener = t.listener
      /\ u.timeouts = t.timeouts
      /\ u.timers = ts /\ u.receive = rs /\ u.peers = ps /\ u.epoll = ep /\ u.brokers = ks
  BY <1>1 DEF Shape, IsState, Fields
<1>3. Without(u, t, bs)
  BY <1>2 DEF Without, ts, rs, ps, ep, ks
<1> QED
  BY <1>3 DEF u

Quick == Tcp /\ ~env.again

\* what holds of every transport
Basic(t) ==
  /\ Shape(t)
  /\ Owned(t.timers, t.receive, t.brokers)
  /\ ~env.fails => Ended(t)

LEMMA SoundIs ==
  ASSUME NEW t
  PROVE  Sound(t) <=> Basic(t) /\ (Quick => Heard(t.peers, t.epoll, t.sock, t.brokers))
BY DEF Sound, Basic, Quick

LEMMA RemovedAllBasic ==
  ASSUME NEW t, Basic(t), NEW bs \in SUBSET Bids
  PROVE  LET u == RemovedAll(t, bs)
         IN /\ Basic(u) /\ u.up = t.up /\ u.loop = t.loop /\ u.sock = t.sock /\ u.listener = t.listener
            /\ u.brokers = [b \in Bids |-> IF b \in bs THEN Gone ELSE t.brokers[b]]
<1> DEFINE u == RemovedAll(t, bs)
<1>1. Shape(t) /\ Owned(t.timers, t.receive, t.brokers)
  BY DEF Basic
<1>2. Without(u, t, bs)
  BY <1>1, RemovedAllIs
<1> HIDE DEF u
<1> USE DEF Without
<1>3. Shape(u)
  <2>1. Unused \in [who : Who, read : BOOLEAN]
    BY DEF Unused, Who
  <2>2. u.peers \in [Fds -> [who : Who, read : BOOLEAN]]
    <3>1. t.peers \in [Fds -> [who : Who, read : BOOLEAN]]
      BY <1>1 DEF Shape
    <3> DEFINE R == [who : Who, read : BOOLEAN]
    <3>2. \A f \in Fds : t.peers[f] \in R /\ Unused \in R
      BY <2>1, <3>1
    <3> HIDE DEF R
    <3>3. u.peers \in [Fds -> R]
      BY <1>2, <3>2
    <3> QED
      BY <3>3 DEF R
  <2>3. u.brokers \in [Bids -> {Gone} \cup [sid : env.sids, fd : Fds]]
    <3> DEFINE R == {Gone} \cup [sid : env.sids, fd : Fds]
    <3>1. t.brokers \in [Bids -> R] /\ Gone \in R
      BY <1>1 DEF Shape
    <3> HIDE DEF R
    <3>2. u.brokers \in [Bids -> R]
      BY <1>2, <3>1
    <3> QED
      BY <3>2 DEF R
  <2> QED
    BY <1>1, <1>2, <2>2, <2>3 DEF Shape
<1>4. Owned(u.timers, u.receive, u.brokers)
  <2>0. \A i \in DOMAIN u.timers : i \in DOMAIN t.timers /\ u.timers[i] = t.timers[i]
    BY <1>2 DEF Restrict
  <2> SUFFICES ASSUME NEW i \in DOMAIN u.timers, NEW b \in Bids, u.timers[i] = <<"close", b>>
               PROVE  u.brokers[b] # Gone /\ u.receive[b] = i
    BY <1>1, <2>0 DEF Owned
  <2>1. i \in DOMAIN t.timers /\ i \notin {t.receive[d] : d \in bs} /\ t.timers[i] = <<"close", b>>
    BY <1>2 DEF Restrict
  <2>2. t.brokers[b] # Gone /\ t.receive[b] = i
    BY <1>1, <2>1 DEF Owned
  <2>3. b \notin bs
    BY <2>1, <2>2
  <2> QED
    BY <1>2, <2>2, <2>3
<1>5. Ended(t) => Ended(u)
  BY <1>2 DEF Ended
<1>6. Basic(u)
  BY <1>3, <1>4, <1>5 DEF Basic
<1> QED
  BY <1>2, <1>6 DEF u

\* who is watched and not removed stays watched
LEMMA RemovedAllWatched ==
  ASSUME NEW t, Shape(t), NEW bs \in SUBSET Bids,
         \A b \in Bids : t.brokers[b] # Gone => Watched(t.peers, t.epoll, t.brokers[b].fd, Broker(b)),
         NEW f \in Fds, NEW who, Watched(t.peers, t.epoll, f, who), \A b \in bs : who # Broker(b),
         NEW u, Without(u, t, bs)
  PROVE  Watched(u.peers, u.epoll, f, who)
<1>1. \A b \in bs : t.brokers[b].fd # f
  <2> SUFFICES ASSUME NEW b \in bs, t.brokers[b].fd = f PROVE FALSE
    OBVIOUS
  <2>1. b \in Bids /\ t.brokers[b] # Gone
    BY BrokerHas
  <2>2. Watched(t.peers, t.epoll, f, Broker(b))
    BY <2>1
  <2> QED
    BY <2>2, WatchedWho
<1>2. f \in u.epoll /\ u.peers[f] = t.peers[f]
  BY <1>1 DEF Watched, Without
<1> QED
  BY <1>2 DEF Watched

LEMMA RemovedAllSound ==
  ASSUME NEW t, Sound(t), NEW bs \in SUBSET Bids
  PROVE  LET u == RemovedAll(t, bs)
         IN /\ Sound(u) /\ u.up = t.up /\ u.loop = t.loop /\ u.sock = t.sock /\ u.listener = t.listener
            /\ u.brokers = [b \in Bids |-> IF b \in bs THEN Gone ELSE t.brokers[b]]
<1> DEFINE u == RemovedAll(t, bs)
<1>1. Shape(t) /\ Basic(t) /\ (Quick => Heard(t.peers, t.epoll, t.sock, t.brokers))
  BY SoundIs DEF Basic
<1>2. Without(u, t, bs)
  BY <1>1, RemovedAllIs
<1>3. /\ Basic(u) /\ u.up = t.up /\ u.loop = t.loop /\ u.sock = t.sock /\ u.listener = t.listener
      /\ u.brokers = [b \in Bids |-> IF b \in bs THEN Gone ELSE t.brokers[b]]
  BY <1>1, RemovedAllBasic
<1> HIDE DEF u
<1>4. ASSUME Quick PROVE Heard(u.peers, u.epoll, u.sock, u.brokers)
  <2>1. ASSUME NEW f \in Fds, NEW who, Watched(t.peers, t.epoll, f, who), \A b \in bs : who # Broker(b)
        PROVE  Watched(u.peers, u.epoll, f, who)
    <3>1. \A b \in Bids : t.brokers[b] # Gone => Watched(t.peers, t.epoll, t.brokers[b].fd, Broker(b))
      BY <1>1, <1>4 DEF Heard
    <3> QED
      BY <1>1, <1>2, <2>1, <3>1, RemovedAllWatched
  <2>2. ASSUME NEW s \in Sids, u.sock[s] # NoFd PROVE Watched(u.peers, u.epoll, u.sock[s], Listener(s))
    <3>1. Watched(t.peers, t.epoll, t.sock[s], Listener(s)) /\ u.sock[s] = t.sock[s] /\ t.sock[s] \in Fds
      BY <1>1, <1>3, <1>4, <2>2 DEF Heard, Shape
    <3> QED
      BY <2>1, <3>1, NamesDiffer
  <2>3. ASSUME NEW b \in Bids, u.brokers[b] # Gone PROVE Watched(u.peers, u.epoll, u.brokers[b].fd, Broker(b))
    <3>1. b \notin bs /\ u.brokers[b] = t.brokers[b]
      BY <1>3, <2>3
    <3>2. Watched(t.peers, t.epoll, t.brokers[b].fd, Broker(b)) /\ t.brokers[b].fd \in Fds
      BY <1>1, <1>4, <2>3, <3>1, BrokerHas DEF Heard
    <3> QED
      BY <2>1, <3>1, <3>2, NamesDiffer
  <2> QED
    BY <2>2, <2>3 DEF Heard
<1> QED
  BY <1>3, <1>4, SoundIs DEF u

LEMMA EnvFits ==
  ASSUME env \in Environments
  PROVE  env.sids \subseteq Sids /\ env.sonet \in {"TCP", "DTLS"}
BY ServerAssumption

\* nothing is in use
Empty(t) ==
  /\ \A b \in Bids : t.brokers[b] = Gone
  /\ \A s \in Sids : t.sock[s] = NoFd

LEMMA CloseAllSound ==
  ASSUME env \in Environments, NEW t, Sound(t)
  PROVE  LET u == CloseAll(t)
         IN Sound(u) /\ Empty(u) /\ u.up = t.up /\ u.loop = t.loop /\ u.listener = t.listener
<1> DEFINE ts == Restrict(t.timers, DOMAIN t.timers \ {t.timeouts[s] : s \in env.sids})
           os == [s \in Sids |-> IF s \in env.sids THEN NoTimer ELSE t.timeouts[s]]
           c == [t EXCEPT !.timers = ts, !.timeouts = os]
           bs == UNION {Of(t, s) : s \in env.sids}
           r == RemovedAll(c, bs)
           ep == r.epoll \ {t.sock[s] : s \in env.sids}
           ss == [s \in Sids |-> IF s \in env.sids THEN NoFd ELSE r.sock[s]]
           ws == [s \in Sids |-> IF s \in env.sids THEN 0 ELSE r.waiting[s]]
           u == CloseAll(t)
<1>1. Shape(t) /\ Owned(t.timers, t.receive, t.brokers)
  BY DEF Sound
<1>2. Sound(c) /\ c.up = t.up /\ c.loop = t.loop /\ c.listener = t.listener /\ c.brokers = t.brokers
      /\ c.sock = t.sock
  <2>1. Owned(ts, t.receive, t.brokers)
    BY <1>1, FewerOwned
  <2>2. DOMAIN os = Sids
    OBVIOUS
  <2> HIDE DEF ts, os
  <2>3. Alike(c, t) /\ c.timers = ts /\ c.receive = t.receive
    BY <1>1, <2>2 DEF Shape, Alike, IsState, Fields
  <2> HIDE DEF c
  <2> QED
    BY <2>1, <2>3, AlikeSound DEF Alike
<1>3. bs \subseteq Bids
  BY DEF Of
<1>4. c = [t EXCEPT !.timers = Restrict(@, DOMAIN @ \ {t.timeouts[s] : s \in env.sids}),
                    !.timeouts = [s \in Sids |-> IF s \in env.sids THEN NoTimer ELSE @[s]]]
  BY <1>1 DEF Shape, IsState, Fields
<1>5. r = CloseAllListens(t)
  BY <1>4 DEF CloseAllListens
<1> HIDE DEF c, bs
<1>6. /\ Sound(r) /\ r.up = c.up /\ r.loop = c.loop /\ r.sock = c.sock /\ r.listener = c.listener
      /\ r.brokers = [b \in Bids |-> IF b \in bs THEN Gone ELSE c.brokers[b]]
  BY <1>2, <1>3, RemovedAllSound
<1> HIDE DEF r
<1>7. Shape(r) /\ r.epoll \subseteq Fds
  BY <1>6 DEF Sound, Shape
<1>8. u = [r EXCEPT !.epoll = ep, !.sock = ss, !.waiting = ws]
  BY <1>5, <1>7 DEF CloseAll, Shape, IsState, Fields
<1>9. \A b \in Bids : r.brokers[b] = Gone
  <2>1. \A b \in Bids : t.brokers[b] # Gone => b \in bs
    BY <1>1 DEF Shape, bs, Of
  <2> QED
    BY <1>2, <1>6, <2>1
<1>10. ss \in [Sids -> Fds \cup {NoFd}] /\ \A s \in Sids : ss[s] = NoFd
  BY <1>7 DEF Shape
<1>11. ep \subseteq Fds
  BY <1>7
<1> HIDE DEF ep, ss, ws, u
<1>12. /\ IsState(u) /\ u.up = r.up /\ u.loop = r.loop /\ u.listener = r.listener /\ u.peers = r.peers
       /\ u.brokers = r.brokers /\ u.timers = r.timers /\ u.timeouts = r.timeouts
       /\ u.receive = r.receive /\ u.epoll = ep /\ u.sock = ss
  BY <1>7, <1>8 DEF Shape, IsState, Fields
<1>13. Shape(u) /\ Empty(u)
  BY <1>7, <1>9, <1>10, <1>11, <1>12 DEF Shape, Empty
<1>14. Ended(r) => Ended(u)
  BY <1>12, <1>13 DEF Ended, Empty
<1>15. Heard(u.peers, u.epoll, u.sock, u.brokers)
  BY <1>13 DEF Heard, Empty
<1>16. Sound(u)
  BY <1>6, <1>12, <1>13, <1>14, <1>15 DEF Sound
<1> QED
  BY <1>2, <1>6, <1>12, <1>13, <1>16 DEF u

LEMMA StopSound ==
  ASSUME env \in Environments, NEW t, Sound(t)
  PROVE  LET u == Stop(t)
         IN /\ Sound(u) /\ u.listener = t.listener
            /\ \A s \in Sids : t.sock[s] = NoFd => u.sock[s] = NoFd
<1> DEFINE u == Stop(t)
           c == CloseAll(t)
<1>1. Sound(c) /\ Empty(c) /\ c.up = t.up /\ c.loop = t.loop /\ c.listener = t.listener
  BY CloseAllSound
<1>2. /\ ~t.up => u = t
      /\ t.up /\ t.loop => u = [c EXCEPT !.up = FALSE, !.loop = FALSE, !.epoll = {}]
      /\ t.up /\ ~t.loop => u = [c EXCEPT !.up = FALSE]
  BY DEF Stop
<1> HIDE DEF u, c
<1>3. CASE ~t.up
  <2>1. u = t
    BY <1>2, <1>3
  <2>2. Sound(u) /\ u.listener = t.listener /\ \A s \in Sids : t.sock[s] = NoFd => u.sock[s] = NoFd
    BY <2>1
  <2> QED
    BY <2>2 DEF u
<1>4. CASE t.up
  <2>1. Shape(c) /\ Owned(c.timers, c.receive, c.brokers)
    BY <1>1 DEF Sound
  <2>2. /\ IsState(u) /\ u.listener = c.listener /\ u.peers = c.peers /\ u.sock = c.sock
        /\ u.brokers = c.brokers /\ u.timers = c.timers /\ u.timeouts = c.timeouts
        /\ u.receive = c.receive /\ u.epoll \in {{}, c.epoll} /\ u.up = FALSE
        /\ (u.loop = FALSE \/ (u.loop = c.loop /\ ~t.loop))
    <3>1. CASE t.loop
      BY <1>2, <1>4, <2>1, <3>1 DEF Shape, IsState, Fields
    <3>2. CASE ~t.loop
      BY <1>2, <1>4, <2>1, <3>2 DEF Shape, IsState, Fields
    <3> QED
      BY <3>1, <3>2
  <2>3. Shape(u) /\ Empty(u) /\ u.loop = FALSE
    BY <1>1, <2>1, <2>2 DEF Shape, Empty
  <2>4. Ended(u) /\ Heard(u.peers, u.epoll, u.sock, u.brokers)
    BY <2>3 DEF Ended, Heard, Empty
  <2>5. Sound(u)
    BY <2>1, <2>2, <2>3, <2>4 DEF Sound
  <2>6. u.listener = t.listener /\ \A s \in Sids : t.sock[s] = NoFd => u.sock[s] = NoFd
    BY <1>1, <2>2, <2>3 DEF Empty
  <2> QED
    BY <2>5, <2>6 DEF u
<1> QED
  BY <1>3, <1>4

(***************************************************************************)
(* Registrations.                                                          *)
(***************************************************************************)
\* only what is registered and watched is different
Plain(u, t) ==
  /\ Shape(u) /\ u.up = t.up /\ u.loop = t.loop /\ u.sock = t.sock /\ u.listener = t.listener
  /\ u.brokers = t.brokers /\ u.timers = t.timers /\ u.timeouts = t.timeouts
  /\ u.receive = t.receive /\ u.last = t.last

Enters(u, t, f, r) == u.peers = [t.peers EXCEPT ![f] = r] /\ u.epoll = t.epoll \cup {f}

Registered(u, t, f, r) == Plain(u, t) /\ Enters(u, t, f, r)

Entry == [who : Who, read : BOOLEAN]

With(t, ps, ep) == [t EXCEPT !.peers = ps, !.epoll = ep]

LEMMA WithIs ==
  ASSUME NEW t, Shape(t), NEW ps \in [Fds -> Entry], NEW ep \in SUBSET Fds
  PROVE  /\ Plain(With(t, ps, ep), t)
         /\ With(t, ps, ep).peers = ps /\ With(t, ps, ep).epoll = ep
<1> DEFINE u == With(t, ps, ep)
<1>1. /\ IsState(u) /\ u.up = t.up /\ u.loop = t.loop /\ u.sock = t.sock /\ u.listener = t.listener
      /\ u.brokers = t.brokers /\ u.timers = t.timers /\ u.timeouts = t.timeouts
      /\ u.receive = t.receive /\ u.last = t.last /\ u.peers = ps /\ u.epoll = ep
  BY DEF Shape, IsState, Fields, With
<1> HIDE DEF u
<1>2. Shape(u)
  BY <1>1 DEF Shape, Entry
<1> QED
  BY <1>1, <1>2 DEF Plain, u

LEMMA AddIs ==
  ASSUME NEW t, Shape(t), NEW f \in Fds, NEW who \in Who
  PROVE  Registered(Add(t, f, who), t, f, [who |-> who, read |-> FALSE])
<1> DEFINE r == [who |-> who, read |-> FALSE]
           ps == [t.peers EXCEPT ![f] = r]
           ep == t.epoll \cup {f}
           u == Add(t, f, who)
<1>1. t.peers \in [Fds -> Entry] /\ t.epoll \subseteq Fds /\ r \in Entry
  BY DEF Shape, Entry
<1>2. u = With(t, ps, ep)
  BY DEF Shape, IsState, Fields, Add, With
<1> HIDE DEF u, r
<1>3. ps \in [Fds -> Entry] /\ ep \subseteq Fds
  BY <1>1
<1> HIDE DEF ps, ep
<1>4. Plain(u, t) /\ u.peers = ps /\ u.epoll = ep
  BY <1>2, <1>3, WithIs
<1>5. Registered(u, t, f, r)
  BY <1>4 DEF Registered, Enters, ps, ep
<1> QED
  BY <1>5 DEF u, r

LEMMA DelIs ==
  ASSUME NEW t, Shape(t), NEW f, NEW who
  PROVE  Plain(Del(t, f, who), t) /\ (f \notin Fds => Del(t, f, who) = t)
<1>1. CASE ~(f \in Fds /\ t.peers[f].who = who)
  <2>1. Del(t, f, who) = t
    BY <1>1 DEF Del
  <2> QED
    BY <2>1 DEF Plain
<1>2. CASE f \in Fds /\ t.peers[f].who = who
  <2> DEFINE ps == [t.peers EXCEPT ![f] = Unused]
             ep == t.epoll \ {f}
             u == Del(t, f, who)
  <2>1. t.peers \in [Fds -> Entry] /\ t.epoll \subseteq Fds /\ Unused \in Entry
    BY DEF Shape, Entry, Unused, Who
  <2>2. u = With(t, ps, ep)
    BY <1>2 DEF Shape, IsState, Fields, Del, With
  <2> HIDE DEF u
  <2>3. ps \in [Fds -> Entry] /\ ep \in SUBSET Fds
    BY <2>1
  <2> HIDE DEF ps, ep
  <2>4. Plain(u, t)
    BY <2>2, <2>3, WithIs
  <2> QED
    BY <1>2, <2>4 DEF u
<1> QED
  BY <1>1, <1>2

Changed(u, t, f, r) ==
  Plain(u, t) /\ u.peers = [t.peers EXCEPT ![f] = r] /\ u.epoll = t.epoll

LEMMA ReadingIs ==
  ASSUME NEW t, Shape(t), NEW f \in Fds, NEW who, NEW on \in BOOLEAN
  PROVE  /\ Plain(Reading(t, f, who, on), t)
         /\ t.peers[f].who = who =>
              Changed(Reading(t, f, who, on), t, f, [who |-> who, read |-> on])
<1>1. CASE t.peers[f].who # who
  <2>1. Reading(t, f, who, on) = t
    BY <1>1 DEF Reading
  <2> QED
    BY <1>1, <2>1 DEF Plain
<1>2. CASE t.peers[f].who = who
  <2> DEFINE e == [who |-> who, read |-> on]
             ps == [t.peers EXCEPT ![f] = e]
             ep == t.epoll
             u == Reading(t, f, who, on)
  <2>1. t.peers \in [Fds -> Entry] /\ t.epoll \subseteq Fds
    BY DEF Shape, Entry
  <2>2. t.peers[f] \in Entry
    BY <2>1
  <2>3. [t.peers[f] EXCEPT !.read = on] = e /\ e \in Entry
    BY <1>2, <2>2 DEF Entry
  <2> HIDE DEF e
  <2>4. u = With(t, ps, ep)
    <3>1. u = [t EXCEPT !.peers = [t.peers EXCEPT ![f] = [t.peers[f] EXCEPT !.read = on]]]
      BY <1>2, <2>1 DEF Shape, IsState, Fields, Reading
    <3>2. u = [t EXCEPT !.peers = ps]
      BY <2>3, <3>1
    <3> HIDE DEF ps, u
    <3> QED
      BY <3>2 DEF Shape, IsState, Fields, With
  <2> HIDE DEF u
  <2>5. ps \in [Fds -> Entry] /\ ep \in SUBSET Fds
    BY <2>1, <2>3
  <2> HIDE DEF ps, ep
  <2>6. Plain(u, t) /\ u.peers = ps /\ u.epoll = ep
    BY <2>4, <2>5, WithIs
  <2>7. Changed(u, t, f, e)
    BY <2>6 DEF Changed, ps, ep
  <2> QED
    BY <2>6, <2>7 DEF u, e
<1> QED
  BY <1>1, <1>2

\* Event::start() and mode() for READ
LEMMA StartedIs ==
  ASSUME NEW t, Shape(t), NEW f \in Fds, NEW who \in Who
  PROVE  Registered(Reading(Add(t, f, who), f, who, TRUE), t, f, [who |-> who, read |-> TRUE])
<1> DEFINE a == Add(t, f, who)
           u == Reading(a, f, who, TRUE)
           e == [who |-> who, read |-> FALSE]
           g == [who |-> who, read |-> TRUE]
<1>1. Registered(a, t, f, e)
  BY AddIs
<1>2. e.who = who
  OBVIOUS
<1> HIDE DEF a, e
<1>3. f \in DOMAIN t.peers
  BY DEF Shape
<1>4. Shape(a) /\ Plain(a, t) /\ a.peers[f].who = who /\ a.peers = [t.peers EXCEPT ![f] = e]
      /\ a.epoll = t.epoll \cup {f}
  BY <1>1, <1>2, <1>3 DEF Registered, Enters, Plain
<1>5. Plain(u, a) /\ u.peers = [a.peers EXCEPT ![f] = g] /\ u.epoll = a.epoll
  <2> DEFINE on == TRUE
             h == [who |-> who, read |-> on]
  <2>1. on \in BOOLEAN
    OBVIOUS
  <2> HIDE DEF on
  <2>2. Changed(Reading(a, f, who, on), a, f, h)
    BY <1>4, <2>1, ReadingIs
  <2> QED
    BY <2>2 DEF on, Changed
<1> HIDE DEF u, g
<1>6. Plain(u, t)
  BY <1>4, <1>5 DEF Plain
<1>7. u.peers = [t.peers EXCEPT ![f] = g]
  BY <1>4, <1>5
<1>8. Registered(u, t, f, g)
  BY <1>4, <1>5, <1>6, <1>7 DEF Registered, Enters
<1> QED
  BY <1>8 DEF u, a, g

LEMMA PlainBasic ==
  ASSUME NEW t, Basic(t), NEW u, Plain(u, t)
  PROVE  Basic(u)
<1>1. Ended(t) => Ended(u)
  BY DEF Ended, Plain
<1> QED
  BY <1>1 DEF Basic, Plain

\* who is watched stays so when another number is registered
LEMMA StillWatched ==
  ASSUME NEW t, Shape(t), NEW f \in Fds, NEW r, NEW u, Enters(u, t, f, r)
  PROVE  \A g, who : g # f /\ Watched(t.peers, t.epoll, g, who) => Watched(u.peers, u.epoll, g, who)
BY DEF Watched, Enters, Shape

LEMMA NowWatched ==
  ASSUME NEW t, Shape(t), NEW f \in Fds, NEW who, NEW r, r = [who |-> who, read |-> TRUE],
         NEW u, Enters(u, t, f, r)
  PROVE  Watched(u.peers, u.epoll, f, who)
BY DEF Watched, Enters, Shape

LEMMA FreeIs ==
  ASSUME NEW t, Shape(t), NEW f \in Free(t)
  PROVE  /\ f \in Fds /\ f # NoFd /\ \A s \in Sids : t.sock[s] # f
         /\ \A b \in Bids : t.brokers[b].fd # f
<1>1. \A s \in Sids : t.sock[s] \in Range(t.sock)
  BY DEF Shape, Range
<1> QED
  BY <1>1, ServerAssumption DEF Free, NoFd

LEMMA NewBrokerSound ==
  ASSUME NEW t, Sound(t), NEW s \in env.sids, NEW f \in Fds, Quick => f \in Free(t),
         ~env.fails /\ Orderly => t.up, NEW u \in NewBroker(t, s, f)
  PROVE  Sound(u) /\ u.last \in Bids /\ u.up = t.up /\ u.loop = t.loop /\ u.listener = t.listener
         /\ u.sock = t.sock
<1> DEFINE b == t.last + 1
           k == [sid |-> s, fd |-> f]
           m == [t EXCEPT !.brokers[b] = k, !.last = b]
           g == [who |-> Broker(b), read |-> TRUE]
<1>1. b \in Bids /\ u = Reading(Add(m, f, Broker(b)), f, Broker(b), TRUE)
  BY DEF NewBroker
<1>2. Shape(t) /\ Basic(t) /\ (Quick => Heard(t.peers, t.epoll, t.sock, t.brokers))
  BY SoundIs DEF Basic
<1>3. k \in [sid : env.sids, fd : Fds] /\ k # Gone /\ k.fd = f
  BY ServerAssumption DEF Gone, NoFd
<1>4. m = [t EXCEPT !.brokers = [t.brokers EXCEPT ![b] = k], !.last = b]
  BY <1>2 DEF Shape, IsState, Fields
<1> HIDE DEF b, k
<1>5. /\ IsState(m) /\ m.up = t.up /\ m.loop = t.loop /\ m.sock = t.sock /\ m.listener = t.listener
      /\ m.timers = t.timers /\ m.timeouts = t.timeouts /\ m.receive = t.receive
      /\ m.peers = t.peers /\ m.epoll = t.epoll /\ m.last = b
      /\ m.brokers = [t.brokers EXCEPT ![b] = k]
  BY <1>2, <1>4 DEF Shape, IsState, Fields
<1> HIDE DEF m
<1>6. Shape(m) /\ m.brokers[b] = k /\ \A d \in Bids : d # b => m.brokers[d] = t.brokers[d]
  BY <1>1, <1>2, <1>3, <1>5 DEF Shape
<1>7. Basic(m)
  <2>1. Owned(m.timers, m.receive, m.brokers)
    BY <1>2, <1>3, <1>5, <1>6 DEF Basic, Owned
  <2>2. ~env.fails => Ended(m)
    BY <1>2, <1>5 DEF Basic, Ended
  <2> QED
    BY <1>6, <2>1, <2>2 DEF Basic
<1>8. Broker(b) \in Who
  BY <1>1 DEF Broker, Who
<1>9. Registered(u, m, f, g)
  BY <1>1, <1>6, <1>8, StartedIs
<1>10. Basic(u) /\ u.last = b /\ u.brokers = m.brokers /\ u.sock = m.sock /\ u.up = m.up /\ u.loop = m.loop
       /\ u.listener = m.listener
       /\ u.peers = [t.peers EXCEPT ![f] = g] /\ u.epoll = t.epoll \cup {f}
  BY <1>5, <1>7, <1>9, PlainBasic DEF Registered, Enters, Plain
<1>11. ASSUME Quick PROVE Heard(u.peers, u.epoll, u.sock, u.brokers)
  <2>1. /\ \A r \in Sids : t.sock[r] # f
        /\ \A d \in Bids : t.brokers[d].fd # f
    BY <1>2, <1>11, FreeIs
  <2>2. /\ Watched(u.peers, u.epoll, f, Broker(b))
        /\ \A h, who : h # f /\ Watched(t.peers, t.epoll, h, who) => Watched(u.peers, u.epoll, h, who)
    <3>1. g = [who |-> Broker(b), read |-> TRUE]
      OBVIOUS
    <3> HIDE DEF g
    <3>2. Enters(u, m, f, g)
      BY <1>9 DEF Registered
    <3>3. Watched(u.peers, u.epoll, f, Broker(b))
      BY <1>6, <3>1, <3>2, NowWatched
    <3>4. \A h, who : h # f /\ Watched(m.peers, m.epoll, h, who) => Watched(u.peers, u.epoll, h, who)
      BY <1>6, <3>2, StillWatched
    <3> QED
      BY <1>5, <3>3, <3>4
  <2>3. ASSUME NEW r \in Sids, u.sock[r] # NoFd PROVE Watched(u.peers, u.epoll, u.sock[r], Listener(r))
    <3>1. u.sock[r] = t.sock[r] /\ t.sock[r] # f /\ Watched(t.peers, t.epoll, t.sock[r], Listener(r))
      BY <1>2, <1>5, <1>10, <1>11, <2>1, <2>3 DEF Heard
    <3> QED
      BY <2>2, <3>1
  <2>4. ASSUME NEW d \in Bids, u.brokers[d] # Gone PROVE Watched(u.peers, u.epoll, u.brokers[d].fd, Broker(d))
    <3>1. CASE d = b
      BY <1>3, <1>6, <1>10, <2>2, <3>1
    <3>2. CASE d # b
      <4>1. u.brokers[d] = t.brokers[d] /\ t.brokers[d].fd # f
            /\ Watched(t.peers, t.epoll, t.brokers[d].fd, Broker(d))
        BY <1>2, <1>6, <1>10, <1>11, <2>1, <2>4, <3>2 DEF Heard
      <4> QED
        BY <2>2, <4>1
    <3> QED
      BY <3>1, <3>2
  <2> QED
    BY <2>3, <2>4 DEF Heard
<1> QED
  BY <1>1, <1>5, <1>10, <1>11, SoundIs

(***************************************************************************)
(* The launch of a scheme.                                                 *)
(***************************************************************************)
\* the scheme s has a socket f, which is not registered yet
Bounded(r, t, s, f) ==
  /\ Basic(r) /\ r.up = t.up /\ r.loop = t.loop /\ r.listener = t.listener /\ r.brokers = t.brokers
  /\ r.peers = t.peers /\ r.epoll = t.epoll /\ r.last = t.last
  /\ r.sock = [t.sock EXCEPT ![s] = f]

LEMMA BoundedIs ==
  ASSUME env \in Environments, NEW t, Basic(t), NEW s \in env.sids, NEW f \in Fds,
         ~env.fails /\ Orderly => t.up
  PROVE  Bounded([t EXCEPT !.sock[s] = f], t, s, f)
<1> DEFINE ss == [t.sock EXCEPT ![s] = f]
           r == [t EXCEPT !.sock[s] = f]
<1>1. Shape(t) /\ s \in Sids
  BY EnvFits DEF Basic
<1>2. r = [t EXCEPT !.sock = ss]
  BY <1>1 DEF Shape, IsState, Fields
<1>3. ss \in [Sids -> Fds \cup {NoFd}] /\ \A q \in Sids \ env.sids : ss[q] = NoFd
  BY <1>1 DEF Shape
<1> HIDE DEF r, ss
<1>4. /\ IsState(r) /\ r.up = t.up /\ r.loop = t.loop /\ r.listener = t.listener /\ r.brokers = t.brokers
      /\ r.peers = t.peers /\ r.epoll = t.epoll /\ r.last = t.last /\ r.timers = t.timers
      /\ r.timeouts = t.timeouts /\ r.receive = t.receive /\ r.sock = ss
  BY <1>1, <1>2 DEF Shape, IsState, Fields
<1>5. Shape(r)
  BY <1>1, <1>3, <1>4 DEF Shape
<1>6. Basic(r)
  BY <1>4, <1>5 DEF Basic, Ended
<1> QED
  BY <1>4, <1>6 DEF Bounded, r, ss

LEMMA ListenSound ==
  ASSUME env \in Environments, NEW t, Sound(t), NEW s \in env.sids, NEW f \in Free(t),
         Quick => t.listener[s] = NoFd, ~env.fails => t.up,
         NEW r, Bounded(r, t, s, f), NEW u, u = Listen(r, s)
  PROVE  /\ Sound(u) /\ u.up = t.up /\ u.loop = t.loop
         /\ \A q \in Sids \ {s} : u.sock[q] = t.sock[q] /\ u.listener[q] = t.listener[q]
<1>1. Shape(t) /\ Basic(t) /\ (Quick => Heard(t.peers, t.epoll, t.sock, t.brokers)) /\ s \in Sids
  BY SoundIs, EnvFits DEF Basic
<1>2. /\ f \in Fds /\ f # NoFd /\ \A q \in Sids : t.sock[q] # f
      /\ \A b \in Bids : t.brokers[b].fd # f
  BY <1>1, FreeIs
<1>3. Shape(r) /\ Basic(r) /\ r.sock[s] = f /\ \A q \in Sids \ {s} : r.sock[q] = t.sock[q]
  BY <1>1 DEF Bounded, Basic, Shape
<1>4. Listener(s) \in Who
  BY <1>1 DEF Listener, Who
<1> DEFINE w == Listener(s)
           on == TRUE
           g == [who |-> w, read |-> on]
           d == Del(r, r.listener[s], w)
           a == Add(d, f, w)
           l == [a EXCEPT !.listener[s] = f]
<1>5. on \in BOOLEAN
  OBVIOUS
<1>6. /\ r.listener[s] = f => u = Reading(r, f, w, on)
      /\ r.listener[s] # f => u = Reading(l, f, w, on)
  BY <1>3 DEF Listen
<1> HIDE DEF w, on
<1>7. CASE r.listener[s] = f
  <2>1. Plain(u, r)
    BY <1>2, <1>3, <1>5, <1>6, <1>7, ReadingIs
  <2>2. Basic(u)
    BY <1>3, <2>1, PlainBasic
  <2>3. ~Quick
    BY <1>2, <1>7 DEF Bounded
  <2> QED
    BY <1>3, <2>1, <2>2, <2>3, SoundIs DEF Plain, Bounded
<1>8. CASE r.listener[s] # f
  <2>1. Plain(d, r) /\ (r.listener[s] \notin Fds => d = r)
    BY <1>3, DelIs
  <2> HIDE DEF d
  <2>2. Registered(a, d, f, [who |-> w, read |-> FALSE])
    BY <1>2, <1>4, <2>1, AddIs DEF Plain, w
  <2> HIDE DEF a
  <2>3. Plain(a, r) /\ a.peers[f].who = w /\ a.peers = [d.peers EXCEPT ![f] = [who |-> w, read |-> FALSE]]
        /\ a.epoll = d.epoll \cup {f} /\ Shape(d)
    BY <1>2, <2>1, <2>2 DEF Registered, Enters, Plain, Shape
  <2>4. l = [a EXCEPT !.listener = [a.listener EXCEPT ![s] = f]]
    BY <2>3 DEF Plain, Shape, IsState, Fields
  <2> DEFINE ls == [a.listener EXCEPT ![s] = f]
  <2>5. ls \in [Sids -> Fds \cup {NoFd}] /\ \A q \in Sids \ {s} : ls[q] = t.listener[q]
    BY <1>1, <1>2, <2>3 DEF Plain, Shape, Bounded
  <2> HIDE DEF ls, l
  <2>6. /\ IsState(l) /\ l.up = a.up /\ l.loop = a.loop /\ l.sock = a.sock /\ l.brokers = a.brokers
        /\ l.peers = a.peers /\ l.epoll = a.epoll /\ l.last = a.last /\ l.timers = a.timers
        /\ l.timeouts = a.timeouts /\ l.receive = a.receive /\ l.listener = ls
    BY <2>3, <2>4 DEF Plain, Shape, IsState, Fields, ls
  <2>7. Shape(l)
    BY <2>3, <2>5, <2>6 DEF Plain, Shape
  <2>8. Basic(l)
    BY <1>3, <2>3, <2>6, <2>7 DEF Plain, Basic, Ended
  <2>9. Changed(u, l, f, g)
    <3>1. l.peers[f].who = w
      BY <2>3, <2>6
    <3>2. Changed(Reading(l, f, w, on), l, f, g)
      BY <1>2, <1>5, <2>7, <3>1, ReadingIs
    <3>3. u = Reading(l, f, w, on)
      BY <1>6, <1>8
    <3> QED
      BY <3>2, <3>3
  <2>10. Basic(u) /\ Plain(u, l)
    BY <2>8, <2>9, PlainBasic DEF Changed
  <2>11. ASSUME Quick PROVE Heard(u.peers, u.epoll, u.sock, u.brokers)
    <3>1. d = r
      BY <1>1, <2>1, <2>11, ServerAssumption DEF Bounded, NoFd
    <3>2. g = [who |-> w, read |-> TRUE]
      BY DEF on
    <3> HIDE DEF g
    <3>3. Enters(u, t, f, g)
      BY <2>3, <2>6, <2>9, <3>1 DEF Changed, Enters, Bounded
    <3>4. /\ Watched(u.peers, u.epoll, f, w)
          /\ \A h, who : h # f /\ Watched(t.peers, t.epoll, h, who) => Watched(u.peers, u.epoll, h, who)
      BY <1>1, <1>2, <3>2, <3>3, NowWatched, StillWatched
    <3>5. u.sock = r.sock /\ u.brokers = t.brokers
      BY <2>3, <2>6, <2>10 DEF Plain, Bounded
    <3>6. ASSUME NEW q \in Sids, u.sock[q] # NoFd PROVE Watched(u.peers, u.epoll, u.sock[q], Listener(q))
      <4>1. CASE q = s
        BY <1>3, <3>4, <3>5, <4>1 DEF w
      <4>2. CASE q # s
        <5>1. u.sock[q] = t.sock[q] /\ t.sock[q] # f
          BY <1>2, <1>3, <3>5, <4>2
        <5>2. Watched(t.peers, t.epoll, t.sock[q], Listener(q))
          BY <1>1, <2>11, <3>6, <5>1 DEF Heard
        <5> QED
          BY <3>4, <5>1, <5>2
      <4> QED
        BY <4>1, <4>2
    <3>7. ASSUME NEW b \in Bids, u.brokers[b] # Gone PROVE Watched(u.peers, u.epoll, u.brokers[b].fd, Broker(b))
      BY <1>1, <1>2, <2>11, <3>4, <3>5, <3>7 DEF Heard
    <3> QED
      BY <3>6, <3>7 DEF Heard
  <2>12. Sound(u)
    BY <2>10, <2>11, SoundIs
  <2>13. u.up = t.up /\ u.loop = t.loop
    BY <2>3, <2>6, <2>10 DEF Plain, Bounded
  <2>14. ASSUME NEW q \in Sids \ {s} PROVE u.sock[q] = t.sock[q] /\ u.listener[q] = t.listener[q]
    BY <1>3, <2>3, <2>5, <2>6, <2>10 DEF Plain
  <2> QED
    BY <2>12, <2>13, <2>14
<1> QED
  BY <1>7, <1>8

LEMMA InitDTLSSound ==
  ASSUME env \in Environments, NEW t, Sound(t), NEW s \in env.sids, ~Tcp,
         ~env.fails /\ Orderly => t.up, NEW r \in Created(t, s), NEW u \in InitDTLS(r, s)
  PROVE  Sound(u) /\ u.up = t.up /\ u.listener = t.listener
<1>1. PICK f \in Free(t) : r = [t EXCEPT !.sock[s] = f]
  BY DEF Created
<1>2. Basic(t) /\ Shape(t)
  BY SoundIs DEF Basic
<1>3. f \in Fds
  BY <1>2, FreeIs
<1>4. Bounded(r, t, s, f)
  BY <1>1, <1>2, <1>3, BoundedIs
<1>5. u \in NewBroker(r, s, r.sock[s]) /\ ~Quick
  BY DEF InitDTLS, Quick
<1>6. r.sock[s] = f /\ Sound(r) /\ r.up = t.up /\ r.listener = t.listener
  BY <1>2, <1>4, <1>5, SoundIs, EnvFits DEF Bounded, Shape
<1>7. Sound(u) /\ u.up = r.up /\ u.listener = r.listener
  BY <1>3, <1>5, <1>6, NewBrokerSound
<1> QED
  BY <1>6, <1>7

\* what a launch of s leaves
Launched(u, t, s) ==
  /\ Sound(u) /\ (~env.fails => u.up)
  /\ \A q \in Sids \ {s} : u.listener[q] = t.listener[q]

LEMMA LaunchSound ==
  ASSUME env \in Environments, NEW t, Sound(t), NEW s \in env.sids,
         Quick => t.listener[s] = NoFd, ~env.fails => t.up, NEW u \in Launch(t, s)
  PROVE  Launched(u, t, s)
<1>1. CASE env.fails /\ u = Stop(t)
  <2> DEFINE w == Stop(t)
  <2>1. Sound(w) /\ w.listener = t.listener
    BY StopSound
  <2> HIDE DEF w
  <2>2. Launched(w, t, s)
    BY <1>1, <2>1 DEF Launched
  <2> QED
    BY <1>1, <2>2 DEF w
<1>2. CASE \E r \in Created(t, s) : u \in Bound(r, s)
  <2>1. PICK r \in Created(t, s) : u \in Bound(r, s)
    BY <1>2
  <2>2. PICK f \in Free(t) : r = [t EXCEPT !.sock[s] = f]
    BY <2>1 DEF Created
  <2>3. Basic(t) /\ Shape(t)
    BY SoundIs DEF Basic
  <2>4. f \in Fds
    BY <2>3, FreeIs
  <2>5. Bounded(r, t, s, f)
    BY <2>2, <2>3, <2>4, BoundedIs
  <2>6. CASE Tcp
    <3>1. u = Listen(r, s)
      BY <2>1, <2>6 DEF Bound, Tcp
    <3>2. /\ Sound(u) /\ u.up = t.up
          /\ \A q \in Sids \ {s} : u.sock[q] = t.sock[q] /\ u.listener[q] = t.listener[q]
      BY <2>2, <2>5, <3>1, ListenSound
    <3> QED
      BY <3>2 DEF Launched
  <2>7. CASE ~Tcp
    <3>1. u \in InitDTLS(r, s)
      BY <2>1, <2>7 DEF Bound, Tcp
    <3>2. Sound(u) /\ u.up = t.up /\ u.listener = t.listener
      BY <2>1, <2>7, <3>1, InitDTLSSound
    <3> QED
      BY <3>2 DEF Launched
  <2> QED
    BY <2>6, <2>7
<1> QED
  BY <1>1, <1>2 DEF Launch

\* A set of numbers has a least one.
LEMMA LeastNat ==
  ASSUME NEW B, B \subseteq Nat, B # {}
  PROVE  \E n \in B : \A y \in B : n <= y
<1> DEFINE R == {ss \in Nat \X Nat : ss[1] < ss[2]}
<1>1. IsWellFoundedOn(R, Nat)
  BY NatLessThanWellFounded DEF OpToRel
<1>2. \A y, z \in Nat : ~(<<y, z>> \in R) => z <= y
  OBVIOUS
<1> HIDE DEF R
<1>3. \E n \in B : \A y \in B : ~(<<y, n>> \in R)
  BY <1>1, WFMin
<1> QED
  BY <1>2, <1>3

\* what LaunchAll has reached when the schemes of done are launched
Reached(u, done) ==
  /\ Sound(u) /\ (~env.fails => u.up)
  /\ Quick => \A q \in env.sids \ done : u.listener[q] = NoFd

LEMMA ReachedOneMore ==
  ASSUME env \in Environments, NEW done \in SUBSET env.sids, NEW s \in env.sids \ done,
         NEW t, Reached(t, done), NEW u \in Launch(t, s)
  PROVE  Reached(u, done \cup {s})
<1>1. Launched(u, t, s)
  BY LaunchSound DEF Reached
<1> QED
  BY <1>1, EnvFits DEF Reached, Launched

LEMMA LaunchAllSound ==
  ASSUME env \in Environments, NEW t, Reached(t, {}), NEW u \in LaunchAll(t)
  PROVE  Sound(u) /\ (~env.fails => u.up)
<1> DEFINE S == env.sids
           op(s, ts) == UNION {Launch(r, s) : r \in ts}
           pick(s) == CHOOSE y \in s : TRUE
           Body(f) == [s \in SUBSET S |-> IF s = {} THEN {t} ELSE op(pick(s), f[s \ {pick(s)}])]
           g == CHOOSE h : h = Body(h)
<1>1. u \in g[S]
  BY DEF LaunchAll, FoldSet, MapThenFoldSet
<1>2. \A s \in SUBSET S : s # {} => pick(s) \in s
  OBVIOUS
<1>3. IsFiniteSet(S)
  BY EnvFits, ServerAssumption, FS_Subset
<1>4. \A s \in SUBSET S : /\ IsFiniteSet(s) /\ Cardinality(s) \in Nat /\ Cardinality(s) <= Cardinality(S)
                          /\ s # {} => Cardinality(s \ {pick(s)}) = Cardinality(s) - 1
                          /\ Cardinality(s) = 0 => s = {}
  <2> SUFFICES ASSUME NEW s \in SUBSET S
               PROVE  /\ IsFiniteSet(s) /\ Cardinality(s) \in Nat /\ Cardinality(s) <= Cardinality(S)
                      /\ s # {} => Cardinality(s \ {pick(s)}) = Cardinality(s) - 1
                      /\ Cardinality(s) = 0 => s = {}
    OBVIOUS
  <2>1. IsFiniteSet(s) /\ Cardinality(s) <= Cardinality(S)
    BY <1>3, FS_Subset
  <2>2. Cardinality(s) \in Nat /\ (Cardinality(s) = 0 => s = {})
    BY <2>1, FS_CardinalityType, FS_EmptySet
  <2>3. s # {} => Cardinality(s \ {pick(s)}) = Cardinality(s) - 1
    <3> HIDE DEF pick
    <3> QED
      BY <1>2, <2>1, FS_RemoveElement
  <2> QED
    BY <2>1, <2>2, <2>3
<1> HIDE DEF op, pick
<1>5. \A h : /\ DOMAIN Body(h) = SUBSET S /\ Body(h) = [s \in SUBSET S |-> Body(h)[s]]
             /\ Body(h)[{}] = {t}
             /\ \A s \in SUBSET S : s # {} => Body(h)[s] = op(pick(s), h[s \ {pick(s)}])
  OBVIOUS
<1> HIDE DEF Body
<1>6. \E h : h = Body(h)
  <2> DEFINE Fixed(h, n) == \A s \in SUBSET S : Cardinality(s) <= n => h[s] = Body(h)[s]
             B == {n \in Nat : ~\E h : h = [s \in SUBSET S |-> h[s]] /\ Fixed(h, n)}
  <2>1. B = {}
    <3> SUFFICES ASSUME B # {} PROVE FALSE
      OBVIOUS
    <3>1. PICK n \in B : \A y \in B : n <= y
      <4> HIDE DEF B
      <4>1. B \subseteq Nat
        BY DEF B
      <4> QED
        BY <4>1, LeastNat
    <3>2. CASE n = 0
      <4> DEFINE h == [s \in SUBSET S |-> {t}]
      <4>1. h = [s \in SUBSET S |-> h[s]]
        OBVIOUS
      <4>2. ASSUME NEW s \in SUBSET S, Cardinality(s) <= 0 PROVE s = {}
        <5>1. Cardinality(s) \in Nat /\ (Cardinality(s) = 0 => s = {})
          BY <1>4
        <5> QED
          BY <4>2, <5>1
      <4>3. h[{}] = {t}
        OBVIOUS
      <4> HIDE DEF h
      <4>4. Fixed(h, n)
        BY <1>5, <3>2, <4>2, <4>3
      <4> QED
        BY <4>1, <4>4
    <3>3. CASE n # 0
      <4>1. n \in Nat /\ n - 1 \in Nat /\ n - 1 \notin B
        <5> HIDE DEF B
        <5>1. n \in Nat
          BY DEF B
        <5> QED
          BY <3>1, <3>3, <5>1
      <4>2. PICK h : h = [s \in SUBSET S |-> h[s]] /\ Fixed(h, n - 1)
        BY <4>1
      <4> DEFINE k == Body(h)
      <4>3. k = [s \in SUBSET S |-> k[s]]
        BY <1>5
      <4>4. ASSUME NEW s \in SUBSET S, Cardinality(s) <= n PROVE k[s] = Body(k)[s]
        <5>1. CASE s = {}
          BY <1>5, <5>1
        <5>2. CASE s # {}
          <6> DEFINE q == s \ {pick(s)}
          <6>1. q \in SUBSET S /\ Cardinality(q) <= n - 1
            BY <1>4, <4>1, <4>4, <5>2
          <6>2. h[q] = k[q]
            BY <4>2, <6>1
          <6>3. k[s] = op(pick(s), h[q]) /\ Body(k)[s] = op(pick(s), k[q])
            BY <1>5, <5>2
          <6> QED
            BY <6>2, <6>3
        <5> QED
          BY <5>1, <5>2
      <4>5. Fixed(k, n)
        <5> HIDE DEF k
        <5> QED
          BY <4>4
      <4> HIDE DEF k
      <4> QED
        BY <4>3, <4>5
    <3> QED
      BY <3>2, <3>3
  <2>2. Cardinality(S) \in Nat
    BY <1>3, FS_CardinalityType
  <2>3. PICK h : h = [s \in SUBSET S |-> h[s]] /\ Fixed(h, Cardinality(S))
    BY <2>1, <2>2
  <2>4. \A s \in SUBSET S : h[s] = Body(h)[s]
    BY <1>4, <2>3
  <2>5. h = Body(h)
    BY <1>5, <2>3, <2>4
  <2> QED
    BY <2>5
<1>7. g = Body(g)
  BY <1>6
<1> HIDE DEF g
<1>8. /\ g[{}] = {t}
      /\ \A s \in SUBSET S : s # {} => g[s] = op(pick(s), g[s \ {pick(s)}])
  BY <1>5, <1>7
<1>9. \A s \in SUBSET S : \A w \in g[s] : Reached(w, s)
  <2> DEFINE B == {n \in Nat : \E s \in SUBSET S : Cardinality(s) = n /\ \E w \in g[s] : ~Reached(w, s)}
  <2>1. B = {}
    <3> SUFFICES ASSUME B # {} PROVE FALSE
      OBVIOUS
    <3>1. PICK n \in B : \A y \in B : n <= y
      <4> HIDE DEF B
      <4>1. B \subseteq Nat
        BY DEF B
      <4> QED
        BY <4>1, LeastNat
    <3>2. PICK s \in SUBSET S : Cardinality(s) = n /\ \E w \in g[s] : ~Reached(w, s)
      OBVIOUS
    <3>3. PICK w \in g[s] : ~Reached(w, s)
      BY <3>2
    <3>4. CASE s = {}
      BY <1>8, <3>3, <3>4
    <3>5. CASE s # {}
      <4> DEFINE q == s \ {pick(s)}
      <4>1. w \in op(pick(s), g[q]) /\ pick(s) \in S \ q /\ q \in SUBSET S /\ q \cup {pick(s)} = s
        BY <1>2, <1>8, <3>3, <3>5
      <4>2. PICK r \in g[q] : w \in Launch(r, pick(s))
        BY <4>1 DEF op
      <4>3. Reached(r, q)
        <5>1. Cardinality(q) \in Nat /\ Cardinality(q) = n - 1
          BY <1>4, <3>2, <3>5
        <5>2. n \in Nat /\ Cardinality(q) \notin B
          <6> HIDE DEF B, q
          <6>1. n \in Nat
            BY DEF B
          <6> QED
            BY <3>1, <5>1, <6>1
        <5> QED
          BY <4>1, <4>2, <5>1, <5>2
      <4> HIDE DEF q
      <4>4. Reached(w, q \cup {pick(s)})
        BY <4>1, <4>2, <4>3, ReachedOneMore
      <4> QED
        BY <3>3, <4>1, <4>4
    <3> QED
      BY <3>4, <3>5
  <2> QED
    BY <1>4, <2>1
<1>10. Reached(u, S)
  BY <1>1, <1>9
<1> QED
  BY <1>10 DEF Reached

(***************************************************************************)
(* close() of a broker, and what callbacks do.                             *)
(***************************************************************************)
LEMMA StoppedSound ==
  ASSUME env \in Environments, NEW t, Sound(t), NEW u \in Stopped(t)
  PROVE  Sound(u) /\ (~env.reacts => u = t)
<1>1. Sound(Stop(t))
  BY StopSound
<1> QED
  BY <1>1 DEF Stopped

\* the socket of s is closed
Vacated(u, t, s) ==
  /\ IsState(u) /\ u.up = t.up /\ u.loop = t.loop /\ u.listener = t.listener
  /\ u.peers = t.peers /\ u.epoll = t.epoll \ {t.sock[s]} /\ u.brokers = t.brokers
  /\ u.timers = t.timers /\ u.timeouts = t.timeouts /\ u.receive = t.receive
  /\ u.sock = [t.sock EXCEPT ![s] = NoFd]

LEMMA VacatedBasic ==
  ASSUME NEW t, Basic(t), NEW s \in Sids, NEW u, Vacated(u, t, s)
  PROVE  Basic(u) /\ u.sock[s] = NoFd /\ \A q \in Sids : q # s => u.sock[q] = t.sock[q]
<1>1. Shape(t)
  BY DEF Basic
<1>2. /\ u.sock \in [Sids -> Fds \cup {NoFd}] /\ u.sock[s] = NoFd
      /\ \A q \in Sids : q # s => u.sock[q] = t.sock[q]
  BY <1>1 DEF Shape, Vacated
<1>3. Shape(u)
  BY <1>1, <1>2 DEF Shape, Vacated
<1>4. Basic(u)
  BY <1>1, <1>2, <1>3 DEF Basic, Ended, Vacated
<1> QED
  BY <1>2, <1>4

LEMMA VacatedSound ==
  ASSUME NEW t, Sound(t), NEW s \in Sids, NEW u, Vacated(u, t, s)
  PROVE  Sound(u)
<1>1. Shape(t) /\ Basic(t) /\ (Quick => Heard(t.peers, t.epoll, t.sock, t.brokers))
  BY SoundIs DEF Basic
<1>2. u.sock[s] = NoFd /\ \A q \in Sids : q # s => u.sock[q] = t.sock[q]
  BY <1>1, VacatedBasic
<1>4. Basic(u)
  BY <1>1, VacatedBasic
<1>5. ASSUME Quick PROVE Heard(u.peers, u.epoll, u.sock, u.brokers)
  <2>1. ASSUME NEW f \in Fds, NEW who, Watched(t.peers, t.epoll, f, who), who # Listener(s)
        PROVE  Watched(u.peers, u.epoll, f, who)
    <3>1. f # t.sock[s]
      <4> SUFFICES ASSUME f = t.sock[s] PROVE FALSE
        OBVIOUS
      <4>1. f # NoFd
        BY ServerAssumption DEF NoFd
      <4>2. Watched(t.peers, t.epoll, f, Listener(s))
        BY <1>1, <1>5, <4>1 DEF Heard
      <4> QED
        BY <2>1, <4>2, WatchedWho
    <3> QED
      BY <2>1, <3>1 DEF Watched, Vacated
  <2>2. ASSUME NEW q \in Sids, u.sock[q] # NoFd PROVE Watched(u.peers, u.epoll, u.sock[q], Listener(q))
    <3>1. q # s /\ u.sock[q] = t.sock[q] /\ t.sock[q] \in Fds
      BY <1>1, <1>2, <2>2 DEF Shape
    <3>2. Watched(t.peers, t.epoll, t.sock[q], Listener(q))
      BY <1>1, <1>5, <2>2, <3>1 DEF Heard
    <3> QED
      BY <2>1, <3>1, <3>2, NamesDiffer
  <2>3. ASSUME NEW b \in Bids, u.brokers[b] # Gone PROVE Watched(u.peers, u.epoll, u.brokers[b].fd, Broker(b))
    <3>1. u.brokers[b] = t.brokers[b] /\ t.brokers[b].fd \in Fds
      BY <1>1, <2>3, BrokerHas DEF Vacated
    <3>2. Watched(t.peers, t.epoll, t.brokers[b].fd, Broker(b))
      BY <1>1, <1>5, <2>3, <3>1 DEF Heard
    <3> QED
      BY <2>1, <3>1, <3>2, NamesDiffer
  <2> QED
    BY <2>2, <2>3 DEF Heard
<1> QED
  BY <1>4, <1>5, SoundIs

LEMMA UnboundIs ==
  ASSUME NEW t, Shape(t), NEW s \in Sids
  PROVE  Vacated(Unbound(t, s), t, s)
<1> DEFINE ss == [t.sock EXCEPT ![s] = NoFd]
           ep == t.epoll \ {t.sock[s]}
           ws == [t.waiting EXCEPT ![s] = IF env.sonet = "TCP" THEN 0 ELSE t.waiting[s]]
           u == Unbound(t, s)
           h == [t EXCEPT !.epoll = ep]
<1>1. Shut(t, t.sock[s]) = h
  BY DEF Shape, IsState, Fields, Shut
<1>2. /\ IsState(h) /\ h.sock = t.sock /\ h.waiting = t.waiting /\ h.epoll = ep
      /\ h.up = t.up /\ h.loop = t.loop /\ h.listener = t.listener /\ h.peers = t.peers
      /\ h.brokers = t.brokers /\ h.timers = t.timers /\ h.timeouts = t.timeouts
      /\ h.receive = t.receive
  BY DEF Shape, IsState, Fields
<1>3. u = [h EXCEPT !.sock[s] = NoFd, !.waiting[s] = IF env.sonet = "TCP" THEN 0 ELSE @]
  BY <1>1 DEF Unbound
<1> HIDE DEF h
<1>4. u = [h EXCEPT !.sock = ss, !.waiting = ws]
  BY <1>2, <1>3
<1> HIDE DEF u, ss, ep, ws
<1>5. /\ IsState(u) /\ u.up = t.up /\ u.loop = t.loop /\ u.listener = t.listener
      /\ u.peers = t.peers /\ u.epoll = ep /\ u.brokers = t.brokers
      /\ u.timers = t.timers /\ u.timeouts = t.timeouts /\ u.receive = t.receive /\ u.sock = ss
  BY <1>2, <1>4 DEF IsState, Fields
<1> QED
  BY <1>5 DEF Vacated, u, ss, ep

LEMMA CloseSound ==
  ASSUME env \in Environments, NEW t, Sound(t), NEW b \in Bids, NEW u \in Close(t, b)
  PROVE  Sound(u)
<1>1. Shape(t)
  BY DEF Sound
<1>2. CASE ~Has(t, b)
  BY <1>2 DEF Close
<1>3. CASE Has(t, b) /\ Tcp
  <2>1. Sound(RemovedAll(t, {b}))
    BY RemovedAllSound
  <2>2. u \in Stopped(RemovedAll(t, {b}))
    BY <1>3 DEF Close, Removed, Tcp
  <2> QED
    BY <2>1, <2>2, StoppedSound
<1>4. CASE Has(t, b) /\ ~Tcp
  <2> DEFINE s == t.brokers[b].sid
             c == ClearScheme(t, s)
             d == RemovedAll(c, {b})
  <2>1. PICK f : (\E r \in Stopped(d) : f = Unbound(r, s)) /\ u \in UNION {InitDTLS(r, s) : r \in Created(f, s)}
    BY <1>4 DEF Close, Removed, Tcp
  <2>2. s \in env.sids /\ s \in Sids
    BY <1>1, <1>4, EnvFits, BrokerHas DEF Has
  <2> HIDE DEF s
  <2>3. Sound(c) /\ Alike(c, t)
    BY ClearSchemeSound
  <2> HIDE DEF c
  <2>4. Sound(d) /\ d.up = t.up
    <3>1. {b} \in SUBSET Bids
      OBVIOUS
    <3>2. Sound(d) /\ d.up = c.up
      BY <2>3, <3>1, RemovedAllSound
    <3> QED
      BY <2>3, <3>2 DEF Alike
  <2> HIDE DEF d
  <2>5. PICK r \in Stopped(d) : f = Unbound(r, s)
    BY <2>1
  <2>6. Sound(r) /\ (Orderly => r = d)
    BY <1>4, <2>4, <2>5, StoppedSound DEF Orderly
  <2>7. Vacated(f, r, s)
    BY <2>2, <2>5, <2>6, UnboundIs DEF Sound
  <2>8. Sound(f) /\ f.up = r.up
    BY <2>2, <2>6, <2>7, VacatedSound DEF Vacated
  <2>9. ~env.fails /\ Orderly => f.up
    <3>1. ~env.fails => Ended(t)
      BY DEF Sound
    <3>2. ~env.fails /\ Orderly => t.up
      BY <1>4, <3>1 DEF Ended, Has
    <3> QED
      BY <2>4, <2>6, <2>8, <3>2
  <2>10. PICK k \in Created(f, s) : u \in InitDTLS(k, s)
    BY <2>1
  <2> QED
    BY <1>4, <2>2, <2>8, <2>9, <2>10, InitDTLSSound
<1> QED
  BY <1>2, <1>3, <1>4

LEMMA ReactedSound ==
  ASSUME env \in Environments, NEW t, Sound(t), NEW b \in Bids, NEW u \in Reacted(t, b)
  PROVE  Sound(u)
BY StoppedSound, CloseSound DEF Reacted

LEMMA ConnectedSound ==
  ASSUME env \in Environments, NEW t, Sound(t), NEW b \in Bids, NEW u \in Connected(t, b)
  PROVE  Sound(u)
<1> DEFINE m == [t EXCEPT !.told[b] = "connect"]
<1>1. Alike(m, t) /\ m.timers = t.timers /\ m.receive = t.receive
  BY DEF Sound, Shape, Alike, IsState, Fields
<1>2. u \in Reacted(m, b)
  BY DEF Connected
<1> HIDE DEF m
<1>3. Sound(m)
  BY <1>1, AlikeSound DEF Alike, Sound
<1> QED
  BY <1>2, <1>3, ReactedSound

\* one client less waits, or the next broker has another number
LEMMA FewerWaiting ==
  ASSUME NEW t, Sound(t), NEW s
  PROVE  LET u == [t EXCEPT !.waiting[s] = @ - 1]
         IN Sound(u) /\ Alike(u, t) /\ Sound([u EXCEPT !.last = @ + 1])
<1> DEFINE u == [t EXCEPT !.waiting[s] = @ - 1]
           w == [u EXCEPT !.last = @ + 1]
<1>1. Alike(u, t) /\ u.timers = t.timers /\ u.receive = t.receive
  BY DEF Sound, Shape, Alike, IsState, Fields
<1> HIDE DEF u
<1>2. Alike(w, u) /\ w.timers = u.timers /\ w.receive = u.receive
  BY <1>1 DEF Alike, IsState, Fields
<1> HIDE DEF w
<1>3. Sound(u)
  BY <1>1, AlikeSound DEF Alike, Sound
<1>4. Sound(w)
  BY <1>2, <1>3, AlikeSound DEF Alike, Sound
<1> QED
  BY <1>1, <1>3, <1>4 DEF u, w

(***************************************************************************)
(* accept() of DTLS.                                                       *)
(***************************************************************************)
LEMMA MovedSound ==
  ASSUME env \in Environments, NEW t, Sound(t), ~Tcp, NEW b \in Bids, Has(t, b), NEW s,
         NEW f \in Free(t), NEW old
  PROVE  LET m == [t EXCEPT !.brokers[b].fd = f, !.waiting[s] = @ - 1]
         IN Sound(Reading(Add(Del(m, old, Broker(b)), f, Broker(b)), f, Broker(b), TRUE))
<1> DEFINE k == [t.brokers[b] EXCEPT !.fd = f]
           m == [t EXCEPT !.brokers[b].fd = f, !.waiting[s] = @ - 1]
           d == Del(m, old, Broker(b))
           u == Reading(Add(d, f, Broker(b)), f, Broker(b), TRUE)
<1>1. Shape(t) /\ Basic(t) /\ ~Quick
  BY SoundIs DEF Basic, Quick
<1>2. f \in Fds
  BY <1>1, FreeIs
<1>3. k \in [sid : env.sids, fd : Fds] /\ k # Gone
  <2>1. t.brokers[b] \in [sid : env.sids, fd : Fds]
    BY <1>1, BrokerHas DEF Has
  <2> QED
    BY <1>2, <2>1, ServerAssumption DEF Gone, NoFd
<1>4. m = [t EXCEPT !.brokers = [t.brokers EXCEPT ![b] = k],
                    !.waiting = [t.waiting EXCEPT ![s] = t.waiting[s] - 1]]
  BY <1>1 DEF Shape, IsState, Fields
<1> HIDE DEF k, m
<1>5. /\ IsState(m) /\ m.up = t.up /\ m.loop = t.loop /\ m.sock = t.sock /\ m.listener = t.listener
      /\ m.timers = t.timers /\ m.timeouts = t.timeouts /\ m.receive = t.receive
      /\ m.peers = t.peers /\ m.epoll = t.epoll
      /\ m.brokers = [t.brokers EXCEPT ![b] = k]
  BY <1>1, <1>4 DEF Shape, IsState, Fields
<1>6. Shape(m) /\ m.brokers[b] = k /\ \A e \in Bids : e # b => m.brokers[e] = t.brokers[e]
  BY <1>1, <1>3, <1>5 DEF Shape
<1>7. Basic(m)
  <2>1. Owned(m.timers, m.receive, m.brokers)
    BY <1>1, <1>3, <1>5, <1>6 DEF Basic, Owned
  <2>2. ~env.fails => Ended(m)
    BY <1>1, <1>5 DEF Basic, Ended, Has
  <2> QED
    BY <1>6, <2>1, <2>2 DEF Basic
<1>8. Plain(d, m)
  BY <1>6, DelIs
<1> HIDE DEF d
<1>9. Broker(b) \in Who /\ Shape(d)
  BY <1>8 DEF Broker, Who, Plain
<1>10. Plain(u, d)
  BY <1>2, <1>9, StartedIs DEF Registered
<1> HIDE DEF u
<1>11. Basic(u)
  BY <1>7, <1>8, <1>10, PlainBasic
<1>12. Sound(u)
  BY <1>1, <1>11, SoundIs
<1> QED
  BY <1>12 DEF u, d, m

LEMMA AttachedSound ==
  ASSUME env \in Environments, NEW t, Sound(t), ~Tcp, NEW b \in Bids, Has(t, b), NEW s,
         NEW u \in Attached(t, s, b)
  PROVE  Sound(u)
<1> DEFINE old == t.brokers[b].fd
           moved(f) == Reading(Add(Del([t EXCEPT !.brokers[b].fd = f, !.waiting[s] = @ - 1],
                                       old, Broker(b)), f, Broker(b)), f, Broker(b), TRUE)
           away == [t EXCEPT !.waiting[s] = @ - 1]
           call == <<"read", b>>
<1>1. \A f \in Free(t) : Sound(moved(f))
  <2> HIDE DEF old
  <2> QED
    BY MovedSound
<1>2. Sound(away)
  BY FewerWaiting
<1>3. \/ \E f \in Free(t) : \E r \in Connected(moved(f), b) : u = CreateScheme(r, s, call)
      \/ u \in Close(away, b)
      \/ u = away
  <2> HIDE DEF call
  <2>1. u \in {CreateScheme(r, s, call) : r \in UNION {Connected(moved(f), b) : f \in Free(t)}}
              \cup Close(away, b) \cup IF env.nameless THEN {away} ELSE {}
    BY DEF Attached, call
  <2> HIDE DEF moved, away
  <2> QED
    BY <2>1
<1>4. call \in {"read", "accept"} \X Bids
  OBVIOUS
<1> HIDE DEF moved, away, call
<1>5. CASE \E f \in Free(t) : \E r \in Connected(moved(f), b) : u = CreateScheme(r, s, call)
  <2>1. PICK f \in Free(t) : \E r \in Connected(moved(f), b) : u = CreateScheme(r, s, call)
    BY <1>5
  <2>2. PICK r \in Connected(moved(f), b) : u = CreateScheme(r, s, call)
    BY <2>1
  <2>3. Sound(r)
    BY <1>1, <2>2, ConnectedSound
  <2> QED
    BY <1>4, <2>2, <2>3, CreateSchemeSound
<1>6. CASE u \in Close(away, b)
  BY <1>2, <1>6, CloseSound
<1> QED
  BY <1>2, <1>3, <1>5, <1>6

LEMMA AcceptDTLSSound ==
  ASSUME env \in Environments, NEW t, Sound(t), ~Tcp, NEW b \in Bids, NEW s,
         NEW u \in AcceptDTLS(t, s, b)
  PROVE  Sound(u)
<1>1. CASE ~Has(t, b)
  BY <1>1 DEF AcceptDTLS
<1>2. CASE Has(t, b)
  <2> DEFINE quiet == Reading(t, t.brokers[b].fd, Broker(b), FALSE)
             call == <<"accept", b>>
  <2>1. Shape(t) /\ Basic(t) /\ ~Quick
    BY SoundIs DEF Basic, Quick
  <2>2. t.brokers[b].fd \in Fds
    BY <1>2, <2>1, BrokerHas DEF Has
  <2>3. Plain(quiet, t)
    <3> DEFINE off == FALSE
    <3>1. off \in BOOLEAN
      OBVIOUS
    <3> HIDE DEF off
    <3>2. Plain(Reading(t, t.brokers[b].fd, Broker(b), off), t)
      BY <2>1, <2>2, <3>1, ReadingIs
    <3> QED
      BY <3>2 DEF off
  <2>4. u = CreateScheme(quiet, s, call) \/ u \in Attached(quiet, s, b)
    BY <1>2 DEF AcceptDTLS
  <2>5. call \in {"read", "accept"} \X Bids
    OBVIOUS
  <2> HIDE DEF quiet, call
  <2>6. Sound(quiet) /\ Has(quiet, b)
    BY <1>2, <2>1, <2>3, PlainBasic, SoundIs DEF Plain, Has
  <2> QED
    BY <2>4, <2>5, <2>6, CreateSchemeSound, AttachedSound
<1> QED
  BY <1>1, <1>2

(***************************************************************************)
(* read() and the timers.                                                  *)
(***************************************************************************)
LEMMA GotSound ==
  ASSUME env \in Environments, NEW t, Sound(t), NEW b \in Bids, NEW u \in Got(t, b)
  PROVE  Sound(u)
<1> DEFINE c == IF env.wait /\ env.sonet = "TCP" THEN ClearReceive(t, b) ELSE t
           quiet == [c EXCEPT !.inbox[b] = @ \ {"data"}]
<1>1. Sound(c)
  <2>1. Sound(ClearReceive(t, b))
    BY ClearReceiveSound
  <2> QED
    BY <2>1
<1>2. PICK r \in Reacted(quiet, b) : u = r \/ u = CreateReceive(r, b)
  <2>1. u \in {IF env.wait /\ "end" \notin r.inbox[b] THEN CreateReceive(r, b) ELSE r : r \in Reacted(quiet, b)}
    BY DEF Got
  <2> HIDE DEF quiet
  <2> QED
    BY <2>1
<1> HIDE DEF c
<1>3. Alike(quiet, c) /\ quiet.timers = c.timers /\ quiet.receive = c.receive
  BY <1>1 DEF Sound, Shape, Alike, IsState, Fields
<1> HIDE DEF quiet
<1>4. Sound(quiet)
  BY <1>1, <1>3, AlikeSound DEF Alike, Sound
<1>5. Sound(r)
  BY <1>2, <1>4, ReactedSound
<1> QED
  BY <1>2, <1>5, CreateReceiveSound

LEMMA ReadOfSound ==
  ASSUME env \in Environments, NEW t, Sound(t), NEW b \in Bids, NEW u \in ReadOf(t, b)
  PROVE  Sound(u)
<1>1. CASE ~t.up \/ ~Has(t, b)
  BY <1>1 DEF ReadOf
<1>2. CASE ~(~t.up \/ ~Has(t, b))
  <2>1. PICK r \in Got(t, b) \cup {t} : u = r \/ u \in Close(r, b)
    BY <1>2 DEF ReadOf
  <2>2. Sound(r)
    BY <2>1, GotSound
  <2> QED
    BY <2>1, <2>2, CloseSound
<1> QED
  BY <1>1, <1>2

LEMMA CalledSound ==
  ASSUME env \in Environments, NEW t, Sound(t), NEW i \in DOMAIN t.timers,
         NEW u \in Called(ClearTimer(t, i), t.timers[i])
  PROVE  Sound(u)
<1> DEFINE c == ClearTimer(t, i)
           call == t.timers[i]
<1>1. Sound(c)
  BY ClearTimerSound
<1>2. call \in {"close", "read", "accept"} \X Bids /\ (Tcp => call[1] = "close")
  BY DEF Sound, Owned
<1>3. /\ call[2] \in Bids /\ call[1] \in {"close", "read", "accept"}
      /\ call[1] = "close" => u \in Close(c, call[2])
      /\ call[1] = "read" => u \in ReadOf(c, call[2])
      /\ call[1] = "accept" => u \in AcceptDTLS(c, c.brokers[call[2]].sid, call[2])
  BY <1>2 DEF Called
<1> HIDE DEF c, call
<1> QED
  BY <1>1, <1>2, <1>3, CloseSound, ReadOfSound, AcceptDTLSSound

(***************************************************************************)
(* remove() of a scheme.                                                   *)
(***************************************************************************)
\* who is not the event that is taken out stays watched
LEMMA DelWatched ==
  ASSUME NEW t, Shape(t), NEW f, NEW who, NEW g \in Fds, NEW other, other # who,
         Watched(t.peers, t.epoll, g, other)
  PROVE  LET u == Del(t, f, who) IN Watched(u.peers, u.epoll, g, other)
<1>1. CASE ~(f \in Fds /\ t.peers[f].who = who)
  BY <1>1 DEF Del
<1>2. CASE f \in Fds /\ t.peers[f].who = who
  <2> DEFINE ps == [t.peers EXCEPT ![f] = Unused]
             ep == t.epoll \ {f}
             u == Del(t, f, who)
  <2>1. t.peers \in [Fds -> Entry] /\ t.epoll \subseteq Fds /\ Unused \in Entry
    BY DEF Shape, Entry, Unused, Who
  <2>2. u = With(t, ps, ep)
    BY <1>2 DEF Shape, IsState, Fields, Del, With
  <2> HIDE DEF u
  <2>3. g # f
    BY <1>2, WatchedWho
  <2>4. g \in ep /\ ps[g] = t.peers[g]
    BY <2>1, <2>3 DEF Watched
  <2>5. ps \in [Fds -> Entry] /\ ep \in SUBSET Fds
    BY <2>1
  <2> HIDE DEF ps, ep
  <2>6. u.peers = ps /\ u.epoll = ep
    BY <2>2, <2>5, WithIs
  <2>7. Watched(u.peers, u.epoll, g, other)
    BY <2>4, <2>6 DEF Watched
  <2> QED
    BY <2>7 DEF u
<1> QED
  BY <1>1, <1>2

LEMMA ReplacedSound ==
  ASSUME env \in Environments, NEW t, Sound(t), NEW s \in env.sids
  PROVE  Sound(Replaced(t, s))
<1> DEFINE w == Listener(s)
           c == ClearScheme(t, s)
           d == Del(c, t.listener[s], w)
           ls == [d.listener EXCEPT ![s] = NoFd]
           gone == [d EXCEPT !.listener[s] = NoFd]
           bs == Of(gone, s)
           r == RemovedAll(gone, bs)
           x == Unbound(r, s)
           ws == [x.waiting EXCEPT ![s] = 0]
           u == [x EXCEPT !.waiting[s] = 0]
<1>1. Shape(t) /\ s \in Sids /\ (Quick => Heard(t.peers, t.epoll, t.sock, t.brokers))
  BY SoundIs, EnvFits DEF Sound
<1>2. Sound(c) /\ Alike(c, t)
  BY ClearSchemeSound
<1>3. u = Replaced(t, s)
  BY DEF Replaced
<1> HIDE DEF c
<1>4. Basic(c) /\ Shape(c) /\ c.peers = t.peers /\ c.epoll = t.epoll /\ c.sock = t.sock /\ c.brokers = t.brokers
  BY <1>2, SoundIs DEF Basic, Alike
<1>5. /\ Basic(d) /\ Shape(d) /\ d.sock = t.sock /\ d.brokers = t.brokers
      /\ \A g \in Fds : \A who : who # w /\ Watched(t.peers, t.epoll, g, who)
                                   => Watched(d.peers, d.epoll, g, who)
  <2>1. Plain(d, c)
    BY <1>4, DelIs
  <2>2. ASSUME NEW g \in Fds, NEW who, who # w, Watched(t.peers, t.epoll, g, who)
        PROVE  Watched(d.peers, d.epoll, g, who)
    BY <1>4, <2>2, DelWatched
  <2> HIDE DEF d
  <2>3. Basic(d) /\ d.sock = t.sock /\ d.brokers = t.brokers /\ Shape(d)
    BY <1>4, <2>1, PlainBasic DEF Plain
  <2> QED
    BY <2>2, <2>3
<1> HIDE DEF d
<1>6. /\ Basic(gone) /\ Shape(gone) /\ gone.sock = t.sock /\ gone.brokers = t.brokers
      /\ gone.peers = d.peers /\ gone.epoll = d.epoll
  <2>1. gone = [d EXCEPT !.listener = ls]
    BY <1>5 DEF Shape, IsState, Fields
  <2>2. ls \in [Sids -> Fds \cup {NoFd}]
    BY <1>5 DEF Shape
  <2> HIDE DEF gone, ls
  <2>3. /\ IsState(gone) /\ gone.up = d.up /\ gone.loop = d.loop /\ gone.sock = d.sock
        /\ gone.peers = d.peers /\ gone.epoll = d.epoll /\ gone.brokers = d.brokers
        /\ gone.timers = d.timers /\ gone.timeouts = d.timeouts /\ gone.receive = d.receive
        /\ gone.listener = ls
    BY <1>5, <2>1 DEF Shape, IsState, Fields
  <2>4. Shape(gone)
    BY <1>5, <2>2, <2>3 DEF Shape
  <2> QED
    BY <1>5, <2>3, <2>4 DEF Basic, Ended
<1> HIDE DEF gone
<1>7. bs \in SUBSET Bids /\ \A b \in bs : t.brokers[b].sid = s
  BY <1>6 DEF Of
<1> HIDE DEF bs
<1>8. /\ Basic(r) /\ Shape(r) /\ Without(r, gone, bs) /\ r.sock = t.sock
      /\ r.brokers = [b \in Bids |-> IF b \in bs THEN Gone ELSE t.brokers[b]]
  <2>1. Basic(r) /\ r.sock = gone.sock /\ r.brokers = [b \in Bids |-> IF b \in bs THEN Gone ELSE gone.brokers[b]]
    BY <1>6, <1>7, RemovedAllBasic
  <2>2. Without(r, gone, bs)
    BY <1>6, RemovedAllIs
  <2> HIDE DEF r
  <2> QED
    BY <1>6, <2>1, <2>2 DEF Basic
<1> HIDE DEF r
<1>9. Vacated(x, r, s)
  BY <1>1, <1>8, UnboundIs
<1> HIDE DEF x
<1>10. Basic(x) /\ Shape(x) /\ x.sock[s] = NoFd /\ \A q \in Sids : q # s => x.sock[q] = t.sock[q]
  BY <1>1, <1>8, <1>9, VacatedBasic DEF Basic
<1>11. Alike(u, x) /\ u.timers = x.timers /\ u.receive = x.receive
  BY <1>10 DEF Shape, Alike, IsState, Fields
<1> HIDE DEF u
<1>12. Basic(u)
  BY <1>10, <1>11 DEF Basic, Shape, Ended, Alike
<1>13. ASSUME Quick PROVE Heard(u.peers, u.epoll, u.sock, u.brokers)
  <2>1. Heard(t.peers, t.epoll, t.sock, t.brokers)
    BY <1>1, <1>13
  <2>2. \A b \in Bids : gone.brokers[b] # Gone => Watched(gone.peers, gone.epoll, gone.brokers[b].fd, Broker(b))
    <3> SUFFICES ASSUME NEW b \in Bids, t.brokers[b] # Gone
                 PROVE  Watched(d.peers, d.epoll, t.brokers[b].fd, Broker(b))
      BY <1>6
    <3>1. Watched(t.peers, t.epoll, t.brokers[b].fd, Broker(b)) /\ t.brokers[b].fd \in Fds
      BY <1>1, <2>1, BrokerHas DEF Heard
    <3> QED
      BY <1>5, <3>1, NamesDiffer
  <2>3. ASSUME NEW g \in Fds, NEW who, who # w, \A b \in bs : who # Broker(b),
               Watched(t.peers, t.epoll, g, who)
        PROVE  Watched(u.peers, u.epoll, g, who)
    <3>1. Watched(gone.peers, gone.epoll, g, who)
      BY <1>5, <1>6, <2>3
    <3>2. Watched(r.peers, r.epoll, g, who)
      BY <1>6, <1>7, <1>8, <2>2, <2>3, <3>1, RemovedAllWatched
    <3>3. g # t.sock[s]
      <4> SUFFICES ASSUME g = t.sock[s] PROVE FALSE
        OBVIOUS
      <4>1. g # NoFd
        BY ServerAssumption DEF NoFd
      <4>2. Watched(t.peers, t.epoll, g, w)
        BY <1>1, <2>1, <4>1 DEF Heard
      <4> QED
        BY <2>3, <4>2, WatchedWho
    <3> QED
      BY <1>8, <1>9, <1>11, <3>2, <3>3 DEF Watched, Vacated, Alike
  <2>4. ASSUME NEW q \in Sids, u.sock[q] # NoFd PROVE Watched(u.peers, u.epoll, u.sock[q], Listener(q))
    <3>1. q # s /\ u.sock[q] = t.sock[q] /\ t.sock[q] \in Fds
      BY <1>1, <1>10, <1>11, <2>4 DEF Shape, Alike
    <3>2. Watched(t.peers, t.epoll, t.sock[q], Listener(q))
      BY <2>1, <2>4, <3>1 DEF Heard
    <3> QED
      BY <2>3, <3>1, <3>2, NamesDiffer
  <2>5. ASSUME NEW b \in Bids, u.brokers[b] # Gone PROVE Watched(u.peers, u.epoll, u.brokers[b].fd, Broker(b))
    <3>1. b \notin bs /\ u.brokers[b] = t.brokers[b]
      BY <1>8, <1>9, <1>11, <2>5 DEF Vacated, Alike
    <3>2. Watched(t.peers, t.epoll, t.brokers[b].fd, Broker(b)) /\ t.brokers[b].fd \in Fds
      BY <1>1, <2>1, <2>5, <3>1, BrokerHas DEF Heard
    <3> QED
      BY <2>3, <3>1, <3>2, NamesDiffer
  <2> QED
    BY <2>4, <2>5 DEF Heard
<1> QED
  BY <1>3, <1>12, <1>13, SoundIs

(***************************************************************************)
(* The steps.                                                              *)
(***************************************************************************)
LEMMA StartsSound ==
  ASSUME Init PROVE SInv
<1>1. DOMAIN <<>> = {}
  OBVIOUS
<1>2. Now.timers = <<>> /\ DOMAIN Now.timers = {}
  BY <1>1 DEF Init, Now
<1>3. IsState(Now)
  BY DEF Now, IsState, Fields
<1>4. /\ Now.up = FALSE /\ Now.loop = FALSE /\ Now.epoll = {}
      /\ Now.sock = [s \in Sids |-> NoFd] /\ Now.listener = [s \in Sids |-> NoFd]
      /\ Now.peers = [f \in Fds |-> Unused] /\ Now.brokers = [b \in Bids |-> Gone]
      /\ Now.timeouts = [s \in Sids |-> NoTimer] /\ Now.receive = [b \in Bids |-> NoTimer]
  BY DEF Init, Now
<1> HIDE DEF Now
<1>5. Now.peers \in [Fds -> [who : Who, read : BOOLEAN]]
  <2>1. Unused \in [who : Who, read : BOOLEAN]
    BY DEF Unused, Who
  <2> DEFINE R == [who : Who, read : BOOLEAN]
  <2> HIDE DEF R
  <2>2. Unused \in R => Now.peers \in [Fds -> R]
    BY <1>4
  <2> QED
    BY <2>1, <2>2 DEF R
<1>6. Now.brokers \in [Bids -> {Gone} \cup [sid : env.sids, fd : Fds]]
  <2> DEFINE R == {Gone} \cup [sid : env.sids, fd : Fds]
  <2>1. Gone \in R
    OBVIOUS
  <2> HIDE DEF R
  <2>2. Now.brokers \in [Bids -> R]
    BY <1>4, <2>1
  <2> QED
    BY <2>2 DEF R
<1>7. Shape(Now)
  BY <1>3, <1>4, <1>5, <1>6 DEF Shape
<1>8. Owned(Now.timers, Now.receive, Now.brokers)
  BY <1>2 DEF Owned
<1>9. Ended(Now) /\ Heard(Now.peers, Now.epoll, Now.sock, Now.brokers)
  BY <1>4 DEF Ended, Heard
<1> QED
  BY <1>7, <1>8, <1>9 DEF Init, SInv, Sound

LEMMA BecomesSound ==
  ASSUME env \in Environments, NEW t, Sound(t), Becomes(t)
  PROVE  SInv'
<1>1. env' = env
  BY DEF Becomes
<1>2. IsState(t)
  BY DEF Sound, Shape
<1>3. t = Now'
  BY <1>2 DEF Becomes, IsState, Fields, Now
<1>4. Sound(Now')
  <2> HIDE DEF Now
  <2> QED
    BY <1>3
<1> QED
  BY <1>1, <1>4 DEF SInv, Sound, Shape, IsState, Owned, Ended, Orderly, Tcp, Heard, Watched, Who

LEMMA AlikeStep ==
  ASSUME SInv, env' = env,
         UNCHANGED <<up, loop, sock, listener, peers, epoll, brokers, timers, timeouts, receive>>
  PROVE  SInv'
<1>1. Alike(Now', Now) /\ Now'.timers = Now.timers /\ Now'.receive = Now.receive
      /\ Now'.brokers = Now.brokers
  <2>1. DOMAIN receive = Bids /\ DOMAIN timeouts = Sids
    BY DEF SInv, Sound, Shape, Now
  <2> QED
    BY <2>1 DEF Alike, IsState, Fields, Now
<1>2. Owned(Now'.timers, Now'.receive, Now'.brokers)
  BY <1>1 DEF SInv, Sound
<1>3. Sound(Now')
  <2>1. \A u : Alike(u, Now) /\ Owned(u.timers, u.receive, u.brokers) => Sound(u)
    BY AlikeSound DEF SInv
  <2> HIDE DEF Now
  <2> QED
    BY <1>1, <1>2, <2>1
<1> QED
  BY <1>3 DEF SInv, Sound, Shape, IsState, Owned, Ended, Orderly, Tcp, Heard, Watched, Who

LEMMA StepsSound ==
  ASSUME SInv, Next PROVE SInv'
<1>1. env \in Environments /\ Sound(Now) /\ Shape(Now)
  BY DEF SInv, Sound
<1>2. /\ Now.up = up /\ Now.loop = loop /\ Now.sock = sock /\ Now.listener = listener
      /\ Now.timers = timers /\ Now.brokers = brokers
  BY DEF Now
<1>3. loop /\ ~env.fails => up
  BY <1>1, <1>2 DEF Sound, Ended
<1>4. ASSUME NEW t, Becomes(t), Sound(t) PROVE SInv'
  BY <1>1, <1>4, BecomesSound
<1>5. CASE Start
  <2> DEFINE began == [Now EXCEPT !.up = TRUE]
  <2>1. PICK t \in LaunchAll(began) : Becomes([t EXCEPT !.loop = TRUE])
    BY <1>5 DEF Start
  <2>2. /\ IsState(began) /\ began.up = TRUE /\ began.loop = loop /\ began.sock = sock
        /\ began.listener = listener /\ began.peers = Now.peers /\ began.epoll = Now.epoll
        /\ began.brokers = brokers /\ began.timers = timers /\ began.timeouts = Now.timeouts
        /\ began.receive = Now.receive
    BY <1>1, <1>2 DEF Shape, IsState, Fields
  <2>3. /\ \A s \in env.sids : Launchable(s)
    BY <1>5 DEF Start
  <2> HIDE DEF began
  <2>4. Sound(began)
    <3>1. Shape(began)
      <4> DEFINE n == Now
      <4>1. Shape(n) /\ began.loop = n.loop /\ began.sock = n.sock /\ began.listener = n.listener
            /\ began.peers = n.peers /\ began.epoll = n.epoll /\ began.brokers = n.brokers
            /\ began.receive = n.receive /\ began.timeouts = n.timeouts
        BY <1>1, <1>2, <2>2
      <4> HIDE DEF n
      <4> QED
        BY <2>2, <4>1 DEF Shape
    <3>2. Ended(began)
      BY <2>2 DEF Ended
    <3> QED
      BY <1>1, <1>2, <2>2, <3>1, <3>2, SMTT(40) DEF Sound
  <2>5. Quick => \A s \in env.sids : began.listener[s] = NoFd
    BY <2>2, <2>3 DEF Launchable, Quick
  <2>6. Reached(began, {})
    BY <2>2, <2>4, <2>5 DEF Reached
  <2>7. Sound(t) /\ (~env.fails => t.up)
    BY <1>1, <2>1, <2>6, LaunchAllSound
  <2> DEFINE u == [t EXCEPT !.loop = TRUE]
  <2>8. /\ IsState(u) /\ u.up = t.up /\ u.sock = t.sock /\ u.listener = t.listener
        /\ u.peers = t.peers /\ u.epoll = t.epoll /\ u.brokers = t.brokers /\ u.timers = t.timers
        /\ u.timeouts = t.timeouts /\ u.receive = t.receive /\ u.loop = TRUE
    BY <2>7 DEF Sound, Shape, IsState, Fields
  <2>9. Becomes(u)
    BY <2>1
  <2> HIDE DEF u
  <2>10. Shape(u)
    BY <2>7, <2>8 DEF Sound, Shape
  <2>11. Sound(u)
    BY <2>7, <2>8, <2>10 DEF Sound, Ended
  <2> QED
    BY <1>4, <2>9, <2>11
<1>6. CASE AppStop
  <2> DEFINE t == Stop(Now)
  <2>1. Sound(t)
    BY <1>1, StopSound
  <2>2. Becomes(t)
    BY <1>6 DEF AppStop
  <2> HIDE DEF t
  <2> QED
    BY <1>4, <2>1, <2>2
<1>7. CASE CloseEverything
  <2> DEFINE t == CloseAll(Now)
  <2>1. Sound(t)
    BY <1>1, CloseAllSound
  <2>2. Becomes(t)
    BY <1>7 DEF CloseEverything
  <2> HIDE DEF t
  <2> QED
    BY <1>4, <2>1, <2>2
<1>8. ASSUME NEW s \in Sids, Relaunch(s) PROVE SInv'
  <2>1. PICK t \in Launch(Now, s) : Becomes(t)
    BY <1>8 DEF Relaunch
  <2>2. s \in env.sids /\ up /\ (Quick => Now.listener[s] = NoFd)
    BY <1>2, <1>8 DEF Relaunch, Launchable, Quick
  <2>3. Launched(t, Now, s)
    BY <1>1, <1>2, <2>1, <2>2, LaunchSound
  <2> QED
    BY <1>4, <2>1, <2>3 DEF Launched
<1>9. ASSUME NEW s \in Sids, Replace(s) PROVE SInv'
  <2> DEFINE t == Replaced(Now, s)
  <2>1. s \in env.sids /\ Becomes(t)
    BY <1>9 DEF Replace
  <2>2. Sound(t)
    BY <1>1, <2>1, ReplacedSound
  <2> HIDE DEF t
  <2> QED
    BY <1>4, <2>1, <2>2
<1>10. ASSUME NEW s \in Sids, Arrive(s) PROVE SInv'
  BY <1>10, AlikeStep DEF Arrive
<1>11. ASSUME NEW s \in Sids, Accept(s) PROVE SInv'
  <2> DEFINE taken == [Now EXCEPT !.waiting[s] = @ - 1]
             away == [taken EXCEPT !.last = @ + 1]
  <2>1. Sound(taken) /\ Alike(taken, Now) /\ Sound(away)
    BY <1>1, FewerWaiting
  <2>2. loop /\ Tcp /\ Hears(Now, sock[s], Listener(s))
    BY <1>11 DEF Accept, Tcp
  <2>3. s \in env.sids
    <3>1. sock[s] \in Fds
      BY <1>1, <2>2 DEF Hears, Shape
    <3>2. sock[s] # NoFd
      BY <3>1, ServerAssumption DEF NoFd
    <3> QED
      BY <1>1, <1>2, <3>2 DEF Shape
  <2>4. PICK t : Becomes(t) /\ (t = away \/ \E f \in Free(taken) : \E r \in NewBroker(taken, s, f) : t \in Connected(r, r.last))
    <3>1. \E t \in {away} \cup UNION {UNION {Connected(r, r.last) : r \in NewBroker(taken, s, f)}
                                        : f \in Free(taken)} : Becomes(t)
      BY <1>11 DEF Accept
    <3> HIDE DEF away, taken
    <3> QED
      BY <3>1
  <2>5. ~env.fails => taken.up
    BY <1>2, <1>3, <2>1, <2>2 DEF Alike
  <2> HIDE DEF taken, away
  <2>6. ASSUME NEW f \in Free(taken), NEW r \in NewBroker(taken, s, f), t \in Connected(r, r.last)
        PROVE  Sound(t)
    <3>1. f \in Fds
      BY <2>1, FreeIs DEF Sound
    <3>2. Sound(r) /\ r.last \in Bids
      BY <2>1, <2>3, <2>5, <3>1, NewBrokerSound
    <3> QED
      BY <1>1, <2>6, <3>2, ConnectedSound
  <2> QED
    BY <1>4, <2>1, <2>4, <2>6
<1>12. ASSUME NEW b \in Bids, CloseBroker(b) PROVE SInv'
  <2>1. PICK t \in Close(Now, b) : Becomes(t)
    BY <1>12 DEF CloseBroker
  <2> QED
    BY <1>1, <1>4, <2>1, CloseSound
<1>13. ASSUME NEW b \in Bids, Talk(b) \/ Leave(b) PROVE SInv'
  BY <1>13, AlikeStep DEF Talk, Leave, Sends
<1>14. ASSUME NEW b \in Bids, Hello(b) PROVE SInv'
  <2>1. PICK t \in AcceptDTLS(Now, brokers[b].sid, b) : Becomes(t)
    BY <1>14 DEF Hello
  <2>2. ~Tcp
    BY <1>14 DEF Hello, Listening, Tcp
  <2> QED
    BY <1>1, <1>4, <2>1, <2>2, AcceptDTLSSound
<1>15. ASSUME NEW b \in Bids, Read(b) PROVE SInv'
  <2>1. PICK t \in ReadOf(Now, b) : Becomes(t)
    BY <1>15 DEF Read
  <2> QED
    BY <1>1, <1>4, <2>1, ReadOfSound
<1>16. ASSUME NEW tid \in 1..TidBound, Fire(tid) PROVE SInv'
  <2>1. PICK t \in Called(ClearTimer(Now, tid), Now.timers[tid]) : Becomes(t)
    BY <1>2, <1>16 DEF Fire
  <2>2. tid \in DOMAIN Now.timers
    BY <1>2, <1>16 DEF Fire
  <2>3. Sound(t)
    BY <1>1, <2>1, <2>2, CalledSound
  <2> QED
    BY <1>4, <2>1, <2>3
<1> QED
  BY <1>5, <1>6, <1>7, <1>8, <1>9, <1>10, <1>11, <1>12, <1>13, <1>14, <1>15, <1>16 DEF Next

LEMMA InvariantHolds == Spec => []SInv
<1>1. Init => SInv
  BY StartsSound
<1>2. SInv /\ [Next]_vars => SInv'
  <2> SUFFICES ASSUME SInv, [Next]_vars PROVE SInv'
    OBVIOUS
  <2>1. CASE UNCHANGED vars
    BY <2>1, AlikeStep DEF vars
  <2>2. CASE Next
    BY <2>2, StepsSound
  <2> QED
    BY <2>1, <2>2
<1> QED
  BY <1>1, <1>2, PTL DEF Spec

(***************************************************************************)
(* The timer that closes a broker belongs to a broker that is there and    *)
(* knows the timer (server.cpp: createTimeout() and clearTimeout(bid) for  *)
(* RECEIVE): however brokers come and go, callbacks stop everything, ports *)
(* are taken and schemes are launched again, no timer is left that closes  *)
(* a connection that came later under its id.                              *)
(***************************************************************************)
THEOREM TimersStayOwned == Spec => []TimersOwned
<1>1. SInv => TimersOwned
  BY DEF SInv, Sound, Owned, TimersOwned, Has, Now
<1> QED
  BY <1>1, InvariantHolds, PTL

(***************************************************************************)
(* When stop() has been called, from the application or from a callback in *)
(* the middle of accept(), read() or close(), the loop has ended, and (for *)
(* DTLS unless a callback did it) no scheme has a socket and no broker is  *)
(* left. It needs that launch() can bind its socket: where it cannot, it   *)
(* stops a core whose other schemes are launched nevertheless.             *)
(***************************************************************************)
THEOREM StopLeavesNothing == Spec => [](~env.fails => StopEndsAll)
<1>1. SInv => (~env.fails => StopEndsAll)
  <2> SUFFICES ASSUME SInv, ~env.fails, ~up
               PROVE  /\ ~loop
                      /\ Orderly => \A s \in env.sids : sock[s] = NoFd /\ Of(Now, s) = {}
    BY DEF StopEndsAll, Orderly, Tcp
  <2>1. Ended(Now) /\ env.sids \subseteq Sids /\ Shape(Now)
    BY EnvFits DEF SInv, Sound
  <2>2. Now.up = up /\ Now.loop = loop /\ Now.sock = sock
    BY DEF Now
  <2>3. ~loop /\ (Orderly => \A b \in Bids : Now.brokers[b] = Gone)
        /\ (Orderly => \A s \in Sids : sock[s] = NoFd)
    BY <2>1, <2>2 DEF Ended
  <2>4. ASSUME Orderly, NEW s \in env.sids PROVE Of(Now, s) = {}
    <3>1. s # 0
      BY <2>1, ServerAssumption
    <3> QED
      BY <2>3, <2>4, <3>1 DEF Of, Gone
  <2> QED
    BY <2>1, <2>3, <2>4
<1> QED
  BY <1>1, InvariantHolds, PTL

(***************************************************************************)
(* With a listening broker (TCP, TLS, SCTP) and schemes that are not       *)
(* launched a second time as they are, every socket that is in use is      *)
(* watched for reading by the event of the scheme or of the broker that    *)
(* uses it, although numbers of sockets are given out again and Base keeps *)
(* the registration of a number that was closed.                           *)
(***************************************************************************)
THEOREM EverySocketHeard == Spec => [](env.sonet = "TCP" => NobodyDeaf)
<1>1. SInv => (env.sonet = "TCP" => NobodyDeaf)
  <2> SUFFICES ASSUME SInv, env.sonet = "TCP", ~env.again
               PROVE  /\ \A s \in env.sids : sock[s] # NoFd => Hears(Now, sock[s], Listener(s))
                      /\ \A b \in Bids : Has(Now, b) => Hears(Now, brokers[b].fd, Broker(b))
    BY DEF NobodyDeaf, AllHeard, Deafens
  <2>1. Heard(peers, epoll, sock, brokers) /\ env.sids \subseteq Sids
    BY EnvFits DEF SInv, Sound, Now, Tcp
  <2> QED
    BY <2>1 DEF Heard, Watched, Hears, Has, Now
<1> QED
  BY <1>1, InvariantHolds, PTL
=============================================================================
