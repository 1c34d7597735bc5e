----------------------------- MODULE ServerCore -----------------------------
(***************************************************************************)
(* The server core, src/core/server.cpp: the launch of a scheme, its       *)
(* listening socket, accept(), the limit of connections, read(), the       *)
(* timers of its brokers, close(), remove(), stop() and start(), for the   *)
(* transports with a listening broker (TCP, TLS, SCTP: "TCP" below) and    *)
(* for DTLS, whose one broker listens itself. The cluster mode is off.     *)
(*                                                                         *)
(* It is composed with what these calls leave in Event (event.cpp), in     *)
(* Base (_peers and the set of epoll) and in Timer: numbers of sockets are *)
(* given out again, Event::start() does nothing for an event that is       *)
(* started, and Base::clear() does not touch _peers.                       *)
(*                                                                         *)
(* One thread runs everything, so a handler is one action with all its     *)
(* calls; an operator of a handler gives the set of states it may leave.   *)
(***************************************************************************)
EXTENDS Integers, FiniteSetsExt, Functions

CONSTANTS
  Sids,          \* ids of schemes
  Fds,           \* numbers of sockets
  Bids,          \* 1..n: ids of brokers, in the order they are made
  TidBound,      \* the highest id of a timer
  Talks,         \* how often a client sends something
  Environments   \* see env

ASSUME ServerAssumption ==
  /\ IsFiniteSet(Sids) /\ 0 \notin Sids /\ IsFiniteSet(Fds) /\ 0 \notin Fds
  /\ TidBound \in Nat /\ Talks \in Nat
  /\ IsFiniteSet(Bids) /\ Bids = 1..Cardinality(Bids)
  /\ \A e \in Environments :
       e \in [sids : SUBSET Sids, sonet : {"TCP", "DTLS"}, total : Nat, wait : BOOLEAN,
              leaves : BOOLEAN, reacts : BOOLEAN, fails : BOOLEAN, again : BOOLEAN,
              nameless : BOOLEAN]

VARIABLES
  env,       \* the schemes; the transport; their limit; timeouts.wait > 0 (read > 0
             \* for DTLS); do clients leave; may callbacks close and stop; may the
             \* listening socket fail; may a scheme be launched again as it is; are there
             \* clients whose MAC or IP is not found
  up,        \* working()
  loop,      \* Base::_works
  sock,      \* _addr.sock of a scheme, or NoFd
  listener,  \* the socket the event of the listening broker is started for
  peers,     \* Base::_peers: the event registered for a number, is READ enabled
  epoll,     \* the numbers the kernel watches
  brokers,   \* _brokers of the node and of the schemes
  last,      \* the broker made last
  waiting,   \* clients that wait to be accepted
  inbox,     \* what a client has sent and nobody has read; its end
  talked,    \* how often it has sent
  timers,    \* Timer::_brokers and _callback: id |-> the call it makes
  timeouts,  \* _timeouts: the id kept for a scheme, or NoTimer
  receive,   \* _receive: the id kept for a broker, or NoTimer
  told       \* what the callbacks have said of a broker last

vars == <<env, up, loop, sock, listener, peers, epoll, brokers, last, waiting,
          inbox, talked, timers, timeouts, receive, told>>

NoFd == 0
NoTimer == 0
Gone == [sid |-> 0, fd |-> NoFd]
Unused == [who |-> <<"nobody", 0>>, read |-> FALSE]
Listener(s) == <<"listener", s>>
Broker(b) == <<"broker", b>>

Now == [up |-> up, loop |-> loop, sock |-> sock, listener |-> listener,
        peers |-> peers, epoll |-> epoll, brokers |-> brokers, last |-> last,
        waiting |-> waiting, inbox |-> inbox, timers |-> timers,
        timeouts |-> timeouts, receive |-> receive, told |-> told]

Has(t, b) == t.brokers[b] # Gone
Of(t, s) == {b \in Bids : t.brokers[b].sid = s}
Listening(t, b) == env.sonet = "DTLS" /\ t.brokers[b].fd = t.sock[t.brokers[b].sid]

\* the bound on brokers: every client that waits needs one, and DTLS one after each client
Spent(t, s) ==
  t.last + t.waiting[s]
    + IF env.sonet = "TCP" THEN 0 ELSE Cardinality({b \in Of(t, s) : ~Listening(t, b)})

Becomes(t) ==
  /\ DOMAIN t.timers \subseteq 1..TidBound   \* the bound on timers
  /\ \A s \in env.sids : Spent(t, s) <= Max(Bids)
  /\ up' = t.up /\ loop' = t.loop /\ sock' = t.sock /\ listener' = t.listener
  /\ peers' = t.peers /\ epoll' = t.epoll /\ brokers' = t.brokers /\ last' = t.last
  /\ waiting' = t.waiting /\ inbox' = t.inbox /\ timers' = t.timers
  /\ timeouts' = t.timeouts /\ receive' = t.receive /\ told' = t.told
  /\ UNCHANGED env

Free(t) == Fds \ (Range(t.sock) \cup {t.brokers[b].fd : b \in Bids})

(***************************************************************************)
(* Event::start(), stop() and mode() with Base::add(), del() and mode().   *)
(* del() and mode() look for the id of the event, so they leave alone a    *)
(* number that has passed to another; closing a socket takes it from epoll.*)
(***************************************************************************)
Add(t, f, who) ==
  [t EXCEPT !.peers[f] = [who |-> who, read |-> FALSE], !.epoll = @ \cup {f}]

Del(t, f, who) ==
  IF f \in Fds /\ t.peers[f].who = who
  THEN [t EXCEPT !.peers[f] = Unused, !.epoll = @ \ {f}] ELSE t

Reading(t, f, who, on) ==
  IF t.peers[f].who = who THEN [t EXCEPT !.peers[f].read = on] ELSE t

Hears(t, f, who) == f \in t.epoll /\ t.peers[f] = [who |-> who, read |-> TRUE]

Shut(t, f) == [t EXCEPT !.epoll = @ \ {f}]

(***************************************************************************)
(* Timer::timeout() and clear(), createTimeout() and clearTimeout().       *)
(***************************************************************************)
NewTid(t) == IF DOMAIN t.timers = {} THEN 1 ELSE 1 + Max(DOMAIN t.timers)

ClearTimer(t, tid) == [t EXCEPT !.timers = Restrict(@, DOMAIN @ \ {tid})]

Timeout(t, call) ==
  LET tid == NewTid(t)
  IN [t EXCEPT !.timers = [i \in DOMAIN @ \cup {tid} |-> IF i = tid THEN call ELSE @[i]]]

ClearReceive(t, b) == [ClearTimer(t, t.receive[b]) EXCEPT !.receive[b] = NoTimer]
ClearScheme(t, s) == [ClearTimer(t, t.timeouts[s]) EXCEPT !.timeouts[s] = NoTimer]

\* RECEIVE: close(bid) when nothing more comes
CreateReceive(t, b) ==
  LET cleared == ClearTimer(t, t.receive[b])
  IN IF Has(t, b)
     THEN [Timeout(cleared, <<"close", b>>) EXCEPT !.receive[b] = NewTid(cleared)]
     ELSE t

\* ACCEPT and READ: accept(sid, bid) and read(bid) a little later
CreateScheme(t, s, call) ==
  LET cleared == ClearTimer(t, t.timeouts[s])
  IN [Timeout(cleared, call) EXCEPT !.timeouts[s] = NewTid(cleared)]

(***************************************************************************)
(* Brokers: stop(), ectx.clear() and node_t::remove(), then "disconnect".  *)
(***************************************************************************)
NewBroker(t, s, f) ==
  IF t.last + 1 \notin Bids THEN {}
  ELSE LET b == t.last + 1
           made == Add([t EXCEPT !.brokers[b] = [sid |-> s, fd |-> f], !.last = b], f, Broker(b))
       IN {Reading(made, f, Broker(b), TRUE)}

RemovedAll(t, bs) ==
  [t EXCEPT !.timers = Restrict(@, DOMAIN @ \ {t.receive[b] : b \in bs}),
            !.receive = [b \in Bids |-> IF b \in bs THEN NoTimer ELSE @[b]],
            !.peers = [f \in Fds |-> IF \E b \in bs : t.brokers[b].fd = f /\ @[f].who = Broker(b)
                                     THEN Unused ELSE @[f]],
            !.epoll = @ \ {t.brokers[b].fd : b \in bs},
            !.brokers = [b \in Bids |-> IF b \in bs THEN Gone ELSE @[b]],
            !.inbox = [b \in Bids |-> IF b \in bs THEN {} ELSE @[b]],
            !.told = [b \in Bids |-> IF b \in bs THEN "disconnect" ELSE @[b]]]

\* a plausible slip: the timer of the broker stays behind
RemovedKeepsTimer(t, b) ==
  [RemovedAll(t, {b}) EXCEPT !.timers = t.timers, !.receive = t.receive]

Removed(t, b) == RemovedAll(t, {b})

\* _addr.clear(): the listening socket, and with it the clients in its queue
Unbound(t, s) ==
  [Shut(t, t.sock[s]) EXCEPT !.sock[s] = NoFd,
                             !.waiting[s] = IF env.sonet = "TCP" THEN 0 ELSE @]

(***************************************************************************)
(* close() of everything; the listening broker stays as it is.             *)
(***************************************************************************)
\* a plausible slip: the listening sockets stay open
CloseAllListens(t) ==
  RemovedAll([t EXCEPT !.timers = Restrict(@, DOMAIN @ \ {t.timeouts[s] : s \in env.sids}),
                       !.timeouts = [s \in Sids |-> IF s \in env.sids THEN NoTimer ELSE @[s]]],
             UNION {Of(t, s) : s \in env.sids})

CloseAll(t) ==
  [CloseAllListens(t)
     EXCEPT !.epoll = @ \ {t.sock[s] : s \in env.sids},
            !.sock = [s \in Sids |-> IF s \in env.sids THEN NoFd ELSE @[s]],
            !.waiting = [s \in Sids |-> IF s \in env.sids THEN 0 ELSE @[s]]]

\* stop(): Base::stop() does nothing for a loop that has not begun
Stop(t) ==
  IF ~t.up THEN t
  ELSE IF t.loop THEN [CloseAll(t) EXCEPT !.up = FALSE, !.loop = FALSE, !.epoll = {}]
  ELSE [CloseAll(t) EXCEPT !.up = FALSE]

(***************************************************************************)
(* create() and launch(), work() and initDTLS().                           *)
(***************************************************************************)
Created(t, s) == {[t EXCEPT !.sock[s] = f] : f \in Free(t)}

\* Event::set() starts again for another number only
Listen(t, s) ==
  LET f == t.sock[s]
  IN IF t.listener[s] = f THEN Reading(t, f, Listener(s), TRUE)
     ELSE Reading([Add(Del(t, t.listener[s], Listener(s)), f, Listener(s))
                     EXCEPT !.listener[s] = f], f, Listener(s), TRUE)

InitDTLS(t, s) == NewBroker(t, s, t.sock[s])

Bound(t, s) == IF env.sonet = "TCP" THEN {Listen(t, s)} ELSE InitDTLS(t, s)

Launch(t, s) ==
  (UNION {Bound(r, s) : r \in Created(t, s)}) \cup IF env.fails THEN {Stop(t)} ELSE {}

LaunchAll(t) == FoldSet(LAMBDA s, ts : UNION {Launch(r, s) : r \in ts}, {t}, env.sids)

(***************************************************************************)
(* close(bid). For DTLS the scheme gets a new socket and a new broker      *)
(* after "disconnect", whose callback may have stopped everything.         *)
(***************************************************************************)
Stopped(t) == IF env.reacts THEN {t, Stop(t)} ELSE {t}

Close(t, b) ==
  IF ~Has(t, b) THEN {t}
  ELSE IF env.sonet = "TCP" THEN Stopped(Removed(t, b))
  ELSE LET s == t.brokers[b].sid
           free == {Unbound(r, s) : r \in Stopped(Removed(ClearScheme(t, s), b))}
       IN UNION {UNION {InitDTLS(r, s) : r \in Created(f, s)} : f \in free}

\* what the callback "connect" or "read" of a broker may call
Reacted(t, b) == Stopped(t) \cup IF env.reacts THEN Close(t, b) ELSE {}

Connected(t, b) == Reacted([t EXCEPT !.told[b] = "connect"], b)

(***************************************************************************)
(* Calls of the application.                                               *)
(***************************************************************************)
\* a scheme of its own, or one that may be launched again
Launchable(s) == sock[s] = NoFd /\ (env.again \/ listener[s] = NoFd)

\* start(): launching() runs before the loop does
Start ==
  /\ ~up /\ ~loop /\ \A s \in env.sids : Launchable(s)
  /\ \E t \in LaunchAll([Now EXCEPT !.up = TRUE]) : Becomes([t EXCEPT !.loop = TRUE])
  /\ UNCHANGED talked

AppStop == up /\ loop /\ Becomes(Stop(Now)) /\ UNCHANGED talked

CloseEverything ==
  up /\ loop /\ Becomes(CloseAll(Now)) /\ UNCHANGED talked

Relaunch(s) ==
  /\ up /\ loop /\ s \in env.sids /\ Launchable(s)
  /\ \E t \in Launch(Now, s) : Becomes(t)
  /\ UNCHANGED talked

\* remove(sid), and the scheme is added again: its id is the number of schemes, so it
\* gets the same when it was the last
Replaced(t, s) ==
  LET gone == [Del(ClearScheme(t, s), t.listener[s], Listener(s)) EXCEPT !.listener[s] = NoFd]
  IN [Unbound(RemovedAll(gone, Of(gone, s)), s) EXCEPT !.waiting[s] = 0]

Replace(s) ==
  /\ s \in env.sids /\ (sock[s] # NoFd \/ listener[s] # NoFd)
  /\ Becomes(Replaced(Now, s)) /\ UNCHANGED talked

CloseBroker(b) ==
  /\ loop /\ Has(Now, b)
  /\ \E t \in Close(Now, b) : Becomes(t)
  /\ UNCHANGED talked

(***************************************************************************)
(* The clients.                                                            *)
(***************************************************************************)
Arrive(s) ==
  /\ s \in env.sids /\ sock[s] # NoFd
  /\ Spent(Now, s) < Max(Bids)
  /\ waiting' = [waiting EXCEPT ![s] = @ + 1]
  /\ UNCHANGED <<env, up, loop, sock, listener, peers, epoll, brokers, last,
                 inbox, talked, timers, timeouts, receive, told>>

Sends(b, what) ==
  /\ told[b] = "connect" /\ "end" \notin inbox[b]
  /\ inbox' = [inbox EXCEPT ![b] = @ \cup {what}]
  /\ UNCHANGED <<env, up, loop, sock, listener, peers, epoll, brokers, last,
                 waiting, timers, timeouts, receive, told>>

Talk(b) ==
  /\ talked[b] < Talks /\ Sends(b, "data")
  /\ talked' = [talked EXCEPT ![b] = @ + 1]

Leave(b) == env.leaves /\ Sends(b, "end") /\ UNCHANGED talked

(***************************************************************************)
(* Events of the listening broker and of the brokers.                      *)
(***************************************************************************)
HasRoom(t, s) == Cardinality(Of(t, s)) < env.total

\* accept(sock, sid): a client is turned away (address, callback, TLS) or gets a broker
Accept(s) ==
  /\ loop /\ env.sonet = "TCP" /\ waiting[s] > 0
  /\ Hears(Now, sock[s], Listener(s)) /\ HasRoom(Now, s)
  /\ LET taken == [Now EXCEPT !.waiting[s] = @ - 1]
     IN \E t \in {[taken EXCEPT !.last = @ + 1]} \cup
                 UNION {UNION {Connected(r, r.last) : r \in NewBroker(taken, s, f)}
                          : f \in Free(taken)} : Becomes(t)
  /\ UNCHANGED talked

\* accept(sid, bid) of DTLS: not ready, or a socket of its own for the client, with
\* the broker told and looked at again in 100 ms; or it is turned away; or it has no
\* MAC or IP: the new socket is closed, and nothing else is done
Attached(t, s, b) ==
  LET old == t.brokers[b].fd
      moved(f) == Reading(Add(Del([t EXCEPT !.brokers[b].fd = f, !.waiting[s] = @ - 1],
                                  old, Broker(b)), f, Broker(b)), f, Broker(b), TRUE)
  IN {CreateScheme(r, s, <<"read", b>>) :
        r \in UNION {Connected(moved(f), b) : f \in Free(t)}}
     \cup Close([t EXCEPT !.waiting[s] = @ - 1], b)
     \cup IF env.nameless THEN {[t EXCEPT !.waiting[s] = @ - 1]} ELSE {}

\* a plausible slip: a handshake that is not ready is left to the next READ event
AcceptOnce(t, s, b) ==
  IF ~Has(t, b) THEN {t}
  ELSE LET quiet == Reading(t, t.brokers[b].fd, Broker(b), FALSE)
       IN {quiet} \cup IF t.waiting[s] > 0 THEN Attached(quiet, s, b) ELSE {}

AcceptDTLS(t, s, b) ==
  IF ~Has(t, b) THEN {t}
  ELSE LET quiet == Reading(t, t.brokers[b].fd, Broker(b), FALSE)
       IN {CreateScheme(quiet, s, <<"accept", b>>)}
          \cup IF t.waiting[s] > 0 THEN Attached(quiet, s, b) ELSE {}

Hello(b) ==
  /\ loop /\ Has(Now, b) /\ Listening(Now, b) /\ waiting[brokers[b].sid] > 0
  /\ Hears(Now, brokers[b].fd, Broker(b))
  /\ \E t \in AcceptDTLS(Now, brokers[b].sid, b) : Becomes(t)
  /\ UNCHANGED talked

\* read(bid): everything that is there, the end of the stream last (one message for
\* DTLS); then the wait for the next message begins
\* a plausible slip: the wait does not begin again
GotOnce(t, b) ==
  LET quiet == [IF env.wait THEN ClearReceive(t, b) ELSE t EXCEPT !.inbox[b] = @ \ {"data"}]
  IN Reacted(quiet, b)

Got(t, b) ==
  LET quiet == [IF env.wait /\ env.sonet = "TCP" THEN ClearReceive(t, b) ELSE t
                  EXCEPT !.inbox[b] = @ \ {"data"}]
  IN {IF env.wait /\ "end" \notin r.inbox[b] THEN CreateReceive(r, b) ELSE r : r \in Reacted(quiet, b)}

ReadOf(t, b) ==
  IF ~t.up \/ ~Has(t, b) THEN {t}
  ELSE LET got == IF "data" \in t.inbox[b] THEN Got(t, b) ELSE {t}
           ended(r) == "end" \in r.inbox[b] /\ (env.sonet = "TCP" \/ "data" \notin t.inbox[b])
       IN UNION {IF ended(r) THEN Close(r, b) ELSE {r} : r \in got}

Read(b) ==
  /\ loop /\ Has(Now, b) /\ ~Listening(Now, b) /\ inbox[b] # {}
  /\ Hears(Now, brokers[b].fd, Broker(b))
  /\ \E t \in ReadOf(Now, b) : Becomes(t)
  /\ UNCHANGED talked

(***************************************************************************)
(* Timer::event(): the timer is gone before its function is called.        *)
(***************************************************************************)
Called(t, call) ==
  CASE call[1] = "close" -> Close(t, call[2])
    [] call[1] = "read" -> ReadOf(t, call[2])
    [] call[1] = "accept" -> AcceptDTLS(t, t.brokers[call[2]].sid, call[2])

Fire(tid) ==
  /\ loop /\ tid \in DOMAIN timers
  /\ \E t \in Called(ClearTimer(Now, tid), timers[tid]) : Becomes(t)
  /\ UNCHANGED talked

Init ==
  /\ env \in Environments
  /\ up = FALSE /\ loop = FALSE
  /\ sock = [s \in Sids |-> NoFd] /\ listener = [s \in Sids |-> NoFd]
  /\ peers = [f \in Fds |-> Unused] /\ epoll = {}
  /\ brokers = [b \in Bids |-> Gone] /\ last = 0
  /\ waiting = [s \in Sids |-> 0]
  /\ inbox = [b \in Bids |-> {}] /\ talked = [b \in Bids |-> 0]
  /\ timers = <<>> /\ timeouts = [s \in Sids |-> NoTimer]
  /\ receive = [b \in Bids |-> NoTimer]
  /\ told = [b \in Bids |-> "nothing"]

Next ==
  \/ Start \/ AppStop \/ CloseEverything
  \/ \E s \in Sids : Relaunch(s) \/ Replace(s) \/ Arrive(s) \/ Accept(s)
  \/ \E b \in Bids : CloseBroker(b) \/ Talk(b) \/ Leave(b) \/ Hello(b) \/ Read(b)
  \/ \E tid \in 1..TidBound : Fire(tid)

Spec == Init /\ [][Next]_vars

\* The loop goes on, timers run out, a handshake that is looked at again is ready in the
\* end (until then Fire changes nothing), and a client leaves or says something once.
FairSpec ==
  /\ Spec
  /\ \A s \in Sids : WF_vars(Accept(s))
  /\ \A b \in Bids : /\ WF_vars(Read(b)) /\ WF_vars(Hello(b))
                     /\ WF_vars(Leave(b)) /\ WF_vars(talked[b] = 0 /\ Talk(b))
  /\ \A tid \in 1..TidBound : WF_vars(Fire(tid))
-----------------------------------------------------------------------------
TypeOK ==
  /\ env \in Environments /\ up \in BOOLEAN /\ loop \in BOOLEAN
  /\ sock \in [Sids -> Fds \cup {NoFd}] /\ listener \in [Sids -> Fds \cup {NoFd}]
  /\ DOMAIN peers = Fds /\ epoll \subseteq Fds
  /\ \A b \in Bids : brokers[b] = Gone \/ brokers[b] \in [sid : env.sids, fd : Fds]
  /\ last \in {0} \cup Bids
  /\ waiting \in [Sids -> 0..Max(Bids)]
  /\ inbox \in [Bids -> SUBSET {"data", "end"}] /\ talked \in [Bids -> 0..Talks]
  /\ timeouts \in [Sids -> 0..TidBound] /\ receive \in [Bids -> 0..TidBound]
  /\ told \in [Bids -> {"nothing", "connect", "disconnect"}]

(***************************************************************************)
(* Nobody is deaf: a scheme that is bound hears its clients, and a broker  *)
(* hears its client or has a timer that looks after it. It holds where no  *)
(* scheme is launched again as it is and, for one scheme over DTLS, every  *)
(* client has a MAC and an IP; AllHeard, which says it of every server,    *)
(* does not hold.                                                          *)
(***************************************************************************)
LooksAfter(b) == \E i \in DOMAIN timers : timers[i] \in {<<"accept", b>>, <<"read", b>>}

AllHeard ==
  loop =>
    /\ \A s \in env.sids :
         env.sonet = "TCP" /\ sock[s] # NoFd => Hears(Now, sock[s], Listener(s))
    /\ \A b \in Bids : Has(Now, b) => Hears(Now, brokers[b].fd, Broker(b)) \/ LooksAfter(b)

Deafens == env.again \/ (env.sonet = "DTLS" /\ env.nameless)

NobodyDeaf == ~Deafens => AllHeard

(***************************************************************************)
(* A timer that closes belongs to a broker that is there and knows it.     *)
(***************************************************************************)
TimersOwned ==
  \A i \in DOMAIN timers : \A b \in Bids :
    timers[i] = <<"close", b>> => Has(Now, b) /\ receive[b] = i

(***************************************************************************)
(* After stop() nothing is left: no loop, no socket, no broker.            *)
(***************************************************************************)
StopEndsAll ==
  ~up => /\ ~loop
         /\ env.sonet = "TCP" \/ ~env.reacts =>
              \A s \in env.sids : sock[s] = NoFd /\ Of(Now, s) = {}

(***************************************************************************)
(* A client that waits gets its turn, where nothing makes the port deaf.   *)
(***************************************************************************)
Served ==
  \A s \in Sids :
    waiting[s] > 0 /\ (env.wait \/ env.leaves) /\ ~Deafens ~> waiting[s] = 0 \/ ~loop
=============================================================================
