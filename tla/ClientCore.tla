----------------------------- MODULE ClientCore -----------------------------
(***************************************************************************)
(* The life of the connections of a client, src/core/client.cpp: open(),   *)
(* connect(), connected(), close(), reconnect() and the timers of          *)
(* src/core/timer.cpp that stand between them, for the families with an    *)
(* address to be resolved (IPv4, IPv6), without a proxy.                   *)
(*                                                                         *)
(* Everything runs in the thread of the event loop, one handler at a time, *)
(* so a handler is one action with all the calls it makes. What a handler  *)
(* does depends on the network (does the name resolve, does connect()      *)
(* succeed): an operator below that stands for such a handler gives the    *)
(* set of states it may leave behind.                                      *)
(***************************************************************************)
EXTENDS Integers, SequencesExt

CONSTANTS
  Schemes,       \* the ids of the schemes (sid)
  Bids,          \* 1..n: the ids of brokers (bounds those in use at a time)
  TidBound,      \* the highest id of a timer
  Environments   \* see env

ASSUME ClientAssumption ==
  /\ Bids \subseteq Nat \ {0} /\ TidBound \in Nat \ {0}
  /\ Environments \subseteq
       [schemes : SUBSET Schemes, alive : BOOLEAN, unresolved : BOOLEAN,
        wait : BOOLEAN, read : BOOLEAN, stopsWaiting : BOOLEAN]

VARIABLES
  env,       \* the schemes in use; scheme_t::alive; may a name fail to resolve;
             \* timeouts.wait > 0; timeouts.read > 0; may the application stop or
             \* close everything while a scheme waits
  up,        \* working()
  status,    \* scheme_t::status of each scheme
  ip,        \* url.ip is known
  broker,    \* the broker of the scheme, or NoBroker
  timers,    \* Timer::_brokers and _callback: id |-> the call it makes
  timeouts,  \* _timeouts: the id kept for a scheme, or NoTimer
  receive,   \* _receive: the id kept for its broker, or NoTimer
  told,      \* what the callbacks of the scheme reported last
  wanted     \* the application wants this scheme connected

vars == <<env, up, status, ip, broker, timers, timeouts, receive, told, wanted>>

NoBroker == 0
NoTimer == 0

Now == [status |-> status, ip |-> ip, broker |-> broker, timers |-> timers,
        timeouts |-> timeouts, receive |-> receive, told |-> told, wanted |-> wanted]

Becomes(t) ==
  /\ DOMAIN t.timers \subseteq 1..TidBound   \* the bound on timers
  /\ status' = t.status /\ ip' = t.ip /\ broker' = t.broker
  /\ timers' = t.timers /\ timeouts' = t.timeouts /\ receive' = t.receive
  /\ told' = t.told /\ wanted' = t.wanted

(***************************************************************************)
(* Timer::timeout(), clear() and the two kinds of timers of the client.    *)
(***************************************************************************)
NewTid(t) == IF DOMAIN t.timers = {} THEN 1 ELSE 1 + Max(DOMAIN t.timers)

ClearTimer(t, tid) == [t EXCEPT !.timers = Restrict(@, DOMAIN @ \ {tid})]

Timeout(t, call) ==
  [t EXCEPT !.timers = [i \in DOMAIN @ \cup {NewTid(t)} |->
                          IF i \in DOMAIN @ THEN @[i] ELSE call]]

ClearTimeout(t, s) == [ClearTimer(t, t.timeouts[s]) EXCEPT !.timeouts[s] = NoTimer]

CreateTimeout(t, s, mode) ==
  LET cleared == ClearTimer(t, t.timeouts[s])
  IN [Timeout(cleared, <<mode, s>>) EXCEPT !.timeouts[s] = NewTid(cleared)]

CreateReceive(t, s) ==
  LET cleared == ClearTimer(t, t.receive[s])
  IN [Timeout(cleared, <<"close", t.broker[s]>>) EXCEPT !.receive[s] = NewTid(cleared)]

(***************************************************************************)
(* The status of a scheme.                                                 *)
(***************************************************************************)
Real(t, s, mode) == [t EXCEPT !.status[s].real = mode]
Wait(t, s, mode) == [t EXCEPT !.status[s].wait = mode]
Work(t, s, mode) == [t EXCEPT !.status[s].work = mode]

Told(t, s) == [t EXCEPT !.told[s] = "disconnect"]
GivenUp(t, s) == [Told(t, s) EXCEPT !.wanted[s] = FALSE]

Ready(t, s) == t.status[s].wait = "DISCONNECT" /\ t.status[s].work = "ALLOW"

\* resolve(): the address is known, or becomes known, or does not
Resolved(t, s) ==
  {[t EXCEPT !.ip[s] = TRUE]} \cup IF env.unresolved THEN {t} ELSE {}

Addressed(t, s) == IF t.ip[s] THEN {t} ELSE Resolved(t, s)

(***************************************************************************)
(* reconnect(), with work() for a scheme that waits for RECONNECT.         *)
(***************************************************************************)
Waiting(t, s) ==
  IF t.ip[s] THEN CreateTimeout(t, s, "connect")
  ELSE IF env.alive THEN CreateTimeout(t, s, "reconnect")
  ELSE GivenUp(t, s)

Reconnect(t, s) ==
  IF Ready(t, s)
  THEN {Waiting(r, s) : r \in Addressed(Wait(t, s, "RECONNECT"), s)}
  ELSE {t}

(***************************************************************************)
(* close(bid): the broker goes, both statuses return to DISCONNECT, and    *)
(* the callbacks run at the end, "disconnect" before the reconnect.        *)
(***************************************************************************)
\* a plausible slip: the status is left to the next connect()
DetachedStillWaiting(t, s) ==
  [ClearTimeout(IF env.read THEN ClearTimer(t, t.receive[s]) ELSE t, s)
     EXCEPT !.broker[s] = NoBroker, !.receive[s] = NoTimer,
            !.status[s].real = "DISCONNECT"]

Detached(t, s) ==
  [ClearTimeout(IF env.read THEN ClearTimer(t, t.receive[s]) ELSE t, s)
     EXCEPT !.broker[s] = NoBroker, !.receive[s] = NoTimer,
            !.status[s].wait = "DISCONNECT", !.status[s].real = "DISCONNECT"]

Close(t, s) ==
  IF env.alive THEN Reconnect(Told(Detached(t, s), s), s)
  ELSE {GivenUp(Detached(t, s), s)}

\* close(): all timers, and the schemes that have a broker
\* a plausible slip: the broker goes without a "disconnect"
ClosedSilently(t) ==
  LET has == {s \in Schemes : t.broker[s] # NoBroker}
  IN [t EXCEPT !.timers = <<>>,
               !.timeouts = [s \in Schemes |-> NoTimer],
               !.receive = [s \in Schemes |-> NoTimer],
               !.broker = [s \in Schemes |-> NoBroker],
               !.status = [s \in Schemes |->
                 IF s \in has THEN [@[s] EXCEPT !.wait = "DISCONNECT", !.real = "DISCONNECT"]
                              ELSE @[s]],
               !.wanted = [s \in Schemes |-> FALSE]]

CloseAll(t) ==
  LET has == {s \in Schemes : t.broker[s] # NoBroker}
  IN [ClosedSilently(t) EXCEPT
        !.told = [s \in Schemes |-> IF s \in has THEN "disconnect" ELSE @[s]]]

(***************************************************************************)
(* connect(): a new broker and its socket. How it goes on:                 *)
(*   pending  the socket connects, the WRITE event will tell               *)
(*   refused  connect() failed: the address is forgotten, close(bid)       *)
(*   nowrap   the engine has closed the socket: reconnect(), alive or not  *)
(*   badsock  there is no socket                                           *)
(*   misfit   no host, or no TLS where TLS is asked for                    *)
(***************************************************************************)
Fresh(t) ==
  {b \in Bids : /\ \A s \in Schemes : t.broker[s] # b
                /\ \A i \in DOMAIN t.timers : t.timers[i] # <<"close", b>>}

Began(t, s) ==
  [t EXCEPT !.broker[s] = NoBroker, !.receive[s] = NoTimer,
            !.status[s] = [work |-> "DISALLOW", wait |-> "DISCONNECT", real |-> "PRECONNECT"]]

Ended(t, s) == Work(Real(t, s, "DISCONNECT"), s, "ALLOW")

Attach(t, s) == [t EXCEPT !.broker[s] = Min(Fresh(t))]

Pending(t, s) == {Work(Attach(t, s), s, "ALLOW")}

Refused(t, s) == Close([Ended(Attach(t, s), s) EXCEPT !.ip[s] = FALSE], s)

BadSocket(t, s) ==
  IF env.alive THEN Reconnect(Ended(t, s), s) ELSE {GivenUp(Ended(t, s), s)}

MayConnect(t, s) == t.status[s].real = "DISCONNECT" /\ t.status[s].work = "ALLOW"

Connect(t, s) ==
  IF ~MayConnect(t, s) THEN {t}
  ELSE LET began == Began(t, s)
       IN  (IF Fresh(began) = {} THEN {} ELSE Pending(began, s) \cup Refused(began, s))
           \cup Reconnect(Ended(began, s), s)
           \cup BadSocket(began, s)
           \cup {GivenUp(Ended(began, s), s)}

(***************************************************************************)
(* open(), with work() for a scheme that waits for CONNECT.                *)
(***************************************************************************)
Opening(t, s) ==
  IF t.ip[s] THEN Connect(t, s)
  ELSE IF env.alive THEN {CreateTimeout(t, s, "reconnect")}
  ELSE {GivenUp(t, s)}

Open(t, s) ==
  LET asked == [t EXCEPT !.wanted[s] = TRUE]
  IN IF Ready(t, s)
     THEN UNION {Opening(r, s) : r \in Addressed(Wait(asked, s, "CONNECT"), s)}
     ELSE {asked}

(***************************************************************************)
(* The calls of the application.                                           *)
(***************************************************************************)
Orderly == env.stopsWaiting \/ \A s \in Schemes : status[s].wait = "DISCONNECT"

OpenAll(t) == FoldSet(LAMBDA s, ts : UNION {Open(r, s) : r \in ts}, {t}, env.schemes)

\* start(): launching() opens every scheme
Start ==
  /\ ~up /\ up' = TRUE
  /\ \E t \in OpenAll(Now) : Becomes(t)
  /\ UNCHANGED env

\* stop(), and closedown() when the loop has ended: close() both times
Stop ==
  /\ up /\ Orderly /\ up' = FALSE
  /\ Becomes(CloseAll(Now))
  /\ UNCHANGED env

CloseEverything ==
  /\ up /\ Orderly
  /\ Becomes(CloseAll(Now))
  /\ UNCHANGED <<env, up>>

OpenScheme(s) ==
  /\ up /\ s \in env.schemes
  /\ \E t \in Open(Now, s) : Becomes(t)
  /\ UNCHANGED <<env, up>>

\* close(bid) by the application, by the CLOSE event, or by the end of the stream in read()
CloseBroker(s) ==
  /\ up /\ broker[s] # NoBroker
  /\ \E t \in Close(Now, s) : Becomes(t)
  /\ UNCHANGED <<env, up>>

\* reset(bid) with a broker that is gone
Released(t, s) ==
  LET free == Work(Wait(Real(t, s, "DISCONNECT"), s, "DISCONNECT"), s, "ALLOW")
  IN IF env.alive THEN Reconnect([free EXCEPT !.wanted[s] = TRUE], s) ELSE {free}

ReleasedAll(t) ==
  FoldSet(LAMBDA s, ts : UNION {Released(r, s) : r \in ts}, {t}, env.schemes)

Reset ==
  /\ up /\ \A s \in Schemes : status[s].work = "ALLOW"
  /\ \E t \in ReleasedAll(CloseAll(Now)) : Becomes(t)
  /\ UNCHANGED <<env, up>>

(***************************************************************************)
(* The events of the loop.                                                 *)
(***************************************************************************)
\* WRITE while PRECONNECT: connected(bid)
Connected(s) ==
  /\ up /\ broker[s] # NoBroker /\ status[s].real = "PRECONNECT"
  /\ IF status[s].work = "ALLOW"
     THEN Becomes([Wait(Real(ClearTimeout(Now, s), s, "CONNECT"), s, "DISCONNECT")
                     EXCEPT !.told[s] = "connect"])
     ELSE \E t \in Close(Now, s) : Becomes(t)
  /\ UNCHANGED <<env, up>>

\* READ with data: the wait for the next begins
Read(s) ==
  /\ up /\ broker[s] # NoBroker /\ status[s].real = "CONNECT"
  /\ env.wait
  /\ NewTid(ClearTimer(Now, receive[s])) < TidBound
  /\ Becomes(CreateReceive(Now, s))
  /\ UNCHANGED <<env, up>>

\* timeout(sid, RECONNECT)
\* a plausible slip: the status still says RECONNECT when reconnect() looks at it
AgainKept(t, s) == Reconnect(t, s)

Again(t, s) == Reconnect(Wait(t, s, "DISCONNECT"), s)

\* close(bid) of a timer whose broker may be gone
CloseOf(t, b) ==
  IF \E s \in Schemes : t.broker[s] = b
  THEN Close(t, CHOOSE s \in Schemes : t.broker[s] = b)
  ELSE {t}

Called(t, call) ==
  CASE call[1] = "connect" -> Connect(t, call[2])
    [] call[1] = "reconnect" -> Again(t, call[2])
    [] call[1] = "close" -> CloseOf(t, call[2])

\* Timer::event(): the timer is gone before its function is called; the ids in
\* _timeouts and _receive stay
Fire(tid) ==
  /\ up /\ tid \in DOMAIN timers
  /\ \E t \in Called(ClearTimer(Now, tid), timers[tid]) : Becomes(t)
  /\ UNCHANGED <<env, up>>

Init ==
  /\ env \in Environments
  /\ up = FALSE
  /\ status = [s \in Schemes |-> [work |-> "ALLOW", wait |-> "DISCONNECT", real |-> "DISCONNECT"]]
  /\ ip = [s \in Schemes |-> FALSE]
  /\ broker = [s \in Schemes |-> NoBroker]
  /\ timers = <<>>
  /\ timeouts = [s \in Schemes |-> NoTimer]
  /\ receive = [s \in Schemes |-> NoTimer]
  /\ told = [s \in Schemes |-> "nothing"]
  /\ wanted = [s \in Schemes |-> FALSE]

Next ==
  \/ Start \/ Stop \/ CloseEverything \/ Reset
  \/ \E s \in Schemes :
       OpenScheme(s) \/ CloseBroker(s) \/ Connected(s) \/ Read(s)
  \/ \E tid \in 1..TidBound : Fire(tid)

Spec == Init /\ [][Next]_vars

\* The timers run out and the loop goes on; the network lets a connect() through and
\* completes it again and again; the application calls nothing.
Reached ==
  \E tid \in 1..TidBound : Fire(tid) /\ \E s \in Schemes : broker[s] = NoBroker /\ broker'[s] # NoBroker

FairSpec ==
  /\ Spec
  /\ \A tid \in 1..TidBound : WF_vars(Fire(tid))
  /\ SF_vars(Reached)
  /\ \A s \in Schemes : SF_vars(Connected(s))
-----------------------------------------------------------------------------
TypeOK ==
  /\ env \in Environments /\ up \in BOOLEAN
  /\ status \in [Schemes -> [work : {"ALLOW", "DISALLOW"},
                              wait : {"CONNECT", "RECONNECT", "DISCONNECT"},
                              real : {"PRECONNECT", "CONNECT", "DISCONNECT"}]]
  /\ ip \in [Schemes -> BOOLEAN] /\ wanted \in [Schemes -> BOOLEAN]
  /\ broker \in [Schemes -> Bids \cup {NoBroker}]
  /\ DOMAIN timers \subseteq 1..TidBound
  /\ \A i \in DOMAIN timers :
       timers[i] \in ({"connect", "reconnect"} \X Schemes) \cup ({"close"} \X Bids)
  /\ timeouts \in [Schemes -> 0..TidBound] /\ receive \in [Schemes -> 0..TidBound]
  /\ told \in [Schemes -> {"nothing", "connect", "disconnect"}]

TimersOf(s) == {i \in DOMAIN timers : timers[i][1] # "close" /\ timers[i][2] = s}

Idle(s) == broker[s] = NoBroker /\ TimersOf(s) = {}

\* one scheme, whose name resolves or that is kept alive, never stopped while it waits
Usual ==
  /\ (\E s \in Schemes : env.schemes = {s}) /\ ~env.stopsWaiting
  /\ env.alive \/ ~env.unresolved

(***************************************************************************)
(* The three accounts of a connection agree between any two handlers: the  *)
(* status, the broker, and what the application was told; and no path out  *)
(* of connect() leaves the scheme locked.                                  *)
(***************************************************************************)
StatusAgrees ==
  \A s \in Schemes :
    /\ broker[s] # NoBroker <=> status[s].real \in {"PRECONNECT", "CONNECT"}
    /\ told[s] = "connect" <=> status[s].real = "CONNECT"
    /\ status[s].work = "ALLOW"

(***************************************************************************)
(* open() is the "method that opens a connection" (client.hpp:183), and    *)
(* reconnect() the one that restores it: on a scheme that has neither a    *)
(* broker nor a timer their guards must let them.                          *)
(***************************************************************************)
IdleCanOpen == \A s \in Schemes : Idle(s) => Ready(Now, s)

(***************************************************************************)
(* It holds for one scheme in orderly surroundings.                        *)
(***************************************************************************)
IdleCanOpenUsual == Usual => IdleCanOpen

(***************************************************************************)
(* A scheme that is to be kept alive always has a connection, an attempt   *)
(* or a timer that makes the next one.                                     *)
(***************************************************************************)
Persistent ==
  Usual /\ up /\ env.alive => \A s \in Schemes : wanted[s] => ~Idle(s)

(***************************************************************************)
(* A connection that was announced never goes without its "disconnect".    *)
(***************************************************************************)
EndAnnounced ==
  [][\A s \in Schemes :
       told[s] = "connect" /\ broker'[s] # broker[s] => told'[s] = "disconnect"]_vars

(***************************************************************************)
(* Whatever fails on the way, a scheme that is kept alive is connected in  *)
(* the end, if the network lets it.                                        *)
(***************************************************************************)
Reconnects ==
  \A s \in Schemes :
    up /\ wanted[s] /\ Usual /\ env.alive
      ~> status[s].real = "CONNECT" \/ ~up \/ ~wanted[s]
=============================================================================
