-------------------------------- MODULE Watch --------------------------------
(***************************************************************************)
(* The clock of the event loop: src/events/watch.cpp on top of             *)
(* include/sys/screen.hpp. Requests of the thread of the loop go through   *)
(* the queue of Screen to a thread of its own, which sleeps until the      *)
(* earliest of the timers it knows and rings their notifiers (eventfd).    *)
(*                                                                         *)
(* Screen::_locker is held by the thread from the test for work to the     *)
(* next one except while it sleeps; send() does not take it. Watch::_mtx   *)
(* makes a walk over the timers one step. Time passes in ticks, at any     *)
(* moment but between reading the clock and setting the delay; numbers     *)
(* of ticks are what is left of them. Names that Queue has too are apart   *)
(* from it (WatchInit, Receivers, place), for ThreadProofs uses both.      *)
(***************************************************************************)
EXTENDS Integers, SequencesExt

CONSTANTS
  Socks,       \* the numbers eventfd() can return
  Delays,      \* the delays that are asked for
  Default,     \* Screen::TIMEOUT
  Receivers,   \* bounds how many threads there are at a time
  MaxPayload,  \* bounds the requests under way
  Worlds       \* see env

ASSUME WatchAssumption ==
  /\ Delays \subseteq Nat \ {0} /\ Default \in Nat \ {0}
  /\ MaxPayload \in Nat
  /\ Worlds \subseteq [socks : SUBSET Socks, reuse : BOOLEAN, prompt : BOOLEAN,
                       restarts : BOOLEAN]

VARIABLES
  env,        \* the numbers in use; is one taken again while requests of its
              \* last owner are under way; does no step take as long as a tick;
              \* does the loop stop and start again
  call,       \* where the thread of the loop is inside away() and send()
  held,       \* the timers the event base has
  left,       \* of those it waits for: the ticks until it may expect to be called
  payload,    \* Screen::_payload
  timers,     \* _timers: what is left of each
  notifiers,  \* _notifiers: has it been rung since it was read last
  delay,      \* Screen::_delay
  stop,       \* Screen::_stop
  place,      \* where each thread of Screen is
  sleep       \* what is left of its wait_for()

loop == <<call, held, left>>
screen == <<payload, delay, stop, place, sleep>>
watchVars == <<env, loop, timers, notifiers, screen>>

NoCall == [op |-> "none"]

\* a list without some of its entries
Without(f, s) == Restrict(f, DOMAIN f \ s)

Moves(t, where) == place' = [place EXCEPT ![t] = where]

Inside == {"check", "doze", "run", "test", "first", "payload"}

\* _locker is free
Unlocked == \A t \in Receivers : place[t] \notin Inside

Smallest(f) == Min({f[s] : s \in DOMAIN f})

(***************************************************************************)
(* The thread of the loop.                                                 *)
(***************************************************************************)
\* requests of an earlier owner of the number
Stale(s) == s \in DOMAIN timers \/ \E i \in DOMAIN payload : payload[i].sock = s

Create ==
  /\ call = NoCall
  /\ \E s \in env.socks \ DOMAIN notifiers :
       /\ env.reuse \/ ~Stale(s)
       /\ held' = held \cup {s}
       /\ notifiers' = [n \in DOMAIN notifiers \cup {s} |->
                          IF n = s THEN FALSE ELSE notifiers[n]]
  /\ UNCHANGED <<env, call, left, timers, screen>>

\* wait(): the event base calls it for a timer that does not run; send() pushes
\* the unit, and notifies when it has given up the mutex of the queue
Wait(s, d) ==
  /\ call = NoCall /\ s \in held \ DOMAIN left /\ ~notifiers[s]
  /\ Len(payload) < MaxPayload
  /\ left' = [n \in DOMAIN left \cup {s} |-> IF n = s THEN d ELSE left[n]]
  /\ payload' = Append(payload, [sock |-> s, delay |-> d])
  /\ call' = [op |-> "notify"]
  /\ UNCHANGED <<env, held, timers, notifiers, delay, stop, place, sleep>>

\* _cv.notify_one()
Notify ==
  /\ call.op = "notify" /\ call' = NoCall
  /\ \/ \E t \in Receivers : place[t] = "asleep" /\ Moves(t, "woken")
     \/ (\A t \in Receivers : place[t] # "asleep") /\ UNCHANGED place
  /\ UNCHANGED <<env, held, left, timers, notifiers, payload, delay, stop, sleep>>

\* event(): the notification is read
Read(s) ==
  /\ call = NoCall /\ s \in held /\ notifiers[s]
  /\ notifiers' = [notifiers EXCEPT ![s] = FALSE]
  /\ UNCHANGED <<env, loop, timers, screen>>

\* away(): the list of timers is looked at without the mutex; when it is
\* empty the notifier stays
AwayTest(s) ==
  /\ call = NoCall /\ s \in held
  /\ held' = held \ {s} /\ left' = Without(left, {s})
  /\ call' = IF timers = <<>> THEN NoCall ELSE [op |-> "away", sock |-> s]
  /\ UNCHANGED <<env, timers, notifiers, screen>>

AwayErase ==
  /\ call.op = "away" /\ call' = NoCall
  /\ timers' = Without(timers, {call.sock})
  /\ notifiers' = Without(notifiers, {call.sock})
  /\ UNCHANGED <<env, held, left, screen>>

\* Screen::stop(): join() of a detached thread throws at once
Stop ==
  /\ env.restarts /\ call = NoCall /\ ~stop
  /\ stop' = TRUE /\ call' = [op |-> "notify"]
  /\ UNCHANGED <<env, held, left, timers, notifiers, payload, delay, place, sleep>>

\* Screen::start()
Start ==
  /\ call = NoCall /\ stop
  /\ stop' = FALSE
  /\ \E t \in Receivers : place[t] = "out"
  /\ Moves(CHOOSE t \in Receivers : place[t] = "out", "top")   \* the threads are alike
  /\ UNCHANGED <<env, loop, timers, notifiers, payload, delay, sleep>>

\* while(!_stop), the lock, and the beginning of wait_for()
Top(t) ==
  /\ place[t] = "top"
  /\ IF stop THEN Moves(t, "out") /\ UNCHANGED sleep
     ELSE Unlocked /\ Moves(t, "check") /\ sleep' = [sleep EXCEPT ![t] = delay]
  /\ UNCHANGED <<env, loop, timers, notifiers, payload, delay, stop>>

\* the predicate: check()
Check(t) ==
  /\ place[t] = "check"
  /\ \/ (stop \/ payload # <<>>) /\ Moves(t, "run") /\ sleep' = [sleep EXCEPT ![t] = 0]
     \/ ~stop /\ payload = <<>> /\ Moves(t, "doze") /\ UNCHANGED sleep
  /\ UNCHANGED <<env, loop, timers, notifiers, payload, delay, stop>>

Doze(t) ==
  /\ place[t] = "doze" /\ Moves(t, "asleep")
  /\ UNCHANGED <<env, loop, timers, notifiers, payload, delay, stop, sleep>>

\* notified, or the time is over: the lock is taken again
Wake(t) ==
  /\ Unlocked
  /\ \/ place[t] = "woken" /\ Moves(t, "check")
     \/ place[t] = "asleep" /\ sleep[t] = 0 /\ Moves(t, "run")
  /\ UNCHANGED <<env, loop, timers, notifiers, payload, delay, stop, sleep>>

\* a plausible slip: a timer is due one tick too early
OverdueSoon(f) == {s \in DOMAIN f : f[s] <= 1}

\* date >= i->first.first
Overdue(f) == {s \in DOMAIN f : f[s] = 0}

\* a plausible slip: the walk ends at the first that rings
RingOne(f) ==
  LET first == {s \in Overdue(f) : \A q \in Overdue(f) : s <= q}
  IN /\ timers' = Without(f, Overdue(f))
     /\ notifiers' = [s \in DOMAIN notifiers |-> notifiers[s] \/ s \in first]
     /\ left' = Without(left, first)

\* the timers of f that have run out ring, those that have a notifier, and leave
Ring(f) ==
  /\ timers' = Without(f, Overdue(f))
  /\ notifiers' = [s \in DOMAIN notifiers |-> notifiers[s] \/ s \in Overdue(f)]
  /\ left' = Without(left, Overdue(f))

\* process() of Screen, and trigger() up to the end of its lock
Run(t) ==
  /\ place[t] = "run"
  /\ \/ stop /\ Moves(t, "top") /\ UNCHANGED <<left, timers, notifiers>>
     \/ ~stop /\ Moves(t, "test") /\ Ring(timers)
  /\ UNCHANGED <<env, call, held, payload, delay, stop, sleep>>

\* !_timers.empty(), without the lock
Test(t) ==
  /\ place[t] = "test"
  /\ \/ timers = <<>> /\ delay' = Default /\ Moves(t, "payload")
     \/ timers # <<>> /\ Moves(t, "first") /\ UNCHANGED delay
  /\ UNCHANGED <<env, loop, timers, notifiers, payload, stop, sleep>>

\* _timers.begin(), without the lock: away() may have emptied the list, and
\* what is read then is the size of it, 0, or an entry that was freed
DelayFirst == IF timers = <<>> THEN Default ELSE Smallest(timers)

First(t) ==
  /\ place[t] = "first" /\ Moves(t, "payload")
  /\ \/ delay' = DelayFirst
     \/ timers = <<>> /\ delay' \in Delays
  /\ UNCHANGED <<env, loop, timers, notifiers, payload, stop, sleep>>

\* one unit of the queue: Watch::process(), then pop(); it replaces what the
\* list has for the descriptor
Process(t) ==
  /\ place[t] = "payload" /\ Moves(t, "top")
  /\ \/ payload = <<>> /\ UNCHANGED <<left, timers, notifiers, payload, delay>>
     \/ /\ payload # <<>>
        /\ LET unit == Head(payload)
           IN Ring([s \in DOMAIN timers \cup {unit.sock} |->
                      IF s = unit.sock THEN unit.delay ELSE timers[s]])
        /\ delay' = DelayFirst'
        /\ payload' = Tail(payload)
  /\ UNCHANGED <<env, call, held, stop, sleep>>

(***************************************************************************)
(* Time.                                                                   *)
(***************************************************************************)
Less(f) == [x \in DOMAIN f |-> IF f[x] > 0 THEN f[x] - 1 ELSE f[x]]

\* nothing will happen before time passes
Resting(t) == place[t] = "out" \/ (place[t] = "asleep" /\ sleep[t] > 0)

Tick ==
  /\ env.prompt => call = NoCall /\ \A t \in Receivers : Resting(t)
  /\ \A t \in Receivers : place[t] \notin {"test", "first"}
  /\ timers' = Less(timers) /\ left' = Less(left) /\ sleep' = Less(sleep)
  /\ UNCHANGED <<env, call, held, notifiers, payload, delay, stop, place>>

WatchInit ==
  /\ env \in Worlds
  /\ call = NoCall /\ held = {} /\ left = <<>>
  /\ payload = <<>> /\ timers = <<>> /\ notifiers = <<>>
  /\ delay = Default /\ stop = TRUE
  /\ place = [t \in Receivers |-> "out"] /\ sleep = [t \in Receivers |-> 0]

Step(t) ==
  Top(t) \/ Check(t) \/ Doze(t) \/ Wake(t) \/ Run(t) \/ Test(t) \/ First(t) \/ Process(t)

WatchNext ==
  \/ Create \/ Notify \/ AwayErase \/ Stop \/ Start \/ Tick
  \/ \E s \in Socks : Read(s) \/ AwayTest(s) \/ \E d \in Delays : Wait(s, d)
  \/ \E t \in Receivers : Step(t)

WatchSpec == WatchInit /\ [][WatchNext]_watchVars

\* Threads are scheduled, calls return, and time passes whatever they do.
WatchFairSpec ==
  /\ WatchSpec /\ SF_watchVars(Tick) /\ WF_watchVars(Notify) /\ WF_watchVars(AwayErase)
  /\ \A t \in Receivers : WF_watchVars(Step(t))
-----------------------------------------------------------------------------
Places == Inside \cup {"out", "top", "asleep", "woken"}

WatchTypeOK ==
  /\ env \in Worlds /\ stop \in BOOLEAN
  /\ call \in {NoCall, [op |-> "notify"]} \cup [op : {"away"}, sock : Socks]
  /\ DOMAIN left \subseteq held /\ held \subseteq DOMAIN notifiers
  /\ DOMAIN notifiers \subseteq Socks /\ DOMAIN timers \subseteq Socks
  /\ \A s \in DOMAIN timers : timers[s] \in 0..Max(Delays)
  /\ payload \in Seq([sock : Socks, delay : Delays])
  /\ delay \in 1..Max(Delays \cup {Default})
  /\ place \in [Receivers -> Places]
  /\ sleep \in [Receivers -> 0..Max(Delays \cup {Default})]

(***************************************************************************)
(* A timer is called only when it was asked for, and not before its time,  *)
(* however requests, away() and the walks over the list interleave: unless *)
(* its number was taken again while requests of the last owner were still  *)
(* under way.                                                              *)
(***************************************************************************)
Rings(s) ==
  /\ s \in DOMAIN notifiers /\ ~notifiers[s]
  /\ s \in DOMAIN notifiers' /\ notifiers'[s]

NeverEarly ==
  [][\A s \in held : ~env.reuse /\ Rings(s) => s \in DOMAIN left /\ left[s] = 0]_watchVars

(***************************************************************************)
(* If no step takes as long as a tick, no timer of the list is overdue     *)
(* when the thread sleeps: it never sleeps past the earliest of them.      *)
(* After a stop() and a start() it may: the thread sleeps first.           *)
(***************************************************************************)
OnTime ==
  env.prompt /\ ~env.restarts /\ ~stop /\ (\A t \in Receivers : Resting(t)) => Overdue(timers) = {}

(***************************************************************************)
(* A request is answered in the end, though its notification may find the  *)
(* thread between its test for work and its sleep (screen.hpp:184): what   *)
(* the thread then sleeps is bounded.                                      *)
(***************************************************************************)
Answered ==
  \A s \in Socks :
    ~env.prompt /\ s \in DOMAIN left ~> s \notin DOMAIN left \/ stop

(***************************************************************************)
(* A thread that is told to stop ends, unless the clock is started again.  *)
(***************************************************************************)
ThreadsEnd == \A t \in Receivers : stop ~> place[t] = "out" \/ ~stop
=============================================================================
