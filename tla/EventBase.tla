------------------------------ MODULE EventBase ------------------------------
(***************************************************************************)
(* The event loop of src/events/base.cpp as it is built for Linux: the     *)
(* registrations (_peers), the lists _change and _events, the loop over    *)
(* the reports of one epoll_wait(), and the calls its callbacks make.      *)
(*                                                                         *)
(* Everything runs in the thread of the loop; between two steps of it the  *)
(* descriptors become ready and the watch notifies timers that run out.    *)
(* A callback makes any number of calls, one action each, and returns.     *)
(* A descriptor is closed by the caller at once after del(), so its number *)
(* may be that of a later registration.                                    *)
(***************************************************************************)
EXTENDS Integers, FiniteSets, SequencesExt

CONSTANTS
  Peers,     \* the registrations (the id of each is new), made at most once
  Nobody,
  Sock,      \* the descriptor each of them is for
  Timers,    \* those that are timers (type == TIMER)
  Persist,   \* the timers that start again by themselves
  Worlds     \* who is registered when the loop starts and who may be later;
             \* what connections become ready for, what callbacks enable and disable

ASSUME EventBaseAssumption ==
  /\ Timers \subseteq Peers /\ Persist \subseteq Timers
  /\ IsFiniteSet(Peers) /\ Nobody \notin Peers
  /\ DOMAIN Sock = Peers
  /\ Worlds \subseteq [first : SUBSET Peers, later : SUBSET Peers,
                       ready : SUBSET {"IN", "OUT", "HUP"},
                       enables : SUBSET {"READ", "WRITE", "CLOSE", "TIMER"},
                       disables : SUBSET {"READ", "WRITE", "CLOSE"}]   \* nobody disables a timer
  /\ \A w \in Worlds : /\ w.first \cap w.later = {}
                        /\ \A p, q \in w.first : Sock[p] = Sock[q] => p = q

VARIABLES
  surr,      \* the surroundings of this behaviour, one of Worlds
  peers,     \* _peers: who is registered
  known,     \* who was ever, or never will be
  modes,     \* peer_t::mode: the events each registration has enabled
  change,    \* _change: who has an entry there
  interest,  \* the flags of that entry, and of epoll
  events,    \* _events: the reports, and blank entries; and of each report, which
             \* registration it was made for and whether in this batch (history)
  poll, index,  \* the reports of this batch, the one that is looked at
  at,        \* where the loop is
  cur,       \* the report in hand: item and the flags read from the entry
  call,      \* the callback that runs
  ready,     \* what each descriptor is ready for
  edge,      \* timers with a notification epoll_wait() has not returned
  armed      \* timers the watch counts down

lists == <<change, interest, events>>
batch == <<poll, index, cur>>
world == <<ready, edge, armed>>
vars == <<surr, peers, known, modes, lists, batch, at, call, world>>

Types(p) == IF p \in Timers THEN {"TIMER"} ELSE {"READ", "WRITE", "CLOSE"}
Blank == [peer |-> Nobody, what |-> {}, of |-> Nobody, fresh |-> FALSE]
NoCall == [peer |-> Nobody, type |-> "NONE"]

\* the flags mode() sets for an event; HUP stands for EPOLLRDHUP | EPOLLHUP
Flags(type) == CASE type = "TIMER" -> {"IN", "ET"} [] type = "READ" -> {"IN"}
                 [] type = "WRITE" -> {"OUT"} [] type = "CLOSE" -> {"HUP"}

\* |= and ^=
With(flags, type, on) ==
  IF on THEN flags \cup Flags(type) ELSE SymDiff(flags, Flags(type))

\* what is registered for a descriptor, _peers.find(sock)
Found(s) == {q \in peers : Sock[q] = s}

(***************************************************************************)
(* What the world does: a descriptor becomes ready, the end of a           *)
(* connection, a timer that runs out (Watch::trigger, Notifier::notify).   *)
(***************************************************************************)
Happens(p, w) ==
  /\ p \in peers \ Timers /\ w \in surr.ready \ ready[p]
  /\ ready' = [ready EXCEPT ![p] = @ \cup {w}]
  /\ UNCHANGED <<surr, peers, known, modes, lists, batch, at, call, edge, armed>>

Expires(t) ==
  /\ t \in armed
  /\ armed' = armed \ {t} /\ edge' = edge \cup {t}
  /\ ready' = [ready EXCEPT ![t] = {"IN"}]
  /\ UNCHANGED <<surr, peers, known, modes, lists, batch, at, call>>

(***************************************************************************)
(* epoll_wait(): level triggered for descriptors, edge triggered for       *)
(* timers; EPOLLHUP is reported whether asked for or not. The reports are  *)
(* written over the first entries of _events, in any order.                *)
(***************************************************************************)
Report(p) == ready[p] \cap (interest[p] \cup {"HUP"})

Reported == {p \in change : Report(p) # {} /\ (p \in Timers => p \in edge)}

Wait ==
  /\ at = "wait" /\ Reported # {}
  /\ \E b \in SetToSeqs(Reported) :
       /\ events' = [i \in DOMAIN events |->
                       IF i <= Len(b)
                       THEN [peer |-> b[i], what |-> Report(b[i]), of |-> b[i], fresh |-> TRUE]
                       ELSE [events[i] EXCEPT !.fresh = FALSE]]
       /\ poll' = Len(b) /\ index' = 1
  /\ edge' = edge \ Reported
  /\ at' = "look"
  /\ UNCHANGED <<surr, peers, known, modes, change, interest, cur, call, ready, armed>>

(***************************************************************************)
(* The loop over the batch.                                                *)
(***************************************************************************)
\* entries that point to a registration that is gone
Forgotten == {q \in Peers : q \notin peers /\ \E i \in DOMAIN events : events[i].peer = q}

\* a plausible slip: the last report is left out
DoneEarly == index >= poll

\* i < poll
Done == index > poll

Look ==
  /\ at = "look"
  /\ IF Done
     THEN at' = "wait" /\ cur' = Blank /\ UNCHANGED index
     ELSE IF index > Len(events) \/ events[index] = Blank
     THEN index' = index + 1 /\ UNCHANGED <<at, cur>>
     \* item is read after it was freed: nothing is known of what follows
     ELSE IF events[index].peer \in Forgotten
     THEN at' = "undefined" /\ UNCHANGED <<index, cur>>
     ELSE at' = "read" /\ cur' = events[index] /\ UNCHANGED index
  /\ UNCHANGED <<surr, peers, known, modes, lists, poll, call, world>>

\* the callback of p runs
Calls(p, type) == at' = "call" /\ call' = [peer |-> p, type |-> type]

Passes(next) == at' = next /\ UNCHANGED call

Read ==
  /\ at = "read"
  /\ LET p == cur.peer
     IN IF "IN" \notin cur.what THEN Passes("write") /\ UNCHANGED ready
        ELSE IF p \in Timers
        \* Notifier::event() reads until there is something to be read
        THEN /\ "IN" \in ready[p]
             /\ ready' = [ready EXCEPT ![p] = {}]
             /\ IF "TIMER" \in modes[p] THEN Calls(p, "TIMER") ELSE Passes("write")
        ELSE /\ IF "READ" \in modes[p] THEN Calls(p, "READ") ELSE Passes("write")
             /\ UNCHANGED ready
  /\ UNCHANGED <<surr, peers, known, modes, lists, batch, edge, armed>>

\* the registration the report was for, if it is there: _peers.find(sock), id
Same(p) == {q \in Found(Sock[p]) : q = p}

Write ==
  /\ at = "write"
  /\ LET writable == {q \in Same(cur.peer) : "WRITE" \in modes[q]}
     IN IF "OUT" \in cur.what /\ writable # {}
        THEN \E q \in writable : Calls(q, "WRITE")
        ELSE Passes("close")
  /\ UNCHANGED <<surr, peers, known, modes, lists, batch, world>>

(***************************************************************************)
(* del(id, sock): the first entry of the registration leaves _events, its  *)
(* entry leaves _change. The caller closes the descriptor.                 *)
(***************************************************************************)
\* a plausible slip: the registration is forgotten, its report is not
UnlistNothing(p) == UNCHANGED events

Unlist(p) ==
  \/ (\A i \in DOMAIN events : events[i].peer # p) /\ UNCHANGED events
  \/ \E i \in DOMAIN events :
       /\ events[i].peer = p /\ \A j \in 1..i - 1 : events[j].peer # p
       /\ events' = RemoveAt(events, i)

Del(p) ==
  /\ peers' = peers \ {p} /\ modes' = [modes EXCEPT ![p] = {}]
  /\ Unlist(p)
  /\ change' = change \ {p} /\ interest' = [interest EXCEPT ![p] = {}]
  /\ ready' = [ready EXCEPT ![p] = {}]
  /\ edge' = edge \ {p} /\ armed' = armed \ {p}

\* del(sock) of a descriptor nobody is registered for: what is found in a
\* freed entry may or may not be the descriptor
Phantom(s) ==
  /\ \/ UNCHANGED events
     \/ \E i \in DOMAIN events :
          /\ events[i].peer \in Forgotten /\ Sock[events[i].peer] = s
          /\ events' = RemoveAt(events, i)
  /\ UNCHANGED <<peers, modes, change, interest, world>>

Close ==
  /\ at = "close"
  /\ LET p == cur.peer
         gone == "HUP" \in cur.what
     IN \/ /\ gone /\ \E q \in Same(p) : Del(q)
           /\ IF "CLOSE" \in modes[p] THEN Calls(p, "CLOSE") /\ UNCHANGED index
              ELSE Passes("look") /\ index' = index + 1
        \/ /\ gone /\ Found(Sock[p]) = {} /\ Phantom(Sock[p])
           /\ Passes("look") /\ index' = index + 1
        \/ /\ ~gone \/ (Same(p) = {} /\ Found(Sock[p]) # {})
           /\ Passes("look") /\ index' = index + 1
           /\ UNCHANGED <<peers, modes, lists, world>>
  /\ UNCHANGED <<surr, known, poll, cur>>

(***************************************************************************)
(* What a callback does: add(), mode(), del(), kick(), reading from its    *)
(* descriptor, and its return.                                             *)
(***************************************************************************)
\* the node of a new registration may lie where a forgotten one lay
Placed(p, q) ==
  Append([i \in DOMAIN events |->
            IF events[i].peer = q THEN [events[i] EXCEPT !.peer = p] ELSE events[i]],
         Blank)

Add(p) ==
  /\ at = "call" /\ p \notin known /\ Found(Sock[p]) = {}
  /\ peers' = peers \cup {p} /\ known' = known \cup {p}
  /\ change' = change \cup {p}
  /\ \E q \in Forgotten \cup {p} : events' = Placed(p, q)
  /\ UNCHANGED <<surr, modes, interest, batch, at, call, world>>

Mode(p, type) ==
  /\ at = "call" /\ p \in peers /\ type \in Types(p)
  /\ type \in IF type \in modes[p] THEN surr.disables ELSE surr.enables
  /\ LET on == type \notin modes[p]
     IN /\ modes' = [modes EXCEPT ![p] = IF on THEN @ \cup {type} ELSE @ \ {type}]
        /\ interest' = IF p \in change
                       THEN [interest EXCEPT ![p] = With(@, type, on)] ELSE interest
  /\ armed' = IF p \in change \cap Timers THEN armed \cup {p} ELSE armed
  /\ UNCHANGED <<surr, peers, known, change, events, batch, at, call, ready, edge>>

Drop(p) ==
  /\ at = "call" /\ p \in peers /\ Del(p)
  /\ UNCHANGED <<surr, known, batch, at, call>>

\* read() takes all there is, write() fills the buffer of the descriptor
Uses(p, w) ==
  /\ at = "call" /\ p \in peers \ Timers /\ w \in ready[p] \ {"HUP"}
  /\ ready' = [ready EXCEPT ![p] = @ \ {w}]
  /\ UNCHANGED <<surr, peers, known, modes, lists, batch, at, call, edge, armed>>

\* clear(), a new epoll instance, and add() of what is still in _peers
Kick ==
  /\ at = "call"
  /\ change' = {} /\ interest' = [p \in Peers |-> {}] /\ events' = <<>>
  /\ armed' = armed \ change
  /\ UNCHANGED <<surr, peers, known, modes, batch, at, call, ready, edge>>

\* a timer that is not persistent is stopped by its callback (timer.cpp)
Return ==
  /\ at = "call"
  /\ call.type = "TIMER" => call.peer \in Persist \/ call.peer \notin peers
  /\ at' = CASE call.type = "WRITE" -> "close" [] call.type = "CLOSE" -> "look"
             [] OTHER -> "write"
  /\ index' = IF call.type = "CLOSE" THEN index + 1 ELSE index
  /\ armed' = IF call.type = "TIMER" /\ call.peer \in peers
              THEN armed \cup {call.peer} ELSE armed
  /\ call' = NoCall
  /\ UNCHANGED <<surr, peers, known, modes, lists, poll, cur, ready, edge>>

Init ==
  /\ surr \in Worlds
  /\ peers = surr.first /\ known = Peers \ surr.later /\ change = peers
  /\ modes = [p \in Peers |-> IF p \in peers THEN Types(p) \ {"WRITE"} ELSE {}]
  /\ interest = [p \in Peers |-> UNION {Flags(t) : t \in modes[p]}]
  /\ events = [i \in 1..Cardinality(peers) |-> Blank]
  /\ poll = 0 /\ index = 1 /\ at = "wait" /\ cur = Blank /\ call = NoCall
  /\ ready = [p \in Peers |-> {}] /\ edge = {} /\ armed = peers \cap Timers

Loop == Wait \/ Look \/ Read \/ Write \/ Close \/ Return

Next ==
  \/ Loop
  \/ Kick
  \/ \E p \in Peers : \/ Add(p) \/ Drop(p) \/ Expires(p)
                      \/ \E w \in {"IN", "OUT", "HUP"} : Happens(p, w) \/ Uses(p, w)
                      \/ \E type \in Types(p) : Mode(p, type)

Spec == Init /\ [][Next]_vars

FairSpec == Spec /\ WF_vars(Loop) /\ \A t \in Timers : WF_vars(Expires(t))

(***************************************************************************)
(* Properties.                                                             *)
(***************************************************************************)
TypeOK ==
  /\ peers \subseteq known /\ known \subseteq Peers
  /\ modes \in [Peers -> SUBSET {"READ", "WRITE", "CLOSE", "TIMER"}]
  /\ change \subseteq peers
  /\ interest \in [Peers -> SUBSET {"IN", "OUT", "HUP", "ET"}]
  /\ events \in Seq([peer : Peers \cup {Nobody}, what : SUBSET {"IN", "OUT", "HUP"},
                     of : Peers \cup {Nobody}, fresh : BOOLEAN])
  /\ poll \in Nat /\ index \in 1..poll + 1 /\ surr \in Worlds
  /\ at \in {"wait", "look", "read", "write", "close", "call", "undefined"}
  /\ ready \in [Peers -> SUBSET {"IN", "OUT", "HUP"}]
  /\ edge \subseteq Timers \cap peers /\ armed \subseteq Timers \cap peers

\* What epoll watches a descriptor for is what mode() has enabled, through
\* every order of calls and callbacks, and no two living registrations are
\* for one descriptor
KernelAgrees ==
  /\ \A p \in change : interest[p] = UNION {Flags(t) : t \in modes[p]}
  /\ \A p, q \in peers : Sock[p] = Sock[q] => p = q

\* A callback is one of a registration that is there and has the event enabled,
\* and a report epoll made in this batch is given to nobody else than the
\* registration it was made for, whatever callbacks close, take and put where it
\* was. What an earlier batch left in _events has no such promise, see below
CallsWhoIsMeant ==
  [][at # "call" /\ at' = "call" =>
       /\ call'.peer = cur.peer /\ cur.peer \in peers
       /\ call'.type \in modes[cur.peer]
       /\ cur.fresh => cur.peer = cur.of]_vars

\* Every report is given to the registration it was made for. It does not hold:
\* when del() shortens the list, an entry an earlier batch left behind comes
\* within this one, and the node it points to may be that of a later registration
CallsAsReported == [][at # "call" /\ at' = "call" => call'.peer = cur.of]_vars

\* What can be read is read, or is no longer wanted or there to be read, in
\* spite of the reports the loop passes over when del() shortens the list under
\* it: epoll reports them again. Nothing is promised once _events is too short
\* for a report of everybody who is watched, or freed memory was read
Wanted(p) == p \in change /\ "READ" \in modes[p] /\ "IN" \in ready[p]
NoRoom == Cardinality(change) > Len(events)
Served ==
  \A p \in Peers \ Timers :
    Wanted(p) ~> \/ call = [peer |-> p, type |-> "READ"] \/ ~Wanted(p)
                 \/ NoRoom \/ at = "undefined"

\* A notification epoll_wait() has returned is read before it is called again:
\* it is edge triggered, and there is no second report of it
TimerHeard ==
  at = "wait" => \A t \in change \cap Timers : ready[t] = {} \/ t \in edge
=============================================================================
