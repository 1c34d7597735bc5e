------------------------------- MODULE Socks5 -------------------------------
(***************************************************************************)
(* A tunnel through a SOCKS5 proxy: the client of client/web/web.cpp and   *)
(* socks5/client.cpp, the server of server/socks5.cpp and                  *)
(* socks5/server.cpp, and the client core the server opens for what the    *)
(* client asks. One connection of a client, from its start to its end.     *)
(*                                                                         *)
(* A message of the negotiation has two parts, since a read may end inside *)
(* of it; a read may also bring more than one. What is tunnelled is        *)
(* numbered.                                                               *)
(***************************************************************************)
EXTENDS Integers, SequencesExt

CONSTANTS
  Talks,         \* how often a client and an upstream say something
  Environments   \* see env

ASSUME Socks5Assumption ==
  /\ Talks \in Nat
  /\ \A e \in Environments :
       /\ DOMAIN e = {"auth", "login", "manner", "cuts", "early"}
       /\ e.login \in {"none", "right", "wrong"} /\ e.cuts \in {"whole", "anywhere"}
       /\ e.manner \in {"usual", "eager", "insistent"}

VARIABLES
  env,        \* does the server want a password, and what has the client; is it one that
              \* speaks before it is told that it may, or that asks whatever it is told; where
              \* do reads end; does the upstream speak first
  up,         \* on the way from the client to the server
  down,       \* on the way from the server to the client
  client,     \* the state of client::Socks5, or `left'
  buffer,     \* _buffer of the client
  state,      \* the state of server::Socks5
  options,    \* locked and connect of scheme::Socks5::Options, is it there
  broker,     \* has the server the connection of the client
  timer,      \* is the timer of erase() set
  upstream,   \* the connection of the client core
  said,       \* what the application of the client has sent
  heard,      \* what it received
  taken,      \* what the upstream received
  told        \* what the upstream has sent

vars == <<env, up, down, client, buffer, state, options, broker, timer, upstream, said, heard,
          taken, told>>

(***************************************************************************)
(* Messages.                                                               *)
(***************************************************************************)
Message(m) == <<[kind |-> m, part |-> 1], [kind |-> m, part |-> 2]>>

Bytes(n) == <<[kind |-> "data", part |-> n]>>

IsData(u) == u.kind = "data"

\* the message of the negotiation that is whole at the front of s
FirstOf(s) ==
  IF Len(s) >= 2 /\ ~IsData(s[1]) /\ s[1].part = 1 THEN s[1].kind ELSE "none"

\* the numbers of the data in s, in their order
Payload(s) ==
  LET at == {k \in DOMAIN s : IsData(s[k])}
      upTo(k) == Cardinality({i \in at : i <= k})
  IN [j \in 1..Cardinality(at) |-> s[CHOOSE k \in at : upTo(k) = j].part]

\* where a read of s may end
ReadEnds(s) ==
  {n \in DOMAIN s : env.cuts = "anywhere" \/ IsData(s[n]) \/ s[n].part = 2}

(***************************************************************************)
(* The server.                                                             *)
(***************************************************************************)
\* core.close(bid), and disconnectEvents() that sets the timer
CloseServer == broker' = FALSE /\ timer' = (timer \/ broker)

\* what the server answers, and where that leads. A message in parts is not put together:
\* the first says too little and the second is taken for the beginning of another
MethodAnswer == IF env.auth THEN "passwd" ELSE "noauth"

LoginFits == env.login = "right"

\* a plausible slip: the request may follow whatever the password was
PasswordSkipped(m) ==
  CASE m = "auth" -> [answer |-> IF LoginFits THEN "welcome" ELSE "stranger", state |-> "REQUEST"]
    [] m = "none" -> [answer |-> "", state |-> "AUTH"]
    [] OTHER -> [answer |-> "", state |-> "BROKEN"]

Password(m) ==
  CASE m = "auth" /\ LoginFits -> [answer |-> "welcome", state |-> "REQUEST"]
    [] m = "auth" /\ ~LoginFits -> [answer |-> "stranger", state |-> "BROKEN"]
    [] m = "none" -> [answer |-> "", state |-> "AUTH"]
    [] OTHER -> [answer |-> "", state |-> "BROKEN"]

Method(m) ==
  IF m = "methods"
  THEN [answer |-> MethodAnswer, state |-> IF env.auth THEN "AUTH" ELSE "REQUEST"]
  ELSE [answer |-> "", state |-> state]

\* a password that nobody has asked for is of another version than a request
Request(m) ==
  CASE m = "request" -> [answer |-> "", state |-> "CONNECT"]
    [] m = "none" -> [answer |-> "", state |-> "REQUEST"]
    [] OTHER -> [answer |-> "", state |-> "BROKEN"]

Parsed(m) ==
  CASE state = "METHOD" -> Method(m)
    [] state = "AUTH" -> Password(m)
    [] state = "REQUEST" -> Request(m)

\* parse(): of data, and of a part that is no beginning, the version is wrong, if it is long
\* enough; a name that comes without a password is refused
Parse(read) ==
  {Parsed(FirstOf(read))} \cup
  (IF FirstOf(read) = "none" /\ (IsData(read[1]) \/ read[1].part # 1 \/ state = "AUTH")
   THEN {[answer |-> "", state |-> "BROKEN"]} ELSE {})

\* a refusal is written, and `stopped' has writeEvents() close
Refuse(m) == down' = down \o Message(m) /\ CloseServer

\* the answer goes out
Answer(p) ==
  /\ state' = p.state /\ down' = down \o Message(p.answer)
  /\ UNCHANGED <<options, broker, timer, upstream>>

\* a plausible slip: the client core is opened and the client told at once
OpenTold ==
  /\ options' = [options EXCEPT !.locked = TRUE]
  /\ upstream' = "opening" /\ down' = down \o Message("ok")
  /\ UNCHANGED <<broker, timer>>

\* open() of the client core; until it has an answer nothing of the client is read
Open ==
  /\ options' = [options EXCEPT !.locked = TRUE]
  /\ upstream' = "opening"
  /\ UNCHANGED <<down, broker, timer>>

Forbid == Refuse("forbidden") /\ UNCHANGED <<options, upstream>>

\* readEvents() of the side of the server, before there is a tunnel
Negotiate(read) ==
  \E p \in Parse(read) :
    \/ p.answer # "" /\ Answer(p)
    \/ p.answer = "" /\ state' = p.state /\ p.state = "CONNECT" /\ Open
    \/ p.answer = "" /\ state' = p.state /\ p.state = "BROKEN" /\ Forbid
    \/ /\ p.answer = "" /\ p.state \notin {"CONNECT", "BROKEN"}
       /\ UNCHANGED <<state, options, broker, timer, upstream, down>>

\* what is read goes to the upstream, if there is one
Forward(read) ==
  /\ taken' = IF upstream = "up" THEN taken \o Payload(read) ELSE taken
  /\ UNCHANGED <<state, options, broker, timer, upstream, down>>

Ended(s) == s \in {"CONNECT", "BROKEN"}

ServerRead(n) ==
  /\ broker /\ n \in ReadEnds(up)
  /\ up' = SubSeq(up, n + 1, Len(up))
  /\ LET read == SubSeq(up, 1, n)
     IN \/ options.locked /\ UNCHANGED <<state, options, broker, timer, upstream, down, taken>>
        \/ /\ ~options.locked /\ ~options.connect /\ ~Ended(state)
           /\ Negotiate(read) /\ UNCHANGED taken
        \/ ~options.locked /\ (options.connect \/ Ended(state)) /\ Forward(read)
  /\ UNCHANGED <<env, client, buffer, said, heard, told>>

\* the server learns that the client has gone
ServerEnds ==
  /\ broker /\ client = "left" /\ CloseServer
  /\ UNCHANGED <<env, up, down, client, buffer, state, options, upstream, said, heard, taken,
                 told>>

\* a plausible slip: erase() leaves the client core
EraseKeeps ==
  /\ timer /\ timer' = FALSE
  /\ options' = [options EXCEPT !.there = FALSE]
  /\ UNCHANGED <<env, up, down, client, buffer, state, broker, upstream, said, heard, taken, told>>

\* erase(): the client core stops and goes, and the options of the broker with it
Erase ==
  /\ timer /\ timer' = FALSE
  /\ options' = [options EXCEPT !.there = FALSE]
  /\ upstream' = IF upstream = "none" THEN "none" ELSE "ended"
  /\ UNCHANGED <<env, up, down, client, buffer, state, broker, said, heard, taken, told>>

(***************************************************************************)
(* The client core of the server.                                          *)
(***************************************************************************)
\* a plausible slip: the lock stays
ConnectedLocked ==
  /\ options' = [options EXCEPT !.connect = TRUE]
  /\ down' = IF broker THEN down \o Message("ok") ELSE down

\* connectEvents() of the side of the client: send() to a broker that has gone does nothing
Connected ==
  /\ options' = [options EXCEPT !.connect = TRUE, !.locked = FALSE]
  /\ down' = IF broker THEN down \o Message("ok") ELSE down

UpstreamConnects ==
  /\ upstream = "opening" /\ upstream' = "up" /\ Connected
  /\ UNCHANGED <<env, up, client, buffer, state, broker, timer, said, heard, taken, told>>

\* a plausible slip: only the end of a tunnel that was open ends the client
UpstreamEndsAlone ==
  /\ upstream \in {"opening", "up"} /\ upstream' = "ended"
  /\ IF broker /\ ~options.connect THEN UNCHANGED <<down, broker, timer>>
     ELSE CloseServer /\ UNCHANGED down
  /\ UNCHANGED <<env, up, client, buffer, state, options, said, heard, taken, told>>

\* disconnectEvents() of the side of the client, of a connection that fails or ends
UpstreamEnds ==
  /\ upstream \in {"opening", "up"} /\ upstream' = "ended"
  /\ IF broker /\ ~options.connect
     THEN Refuse("denied")
     ELSE CloseServer /\ UNCHANGED down
  /\ UNCHANGED <<env, up, client, buffer, state, options, said, heard, taken, told>>

\* readEvents() of the side of the client
UpstreamTalks ==
  /\ upstream = "up" /\ told < Talks /\ (env.early \/ taken # <<>>)
  /\ told' = told + 1
  /\ down' = IF broker /\ options.there /\ options.connect THEN down \o Bytes(told') ELSE down
  /\ UNCHANGED <<env, up, client, buffer, state, options, broker, timer, upstream, said, heard,
                 taken>>

(***************************************************************************)
(* The client.                                                             *)
(***************************************************************************)
Leave == client' = "left" /\ UNCHANGED up

Say(m, s) == client' = s /\ up' = up \o Message(m)

\* this client closes; another may ask for a connection all the same
Refused == IF env.manner = "insistent" THEN Say("request", "RESPONSE") ELSE Leave

\* the method of an answer of which one byte is there is whatever lies behind it
Methods(b) ==
  IF FirstOf(b) # "none" THEN {FirstOf(b)} ELSE {"noauth", "passwd", "other"}

MethodRead(m) ==
  \/ m = "noauth" /\ Say("request", "RESPONSE")
  \/ m = "passwd" /\ env.login # "none" /\ Say("auth", "AUTH")
  \/ m = "passwd" /\ env.login = "none" /\ Refused
  \/ m \notin {"noauth", "passwd"} /\ Leave

AuthRead(m) == IF m = "welcome" THEN Say("request", "RESPONSE") ELSE Refused

ResponseRead(m) == IF m = "ok" THEN client' = "HANDSHAKE" /\ UNCHANGED up ELSE Leave

\* proxyReadEvent(): what there is is parsed again with what came; after a message the
\* buffer is empty
Waits(b) == client \in {"AUTH", "RESPONSE"} /\ Len(b) = 1

ProxyRead(b) ==
  IF Waits(b) THEN buffer' = b /\ UNCHANGED <<client, up>>
  ELSE /\ buffer' = <<>>
       /\ \/ client = "METHOD" /\ \E m \in Methods(b) : MethodRead(m)
          \/ client = "AUTH" /\ AuthRead(FirstOf(b))
          \/ client = "RESPONSE" /\ ResponseRead(FirstOf(b))

ClientRead(n) ==
  /\ client # "left" /\ n \in ReadEnds(down)
  /\ down' = SubSeq(down, n + 1, Len(down))
  /\ LET read == SubSeq(down, 1, n)
     IN IF client = "HANDSHAKE"
        THEN heard' = heard \o Payload(read) /\ UNCHANGED <<client, up, buffer>>
        ELSE ProxyRead(buffer \o read) /\ UNCHANGED heard
  /\ UNCHANGED <<env, state, options, broker, timer, upstream, said, taken, told>>

\* after "connect" the application sends; another client may begin with its request
ClientTalks ==
  /\ client = "HANDSHAKE" \/ (env.manner = "eager" /\ client = "RESPONSE")
  /\ said < Talks
  /\ said' = said + 1
  /\ up' = IF broker THEN up \o Bytes(said') ELSE up
  /\ UNCHANGED <<env, down, client, buffer, state, options, broker, timer, upstream, heard,
                 taken, told>>

\* the application closes
ClientLeaves ==
  /\ client # "left" /\ client' = "left"
  /\ UNCHANGED <<env, up, down, buffer, state, options, broker, timer, upstream, said, heard,
                 taken, told>>

\* all that the server has sent was read, and the connection has ended
ClientEnds ==
  /\ client # "left" /\ ~broker /\ down = <<>> /\ client' = "left"
  /\ UNCHANGED <<env, up, down, buffer, state, options, broker, timer, upstream, said, heard,
                 taken, told>>

\* both sides are connected, and the client has sent its methods
Init ==
  /\ env \in Environments
  /\ up = Message("methods") /\ down = <<>>
  /\ client = "METHOD" /\ buffer = <<>> /\ state = "METHOD"
  /\ options = [there |-> TRUE, locked |-> FALSE, connect |-> FALSE]
  /\ broker = TRUE /\ timer = FALSE /\ upstream = "none"
  /\ said = 0 /\ heard = <<>> /\ taken = <<>> /\ told = 0

Next ==
  \/ \E n \in DOMAIN up : ServerRead(n)
  \/ \E n \in DOMAIN down : ClientRead(n)
  \/ ServerEnds \/ Erase
  \/ UpstreamConnects \/ UpstreamEnds \/ UpstreamTalks
  \/ ClientTalks \/ ClientLeaves \/ ClientEnds

Spec == Init /\ [][Next]_vars

\* what is sent comes, ends are noticed, timers fire, and a connection is made or fails
FairSpec ==
  /\ Spec
  /\ WF_vars(\E n \in DOMAIN up : ServerRead(n)) /\ WF_vars(\E n \in DOMAIN down : ClientRead(n))
  /\ WF_vars(ServerEnds) /\ WF_vars(ClientEnds) /\ WF_vars(Erase)
  /\ WF_vars(upstream = "opening" /\ (UpstreamConnects \/ UpstreamEnds))
-----------------------------------------------------------------------------
\* A connection is made only for a client that has given the password, if one is wanted, and
\* nothing is forwarded for another (server::Socks5::parse(), socks5/server.cpp:176).
Admitted ==
  env.auth /\ ~LoginFits => upstream = "none" /\ taken = <<>>

\* The client takes the tunnel for open only when the upstream was connected, and the server
\* is then past the negotiation: what the client says from there on is forwarded, not dropped
\* and not parsed (connectEvents(), server/socks5.cpp:117).
Agree ==
  client = "HANDSHAKE" => upstream \in {"up", "ended"} /\ options.connect /\ ~options.locked

Whole == env.cuts = "whole"

Prefix(s, n) == Len(s) <= n /\ \A k \in DOMAIN s : s[k] = k

\* What is said in the tunnel arrives in order and without gaps, if the client waits for the
\* answer to its request, and the upstream for what the client says (readEvents(),
\* server/socks5.cpp:303; proxyReadEvent(), client/web/web.cpp:342).
InOrder ==
  Whole /\ env.manner # "eager" => Prefix(taken, said) /\ (~env.early => Prefix(heard, told))

\* The same for any client and any upstream: of what comes before the answer, or with it, the
\* server drops what it reads while it is locked, and the client what it reads with the answer.
InOrderEver == Whole => Prefix(taken, said) /\ Prefix(heard, told)

\* A client that stays, and closes when it is refused, is connected, or its connection ends
\* (disconnectEvents(), server/socks5.cpp:254).
Answered == Whole /\ env.manner # "insistent" ~> client \in {"HANDSHAKE", "left"}

\* The same for messages that come in parts, which the server parses each by itself, and for a
\* client that is refused and stays, which the server does not close.
AnsweredEver == client \notin {"HANDSHAKE", "left"} ~> client \in {"HANDSHAKE", "left"}

\* When one side has gone the other goes too, and nothing is left of the two
\* (disconnectEvents(), server/socks5.cpp:254).
EndTogether ==
  (client = "left" \/ upstream = "ended") ~>
     (client = "left" /\ ~broker /\ ~options.there /\ upstream \in {"none", "ended"})
=============================================================================
