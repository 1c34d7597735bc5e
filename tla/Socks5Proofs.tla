---------------------------- MODULE Socks5Proofs ----------------------------
(***************************************************************************)
(* What holds of Socks5 for any clients, reads and upstreams: nobody is    *)
(* connected without the password that is wanted, a client that takes the  *)
(* tunnel for open has one, and what is said in it arrives in order.       *)
(***************************************************************************)
EXTENDS Socks5, FiniteSetTheorems, SequenceTheorems, TLAPS

(***************************************************************************)
(* Without the password the negotiation does not get as far as a request.  *)
(***************************************************************************)
Barred ==
  env.auth /\ ~LoginFits =>
    upstream = "none" /\ taken = <<>> /\ state \in {"METHOD", "AUTH", "BROKEN"}

\* what a read leads to, for a client without the password
LEMMA BarredParse ==
  ASSUME Barred, env.auth, ~LoginFits, ~Ended(state), NEW read, NEW p \in Parse(read)
  PROVE  p.state \in {"METHOD", "AUTH", "BROKEN"}
<1>1. state \in {"METHOD", "AUTH"}
  BY DEF Barred, Ended
<1> DEFINE m == FirstOf(read)
<1>2. CASE p = Parsed(m)
  <2>1. CASE state = "METHOD"
    <3>1. p = Method(m)
      BY <1>2, <2>1 DEF Parsed
    <3> QED
      BY <3>1, <2>1 DEF Method
  <2>2. CASE state = "AUTH"
    <3>1. p = Password(m)
      BY <1>2, <2>2 DEF Parsed
    <3> HIDE DEF m
    <3>2. CASE m = "auth"
      BY <3>1, <3>2 DEF Password
    <3>3. CASE m = "none"
      BY <3>1, <3>3 DEF Password
    <3>4. CASE m \notin {"auth", "none"}
      BY <3>1, <3>4 DEF Password
    <3> QED
      BY <3>2, <3>3, <3>4
  <2> QED
    BY <1>1, <2>1, <2>2
<1>3. CASE p # Parsed(m)
  <2>1. p = [answer |-> "", state |-> "BROKEN"]
    BY <1>3 DEF Parse
  <2> QED
    BY <2>1
<1> QED
  BY <1>2, <1>3

LEMMA BarredRead ==
  ASSUME Barred, NEW n, ServerRead(n)
  PROVE  Barred'
<1> SUFFICES ASSUME env.auth, ~LoginFits
             PROVE  upstream' = "none" /\ taken' = <<>> /\ state' \in {"METHOD", "AUTH", "BROKEN"}
  BY DEF Barred, ServerRead, LoginFits
<1>1. upstream = "none" /\ taken = <<>> /\ state \in {"METHOD", "AUTH", "BROKEN"}
  BY DEF Barred
<1> DEFINE read == SubSeq(up, 1, n)
<1>2. CASE options.locked /\ UNCHANGED <<state, options, broker, timer, upstream, down, taken>>
  BY <1>1, <1>2
<1>3. CASE ~Ended(state) /\ Negotiate(read) /\ UNCHANGED taken
  <2>1. PICK p \in Parse(read) :
          \/ p.answer # "" /\ Answer(p)
          \/ p.answer = "" /\ state' = p.state /\ p.state = "CONNECT" /\ Open
          \/ p.answer = "" /\ state' = p.state /\ p.state = "BROKEN" /\ Forbid
          \/ /\ p.answer = "" /\ p.state \notin {"CONNECT", "BROKEN"}
             /\ UNCHANGED <<state, options, broker, timer, upstream, down>>
    BY <1>3 DEF Negotiate
  <2>2. p.state \in {"METHOD", "AUTH", "BROKEN"}
    BY <1>3, BarredParse
  <2> QED
    BY <1>1, <1>3, <2>1, <2>2 DEF Answer, Forbid
<1>4. CASE Forward(read)
  BY <1>1, <1>4 DEF Forward
<1> QED
  BY <1>2, <1>3, <1>4 DEF ServerRead

LEMMA BarredStep ==
  ASSUME Barred, [Next]_vars
  PROVE  Barred'
<1>1. CASE \E n \in DOMAIN up : ServerRead(n)
  BY <1>1, BarredRead
<1>2. CASE \E n \in DOMAIN down : ClientRead(n)
  BY <1>2 DEF ClientRead, Barred, LoginFits
<1>3. CASE ServerEnds
  BY <1>3 DEF ServerEnds, Barred, LoginFits
<1>4. CASE Erase
  BY <1>4 DEF Erase, Barred, LoginFits
<1>5. CASE UpstreamConnects
  BY <1>5 DEF UpstreamConnects, Barred, LoginFits
<1>6. CASE UpstreamEnds
  BY <1>6 DEF UpstreamEnds, Barred, LoginFits
<1>7. CASE UpstreamTalks
  BY <1>7 DEF UpstreamTalks, Barred, LoginFits
<1>8. CASE ClientTalks
  BY <1>8 DEF ClientTalks, Barred, LoginFits
<1>9. CASE ClientLeaves \/ ClientEnds
  BY <1>9 DEF ClientLeaves, ClientEnds, Barred, LoginFits
<1>10. CASE UNCHANGED vars
  BY <1>10 DEF vars, Barred, LoginFits
<1> QED
  BY <1>1, <1>2, <1>3, <1>4, <1>5, <1>6, <1>7, <1>8, <1>9, <1>10 DEF Next

\* The proxy connects nobody, and forwards nothing, without the password it wants, however the
\* messages are cut and whatever the client asks for.
THEOREM AdmittedAlways == Spec => []Admitted
<1>1. Init => Barred
  BY DEF Init, Barred
<1>2. Barred /\ [Next]_vars => Barred'
  BY BarredStep
<1>3. Barred => Admitted
  BY DEF Barred, Admitted
<1> QED
  BY <1>1, <1>2, <1>3, PTL DEF Spec

(***************************************************************************)
(* The answer that opens the tunnel is on its way, or has come, only when  *)
(* the upstream was connected and the server forwards.                     *)
(***************************************************************************)
Words == {"methods", "auth", "request", "noauth", "passwd", "welcome", "stranger", "ok",
          "denied", "forbidden", "data"}

Piece == [kind : Words, part : Nat]

Kinds(s) == {s[k].kind : k \in DOMAIN s}

Typed ==
  /\ up \in Seq(Piece) /\ down \in Seq(Piece) /\ buffer \in Seq(Piece)
  /\ said \in Nat /\ told \in Nat
  /\ state \in {"METHOD", "AUTH", "REQUEST", "CONNECT", "BROKEN"}
  /\ options \in [there : BOOLEAN, locked : BOOLEAN, connect : BOOLEAN]

Joined == upstream \in {"up", "ended"} /\ options.connect /\ ~options.locked

Told == client = "HANDSHAKE" \/ "ok" \in Kinds(down) \cup Kinds(buffer)

Bound == Typed /\ (Told => Joined)

LEMMA KindsConcat ==
  ASSUME NEW s \in Seq(Piece), NEW t \in Seq(Piece)
  PROVE  s \o t \in Seq(Piece) /\ Kinds(s \o t) \subseteq Kinds(s) \cup Kinds(t)
<1>1. \A k \in DOMAIN (s \o t) :
        (k \in DOMAIN s /\ (s \o t)[k] = s[k])
        \/ (k - Len(s) \in DOMAIN t /\ (s \o t)[k] = t[k - Len(s)])
  OBVIOUS
<1> QED
  BY <1>1 DEF Kinds

LEMMA KindsPart ==
  ASSUME NEW s \in Seq(Piece), NEW n \in DOMAIN s
  PROVE  /\ SubSeq(s, 1, n) \in Seq(Piece) /\ Kinds(SubSeq(s, 1, n)) \subseteq Kinds(s)
         /\ SubSeq(s, n + 1, Len(s)) \in Seq(Piece)
         /\ Kinds(SubSeq(s, n + 1, Len(s))) \subseteq Kinds(s)
<1>1. n \in 1..Len(s)
  OBVIOUS
<1>2. \A k \in DOMAIN SubSeq(s, 1, n) : k \in DOMAIN s /\ SubSeq(s, 1, n)[k] = s[k]
  BY <1>1
<1>3. \A k \in DOMAIN SubSeq(s, n + 1, Len(s)) :
        k + n \in DOMAIN s /\ SubSeq(s, n + 1, Len(s))[k] = s[k + n]
  BY <1>1
<1>4. SubSeq(s, 1, n) \in Seq(Piece) /\ SubSeq(s, n + 1, Len(s)) \in Seq(Piece)
  BY <1>1
<1> QED
  BY <1>2, <1>3, <1>4 DEF Kinds

LEMMA KindsMessage ==
  ASSUME NEW m \in Words
  PROVE  Message(m) \in Seq(Piece) /\ Kinds(Message(m)) = {m}
BY DEF Message, Kinds, Piece

LEMMA KindsBytes ==
  ASSUME NEW n \in Nat
  PROVE  Bytes(n) \in Seq(Piece) /\ Kinds(Bytes(n)) = {"data"}
<1> DEFINE d == [kind |-> "data", part |-> n]
<1>1. Bytes(n) \in Seq(Piece)
  <2>2. d \in Piece
    BY DEF Piece, Words
  <2> HIDE DEF d
  <2>3. <<d>> \in Seq(Piece)
    BY <2>2
  <2> QED
    BY <2>3 DEF Bytes, d
<1>2. DOMAIN Bytes(n) = {1} /\ Bytes(n)[1].kind = "data"
  BY DEF Bytes
<1> QED
  BY <1>1, <1>2 DEF Kinds

LEMMA FirstOfKinds ==
  ASSUME NEW s \in Seq(Piece)
  PROVE  FirstOf(s) = "none" \/ FirstOf(s) \in Kinds(s)
BY DEF FirstOf, Kinds

LEMMA ParseAnswers ==
  ASSUME Typed, ~Ended(state), NEW read, NEW p \in Parse(read)
  PROVE  /\ p.answer \in {"", "passwd", "noauth", "welcome", "stranger"}
         /\ p.state \in {"METHOD", "AUTH", "REQUEST", "CONNECT", "BROKEN"}
<1>1. state \in {"METHOD", "AUTH", "REQUEST"}
  BY DEF Typed, Ended
<1> DEFINE m == FirstOf(read)
<1> HIDE DEF m
<1>2. CASE p = Parsed(m)
  <2>1. CASE state = "METHOD"
    BY <1>2, <2>1 DEF Parsed, Method, MethodAnswer
  <2>2. CASE state = "AUTH"
    <3>1. p = Password(m)
      BY <1>2, <2>2 DEF Parsed
    <3>2. CASE m = "auth"
      BY <3>1, <3>2 DEF Password
    <3>3. CASE m = "none"
      BY <3>1, <3>3 DEF Password
    <3>4. CASE m \notin {"auth", "none"}
      BY <3>1, <3>4 DEF Password
    <3> QED
      BY <3>2, <3>3, <3>4
  <2>3. CASE state = "REQUEST"
    <3>1. p = Request(m)
      BY <1>2, <2>3 DEF Parsed
    <3>2. CASE m = "request"
      BY <3>1, <3>2 DEF Request
    <3>3. CASE m = "none"
      BY <3>1, <3>3 DEF Request
    <3>4. CASE m \notin {"request", "none"}
      BY <3>1, <3>4 DEF Request
    <3> QED
      BY <3>2, <3>3, <3>4
  <2> QED
    BY <1>1, <2>1, <2>2, <2>3
<1>3. CASE p # Parsed(m)
  <2>1. p = [answer |-> "", state |-> "BROKEN"]
    BY <1>3 DEF Parse, m
  <2> QED
    BY <2>1
<1> QED
  BY <1>2, <1>3

\* an answer other than the one that opens the tunnel changes nothing of what is told
LEMMA OtherAnswer ==
  ASSUME Typed, NEW m \in Words \ {"ok"}, down' = down \o Message(m)
  PROVE  down' \in Seq(Piece) /\ ("ok" \in Kinds(down') => "ok" \in Kinds(down))
<1>1. Message(m) \in Seq(Piece) /\ Kinds(Message(m)) = {m}
  BY KindsMessage
<1> QED
  BY <1>1, KindsConcat DEF Typed

LEMMA BoundNegotiate ==
  ASSUME Bound, NEW read, ~options.connect, ~Ended(state), Negotiate(read),
         UNCHANGED <<client, buffer, said, told>>, up' \in Seq(Piece)
  PROVE  Bound'
<1>1. ~Told
  BY DEF Bound, Joined
<1>2. PICK p \in Parse(read) :
        \/ p.answer # "" /\ Answer(p)
        \/ p.answer = "" /\ state' = p.state /\ p.state = "CONNECT" /\ Open
        \/ p.answer = "" /\ state' = p.state /\ p.state = "BROKEN" /\ Forbid
        \/ /\ p.answer = "" /\ p.state \notin {"CONNECT", "BROKEN"}
           /\ UNCHANGED <<state, options, broker, timer, upstream, down>>
  BY DEF Negotiate
<1>3. /\ p.answer \in {"", "passwd", "noauth", "welcome", "stranger"}
      /\ p.state \in {"METHOD", "AUTH", "REQUEST", "CONNECT", "BROKEN"}
  BY ParseAnswers DEF Bound
<1>4. state' \in {"METHOD", "AUTH", "REQUEST", "CONNECT", "BROKEN"}
  BY <1>2, <1>3 DEF Answer, Bound, Typed
<1>5. options' \in [there : BOOLEAN, locked : BOOLEAN, connect : BOOLEAN]
  BY <1>2 DEF Answer, Open, Forbid, Bound, Typed
<1>6. down' \in Seq(Piece) /\ ("ok" \in Kinds(down') => "ok" \in Kinds(down))
  <2>1. CASE p.answer # "" /\ Answer(p)
    <3>1. p.answer \in Words \ {"ok"} /\ down' = down \o Message(p.answer)
      BY <1>3, <2>1 DEF Answer, Words
    <3> QED
      BY <3>1, OtherAnswer DEF Bound
  <2>2. CASE Forbid
    <3>1. "forbidden" \in Words \ {"ok"} /\ down' = down \o Message("forbidden")
      BY <2>2 DEF Forbid, Refuse, Words
    <3> QED
      BY <3>1, OtherAnswer DEF Bound
  <2>3. CASE down' = down
    BY <2>3 DEF Bound, Typed
  <2> QED
    BY <1>2, <2>1, <2>2, <2>3 DEF Open
<1>7. ~Told'
  BY <1>1, <1>6 DEF Told
<1> QED
  BY <1>4, <1>5, <1>6, <1>7 DEF Bound, Typed

LEMMA BoundServerRead ==
  ASSUME Bound, NEW n \in DOMAIN up, ServerRead(n)
  PROVE  Bound'
<1> DEFINE read == SubSeq(up, 1, n)
<1>1. up' \in Seq(Piece)
  BY KindsPart DEF ServerRead, Bound, Typed
<1>2. UNCHANGED <<client, buffer, said, told>>
  BY DEF ServerRead
<1>3. CASE UNCHANGED <<state, options, upstream, down>>
  BY <1>1, <1>2, <1>3 DEF Bound, Typed, Told, Joined
<1>4. CASE ~options.connect /\ ~Ended(state) /\ Negotiate(read)
  BY <1>1, <1>2, <1>4, BoundNegotiate
<1> QED
  BY <1>3, <1>4 DEF ServerRead, Forward

LEMMA BoundClientRead ==
  ASSUME Bound, NEW n \in DOMAIN down, ClientRead(n)
  PROVE  Bound'
<1> DEFINE read == SubSeq(down, 1, n)
           b == buffer \o read
<1>1. /\ down' \in Seq(Piece) /\ Kinds(down') \subseteq Kinds(down)
      /\ read \in Seq(Piece) /\ Kinds(read) \subseteq Kinds(down)
  BY KindsPart DEF ClientRead, Bound, Typed
<1>2. b \in Seq(Piece) /\ Kinds(b) \subseteq Kinds(buffer) \cup Kinds(down)
  <2> HIDE DEF read
  <2>1. buffer \in Seq(Piece)
    BY DEF Bound, Typed
  <2>2. b \in Seq(Piece) /\ Kinds(b) \subseteq Kinds(buffer) \cup Kinds(read)
    BY <1>1, <2>1, KindsConcat
  <2> QED
    BY <1>1, <2>2
<1>3. UNCHANGED <<state, options, upstream, said, told>>
  BY DEF ClientRead
<1>4. /\ up' \in Seq(Piece) /\ buffer' \in Seq(Piece)
      /\ Kinds(buffer') \subseteq Kinds(buffer) \cup Kinds(down)
      /\ client' = "HANDSHAKE" => Told
  <2>1. CASE client = "HANDSHAKE"
    BY <2>1 DEF ClientRead, Bound, Typed, Told
  <2>2. CASE client # "HANDSHAKE"
    <3> HIDE DEF b
    <3>1. ProxyRead(b)
      BY <2>2 DEF ClientRead, b
    <3>2. CASE Waits(b)
      BY <1>2, <2>2, <3>1, <3>2 DEF ProxyRead, Bound, Typed
    <3>3. CASE ~Waits(b)
      <4>1. buffer' = <<>> /\ Kinds(buffer') = {}
        BY <3>1, <3>3 DEF ProxyRead, Kinds
      <4>2. ASSUME NEW m \in {"request", "auth"}, NEW t, Say(m, t)
            PROVE  up' \in Seq(Piece) /\ client' = t
        BY <4>2, KindsMessage, KindsConcat DEF Say, Words, Bound, Typed
      <4>3. Leave => up' \in Seq(Piece) /\ client' = "left"
        BY DEF Leave, Bound, Typed
      <4>4. Refused => up' \in Seq(Piece) /\ client' # "HANDSHAKE"
        BY <4>2, <4>3 DEF Refused
      <4>5. ASSUME NEW m, MethodRead(m) \/ AuthRead(m)
            PROVE  up' \in Seq(Piece) /\ client' # "HANDSHAKE"
        BY <4>2, <4>3, <4>4, <4>5 DEF MethodRead, AuthRead
      <4>6. ASSUME ResponseRead(FirstOf(b))
            PROVE  up' \in Seq(Piece) /\ (client' = "HANDSHAKE" => Told)
        <5>1. CASE FirstOf(b) = "ok"
          <6>1. "ok" \in Kinds(b)
            BY <1>2, <5>1, FirstOfKinds
          <6> QED
            BY <1>2, <4>6, <5>1, <6>1 DEF ResponseRead, Told, Bound, Typed
        <5>2. CASE FirstOf(b) # "ok"
          BY <4>3, <4>6, <5>2 DEF ResponseRead
        <5> QED
          BY <5>1, <5>2
      <4> QED
        BY <3>1, <3>3, <4>1, <4>5, <4>6 DEF ProxyRead
    <3> QED
      BY <3>2, <3>3
  <2> QED
    BY <2>1, <2>2
<1>5. Told' => Told
  BY <1>1, <1>4 DEF Told
<1> QED
  BY <1>1, <1>3, <1>4, <1>5 DEF Bound, Typed, Joined

LEMMA BoundUpstream ==
  ASSUME Bound, UpstreamConnects \/ UpstreamEnds \/ UpstreamTalks
  PROVE  Bound'
<1>1. CASE UpstreamConnects
  <2>1. down' \in Seq(Piece)
    BY <1>1, KindsMessage, KindsConcat DEF UpstreamConnects, Connected, Words, Bound, Typed
  <2>2. Joined'
    BY <1>1 DEF UpstreamConnects, Connected, Joined, Bound, Typed
  <2> QED
    BY <1>1, <2>1, <2>2 DEF UpstreamConnects, Connected, Bound, Typed
<1>2. CASE UpstreamEnds
  <2>1. down' \in Seq(Piece) /\ ("ok" \in Kinds(down') => "ok" \in Kinds(down))
    <3>1. CASE down' = down
      BY <3>1 DEF Bound, Typed
    <3>2. CASE Refuse("denied")
      <4>1. "denied" \in Words \ {"ok"} /\ down' = down \o Message("denied")
        BY <3>2 DEF Refuse, Words
      <4> QED
        BY <4>1, OtherAnswer DEF Bound
    <3> QED
      BY <1>2, <3>1, <3>2 DEF UpstreamEnds
  <2> QED
    BY <1>2, <2>1 DEF UpstreamEnds, Bound, Typed, Told, Joined
<1>3. CASE UpstreamTalks
  <2>1. told' \in Nat
    BY <1>3 DEF UpstreamTalks, Bound, Typed
  <2>2. Bytes(told') \in Seq(Piece) /\ Kinds(Bytes(told')) = {"data"}
    BY <2>1, KindsBytes
  <2> DEFINE t == Bytes(told')
  <2> HIDE DEF t
  <2>3. down \o t \in Seq(Piece) /\ Kinds(down \o t) \subseteq Kinds(down) \cup {"data"}
    BY <2>2, KindsConcat DEF t, Bound, Typed
  <2>4. down' = down \/ down' = down \o t
    BY <1>3 DEF UpstreamTalks, t
  <2>5. down' \in Seq(Piece) /\ ("ok" \in Kinds(down') => "ok" \in Kinds(down))
    <3>1. CASE down' = down
      BY <3>1 DEF Bound, Typed
    <3>2. CASE down' = down \o t
      <4>1. "ok" \in Kinds(down \o t) => "ok" \in Kinds(down)
        BY <2>3
      <4> QED
        BY <2>3, <3>2, <4>1
    <3> QED
      BY <2>4, <3>1, <3>2
  <2> QED
    BY <1>3, <2>1, <2>5 DEF UpstreamTalks, Bound, Typed, Told, Joined
<1> QED
  BY <1>1, <1>2, <1>3

LEMMA BoundClientTalks ==
  ASSUME Bound, ClientTalks
  PROVE  Bound'
<1>1. said' \in Nat
  BY DEF ClientTalks, Bound, Typed
<1> DEFINE t == Bytes(said')
<1>2. t \in Seq(Piece)
  BY <1>1, KindsBytes
<1> HIDE DEF t
<1>3. up \o t \in Seq(Piece)
  BY <1>2, KindsConcat DEF Bound, Typed
<1>4. up' = up \/ up' = up \o t
  BY DEF ClientTalks, t
<1> QED
  BY <1>1, <1>3, <1>4 DEF ClientTalks, Bound, Typed, Told, Joined

LEMMA BoundStep ==
  ASSUME Bound, [Next]_vars
  PROVE  Bound'
<1>1. CASE \E n \in DOMAIN up : ServerRead(n)
  BY <1>1, BoundServerRead
<1>2. CASE \E n \in DOMAIN down : ClientRead(n)
  BY <1>2, BoundClientRead
<1>3. CASE ServerEnds
  BY <1>3 DEF ServerEnds, Bound, Typed, Told, Joined
<1>4. CASE Erase
  BY <1>4 DEF Erase, Bound, Typed, Told, Joined
<1>5. CASE UpstreamConnects \/ UpstreamEnds \/ UpstreamTalks
  BY <1>5, BoundUpstream
<1>6. CASE ClientTalks
  BY <1>6, BoundClientTalks
<1>7. CASE ClientLeaves \/ ClientEnds
  BY <1>7 DEF ClientLeaves, ClientEnds, Bound, Typed, Told, Joined
<1>8. CASE UNCHANGED vars
  BY <1>8 DEF vars, Bound, Typed, Told, Joined
<1> QED
  BY <1>1, <1>2, <1>3, <1>4, <1>5, <1>6, <1>7, <1>8 DEF Next

LEMMA BoundInit == Init => Bound
<1> SUFFICES ASSUME Init
             PROVE  Bound
  OBVIOUS
<1>1. up \in Seq(Piece)
  BY KindsMessage DEF Init, Words
<1>2. down \in Seq(Piece) /\ buffer \in Seq(Piece) /\ Kinds(down) = {} /\ Kinds(buffer) = {}
  BY DEF Init, Kinds
<1> QED
  BY <1>1, <1>2 DEF Init, Bound, Typed, Told

\* A client that takes the tunnel for open has an upstream, and the server forwards what it
\* says, for reads of any sizes: no message cut in two is taken for the answer.
THEOREM AgreeAlways == Spec => []Agree
<1>1. Init => Bound
  BY BoundInit
<1>2. Bound /\ [Next]_vars => Bound'
  BY BoundStep
<1>3. Bound => Agree
  BY DEF Bound, Told, Joined, Agree
<1> QED
  BY <1>1, <1>2, <1>3, PTL DEF Spec

(***************************************************************************)
(* With reads of whole messages, and a client that waits for the answer to *)
(* its request, the negotiation is a strict alternation, and what is said  *)
(* later is on its way in an unbroken run of numbers.                      *)
(***************************************************************************)
Careful == Whole /\ env.manner # "eager"

\* the numbers of the data of s go on after n
After(s, n) == \A k \in DOMAIN s : s[k] = [kind |-> "data", part |-> n + k]

Asks(c) == CASE c = "METHOD" -> "methods" [] c = "AUTH" -> "auth" [] OTHER -> "request"

Early == client \in {"METHOD", "AUTH", "RESPONSE"}

Answers == Words \ {"data"}

\* whose turn it is: the server's, with what the client asks for; nobody's, while it connects or
\* when it has ended; the client's. An upstream that speaks first may put its data behind the
\* answer
Turn ==
  \/ up = Message(Asks(client)) /\ down = <<>> /\ buffer = <<>> /\ upstream = "none"
  \/ up = <<>> /\ down = <<>> /\ buffer = <<>> /\ (upstream # "none" => client = "RESPONSE")
  \/ /\ up = <<>> /\ (\E m \in Answers : down = Message(m)) /\ buffer = <<>>
     /\ upstream # "opening" /\ (upstream # "none" => client = "RESPONSE")
  \/ up = <<>> /\ env.early /\ client = "RESPONSE" /\ upstream \in {"up", "ended"}

Negotiating == Early => said = 0 /\ taken = <<>> /\ heard = <<>> /\ Turn

\* the way to the upstream
Upwards ==
  /\ upstream \in {"none", "opening", "up", "ended"} /\ taken \in Seq(Nat)
  /\ upstream # "none" => state = "CONNECT"
  /\ upstream = "none" =>
       /\ taken = <<>> /\ said = 0 /\ ~options.connect /\ ~options.locked
       /\ up = <<>> \/ \E m \in {"methods", "auth", "request"} : up = Message(m)
  /\ upstream = "opening" => taken = <<>> /\ said = 0 /\ up = <<>>
  /\ upstream = "up" =>
       /\ options.connect /\ ~options.locked
       /\ broker => After(up, Len(taken)) /\ said = Len(taken) + Len(up)
  /\ Prefix(taken, said)

\* the way back, if the upstream waits for what the client says
Downwards ==
  /\ heard \in Seq(Nat)
  /\ told > 0 => taken # <<>>
  /\ Prefix(heard, told)
  /\ client = "HANDSHAKE" =>
       /\ After(down, Len(heard)) /\ Len(heard) + Len(down) <= told
       /\ broker /\ options.there => told = Len(heard) + Len(down)

Flowing == Negotiating /\ Upwards /\ (~env.early => Downwards)

Flow == Careful => Flowing

LEMMA UpToNumber ==
  ASSUME NEW n \in Nat PROVE Cardinality(1..n) = n
<1>1. Cardinality(1..n) = IF 1 > n THEN 0 ELSE n - 1 + 1
  BY FS_Interval
<1> QED
  BY <1>1

\* the numbers of data that are nothing else
LEMMA PayloadOfData ==
  ASSUME NEW s \in Seq(Piece), NEW n \in Nat, After(s, n)
  PROVE  /\ Payload(s) \in Seq(Nat) /\ Len(Payload(s)) = Len(s)
         /\ \A k \in DOMAIN s : Payload(s)[k] = n + k
<1> DEFINE at == {k \in DOMAIN s : IsData(s[k])}
           upTo(k) == Cardinality({i \in at : i <= k})
<1>1. DOMAIN s = 1..Len(s) /\ Len(s) \in Nat
  OBVIOUS
<1>2. \A k \in DOMAIN s : s[k].kind = "data" /\ s[k].part = n + k
  BY DEF After
<1>3. at = 1..Len(s)
  BY <1>1, <1>2 DEF IsData
<1>4. \A k \in 1..Len(s) : upTo(k) = k
  <2> SUFFICES ASSUME NEW k \in 1..Len(s) PROVE upTo(k) = k
    OBVIOUS
  <2> HIDE DEF at
  <2>1. {i \in at : i <= k} = 1..k
    BY <1>1, <1>3
  <2>2. k \in Nat /\ k >= 1
    BY <1>1
  <2>3. Cardinality(1..k) = k
    BY <2>2, UpToNumber
  <2> QED
    BY <2>1, <2>3
<1>5. Cardinality(at) = Len(s)
  <2> HIDE DEF at
  <2> QED
    BY <1>1, <1>3, UpToNumber
<1>6. Payload(s) = [j \in 1..Cardinality(at) |-> s[CHOOSE k \in at : upTo(k) = j].part]
  BY DEF Payload
<1> HIDE DEF at, upTo
<1>7. \A j \in 1..Len(s) : (CHOOSE k \in at : upTo(k) = j) = j
  BY <1>3, <1>4
<1>8. Payload(s) = [j \in 1..Len(s) |-> s[j].part]
  BY <1>5, <1>6, <1>7
<1>9. \A j \in 1..Len(s) : s[j].part = n + j /\ n + j \in Nat
  BY <1>1, <1>2
<1>10. Payload(s) = [j \in 1..Len(s) |-> n + j]
  BY <1>8, <1>9
<1>11. [j \in 1..Len(s) |-> n + j] \in Seq(Nat)
  BY <1>1
<1> QED
  BY <1>1, <1>10, <1>11

\* a read of s ends after n: what it takes, and what is left
LEMMA AfterPart ==
  ASSUME NEW s \in Seq(Piece), NEW n \in DOMAIN s, NEW m \in Nat, After(s, m)
  PROVE  /\ After(SubSeq(s, 1, n), m) /\ Len(SubSeq(s, 1, n)) = n /\ n \in Nat
         /\ After(SubSeq(s, n + 1, Len(s)), m + n)
         /\ Len(SubSeq(s, n + 1, Len(s))) = Len(s) - n
<1>1. n \in 1..Len(s) /\ Len(s) \in Nat
  OBVIOUS
<1>2. /\ DOMAIN SubSeq(s, 1, n) = 1..n /\ Len(SubSeq(s, 1, n)) = n
      /\ \A k \in 1..n : SubSeq(s, 1, n)[k] = s[k]
  BY <1>1
<1>3. /\ DOMAIN SubSeq(s, n + 1, Len(s)) = 1..(Len(s) - n)
      /\ Len(SubSeq(s, n + 1, Len(s))) = Len(s) - n
      /\ \A k \in 1..(Len(s) - n) : SubSeq(s, n + 1, Len(s))[k] = s[k + n]
  BY <1>1
<1>4. \A k \in 1..Len(s) : s[k] = [kind |-> "data", part |-> m + k]
  BY DEF After
<1>5. \A k \in 1..n : k \in 1..Len(s)
  BY <1>1
<1>6. \A k \in 1..(Len(s) - n) : k + n \in 1..Len(s) /\ m + (k + n) = (m + n) + k
  BY <1>1
<1>7. After(SubSeq(s, 1, n), m)
  BY <1>2, <1>4, <1>5 DEF After
<1>8. After(SubSeq(s, n + 1, Len(s)), m + n)
  <2> SUFFICES ASSUME NEW k \in 1..(Len(s) - n)
               PROVE  SubSeq(s, n + 1, Len(s))[k] = [kind |-> "data", part |-> (m + n) + k]
    BY <1>3 DEF After
  <2>1. SubSeq(s, n + 1, Len(s))[k] = s[k + n]
    BY <1>3
  <2>2. s[k + n] = [kind |-> "data", part |-> m + (k + n)]
    BY <1>4, <1>6
  <2> QED
    BY <1>6, <2>1, <2>2
<1> QED
  BY <1>1, <1>2, <1>3, <1>7, <1>8

LEMMA AfterAppend ==
  ASSUME NEW s \in Seq(Piece), NEW n \in Nat, After(s, n), NEW m, m = n + Len(s) + 1
  PROVE  After(s \o Bytes(m), n) /\ Len(s \o Bytes(m)) = Len(s) + 1
<1> DEFINE d == [kind |-> "data", part |-> m]
<1>1. Len(s) \in Nat /\ m \in Nat
  OBVIOUS
<1>2. Bytes(m) = <<d>> /\ Bytes(m) \in Seq(Piece)
  BY <1>1, KindsBytes DEF Bytes
<1> HIDE DEF d
<1>3. /\ Len(s \o <<d>>) = Len(s) + 1 /\ DOMAIN (s \o <<d>>) = 1..(Len(s) + 1)
      /\ (s \o <<d>>)[Len(s) + 1] = d
      /\ \A k \in 1..Len(s) : (s \o <<d>>)[k] = s[k]
  BY <1>2
<1>4. n + (Len(s) + 1) = m
  BY <1>1
<1>5. \A k \in 1..Len(s) : s[k] = [kind |-> "data", part |-> n + k]
  BY DEF After
<1>6. d = [kind |-> "data", part |-> n + (Len(s) + 1)]
  BY <1>4 DEF d
<1>7. \A k \in 1..(Len(s) + 1) : k \in 1..Len(s) \/ k = Len(s) + 1
  BY <1>1
<1>8. After(s \o <<d>>, n)
  <2> SUFFICES ASSUME NEW k \in 1..(Len(s) + 1)
               PROVE  (s \o <<d>>)[k] = [kind |-> "data", part |-> n + k]
    BY <1>3 DEF After
  <2>1. CASE k \in 1..Len(s)
    BY <1>3, <1>5, <2>1
  <2>2. CASE k = Len(s) + 1
    BY <1>3, <1>6, <2>2
  <2> QED
    BY <1>7, <2>1, <2>2
<1> QED
  BY <1>2, <1>3, <1>8

\* a run of numbers that goes on
Counts(s, t, n) == s \in Seq(Nat) /\ Len(s) = n /\ \A k \in 1..n : s[k] = t + k

LEMMA RunsOn ==
  ASSUME NEW s, NEW q, NEW t \in Nat, NEW n \in Nat, Counts(s, 0, t), Counts(q, t, n)
  PROVE  Counts(s \o q, 0, t + n)
<1>0. /\ s \in Seq(Nat) /\ t = Len(s) /\ \A k \in 1..t : s[k] = k
      /\ q \in Seq(Nat) /\ n = Len(q) /\ \A k \in 1..n : q[k] = t + k
  BY DEF Counts
<1>1. /\ s \o q \in Seq(Nat) /\ Len(s \o q) = t + n
      /\ \A k \in 1..(t + n) : (s \o q)[k] = IF k <= t THEN s[k] ELSE q[k - t]
  BY <1>0, ConcatProperties
<1>2. ASSUME NEW k \in 1..(t + n) PROVE (s \o q)[k] = k
  <2>1. CASE k <= t
    <3>1. k \in 1..t
      BY <2>1
    <3> QED
      BY <1>0, <1>1, <2>1, <3>1
  <2>2. CASE ~(k <= t)
    <3>1. k - t \in 1..n /\ t + (k - t) = k
      BY <2>2
    <3>2. (s \o q)[k] = q[k - t]
      BY <1>1, <2>2
    <3> QED
      BY <1>0, <3>1, <3>2
  <2> QED
    BY <2>1, <2>2
<1> QED
  BY <1>1, <1>2 DEF Counts

\* a read of a message
LEMMA ReadWhole ==
  ASSUME env.cuts = "whole", NEW m \in Answers, NEW n \in ReadEnds(Message(m))
  PROVE  /\ SubSeq(Message(m), 1, n) = Message(m)
         /\ SubSeq(Message(m), n + 1, Len(Message(m))) = <<>>
<1>1. n = 2
  BY DEF ReadEnds, Message, IsData, Answers
<1>2. Message(m) \in Seq(Piece) /\ Len(Message(m)) = 2
  BY KindsMessage DEF Answers, Message
<1>3. SubSeq(Message(m), 1, 2) = Message(m)
  BY <1>2
<1>4. SubSeq(Message(m), 3, 2) = <<>>
  BY <1>2
<1> QED
  BY <1>1, <1>2, <1>3, <1>4

LEMMA FirstOfMessage ==
  ASSUME NEW m \in Answers
  PROVE  FirstOf(Message(m)) = m /\ m # "none" /\ Len(Message(m)) = 2 /\ Message(m) # <<>>
         /\ <<>> \o Message(m) = Message(m)
<1>1. Len(Message(m)) = 2 /\ Message(m)[1] = [kind |-> m, part |-> 1] /\ m # "data" /\ m # "none"
  BY DEF Message, Answers, Words
<1>2. FirstOf(Message(m)) = m
  BY <1>1 DEF FirstOf, IsData
<1>3. Message(m) \in Seq(Piece)
  BY KindsMessage DEF Answers
<1>4. <<>> \o Message(m) = Message(m)
  BY <1>3
<1> QED
  BY <1>1, <1>2, <1>4

\* the server has taken a message that was whole
LEMMA FlowNegotiate ==
  ASSUME Bound, Careful, Flowing, upstream = "none", NEW m \in {"methods", "auth", "request"},
         up = Message(m), up' = <<>>, Negotiate(Message(m)), ~Ended(state),
         UNCHANGED <<env, client, buffer, said, heard, told, taken>>
  PROVE  Flowing'
<1>1. m \in Answers /\ FirstOf(Message(m)) = m /\ Message(m) # <<>> /\ m # "none"
  <2>1. m \in Answers
    BY DEF Answers, Words
  <2> QED
    BY <2>1, FirstOfMessage
<1>2. PICK p \in Parse(Message(m)) :
        \/ p.answer # "" /\ Answer(p)
        \/ p.answer = "" /\ state' = p.state /\ p.state = "CONNECT" /\ Open
        \/ p.answer = "" /\ state' = p.state /\ p.state = "BROKEN" /\ Forbid
        \/ /\ p.answer = "" /\ p.state \notin {"CONNECT", "BROKEN"}
           /\ UNCHANGED <<state, options, broker, timer, upstream, down>>
  BY DEF Negotiate
<1>3. p = Parsed(m)
  BY <1>1 DEF Parse
<1>4. p.answer \in {"", "passwd", "noauth", "welcome", "stranger"}
  BY ParseAnswers DEF Bound
<1>5. p.answer = "" /\ p.state = "CONNECT" => m = "request"
  <2>1. state \in {"METHOD", "AUTH", "REQUEST"}
    BY DEF Bound, Typed, Ended
  <2>2. CASE state = "METHOD"
    BY <1>3, <2>2 DEF Parsed, Method
  <2>3. CASE state = "AUTH"
    <3>1. p = Password(m)
      BY <1>3, <2>3 DEF Parsed
    <3>2. CASE m = "auth"
      BY <3>1, <3>2 DEF Password
    <3>3. CASE m # "auth"
      BY <1>1, <3>1, <3>3 DEF Password
    <3> QED
      BY <3>2, <3>3
  <2>4. CASE state = "REQUEST"
    <3>1. p = Request(m)
      BY <1>3, <2>4 DEF Parsed
    <3>2. CASE m = "none"
      BY <3>1, <3>2 DEF Request
    <3>3. CASE m \notin {"request", "none"}
      BY <3>1, <3>3 DEF Request
    <3> QED
      BY <3>2, <3>3
  <2> QED
    BY <2>1, <2>2, <2>3, <2>4
<1>6. Early => down = <<>> /\ buffer = <<>> /\ up = Message(Asks(client))
  BY <1>1 DEF Flowing, Negotiating, Turn
<1>7. Early /\ m = "request" => client = "RESPONSE"
  <2> SUFFICES ASSUME Early, m = "request", client # "RESPONSE" PROVE FALSE
    OBVIOUS
  <2>1. Asks(client) \in {"methods", "auth"}
    BY DEF Asks, Early
  <2>2. Asks(client) \in Answers
    BY <2>1 DEF Answers, Words
  <2>3. FirstOf(Message(Asks(client))) = Asks(client)
    BY <2>2, FirstOfMessage
  <2> QED
    BY <1>1, <1>6, <2>1, <2>3
<1>8. down \in Seq(Piece)
  BY DEF Bound, Typed
<1>9. \/ /\ \E a \in Answers : down' = down \o Message(a)
         /\ UNCHANGED <<options, upstream>>
      \/ m = "request" /\ down' = down /\ upstream' = "opening" /\ state' = "CONNECT"
         /\ UNCHANGED broker
      \/ UNCHANGED <<options, upstream, down>>
  <2>1. CASE p.answer # "" /\ Answer(p)
    <3>1. p.answer \in Answers
      BY <1>4, <2>1 DEF Answers, Words
    <3> QED
      BY <2>1, <3>1 DEF Answer
  <2>2. CASE Forbid
    <3>1. "forbidden" \in Answers
      BY DEF Answers, Words
    <3> QED
      BY <2>2, <3>1 DEF Forbid, Refuse
  <2>3. CASE p.answer = "" /\ state' = p.state /\ p.state = "CONNECT" /\ Open
    BY <1>5, <2>3 DEF Open
  <2> QED
    BY <1>2, <2>1, <2>2, <2>3
<1>10. taken = <<>> /\ said = 0 /\ Prefix(taken, said)
  BY DEF Flowing, Upwards
<1>11. Upwards'
  BY <1>9, <1>10 DEF Flowing, Upwards, Prefix
<1>12. Negotiating'
  <2> SUFFICES ASSUME Early PROVE heard = <<>> /\ Turn'
    BY <1>10 DEF Negotiating, Early
  <2>1. heard = <<>>
    BY DEF Flowing, Negotiating
  <2>2. ASSUME NEW a \in Answers, down' = down \o Message(a), UNCHANGED upstream PROVE Turn'
    BY <1>6, <2>2, FirstOfMessage DEF Turn
  <2>3. ASSUME down' = down, upstream' = upstream PROVE Turn'
    BY <1>6, <2>3 DEF Turn
  <2>4. ASSUME m = "request", down' = down, upstream' = "opening" PROVE Turn'
    BY <1>6, <1>7, <2>4 DEF Turn
  <2> QED
    BY <1>9, <2>1, <2>2, <2>3, <2>4
<1>13. ~env.early => Downwards'
  <2>1. client # "HANDSHAKE"
    BY DEF Bound, Told, Joined
  <2> QED
    BY <2>1 DEF Flowing, Downwards, Prefix
<1> QED
  BY <1>11, <1>12, <1>13 DEF Flowing

LEMMA FlowServerRead ==
  ASSUME Bound, Careful, Flowing, NEW n \in DOMAIN up, ServerRead(n)
  PROVE  Flowing'
<1> DEFINE read == SubSeq(up, 1, n)
<1>1. UNCHANGED <<env, client, buffer, said, heard, told>> /\ up' = SubSeq(up, n + 1, Len(up))
      /\ n \in ReadEnds(up) /\ broker
  BY DEF ServerRead
<1>2. up # <<>> /\ up \in Seq(Piece)
  BY DEF Bound, Typed
<1>3. CASE upstream = "none"
  <2>1. PICK m \in {"methods", "auth", "request"} : up = Message(m)
    BY <1>2, <1>3 DEF Flowing, Upwards
  <2>2. m \in Answers
    BY DEF Answers, Words
  <2>3. read = Message(m) /\ up' = <<>>
    BY <1>1, <2>1, <2>2, ReadWhole DEF Careful, Whole
  <2>4. ~options.locked /\ ~options.connect
    BY <1>3 DEF Flowing, Upwards
  <2>5. CASE ~Ended(state) /\ Negotiate(read) /\ UNCHANGED taken
    BY <1>1, <1>3, <2>1, <2>3, <2>5, FlowNegotiate
  <2>6. CASE Forward(read)
    <3>1. UNCHANGED <<state, options, broker, upstream, down, taken>>
      BY <1>3, <2>6 DEF Forward
    <3>2. Upwards'
      BY <1>1, <1>3, <2>3, <3>1 DEF Flowing, Upwards, Prefix
    <3>3. Negotiating'
      <4>1. Early => down = <<>> /\ buffer = <<>>
        BY <1>2, <1>3 DEF Flowing, Negotiating, Turn
      <4> QED
        BY <1>1, <1>3, <2>3, <3>1, <4>1 DEF Flowing, Negotiating, Early, Turn
    <3>4. ~env.early => Downwards'
      BY <1>1, <3>1 DEF Flowing, Downwards, Prefix, After
    <3> QED
      BY <1>1, <3>2, <3>3, <3>4 DEF Flowing
  <2> QED
    BY <2>4, <2>5, <2>6 DEF ServerRead
<1>4. CASE upstream # "none"
  <2>1. ~Early /\ ~Early' /\ upstream \in {"up", "ended"} /\ Ended(state)
    BY <1>1, <1>2, <1>4 DEF Flowing, Negotiating, Turn, Upwards, Early, Ended
  <2>2. \/ UNCHANGED <<state, options, broker, timer, upstream, down, taken>>
        \/ Forward(read)
    BY <2>1 DEF ServerRead
  <2>3. UNCHANGED <<state, options, broker, upstream, down>>
    BY <2>2 DEF Forward
  <2>4. Negotiating'
    BY <2>1 DEF Negotiating
  <2>5. CASE upstream = "up"
    <3>1. ~options.locked /\ After(up, Len(taken)) /\ said = Len(taken) + Len(up)
      BY <1>1, <2>5 DEF Flowing, Upwards
    <3>2. Forward(read)
      BY <2>1, <3>1 DEF ServerRead
    <3>3. taken' = taken \o Payload(read)
      BY <2>5, <3>2 DEF Forward
    <3>4. taken \in Seq(Nat) /\ Len(taken) \in Nat /\ Prefix(taken, said)
      BY DEF Flowing, Upwards
    <3>5. PICK t \in Nat : t = Len(taken)
      BY <3>4
    <3>6. /\ After(read, t) /\ Len(read) = n /\ n \in Nat
          /\ After(up', t + n) /\ Len(up') = Len(up) - n /\ read \in Seq(Piece)
      BY <1>1, <1>2, <3>1, <3>5, AfterPart, KindsPart
    <3>7. /\ Payload(read) \in Seq(Nat) /\ Len(Payload(read)) = n
          /\ \A k \in 1..n : Payload(read)[k] = t + k
      <4> HIDE DEF read
      <4>1. /\ Payload(read) \in Seq(Nat) /\ Len(Payload(read)) = Len(read)
            /\ \A k \in DOMAIN read : Payload(read)[k] = t + k
        BY <3>6, PayloadOfData
      <4> QED
        BY <3>6, <4>1
    <3> DEFINE q == Payload(read)
    <3> HIDE DEF q, read
    <3>8. /\ taken' = taken \o q /\ q \in Seq(Nat) /\ Len(q) = n
          /\ \A k \in 1..n : q[k] = t + k
      BY <3>3, <3>7 DEF q
    <3>9. \A k \in 1..t : taken[k] = k
      BY <3>4, <3>5 DEF Prefix
    <3>10. /\ taken \o q \in Seq(Nat) /\ Len(taken \o q) = t + n
           /\ \A k \in 1..(t + n) : (taken \o q)[k] = k
      <4>1. Counts(taken, 0, t) /\ Counts(q, t, n) /\ t \in Nat /\ n \in Nat
        BY <3>4, <3>5, <3>6, <3>8, <3>9 DEF Counts
      <4>2. Counts(taken \o q, 0, t + n)
        BY <4>1, RunsOn
      <4> QED
        BY <4>2 DEF Counts
    <3>11. /\ taken' \in Seq(Nat) /\ Len(taken') = t + n /\ DOMAIN taken' = 1..(t + n)
           /\ \A k \in 1..(t + n) : taken'[k] = k
      BY <3>3, <3>8, <3>10
    <3>12. Len(up) \in Nat /\ Len(up) >= n
      BY <1>2
    <3>13. said = (t + n) + Len(up') /\ t + n <= said
      BY <3>1, <3>5, <3>6, <3>12
    <3>14. Prefix(taken', said)
      BY <3>11, <3>13 DEF Prefix
    <3>15. taken' # <<>> \/ taken' = taken
      BY <1>2, <3>6, <3>11
    <3>16. Upwards'
      BY <1>1, <2>3, <2>5, <3>6, <3>11, <3>13, <3>14 DEF Flowing, Upwards
    <3>17. taken # <<>> => taken' # <<>>
      BY <3>15
    <3>18. ~env.early => Downwards'
      BY <1>1, <2>3, <3>17 DEF Flowing, Downwards, Prefix, After
    <3> QED
      BY <1>1, <2>4, <3>16, <3>18 DEF Flowing
  <2>6. CASE upstream = "ended"
    <3>1. taken' = taken
      BY <2>2, <2>6 DEF Forward
    <3>2. Upwards'
      BY <1>1, <2>3, <2>6, <3>1 DEF Flowing, Upwards, Prefix
    <3>3. ~env.early => Downwards'
      BY <1>1, <2>3, <3>1 DEF Flowing, Downwards, Prefix, After
    <3> QED
      BY <1>1, <2>4, <3>2, <3>3 DEF Flowing
  <2> QED
    BY <2>1, <2>5, <2>6
<1> QED
  BY <1>3, <1>4

\* the client has read an answer that was whole, or, from an upstream that spoke first, anything
LEMMA FlowProxyRead ==
  ASSUME Bound, Careful, Flowing, Early, NEW b, ProxyRead(b),
         \/ /\ b \in {Message(m) : m \in Answers} /\ down' = <<>>
            /\ upstream # "none" => client = "RESPONSE"
         \/ env.early /\ client = "RESPONSE" /\ upstream \in {"up", "ended"},
         up = <<>>, UNCHANGED <<env, state, options, broker, upstream, said, heard, taken, told>>
  PROVE  Flowing'
<1>1. said = 0 /\ taken = <<>> /\ heard = <<>>
  BY DEF Flowing, Negotiating
<1>2. CASE /\ b \in {Message(m) : m \in Answers} /\ down' = <<>>
           /\ upstream # "none" => client = "RESPONSE"
  <2>1. Len(b) = 2
    BY <1>2, FirstOfMessage
  <2>2. ~Waits(b)
    BY <2>1 DEF Waits
  <2>3. /\ buffer' = <<>>
        /\ \/ client = "METHOD" /\ \E m \in Methods(b) : MethodRead(m)
           \/ client = "AUTH" /\ AuthRead(FirstOf(b))
           \/ client = "RESPONSE" /\ ResponseRead(FirstOf(b))
    BY <2>2 DEF ProxyRead
  <2>4. \/ Leave
        \/ client \in {"METHOD", "AUTH"} /\ (Say("request", "RESPONSE") \/ Say("auth", "AUTH"))
        \/ client' = "HANDSHAKE" /\ up' = up
    BY <2>3 DEF MethodRead, AuthRead, ResponseRead, Refused
  <2>5. CASE Leave
    <3>1. up' = up /\ client' = "left"
      BY <2>5 DEF Leave
    <3>2. Upwards'
      BY <3>1 DEF Flowing, Upwards, Prefix, After
    <3>3. ~env.early => Downwards'
      BY <3>1 DEF Flowing, Downwards, Prefix, After
    <3> QED
      BY <3>1, <3>2, <3>3 DEF Flowing, Negotiating, Early
  <2>6. CASE client' = "HANDSHAKE" /\ up' = up
    <3>1. Upwards'
      BY <2>6 DEF Flowing, Upwards, Prefix, After
    <3>2. ~env.early => Downwards'
      <4> SUFFICES ASSUME ~env.early PROVE Downwards'
        OBVIOUS
      <4>1. told \in Nat /\ ~(told > 0)
        BY <1>1 DEF Flowing, Downwards, Bound, Typed
      <4>2. told = 0
        BY <4>1
      <4>3. Len(<<>>) = 0 /\ DOMAIN <<>> = {} /\ down' = <<>> /\ heard' = <<>>
        BY <1>1, <1>2
      <4> QED
        BY <1>1, <2>6, <4>2, <4>3 DEF Flowing, Downwards, Prefix, After
    <3> QED
      BY <2>6, <3>1, <3>2 DEF Flowing, Negotiating, Early
  <2>7. ASSUME client \in {"METHOD", "AUTH"}, NEW m \in {"request", "auth"},
               Say(m, IF m = "auth" THEN "AUTH" ELSE "RESPONSE")
        PROVE  Flowing'
    <3>1. m \in Answers
      BY DEF Answers, Words
    <3>2. /\ up' = Message(m) /\ client' = IF m = "auth" THEN "AUTH" ELSE "RESPONSE"
      BY <2>7, <3>1, FirstOfMessage DEF Say
    <3>3. upstream = "none"
      BY <1>2, <2>7
    <3>4. Asks(client') = m
      BY <3>2 DEF Asks
    <3>5. Upwards'
      BY <3>2, <3>3 DEF Flowing, Upwards, Prefix
    <3>6. Negotiating'
      BY <1>1, <1>2, <2>3, <3>2, <3>3, <3>4 DEF Negotiating, Turn
    <3>7. ~env.early => Downwards'
      BY <3>2 DEF Flowing, Downwards, Prefix, After
    <3> QED
      BY <3>5, <3>6, <3>7 DEF Flowing
  <2> QED
    BY <2>4, <2>5, <2>6, <2>7
<1>3. CASE env.early /\ client = "RESPONSE" /\ upstream \in {"up", "ended"}
  <2>1. up' = up /\ (client' = client \/ client' \in {"HANDSHAKE", "left"})
    BY <1>3 DEF ProxyRead, ResponseRead, Leave
  <2>2. Upwards'
    BY <2>1 DEF Flowing, Upwards, Prefix, After
  <2>3. Negotiating'
    BY <1>1, <1>3, <2>1 DEF Negotiating, Early, Turn
  <2> QED
    BY <1>3, <2>2, <2>3 DEF Flowing
<1> QED
  BY <1>2, <1>3

LEMMA FlowClientRead ==
  ASSUME Bound, Careful, Flowing, NEW n \in DOMAIN down, ClientRead(n)
  PROVE  Flowing'
<1> DEFINE read == SubSeq(down, 1, n)
<1>1. /\ UNCHANGED <<env, state, options, broker, upstream, said, taken, told>>
      /\ down' = SubSeq(down, n + 1, Len(down)) /\ n \in ReadEnds(down) /\ client # "left"
  BY DEF ClientRead
<1>2. down # <<>> /\ down \in Seq(Piece)
  BY DEF Bound, Typed
<1>3. CASE client = "HANDSHAKE"
  <2>1. heard' = heard \o Payload(read) /\ UNCHANGED <<client, up, buffer>>
    BY <1>3 DEF ClientRead
  <2>2. Upwards'
    BY <1>1, <2>1 DEF Flowing, Upwards, Prefix, After
  <2>3. Negotiating'
    BY <1>3, <2>1 DEF Negotiating, Early
  <2>4. ASSUME ~env.early PROVE Downwards'
    <3>1. /\ heard \in Seq(Nat) /\ Prefix(heard, told) /\ (told > 0 => taken # <<>>)
          /\ After(down, Len(heard)) /\ Len(heard) + Len(down) <= told
          /\ broker /\ options.there => told = Len(heard) + Len(down)
      BY <1>3, <2>4 DEF Flowing, Downwards
    <3>2. PICK t \in Nat : t = Len(heard)
      BY <3>1
    <3>3. /\ After(read, t) /\ Len(read) = n /\ n \in Nat
          /\ After(down', t + n) /\ Len(down') = Len(down) - n /\ read \in Seq(Piece)
      BY <1>1, <1>2, <3>1, <3>2, AfterPart, KindsPart
    <3> HIDE DEF read
    <3>4. /\ Payload(read) \in Seq(Nat) /\ Len(Payload(read)) = n
          /\ \A k \in 1..n : Payload(read)[k] = t + k
      <4>1. /\ Payload(read) \in Seq(Nat) /\ Len(Payload(read)) = Len(read)
            /\ \A k \in DOMAIN read : Payload(read)[k] = t + k
        BY <3>3, PayloadOfData
      <4>2. DOMAIN read = 1..n
        BY <3>3
      <4> QED
        BY <3>3, <4>1, <4>2
    <3> DEFINE q == Payload(read)
    <3>5. heard' = heard \o q /\ q \in Seq(Nat) /\ Len(q) = n /\ \A k \in 1..n : q[k] = t + k
      BY <2>1, <3>4
    <3> HIDE DEF q
    <3>6. \A k \in 1..t : heard[k] = k
      BY <3>1, <3>2 DEF Prefix
    <3>7. /\ heard \o q \in Seq(Nat) /\ Len(heard \o q) = t + n
          /\ \A k \in 1..(t + n) : (heard \o q)[k] = k
      <4>1. Counts(heard, 0, t) /\ Counts(q, t, n) /\ t \in Nat /\ n \in Nat
        BY <3>1, <3>2, <3>3, <3>5, <3>6 DEF Counts
      <4>2. Counts(heard \o q, 0, t + n)
        BY <4>1, RunsOn
      <4> QED
        BY <4>2 DEF Counts
    <3>8. /\ heard' \in Seq(Nat) /\ Len(heard') = t + n /\ DOMAIN heard' = 1..(t + n)
          /\ \A k \in 1..(t + n) : heard'[k] = k
      BY <3>5, <3>7
    <3>9. Len(down) \in Nat /\ Len(down) >= n /\ told \in Nat
      BY <1>2 DEF Bound, Typed
    <3>10. /\ (t + n) + Len(down') <= told /\ t + n <= told
           /\ broker /\ options.there => told = (t + n) + Len(down')
      <4>1. PICK k \in Nat : k = Len(down)
        BY <3>9
      <4>2. k >= n /\ Len(down') = k - n
        BY <3>3, <3>9, <4>1
      <4>3. t + k <= told /\ (broker /\ options.there => told = t + k)
        BY <3>1, <3>2, <4>1
      <4>4. PICK d \in Nat : d = k - n
        BY <3>3, <4>2
      <4>5. k = n + d /\ Len(down') = d
        BY <3>3, <4>2, <4>4
      <4>6. t + k = (t + n) + d
        BY <3>3, <4>5
      <4>7. (t + n) + d <= told /\ t + n <= told
        BY <3>3, <3>9, <4>3, <4>6
      <4>8. broker /\ options.there => told = (t + n) + d
        BY <4>3, <4>6
      <4> QED
        BY <4>5, <4>7, <4>8
    <3>11. Prefix(heard', told)
      BY <3>8, <3>10 DEF Prefix
    <3> QED
      BY <1>1, <2>1, <3>1, <3>3, <3>8, <3>10, <3>11 DEF Downwards
  <2> QED
    BY <1>1, <2>2, <2>3, <2>4 DEF Flowing
<1>4. CASE client # "HANDSHAKE"
  <2>1. ProxyRead(buffer \o read) /\ heard' = heard
    BY <1>4 DEF ClientRead
  <2>2. CASE Early
    <3>1. \/ up = <<>> /\ (\E m \in Answers : down = Message(m)) /\ buffer = <<>>
             /\ (upstream # "none" => client = "RESPONSE")
          \/ up = <<>> /\ env.early /\ client = "RESPONSE" /\ upstream \in {"up", "ended"}
      BY <1>2, <2>2 DEF Flowing, Negotiating, Turn
    <3>2. CASE up = <<>> /\ (\E m \in Answers : down = Message(m)) /\ buffer = <<>>
               /\ (upstream # "none" => client = "RESPONSE")
      <4>1. PICK m \in Answers : down = Message(m)
        BY <3>2
      <4>2. read = Message(m) /\ down' = <<>>
        BY <1>1, <4>1, ReadWhole DEF Careful, Whole
      <4>3. buffer \o read = Message(m)
        BY <3>2, <4>2, FirstOfMessage
      <4> QED
        BY <1>1, <2>1, <2>2, <3>2, <4>2, <4>3, FlowProxyRead
    <3>3. CASE up = <<>> /\ env.early /\ client = "RESPONSE" /\ upstream \in {"up", "ended"}
      BY <1>1, <2>1, <2>2, <3>3, FlowProxyRead
    <3> QED
      BY <3>1, <3>2, <3>3
  <2>3. CASE ~Early
    <3>1. FALSE
      BY <1>1, <1>4, <2>1, <2>3 DEF ProxyRead, Early, Waits
    <3> QED
      BY <3>1
  <2> QED
    BY <2>2, <2>3
<1> QED
  BY <1>3, <1>4

LEMMA FlowUpstreamConnects ==
  ASSUME Bound, Careful, Flowing, UpstreamConnects
  PROVE  Flowing'
<1>1. /\ UNCHANGED <<env, up, client, buffer, state, broker, said, heard, taken, told>>
      /\ upstream = "opening" /\ upstream' = "up" /\ options' = [options EXCEPT !.connect = TRUE, !.locked = FALSE]
      /\ down' = down \/ down' = down \o Message("ok")
  BY DEF UpstreamConnects, Connected
<1>2. options'.connect /\ ~options'.locked
  BY <1>1 DEF Bound, Typed
<1>3. taken = <<>> /\ said = 0 /\ up = <<>> /\ state = "CONNECT" /\ Prefix(taken, said)
  BY <1>1 DEF Flowing, Upwards
<1>4. Upwards'
  <2>1. Len(<<>>) = 0 /\ DOMAIN <<>> = {} /\ <<>> \in Seq(Nat)
    OBVIOUS
  <2>2. Prefix(taken, said)'
    BY <1>1, <1>3 DEF Prefix
  <2>3. After(<<>>, 0)
    BY <2>1 DEF After
  <2> QED
    BY <1>1, <1>2, <1>3, <2>1, <2>2, <2>3 DEF Upwards
<1>5. Negotiating'
  <2> SUFFICES ASSUME Early PROVE heard = <<>> /\ Turn'
    BY <1>1, <1>3 DEF Negotiating, Early
  <2>1. heard = <<>> /\ down = <<>> /\ buffer = <<>> /\ client = "RESPONSE"
    BY <1>1, <1>3 DEF Flowing, Negotiating, Turn
  <2>2. "ok" \in Answers
    BY DEF Answers, Words
  <2>3. down' = <<>> \/ down' = Message("ok")
    BY <1>1, <2>1, <2>2, FirstOfMessage
  <2> QED
    BY <1>1, <1>3, <2>1, <2>2, <2>3 DEF Turn
<1>6. ~env.early => Downwards'
  <2>1. client # "HANDSHAKE"
    BY <1>1 DEF Bound, Told, Joined
  <2> QED
    BY <1>1, <2>1 DEF Flowing, Downwards, Prefix
<1> QED
  BY <1>1, <1>4, <1>5, <1>6 DEF Flowing

LEMMA FlowUpstreamEnds ==
  ASSUME Bound, Careful, Flowing, UpstreamEnds
  PROVE  Flowing'
<1>1. /\ UNCHANGED <<env, up, client, buffer, state, options, said, heard, taken, told>>
      /\ upstream \in {"opening", "up"} /\ upstream' = "ended" /\ broker' = FALSE
      /\ \/ down' = down
         \/ ~options.connect /\ down' = down \o Message("denied")
  BY DEF UpstreamEnds, Refuse, CloseServer
<1>2. Upwards'
  BY <1>1 DEF Flowing, Upwards, Prefix
<1>3. upstream = "up" => down' = down
  BY <1>1 DEF Flowing, Upwards
<1>4. Negotiating'
  <2> SUFFICES ASSUME Early PROVE said = 0 /\ taken = <<>> /\ heard = <<>> /\ Turn'
    BY <1>1 DEF Negotiating, Early
  <2>1. said = 0 /\ taken = <<>> /\ heard = <<>> /\ Turn
    BY DEF Flowing, Negotiating
  <2>2. "denied" \in Answers /\ <<>> \o Message("denied") = Message("denied")
    BY FirstOfMessage DEF Answers, Words
  <2>3. CASE down' = down
    BY <1>1, <2>1, <2>3 DEF Turn
  <2>4. CASE upstream = "opening" /\ down' = down \o Message("denied")
    <3>1. up = <<>> /\ down = <<>> /\ buffer = <<>> /\ client = "RESPONSE"
      BY <2>1, <2>4 DEF Turn
    <3>2. down' = Message("denied")
      BY <2>2, <2>4, <3>1
    <3> QED
      BY <1>1, <2>1, <2>2, <3>1, <3>2 DEF Turn
  <2> QED
    BY <1>1, <1>3, <2>3, <2>4
<1>5. ~env.early => Downwards'
  <2>1. client = "HANDSHAKE" => down' = down
    BY <1>1, <1>3 DEF Bound, Told, Joined
  <2> QED
    BY <1>1, <2>1 DEF Flowing, Downwards, Prefix, After
<1> QED
  BY <1>1, <1>2, <1>4, <1>5 DEF Flowing

LEMMA FlowUpstreamTalks ==
  ASSUME Bound, Careful, Flowing, UpstreamTalks
  PROVE  Flowing'
<1>1. /\ UNCHANGED <<env, up, client, buffer, state, options, broker, upstream, said, heard, taken>>
      /\ upstream = "up" /\ told' = told + 1 /\ (env.early \/ taken # <<>>)
      /\ down' = IF broker /\ options.there /\ options.connect THEN down \o Bytes(told') ELSE down
  BY DEF UpstreamTalks
<1>2. Upwards'
  BY <1>1 DEF Flowing, Upwards, Prefix, After
<1>3. Negotiating'
  BY <1>1 DEF Flowing, Negotiating, Early, Turn
<1>4. ASSUME ~env.early PROVE Downwards'
  <2>1. /\ heard \in Seq(Nat) /\ Prefix(heard, told) /\ told \in Nat /\ options.connect
        /\ down \in Seq(Piece)
    BY <1>1, <1>4 DEF Flowing, Downwards, Upwards, Bound, Typed
  <2>2. PICK t \in Nat : t = Len(heard)
    BY <2>1
  <2>3. Prefix(heard, told + 1)
    BY <2>1, <2>2 DEF Prefix
  <2>4. ASSUME client = "HANDSHAKE"
        PROVE  /\ After(down', t) /\ t + Len(down') <= told + 1
               /\ broker /\ options.there => told + 1 = t + Len(down')
    <3>1. /\ After(down, t) /\ t + Len(down) <= told
          /\ broker /\ options.there => told = t + Len(down)
      BY <1>4, <2>2, <2>4 DEF Flowing, Downwards
    <3>2. PICK k \in Nat : k = Len(down)
      BY <2>1
    <3>3. CASE broker /\ options.there
      <4>1. down' = down \o Bytes(told + 1) /\ told + 1 = t + Len(down) + 1
        BY <1>1, <2>1, <3>1, <3>3
      <4>2. After(down', t) /\ Len(down') = Len(down) + 1
        <5> DEFINE m == told + 1
        <5>1. m = t + Len(down) + 1
          BY <4>1
        <5> HIDE DEF m
        <5>2. After(down \o Bytes(m), t) /\ Len(down \o Bytes(m)) = Len(down) + 1
          BY <2>1, <3>1, <5>1, AfterAppend
        <5> QED
          BY <4>1, <5>2 DEF m
      <4> QED
        BY <3>1, <3>2, <3>3, <4>2, <2>1
    <3>4. CASE ~(broker /\ options.there)
      <4>1. down' = down
        BY <1>1, <3>4
      <4> QED
        BY <3>1, <3>2, <3>4, <4>1, <2>1
    <3> QED
      BY <3>3, <3>4
  <2> QED
    BY <1>1, <1>4, <2>1, <2>2, <2>3, <2>4 DEF Downwards
<1> QED
  BY <1>1, <1>2, <1>3, <1>4 DEF Flowing

LEMMA FlowClientTalks ==
  ASSUME Bound, Careful, Flowing, ClientTalks
  PROVE  Flowing'
<1>1. /\ UNCHANGED <<env, down, client, buffer, state, options, broker, upstream, heard, taken, told>>
      /\ client = "HANDSHAKE" /\ said' = said + 1
      /\ up' = IF broker THEN up \o Bytes(said') ELSE up
  BY DEF ClientTalks, Careful
<1>2. upstream \in {"up", "ended"}
  BY <1>1 DEF Bound, Told, Joined
<1>3. Upwards'
  <2>1. /\ taken \in Seq(Nat) /\ Prefix(taken, said) /\ said \in Nat /\ up \in Seq(Piece)
        /\ state = "CONNECT"
    BY <1>2 DEF Flowing, Upwards, Bound, Typed
  <2>2. PICK t \in Nat : t = Len(taken)
    BY <2>1
  <2>3. Prefix(taken, said + 1)
    BY <2>1, <2>2 DEF Prefix
  <2>4. ASSUME upstream = "up"
        PROVE  /\ options.connect /\ ~options.locked
               /\ broker => After(up', t) /\ said + 1 = t + Len(up')
    <3>1. /\ options.connect /\ ~options.locked
          /\ broker => After(up, t) /\ said = t + Len(up)
      BY <2>2, <2>4 DEF Flowing, Upwards
    <3>2. CASE broker
      <4> DEFINE m == said + 1
      <4>1. m = t + Len(up) + 1
        BY <2>1, <3>1, <3>2
      <4>2. up' = up \o Bytes(m)
        BY <1>1, <3>2
      <4> HIDE DEF m
      <4>3. After(up \o Bytes(m), t) /\ Len(up \o Bytes(m)) = Len(up) + 1
        BY <2>1, <3>1, <3>2, <4>1, AfterAppend
      <4>4. PICK k \in Nat : k = Len(up)
        BY <2>1
      <4>5. m = t + k + 1 /\ Len(up') = k + 1
        BY <4>1, <4>2, <4>3, <4>4
      <4>6. m = t + Len(up')
        BY <4>5, <4>4
      <4> QED
        BY <3>1, <4>2, <4>3, <4>6 DEF m
    <3> QED
      BY <3>1, <3>2
  <2> QED
    BY <1>1, <1>2, <2>1, <2>2, <2>3, <2>4 DEF Upwards
<1>4. Negotiating'
  BY <1>1 DEF Negotiating, Early
<1>5. ~env.early => Downwards'
  BY <1>1 DEF Flowing, Downwards, Prefix, After
<1> QED
  BY <1>1, <1>3, <1>4, <1>5 DEF Flowing

LEMMA FlowEnds ==
  ASSUME Bound, Careful, Flowing, ServerEnds \/ Erase \/ ClientLeaves \/ ClientEnds
  PROVE  Flowing'
<1>1. CASE ServerEnds
  BY <1>1 DEF ServerEnds, CloseServer, Flowing, Negotiating, Early, Turn, Upwards, Downwards,
              Prefix, After
<1>2. CASE Erase
  <2>1. /\ UNCHANGED <<env, up, down, client, buffer, state, broker, said, heard, taken, told>>
        /\ options' = [options EXCEPT !.there = FALSE]
        /\ upstream' = IF upstream = "none" THEN "none" ELSE "ended"
    BY <1>2 DEF Erase
  <2>2. ~options'.there /\ options'.connect = options.connect /\ options'.locked = options.locked
    BY <2>1 DEF Bound, Typed
  <2>3. Negotiating'
    BY <2>1 DEF Flowing, Negotiating, Early, Turn
  <2>4. Upwards'
    BY <2>1, <2>2 DEF Flowing, Upwards, Prefix
  <2>5. ~env.early => Downwards'
    BY <2>1, <2>2 DEF Flowing, Downwards, Prefix, After
  <2> QED
    BY <2>1, <2>3, <2>4, <2>5 DEF Flowing
<1>3. CASE ClientLeaves \/ ClientEnds
  <2>1. /\ UNCHANGED <<env, state, options, broker, upstream, taken, told, said, heard, up, down,
                      buffer>>
        /\ client' \in {"left", "ended"}
    BY <1>3 DEF ClientLeaves, ClientEnds
  <2>2. Negotiating'
    BY <2>1 DEF Flowing, Negotiating, Early, Turn
  <2>3. Upwards'
    BY <2>1 DEF Flowing, Upwards, Prefix, After
  <2>4. ~env.early => Downwards'
    BY <2>1 DEF Flowing, Downwards, Prefix, After
  <2> QED
    BY <2>1, <2>2, <2>3, <2>4 DEF Flowing
<1> QED
  BY <1>1, <1>2, <1>3

LEMMA FlowStep ==
  ASSUME Bound, Flow, [Next]_vars
  PROVE  Flow'
<1>1. env' = env
  BY DEF Next, ServerRead, ClientRead, ServerEnds, Erase, UpstreamConnects, UpstreamEnds,
         UpstreamTalks, ClientTalks, ClientLeaves, ClientEnds, vars
<1> SUFFICES ASSUME Careful, Flowing PROVE Flowing'
  BY <1>1 DEF Flow, Careful, Whole
<1>2. CASE UNCHANGED vars
  BY <1>2 DEF vars, Flowing, Negotiating, Early, Turn, Upwards, Downwards, Prefix, After
<1>3. CASE Next
  BY <1>3, FlowServerRead, FlowClientRead, FlowUpstreamConnects, FlowUpstreamEnds,
     FlowUpstreamTalks, FlowClientTalks, FlowEnds DEF Next
<1> QED
  BY <1>2, <1>3

\* What is said in the tunnel arrives in order and without gaps on both ways, for any number of
\* words and any reads that end between messages, if the client waits for the answer to its
\* request and the upstream for the client.
THEOREM InOrderAlways == Spec => []InOrder
<1>1. Init => Bound
  BY BoundInit
<1>2. Init => Flow
  <2> SUFFICES ASSUME Init PROVE Flowing
    BY DEF Flow
  <2>1. Prefix(taken, said) /\ Prefix(heard, told) /\ <<>> \in Seq(Nat)
    BY DEF Init, Prefix
  <2> QED
    BY <2>1 DEF Init, Flowing, Negotiating, Turn, Asks, Upwards, Downwards
<1>3. Bound /\ Flow /\ [Next]_vars => Bound' /\ Flow'
  BY BoundStep, FlowStep
<1>4. Flow => InOrder
  BY DEF Flow, Flowing, Careful, Upwards, Downwards, InOrder
<1> QED
  BY <1>1, <1>2, <1>3, <1>4, PTL DEF Spec
=============================================================================
