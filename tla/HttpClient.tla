----------------------------- MODULE HttpClient -----------------------------
(***************************************************************************)
(* The client of HTTP/1.1 (client/web/http1.cpp): the queue of requests of *)
(* which one is on its way, the answers and what prepare() makes of them,  *)
(* redirects and challenges and the attempts they cost, and connections    *)
(* that end. The core below it (core/client.cpp) opens and closes.         *)
(*                                                                         *)
(* The server answers in the order in which the requests of a connection   *)
(* came; an answer arrives whole or in two parts. A callback and all it    *)
(* calls belongs to the step of the handler.                               *)
(***************************************************************************)
EXTENDS Integers, FiniteSetsExt, SequencesExt

CONSTANTS
  Sends,          \* the application sends the requests 1..Sends
  Attempts,      \* _attempts
  Drops,         \* how often the server closes without an answer
  Environments   \* see env

Requests == 1..Sends

Codes == {"good", "moved", "auth", "error", "interim"}

ASSUME HttpClientAssumption ==
  /\ Sends \in Nat \ {0} /\ Attempts \in Nat \ {0} /\ Drops \in Nat
  /\ \A e \in Environments :
       /\ DOMAIN e = {"alive", "redirects", "codes", "closing", "parts", "sends"}
       /\ e.codes \subseteq Codes /\ e.sends \in {"calm", "any"}

VARIABLES
  env,         \* the flags ALIVE and REDIRECTS; the answers of the server, may it close
               \* after one, come they in parts; when the application sends
  requests,    \* _requests: what send() queued, by its id
  attempt,     \* _attempt
  stopped,     \* _stopped
  bid,         \* is _bid set
  parser,      \* _http and _buffer: the answer of which a part was read, or None
  conn,        \* the connection of the core
  wire,        \* requests the server has yet to answer
  half,        \* the answer the server has sent one part of, or None
  drops,       \* times the server closed
  sent,        \* requests the application has sent
  ids,         \* what send() returned for each
  given,       \* requests that went with their connection
  submitted,   \* requests the server has received
  retries,     \* answers that made the client repeat a request
  results      \* calls of "complete"

vars == <<env, requests, attempt, stopped, bid, parser, conn, wire, half, drops, sent, ids,
          given, submitted, retries, results>>

None == [to |-> 0, code |-> "none", alive |-> TRUE]

Answers(r) ==
  [to : {r}, code : env.codes, alive : IF env.closing THEN BOOLEAN ELSE {TRUE}]

\* the state a handler starts from, and the one it ends with
Now ==
  [requests |-> requests, attempt |-> attempt, stopped |-> stopped, bid |-> bid,
   parser |-> parser, conn |-> conn, wire |-> wire, half |-> half, sent |-> sent, ids |-> ids,
   given |-> given, submitted |-> submitted, retries |-> retries, results |-> results]

Becomes(c) ==
  /\ requests' = c.requests /\ attempt' = c.attempt /\ stopped' = c.stopped /\ bid' = c.bid
  /\ parser' = c.parser /\ conn' = c.conn /\ wire' = c.wire /\ half' = c.half
  /\ sent' = c.sent /\ ids' = c.ids /\ given' = c.given /\ submitted' = c.submitted
  /\ retries' = c.retries /\ results' = c.results

First(c) == Min(DOMAIN c.requests)

Queued(c) == {c.requests[i] : i \in DOMAIN c.requests}

Count(c) == Cardinality(DOMAIN c.requests)

(***************************************************************************)
(* submit(): what was read of an answer is forgotten, and the request goes *)
(* out, if there is a connection.                                          *)
(***************************************************************************)
Submit(c, r) ==
  IF ~c.bid THEN c
  ELSE LET reset == [c EXCEPT !.stopped = FALSE, !.parser = None]
       IN IF c.conn # "up" THEN reset
          ELSE [reset EXCEPT !.wire = Append(@, r), !.submitted = Append(@, r)]

(***************************************************************************)
(* disconnectEvent(), called by the core when a connection has ended.      *)
(***************************************************************************)
Redirected(c) ==
  /\ env.redirects /\ ~c.stopped /\ DOMAIN c.requests # {}
  /\ c.parser.code \in {"auth", "moved"}

Disconnect(c) ==
  LET ended == [c EXCEPT !.wire = <<>>, !.half = None]
      cleared == [ended EXCEPT !.requests = <<>>, !.given = @ \cup Queued(c)]
  IN IF Redirected(c) THEN [ended EXCEPT !.attempt = @ + 1, !.conn = "opening",
                              !.retries = Append(@, c.requests[First(c)])]
     ELSE IF env.alive THEN [cleared EXCEPT !.conn = "opening"]
     ELSE [cleared EXCEPT !.stopped = FALSE, !.bid = FALSE, !.conn = "down"]

CloseCore(c) == IF c.conn = "up" THEN Disconnect(c) ELSE c

(***************************************************************************)
(* send(): the id is the length of the queue plus one.                     *)
(***************************************************************************)
Send(c, n) ==
  IF c.attempt = 0
  THEN LET id == Count(c) + 1
           queue == IF id \in DOMAIN c.requests THEN c.requests
                    ELSE [i \in DOMAIN c.requests \cup {id} |->
                            IF i = id THEN n ELSE c.requests[i]]
           kept == [c EXCEPT !.requests = queue, !.ids[n] = id, !.sent = n]
       IN IF Count(kept) = 1 THEN Submit(kept, n) ELSE kept
  ELSE IF DOMAIN c.requests # {}
  THEN Submit([c EXCEPT !.ids[n] = IF n > c.sent THEN Count(c) ELSE @, !.sent = n],
              c.requests[First(c)])
  ELSE CloseCore([c EXCEPT !.sent = n])

\* a calm application is connected, and what it has sent is answered, or nothing of it is
MaySend(c) ==
  /\ c.sent < Sends /\ c.conn # "astray"
  /\ env.sends = "calm" =>
       /\ c.conn = "up"
       /\ DOMAIN c.requests = {} \/ (c.attempt = 0 /\ DOMAIN c.requests = 1..Count(c))

\* what a callback of the application may do
Callback(c) == {c} \cup (IF MaySend(c) THEN {Send(c, c.sent + 1)} ELSE {})

(***************************************************************************)
(* readEvent() with a whole answer; prepare().                             *)
(***************************************************************************)
Retry(a) == a.code = "auth" \/ (a.code = "moved" /\ env.redirects)

Fault(a) == a.code = "error"

\* a plausible slip: the id of the youngest request is taken
ResultLast(c, a) ==
  LET id == Max(DOMAIN c.requests)
  IN [c EXCEPT !.results = Append(@, [request |-> c.requests[id], answer |-> a.to]),
               !.requests = [i \in DOMAIN @ \ {id} |-> @[i]]]

\* the callbacks of the request, and result()
Result(c, a) ==
  LET id == First(c)
  IN [c EXCEPT !.results = Append(@, [request |-> c.requests[id], answer |-> a.to]),
               !.requests = [i \in DOMAIN @ \ {id} |-> @[i]]]

\* the request is repeated: on this connection, or after close() on the next
Repeat(c, a, here) ==
  LET r == c.requests[First(c)]
  IN IF a.alive /\ here
     THEN Submit([c EXCEPT !.attempt = @ + 1, !.retries = Append(@, r)], r)
     ELSE CloseCore([c EXCEPT !.stopped = FALSE])

\* what prepare() makes of an answer that is not repeated
Prepared(c, a) ==
  IF Retry(a) THEN CloseCore(Result([c EXCEPT !.stopped = TRUE], a))
  ELSE IF Fault(a) THEN Result([c EXCEPT !.stopped = TRUE], a)
  ELSE LET told == Result([c EXCEPT !.attempt = 0], a)
       IN IF a.alive THEN told ELSE CloseCore(told)

\* a plausible slip: the next request waits for the next send()
FinishedIdle(c, a) == [c EXCEPT !.parser = None]

\* a plausible slip: submit() in a callback is not noticed
FinishedTwice(c, a) ==
  LET done == [c EXCEPT !.parser = None]
  IN IF a.code # "interim" /\ c.bid /\ DOMAIN c.requests # {}
     THEN Submit(done, c.requests[First(c)]) ELSE done

\* after the callbacks: the parser is cleared, and the next request goes out. submit() in a
\* callback has cleared it before
Finished(c, a) ==
  LET done == [c EXCEPT !.parser = None]
  IN IF c.parser.code \notin {"none", "interim"} /\ c.bid /\ DOMAIN c.requests # {}
     THEN Submit(done, c.requests[First(c)]) ELSE done

\* a plausible slip: one attempt more
CompletedMore(c, a) ==
  IF Retry(a) /\ c.attempt <= Attempts
  THEN {Repeat(c, a, here) : here \in IF a.code = "moved" THEN BOOLEAN ELSE {TRUE}}
  ELSE {Finished(d, a) : d \in Callback(Prepared(c, a))}

\* where readEvent() with an answer may end
Completed(c, a) ==
  IF Retry(a) /\ c.attempt < Attempts
  THEN {Repeat(c, a, here) : here \in IF a.code = "moved" THEN BOOLEAN ELSE {TRUE}}
  ELSE {Finished(d, a) : d \in Callback(Prepared(c, a))}

(***************************************************************************)
(* The steps.                                                              *)
(***************************************************************************)
Init ==
  /\ env \in Environments
  /\ requests = <<>> /\ attempt = 0 /\ stopped = FALSE /\ bid = FALSE /\ parser = None
  /\ conn = "opening" /\ wire = <<>> /\ half = None /\ drops = 0
  /\ sent = 0 /\ ids = [n \in Requests |-> 0] /\ given = {}
  /\ submitted = <<>> /\ retries = <<>> /\ results = <<>>

\* connectEvent(); in "active" the application sends, again if it must
Connect ==
  /\ conn = "opening"
  /\ LET c == [Now EXCEPT !.conn = "up", !.bid = TRUE]
     IN Becomes(IF attempt > 0 /\ DOMAIN requests # {} THEN Send(c, sent)
                ELSE IF sent < Sends THEN Send(c, sent + 1) ELSE c)
  /\ UNCHANGED <<env, drops>>

AppSend ==
  /\ MaySend(Now)
  /\ Becomes(Send(Now, sent + 1))
  /\ UNCHANGED <<env, drops>>

\* the answer leaves the wire, unless it is an interim one
Answered(a) == IF a.code = "interim" THEN wire ELSE Tail(wire)

\* without a request on its way nothing that comes is looked at
Receive(a) ==
  \E c \in {[Now EXCEPT !.wire = Answered(a), !.half = None]} :
    IF DOMAIN requests = {} THEN Becomes(c)
    ELSE \E d \in Completed([c EXCEPT !.parser = a], a) : Becomes(d)

\* an interim answer comes at most once for a request
MayAnswer(a) ==
  a.code = "interim" => ~\E k \in DOMAIN results : results[k].answer = a.to

Answer ==
  /\ conn = "up" /\ half = None /\ wire # <<>>
  /\ \E a \in Answers(Head(wire)) : MayAnswer(a) /\ Receive(a)
  /\ UNCHANGED <<env, drops>>

\* the header of an answer, and the rest of it
FirstPart ==
  /\ env.parts /\ conn = "up" /\ half = None /\ wire # <<>>
  /\ \E a \in Answers(Head(wire)) :
       /\ a.code # "interim" /\ half' = a
       /\ parser' = IF DOMAIN requests = {} THEN parser ELSE a
  /\ UNCHANGED <<env, requests, attempt, stopped, bid, conn, wire, drops, sent, ids, given,
                 submitted, retries, results>>

SecondPart ==
  /\ conn = "up" /\ half # None /\ (parser = half \/ DOMAIN requests = {})
  /\ Receive(half)
  /\ UNCHANGED <<env, drops>>

\* the rest of an answer whose header was forgotten: what the parser reads is arbitrary
Astray ==
  /\ conn = "up" /\ half # None /\ parser # half /\ DOMAIN requests # {}
  /\ conn' = "astray"
  /\ UNCHANGED <<env, requests, attempt, stopped, bid, parser, wire, half, drops, sent, ids,
                 given, submitted, retries, results>>

Drop ==
  /\ conn = "up" /\ drops < Drops /\ drops' = drops + 1
  /\ Becomes(Disconnect(Now))
  /\ UNCHANGED env

Next == Connect \/ AppSend \/ Answer \/ FirstPart \/ SecondPart \/ Astray \/ Drop

Spec == Init /\ [][Next]_vars

\* connections open, and the server answers what it has received
FairSpec == Spec /\ WF_vars(Connect) /\ WF_vars(Answer) /\ WF_vars(SecondPart)
-----------------------------------------------------------------------------
\* The shape of the state: what is queued was sent and has an id no longer than the
\* requests; nothing is under way on a connection that is not up.
TypeOK ==
  /\ env \in Environments /\ conn \in {"down", "opening", "up", "astray"}
  /\ DOMAIN requests \subseteq Requests /\ Queued(Now) \subseteq 1..sent /\ sent \in 0..Sends
  /\ attempt \in Nat /\ stopped \in BOOLEAN /\ bid \in BOOLEAN /\ drops \in 0..Drops
  /\ half # None => wire # <<>> /\ half.to = Head(wire)
  /\ conn \in {"down", "opening"} => wire = <<>>
  /\ conn = "down" => ~bid

Calm == env.sends = "calm" /\ "interim" \notin env.codes

Ended(n) == n \in given \/ \E k \in DOMAIN results : results[k].request = n

\* The application is told of each request with the answer to that request, once and in
\* the order it sent them (prepare(), http1.cpp:622).
OwnAnswers ==
  Calm => /\ \A k \in DOMAIN results : results[k].answer = results[k].request
          /\ \A j, k \in DOMAIN results : j < k => results[j].request < results[k].request

Times(r, s) == Cardinality({k \in DOMAIN s : s[k] = r})

\* The server receives a request once, and once more for each answer or each end of a
\* connection that made the client repeat it.
NoDuplicates ==
  Calm => \A r \in Requests : Times(r, submitted) <= 1 + Times(r, retries)

\* No request is repeated more than Attempts times, apart from connections that the server
\* closed (prepare(), http1.cpp:658).
AttemptsEnd == \A r \in Requests : Times(r, retries) <= Attempts + drops

\* What send() gave an id is queued until it is answered or its connection has ended.
Kept == \A n \in Requests : ids[n] > 0 => n \in Queued(Now) \/ Ended(n)

\* Kept for a calm application.
KeptCalm == Calm => Kept

\* When all is answered the next request can be sent: send() does not take it for a repeat
\* and close the connection (http1.cpp:1033).
CanSend == conn = "up" /\ DOMAIN requests = {} => attempt = 0

\* Every request that send() took is answered, or its connection ends.
Finishes == \A n \in Requests : Calm /\ ids[n] > 0 ~> Ended(n)
=============================================================================
