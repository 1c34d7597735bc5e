----------------------------- MODULE HttpServer -----------------------------
(***************************************************************************)
(* The server of HTTP/1.1: readEvents() and send() of server/web/http1.cpp *)
(* and the parser under them, Http::parse() (http/core.cpp) and the class  *)
(* Web (http/web.cpp) with its states for the query, the headers, a body   *)
(* of a length and a body of chunks.                                       *)
(*                                                                         *)
(* The client sends one program of requests. The stream is counted in      *)
(* marks: "query" and "header" are lines with their ends, "x" is a byte of *)
(* data, "cr" and "lf" are the bytes they name, a digit is the size of a   *)
(* chunk. A read ends after any mark; since lines are parsed when they are *)
(* whole, to end inside of one is to end before it.                        *)
(***************************************************************************)
EXTENDS Integers, SequencesExt

CONSTANTS
  MaxRequests,   \* _maxRequests, 0 for no limit
  Environments   \* see env

Digits == <<"1", "2", "3">>

Requests ==
  [body : {"none", "length", "chunks"}, sizes : Seq(DOMAIN Digits), closes : BOOLEAN]

ASSUME HttpServerAssumption ==
  /\ MaxRequests \in Nat
  /\ \A e \in Environments :
       /\ DOMAIN e = {"program", "pipelines", "cuts", "keeps", "answers", "pings"}
       /\ e.program \in Seq(Requests)
       /\ e.pipelines \in BOOLEAN /\ e.keeps \in BOOLEAN /\ e.pings \in BOOLEAN
       /\ e.cuts \in {"usual", "anywhere"}
       /\ e.answers \in {"at once", "in parts", "later", "later in parts"}

VARIABLES
  env,         \* the requests; does the client send one before the last is answered;
               \* may a read end before the blank line; do the callbacks of the
               \* application leave the body to the library; how it answers; is there
               \* the timer of pings
  stream,      \* what the client sends
  got,         \* marks received
  start,       \* marks taken from the buffer; it holds those in between
  parser,      \* the state of Web
  good,        \* is the state of Http GOOD
  delivered,   \* calls of "complete": the request, and the marks of its body
  answered,    \* requests that were answered
  close,       \* options->close
  stopped,     \* options->stopped
  conn         \* the connection

httpVars == <<env, stream, got, start, parser, good, delivered, answered, close, stopped, conn>>

(***************************************************************************)
(* The stream.                                                             *)
(***************************************************************************)
Line(k, c) == <<[of |-> k, mark |-> c, data |-> FALSE]>>

\* the second byte of data is a line feed
Data(k, n) == [j \in 1..n |-> [of |-> k, mark |-> IF j = 2 THEN "lf" ELSE "x", data |-> TRUE]]

Crlf(k) == Line(k, "cr") \o Line(k, "lf")

Pieces(k, sizes) == FlattenSeq([j \in DOMAIN sizes |-> Data(k, sizes[j])])

Chunk(k, n) == Line(k, Digits[n]) \o Crlf(k) \o Data(k, n) \o Crlf(k)

Chunks(k, sizes) ==
  FlattenSeq([j \in DOMAIN sizes |-> Chunk(k, sizes[j])]) \o Line(k, "0") \o Crlf(k) \o Crlf(k)

Headers(k) == Line(k, "query") \o Line(k, "header") \o Crlf(k)

Payload(k, r) ==
  CASE r.body = "none" -> <<>>
    [] r.body = "length" -> Pieces(k, r.sizes)
    [] r.body = "chunks" -> Chunks(k, r.sizes)

Encode(k, r) == Headers(k) \o Payload(k, r)

Stream(program) == FlattenSeq([k \in DOMAIN program |-> Encode(k, program[k])])

Mark(o) == stream[o].mark
Total == Len(stream)

\* where request k ends
Ends(k) == Max({0} \cup {o \in 1..Total : stream[o].of <= k})

\* what a request announces
Length(k) == Len(Pieces(k, env.program[k].sizes))

\* a read that ends before the blank line or inside it
BeforeBlank(o) ==
  o < Total /\ (Mark(o) = "header" \/ (o > 1 /\ Mark(o - 1) = "header"))

(***************************************************************************)
(* Web. An END by error, or a line it takes for one it is not, are astray: *)
(* what follows is arbitrary.                                              *)
(***************************************************************************)
Fresh == [stage |-> "size", size |-> 0, data |-> <<>>]

Begin ==
  [state |-> "query", of |-> 0, length |-> -1, header |-> 0, chunk |-> Fresh, body |-> <<>>,
   astray |-> FALSE]

\* {F(r) : r \in {x}} evaluates x once
Only(S) == CHOOSE s \in S : TRUE

Marks(a, b) == [i \in 1..(b - a) |-> a + i]

\* "binary": the body is kept by the library, or the application takes the piece
Binary(p, data) == [p EXCEPT !.body = @ \o data]

Kept(p) == IF env.keeps THEN Len(p.body) ELSE 0

\* the headers are complete; those of a request that has no query are astray
HeadersEnd(p) ==
  IF p.of = 0 THEN [p EXCEPT !.astray = TRUE]
  ELSE IF p.header = 0 \/ env.program[p.of].body = "none" THEN [p EXCEPT !.state = "end"]
  ELSE IF env.program[p.of].body = "chunks" THEN [p EXCEPT !.state = "body"]
  ELSE LET n == Length(p.of)
       IN [p EXCEPT !.length = n,
                    !.state = IF n = 0 /\ ~env.program[p.of].closes THEN "end" ELSE "body"]

\* a line of the query or of a header
LineRead(p, o) ==
  LET k == stream[o].of
  IN IF p.state = "query" /\ Mark(o) = "query"
     THEN [p EXCEPT !.state = "headers", !.of = k]
     ELSE IF p.state = "headers" /\ Mark(o) = "header"
     THEN [p EXCEPT !.header = k]
     ELSE [p EXCEPT !.astray = TRUE]

EndsLine(o) == Mark(o) \in {"query", "header", "lf"}

\* one letter of prepare(); r.old tells of the letter before, `line' begins the buffer
PrepareLetter(r, o) ==
  LET stop == r.stop \/ (r.old = "line" /\ Mark(o) = "cr")
      old == IF EndsLine(o) THEN "line" ELSE IF Mark(o) = "cr" THEN
               (IF r.old \in {"line", "begin"} THEN "blank" ELSE "cr") ELSE "x"
  IN IF r.done THEN r
     ELSE IF r.stop /\ EndsLine(o)
     THEN [r EXCEPT !.p = HeadersEnd(@), !.taken = o, !.done = TRUE]
     ELSE IF ~EndsLine(o) THEN [r EXCEPT !.stop = stop, !.old = old]
     ELSE IF r.old = "blank" /\ Mark(o) = "lf"
     THEN LET end == r.p.state \in {"headers", "body"}
          IN [r EXCEPT !.stop = end, !.old = old, !.taken = o,
                       !.p = IF end THEN HeadersEnd(@) ELSE @]
     ELSE [r EXCEPT !.p = LineRead(@, o), !.taken = o, !.old = old]

\* readHeaders() of the marks after a to b
ReadHeaders(p, a, b) ==
  LET run[i \in 0..(b - a)] ==
        IF i = 0
        THEN [p |-> p, taken |-> a, stop |-> FALSE, old |-> "begin", done |-> FALSE]
        ELSE Only({PrepareLetter(r, a + i) : r \in {run[i - 1]}})
  IN run[b - a]

\* a body of a length
ReadLength(p, a, b) ==
  LET n == IF p.length = 0 THEN b - a ELSE Min({b - a, p.length - Kept(p)})
      q == Binary([p EXCEPT !.chunk.size = IF p.length = 0 THEN @ ELSE @ + n], Marks(a, a + n))
  IN [p |-> IF p.length # 0 /\ q.chunk.size = p.length
            THEN [q EXCEPT !.state = "end", !.chunk = Fresh] ELSE q,
      taken |-> a + n]

\* label Stop
StopAt(r, o, error) ==
  [r EXCEPT !.p.chunk = Fresh, !.p.state = "end", !.p.astray = @ \/ error,
            !.taken = o, !.done = TRUE]

\* the size of a chunk; of other letters atoi() makes some number
SizeOf(data) ==
  IF Len(data) = 1 /\ Mark(data[1]) \in {"0"} \cup Range(Digits)
  THEN IF Mark(data[1]) = "0" THEN 0 ELSE CHOOSE n \in DOMAIN Digits : Digits[n] = Mark(data[1])
  ELSE -1

SizeLetter(r, o) ==
  IF Mark(o) = "cr"
  THEN [r EXCEPT !.taken = o, !.p.astray = @ \/ SizeOf(r.p.chunk.data) = -1,
          !.p.chunk = [stage |-> "end_size", size |-> SizeOf(r.p.chunk.data), data |-> <<>>]]
  ELSE [r EXCEPT !.taken = o, !.p.chunk.data = Append(@, o)]

EndSizeLetter(r, o, b) ==
  LET size == r.p.chunk.size
  IN IF Mark(o) # "lf" THEN StopAt(r, o, TRUE)
     ELSE IF size <= 0 THEN [r EXCEPT !.taken = o, !.p.chunk.stage = "stop_body"]
     ELSE IF b - o >= size
     THEN [r EXCEPT !.taken = o + size, !.p.chunk.stage = "stop_body",
                    !.p.chunk.data = Marks(o, o + size)]
     ELSE [r EXCEPT !.taken = b, !.p.chunk.stage = "body", !.p.chunk.data = Marks(o, b)]

\* a plausible slip: what earlier reads gave of the chunk is not counted
BodyPartWhole(r, a, b) ==
  IF b - a >= r.p.chunk.size
  THEN [r EXCEPT !.taken = a + r.p.chunk.size, !.p.chunk.stage = "stop_body",
                 !.p.chunk.data = @ \o Marks(a, a + r.p.chunk.size)]
  ELSE [r EXCEPT !.taken = b, !.p.chunk.data = @ \o Marks(a, b)]

\* the rest of a chunk, or a part of the rest, from the beginning of the buffer
BodyPart(r, a, b) ==
  LET rest == r.p.chunk.size - Len(r.p.chunk.data)
  IN IF b - a >= rest
     THEN [r EXCEPT !.taken = a + rest, !.p.chunk.stage = "stop_body",
                    !.p.chunk.data = @ \o Marks(a, a + rest)]
     ELSE [r EXCEPT !.taken = b, !.p.chunk.data = @ \o Marks(a, b)]

StopBodyLetter(r, o) ==
  IF Mark(o) # "cr" THEN StopAt(r, o, TRUE)
  ELSE [r EXCEPT !.taken = o, !.p.chunk.stage = "end_body"]

EndBodyLetter(r, o) ==
  IF Mark(o) # "lf" THEN StopAt(r, o, TRUE)
  ELSE IF r.p.chunk.size <= 0 THEN StopAt(r, o, FALSE)
  ELSE [r EXCEPT !.taken = o, !.p = [Binary(@, @.chunk.data) EXCEPT !.chunk = Fresh]]

\* one letter of a body of chunks; the data of a chunk were jumped over
ChunkLetter(r, o, a, b) ==
  IF r.done \/ o <= r.taken THEN r
  ELSE CASE r.p.chunk.stage = "size" -> SizeLetter(r, o)
         [] r.p.chunk.stage = "end_size" -> EndSizeLetter(r, o, b)
         [] r.p.chunk.stage = "body" -> BodyPart(r, a, b)
         [] r.p.chunk.stage = "stop_body" -> StopBodyLetter(r, o)
         [] r.p.chunk.stage = "end_body" -> EndBodyLetter(r, o)

ReadChunks(p, a, b) ==
  LET run[i \in 0..(b - a)] ==
        IF i = 0 THEN [p |-> p, taken |-> a, done |-> FALSE]
        ELSE Only({ChunkLetter(r, a + i, a, b) : r \in {run[i - 1]}})
  IN run[b - a]

ReadPayload(p, a, b) ==
  LET r == IF p.length > -1 THEN ReadLength(p, a, b) ELSE ReadChunks(p, a, b)
  IN [p |-> r.p, taken |-> r.taken]

\* Web::parse() of the marks after a to b
Parse(p, a, b) ==
  IF p.state = "body" THEN ReadPayload(p, a, b)
  ELSE LET r == ReadHeaders(p, a, b)
       IN IF r.p.state = "body" /\ r.taken < b THEN ReadPayload(r.p, r.taken, b)
          ELSE [p |-> r.p, taken |-> r.taken]

(***************************************************************************)
(* The application answers: with one call, which empties the buffer, or    *)
(* with one for the headers and one for the body, which does not.          *)
(***************************************************************************)
AtOnce == env.answers \in {"at once", "later"}

Closes(k) == env.program[k].closes

\* a plausible slip: the state of Http stays, only the parser is cleared
RespondKeeps(k, taken) ==
  /\ start' = IF AtOnce THEN got ELSE taken
  /\ parser' = [Begin EXCEPT !.of = k] /\ good' = TRUE
  /\ answered' = k /\ stopped' = Closes(k)

Respond(k, taken) ==
  /\ start' = IF AtOnce THEN got ELSE taken
  /\ parser' = Begin /\ good' = FALSE
  /\ answered' = k /\ stopped' = Closes(k)

RespondLater ==
  /\ conn = "open" /\ good
  /\ Respond(parser.of, start)
  /\ UNCHANGED <<env, stream, got, delivered, close, conn>>

(***************************************************************************)
(* readEvents().                                                           *)
(***************************************************************************)
MayRead(o) ==
  /\ env.cuts = "usual" => ~BeforeBlank(o)
  /\ ~env.pipelines /\ answered < Len(env.program) => o <= Ends(answered + 1)

Receive(o) ==
  /\ conn = "open" /\ got < o /\ MayRead(o) /\ got' = o
  /\ conn' = IF close THEN "closed" ELSE "loop"
  /\ UNCHANGED <<env, stream, start, parser, good, delivered, answered, close, stopped>>

\* a request is complete
Handle(r) ==
  /\ delivered' = Append(delivered, [request |-> r.p.of, body |-> r.p.body])
  /\ close' = (MaxRequests > 0 /\ Len(delivered') >= MaxRequests)
  /\ IF env.answers \in {"at once", "in parts"} THEN Respond(r.p.of, r.taken)
     ELSE /\ parser' = r.p /\ good' = TRUE /\ start' = r.taken
          /\ UNCHANGED <<answered, stopped>>

\* label Next
GoOn(n) == conn' = IF n > 0 /\ start' < got /\ ~close' THEN "loop" ELSE "open"

\* one pass of the loop
Iterate ==
  /\ conn = "loop" /\ UNCHANGED <<env, stream, got>>
  /\ \E r \in {IF good THEN [p |-> parser, taken |-> start] ELSE Parse(parser, start, got)} :
     LET n == r.taken - start
     IN IF r.p.astray
        THEN /\ conn' = "astray"
             /\ UNCHANGED <<start, parser, good, delivered, answered, close, stopped>>
        ELSE /\ IF n > 0 /\ r.p.state = "end" THEN Handle(r)
                ELSE /\ start' = r.taken /\ parser' = r.p
                     /\ UNCHANGED <<good, delivered, answered, close, stopped>>
             /\ GoOn(n)

\* is(ALIVE): the headers of the request, or of the answer
Alive == ~stopped /\ (parser.header > 0 => ~Closes(parser.header))

\* a plausible slip: it closes whatever is not to be kept alive
WrittenAlive ==
  /\ conn = "open" /\ ~Alive /\ ~close
  /\ close' = TRUE /\ conn' = "closed"
  /\ UNCHANGED <<env, stream, got, start, parser, good, delivered, answered, stopped>>

\* writeEvents(): the answer is written
Written ==
  /\ conn = "open" /\ stopped /\ ~close
  /\ close' = TRUE /\ conn' = "closed"
  /\ UNCHANGED <<env, stream, got, start, parser, good, delivered, answered, stopped>>

\* pinging(), called by the timer
Pinging ==
  /\ env.pings /\ conn = "open" /\ (close \/ ~Alive)
  /\ conn' = "closed"
  /\ UNCHANGED <<env, stream, got, start, parser, good, delivered, answered, close, stopped>>

HttpInit ==
  /\ env \in Environments /\ stream = Stream(env.program)
  /\ got = 0 /\ start = 0 /\ parser = Begin /\ good = FALSE
  /\ delivered = <<>> /\ answered = 0 /\ close = FALSE /\ stopped = FALSE /\ conn = "open"

HttpNext ==
  \/ \E o \in 1..Total : Receive(o)
  \/ Iterate \/ RespondLater \/ Written \/ Pinging

HttpSpec == HttpInit /\ [][HttpNext]_httpVars

\* what the client has sent comes, the loop goes on, the application answers
HttpFairSpec ==
  /\ HttpSpec
  /\ WF_httpVars(\E o \in 1..Total : Receive(o)) /\ WF_httpVars(Iterate)
  /\ WF_httpVars(RespondLater)
-----------------------------------------------------------------------------
\* The shape of the state: the buffer is not ahead of the stream, the chunk that is read
\* is not longer than its size, and answers follow requests.
HttpTypeOK ==
  /\ env \in Environments /\ got \in 0..Total /\ start \in 0..got
  /\ parser.state \in {"query", "headers", "body", "end"} /\ ~parser.astray
  /\ parser.chunk.stage \in {"size", "end_size", "body", "stop_body", "end_body"}
  /\ parser.chunk.stage \in {"body", "stop_body"} =>
       Len(parser.chunk.data) <= parser.chunk.size
  /\ conn \in {"open", "loop", "closed", "astray"}
  /\ answered \in 0..Len(delivered)
  /\ good <=> answered < Len(delivered)

\* the data of request k
DataOf(k) == {o \in 1..Total : stream[o].of = k /\ stream[o].data}

\* The parser is where a request begins when it looks for one, and the application gets the
\* requests of the client in their order, none left out, each with its own body: every byte
\* of it, once, in the order of the stream, and none of another.
AsSent ==
  /\ conn # "astray"
  /\ \A j \in DOMAIN delivered :
       /\ delivered[j].request = j /\ Range(delivered[j].body) = DataOf(j)
       /\ \A i, n \in DOMAIN delivered[j].body : i < n => delivered[j].body[i] < delivered[j].body[n]

\* reads that do not end before a blank line; requests one after the other, or an
\* application that answers in parts and leaves the bodies to the library
Careful ==
  env.cuts = "usual" /\ (env.pipelines => env.keeps /\ env.answers \in {"in parts", "later in parts"})

\* AsSent, wherever else the reads end (Web::parse(), web.cpp:1359).
AsSentCareful == Careful => AsSent

\* a request of no body that says so and ends the connection
Endless(k) == env.program[k].body = "length" /\ env.program[k].sizes = <<>> /\ Closes(k)

\* When a read is done with, no whole request is left in the buffer, unless one before it
\* was answered after its read (readEvents(), http1.cpp:184).
NothingHeldBack ==
  conn = "open" /\ Careful /\ ~(env.pipelines /\ env.answers = "later in parts") /\ ~close =>
    \A k \in DOMAIN env.program :
      Ends(k) <= got /\ ~Endless(k) => \E j \in DOMAIN delivered : delivered[j].request = k

ClosesLast == \A k \in DOMAIN env.program : Closes(k) => k = Len(env.program)

\* The server closes a connection only when it has answered every request it has read of it;
\* without the timer of pings, and for a client that waits for an answer before the next
\* request and sends none after one that says it ends the connection (writeEvents(), http1.cpp:498).
ClosesAfter ==
  conn = "closed" /\ ~env.pings /\ ~env.pipelines /\ ClosesLast =>
    answered = Len(delivered) /\ ~good

Awaited ==
  /\ Careful /\ ~(env.pipelines /\ env.answers = "later in parts")
  /\ \A k \in DOMAIN env.program : ~Endless(k)

\* Every request is answered, or the server closes the connection.
Answers == Awaited ~> answered = Len(env.program) \/ conn = "closed"
=============================================================================
