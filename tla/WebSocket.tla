----------------------------- MODULE WebSocket -----------------------------
(***************************************************************************)
(* WebSocket over HTTP/1.1: readEvents() of the server (server/web/ws1.cpp)*)
(* and readEvent() with prepare() of the client (client/web/ws1.cpp), the  *)
(* frame parser ws::Frame::get() (ws/frame.cpp), and extraction(), called  *)
(* in the loop or by the threads of a pool (sys/threadpool.hpp).           *)
(*                                                                         *)
(* The peer sends one program of frames. The stream is counted in bytes: a *)
(* handshake of one byte, then of each frame two bytes of header, four of  *)
(* mask (to the server) and the payload; a read ends at any byte. What the *)
(* reader holds are the bytes from `start' to `got'. An iteration of its   *)
(* loop is one action, between the actions of the pool's threads.          *)
(***************************************************************************)
EXTENDS Integers, SequencesExt

CONSTANTS
  Workers,       \* threads of the pool
  Environments   \* see env

Ops == {"TEXT", "CONTINUATION", "PING", "PONG", "CLOSE"}

ASSUME WebSocketAssumption ==
  /\ IsFiniteSet(Workers)
  /\ \A e \in Environments :
       /\ DOMAIN e = {"program", "side", "threads", "cuts", "early", "resizes"}
       /\ e.program \in Seq([op : Ops, fin : BOOLEAN, rsv : BOOLEAN, size : 0..125])
       /\ e.side \in {"server", "client"} /\ e.threads \subseteq Workers

VARIABLES
  env,         \* the frames of the peer; who reads; the threads of the pool that run;
               \* may a read end inside a control frame; do frames come with the
               \* handshake; may the application set up the pool anew
  got,         \* bytes received
  start,       \* bytes taken from the buffer; it holds those in between
  stage,       \* where readEvents() is
  head,        \* the head_t of the loop
  receive,     \* receive of the loop
  fragments,   \* frames of a message that has not ended
  inflate,     \* _inflate
  tasks,       \* _tasks of the pool
  running,     \* the task of each thread
  delivered    \* calls of "messageWebsocket": frames, and how they were extracted

vars == <<env, got, start, stage, head, receive, fragments, inflate,
          tasks, running, delivered>>

pool == <<tasks, running>>

(***************************************************************************)
(* The stream.                                                             *)
(***************************************************************************)
program == env.program

Mask == IF env.side = "server" THEN 4 ELSE 0

\* where frame k ends
Ends[k \in Nat] == IF k = 0 THEN 1 ELSE Ends[k - 1] + 2 + Mask + program[k].size

Total == Ends[Len(program)]

Control(op) == op \in {"PING", "PONG", "CLOSE"}

\* the frame that begins at an offset, or 0 inside of one
FrameAt(o) ==
  IF \E k \in DOMAIN program : Ends[k - 1] = o
  THEN CHOOSE k \in DOMAIN program : Ends[k - 1] = o ELSE 0

\* where a read may end
MayCut(o) ==
  env.cuts = "anywhere" \/ ~\E k \in DOMAIN program :
     Control(program[k].op) /\ Ends[k - 1] < o /\ o < Ends[k]

(***************************************************************************)
(* Frame::get(): the head of what the buffer begins with, if it holds two  *)
(* bytes; else the head is what it was.                                    *)
(***************************************************************************)
NoHead == [op |-> "TEXT", fin |-> TRUE, rsv |-> FALSE, size |-> 0, payload |-> 0, frame |-> 0,
           masked |-> 4, bad |-> FALSE]

HeadOf(k) ==
  [op |-> program[k].op, fin |-> program[k].fin, rsv |-> program[k].rsv, size |-> 2,
   payload |-> program[k].size, frame |-> 0, masked |-> Mask, bad |-> FALSE]

Malformed(h) ==
  \/ h.payload = 0 /\ ~Control(h.op)
  \/ h.rsv /\ (Control(h.op) \/ h.op = "CONTINUATION")
  \/ ~h.fin /\ Control(h.op)

Get ==
  LET size == got - start
      h == IF size < 2 THEN head ELSE HeadOf(FrameAt(start))
      whole == h.size + h.masked + h.payload <= size
  IN [h EXCEPT !.bad = whole /\ Malformed(h),
               !.frame = IF whole THEN h.size + h.masked + h.payload ELSE h.size]

HasPayload(h) == h.frame > h.size /\ h.payload > 0 /\ ~h.bad

(***************************************************************************)
(* The pool: push() while it is not being stopped, work(), stop().         *)
(***************************************************************************)
Idle == <<>>
Out == <<0>>

Pooled == env.threads # {}

Push(m) == tasks' = Append(tasks, m) /\ UNCHANGED <<running, delivered>>

Extraction(m) == delivered' = Append(delivered, [frames |-> m, inflate |-> inflate'])

\* a plausible slip: the buffer of the fragments is handed over by reference
\* and emptied before the thread looks at it
HandOverLate(m) ==
  IF Pooled THEN Push(SubSeq(m, 1, 1)) ELSE Extraction(m) /\ UNCHANGED pool

HandOver(m) == IF Pooled THEN Push(m) ELSE Extraction(m) /\ UNCHANGED pool

\* a plausible slip: the task pushed last is taken first
TakeLast(w) ==
  /\ w \in env.threads /\ running[w] = Idle /\ tasks # <<>>
  /\ running' = [running EXCEPT ![w] = Last(tasks)]
  /\ tasks' = Front(tasks)
  /\ UNCHANGED <<env, got, start, stage, head, receive, fragments, inflate, delivered>>

Take(w) ==
  /\ w \in env.threads /\ running[w] = Idle /\ tasks # <<>>
  /\ running' = [running EXCEPT ![w] = tasks[1]]
  /\ tasks' = Tail(tasks)
  /\ UNCHANGED <<env, got, start, stage, head, receive, fragments, inflate, delivered>>

\* while(!_stop)
Run(w) ==
  /\ running[w] \notin {Idle, Out}
  /\ delivered' = Append(delivered, [frames |-> running[w], inflate |-> inflate])
  /\ running' = [running EXCEPT ![w] = IF stage = "joining" THEN Out ELSE Idle]
  /\ UNCHANGED <<env, got, start, stage, head, receive, fragments, inflate, tasks>>

Exit(w) ==
  /\ stage = "joining" /\ w \in env.threads /\ running[w] = Idle
  /\ running' = [running EXCEPT ![w] = Out]
  /\ UNCHANGED <<env, got, start, stage, head, receive, fragments, inflate, tasks, delivered>>

\* multiThreads() for a pool that runs: stop(), which joins the threads, and init()
Resize ==
  /\ env.resizes /\ Pooled /\ stage = "ready" /\ stage' = "joining"
  /\ UNCHANGED <<env, got, start, head, receive, fragments, inflate, tasks, running, delivered>>

Joined ==
  /\ stage = "joining" /\ \A w \in env.threads : running[w] = Out
  /\ stage' = "ready" /\ tasks' = <<>>
  /\ running' = [w \in Workers |-> Idle]
  /\ UNCHANGED <<env, got, start, head, receive, fragments, inflate, delivered>>

(***************************************************************************)
(* A read: the handshake leaves what follows it in the buffer.             *)
(***************************************************************************)
Handshake(o) ==
  /\ stage = "handshake" /\ (env.early \/ o = 1)
  /\ start' = 1 /\ stage' = "ready"
  /\ UNCHANGED <<head, receive>>

Frames(o) ==
  /\ stage = "ready" /\ stage' = "loop"
  /\ head' = NoHead /\ receive' = FALSE
  /\ UNCHANGED start

Receive(o) ==
  /\ got < o /\ MayCut(o)
  /\ got' = o
  /\ Handshake(o) \/ Frames(o)
  /\ UNCHANGED <<env, fragments, inflate, tasks, running, delivered>>

(***************************************************************************)
(* One iteration of the loop.                                              *)
(***************************************************************************)
\* a plausible slip: the loop ends after one frame
OnceOver(h, taken) == [receive |-> taken, goes |-> FALSE]

\* receive after the frame, and whether the loop goes on
GoesOn(h, taken) ==
  [receive |-> taken,
   goes |-> taken /\ (HasPayload(h) \/ h.op \in {"PING", "PONG"}) /\ start + h.frame < got]

\* the frame leaves the buffer
Advance(h) ==
  LET taken == IF h.frame > 0 THEN got - start >= h.frame ELSE receive
      next == GoesOn(h, taken)
  IN /\ start' = IF h.frame > 0 /\ taken THEN start + h.frame ELSE start
     /\ receive' = next.receive /\ head' = h
     /\ stage' = IF next.goes THEN "loop" ELSE "ready"

\* nothing was processed
Leave(h) ==
  /\ stage' = "ready" /\ head' = h
  /\ UNCHANGED <<start, receive, fragments, inflate, delivered, pool>>

\* Stop of the server: a close frame, and no more reading; the client forgets what it
\* holds and reads on
Fail(h) ==
  /\ stage' = IF env.side = "server" THEN "closed" ELSE "ready"
  /\ start' = got /\ fragments' = <<>> /\ head' = h
  /\ UNCHANGED <<receive, delivered, pool>>

\* a PING is answered, a PONG looked at
Ping(h) ==
  /\ h.op \in {"PING", "PONG"} /\ Advance(h)
  /\ UNCHANGED <<fragments, inflate, delivered, pool>>

\* a plausible slip: a compressed message sets the flag and nobody takes it back
TextSticky(h, k) ==
  /\ h.op = "TEXT" /\ HasPayload(h)
  /\ inflate' = (inflate \/ h.rsv)
  /\ IF fragments # <<>> THEN Fail(h)
     ELSE /\ IF h.fin THEN HandOver(<<k>>) /\ UNCHANGED fragments
             ELSE fragments' = <<k>> /\ UNCHANGED <<delivered, pool>>
          /\ Advance(h)

\* TEXT and BINARY
Text(h, k) ==
  /\ h.op = "TEXT" /\ HasPayload(h)
  /\ inflate' = h.rsv
  /\ IF fragments # <<>> THEN Fail(h)
     ELSE /\ IF h.fin THEN HandOver(<<k>>) /\ UNCHANGED fragments
             ELSE fragments' = <<k>> /\ UNCHANGED <<delivered, pool>>
          /\ Advance(h)

Continuation(h, k) ==
  /\ h.op = "CONTINUATION" /\ HasPayload(h) /\ UNCHANGED inflate
  /\ IF fragments = <<>> THEN Fail(h)
     ELSE /\ IF h.fin THEN HandOver(Append(fragments, k)) /\ fragments' = <<>>
             ELSE fragments' = Append(fragments, k) /\ UNCHANGED <<delivered, pool>>
          /\ Advance(h)

CloseFrame(h) ==
  /\ h.op = "CLOSE" /\ stage' = "closed" /\ head' = h
  /\ UNCHANGED <<start, receive, fragments, inflate, delivered, pool>>

Iterate ==
  /\ stage = "loop" /\ UNCHANGED <<env, got>>
  /\ got - start >= 2 => FrameAt(start) # 0
  /\ LET h == Get
         k == FrameAt(start)
     IN \/ Ping(h) \/ Text(h, k) \/ Continuation(h, k) \/ CloseFrame(h)
        \/ h.bad /\ ~Control(h.op) /\ Fail(h) /\ UNCHANGED inflate
        \/ ~h.bad /\ ~HasPayload(h) /\ ~Control(h.op) /\ Leave(h)

\* the beginning of a frame is not where the loop looks for it: what follows is arbitrary
Astray ==
  /\ stage = "loop" /\ got - start >= 2 /\ FrameAt(start) = 0
  /\ stage' = "astray"
  /\ UNCHANGED <<env, got, start, head, receive, fragments, inflate, tasks, running, delivered>>

Init ==
  /\ env \in Environments
  /\ got = 0 /\ start = 0 /\ stage = "handshake"
  /\ head = NoHead /\ receive = FALSE
  /\ fragments = <<>> /\ inflate = FALSE
  /\ tasks = <<>> /\ running = [w \in Workers |-> Idle] /\ delivered = <<>>

Next ==
  \/ \E o \in 1..Total : Receive(o)
  \/ Iterate \/ Astray \/ Resize \/ Joined
  \/ \E w \in Workers : Take(w) \/ Run(w) \/ Exit(w)

Spec == Init /\ [][Next]_vars

\* what the peer has sent comes, the loop goes on, the threads of the pool run
FairSpec ==
  /\ Spec
  /\ WF_vars(\E o \in 1..Total : Receive(o)) /\ WF_vars(Iterate)
  /\ \A w \in Workers : WF_vars(Take(w)) /\ WF_vars(Run(w))
-----------------------------------------------------------------------------
\* The shape of the state: the reader is not ahead of the stream, what it keeps are
\* frames of data, and threads run only in a pool.
TypeOK ==
  /\ env \in Environments /\ got \in 0..Total /\ start \in 0..got
  /\ stage \in {"handshake", "ready", "loop", "joining", "closed", "astray"}
  /\ receive \in BOOLEAN /\ inflate \in BOOLEAN /\ head.op \in Ops
  /\ \A k \in Range(fragments) : ~Control(program[k].op) /\ ~program[k].fin
  /\ ~Pooled => tasks = <<>> /\ \A w \in Workers : running[w] = Idle

(***************************************************************************)
(* What a message is: a frame with TEXT, the frames with CONTINUATION up   *)
(* to the one with FIN, and any control frames in between.                 *)
(***************************************************************************)
Data(i, j) == {k \in i..j : ~Control(program[k].op)}

IsMessage(i, j) ==
  /\ program[i].op = "TEXT" /\ ~Control(program[j].op) /\ program[j].fin
  /\ \A k \in i..j : Control(program[k].op) \/
       ((k < j => ~program[k].fin) /\ (k > i => program[k].op = "CONTINUATION"))

Messages ==
  {Data(p[1], p[2]) : p \in {q \in (DOMAIN program) \X (DOMAIN program) :
                               q[1] <= q[2] /\ IsMessage(q[1], q[2])}}

Rising(m) == \A a, b \in DOMAIN m : a < b => m[a] < m[b]

\* The application gets whole messages of the peer, their frames in order, and none of them
\* twice, however the reads cut the stream (readEvents(), ws1.cpp:484).
Whole ==
  /\ \A n \in DOMAIN delivered :
       Rising(delivered[n].frames) /\ Range(delivered[n].frames) \in Messages
  /\ \A n, o \in DOMAIN delivered :
       delivered[n].frames = delivered[o].frames => n = o

\* Without a pool, or with one thread in it, messages arrive in the order of the peer; after
\* the pool was set up anew some may be missing.
InOrder ==
  Cardinality(env.threads) <= 1 =>
    \A n, o \in DOMAIN delivered :
      n < o => delivered[n].frames[1] < delivered[o].frames[1]

\* A message is inflated if and only if the peer has compressed it (extraction(),
\* ws1.cpp:747); with a pool, as long as the peer compresses all or none.
AsMeant ==
  ~Pooled \/ (\A k, l \in DOMAIN program :
                 program[k].op = "TEXT" /\ program[l].op = "TEXT" => program[k].rsv = program[l].rsv) =>
    \A n \in DOMAIN delivered : delivered[n].inflate = program[delivered[n].frames[1]].rsv

\* When a read is done with, no whole frame is left in the buffer, unless it came with
\* the handshake.
NothingHeldBack ==
  stage = "ready" /\ ~env.early =>
    \A k \in DOMAIN program : Ends[k] <= got => Ends[k] <= start

\* The loop looks at the beginning of a frame.
InPlace == stage # "astray"

\* InPlace for reads that end between control frames.
InPlaceUsual == env.cuts = "between" => InPlace

\* Every message of the peer reaches the application, unless the connection is closed, the
\* pool is set up anew, or reads end in control frames.
Arrives ==
  <>(\/ stage = "closed" \/ env.cuts = "anywhere" \/ env.early \/ env.resizes
     \/ \A m \in Messages : \E n \in DOMAIN delivered : Range(delivered[n].frames) = m)
=============================================================================
