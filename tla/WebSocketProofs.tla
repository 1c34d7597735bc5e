-------------------------- MODULE WebSocketProofs --------------------------
(***************************************************************************)
(* What holds of WebSocket for any frames, reads and threads: a message is *)
(* inflated if and only if the peer has compressed it; messages arrive     *)
(* whole and once, and, without a second thread, in order.                 *)
(***************************************************************************)
EXTENDS WebSocket, FiniteSetTheorems, WellFoundedInduction, TLAPS

Frame == DOMAIN program

Fields == {"op", "fin", "rsv", "size", "payload", "frame", "masked", "bad"}

\* a head of which less than two bytes are there cannot be taken for a whole frame
IsHead(h) ==
  /\ h = [f \in Fields |-> h[f]]
  /\ h.size \in Nat /\ h.masked \in Nat /\ h.payload \in Nat /\ h.frame \in Nat
  /\ h.size + h.masked >= 2

Flags == {FALSE} \cup {program[k].rsv : k \in Frame}

\* what was read is enough of a state to look at the next frame
Read ==
  /\ env \in Environments /\ got \in Int /\ start \in Int
  /\ IsHead(head) /\ inflate \in Flags

Uniform ==
  \A k, l \in Frame :
    program[k].op = "TEXT" /\ program[l].op = "TEXT" => program[k].rsv = program[l].rsv

Fits == ~Pooled \/ Uniform

\* frames m, if there are any, begin a message, and flag fl is that of the message
Message(m, fl) ==
  /\ m \in Seq(Frame)
  /\ m # <<>> => program[m[1]].op = "TEXT" /\ (Fits => fl = program[m[1]].rsv)

\* tasks ts, threads rn and calls dl: flag fl is that of every message not yet extracted
Pool(ts, rn, dl, fl) ==
  /\ ts \in Seq(Seq(Frame)) /\ rn \in [Workers -> Seq(Frame) \cup {Out}]
  /\ dl \in Seq([frames : Seq(Frame), inflate : Flags])
  /\ ~Pooled => ts = <<>> /\ \A w \in Workers : rn[w] = Idle
  /\ \A i \in DOMAIN ts : ts[i] # <<>> /\ Message(ts[i], fl)
  /\ \A w \in Workers : rn[w] # Out => Message(rn[w], fl)
  /\ Fits => \A n \in DOMAIN dl : dl[n].inflate = program[dl[n].frames[1]].rsv

WInv == Read /\ Message(fragments, inflate) /\ Pool(tasks, running, delivered, inflate)

(***************************************************************************)
(* Frame::get().                                                           *)
(***************************************************************************)
LEMMA ProgramIs ==
  ASSUME env \in Environments
  PROVE  /\ Len(program) \in Nat /\ Frame = 1..Len(program)
         /\ \A k \in Frame : program[k].op \in Ops /\ program[k].fin \in BOOLEAN
                               /\ program[k].size \in Nat
<1> DEFINE F == [op : Ops, fin : BOOLEAN, rsv : BOOLEAN, size : 0..125]
<1>1. program \in Seq(F)
  BY WebSocketAssumption DEF program
<1>2. \A f \in F : f.op \in Ops /\ f.fin \in BOOLEAN /\ f.size \in Nat
  OBVIOUS
<1> HIDE DEF F
<1>3. Len(program) \in Nat /\ Frame = 1..Len(program) /\ \A k \in Frame : program[k] \in F
  BY <1>1 DEF Frame
<1> QED
  BY <1>2, <1>3

LEMMA HeadOfHead ==
  ASSUME Read, NEW k \in Frame
  PROVE  IsHead(HeadOf(k))
<1>1. program[k].size \in Nat
  BY ProgramIs DEF Read
<1>2. Mask \in Nat
  BY DEF Mask
<1> HIDE DEF program, Mask
<1> QED
  BY <1>1, <1>2 DEF IsHead, HeadOf, Fields

LEMMA FrameAtIn ==
  ASSUME FrameAt(start) # 0
  PROVE  FrameAt(start) \in Frame
BY DEF FrameAt, Frame

LEMMA GetHead ==
  ASSUME Read, got - start >= 2 => FrameAt(start) # 0
  PROVE  /\ IsHead(Get)
         /\ HasPayload(Get) => /\ FrameAt(start) \in Frame
                               /\ Get.op = program[FrameAt(start)].op
                               /\ Get.rsv = program[FrameAt(start)].rsv
<1> DEFINE size == got - start
           k == FrameAt(start)
           h == IF size < 2 THEN head ELSE HeadOf(k)
           whole == h.size + h.masked + h.payload <= size
           n == IF whole THEN h.size + h.masked + h.payload ELSE h.size
           b == whole /\ Malformed(h)
<1>1. size \in Int
  BY DEF Read
<1>2. Get = [h EXCEPT !.bad = b, !.frame = n]
  BY DEF Get
<1>3. size < 2 \/ k \in Frame
  BY <1>1, FrameAtIn
<1>4. IsHead(h)
  BY <1>3, HeadOfHead DEF Read
<1> HIDE DEF size, k, h, b
<1>5. n \in Nat
  BY <1>4 DEF IsHead
<1>6. size < 2 => n = h.size
  BY <1>1, <1>4 DEF IsHead
<1> HIDE DEF n
<1>7. /\ Get = [f \in Fields |-> Get[f]]
      /\ Get.op = h.op /\ Get.rsv = h.rsv /\ Get.size = h.size /\ Get.masked = h.masked
      /\ Get.payload = h.payload /\ Get.frame = n
  BY <1>2, <1>4 DEF IsHead, Fields
<1>8. IsHead(Get)
  BY <1>4, <1>5, <1>7 DEF IsHead
<1>9. HasPayload(Get) => ~(size < 2)
  BY <1>4, <1>6, <1>7 DEF HasPayload, IsHead
<1>10. ~(size < 2) => h.op = program[k].op /\ h.rsv = program[k].rsv
  BY DEF h, HeadOf
<1> QED
  BY <1>3, <1>7, <1>8, <1>9, <1>10 DEF k

(***************************************************************************)
(* The parts of a step.                                                    *)
(***************************************************************************)
\* a new message sets the flag: with a pool, to what it was
LEMMA PoolFlag ==
  ASSUME NEW ts, NEW rn, NEW dl, NEW fl, Pool(ts, rn, dl, fl),
         NEW k \in Frame, program[k].op = "TEXT"
  PROVE  Pool(ts, rn, dl, program[k].rsv)
<1>1. CASE Pooled
  <2>1. ASSUME NEW m, Message(m, fl)
        PROVE  Message(m, program[k].rsv)
    <3>1. m # <<>> => m[1] \in Frame
      BY <2>1 DEF Message
    <3> QED
      BY <1>1, <2>1, <3>1 DEF Message, Fits, Uniform
  <2> QED
    BY <2>1 DEF Pool
<1>2. CASE ~Pooled
  <2>1. /\ ts = <<>> /\ \A w \in Workers : rn[w] = <<>>
        /\ DOMAIN <<>> = {} /\ Message(<<>>, program[k].rsv)
    BY <1>2 DEF Pool, Idle, Message
  <2> QED
    BY <2>1, <1>2 DEF Pool, Idle
<1> QED
  BY <1>1, <1>2

\* one call more
LEMMA PoolCall ==
  ASSUME NEW ts, NEW rn, NEW dl, NEW fl \in Flags, Pool(ts, rn, dl, fl),
         NEW m, Message(m, fl), m # <<>>
  PROVE  Pool(ts, rn, Append(dl, [frames |-> m, inflate |-> fl]), fl)
<1> DEFINE c == [frames |-> m, inflate |-> fl]
           D == [frames : Seq(Frame), inflate : Flags]
           u == Append(dl, c)
<1>1. c \in D /\ dl \in Seq(D) /\ c.frames = m /\ c.inflate = fl
  BY DEF Message, Pool
<1> HIDE DEF c, D
<1>2. /\ u \in Seq(D) /\ DOMAIN u = 1..(Len(dl) + 1) /\ u[Len(dl) + 1] = c
      /\ DOMAIN dl = 1..Len(dl) /\ \A n \in 1..Len(dl) : u[n] = dl[n]
  BY <1>1
<1> HIDE DEF u
<1>3. Fits => \A n \in DOMAIN u : u[n].inflate = program[u[n].frames[1]].rsv
  <2> SUFFICES ASSUME Fits, NEW n \in DOMAIN u
               PROVE  u[n].inflate = program[u[n].frames[1]].rsv
    OBVIOUS
  <2>1. CASE n = Len(dl) + 1
    BY <1>1, <1>2, <2>1 DEF Message
  <2>2. CASE n # Len(dl) + 1
    <3>1. n \in DOMAIN dl /\ u[n] = dl[n]
      BY <1>1, <1>2, <2>2
    <3> QED
      BY <3>1 DEF Pool
  <2> QED
    BY <2>1, <2>2
<1>4. Pool(ts, rn, u, fl)
  BY <1>2, <1>3 DEF Pool, D
<1> QED
  BY <1>4 DEF u, c

\* one task more
LEMMA PoolTask ==
  ASSUME NEW ts, NEW rn, NEW dl, NEW fl, Pool(ts, rn, dl, fl), Pooled,
         NEW m, Message(m, fl), m # <<>>
  PROVE  Pool(Append(ts, m), rn, dl, fl)
<1> DEFINE u == Append(ts, m)
           S == Seq(Frame)
<1>1. m \in S /\ ts \in Seq(S)
  BY DEF Message, Pool
<1> HIDE DEF S
<1>2. /\ u \in Seq(S) /\ DOMAIN u = 1..(Len(ts) + 1) /\ u[Len(ts) + 1] = m
      /\ DOMAIN ts = 1..Len(ts) /\ \A n \in 1..Len(ts) : u[n] = ts[n]
  BY <1>1
<1> HIDE DEF u
<1>3. ASSUME NEW i \in DOMAIN u
      PROVE  u[i] # <<>> /\ Message(u[i], fl)
  <2>1. CASE i = Len(ts) + 1
    BY <1>2, <2>1
  <2>2. CASE i # Len(ts) + 1
    <3>1. i \in DOMAIN ts /\ u[i] = ts[i]
      BY <1>1, <1>2, <2>2
    <3> QED
      BY <3>1 DEF Pool
  <2> QED
    BY <2>1, <2>2
<1>4. Pool(u, rn, dl, fl)
  BY <1>2, <1>3 DEF Pool, S
<1> QED
  BY <1>4 DEF u

LEMMA HandOverGood ==
  ASSUME inflate' \in Flags, Pool(tasks, running, delivered, inflate'),
         NEW m, Message(m, inflate'), m # <<>>, HandOver(m)
  PROVE  Pool(tasks', running', delivered', inflate')
<1>1. CASE Pooled
  BY <1>1, PoolTask DEF HandOver, Push
<1>2. CASE ~Pooled
  BY <1>2, PoolCall DEF HandOver, Extraction, pool
<1> QED
  BY <1>1, <1>2

LEMMA AdvanceGood ==
  ASSUME Read, NEW h, IsHead(h), Advance(h)
  PROVE  start' \in Int /\ IsHead(head')
BY DEF Read, Advance, IsHead

LEMMA EmptyMessage ==
  ASSUME NEW fl
  PROVE  Message(<<>>, fl)
BY DEF Message

\* what a thread holds
LEMMA PoolThread ==
  ASSUME NEW ts, NEW rn, NEW dl, NEW fl, Pool(ts, rn, dl, fl), Pooled,
         NEW w \in Workers, NEW x, x = Out \/ Message(x, fl)
  PROVE  Pool(ts, [rn EXCEPT ![w] = x], dl, fl)
<1> DEFINE u == [rn EXCEPT ![w] = x]
           S == Seq(Frame) \cup {Out}
<1>1. x \in S /\ rn \in [Workers -> S]
  BY DEF Message, Pool
<1> HIDE DEF S
<1>2. u \in [Workers -> S] /\ \A v \in Workers : u[v] = IF v = w THEN x ELSE rn[v]
  BY <1>1
<1> HIDE DEF u
<1>3. \A v \in Workers : u[v] # Out => Message(u[v], fl)
  BY <1>2 DEF Pool
<1>4. Pool(ts, u, dl, fl)
  BY <1>2, <1>3 DEF Pool, S
<1> QED
  BY <1>4 DEF u

\* the oldest task is taken from the queue
LEMMA PoolRest ==
  ASSUME NEW ts, NEW rn, NEW dl, NEW fl, Pool(ts, rn, dl, fl), ts # <<>>
  PROVE  Pool(Tail(ts), rn, dl, fl) /\ Message(ts[1], fl) /\ Pooled
<1> DEFINE u == Tail(ts)
           S == Seq(Frame)
<1>1. ts \in Seq(S) /\ Pooled
  BY DEF Pool
<1> HIDE DEF S
<1>2. /\ u \in Seq(S) /\ 1 \in DOMAIN ts
      /\ \A i \in DOMAIN u : i + 1 \in DOMAIN ts /\ u[i] = ts[i + 1]
  BY <1>1
<1> HIDE DEF u
<1>3. \A i \in DOMAIN u : u[i] # <<>> /\ Message(u[i], fl)
  BY <1>2 DEF Pool
<1>4. Pool(u, rn, dl, fl)
  BY <1>1, <1>2, <1>3 DEF Pool, S
<1>5. Message(ts[1], fl)
  BY <1>2 DEF Pool
<1> QED
  BY <1>1, <1>4, <1>5 DEF u

(***************************************************************************)
(* The loop over the frames.                                               *)
(***************************************************************************)
\* the rest of the invariant holds whatever env is called
LEMMA Same ==
  ASSUME env' = env, Read', Message(fragments', inflate'),
         Pool(tasks', running', delivered', inflate')
  PROVE  WInv'
BY DEF WInv, Message, Pool, Fits, Uniform, Frame, Flags, Pooled, program

\* after a frame that is read as a whole, or that cannot be read
LEMMA Reads ==
  ASSUME Read, env' = env, got' = got, inflate' \in Flags, start' \in Int, IsHead(head')
  PROVE  Read'
BY DEF Read, Flags, Frame, program

LEMMA FailGood ==
  ASSUME WInv, env' = env, got' = got, inflate' \in Flags, NEW h, IsHead(h), Fail(h),
         Pool(tasks, running, delivered, inflate')
  PROVE  WInv'
<1>1. Read'
  BY Reads DEF WInv, Read, Fail
<1>2. Message(fragments', inflate') /\ Pool(tasks', running', delivered', inflate')
  BY EmptyMessage DEF Fail, pool
<1> QED
  BY <1>1, <1>2, Same

LEMMA TextGood ==
  ASSUME WInv, env' = env, got' = got, NEW h, NEW k, IsHead(h), Text(h, k),
         k \in Frame, program[k].op = h.op, program[k].rsv = h.rsv
  PROVE  WInv'
<1>1. inflate' = program[k].rsv /\ program[k].op = "TEXT" /\ inflate' \in Flags
  BY DEF Text, Flags
<1>2. Pool(tasks, running, delivered, inflate')
  BY <1>1, PoolFlag DEF WInv
<1>3. <<k>> \in Seq(Frame) /\ <<k>> # <<>> /\ <<k>>[1] = k
  BY SMT
<1>4. Message(<<k>>, inflate')
  BY <1>1, <1>3 DEF Message
<1>5. CASE fragments # <<>>
  BY <1>1, <1>2, <1>5, FailGood DEF Text
<1>6. CASE fragments = <<>>
  <2>1. Read'
    BY <1>1, <1>6, AdvanceGood, Reads DEF Text, WInv
  <2>2. CASE h.fin
    <3>1. HandOver(<<k>>) /\ fragments' = <<>>
      BY <1>6, <2>2 DEF Text
    <3>2. Pool(tasks', running', delivered', inflate')
      BY <1>1, <1>2, <1>3, <1>4, <3>1, HandOverGood
    <3> QED
      BY <2>1, <3>1, <3>2, EmptyMessage, Same
  <2>3. CASE ~h.fin
    <3>1. fragments' = <<k>> /\ UNCHANGED <<delivered, pool>>
      BY <1>6, <2>3 DEF Text
    <3> QED
      BY <1>2, <1>4, <2>1, <3>1, Same DEF pool
  <2> QED
    BY <2>2, <2>3
<1> QED
  BY <1>5, <1>6

LEMMA ContinuationGood ==
  ASSUME WInv, env' = env, got' = got, NEW h, NEW k, IsHead(h), Continuation(h, k), k \in Frame
  PROVE  WInv'
<1>1. inflate' = inflate /\ inflate' \in Flags
  BY DEF Continuation, WInv, Read
<1>2. Pool(tasks, running, delivered, inflate') /\ Message(fragments, inflate')
  BY <1>1 DEF WInv
<1>3. CASE fragments = <<>>
  BY <1>1, <1>2, <1>3, FailGood DEF Continuation
<1>4. CASE fragments # <<>>
  <2> DEFINE m == Append(fragments, k)
  <2>1. fragments \in Seq(Frame)
    BY <1>2 DEF Message
  <2>2. m \in Seq(Frame) /\ m # <<>> /\ m[1] = fragments[1]
    BY <1>4, <2>1
  <2> HIDE DEF m
  <2>3. Message(m, inflate')
    BY <1>2, <1>4, <2>2 DEF Message
  <2>4. Read'
    BY <1>1, <1>4, AdvanceGood, Reads DEF Continuation, WInv
  <2>5. CASE h.fin
    <3>1. HandOver(m) /\ fragments' = <<>>
      BY <1>4, <2>5 DEF Continuation, m
    <3>2. Pool(tasks', running', delivered', inflate')
      BY <1>1, <1>2, <2>2, <2>3, <3>1, HandOverGood
    <3> QED
      BY <2>4, <3>1, <3>2, EmptyMessage, Same
  <2>6. CASE ~h.fin
    <3>1. fragments' = m /\ UNCHANGED <<delivered, pool>>
      BY <1>4, <2>6 DEF Continuation, m
    <3> QED
      BY <1>2, <2>3, <2>4, <3>1, Same DEF pool
  <2> QED
    BY <2>5, <2>6
<1> QED
  BY <1>3, <1>4

LEMMA IterateGood ==
  ASSUME WInv, Iterate
  PROVE  WInv'
<1> DEFINE h == Get
           k == FrameAt(start)
<1>1. env' = env /\ got' = got /\ Read /\ inflate \in Flags /\ (got - start >= 2 => k # 0)
  BY DEF Iterate, WInv, Read
<1>2. /\ IsHead(h)
      /\ HasPayload(h) => k \in Frame /\ h.op = program[k].op /\ h.rsv = program[k].rsv
  BY <1>1, GetHead
<1>3. \/ Ping(h) \/ Text(h, k) \/ Continuation(h, k) \/ CloseFrame(h)
      \/ Fail(h) /\ UNCHANGED inflate
      \/ Leave(h)
  BY DEF Iterate
<1> HIDE DEF h, k
<1>4. CASE Ping(h)
  <2>1. Read'
    BY <1>1, <1>2, <1>4, AdvanceGood, Reads DEF Ping
  <2> QED
    BY <1>1, <1>4, <2>1, Same DEF Ping, WInv, pool
<1>5. CASE Text(h, k)
  BY <1>1, <1>2, <1>5, TextGood DEF Text
<1>6. CASE Continuation(h, k)
  BY <1>1, <1>2, <1>6, ContinuationGood DEF Continuation
<1>7. CASE CloseFrame(h)
  <2>1. Read'
    BY <1>1, <1>2, <1>7, Reads DEF CloseFrame, Read
  <2> QED
    BY <1>1, <1>7, <2>1, Same DEF CloseFrame, WInv, pool
<1>8. CASE Fail(h) /\ UNCHANGED inflate
  BY <1>1, <1>2, <1>8, FailGood DEF WInv
<1>9. CASE Leave(h)
  <2>1. Read'
    BY <1>1, <1>2, <1>9, Reads DEF Leave, Read
  <2> QED
    BY <1>1, <1>9, <2>1, Same DEF Leave, WInv, pool
<1> QED
  BY <1>3, <1>4, <1>5, <1>6, <1>7, <1>8, <1>9

(***************************************************************************)
(* The steps.                                                              *)
(***************************************************************************)
LEMMA WInvInit == Init => WInv
<1> SUFFICES ASSUME Init
             PROVE  WInv
  OBVIOUS
<1>1. Read
  <2>1. IsHead(NoHead)
    BY DEF IsHead, Fields, NoHead
  <2>2. head = NoHead /\ inflate = FALSE /\ env \in Environments /\ got = 0 /\ start = 0
    BY DEF Init
  <2>3. inflate \in Flags
    BY <2>2, Zenon DEF Flags
  <2> QED
    BY <2>1, <2>2, <2>3 DEF Read
<1>2. /\ <<>> \in Seq(Seq(Frame)) /\ <<>> \in Seq([frames : Seq(Frame), inflate : Flags])
      /\ Idle \in Seq(Frame) /\ DOMAIN <<>> = {}
  BY DEF Idle
<1>3. running \in [Workers -> Seq(Frame) \cup {Out}] /\ \A w \in Workers : running[w] = Idle
  BY <1>2 DEF Init
<1>4. Message(Idle, inflate)
  BY EmptyMessage DEF Idle
<1>5. Pool(tasks, running, delivered, inflate)
  BY <1>2, <1>3, <1>4 DEF Init, Pool
<1> QED
  BY <1>1, <1>5, EmptyMessage DEF Init, WInv

LEMMA WInvStep == WInv /\ [Next]_vars => WInv'
<1> SUFFICES ASSUME WInv, [Next]_vars
             PROVE  WInv'
  OBVIOUS
<1>1. /\ Read /\ Message(fragments, inflate) /\ Pool(tasks, running, delivered, inflate)
      /\ inflate \in Flags
  BY DEF WInv, Read
<1>2. ASSUME NEW o \in 1..Total, Receive(o)
      PROVE  WInv'
  <2>1. got' \in Int /\ start' \in Int /\ IsHead(head')
    BY <1>1, <1>2 DEF Receive, Handshake, Frames, Read, IsHead, NoHead, Fields
  <2>2. Read'
    BY <1>1, <1>2, <2>1 DEF Receive, Read, Flags, Frame, program
  <2> QED
    BY <1>1, <1>2, <2>2, Same DEF Receive
<1>3. CASE Iterate
  BY <1>3, IterateGood
<1>4. CASE Astray \/ Resize
  <2>1. Read'
    BY <1>1, <1>4, Reads DEF Astray, Resize, Read
  <2> QED
    BY <1>1, <1>4, <2>1, Same DEF Astray, Resize
<1>5. CASE Joined
  <2>1. Read'
    BY <1>1, <1>5, Reads DEF Joined, Read
  <2>2. /\ <<>> \in Seq(Seq(Frame)) /\ Idle \in Seq(Frame) /\ DOMAIN <<>> = {}
    BY DEF Idle
  <2>3. Pool(<<>>, [w \in Workers |-> Idle], delivered, inflate)
    BY <1>1, <2>2, EmptyMessage DEF Pool, Idle
  <2> QED
    BY <1>1, <1>5, <2>1, <2>3, Same DEF Joined
<1>6. ASSUME NEW w \in Workers, Take(w)
      PROVE  WInv'
  <2>1. Read'
    BY <1>1, <1>6, Reads DEF Take, Read
  <2>2. /\ Pool(Tail(tasks), running, delivered, inflate) /\ Message(tasks[1], inflate)
        /\ Pooled
    BY <1>1, <1>6, PoolRest DEF Take
  <2>3. Pool(Tail(tasks), [running EXCEPT ![w] = tasks[1]], delivered, inflate)
    BY <2>2, PoolThread
  <2> QED
    BY <1>1, <1>6, <2>1, <2>3, Same DEF Take
<1>7. ASSUME NEW w \in Workers, Run(w)
      PROVE  WInv'
  <2> DEFINE m == running[w]
             call == Append(delivered, [frames |-> m, inflate |-> inflate])
  <2>1. Read'
    BY <1>1, <1>7, Reads DEF Run, Read
  <2>2. m # <<>> /\ m # Out /\ Pooled /\ Message(m, inflate)
    BY <1>1, <1>7 DEF Run, Pool, Idle
  <2>3. Pool(tasks, running, call, inflate)
    BY <1>1, <2>2, PoolCall
  <2>4. \A x \in {Idle, Out} : x = Out \/ Message(x, inflate)
    BY EmptyMessage DEF Idle
  <2>5. \A x \in {Idle, Out} : Pool(tasks, [running EXCEPT ![w] = x], call, inflate)
    BY <2>2, <2>3, <2>4, PoolThread
  <2>6. \E x \in {Idle, Out} : running' = [running EXCEPT ![w] = x]
    BY <1>7 DEF Run
  <2>7. Pool(tasks', running', delivered', inflate')
    BY <1>7, <2>5, <2>6 DEF Run
  <2> QED
    BY <1>1, <1>7, <2>1, <2>7, Same DEF Run
<1>8. ASSUME NEW w \in Workers, Exit(w)
      PROVE  WInv'
  <2>1. Read'
    BY <1>1, <1>8, Reads DEF Exit, Read
  <2>2. Pool(tasks, [running EXCEPT ![w] = Out], delivered, inflate)
    BY <1>1, <1>8, PoolThread DEF Exit, Pooled
  <2> QED
    BY <1>1, <1>8, <2>1, <2>2, Same DEF Exit
<1>9. CASE UNCHANGED vars
  <2>1. Read'
    BY <1>1, <1>9, Reads DEF vars, Read
  <2> QED
    BY <1>1, <1>9, <2>1, Same DEF vars
<1> QED
  BY <1>2, <1>3, <1>4, <1>5, <1>6, <1>7, <1>8, <1>9 DEF Next

\* A message is inflated if and only if the peer has compressed it, in whatever fragments it
\* came and wherever the reads end: without a pool always, and with any number of threads as
\* long as the peer compresses all of its messages or none.
THEOREM InflatedAsMeant == Spec => []AsMeant
<1>1. WInv => AsMeant
  BY DEF WInv, Pool, AsMeant, Fits, Uniform, Frame
<1> QED
  BY <1>1, WInvInit, WInvStep, PTL DEF Spec

(***************************************************************************)
(* The stream.                                                             *)
(***************************************************************************)
\* the next end, after the one at x
Further(k, x) == x + 2 + Mask + program[k].size

\* f are the ends of the first n frames
EndsTo(f, n) == f = [k \in 0..n |-> IF k = 0 THEN 1 ELSE Further(k, f[k - 1])]

LEMMA LeastNat ==
  ASSUME NEW B, B \subseteq Nat, B # {}
  PROVE  \E n \in B : \A y \in B : n <= y
<1> DEFINE R == {ss \in Nat \X Nat : ss[1] < ss[2]}
<1>1. IsWellFoundedOn(R, Nat)
  BY NatLessThanWellFounded DEF OpToRel
<1>2. \A y, z \in Nat : ~(<<y, z>> \in R) => z <= y
  OBVIOUS
<1> HIDE DEF R
<1>3. \E n \in B : \A y \in B : ~(<<y, n>> \in R)
  BY <1>1, WFMin
<1> QED
  BY <1>2, <1>3

LEMMA EndsToAny == \A n \in Nat : \E f : EndsTo(f, n)
<1> DEFINE B == {n \in Nat : ~\E f : EndsTo(f, n)}
<1> SUFFICES ASSUME B # {} PROVE FALSE
  OBVIOUS
<1>1. PICK n \in B : \A y \in B : n <= y
  BY LeastNat
<1>2. n \in Nat /\ ~\E f : EndsTo(f, n)
  BY <1>1
<1>3. CASE n = 0
  <2>1. EndsTo([k \in 0..0 |-> 1], 0)
    BY DEF EndsTo
  <2> QED
    BY <1>2, <1>3, <2>1
<1>4. CASE n # 0
  <2>1. n - 1 \in Nat /\ n - 1 \notin B
    BY <1>1, <1>2, <1>4
  <2>2. PICK f : EndsTo(f, n - 1)
    BY <2>1
  <2> DEFINE G(k, x) == Further(k, x)
             g == [k \in 0..n |-> IF k = n THEN G(n, f[n - 1]) ELSE f[k]]
  <2>3. f = [k \in 0..(n - 1) |-> IF k = 0 THEN 1 ELSE G(k, f[k - 1])]
    BY <2>2 DEF EndsTo
  <2> HIDE DEF G
  <2>4. \A k \in 0..n : g[k] = IF k = 0 THEN 1 ELSE G(k, g[k - 1])
    <3> SUFFICES ASSUME NEW k \in 0..n PROVE g[k] = IF k = 0 THEN 1 ELSE G(k, g[k - 1])
      OBVIOUS
    <3>1. CASE k = n
      <4>1. g[n - 1] = f[n - 1] /\ g[n] = G(n, f[n - 1])
        BY <1>2, <1>4
      <4> QED
        BY <3>1, <4>1, <1>4
    <3>2. CASE k # n
      <4>1. k \in 0..(n - 1) /\ (k # 0 => k - 1 \in 0..n /\ k - 1 # n)
        BY <1>2, <3>2
      <4>2. g[k] = f[k] /\ (k # 0 => g[k - 1] = f[k - 1])
        BY <1>2, <3>2, <4>1
      <4>3. f[k] = IF k = 0 THEN 1 ELSE G(k, f[k - 1])
        BY <2>3, <4>1
      <4> QED
        BY <4>2, <4>3
    <3> QED
      BY <3>1, <3>2
  <2>5. g = [k \in 0..n |-> IF k = 0 THEN 1 ELSE G(k, g[k - 1])]
    <3>1. DOMAIN g = 0..n /\ g = [k \in DOMAIN g |-> g[k]]
      OBVIOUS
    <3> HIDE DEF g
    <3> QED
      BY <2>4, <3>1
  <2>6. EndsTo(g, n)
    BY <2>5 DEF EndsTo, G
  <2> QED
    BY <1>2, <2>6
<1> QED
  BY <1>3, <1>4

LEMMA EndsToSame ==
  ASSUME NEW n \in Nat, NEW m \in Nat, NEW f, NEW g, EndsTo(f, n), EndsTo(g, m)
  PROVE  \A k \in Nat : k <= n /\ k <= m => f[k] = g[k]
<1> DEFINE B == {k \in Nat : k <= n /\ k <= m /\ f[k] # g[k]}
           G(k, x) == Further(k, x)
<1> SUFFICES ASSUME B # {} PROVE FALSE
  OBVIOUS
<1>1. PICK k \in B : \A y \in B : k <= y
  BY LeastNat
<1>2. /\ \A i \in 0..n : f[i] = IF i = 0 THEN 1 ELSE G(i, f[i - 1])
      /\ \A i \in 0..m : g[i] = IF i = 0 THEN 1 ELSE G(i, g[i - 1])
  BY DEF EndsTo
<1> HIDE DEF G
<1>3. k \in Nat /\ k \in 0..n /\ k \in 0..m /\ f[k] # g[k]
  BY <1>1
<1>4. k # 0
  BY <1>2, <1>3
<1>5. k - 1 \in Nat /\ k - 1 \notin B /\ k - 1 <= n /\ k - 1 <= m
  BY <1>1, <1>3, <1>4
<1>6. f[k - 1] = g[k - 1]
  BY <1>5
<1> QED
  BY <1>2, <1>3, <1>4, <1>6

LEMMA EndsRecursive ==
  Ends = [k \in Nat |-> IF k = 0 THEN 1 ELSE Further(k, Ends[k - 1])]
<1> DEFINE c(n) == CHOOSE f : EndsTo(f, n)
           h == [n \in Nat |-> c(n)[n]]
           G(k, x) == Further(k, x)
<1>1. \A n \in Nat : EndsTo(c(n), n)
  BY EndsToAny
<1> HIDE DEF c
<1>2. \A n \in Nat : h[n] = IF n = 0 THEN 1 ELSE G(n, h[n - 1])
  <2> SUFFICES ASSUME NEW n \in Nat PROVE h[n] = IF n = 0 THEN 1 ELSE G(n, h[n - 1])
    OBVIOUS
  <2>1. c(n)[n] = IF n = 0 THEN 1 ELSE G(n, c(n)[n - 1])
    <3>1. EndsTo(c(n), n)
      BY <1>1
    <3>2. c(n) = [k \in 0..n |-> IF k = 0 THEN 1 ELSE G(k, c(n)[k - 1])]
      BY <3>1 DEF EndsTo
    <3> HIDE DEF G
    <3> QED
      BY <3>2
  <2>2. ASSUME n # 0 PROVE c(n)[n - 1] = c(n - 1)[n - 1]
    <3>1. n - 1 \in Nat /\ n - 1 <= n /\ n - 1 <= n - 1
      BY <2>2
    <3>2. EndsTo(c(n), n) /\ EndsTo(c(n - 1), n - 1)
      BY <1>1, <3>1
    <3> QED
      BY <3>1, <3>2, EndsToSame
  <2>3. h[n] = c(n)[n] /\ (n # 0 => h[n - 1] = c(n - 1)[n - 1])
    OBVIOUS
  <2> HIDE DEF G, h
  <2> QED
    BY <2>1, <2>2, <2>3
<1>3. h = [k \in Nat |-> IF k = 0 THEN 1 ELSE G(k, h[k - 1])]
  <2>1. h = [k \in Nat |-> h[k]]
    OBVIOUS
  <2> HIDE DEF h, G
  <2> QED
    BY <1>2, <2>1
<1> HIDE DEF h
<1>4. \E f : f = [k \in Nat |-> IF k = 0 THEN 1 ELSE f[k - 1] + 2 + Mask + program[k].size]
  BY <1>3 DEF Further
<1>5. Ends = [k \in Nat |-> IF k = 0 THEN 1 ELSE Ends[k - 1] + 2 + Mask + program[k].size]
  BY <1>4, Zenon DEF Ends
<1> QED
  BY <1>5 DEF Further

LEMMA EndsNext ==
  ASSUME env \in Environments
  PROVE  /\ Ends[0] = 1
         /\ \A k \in Frame : Ends[k] = Ends[k - 1] + 2 + Mask + program[k].size
<1>1. \A k \in Nat : Ends[k] = IF k = 0 THEN 1 ELSE Further(k, Ends[k - 1])
  <2> DEFINE G(k, x) == Further(k, x)
             e == Ends
  <2>1. e = [k \in Nat |-> IF k = 0 THEN 1 ELSE G(k, e[k - 1])]
    BY EndsRecursive
  <2> HIDE DEF G, e
  <2>2. \A k \in Nat : e[k] = IF k = 0 THEN 1 ELSE G(k, e[k - 1])
    BY <2>1
  <2> QED
    BY <2>2 DEF G, e
<1>2. \A k \in Frame : k \in Nat /\ k # 0
  BY ProgramIs
<1> QED
  BY <1>1, <1>2 DEF Further

LEMMA EndsAreNat ==
  ASSUME env \in Environments
  PROVE  \A k \in 0..Len(program) : Ends[k] \in Nat
<1> DEFINE B == {k \in 0..Len(program) : Ends[k] \notin Nat}
<1> SUFFICES ASSUME B # {} PROVE FALSE
  OBVIOUS
<1>1. Len(program) \in Nat /\ Frame = 1..Len(program) /\ Mask \in Nat
  BY ProgramIs DEF Mask
<1>2. B \subseteq Nat
  BY <1>1
<1>3. PICK k \in B : \A y \in B : k <= y
  BY <1>2, LeastNat
<1>4. k \in 0..Len(program) /\ Ends[k] \notin Nat
  BY <1>3
<1>5. k # 0
  BY <1>4, EndsNext
<1>6. k \in Frame /\ k - 1 \in 0..Len(program) /\ k - 1 \notin B
  BY <1>1, <1>3, <1>4, <1>5
<1>7. Ends[k - 1] \in Nat /\ program[k].size \in Nat
  BY <1>6, ProgramIs
<1>8. Ends[k] = Ends[k - 1] + 2 + Mask + program[k].size
  BY <1>6, EndsNext
<1> QED
  BY <1>1, <1>4, <1>7, <1>8

LEMMA EndsStep ==
  ASSUME env \in Environments, NEW k \in Frame
  PROVE  Ends[k - 1] \in Nat /\ Ends[k] \in Nat /\ Ends[k - 1] < Ends[k]
<1>1. /\ Len(program) \in Nat /\ Frame = 1..Len(program) /\ Mask \in Nat
      /\ program[k].size \in Nat
  BY ProgramIs DEF Mask
<1>2. k - 1 \in 0..Len(program) /\ k \in 0..Len(program)
  BY <1>1
<1> DEFINE x == Ends[k - 1]
           y == Ends[k]
           p == program[k].size
           m == Mask
<1>3. x \in Nat /\ y \in Nat
  BY <1>2, EndsAreNat
<1>4. y = x + 2 + m + p
  BY EndsNext
<1>5. p \in Nat /\ m \in Nat
  BY <1>1
<1> HIDE DEF x, y, p, m
<1>6. x < y
  BY <1>3, <1>4, <1>5
<1> QED
  BY <1>3, <1>6 DEF x, y

LEMMA EndsRise ==
  ASSUME env \in Environments, NEW i \in 0..Len(program), NEW j \in 0..Len(program), i < j
  PROVE  Ends[i] < Ends[j]
<1> DEFINE B == {k \in 0..Len(program) : i < k /\ ~(Ends[i] < Ends[k])}
<1> SUFFICES ASSUME B # {} PROVE FALSE
  OBVIOUS
<1>1. Len(program) \in Nat /\ Frame = 1..Len(program) /\ Mask \in Nat
  BY ProgramIs DEF Mask
<1>2. B \subseteq Nat
  BY <1>1
<1>3. PICK k \in B : \A y \in B : k <= y
  BY <1>2, LeastNat
<1>4. k \in 0..Len(program) /\ i < k /\ ~(Ends[i] < Ends[k])
  BY <1>3
<1>5. k \in Frame /\ k - 1 \in 0..Len(program) /\ k - 1 \notin B
  BY <1>1, <1>3, <1>4
<1>6. Ends[k - 1] \in Nat /\ Ends[k] \in Nat /\ Ends[i] \in Nat /\ Ends[k - 1] < Ends[k]
  <2>1. i \in 0..Len(program)
    BY <1>1, <1>4
  <2> QED
    BY <1>5, <2>1, EndsAreNat, EndsStep
<1>7. i = k - 1 \/ Ends[i] < Ends[k - 1]
  BY <1>1, <1>4, <1>5
<1> HIDE DEF B
<1>8. Ends[i] <= Ends[k - 1]
  BY <1>6, <1>7
<1> QED
  BY <1>4, <1>6, <1>8

(***************************************************************************)
(* Order: the frames that were taken from the buffer make up messages, of  *)
(* which the pool and the application have those that are whole.           *)
(***************************************************************************)
\* frame k lies before offset s
Gone(k, s) == k \in Frame /\ Ends[k] <= s

\* the frames of data from frame i up to offset s
Since(i, s) == {k \in Frame : i <= k /\ Gone(k, s) /\ ~Control(program[k].op)}

\* fragments f are what came at offset s of a message that goes on
Begun(f, s) ==
  f # <<>> =>
    /\ Rising(f) /\ Range(f) = Since(f[1], s) /\ program[f[1]].op = "TEXT"
    /\ \A k \in Since(f[1], s) :
         ~program[k].fin /\ (k > f[1] => program[k].op = "CONTINUATION")

\* m is a message of the peer, and begins before offset s
Complete(m, s) == m \in Seq(Frame) /\ m # <<>> /\ Rising(m) /\ Range(m) \in Messages /\ Gone(m[1], s)

Handed(ts, rn, dl) ==
  {ts[i] : i \in DOMAIN ts} \cup ({rn[w] : w \in Workers} \ {Idle, Out})
    \cup {dl[n].frames : n \in DOMAIN dl}

Single == Cardinality(env.threads) <= 1

\* of two messages the first is before the other; with more than one thread, it is another one
Apart(m, n) == m[1] # n[1] /\ (Single => m[1] < n[1])

\* tasks are in the order of the peer and newer than what was taken; what a thread works on
\* is newer than the calls it has made
Ordered(ts, rn, dl) ==
  /\ \A i, j \in DOMAIN ts : i < j => ts[i][1] < ts[j][1]
  /\ \A j \in DOMAIN ts :
       /\ \A w \in Workers : rn[w] \notin {Idle, Out} => rn[w][1] < ts[j][1]
       /\ \A n \in DOMAIN dl : dl[n].frames[1] < ts[j][1]
  /\ \A v, w \in Workers :
       v # w /\ rn[v] \notin {Idle, Out} /\ rn[w] \notin {Idle, Out} => rn[v][1] # rn[w][1]
  /\ \A w \in Workers : rn[w] \notin {Idle, Out} =>
       w \in env.threads /\ \A n \in DOMAIN dl : Apart(dl[n].frames, rn[w])
  /\ \A n, o \in DOMAIN dl : n < o => Apart(dl[n].frames, dl[o].frames)

OInv ==
  /\ (stage = "handshake" => start = 0)
  /\ start <= got /\ head.size \in {0, 2}
  /\ Begun(fragments, start)
  /\ \A m \in Handed(tasks, running, delivered) :
       Complete(m, start) /\ (fragments # <<>> => m[1] < fragments[1])
  /\ Ordered(tasks, running, delivered)

(***************************************************************************)
(* The reader moves on.                                                    *)
(***************************************************************************)
LEMMA FrameHere ==
  ASSUME FrameAt(start) # 0
  PROVE  FrameAt(start) \in Frame /\ Ends[FrameAt(start) - 1] = start
BY DEF FrameAt, Frame

\* offset s is at the beginning of frame k; at its end
UpTo(k, s) == \A c \in Frame : Gone(c, s) <=> c < k

Past(k, t) == \A c \in Frame : Gone(c, t) <=> c <= k

\* the reader moves over frame k, or, from its beginning, into it
LEMMA Passed ==
  ASSUME env \in Environments, NEW k \in Frame, NEW s \in Int, Ends[k - 1] = s,
         NEW t \in Int, s <= t, t <= Ends[k]
  PROVE  /\ UpTo(k, s)
         /\ \A c \in Frame : Gone(c, t) => c <= k
         /\ t = Ends[k] => Past(k, t)
<1>1. Len(program) \in Nat /\ Frame = 1..Len(program)
  BY ProgramIs
<1>2. k - 1 \in 0..Len(program) /\ k \in 0..Len(program)
  BY <1>1
<1>3. \A c \in Frame : c \in 0..Len(program) /\ Ends[c] \in Nat
  BY <1>1, EndsAreNat
<1>4. ASSUME NEW c \in Frame PROVE (c < k => Ends[c] <= s) /\ (c > k - 1 => s < Ends[c])
  <2>1. c \in 0..Len(program)
    BY <1>3
  <2>2. c < k - 1 => Ends[c] < Ends[k - 1]
    BY <1>2, <2>1, EndsRise
  <2>3. c > k - 1 => Ends[k - 1] < Ends[c]
    BY <1>2, <2>1, EndsRise
  <2> QED
    BY <1>1, <1>3, <2>2, <2>3
<1>5. ASSUME NEW c \in Frame PROVE (c > k => Ends[k] < Ends[c]) /\ (c < k => Ends[c] < Ends[k])
  BY <1>2, <1>3, EndsRise
<1>6. Ends[k] \in Nat
  BY <1>3
<1>7. \A c \in Frame : Gone(c, s) <=> c < k
  BY <1>1, <1>3, <1>4 DEF Gone
<1>8. \A c \in Frame : Gone(c, t) => c <= k
  BY <1>1, <1>3, <1>5, <1>6 DEF Gone
<1>9. t = Ends[k] => \A c \in Frame : Gone(c, t) <=> c <= k
  BY <1>1, <1>3, <1>5, <1>6 DEF Gone
<1> QED
  BY <1>7, <1>8, <1>9 DEF UpTo, Past

\* what lay before s lies before t
LEMMA CompleteOn ==
  ASSUME env \in Environments, NEW s \in Int, NEW t \in Int, s <= t, NEW m, Complete(m, s)
  PROVE  Complete(m, t)
<1>1. m[1] \in Frame /\ Ends[m[1]] <= s
  BY DEF Complete, Gone
<1>2. Ends[m[1]] \in Nat
  BY <1>1, ProgramIs, EndsAreNat
<1> QED
  BY <1>1, <1>2 DEF Complete, Gone

LEMMA BegunOver ==
  ASSUME NEW s, NEW t, NEW f, Begun(f, s),
         \A c \in Frame : ~Control(program[c].op) => (Gone(c, s) <=> Gone(c, t))
  PROVE  Begun(f, t)
<1>1. Since(f[1], t) = Since(f[1], s)
  BY DEF Since, Gone
<1> QED
  BY <1>1 DEF Begun

\* one frame of data more
LEMMA OneMore ==
  ASSUME env \in Environments, NEW f \in Seq(Frame), f # <<>>, Rising(f), NEW k \in Frame,
         \A c \in Range(f) : c < k
  PROVE  /\ Append(f, k) \in Seq(Frame) /\ Append(f, k) # <<>> /\ Append(f, k)[1] = f[1]
         /\ Rising(Append(f, k)) /\ Range(Append(f, k)) = Range(f) \cup {k}
         /\ f[1] \in Range(f)
<1> DEFINE m == Append(f, k)
<1>1. /\ m \in Seq(Frame) /\ Len(f) \in Nat /\ DOMAIN f = 1..Len(f) /\ DOMAIN m = 1..(Len(f) + 1)
      /\ m[Len(f) + 1] = k /\ \A a \in 1..Len(f) : m[a] = f[a]
      /\ m # <<>> /\ 1 \in DOMAIN f
  OBVIOUS
<1> HIDE DEF m
<1>2. PICK n \in Nat : n = Len(f)
  BY <1>1
<1>3. \A a \in DOMAIN f : f[a] \in Range(f) /\ f[a] < k
  BY DEF Range
<1>4. Rising(m)
  <2> SUFFICES ASSUME NEW a \in DOMAIN m, NEW b \in DOMAIN m, a < b PROVE m[a] < m[b]
    BY DEF Rising
  <2>1. a \in 1..n /\ m[a] = f[a]
    BY <1>1, <1>2
  <2>2. CASE b = n + 1
    BY <1>1, <1>2, <1>3, <2>1, <2>2
  <2>3. CASE b # n + 1
    <3>1. b \in 1..n /\ m[b] = f[b]
      BY <1>1, <1>2, <2>3
    <3> QED
      BY <1>1, <1>2, <2>1, <3>1 DEF Rising
  <2> QED
    BY <2>2, <2>3
<1>5. Range(m) = Range(f) \cup {k}
  <2>1. \A a \in DOMAIN m : (a \in DOMAIN f /\ m[a] = f[a]) \/ a = n + 1
    BY <1>1, <1>2
  <2>2. DOMAIN f \subseteq DOMAIN m /\ n + 1 \in DOMAIN m
    BY <1>1, <1>2
  <2> QED
    BY <1>1, <1>2, <2>1, <2>2 DEF Range
<1> QED
  BY <1>1, <1>3, <1>4, <1>5 DEF m

\* the frames of a message that has begun, and one more that goes on with it
LEMMA SinceNext ==
  ASSUME env \in Environments, NEW i \in Frame, NEW k \in Frame, i <= k,
         ~Control(program[k].op), NEW s, NEW t,
         UpTo(k, s), Past(k, t)
  PROVE  /\ Since(i, t) = Since(i, s) \cup {k}
         /\ \A c \in Since(i, s) : c < k
         /\ Since(i, t) = Data(i, k)
<1>1. Frame \subseteq Nat /\ \A c \in i..k : c \in Frame
  BY ProgramIs
<1>2. \A c \in Frame : c <= k <=> c < k \/ c = k
  BY <1>1
<1>3. \A c : Gone(c, t) => c \in Frame
  BY DEF Gone
<1>4. Since(i, t) = Since(i, s) \cup {k}
  BY <1>2 DEF Since, UpTo, Past
<1>5. \A c \in Since(i, s) : c < k
  BY DEF Since, UpTo
<1>6. Since(i, t) = Data(i, k)
  <2>1. \A c \in i..k : c \in Frame /\ i <= c /\ c <= k
    BY <1>1
  <2>2. \A c \in Frame : i <= c /\ c <= k => c \in i..k
    BY <1>1
  <2> QED
    BY <1>3, <2>1, <2>2 DEF Since, Data, Past
<1> QED
  BY <1>4, <1>5, <1>6

LEMMA MessageIs ==
  ASSUME NEW i \in Frame, NEW k \in Frame, i <= k, IsMessage(i, k)
  PROVE  Data(i, k) \in Messages
<1> DEFINE p == <<i, k>>
           S == {q \in (DOMAIN program) \X (DOMAIN program) : q[1] <= q[2] /\ IsMessage(q[1], q[2])}
<1>1. p \in S /\ Data(p[1], p[2]) = Data(i, k)
  BY DEF Frame
<1>2. Messages = {Data(q[1], q[2]) : q \in S}
  BY DEF Messages
<1> HIDE DEF p, S
<1> QED
  BY <1>1, <1>2

LEMMA FirstFrame ==
  ASSUME env \in Environments, NEW k \in Frame
  PROVE  <<k>> \in Seq(Frame) /\ <<k>> # <<>> /\ <<k>>[1] = k /\ Rising(<<k>>) /\ Range(<<k>>) = {k}
<1>1. DOMAIN <<k>> = {1} /\ <<k>>[1] = k /\ <<k>> \in Seq(Frame) /\ <<k>> # <<>>
  OBVIOUS
<1> QED
  BY <1>1 DEF Rising, Range

LEMMA BegunText ==
  ASSUME env \in Environments, NEW k \in Frame, program[k].op = "TEXT", ~program[k].fin, NEW t,
         Past(k, t)
  PROVE  Begun(<<k>>, t)
<1>1. <<k>>[1] = k /\ Rising(<<k>>) /\ Range(<<k>>) = {k}
  BY FirstFrame
<1>2. Since(k, t) = {k}
  <2>1. Frame \subseteq Nat
    BY ProgramIs
  <2>2. k \in Since(k, t)
    BY <2>1 DEF Since, Control, Past
  <2>3. \A c \in Since(k, t) : c = k
    BY <2>1 DEF Since, Past
  <2> QED
    BY <2>2, <2>3
<1>3. Frame \subseteq Nat
  BY ProgramIs
<1> DEFINE f == <<k>>
<1> HIDE DEF f
<1>4. f[1] = k /\ Rising(f) /\ Range(f) = {k}
  BY <1>1 DEF f
<1>5. Begun(f, t)
  BY <1>2, <1>3, <1>4 DEF Begun
<1> QED
  BY <1>5 DEF f

LEMMA BegunMore ==
  ASSUME env \in Environments, NEW s, NEW t, NEW f \in Seq(Frame), f # <<>>, Begun(f, s),
         NEW k \in Frame, program[k].op = "CONTINUATION", ~program[k].fin,
         UpTo(k, s), Past(k, t)
  PROVE  Begun(Append(f, k), t)
<1> DEFINE i == f[1]
           m == Append(f, k)
<1>1. /\ Rising(f) /\ Range(f) = Since(i, s) /\ program[i].op = "TEXT"
      /\ \A c \in Since(i, s) : ~program[c].fin /\ (c > i => program[c].op = "CONTINUATION")
  BY DEF Begun
<1>2. i \in Frame /\ i \in Range(f)
  BY DEF Range
<1>3. i < k /\ Frame \subseteq Nat /\ ~Control(program[k].op)
  BY <1>1, <1>2, ProgramIs DEF Since, Control, UpTo
<1> HIDE DEF m, i
<1>4. /\ Since(i, t) = Since(i, s) \cup {k} /\ \A c \in Since(i, s) : c < k
      /\ Since(i, t) = Data(i, k)
  <2>1. i <= k
    BY <1>2, <1>3
  <2> QED
    BY <1>2, <1>3, <2>1, SinceNext
<1>5. m[1] = i /\ Rising(m) /\ Range(m) = Since(i, t)
  BY <1>1, <1>4, OneMore DEF m, i
<1>6. Begun(m, t)
  BY <1>1, <1>4, <1>5 DEF Begun
<1> QED
  BY <1>6 DEF m

LEMMA CompleteText ==
  ASSUME env \in Environments, NEW k \in Frame, program[k].op = "TEXT", program[k].fin, NEW t,
         Past(k, t)
  PROVE  Complete(<<k>>, t)
<1>1. <<k>>[1] = k /\ Rising(<<k>>) /\ Range(<<k>>) = {k} /\ <<k>> \in Seq(Frame) /\ <<k>> # <<>>
  BY FirstFrame
<1>2. k \in Nat
  BY ProgramIs
<1>3. k..k = {k}
  BY <1>2
<1>4. IsMessage(k, k)
  BY <1>2, <1>3 DEF IsMessage, Control
<1>5. Data(k, k) = {k}
  BY <1>3 DEF Data, Control
<1>6. Range(<<k>>) \in Messages
  BY <1>1, <1>2, <1>4, <1>5, MessageIs
<1>7. Gone(k, t)
  BY <1>2 DEF Past
<1> DEFINE m == <<k>>
<1>8. m[1] = k /\ Rising(m) /\ Range(m) \in Messages /\ m \in Seq(Frame) /\ m # <<>>
  BY <1>1, <1>6
<1> HIDE DEF m
<1>9. Complete(m, t)
  BY <1>7, <1>8 DEF Complete
<1> QED
  BY <1>9 DEF m

LEMMA CompleteMore ==
  ASSUME env \in Environments, NEW s, NEW t, NEW f \in Seq(Frame), f # <<>>, Begun(f, s),
         NEW k \in Frame, program[k].op = "CONTINUATION", program[k].fin,
         UpTo(k, s), Past(k, t)
  PROVE  Complete(Append(f, k), t)
<1> DEFINE i == f[1]
           m == Append(f, k)
<1>1. /\ Rising(f) /\ Range(f) = Since(i, s) /\ program[i].op = "TEXT"
      /\ \A c \in Since(i, s) : ~program[c].fin /\ (c > i => program[c].op = "CONTINUATION")
  BY DEF Begun
<1>2. i \in Frame /\ i \in Range(f)
  BY DEF Range
<1>3. i < k /\ Frame \subseteq Nat /\ ~Control(program[k].op)
  BY <1>1, <1>2, ProgramIs DEF Since, Control, UpTo
<1> HIDE DEF m, i
<1>4. /\ Since(i, t) = Since(i, s) \cup {k} /\ \A c \in Since(i, s) : c < k
      /\ Since(i, t) = Data(i, k)
  <2>1. i <= k
    BY <1>2, <1>3
  <2> QED
    BY <1>2, <1>3, <2>1, SinceNext
<1>5. m[1] = i /\ Rising(m) /\ Range(m) = Data(i, k) /\ m \in Seq(Frame) /\ m # <<>>
  BY <1>1, <1>4, OneMore DEF m, i
<1>6. IsMessage(i, k)
  <2> SUFFICES ASSUME NEW c \in i..k, ~Control(program[c].op)
               PROVE  /\ c < k => ~program[c].fin
                      /\ c > i => program[c].op = "CONTINUATION"
    BY <1>1 DEF IsMessage, Control
  <2>1. c \in Data(i, k)
    BY DEF Data
  <2>2. c = k \/ c \in Since(i, s)
    BY <1>4, <2>1
  <2>3. k \in Nat
    BY <1>3
  <2> QED
    BY <1>1, <2>2, <2>3
<1>7. Range(m) \in Messages
  BY <1>2, <1>3, <1>5, <1>6, MessageIs
<1>8. Gone(i, t)
  BY <1>2, <1>3 DEF Past
<1>9. Complete(m, t)
  BY <1>5, <1>7, <1>8 DEF Complete
<1> QED
  BY <1>9 DEF m

(***************************************************************************)
(* The order of what is handed over.                                       *)
(***************************************************************************)
Held(m) == m \notin {Idle, Out}

\* the first frames of messages are numbers
Firsts(ts, rn, dl) == \A m \in Handed(ts, rn, dl) : m[1] \in Nat

Queues(ts, dl) == ts \in Seq(Seq(Frame)) /\ dl \in Seq([frames : Seq(Frame), inflate : Flags])

\* all that was handed over begins before frame k
Newest(k, ts, rn, dl) == \A m \in Handed(ts, rn, dl) : m[1] < k

LEMMA HandedParts ==
  ASSUME NEW ts, NEW rn, NEW dl
  PROVE  /\ \A i \in DOMAIN ts : ts[i] \in Handed(ts, rn, dl)
         /\ \A w \in Workers : Held(rn[w]) => rn[w] \in Handed(ts, rn, dl)
         /\ \A n \in DOMAIN dl : dl[n].frames \in Handed(ts, rn, dl)
BY DEF Handed, Held

\* a task more
LEMMA TaskOrder ==
  ASSUME NEW ts, NEW rn, NEW dl, Queues(ts, dl), Firsts(ts, rn, dl), Ordered(ts, rn, dl),
         NEW m \in Seq(Frame), m[1] \in Nat, Newest(m[1], ts, rn, dl)
  PROVE  /\ Ordered(Append(ts, m), rn, dl)
         /\ Handed(Append(ts, m), rn, dl) \subseteq Handed(ts, rn, dl) \cup {m}
<1> DEFINE u == Append(ts, m)
           S == Seq(Frame)
<1>1. ts \in Seq(S) /\ m \in S
  BY DEF Queues
<1> HIDE DEF S
<1>2. /\ Len(ts) \in Nat /\ DOMAIN u = 1..(Len(ts) + 1) /\ u[Len(ts) + 1] = m
      /\ DOMAIN ts = 1..Len(ts) /\ \A i \in 1..Len(ts) : u[i] = ts[i]
  BY <1>1
<1>3. PICK l \in Nat : l = Len(ts)
  BY <1>2
<1> HIDE DEF u
<1>4. \A i \in DOMAIN u :
        \/ i = l + 1 /\ u[i] = m
        \/ i # l + 1 /\ i \in DOMAIN ts /\ u[i] = ts[i]
  BY <1>2, <1>3
<1>5. /\ \A i \in DOMAIN ts : ts[i][1] \in Nat /\ ts[i][1] < m[1]
      /\ \A w \in Workers : Held(rn[w]) => rn[w][1] \in Nat /\ rn[w][1] < m[1]
      /\ \A n \in DOMAIN dl : dl[n].frames[1] \in Nat /\ dl[n].frames[1] < m[1]
  BY HandedParts DEF Firsts, Newest
<1>6. ASSUME NEW i \in DOMAIN u, NEW j \in DOMAIN u, i < j PROVE u[i][1] < u[j][1]
  <2>1. i \in DOMAIN ts /\ u[i] = ts[i]
    BY <1>2, <1>3, <1>4, <1>6
  <2>2. CASE j = l + 1
    BY <1>4, <1>5, <2>1, <2>2
  <2>3. CASE j # l + 1
    BY <1>4, <1>6, <2>1, <2>3 DEF Ordered
  <2> QED
    BY <2>2, <2>3
<1>7. ASSUME NEW j \in DOMAIN u
      PROVE  /\ \A w \in Workers : Held(rn[w]) => rn[w][1] < u[j][1]
             /\ \A n \in DOMAIN dl : dl[n].frames[1] < u[j][1]
  <2>1. CASE j = l + 1
    BY <1>4, <1>5, <2>1
  <2>2. CASE j # l + 1
    BY <1>4, <2>2 DEF Ordered, Held
  <2> QED
    BY <2>1, <2>2
<1>8. Ordered(u, rn, dl)
  BY <1>6, <1>7 DEF Ordered, Held
<1>9. Handed(u, rn, dl) \subseteq Handed(ts, rn, dl) \cup {m}
  BY <1>4 DEF Handed
<1> QED
  BY <1>8, <1>9 DEF u

\* a call more, of a message newer than all
LEMMA CallOrder ==
  ASSUME NEW rn, NEW dl, Queues(<<>>, dl), Firsts(<<>>, rn, dl), Ordered(<<>>, rn, dl),
         \A w \in Workers : rn[w] = Idle,
         NEW m \in Seq(Frame), m[1] \in Nat, Newest(m[1], <<>>, rn, dl), NEW fl \in Flags
  PROVE  /\ Ordered(<<>>, rn, Append(dl, [frames |-> m, inflate |-> fl]))
         /\ Handed(<<>>, rn, Append(dl, [frames |-> m, inflate |-> fl]))
              \subseteq Handed(<<>>, rn, dl) \cup {m}
<1> DEFINE c == [frames |-> m, inflate |-> fl]
           D == [frames : Seq(Frame), inflate : Flags]
           u == Append(dl, c)
<1>1. c \in D /\ dl \in Seq(D) /\ c.frames = m
  BY DEF Queues
<1> HIDE DEF c, D
<1>2. /\ Len(dl) \in Nat /\ DOMAIN u = 1..(Len(dl) + 1) /\ u[Len(dl) + 1] = c
      /\ DOMAIN dl = 1..Len(dl) /\ \A n \in 1..Len(dl) : u[n] = dl[n]
  BY <1>1
<1>3. PICK l \in Nat : l = Len(dl)
  BY <1>2
<1> HIDE DEF u
<1>4. \A n \in DOMAIN u :
        \/ n = l + 1 /\ u[n].frames = m
        \/ n # l + 1 /\ n \in DOMAIN dl /\ u[n] = dl[n]
  BY <1>1, <1>2, <1>3
<1>5. \A n \in DOMAIN dl : dl[n].frames[1] \in Nat /\ dl[n].frames[1] < m[1]
  BY HandedParts DEF Firsts, Newest
<1>6. ASSUME NEW n \in DOMAIN u, NEW o \in DOMAIN u, n < o PROVE Apart(u[n].frames, u[o].frames)
  <2>1. n \in DOMAIN dl /\ u[n] = dl[n]
    BY <1>2, <1>3, <1>4, <1>6
  <2>2. CASE o = l + 1
    BY <1>4, <1>5, <2>1, <2>2 DEF Apart
  <2>3. CASE o # l + 1
    BY <1>4, <1>6, <2>1, <2>3 DEF Ordered
  <2> QED
    BY <2>2, <2>3
<1>7. DOMAIN <<>> = {}
  OBVIOUS
<1>8. Ordered(<<>>, rn, u)
  BY <1>6, <1>7 DEF Ordered
<1>9. Handed(<<>>, rn, u) \subseteq Handed(<<>>, rn, dl) \cup {m}
  BY <1>4 DEF Handed
<1> QED
  BY <1>8, <1>9 DEF u, c

\* a thread takes the oldest task
LEMMA TakeOrder ==
  ASSUME NEW ts, NEW rn, NEW dl, Queues(ts, dl), Firsts(ts, rn, dl), Ordered(ts, rn, dl),
         ts # <<>>, NEW w \in Workers, w \in env.threads, rn[w] = Idle, NEW S, rn \in [Workers -> S]
  PROVE  /\ Ordered(Tail(ts), [rn EXCEPT ![w] = ts[1]], dl)
         /\ Handed(Tail(ts), [rn EXCEPT ![w] = ts[1]], dl) \subseteq Handed(ts, rn, dl)
<1> DEFINE u == Tail(ts)
           r == [rn EXCEPT ![w] = ts[1]]
           F == Seq(Frame)
<1>1. ts \in Seq(F)
  BY DEF Queues
<1> HIDE DEF F
<1>2. /\ 1 \in DOMAIN ts
      /\ \A i \in DOMAIN u : i \in Nat /\ i + 1 \in DOMAIN ts /\ 1 < i + 1 /\ u[i] = ts[i + 1]
  BY <1>1
<1>3. r[w] = ts[1] /\ \A v \in Workers : v # w => r[v] = rn[v]
  OBVIOUS
<1> HIDE DEF u, r
<1>4. /\ \A i \in DOMAIN ts : ts[i][1] \in Nat
      /\ \A v \in Workers : Held(rn[v]) => rn[v][1] \in Nat
      /\ \A n \in DOMAIN dl : dl[n].frames[1] \in Nat
  BY HandedParts DEF Firsts
<1>5. \A i, j \in DOMAIN u : i < j => u[i][1] < u[j][1]
  BY <1>2 DEF Ordered
<1>6. ASSUME NEW j \in DOMAIN u
      PROVE  /\ \A v \in Workers : Held(r[v]) => r[v][1] < u[j][1]
             /\ \A n \in DOMAIN dl : dl[n].frames[1] < u[j][1]
  <2>1. ts[1][1] < u[j][1]
    BY <1>2 DEF Ordered
  <2> QED
    BY <1>2, <1>3, <2>1 DEF Ordered, Held
<1>7. ASSUME NEW v \in Workers, NEW x \in Workers, v # x, Held(r[v]), Held(r[x])
      PROVE  r[v][1] # r[x][1]
  <2>1. \A y \in Workers : Held(rn[y]) => rn[y][1] < ts[1][1] /\ rn[y][1] \in Nat /\ ts[1][1] \in Nat
    BY <1>2, <1>4 DEF Ordered, Held
  <2>2. CASE v = w
    BY <1>3, <1>7, <2>1, <2>2
  <2>3. CASE x = w
    BY <1>3, <1>7, <2>1, <2>3
  <2>4. CASE v # w /\ x # w
    BY <1>3, <1>7, <2>4 DEF Ordered, Held
  <2> QED
    BY <2>2, <2>3, <2>4
<1>8. ASSUME NEW v \in Workers, Held(r[v])
      PROVE  v \in env.threads /\ \A n \in DOMAIN dl : Apart(dl[n].frames, r[v])
  <2>1. CASE v = w
    <3>1. \A n \in DOMAIN dl : dl[n].frames[1] < ts[1][1]
      BY <1>2 DEF Ordered
    <3> QED
      BY <1>2, <1>3, <1>4, <2>1, <3>1 DEF Apart
  <2>2. CASE v # w
    BY <1>3, <1>8, <2>2 DEF Ordered, Held
  <2> QED
    BY <2>1, <2>2
<1>9. Ordered(u, r, dl)
  BY <1>5, <1>6, <1>7, <1>8 DEF Ordered, Held
<1>10. Handed(u, r, dl) \subseteq Handed(ts, rn, dl)
  <2>1. \A i \in DOMAIN u : u[i] \in Handed(ts, rn, dl)
    BY <1>2, HandedParts
  <2>2. \A v \in Workers : Held(r[v]) => r[v] \in Handed(ts, rn, dl)
    BY <1>2, <1>3, HandedParts
  <2>3. \A n \in DOMAIN dl : dl[n].frames \in Handed(ts, rn, dl)
    BY HandedParts
  <2> QED
    BY <2>1, <2>2, <2>3 DEF Handed, Held
<1> QED
  BY <1>9, <1>10 DEF u, r

\* a pool of one thread has no other
LEMMA OnlyOne ==
  ASSUME env \in Environments, Single, NEW v \in env.threads, NEW w \in env.threads
  PROVE  v = w
<1>1. IsFiniteSet(env.threads)
  <2>1. IsFiniteSet(Workers) /\ env.threads \subseteq Workers
    BY WebSocketAssumption
  <2> QED
    BY <2>1, FS_Subset
<1> DEFINE T == env.threads
<1> HIDE DEF T
<1>2. IsFiniteSet(T) /\ Cardinality(T) \in Nat
  BY <1>1, FS_CardinalityType DEF T
<1>3. Cardinality(T) <= 1 /\ v \in T /\ w \in T
  BY DEF Single, T
<1>4. Cardinality(T \ {v}) = Cardinality(T) - 1 /\ IsFiniteSet(T \ {v})
  BY <1>2, <1>3, FS_RemoveElement
<1>5. Cardinality(T \ {v}) \in Nat
  BY <1>4, FS_CardinalityType
<1>6. Cardinality(T \ {v}) = 0
  BY <1>2, <1>3, <1>4, <1>5
<1>7. T \ {v} = {}
  BY <1>4, <1>6, FS_EmptySet
<1> QED
  BY <1>3, <1>7

\* a thread calls the application
LEMMA RunOrder ==
  ASSUME NEW ts, NEW rn, NEW dl, Queues(ts, dl), Firsts(ts, rn, dl), Ordered(ts, rn, dl),
         env \in Environments, NEW w \in Workers, Held(rn[w]), rn[w] \in Seq(Frame),
         NEW S, rn \in [Workers -> S], NEW x \in {Idle, Out}, NEW fl \in Flags
  PROVE  LET u == Append(dl, [frames |-> rn[w], inflate |-> fl])
             r == [rn EXCEPT ![w] = x]
         IN Ordered(ts, r, u) /\ Handed(ts, r, u) \subseteq Handed(ts, rn, dl)
<1> DEFINE m == rn[w]
           c == [frames |-> m, inflate |-> fl]
           D == [frames : Seq(Frame), inflate : Flags]
           u == Append(dl, c)
           r == [rn EXCEPT ![w] = x]
<1>1. c \in D /\ dl \in Seq(D) /\ c.frames = m
  BY DEF Queues
<1>2. ~Held(r[w]) /\ \A v \in Workers : v # w => r[v] = rn[v]
  BY DEF Held
<1> HIDE DEF c, D, r
<1>3. /\ Len(dl) \in Nat /\ DOMAIN u = 1..(Len(dl) + 1) /\ u[Len(dl) + 1] = c
      /\ DOMAIN dl = 1..Len(dl) /\ \A n \in 1..Len(dl) : u[n] = dl[n]
  BY <1>1
<1>4. PICK l \in Nat : l = Len(dl)
  BY <1>3
<1> HIDE DEF u
<1>5. \A n \in DOMAIN u :
        \/ n = l + 1 /\ u[n].frames = m
        \/ n # l + 1 /\ n \in DOMAIN dl /\ u[n] = dl[n]
  BY <1>1, <1>3, <1>4
<1>6. /\ \A i \in DOMAIN ts : ts[i][1] \in Nat
      /\ \A v \in Workers : Held(rn[v]) => rn[v][1] \in Nat
      /\ \A n \in DOMAIN dl : dl[n].frames[1] \in Nat
  BY HandedParts DEF Firsts
<1>7. /\ \A i, j \in DOMAIN ts : i < j => ts[i][1] < ts[j][1]
      /\ \A j \in DOMAIN ts :
           /\ \A v \in Workers : Held(rn[v]) => rn[v][1] < ts[j][1]
           /\ \A n \in DOMAIN dl : dl[n].frames[1] < ts[j][1]
      /\ \A v, y \in Workers : v # y /\ Held(rn[v]) /\ Held(rn[y]) => rn[v][1] # rn[y][1]
      /\ \A v \in Workers : Held(rn[v]) =>
           v \in env.threads /\ \A n \in DOMAIN dl : Apart(dl[n].frames, rn[v])
      /\ \A n, o \in DOMAIN dl : n < o => Apart(dl[n].frames, dl[o].frames)
  BY DEF Ordered, Held
<1>8. ASSUME NEW j \in DOMAIN ts
      PROVE  /\ \A v \in Workers : Held(r[v]) => r[v][1] < ts[j][1]
             /\ \A n \in DOMAIN u : u[n].frames[1] < ts[j][1]
  BY <1>2, <1>5, <1>7
<1>9. ASSUME NEW v \in Workers, Held(r[v])
      PROVE  v \in env.threads /\ \A n \in DOMAIN u : Apart(u[n].frames, r[v])
  <2>1. v # w /\ r[v] = rn[v] /\ v \in env.threads /\ w \in env.threads
    BY <1>2, <1>7, <1>9
  <2>2. ~Single
    BY <2>1, OnlyOne
  <2>3. Apart(m, rn[v])
    BY <1>7, <1>9, <2>1, <2>2 DEF Apart
  <2> QED
    BY <1>5, <1>7, <1>9, <2>1, <2>3
<1>10. ASSUME NEW n \in DOMAIN u, NEW o \in DOMAIN u, n < o PROVE Apart(u[n].frames, u[o].frames)
  <2>1. n \in DOMAIN dl /\ u[n] = dl[n]
    BY <1>3, <1>4, <1>5, <1>10
  <2>2. CASE o = l + 1
    BY <1>5, <1>7, <2>1, <2>2
  <2>3. CASE o # l + 1
    BY <1>5, <1>7, <1>10, <2>1, <2>3
  <2> QED
    BY <2>2, <2>3
<1>11. \A v, y \in Workers : v # y /\ Held(r[v]) /\ Held(r[y]) => r[v][1] # r[y][1]
  BY <1>2, <1>7
<1>12. Ordered(ts, r, u)
  BY <1>7, <1>8, <1>9, <1>10, <1>11 DEF Ordered, Held
<1>13. Handed(ts, r, u) \subseteq Handed(ts, rn, dl)
  <2>1. \A i \in DOMAIN ts : ts[i] \in Handed(ts, rn, dl)
    BY HandedParts
  <2>2. \A v \in Workers : Held(r[v]) => r[v] \in Handed(ts, rn, dl)
    BY <1>2, HandedParts
  <2>3. \A n \in DOMAIN u : u[n].frames \in Handed(ts, rn, dl)
    BY <1>5, HandedParts
  <2> QED
    BY <2>1, <2>2, <2>3 DEF Handed, Held
<1> QED
  BY <1>12, <1>13 DEF u, r, c

\* a thread that holds nothing ends; all of them begin anew
LEMMA IdleOrder ==
  ASSUME NEW ts, NEW rn, NEW dl, Ordered(ts, rn, dl), NEW r,
         \A w \in Workers : ~Held(r[w]) \/ r[w] = rn[w]
  PROVE  /\ Ordered(ts, r, dl) /\ Handed(ts, r, dl) \subseteq Handed(ts, rn, dl)
         /\ Ordered(<<>>, r, dl) /\ Handed(<<>>, r, dl) \subseteq Handed(ts, rn, dl)
<1>1. DOMAIN <<>> = {}
  OBVIOUS
<1>2. \A w \in Workers : Held(r[w]) => r[w] = rn[w] /\ Held(rn[w])
  OBVIOUS
<1>3. Ordered(ts, r, dl) /\ Ordered(<<>>, r, dl)
  BY <1>1, <1>2 DEF Ordered, Held
<1>4. \A w \in Workers : Held(r[w]) => r[w] \in Handed(ts, rn, dl)
  BY <1>2, HandedParts
<1> QED
  BY <1>1, <1>3, <1>4, HandedParts DEF Handed, Held

(***************************************************************************)
(* The parts of a step.                                                    *)
(***************************************************************************)
LEMMA EndsStay ==
  ASSUME env' = env
  PROVE  Ends' = Ends
<1> DEFINE E(e) == CHOOSE f : f = [k \in Nat |->
                     IF k = 0 THEN 1
                     ELSE f[k - 1] + 2 + (IF e.side = "server" THEN 4 ELSE 0) + e.program[k].size]
<1>1. Ends = E(env)
  BY DEF Ends, Mask, program
<1>2. Ends' = E(env')
  BY DEF Ends, Mask, program
<1> HIDE DEF E
<1> QED
  BY <1>1, <1>2

Hands(f, s) ==
  \A m \in Handed(tasks, running, delivered) : Complete(m, s) /\ (f # <<>> => m[1] < f[1])

\* the invariant holds whatever env is called
LEMMA Stays ==
  ASSUME env' = env, stage' # "handshake", start' <= got', head'.size \in {0, 2},
         Begun(fragments', start'),
         \A m \in Handed(tasks', running', delivered') :
           Complete(m, start') /\ (fragments' # <<>> => m[1] < fragments'[1]),
         Ordered(tasks', running', delivered')
  PROVE  OInv'
<1>1. Ends' = Ends /\ Frame' = Frame /\ program' = program /\ Messages' = Messages
  BY EndsStay DEF Frame, program, Messages, IsMessage, Data
<1>2. Begun(fragments, start)'
  BY <1>1 DEF Begun, Since, Gone
<1>3. (\A m \in Handed(tasks, running, delivered) :
         Complete(m, start) /\ (fragments # <<>> => m[1] < fragments[1]))'
  BY <1>1 DEF Complete, Gone, Handed
<1>4. Ordered(tasks, running, delivered)'
  BY DEF Ordered, Apart, Single
<1> QED
  BY <1>2, <1>3, <1>4 DEF OInv

\* all that was handed over lies before the reader
LEMMA HandsOn ==
  ASSUME env \in Environments, start \in Int, NEW t \in Int, start <= t, NEW f, Hands(f, start)
  PROVE  Hands(f, t) /\ Hands(<<>>, t)
BY CompleteOn DEF Hands

LEMMA HandsNumber ==
  ASSUME env \in Environments, NEW s, NEW f, Hands(f, s)
  PROVE  Firsts(tasks, running, delivered)
BY ProgramIs DEF Hands, Complete, Gone, Firsts

LEMMA HandsNewest ==
  ASSUME NEW s, NEW f, Hands(f, s), NEW k, UpTo(k, s)
  PROVE  Newest(k, tasks, running, delivered)
BY DEF Hands, Complete, Gone, Newest, UpTo

\* what Frame::get() says of the frame at hand
LEMMA GetFrame ==
  ASSUME Read, head.size \in {0, 2}, got - start >= 2 => FrameAt(start) # 0,
         NEW h, h = Get, NEW k, k = FrameAt(start)
  PROVE  /\ h.size \in {0, 2}
         /\ HasPayload(h) =>
              /\ k \in Frame /\ Ends[k - 1] = start
              /\ h.op = program[k].op /\ h.fin = program[k].fin
              /\ h.frame > 0 /\ start + h.frame = Ends[k] /\ Ends[k] <= got
         /\ Control(h.op) /\ h.frame > 0 /\ got - start >= h.frame =>
              /\ k \in Frame /\ Ends[k - 1] = start /\ Control(program[k].op)
              /\ start + h.frame <= Ends[k]
<1> DEFINE size == got - start
           g == IF size < 2 THEN head ELSE HeadOf(k)
           whole == g.size + g.masked + g.payload <= size
           n == IF whole THEN g.size + g.masked + g.payload ELSE g.size
           b == whole /\ Malformed(g)
<1>1. size \in Int /\ got \in Int /\ start \in Int /\ env \in Environments
  BY DEF Read
<1>2. h = [g EXCEPT !.bad = b, !.frame = n]
  BY DEF Get
<1>3. size < 2 \/ (k \in Frame /\ Ends[k - 1] = start)
  BY <1>1, FrameHere
<1>4. IsHead(g) /\ g.size \in {0, 2}
  <2>1. CASE size < 2
    BY <2>1 DEF Read
  <2>2. CASE ~(size < 2)
    <3>1. g = HeadOf(k) /\ k \in Frame
      BY <1>3, <2>2
    <3> QED
      BY <3>1, HeadOfHead DEF HeadOf
  <2> QED
    BY <2>1, <2>2
<1>5. ~(size < 2) =>
        /\ g.op = program[k].op /\ g.fin = program[k].fin /\ g.size = 2 /\ g.masked = Mask
        /\ g.payload = program[k].size /\ program[k].size \in Nat /\ Mask \in Nat
        /\ Ends[k] = start + 2 + Mask + program[k].size
  <2> SUFFICES ASSUME ~(size < 2)
               PROVE  /\ g.op = program[k].op /\ g.fin = program[k].fin /\ g.size = 2 /\ g.masked = Mask
                      /\ g.payload = program[k].size /\ program[k].size \in Nat /\ Mask \in Nat
                      /\ Ends[k] = start + 2 + Mask + program[k].size
    OBVIOUS
  <2>1. g = HeadOf(k) /\ k \in Frame /\ Ends[k - 1] = start
    BY <1>3
  <2>2. /\ HeadOf(k).op = program[k].op /\ HeadOf(k).fin = program[k].fin /\ HeadOf(k).size = 2
        /\ HeadOf(k).masked = Mask /\ HeadOf(k).payload = program[k].size
    BY DEF HeadOf
  <2>3. program[k].size \in Nat /\ Mask \in Nat /\ Ends[k] = start + 2 + Mask + program[k].size
    BY <1>1, <2>1, ProgramIs, EndsNext DEF Mask
  <2> HIDE DEF g
  <2> QED
    BY <2>1, <2>2, <2>3
<1> HIDE DEF g, b
<1>6. /\ h.op = g.op /\ h.fin = g.fin /\ h.size = g.size /\ h.payload = g.payload /\ h.frame = n
  BY <1>2, <1>4 DEF IsHead, Fields
<1>7. PICK p \in Nat, q \in Nat, z \in {0, 2} : p = g.payload /\ q = g.masked /\ z = g.size
  BY <1>4 DEF IsHead
<1>8. z + q >= 2 /\ h.payload = p /\ h.size = z /\ h.frame = IF z + q + p <= size THEN z + q + p ELSE z
  BY <1>4, <1>6, <1>7 DEF IsHead
<1> HIDE DEF n, whole
<1>9. size < 2 => h.frame = z /\ ~(0 < z /\ z <= size)
  BY <1>1, <1>7, <1>8
<1>10. ASSUME HasPayload(h)
       PROVE  /\ k \in Frame /\ Ends[k - 1] = start
              /\ h.op = program[k].op /\ h.fin = program[k].fin
              /\ h.frame > 0 /\ start + h.frame = Ends[k] /\ Ends[k] <= got
  <2>1. h.frame > z
    BY <1>8, <1>10 DEF HasPayload
  <2>2. ~(size < 2) /\ h.frame = z + q + p /\ z + q + p <= size
    BY <1>1, <1>7, <1>8, <1>9, <2>1
  <2>3. z = 2 /\ q = Mask /\ p = program[k].size /\ Ends[k] = start + 2 + q + p
    BY <1>5, <1>7, <2>2
  <2>4. start + h.frame = Ends[k] /\ Ends[k] <= got /\ h.frame > 0
    BY <1>1, <1>7, <2>2, <2>3
  <2> QED
    BY <1>3, <1>5, <1>6, <2>2, <2>4
<1>11. ASSUME Control(h.op), h.frame > 0, got - start >= h.frame
       PROVE  /\ k \in Frame /\ Ends[k - 1] = start /\ Control(program[k].op)
              /\ start + h.frame <= Ends[k]
  <2>1. ~(size < 2)
    BY <1>1, <1>7, <1>9, <1>11
  <2>2. z = 2 /\ q = Mask /\ p = program[k].size /\ Ends[k] = start + 2 + q + p
    BY <1>5, <1>7, <2>1
  <2>3. start + h.frame <= Ends[k]
    BY <1>1, <1>7, <1>8, <2>2
  <2> QED
    BY <1>3, <1>5, <1>6, <1>11, <2>1, <2>3
<1> QED
  BY <1>4, <1>6, <1>10, <1>11

\* the reader takes a frame from the buffer, or waits for its rest
LEMMA AdvanceMoves ==
  ASSUME Read, start <= got, NEW h, h.frame \in Int, Advance(h)
  PROVE  /\ head' = h /\ stage' # "handshake" /\ start' \in Int
         /\ \/ start' = start
            \/ h.frame > 0 /\ got - start >= h.frame /\ start' = start + h.frame
         /\ h.frame > 0 /\ got - start >= h.frame => start' = start + h.frame
         /\ start <= start' /\ start' <= got
BY DEF Read, Advance

LEMMA HandOverOrder ==
  ASSUME NEW fl, Pool(tasks, running, delivered, fl), inflate' \in Flags,
         Ordered(tasks, running, delivered), Firsts(tasks, running, delivered),
         NEW m \in Seq(Frame), m[1] \in Nat, Newest(m[1], tasks, running, delivered), HandOver(m)
  PROVE  /\ Ordered(tasks', running', delivered')
         /\ Handed(tasks', running', delivered') \subseteq Handed(tasks, running, delivered) \cup {m}
<1>1. Queues(tasks, delivered)
  BY DEF Pool, Queues
<1>2. CASE Pooled
  <2>1. tasks' = Append(tasks, m) /\ running' = running /\ delivered' = delivered
    BY <1>2 DEF HandOver, Push
  <2> QED
    BY <1>1, <2>1, TaskOrder
<1>3. CASE ~Pooled
  <2>1. tasks = <<>> /\ \A w \in Workers : running[w] = Idle
    BY <1>3 DEF Pool
  <2>2. /\ tasks' = <<>> /\ running' = running
        /\ delivered' = Append(delivered, [frames |-> m, inflate |-> inflate'])
    BY <1>3, <2>1 DEF HandOver, Extraction, pool
  <2> DEFINE fl2 == inflate'
  <2>3. fl2 \in Flags /\ delivered' = Append(delivered, [frames |-> m, inflate |-> fl2])
    BY <2>2
  <2> HIDE DEF fl2
  <2>4. /\ Queues(<<>>, delivered) /\ Firsts(<<>>, running, delivered)
        /\ Ordered(<<>>, running, delivered) /\ Newest(m[1], <<>>, running, delivered)
    BY <1>1, <2>1
  <2>5. /\ Ordered(<<>>, running, Append(delivered, [frames |-> m, inflate |-> fl2]))
        /\ Handed(<<>>, running, Append(delivered, [frames |-> m, inflate |-> fl2]))
             \subseteq Handed(<<>>, running, delivered) \cup {m}
    BY <2>1, <2>3, <2>4, CallOrder
  <2> QED
    BY <2>1, <2>2, <2>3, <2>5
<1> QED
  BY <1>2, <1>3

LEMMA FailOrder ==
  ASSUME WInv, OInv, env' = env, got' = got, NEW h, h.size \in {0, 2}, Fail(h)
  PROVE  OInv'
<1>1. /\ start' = got /\ fragments' = <<>> /\ head' = h /\ stage' # "handshake"
      /\ tasks' = tasks /\ running' = running /\ delivered' = delivered
  BY DEF Fail, pool
<1>2. env \in Environments /\ start \in Int /\ got \in Int /\ start <= got
  BY DEF WInv, Read, OInv
<1>3. Hands(fragments, start)
  BY DEF OInv, Hands
<1>4. Hands(<<>>, got)
  BY <1>2, <1>3, HandsOn
<1>5. Begun(<<>>, got)
  BY DEF Begun
<1>6. \A m \in Handed(tasks', running', delivered') :
        Complete(m, start') /\ (fragments' # <<>> => m[1] < fragments'[1])
  BY <1>1, <1>4 DEF Hands
<1>7. Ordered(tasks', running', delivered')
  BY <1>1 DEF OInv
<1> QED
  BY <1>1, <1>2, <1>5, <1>6, <1>7, Stays

\* nothing is taken, or a control frame, or the beginning of one
LEMMA ControlOrder ==
  ASSUME WInv, OInv, env' = env, got' = got, stage' # "handshake", head'.size \in {0, 2},
         start' \in Int, start <= start', start' <= got,
         NEW k, start' = start \/ (k \in Frame /\ Ends[k - 1] = start /\ start' <= Ends[k]
                                   /\ Control(program[k].op)),
         UNCHANGED <<fragments, delivered, pool>>
  PROVE  OInv'
<1>1. tasks' = tasks /\ running' = running /\ delivered' = delivered /\ fragments' = fragments
  BY DEF pool
<1>2. env \in Environments /\ start \in Int /\ got \in Int
  BY DEF WInv, Read
<1>3. Hands(fragments, start)
  BY DEF OInv, Hands
<1> DEFINE t == start'
<1>4. t \in Int /\ start <= t
  OBVIOUS
<1>5. \A c \in Frame : ~Control(program[c].op) => (Gone(c, start) <=> Gone(c, t))
  <2>1. CASE start' = start
    BY <2>1
  <2>2. CASE k \in Frame /\ Ends[k - 1] = start /\ t <= Ends[k] /\ Control(program[k].op)
    <3> HIDE DEF t
    <3>1. UpTo(k, start) /\ \A c \in Frame : Gone(c, t) => c <= k
      BY <1>2, <1>4, <2>2, Passed
    <3>2. \A c \in Frame : Gone(c, start) => Gone(c, t)
      BY <1>2, <1>4, ProgramIs, EndsAreNat DEF Gone
    <3>3. \A c \in Frame : c \in Nat /\ k \in Nat
      BY <1>2, <2>2, ProgramIs
    <3>4. \A c \in Frame : Gone(c, t) => c < k \/ c = k
      BY <3>1, <3>3
    <3>5. \A c \in Frame : Gone(c, t) /\ ~Control(program[c].op) => Gone(c, start)
      BY <2>2, <3>1, <3>4 DEF UpTo
    <3> QED
      BY <3>2, <3>5
  <2> QED
    BY <2>1, <2>2
<1> HIDE DEF t
<1>6. Hands(fragments, t)
  BY <1>2, <1>3, <1>4, HandsOn
<1>7. Begun(fragments, t)
  BY <1>5, BegunOver DEF OInv
<1>8. t = start'
  BY DEF t
<1>9. \A m \in Handed(tasks', running', delivered') :
        Complete(m, start') /\ (fragments' # <<>> => m[1] < fragments'[1])
  BY <1>1, <1>6, <1>8 DEF Hands
<1>10. Ordered(tasks', running', delivered')
  BY <1>1 DEF OInv
<1> QED
  BY <1>1, <1>7, <1>8, <1>9, <1>10, Stays

\* a frame of data goes into the fragments
LEMMA KeepOrder ==
  ASSUME WInv, OInv, env' = env, got' = got, stage' # "handshake", head'.size \in {0, 2},
         start' <= got, NEW k \in Frame, Ends[k - 1] = start, start' = Ends[k],
         UNCHANGED <<delivered, pool>>, NEW f, fragments' = f, f # <<>>, Begun(f, Ends[k]),
         f[1] = k \/ (fragments # <<>> /\ f[1] = fragments[1])
  PROVE  OInv'
<1>1. tasks' = tasks /\ running' = running /\ delivered' = delivered
  BY DEF pool
<1>2. env \in Environments /\ start \in Int
  BY DEF WInv, Read
<1>3. Hands(fragments, start)
  BY DEF OInv, Hands
<1>4. Ends[k] \in Int /\ start <= Ends[k]
  BY <1>2, EndsStep
<1>5. UpTo(k, start)
  BY <1>2, <1>4, Passed
<1>6. Newest(k, tasks, running, delivered)
  BY <1>3, <1>5, HandsNewest
<1>7. Hands(fragments, Ends[k])
  BY <1>2, <1>3, <1>4, HandsOn
<1>8. \A m \in Handed(tasks, running, delivered) : Complete(m, Ends[k]) /\ m[1] < f[1]
  BY <1>6, <1>7 DEF Hands, Newest
<1>9. Ordered(tasks, running, delivered)
  BY DEF OInv
<1> QED
  BY <1>1, <1>8, <1>9, Stays

\* a message is handed over that frame k completes
LEMMA GiveOrder ==
  ASSUME WInv, OInv, env' = env, got' = got, stage' # "handshake", head'.size \in {0, 2},
         start' <= got, NEW k \in Frame, Ends[k - 1] = start, start' = Ends[k],
         fragments' = <<>>, NEW m, HandOver(m), Complete(m, Ends[k]), inflate' \in Flags,
         m[1] = k \/ (fragments # <<>> /\ m[1] = fragments[1])
  PROVE  OInv'
<1>1. env \in Environments /\ start \in Int /\ Pool(tasks, running, delivered, inflate)
  BY DEF WInv, Read
<1>2. Hands(fragments, start) /\ Ordered(tasks, running, delivered)
  BY DEF OInv, Hands
<1>3. Ends[k] \in Int /\ start <= Ends[k]
  BY <1>1, EndsStep
<1>4. UpTo(k, start)
  BY <1>1, <1>3, Passed
<1>5. Newest(k, tasks, running, delivered)
  BY <1>2, <1>4, HandsNewest
<1>6. Newest(m[1], tasks, running, delivered)
  BY <1>2, <1>5 DEF Hands, Newest
<1>7. Firsts(tasks, running, delivered)
  BY <1>1, <1>2, HandsNumber
<1>8. m \in Seq(Frame) /\ m[1] \in Nat
  BY <1>1, ProgramIs DEF Complete, Gone
<1>9. /\ Ordered(tasks', running', delivered')
      /\ Handed(tasks', running', delivered') \subseteq Handed(tasks, running, delivered) \cup {m}
  BY <1>1, <1>2, <1>6, <1>7, <1>8, HandOverOrder
<1>10. Hands(<<>>, Ends[k])
  BY <1>1, <1>2, <1>3, HandsOn
<1>11. \A n \in Handed(tasks', running', delivered') :
         Complete(n, start') /\ (fragments' # <<>> => n[1] < fragments'[1])
  BY <1>9, <1>10 DEF Hands
<1>12. Begun(fragments', start')
  BY DEF Begun
<1> QED
  BY <1>9, <1>11, <1>12, Stays

LEMMA TextOrder ==
  ASSUME WInv, OInv, env' = env, got' = got, NEW h, h.size \in {0, 2}, h.frame \in Int,
         h.frame > 0, NEW k \in Frame, Ends[k - 1] = start, start + h.frame = Ends[k],
         Ends[k] <= got, h.op = program[k].op, h.fin = program[k].fin, inflate' \in Flags, Text(h, k)
  PROVE  OInv'
<1>1. CASE fragments # <<>>
  BY <1>1, FailOrder DEF Text
<1>2. CASE fragments = <<>>
  <2>1. Read /\ start <= got /\ start \in Int /\ got \in Int /\ env \in Environments
    BY DEF WInv, Read, OInv
  <2>2. got - start >= h.frame
    BY <2>1
  <2>3. head' = h /\ stage' # "handshake" /\ start' = Ends[k]
    BY <1>2, <2>1, <2>2, AdvanceMoves DEF Text
  <2>4. Past(k, Ends[k])
    <3>1. Ends[k] \in Int /\ start <= Ends[k]
      BY <2>1
    <3> QED
      BY <2>1, <3>1, Passed
  <2>5. program[k].op = "TEXT" /\ program[k].fin \in BOOLEAN
    BY <2>1, ProgramIs DEF Text
  <2>6. <<k>> # <<>> /\ <<k>>[1] = k
    OBVIOUS
  <2>7. CASE h.fin
    <3>1. HandOver(<<k>>) /\ fragments' = <<>>
      BY <1>2, <2>7 DEF Text
    <3>2. Complete(<<k>>, Ends[k])
      BY <2>1, <2>4, <2>5, <2>7, CompleteText
    <3> QED
      BY <2>3, <2>6, <3>1, <3>2, GiveOrder
  <2>8. CASE ~h.fin
    <3>1. fragments' = <<k>> /\ UNCHANGED <<delivered, pool>>
      BY <1>2, <2>8 DEF Text
    <3>2. Begun(<<k>>, Ends[k])
      BY <2>1, <2>4, <2>5, <2>8, BegunText
    <3> QED
      BY <2>3, <2>6, <3>1, <3>2, KeepOrder
  <2> QED
    BY <2>7, <2>8
<1> QED
  BY <1>1, <1>2

LEMMA ContinuationOrder ==
  ASSUME WInv, OInv, env' = env, got' = got, NEW h, h.size \in {0, 2}, h.frame \in Int,
         h.frame > 0, NEW k \in Frame, Ends[k - 1] = start, start + h.frame = Ends[k],
         Ends[k] <= got, h.op = program[k].op, h.fin = program[k].fin, inflate' \in Flags,
         Continuation(h, k)
  PROVE  OInv'
<1>1. CASE fragments = <<>>
  BY <1>1, FailOrder DEF Continuation
<1>2. CASE fragments # <<>>
  <2> DEFINE m == Append(fragments, k)
  <2>1. /\ Read /\ start <= got /\ start \in Int /\ got \in Int /\ env \in Environments
        /\ fragments \in Seq(Frame) /\ Begun(fragments, start)
    BY DEF WInv, Read, OInv, Message
  <2>2. got - start >= h.frame
    BY <2>1
  <2>3. head' = h /\ stage' # "handshake" /\ start' = Ends[k]
    BY <1>2, <2>1, <2>2, AdvanceMoves DEF Continuation
  <2>4. UpTo(k, start) /\ Past(k, Ends[k])
    <3>1. Ends[k] \in Int /\ start <= Ends[k]
      BY <2>1
    <3> QED
      BY <2>1, <3>1, Passed
  <2>5. program[k].op = "CONTINUATION" /\ program[k].fin \in BOOLEAN
    BY <2>1, ProgramIs DEF Continuation
  <2>6. m # <<>> /\ m[1] = fragments[1]
    BY <1>2, <2>1
  <2>7. CASE h.fin
    <3>1. HandOver(m) /\ fragments' = <<>>
      BY <1>2, <2>7 DEF Continuation
    <3>2. Complete(m, Ends[k])
      BY <1>2, <2>1, <2>4, <2>5, <2>7, CompleteMore
    <3> HIDE DEF m
    <3> QED
      BY <1>2, <2>3, <2>6, <3>1, <3>2, GiveOrder
  <2>8. CASE ~h.fin
    <3>1. fragments' = m /\ UNCHANGED <<delivered, pool>>
      BY <1>2, <2>8 DEF Continuation
    <3>2. Begun(m, Ends[k])
      BY <1>2, <2>1, <2>4, <2>5, <2>8, BegunMore
    <3> HIDE DEF m
    <3> QED
      BY <1>2, <2>3, <2>6, <3>1, <3>2, KeepOrder
  <2> QED
    BY <2>7, <2>8
<1> QED
  BY <1>1, <1>2

LEMMA IterateOrder ==
  ASSUME WInv, OInv, Iterate
  PROVE  OInv'
<1> DEFINE h == Get
           k == FrameAt(start)
<1>1. /\ env' = env /\ got' = got /\ Read /\ inflate \in Flags /\ (got - start >= 2 => k # 0)
      /\ start <= got /\ head.size \in {0, 2} /\ start \in Int /\ got \in Int
  BY DEF Iterate, WInv, Read, OInv
<1>2. /\ h.size \in {0, 2} /\ h.frame \in Int
      /\ HasPayload(h) =>
           /\ k \in Frame /\ Ends[k - 1] = start
           /\ h.op = program[k].op /\ h.fin = program[k].fin /\ h.rsv = program[k].rsv
           /\ h.frame > 0 /\ start + h.frame = Ends[k] /\ Ends[k] <= got
      /\ Control(h.op) /\ h.frame > 0 /\ got - start >= h.frame =>
           /\ k \in Frame /\ Ends[k - 1] = start /\ Control(program[k].op)
           /\ start + h.frame <= Ends[k]
  <2>1. IsHead(h) /\ (HasPayload(h) => h.rsv = program[k].rsv)
    BY <1>1, GetHead
  <2> HIDE DEF h, k
  <2>2. h.frame \in Int
    BY <2>1 DEF IsHead
  <2> QED
    BY <1>1, <2>1, <2>2, GetFrame DEF h, k
<1>3. \/ Ping(h) \/ Text(h, k) \/ Continuation(h, k) \/ CloseFrame(h)
      \/ Fail(h) /\ UNCHANGED inflate
      \/ Leave(h)
  BY DEF Iterate
<1> HIDE DEF h, k
<1>4. CASE Ping(h)
  <2>1. Advance(h) /\ Control(h.op) /\ UNCHANGED <<fragments, delivered, pool>>
    BY <1>4 DEF Ping, Control
  <2>2. /\ head' = h /\ stage' # "handshake" /\ start' \in Int
        /\ \/ start' = start
           \/ h.frame > 0 /\ got - start >= h.frame /\ start' = start + h.frame
        /\ start <= start' /\ start' <= got
    BY <1>1, <1>2, <2>1, AdvanceMoves
  <2>3. start' = start \/ (k \in Frame /\ Ends[k - 1] = start /\ start' <= Ends[k]
                           /\ Control(program[k].op))
    BY <1>2, <2>1, <2>2
  <2>4. head'.size \in {0, 2}
    BY <1>2, <2>2
  <2> QED
    BY <1>1, <2>1, <2>2, <2>3, <2>4, ControlOrder
<1>5. CASE Text(h, k)
  <2>1. inflate' = h.rsv /\ HasPayload(h)
    BY <1>5 DEF Text
  <2>2. inflate' \in Flags
    BY <1>2, <2>1 DEF Flags
  <2> QED
    BY <1>1, <1>2, <1>5, <2>1, <2>2, TextOrder
<1>6. CASE Continuation(h, k)
  <2>1. inflate' = inflate /\ HasPayload(h)
    BY <1>6 DEF Continuation
  <2> QED
    BY <1>1, <1>2, <1>6, <2>1, ContinuationOrder
<1>7. CASE CloseFrame(h)
  <2>1. /\ head' = h /\ stage' # "handshake" /\ start' = start
        /\ UNCHANGED <<fragments, delivered, pool>>
    BY <1>7 DEF CloseFrame
  <2> QED
    BY <1>1, <1>2, <2>1, ControlOrder
<1>8. CASE Fail(h) /\ UNCHANGED inflate
  BY <1>1, <1>2, <1>8, FailOrder
<1>9. CASE Leave(h)
  <2>1. /\ head' = h /\ stage' # "handshake" /\ start' = start
        /\ UNCHANGED <<fragments, delivered, pool>>
    BY <1>9 DEF Leave
  <2> QED
    BY <1>1, <1>2, <2>1, ControlOrder
<1> QED
  BY <1>3, <1>4, <1>5, <1>6, <1>7, <1>8, <1>9

(***************************************************************************)
(* The steps.                                                              *)
(***************************************************************************)
LEMMA OrderInit == Init => OInv
<1> SUFFICES ASSUME Init PROVE OInv
  OBVIOUS
<1>1. /\ start = 0 /\ got = 0 /\ head.size = 0 /\ fragments = <<>> /\ tasks = <<>> /\ delivered = <<>>
      /\ \A w \in Workers : running[w] = Idle
  BY DEF Init, NoHead
<1>2. DOMAIN tasks = {} /\ DOMAIN delivered = {}
  BY <1>1
<1>3. Handed(tasks, running, delivered) = {}
  BY <1>1, <1>2 DEF Handed
<1>4. Ordered(tasks, running, delivered)
  BY <1>1, <1>2 DEF Ordered
<1> QED
  BY <1>1, <1>3, <1>4 DEF OInv, Begun

\* steps of the pool: the reader does not move
LEMMA PoolOrder ==
  ASSUME WInv, OInv, UNCHANGED <<env, got, start, head, fragments>>,
         stage' = "handshake" => stage = "handshake",
         Ordered(tasks', running', delivered'),
         Handed(tasks', running', delivered') \subseteq Handed(tasks, running, delivered)
  PROVE  OInv'
<1>1. Hands(fragments, start) /\ Begun(fragments, start) /\ start <= got /\ head.size \in {0, 2}
  BY DEF OInv, Hands
<1>2. \A m \in Handed(tasks', running', delivered') :
        Complete(m, start') /\ (fragments' # <<>> => m[1] < fragments'[1])
  BY <1>1 DEF Hands
<1>3. CASE stage' # "handshake"
  BY <1>1, <1>2, <1>3, Stays
<1>4. CASE stage' = "handshake"
  <2>1. Ends' = Ends /\ Frame' = Frame /\ program' = program /\ Messages' = Messages
    BY EndsStay DEF Frame, program, Messages, IsMessage, Data
  <2>2. Begun(fragments, start)'
    BY <1>1, <2>1 DEF Begun, Since, Gone
  <2>3. (\A m \in Handed(tasks, running, delivered) :
           Complete(m, start) /\ (fragments # <<>> => m[1] < fragments[1]))'
    BY <1>2, <2>1 DEF Complete, Gone, Handed
  <2>4. Ordered(tasks, running, delivered)'
    BY DEF Ordered, Apart, Single
  <2> QED
    BY <1>1, <1>4, <2>2, <2>3, <2>4 DEF OInv
<1> QED
  BY <1>3, <1>4

LEMMA ReceiveOrder ==
  ASSUME WInv, OInv, NEW o \in 1..Total, Receive(o)
  PROVE  OInv'
<1>1. /\ env' = env /\ got' = o /\ got < o /\ UNCHANGED <<fragments, tasks, running, delivered>>
  BY DEF Receive
<1>2. /\ env \in Environments /\ start \in Int /\ got \in Int /\ start <= got /\ o \in Int /\ 1 <= o
      /\ Hands(fragments, start) /\ Begun(fragments, start) /\ head.size \in {0, 2}
  BY DEF WInv, Read, OInv, Hands
<1>3. stage' # "handshake" /\ head'.size \in {0, 2}
  BY <1>2 DEF Receive, Handshake, Frames, NoHead
<1>4. /\ start' \in Int /\ start <= start' /\ start' <= o
      /\ start' = start \/ (start = 0 /\ start' = 1)
  BY <1>1, <1>2 DEF Receive, Handshake, Frames, OInv
<1> DEFINE t == start'
<1>5. \A c \in Frame : Gone(c, start) <=> Gone(c, t)
  <2>1. CASE start' = start
    BY <2>1
  <2>2. CASE start = 0 /\ t = 1
    <3>1. ASSUME NEW c \in Frame PROVE Ends[c] > 1
      <4>1. Len(program) \in Nat /\ Frame = 1..Len(program) /\ Ends[0] = 1 /\ Ends[c] \in Nat
        BY <1>2, ProgramIs, EndsAreNat, EndsNext
      <4>2. Ends[0] < Ends[c]
        BY <1>2, <4>1, EndsRise
      <4> QED
        BY <4>1, <4>2
    <3>2. \A c \in Frame : Ends[c] \in Nat
      BY <1>2, ProgramIs, EndsAreNat
    <3> QED
      BY <2>2, <3>1, <3>2 DEF Gone
  <2> QED
    BY <1>4, <2>1, <2>2
<1>6. t \in Int /\ start <= t /\ t = start'
  BY <1>4
<1> HIDE DEF t
<1>7. Hands(fragments, t)
  BY <1>2, <1>6, HandsOn
<1>8. Begun(fragments, t)
  BY <1>2, <1>5, BegunOver
<1>9. \A m \in Handed(tasks', running', delivered') :
        Complete(m, start') /\ (fragments' # <<>> => m[1] < fragments'[1])
  BY <1>1, <1>6, <1>7 DEF Hands
<1>10. Ordered(tasks', running', delivered') /\ Begun(fragments', start') /\ start' <= got'
  BY <1>1, <1>4, <1>6, <1>8 DEF OInv
<1> QED
  BY <1>1, <1>3, <1>9, <1>10, Stays

LEMMA OrderStep == WInv /\ OInv /\ [Next]_vars => OInv'
<1> SUFFICES ASSUME WInv, OInv, [Next]_vars PROVE OInv'
  OBVIOUS
<1>1. /\ env \in Environments /\ Pool(tasks, running, delivered, inflate) /\ inflate \in Flags
      /\ Queues(tasks, delivered) /\ running \in [Workers -> Seq(Frame) \cup {Out}]
      /\ Ordered(tasks, running, delivered) /\ Hands(fragments, start)
  BY DEF WInv, Read, Pool, Queues, OInv, Hands
<1>2. Firsts(tasks, running, delivered)
  BY <1>1, HandsNumber
<1>3. CASE \E o \in 1..Total : Receive(o)
  BY <1>3, ReceiveOrder
<1>4. CASE Iterate
  BY <1>4, IterateOrder
<1>5. CASE Astray \/ Resize \/ UNCHANGED vars
  <2>1. /\ UNCHANGED <<env, got, start, head, fragments, tasks, running, delivered>>
        /\ stage' = "handshake" => stage = "handshake"
    BY <1>5 DEF Astray, Resize, vars
  <2>2. Ordered(tasks', running', delivered')
    BY <1>1, <2>1
  <2>3. Handed(tasks', running', delivered') \subseteq Handed(tasks, running, delivered)
    BY <2>1
  <2> QED
    BY <2>1, <2>2, <2>3, PoolOrder
<1>6. CASE Joined
  <2> DEFINE r == [w \in Workers |-> Idle]
  <2>1. /\ UNCHANGED <<env, got, start, head, fragments, delivered>> /\ stage' # "handshake"
        /\ tasks' = <<>> /\ running' = r
    BY <1>6 DEF Joined
  <2>2. \A w \in Workers : ~Held(r[w])
    BY DEF Held
  <2> HIDE DEF r
  <2>3. Ordered(<<>>, r, delivered) /\ Handed(<<>>, r, delivered) \subseteq Handed(tasks, running, delivered)
    BY <1>1, <2>2, IdleOrder
  <2> QED
    BY <2>1, <2>3, PoolOrder
<1>7. ASSUME NEW w \in Workers, Take(w) PROVE OInv'
  <2>1. /\ UNCHANGED <<env, got, start, head, fragments, delivered, stage>>
        /\ w \in env.threads /\ running[w] = Idle /\ tasks # <<>>
        /\ tasks' = Tail(tasks) /\ running' = [running EXCEPT ![w] = tasks[1]]
    BY <1>7 DEF Take
  <2>2. /\ Ordered(Tail(tasks), [running EXCEPT ![w] = tasks[1]], delivered)
        /\ Handed(Tail(tasks), [running EXCEPT ![w] = tasks[1]], delivered)
             \subseteq Handed(tasks, running, delivered)
    BY <1>1, <1>2, <2>1, TakeOrder
  <2> QED
    BY <2>1, <2>2, PoolOrder
<1>8. ASSUME NEW w \in Workers, Run(w) PROVE OInv'
  <2> DEFINE u == Append(delivered, [frames |-> running[w], inflate |-> inflate])
  <2>1. /\ UNCHANGED <<env, got, start, head, fragments, tasks, stage>>
        /\ Held(running[w]) /\ running[w] \in Seq(Frame)
        /\ delivered' = u
    BY <1>1, <1>8 DEF Run, Held
  <2>2. PICK x \in {Idle, Out} : running' = [running EXCEPT ![w] = x]
    BY <1>8 DEF Run
  <2>3. /\ Ordered(tasks, [running EXCEPT ![w] = x], u)
        /\ Handed(tasks, [running EXCEPT ![w] = x], u) \subseteq Handed(tasks, running, delivered)
    BY <1>1, <1>2, <2>1, RunOrder
  <2> HIDE DEF u
  <2> QED
    BY <2>1, <2>2, <2>3, PoolOrder
<1>9. ASSUME NEW w \in Workers, Exit(w) PROVE OInv'
  <2> DEFINE r == [running EXCEPT ![w] = Out]
  <2>1. /\ UNCHANGED <<env, got, start, head, fragments, tasks, delivered, stage>>
        /\ running' = r
    BY <1>9 DEF Exit
  <2>2. \A v \in Workers : ~Held(r[v]) \/ r[v] = running[v]
    BY <1>1 DEF Held
  <2> HIDE DEF r
  <2>3. Ordered(tasks, r, delivered) /\ Handed(tasks, r, delivered) \subseteq Handed(tasks, running, delivered)
    BY <1>1, <2>2, IdleOrder
  <2> QED
    BY <2>1, <2>3, PoolOrder
<1> QED
  BY <1>3, <1>4, <1>5, <1>6, <1>7, <1>8, <1>9 DEF Next

LEMMA OrderAlways == Spec => [](WInv /\ OInv)
BY WInvInit, WInvStep, OrderInit, OrderStep, PTL DEF Spec

\* The application gets whole messages of the peer, their frames in order, and none of them
\* twice, for any frames, reads and threads.
THEOREM WholeAlways == Spec => []Whole
<1>1. WInv /\ OInv => Whole
  <2> SUFFICES ASSUME WInv, OInv PROVE Whole
    OBVIOUS
  <2>1. \A n \in DOMAIN delivered : Complete(delivered[n].frames, start)
    BY HandedParts DEF OInv
  <2>2. \A n \in DOMAIN delivered : n \in Nat
    BY DEF WInv, Pool
  <2>3. Ordered(tasks, running, delivered)
    BY DEF OInv
  <2>4. \A n, o \in DOMAIN delivered :
          delivered[n].frames = delivered[o].frames => n = o
    <3> SUFFICES ASSUME NEW n \in DOMAIN delivered, NEW o \in DOMAIN delivered, n # o
                 PROVE  delivered[n].frames # delivered[o].frames
      OBVIOUS
    <3>1. n < o \/ o < n
      BY <2>2
    <3> QED
      BY <2>3, <3>1 DEF Ordered, Apart
  <2> QED
    BY <2>1, <2>4 DEF Whole, Complete
<1> QED
  BY <1>1, OrderAlways, PTL

\* Without a pool, or with one thread in it, messages arrive in the order of the peer, for any
\* frames and any reads, and whenever the pool is set up anew.
THEOREM InOrderAlways == Spec => []InOrder
<1>1. OInv => InOrder
  BY DEF OInv, Ordered, Apart, Single, InOrder
<1> QED
  BY <1>1, OrderAlways, PTL
=============================================================================
