------------------------------ MODULE Channel ------------------------------
(***************************************************************************)
(* One direction of the link between the master and a child process:       *)
(* Cluster::send and Cluster::write/sending on top of cmp::Encoder, a      *)
(* stream socket, and the read handler of the worker on top of             *)
(* cmp::Decoder (src/cluster/cluster.cpp, src/cluster/cmp.cpp).            *)
(*                                                                         *)
(* A message travels as HeaderSize units of header and Size[m] units of    *)
(* payload; unit k of message m is the pair <<m, k>>.  The socket keeps    *)
(* the order of the units and nothing else: a read may end anywhere.       *)
(***************************************************************************)
EXTENDS Naturals, Sequences

CONSTANTS
  Messages,      \* the messages sent, each once
  Size,          \* the payload of a message as it is put on the wire
  HeaderSize,    \* cmp::HEADER_SIZE
  MaxRecords,    \* _max.records of the queue inside the decoder
  MaxRead,       \* the size of the buffer recv() fills
  SocketBuffer,  \* what the kernel holds before send() answers EAGAIN
  Undecodable,   \* messages hash_t::decode() returns nothing for
  Corrupted,     \* messages whose header arrives without the signature
  None           \* no header is pending

ASSUME ChannelAssumption ==
  /\ Size \in [Messages -> Nat \ {0}]
  /\ HeaderSize \in Nat \ {0} /\ MaxRecords \in Nat \ {0}
  /\ MaxRead \in Nat \ {0} /\ SocketBuffer \in Nat \ {0}
  /\ Undecodable \subseteq Messages /\ Corrupted \subseteq Messages
  /\ None \notin Messages

VARIABLES
  encoder,  \* Encoder::_buffer
  listens,  \* the WRITE event of the socket is enabled
  wire,     \* the units inside the socket
  buffer,   \* Decoder::_buffer
  header,   \* Decoder::_header, or None while its size is 0
  input,    \* what prepare() has not consumed yet
  busy,     \* the reader is inside Decoder::push, holding its mutex
  hung,     \* the reader waits for a mutex or a condition nobody else can give
  queue,    \* Decoder::_queue
  sent,     \* the messages send() has been called with, in order
  got       \* the messages handed to the "message" callback, in order

sender == <<encoder, listens, sent>>
decoder == <<buffer, header, input, busy, hung, queue>>
channelVars == <<sender, wire, decoder, got>>

\* Encoder::push and work(): the header, then the payload in pieces
Units(m) == [k \in 1..HeaderSize + Size[m] |-> <<m, k>>]

Among(m, s) == \E i \in DOMAIN s : s[i] = m
Take(s, n) == SubSeq(s, 1, n)
Past(s, n) == SubSeq(s, n + 1, Len(s))
Least(m, n) == IF m <= n THEN m ELSE n

(***************************************************************************)
(* The sender                                                              *)
(***************************************************************************)
\* write(): send until the encoder is empty or the socket refuses more; then
\* the WRITE event is enabled and the rest waits for it
WriteOut(bytes, event) ==
  LET n == Least(Len(bytes), SocketBuffer - Len(wire)) IN
  /\ wire' = wire \o Take(bytes, n)
  /\ encoder' = Past(bytes, n)
  /\ listens' = (event \/ n < Len(bytes))

\* a plausible slip: the event is switched off after the write, not before it
WritableDisarms ==
  /\ listens
  /\ Len(wire) < SocketBuffer
  /\ listens' = FALSE
  /\ LET n == Least(Len(encoder), SocketBuffer - Len(wire)) IN
     /\ wire' = wire \o Take(encoder, n)
     /\ encoder' = Past(encoder, n)
  /\ UNCHANGED <<sent, decoder, got>>

\* a plausible slip: write() at once although older units wait in the encoder
SendPastEncoder(m) ==
  /\ ~Among(m, sent)
  /\ sent' = Append(sent, m)
  /\ LET n == Least(Len(Units(m)), SocketBuffer - Len(wire)) IN
     /\ wire' = wire \o Take(Units(m), n)
     /\ encoder' = encoder \o Past(Units(m), n)
     /\ listens' = (listens \/ n < Len(Units(m)))
  /\ UNCHANGED <<decoder, got>>

\* send(): nothing is written while older messages wait for the WRITE event
Send(m) ==
  /\ ~Among(m, sent)
  /\ sent' = Append(sent, m)
  /\ \/ /\ encoder = <<>>
        /\ WriteOut(Units(m), listens)
     \/ /\ encoder # <<>>
        /\ encoder' = encoder \o Units(m)
        /\ UNCHANGED <<listens, wire>>
  /\ UNCHANGED <<decoder, got>>

\* sending(): the WRITE event is disabled, then write() runs
Writable ==
  /\ listens
  /\ Len(wire) < SocketBuffer
  /\ WriteOut(encoder, FALSE)
  /\ UNCHANGED <<sent, decoder, got>>

(***************************************************************************)
(* The reader                                                              *)
(***************************************************************************)
\* the READ event: recv() into the worker's buffer, then Decoder::push().  The
\* handler has emptied the queue before it returned to the event loop.
Recv(n) ==
  /\ ~busy /\ ~hung /\ queue = <<>>
  /\ n <= Len(wire)
  /\ wire' = Past(wire, n)
  /\ input' = buffer \o Take(wire, n)
  /\ buffer' = <<>>
  /\ busy' = TRUE
  /\ UNCHANGED <<sender, header, hung, queue, got>>

\* prepare(): another round of process()
Again(used, left) == used > 0 /\ Len(left) >= HeaderSize

\* process(): the header that is pending after it
Pending(m, complete) == IF complete THEN None ELSE m

\* one call of process(): a header if none is pending, and its payload if all
\* of it is there
Process ==
  LET starts == header = None /\ Len(input) >= HeaderSize
      m == IF starts THEN input[1][1] ELSE header
      rest == IF starts THEN Past(input, HeaderSize) ELSE input
      complete == m # None /\ Len(rest) >= Size[m]
      left == IF complete THEN Past(rest, Size[m]) ELSE rest
      signed == input[1][1] \notin Corrupted /\ input[1][2] = 1
  IN
  /\ busy /\ ~hung
  /\ \/ \* clear() asks for the mutex push() holds
        /\ starts /\ ~signed
        /\ hung' = TRUE
        /\ UNCHANGED <<buffer, header, input, busy, queue>>
     \/ \* Queue::push waits for a pop() only this thread could make
        /\ starts => signed
        /\ complete /\ m \notin Undecodable
        /\ Len(queue) >= MaxRecords
        /\ hung' = TRUE
        /\ UNCHANGED <<buffer, header, input, busy, queue>>
     \/ /\ starts => signed
        /\ complete /\ m \notin Undecodable => Len(queue) < MaxRecords
        /\ queue' = IF complete /\ m \notin Undecodable THEN Append(queue, m) ELSE queue
        /\ header' = Pending(m, complete)
        /\ busy' = Again(Len(input) - Len(left), left)
        /\ IF busy' THEN input' = left /\ buffer' = <<>>
                    ELSE input' = <<>> /\ buffer' = left
        /\ UNCHANGED hung
  /\ UNCHANGED <<sender, wire, got>>

\* get(), the callback, pop()
Deliver ==
  /\ ~busy /\ ~hung
  /\ queue # <<>>
  /\ got' = Append(got, Head(queue))
  /\ queue' = Tail(queue)
  /\ UNCHANGED <<sender, wire, buffer, header, input, busy, hung>>

ChannelInit ==
  /\ encoder = <<>> /\ listens = FALSE /\ sent = <<>>
  /\ wire = <<>>
  /\ buffer = <<>> /\ header = None /\ input = <<>>
  /\ busy = FALSE /\ hung = FALSE /\ queue = <<>>
  /\ got = <<>>

ReaderSteps == Process \/ Deliver \/ \E n \in 1..MaxRead : Recv(n)

ChannelNext == \/ \E m \in Messages : Send(m)
        \/ Writable
        \/ \E n \in 1..MaxRead : Recv(n)
        \/ Process
        \/ Deliver

ChannelSpec == ChannelInit /\ [][ChannelNext]_channelVars

\* The event loops of both processes serve events that are ready.
ChannelFairSpec == ChannelSpec /\ WF_channelVars(Writable) /\ WF_channelVars(ReaderSteps)
-----------------------------------------------------------------------------
Unit == UNION {{m} \X (1..HeaderSize + Size[m]) : m \in Messages}

ChannelTypeOK ==
  /\ encoder \in Seq(Unit) /\ wire \in Seq(Unit)
  /\ buffer \in Seq(Unit) /\ input \in Seq(Unit)
  /\ header \in Messages \cup {None}
  /\ listens \in BOOLEAN /\ busy \in BOOLEAN /\ hung \in BOOLEAN
  /\ queue \in Seq(Messages) /\ got \in Seq(Messages)
  /\ sent \in Seq(Messages)

(***************************************************************************)
(* What is left in the encoder is waited for: the WRITE event is enabled   *)
(* (cluster.cpp:817), so nothing stays behind when the socket drains.      *)
(***************************************************************************)
RestIsArmed == encoder # <<>> => listens

(***************************************************************************)
(* After Decoder::push every message that has arrived completely is in the *)
(* queue; none waits in the buffer for the next read (cmp.cpp:894 to 900). *)
(***************************************************************************)
Complete(m, s) == \E i \in 1..Len(s) : s[i] = <<m, HeaderSize + Size[m]>>

NothingHeldBack ==
  ~busy => \A m \in Messages : ~Complete(m, buffer)

(***************************************************************************)
(* The messages come out once each, in the order they were sent, whatever  *)
(* the reads and the partial writes were, and none is lost between send()  *)
(* and the callback: what has come out, and then the messages whose end is *)
(* still on the way, are in the order of send(); and every message that    *)
(* can be decoded is one of them.  A message that cannot be decoded takes  *)
(* no other one with it.                                                   *)
(***************************************************************************)
Out == got \o queue
Line == input \o buffer \o wire \o encoder

EndsMessage(u) == u[2] = HeaderSize + Size[u[1]]

Before(m, n) ==
  \E i, j \in DOMAIN sent : i < j /\ sent[i] = m /\ sent[j] = n

OutInOrder == \A i, j \in DOMAIN Out : i < j => Before(Out[i], Out[j])

EndsInOrder ==
  \A i, j \in DOMAIN Line :
    i < j /\ EndsMessage(Line[i]) /\ EndsMessage(Line[j]) => Before(Line[i][1], Line[j][1])

OutFirst ==
  \A i \in DOMAIN Out, j \in DOMAIN Line :
    EndsMessage(Line[j]) => Before(Out[i], Line[j][1])

NoneInvented ==
  /\ \A i \in DOMAIN Out : Among(Out[i], sent) /\ Out[i] \notin Undecodable
  /\ \A i \in DOMAIN Line : Among(Line[i][1], sent)

NoneLost ==
  \A i \in DOMAIN sent :
    \/ sent[i] \in Undecodable \/ Among(sent[i], Out)
    \/ \E j \in DOMAIN Line : Line[j][1] = sent[i] /\ EndsMessage(Line[j])

InOrder == OutInOrder /\ EndsInOrder /\ OutFirst /\ NoneInvented /\ NoneLost

(***************************************************************************)
(* Every message that is sent and can be decoded is handed to the callback *)
(***************************************************************************)
Arrives ==
  \A m \in Messages \ Undecodable :
    Among(m, sent) ~> Among(m, got)

(***************************************************************************)
(* Decoder::push "adds the data to the protocol" (cmp.hpp) and returns.    *)
(***************************************************************************)
PushReturns == ~hung
=============================================================================
