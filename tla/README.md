# awh: verification project

TLA+ models of [AWH](../src/README.md), a C++ network library (clients and
servers for HTTP, WebSocket, SOCKS5 and proxies over its own event loop, network
core and process cluster), with the instances TLC checks and the theorems TLAPS
proves about them. Paths below are relative to the repository; `file.cpp:n` is
line n of that file.

1. [The system](#1-the-system)
2. [Modules](#2-modules)
3. [What is checked](#3-what-is-checked)
4. [What is proved](#4-what-is-proved)
5. [Where the code disagrees with its documentation](#5-where-the-code-disagrees-with-its-documentation)
6. [What is not modelled](#6-what-is-not-modelled)
7. [Plan](#7-plan)

To repeat everything, in this directory:

    for m in Queue:users Channel:stream Outbox:budget Cluster:supervise \
             ClientCore:life ServerCore:serve EventBase:loop Watch:clock \
             WebSocket:frames HttpClient:requests HttpServer:requests \
             Socks5:tunnel; do
      tlc -config MC${m%:*}_${m#*:}.cfg MC${m%:*}
    done
    for m in Thread Wire Loop ClientCore ServerCore WebSocket HttpClient Socks5; do
      tlapm ${m}Proofs.tla
    done

## 1. The system

One thread runs the event loop and nearly all of the library. A handler, with
the callbacks it makes, runs to its end before the next begins, so most of the
hard behaviour comes from *sequences* of handlers: an answer that arrives after
the thing it is about is gone, a write the socket takes in parts, a timer of
something that was closed, a callback that changes the list the loop walks over.
Real concurrency exists in four places: the clock (`watch.cpp` on
`screen.hpp`), the logger on the same `Screen`, the thread pool of the web
clients, and, between processes, the cluster with its signals. The record queue
is written for threads, too.

### Components

For each: state, operations, how it meets the others, what is hard, and what
makes it correct.

**Record queue** (`src/sys/queue.cpp`, `include/sys/queue.hpp`). State: one byte
vector with records behind headers, an iterator `begin`/`end`/`count`, limits of
records and memory, a mutex and a condition variable. Operations: `push`, `pop`,
`data`, `clear`, `reset`, setters, swap and moves, destructor. Used by the
cluster protocol's decoder. Hard: tests in front of the lock, notification only
at a drain, growth in three comparisons, `reset()` and swap that give the mutex
back half way. Correct when: the iterator describes the bytes, records leave in
order and once, no writer sleeps without a notification to come.

**Cluster message protocol** (`src/cluster/cmp.cpp`). State: buffers of the
encoder and the decoder, the pending header, the decoder's queue. Operations:
`push` on both sides, `pop`, `clear`. It turns messages into a byte stream over
a pair of sockets and back. Hard: reads end anywhere, writes are taken in parts,
a message that cannot be decrypted lies in the middle, the decoder waits inside
its own queue. Correct when: messages come out once, in order, and `push`
returns.

**Node and the send paths of the cores** (`src/core/node.cpp`, `send()` and
`write()` of `core/client.cpp` and `core/server.cpp`). State: per broker (the
library's word for a connection) a queue of bytes and the budget used; the
memory all brokers share; the WRITE event. Hard: two limits decide together,
direct writes must not pass what waits, a connection may end while data waits.
Correct when: budget and queue agree, bytes stay in order, what waits is waited
for.

**Backlog of the proxy servers** (`available()`/`unavailable()` of
`server/proxy.cpp` and `server/socks5.cpp`). What the budget refuses is kept in
a list and offered again when memory is released. Correct when nothing is lost.

**Cluster supervisor** (`src/cluster/cluster.cpp`). State: per worker a vector of
brokers (process, two pairs of descriptors), the map `_pids` from process to
index, the count, `autoRestart`; the kernel's table of descriptors. Operations:
`start`, `stop`, `close`, `emplace`, `erase`, `send`, the SIGCHLD handler, the
CLOSE events on both sides. Hard: the end of a process is seen twice, in either
order; indices and numbers of descriptors are kept after they lost their
meaning. Correct when: what falls is started again, a message reaches the
process it is for, pairs of living processes stay open, what is dropped ends.

**Client core** (`src/core/client.cpp`) with **Timer** (`src/core/timer.cpp`).
State: three statuses per scheme (work, wait, real), the broker, the timers and
their ids, the resolved address. Operations: `open`, `connect`, `connected`,
`reconnect`, `close`, `reset`, `start`, `stop`, the timers. Hard: five ways for
`connect()` to fail, each of which must release the scheme; ids of timers kept
after they fired and handed out again; guards that look at statuses another path
must have returned. Correct when: the statuses, the broker and what the
application was told agree, a scheme that is kept alive always has something
that makes the next attempt.

**Event base** (`src/events/base.cpp`, `event.cpp`). State: registrations by
descriptor, the list `_change` handed to epoll, the list `_events` of reports,
the position of the loop. Operations: `add`, `mode`, `del`, `kick`, the loop.
Hard: callbacks add, drop and change registrations while the loop walks over the
reports; descriptors get new owners within a batch. Correct when: epoll is asked
for what is enabled, a report reaches whom it was for, what is ready is served.

**Watch and notifiers** (`src/events/watch.cpp`, `notifier.cpp`,
`include/sys/screen.hpp`). State: the multimap of deadlines, the notifiers
(eventfd), the queue of requests, the delay of the thread. Operations: `create`,
`wait`, `event`, `away`, `start`, `stop`; the thread's `check`, `process`,
`trigger`. Hard: two threads, requests queued without the mutex of the sleep,
unlocked reads, numbers of descriptors that are taken again. Correct when: a
timer is called when its time is over, not before, and only if it still waits.

**Server core** (`src/core/server.cpp`). State: the listening sockets, the
brokers and the number that is allowed, the events of both, timers that wait for
the first and for the next message. Operations: `launch`, `accept`, `read`,
`close`, `remove`, `stop`, `start`, the timers. Hard: a listener and its brokers
share descriptors that the kernel gives out again, events that are started once
and never after `stop()`, timers that outlive what they look after, callbacks
that stop the core in the middle of `accept()`. Correct when: whoever is
connected is heard or looked after, a timer has an owner, `stop()` ends
everything, who waits gets in when there is room.

**WebSocket** (`src/ws`, `server/web/ws1.cpp`, `client/web/ws1.cpp`) with the
**thread pool** (`include/sys/threadpool.hpp`). State: the buffer, the head of
the frame that is read, the fragments, the flag that the message is compressed;
tasks and threads. Operations: `readEvents`, `prepare`, `extraction`, `push`,
`work`, `multiThreads`. Hard: reads end anywhere, control frames lie between
fragments, one flag for all messages, threads finish in any order. Correct when:
the application gets each message of the peer whole, once and as it was meant.

**HTTP/1.1 client** (`client/web/http1.cpp`, `client/web/web.cpp`). State: the
requests by id, the count of attempts, what was read of an answer, the
connection. Operations: `send`, `submit`, `prepare`, `result`, `redirect`, the
ends of connections. Hard: a request is repeated, taken out, or sent by a
callback in the middle of the read of an answer; three places count attempts.
Correct when: an answer goes to its request, nothing is sent twice, and every
request has an end.

**HTTP/1.1 server** (`server/web/http1.cpp`, `http/web.cpp`, `http/core.cpp`).
State: the buffer, the states of the parser for query, headers, body of a length
and of chunks, what was answered, the flags that end the connection. Hard: reads
end anywhere, several requests lie in one buffer, the application answers later
or in parts. Correct when: requests come out in order with their bodies, every
one is answered, and the connection ends after the answer.

**SOCKS5** (`src/socks5`, `server/socks5.cpp`, `client/web/web.cpp`). State: where
the negotiation is on both sides, `locked` and `connect` of the server's options,
the pair of the client's connection and the upstream, the timer of `erase()`.
Hard: messages in parts and several at once, an upstream that connects, fails or
speaks at any moment, two ends that may come first. Correct when: nobody gets in
without the password that is wanted, both sides agree when the tunnel is open,
it keeps the order, and what one side ends ends on both.

**Core and dispatcher** (`src/core/core.cpp`): start, stop, kick and rebase of
the event base. **Cluster core** (`src/core/cluster.cpp`): a facade of the
supervisor. **Schemes** (`src/scheme`): records of the cores. **HTTP/2,
authentication, the HTTP proxy** (`src/http`, `src/auth`, `server/proxy.cpp`):
streams over nghttp2, hashes, tunnels by CONNECT. **Engine, sockets, DNS, ping,
NTP, addresses** (`src/net`) and **system** (`src/sys`): calls of the operating
system and of OpenSSL, strings, files, logs. PROJECT.json lists all of them with
their status, and under "hazards" what can go wrong in the ones read so far, each
at its line.

### How they interact

    application
        |  send, answers, messages      cluster core
    HTTP/1.1 - WebSocket - SOCKS5            |
        |  (pool of threads)                 |
        |  open, send, close                 |
    client / server core  ------------- supervisor ==== processes
        |   |      |  timers                 | protocol (cmp) - record queue
        |   Node   Timer                     |
        |   (budget)  |                      |
        +---- event base (one thread) -------+
                 |  notifications (eventfd), requests
               watch (a thread of its own)

The models meet at these lines. What one of them takes as a choice of its
surroundings is what another shows: `ClientCore` lets timers fire in any order
and takes the send path as given (`Outbox`); `Outbox` and `Channel` take the
WRITE event as served (`EventBase`, property `Served`); `EventBase` knows the
watch as "counted down, then runs out" (`Watch`); `Channel` has the behaviour of
the queue (`Queue`) inside its decoder. `ServerCore` is composed with what its
calls leave in `Event`, `Base` and `Timer`. `WebSocket`, `HttpClient`,
`HttpServer` and `Socks5` stand on a connection that delivers bytes in order and
in pieces, and ends: what `Outbox`, `ClientCore` and `ServerCore` show.

## 2. Modules

| Module | Code | State | Actions |
| --- | --- | --- | --- |
| `Fifo` | - | a sequence | abstract: append, take the first, discard. What `Queue` implements |
| `Queue` | `sys/queue.cpp` | vector (size, capacity, headers by address), iterator, limits, mutex, where each thread is | one per critical section and per unlocked test: `Push` `Sleep` `WakeUnnotified` `Resume` `PopTest` `Pop` `ClearTest` `ResetTest` `Clear` `Free` `SetMaxRecords` `SetMaxMemory` `SwapBegin` `Swap` `Destroy` |
| `Channel` | `cluster/cmp.cpp`, `Cluster::send`, `write`, `sending`, read handler | encoder, WRITE event, socket, decoder's buffer, header and queue, what was delivered | `Send` `Writable` `Recv` `Process` `Deliver` |
| `Outbox` | `core/node.cpp`, `send`/`write` of both cores, backlog of the proxies | common memory; per connection queue, budget, event, backlog, socket | `Send` `Writable` `Close` `Sending` |
| `Cluster` | `cluster/cluster.cpp` | brokers, `_pids`, table of descriptors, processes | `Start` `Stop` `CloseAll` `Emplace` `Erase` `AutoRestart` `Sigchld` `Hangup` `ChildEnds` `ChildHangup` `Open` |
| `ClientCore` | `core/client.cpp`, `core/timer.cpp` | statuses, broker, timers and kept ids per scheme | `Start` `Stop` `CloseEverything` `Reset` `OpenScheme` `CloseBroker` `Connected` `Read` `Fire` |
| `ServerCore` | `core/server.cpp`, and what it leaves in `event.cpp`, `base.cpp`, `timer.cpp` | sockets, listeners, registrations, the kernel's set, brokers, timers and kept ids, what clients do | `Start` `AppStop` `CloseEverything` `Relaunch` `Replace` `CloseBroker` `Accept` `Hello` `Read` `Fire`; clients: `Arrive` `Talk` `Leave` |
| `WebSocket` | `server/web/ws1.cpp`, `client/web/ws1.cpp`, `ws/frame.cpp`, `sys/threadpool.hpp` | bytes received and taken, head, fragments, flag of compression, tasks and threads, what was delivered | `Receive` (handshake or frames), `Iterate` (`Ping` `Text` `Continuation` `CloseFrame` `Fail` `Leave`), `Astray`; pool: `Take` `Run` `Exit` `Resize` `Joined` |
| `HttpClient` | `client/web/http1.cpp`, `client/web/web.cpp` | requests by id, attempts, flags, parser, connection, what is on the wire; history of submits, repetitions and results | `Connect` `AppSend` `Answer` `FirstPart` `SecondPart` `Astray` `Drop` |
| `HttpServer` | `server/web/http1.cpp`, `http/web.cpp`, `http/core.cpp` | marks received and taken, state of the parser, flags, what was delivered and answered | `Receive` `Iterate` (one pass of the loop with `Parse`), `RespondLater` `Written` `Pinging` |
| `Socks5` | `socks5/server.cpp`, `socks5/client.cpp`, `server/socks5.cpp`, `client/web/web.cpp` | both directions of the wire, state of each side, options, upstream, timer, what was said and heard | server: `ServerRead` `ServerEnds` `Erase`; upstream: `UpstreamConnects` `UpstreamEnds` `UpstreamTalks`; client: `ClientRead` `ClientTalks` `ClientLeaves` `ClientEnds` |
| `EventBase` | `events/base.cpp`, `event.cpp` | `_peers`, `_change`, `_events`, position and current report, readiness | the loop: `Wait` `Look` `Read` `Write` `Close` `Return`; callbacks: `Add` `Mode` `Drop` `Kick` `Uses`; world: `Happens` `Expires` |
| `Watch` | `events/watch.cpp`, `notifier.cpp`, `sys/screen.hpp` | deadlines, notifiers, requests, delay, where both threads are | loop: `Create` `Wait` `Notify` `Read` `AwayTest` `AwayErase` `Stop` `Start`; clock: `Top` `Check` `Doze` `Wake` `Run` `Test` `First` `Process`; `Tick` |

Each `MC*` module gives its component the instances of TLC; `*Proofs` modules
hold theorems. PROJECT.json maps every definition to its lines. Definitions whose
comment begins with "a plausible slip" are not used by any specification: they
are the mistakes each property is known to catch.

A variable `env`, `surr`, `may` or `proxy` is chosen once in `Init` and never
changes: it is the surroundings of a behaviour (who calls what, does the name
resolve, may the loop stop). Several surroundings are checked in one run, and a
property that needs particular ones says so.

### Abstractions, by module

* `Queue`: bytes are counted, only headers are kept. A critical section is one
  action; the tests of `pop()` and `clear()` in front of the lock, and the
  writes of `_terminate` without it, are steps of their own, and a waiting
  thread keeps the mutex until it sleeps. `empty(timeout)` and copies are left
  out. A vector that grows at least doubles, as in libstdc++.
* `Channel`: a message is a run of units, compression and encryption decide
  only whether it can be decoded. One direction of one pair.
* `Outbox`: the send path of client and server is the same code twice, modelled
  once. A unit stands for a byte, what matters of it is its place. Setters of
  the limits while data waits are left out. Ids of brokers are not used again.
* `Cluster`: one worker, `transfer_t::PIPE`. A signal is delivered between two
  steps of the loop (what it does to a container in the middle of an operation is
  undefined behaviour). HELLO and the encoders are abstracted: a process can be
  addressed from its fork to the end of its broker. Process ids are not used
  again. An end that `process()` answers by `exit()` (SIGINT, or within three
  minutes of the start) is one kind, "fatal". Descriptors get the lowest free
  number, as POSIX asks, and handlers find a broker by its number as the code does:
  the CLOSE event takes the first broker that has it (`Numbered`), whosever it is
  by then. Where there are not enough for a pair of sockets
  the master exits. Its initial states and actions are `ClusterInit`, `ClusterNext` and
  `ClusterSpec`, and that of `Channel` `ChannelSpec`, as `LoopProofs` stands on
  `EventBase` as well.
* `ClientCore`: families with an address, no proxy; resolving blocks and is one
  step. The application calls nothing from inside a callback. Each way through
  `connect()` is an outcome of a set-valued operator. `stop()` and `closedown()`
  are one step. Ids of timers stay below the overflow of 16 bits (`TidBound`).
* `ServerCore`: TCP, TLS and SCTP are one transport, DTLS the other; UDP and the
  cluster mode are left out. Up to three descriptors, which are given out again.
  `reacts` lets callbacks close and stop; `again` lets a scheme be launched again
  after `stop()` with the event it has. `nameless` lets a DTLS client come without
  a MAC or an IP: its broker is then forgotten by the code (no call, no timer, READ
  stays off), and kept so by the model. A scheme that is removed and added again
  keeps its id, as it does when it was the last.
* `WebSocket`: frames are offsets in a stream of bytes, payloads only their sizes;
  the handshake is one byte. A read ends anywhere; with `cuts = "between"` not
  inside a control frame. An iteration that begins where no frame does ends in the
  state "astray", of which only `InPlace` speaks.
* `HttpClient`: an answer is its request, a kind of code and whether it keeps the
  connection, in one or two parts. The callback of an answer may send the next
  request. A `calm` application sends while nothing is under way, or while what it
  has sent is queued and nothing of it was answered or repeated.
* `HttpServer`: the stream is counted in marks: a line is one, data are bytes, a
  size is one digit. Headers are one line, with what it decides on. `keeps`: the
  body is kept by the library, not taken piece by piece by the application. Its
  names are `HttpInit`, `HttpSpec` and so on, as `WireProofs` stands on `Outbox` as
  well.
* `Socks5`: a message of the negotiation has two parts and no content but its
  kind; a client is `usual`, `eager` (speaks before it is told that it may) or
  `insistent` (asks whatever it is told, and stays when refused). One connection.
* `EventBase`: the Linux build. The caller closes the descriptor at once after
  `del()`; `HUP` stands for EPOLLRDHUP, EPOLLHUP and EPOLLERR; `epoll_ctl`
  succeeds. Reading an entry whose registration was freed ends in the state
  "undefined", of which nothing is claimed; a new registration may get the node
  of a freed one. Each report in `_events` carries two values the code has not: the
  registration epoll made it for, and whether that was at the last `epoll_wait()`.
  No guard looks at them, only the properties do. `STREAM` events, `stop()` and
  `rebase()` are left out.
* `Watch`: time passes in ticks, at any moment but between reading the clock and
  setting the delay; a number of ticks is what is left. Its names are `WatchInit`,
  `WatchSpec` and so on, as `ThreadProofs` stands on `Queue` as well. The first
  entry of an empty multimap is read as 0 (so the default delay) or as an entry that was
  freed. `wait()` is called for timers that do not run, as `EventBase` does it.

## 3. What is checked

TLC checks the whole state space of every instance. Deadlock is not an error in
any of them: each system may come to rest (everything sent, the master has
exited, no timer left), and what must not stand still is a liveness property.

| Run | Instance | Shows |
| --- | --- | --- |
| `queue_users` (66,152 states) | Two writers, a reader and one that reads or clears; or one thread that calls every operation. Four records of three sizes, two values of each limit | `Layout`: iterator and bytes agree. `NoLostWakeup`: a writer asleep has a record in the queue. `WritersReleased`: who waits gets out while somebody reads. `DeliversInOrder`: the queue implements `Fifo` |
| `channel_stream` (14,351) | Four messages, one undecodable; socket of 8 units, reads of up to 7, so that every cut occurs, inside headers too | `InOrder`: what has left the decoder and then the messages still on the way are, once each, in the order of `send()`, and none that can be decoded is missing. `Arrives`: every message that can be decoded is delivered |
| `outbox_budget` (30,432) | Two connections, three records of 1 to 3 units, 5 units of memory, 4 per connection: either limit is the one that refuses, and one connection starves the other | `BudgetExact`: the budget is what waits. `SendOrder`: what a socket takes, and what waits for it, is in order. `NothingLost`. `QueueDrains` |
| `cluster_supervise` (55,888) | One process, three forks (so a replacement can fall, and an added one), eight descriptors (a process, its replacement and an added one, but not with a stranger: then the master exits); three surroundings | `SendReachesInOrder`: a message reaches the process it names, while processes are erased from the newest. `RestartsOnSignal`: what falls is started again, when the signal is handled before the closed pair. `NoOrphans`: what is dropped ends |
| `client_life` (3,098) | One scheme in sixteen surroundings, and two schemes; three brokers, timers up to id 4 | `IdleCanOpenUsual`: a scheme that does nothing can be opened. `Persistent`: one that is kept alive has something that makes the next attempt. `Reconnects` |
| `server_serve` (33,724) | One scheme; TCP with a limit of one or two, and DTLS; three descriptors, three brokers; clients that wait, talk, stay silent and leave, over DTLS also without a MAC or an IP; callbacks that close and stop | `NobodyDeaf`: the kernel is asked for whoever is connected and for the port, or a timer looks after it; a DTLS port that may have had a client without a MAC or an IP is left out, here and in `Served` (section 5). `TimersOwned`: a timer that closes belongs to a broker that knows it. `StopEndsAll`. `Served`: who waits gets its turn |
| `ws_frames` (50,047) | Every program of up to three frames of nine kinds, read by a server at every cut; chosen programs read by a client, and with pools of one and two threads that may be set up anew | `Whole`: messages of the peer, none twice. `InOrder` up to one thread. `AsMeant`: inflated if compressed. `Arrives` |
| `http_requests` (83,249) | Three requests, two attempts, one end of a connection; every kind of answer in one and two parts; an application that waits, and one that sends at any time | `OwnAnswers`: an answer goes to its request, in order. `NoDuplicates`: a request is submitted once, and once for each repetition. `AttemptsEnd`. `Finishes` |
| `http_serve` (16,429) | Twelve programs of one and two requests, with no body, a length and chunks; pipelined or not; four ways to answer; with the timer of pings and without | `AsSentCareful`: requests come out in order with their bodies. `ClosesAfter`: the connection ends after the answers. `Answers` |
| `socks5_tunnel` (46,171) | All 72 surroundings of one client; two things said by each side | `Admitted`: no connection without the password. `Agree`: a client that takes the tunnel for open has one. `InOrder`. `Answered`: a client that closes when refused is connected, or ends. `EndTogether` |
| `event_loop` (235,653) | Two connections or a connection and a timer, and one more that takes over a number; three connections of which one takes over a number; five surroundings | `CallsWhoIsMeant`: what is called has its event enabled, and a report of the last `epoll_wait()` reaches the registration it was for, whatever the callbacks before it closed and added. `Served`: what is ready is served |
| `watch_clock` (133,965) | Two timers, delays of 1 and 2 ticks, two requests under way, one or two threads; four surroundings | `NeverEarly`: a timer is called when its time is over. `Answered`: every request is answered, though notifications get lost |

Every module has a type invariant and a few plainer properties that the runs leave
out for time: `MCChannel_more.cfg` (`RestIsArmed`, `NothingHeldBack`,
`PushReturns`), `MCWatch_more.cfg` (`OnTime`, `ThreadsEnd`) and
`MCWebSocket_more.cfg` (`InPlaceUsual`, `NothingHeldBack`) check them;
`GrowthWithinLimit` of `Queue`, `BudgetConserved` and `QueueIsArmed` of `Outbox`,
`KernelAgrees` of `EventBase`, `PairsOpen` and `WithinCount` of `Cluster` (both are
proved),
`StatusAgrees` and `EndAnnounced` of `ClientCore`, `NothingHeldBack` of
`HttpServer`, `KeptCalm` of `HttpClient` and the type invariant of each (`TypeOK`,
`HttpTypeOK`, ...) hold when they are named in the configuration of the run.

*Bounds.* `Records`, `Messages`: enough to fill a queue, be refused, and follow a
refusal. `Pids` and `Bids` bound forks and brokers; `Spare` in `Cluster` keeps a
fork for each end that must be answered by one, so no behaviour ends because the
bound is reached where the code would go on. `TidBound` is above the number of
timers the schemes can hold at once. `MaxPayload` bounds requests the watch has
not taken out; two of them can be for different timers, or one for a timer that
has gone and one for its successor. Three descriptors in `ServerCore` are a port,
a broker and one that takes over a number. Three frames are the shortest program
with a fragmented message and something inside or after it. With three requests
one is on its way, one waits and one is sent by a callback; with two attempts one
is spent and one is left.

*Fairness.* `Queue`: a thread inside an operation goes on, and readers go on
reading; writers and notifications of the environment are not assumed.
`Channel`, `Outbox`: the event loop serves an event that is ready and stays
ready, and a watched socket takes something: level-triggered epoll, `Served`
of `EventBase`. `Cluster`: pending signals are delivered, events dispatched, and
a process notices that its pair was closed; no end of a process and no call is
assumed. `ClientCore`: running timers run out; connecting is strongly fair, as
`Reconnects` says "if the network lets it": every attempt may fail any number of
times but not for ever. `ServerCore`: events that the kernel reports are
handled, timers run out, and a client that leaves does so; no call is assumed.
`WebSocket`, `HttpServer`: what the peer has sent comes in some cut, the loop goes
on, threads run, and an application that answers later answers. `HttpClient`:
connections open and the server answers what it has received. `Socks5`: what is on
the way is read, ends are noticed, the timer runs out, and connecting has a
result. `EventBase`: the loop goes on and callbacks return; timers run out. `Watch`: threads are scheduled, and time passes whatever they do
(strong, as ticks are disabled for moments).

*Properties and slips.* For every property of every run PROJECT.json names a
slip ("mutants") with which TLC refutes it on the same instance.

## 4. What is proved

TLAPS checks these for all values of the constants that satisfy the assumptions
named in the modules.

| Theorem | States | Argument |
| --- | --- | --- |
| `ThreadProofs!LayoutCorrect` | `TypeOK` and `Layout` always | `LayoutInv` adds `InsideReset`: who is busy is allowed to be, and between the two halves of `reset()` the queue is empty. Without it `Free` could drop the bytes under an iterator that still points at them |
| `ThreadProofs!WakeupsNotLost` | `NoLostWakeup` always | `WakeupInv` adds `WritersAsleep`: a writer that holds the mutex on its way to sleep has seen a record, and only writers sleep. It rests on `Layout`: "memory is full" has to mean "there is a record" |
| `ThreadProofs!QueueIsFifo` | `DeliversInOrder`, the refinement of `Fifo` | Step by step, from `LayoutInv`: the content that the abstract queue holds is what lies between the iterator and the end. `StorePuts` and `PopTakes` say what the two operations do to it; growing and moving the bytes leave it, and only `Clear`, `Free` and the end of the destructor discard. It needs `reset()` to be called by a lone user |
| `WireProofs!BudgetAndEvents` | `TypeOK`, `BudgetExact`, `QueueIsArmed` always | The conjunction is inductive; the work is in lemmas about the operators a handler is made of (`NodeSendSound`, `CoreSendSound`, `ReleaseSound`, `RetrySound`), each of which keeps the state of one connection sound |
| `WireProofs!SentInOrder` | `SendOrder` always, without a proxy | `OInv`: what the socket has taken, followed by what waits, is ordered *and* before the next record. The second half is what a new record needs |
| `WireProofs!ProxyLosesNothing` | `NothingLost` always | Inductive with `BudgetExact` and `QueueIsArmed`. The units of a connection are a set, split over wire, queue and backlog without overlap (`Once`); each operator of the send path has a lemma of how it moves them: a write takes a prefix, a refusal puts the rest of the record into the backlog, a retry takes a whole record out of it or leaves it |
| `WireProofs!AsSentAlways` | `AsSentCareful` always | `HttpInv`: of careful reads, the parser is at a place of the request after those that were delivered (`Place`: before a line, in a chunk, in a body of a length), and the body it keeps is the data of that request up to there; or a request is complete and an answer owed (`Owing`). A read does not end in the blank line (`Whole`). `Layout`, `SentIs`, `FrameIs` say where in the stream of any program requests and chunks begin; a letter (`ChunkStep`, `NextLine`), the loops (`ChunkLoop`, `HeadersLoop`) and `Parse` (`Parsed`) take the parser from one place to another or to the end of the request, and never astray |
| `WireProofs!ClosesAfterAlways` | `ClosesAfter` always, for reads that end anywhere and any limit of requests | `ClosesInv`. A client that waits has sent no more than one request that is not answered (`InStep`), so when an answer is owed the buffer is read to its end and nothing can come. That has to be known of parsers that have missed the first line of a body as well: `Near` adds their places (a body of which some is missing, data collected as the size of a chunk), and `ParsedLoosely` says that such a parser ends a request only at the end of that request, or loses its way |
| `ClientCoreProofs!NeverStuck`, `AlwaysPersistent` | `IdleCanOpenUsual`, `Persistent` always | `CInv`: between two handlers a scheme is not locked, its status has a broker if and only if it says so, and one that waits, or is wanted and kept alive, has a broker or a timer that goes on with it (`Safe`). A lemma for each operator of the life of a connection; the kept ids, which may be stale and take the wrong timer, need no invariant, as `Detached` and the timers are followed by `reconnect()` and the others run while there is a broker. That a new id is free rests on the greatest of a bounded set (`Greatest`) |
| `ThreadProofs!CalledInTime` | the action property `NeverEarly` | `WInv`: what list and queue hold for a timer that is held is one request, with no less time than the timer has left. It is an invariant only while a new timer never meets requests of an old one, which is the exception `NeverEarly` makes |
| `ServerCoreProofs!TimersStayOwned` | `TimersOwned` always, in every environment | `SInv`, and of it `Owned`: a timer calls what it was made for, with a listening broker it can only close, and if it closes, its broker is there and keeps its id. Each operator that makes, clears or removes has a lemma; that the ids kept for schemes may be stale does not matter, as a timer taken by mistake only makes the list shorter |
| `ServerCoreProofs!StopLeavesNothing` | `StopEndsAll` always, where the listening sockets can be bound | `Ended`, for each state a handler passes through, not only between two: a core that is down has no socket and no broker, so who makes a broker must know that the core is up (`NewBrokerSound`). For DTLS, whose `close()` goes on after the callback, it is needed that callbacks do not stop |
| `ServerCoreProofs!EverySocketHeard` | `NobodyDeaf` always, for TCP, TLS and SCTP (`Deafens` excludes schemes that are launched again as they are) | `Heard`: the number of every scheme that has a socket, and of every broker, is in the kernel's set and registered for its user. That no number has two users follows from it. `remove()` breaks it half way and restores it (`ReplacedSound` on `RemovedAllWatched` and `DelWatched`). `start()` launches any number of schemes one after the other (`LaunchAllSound`): that the fold over them is what its definition says (it exists, by induction over the size of the set) is proved there |
| `LoopProofs!CallsMeant` | the action property `CallsWhoIsMeant` | `Sane`: a blanked entry of `_events` is of nobody, and between the test of a report and its callback the registration is there. `Meant` adds `First`: a report of the last batch that is still in the list points to the registration it was made for, which is there, and no entry before it does, so that `del()`, which takes out the first, takes out that one. Every operation on the list (removal, blanking, a node that is used again, a new batch) has a lemma that keeps both. Of the reports of earlier batches nothing of the kind holds (section 5) |
| `LoopProofs!SentWhereMeant`, `PairsStayOpen` | `SendReachesInOrder`, `PairsOpen` always, each in the surroundings it names | `CInv`: the index of a process in `_pids` is never before its broker, and is its place while no CLOSE event takes brokers out (`Ahead`); a process in `_pids` runs or waits to be reaped (`Watched`); and whose process does so has, under its numbers, the ends of its own pairs (`Paired`, where the signal comes before CLOSE, whose handler then finds nothing; where CLOSE may come first it takes the first broker with the number, of which only `NumberedIs` is known, and `PairsOpen` says nothing). That a number closed for one broker is not that of another needs that no process has two brokers (`Once`) and that forks never give a known id (`InTurn`, `Born`). `KthExists` and `LowestFreeIs` say that the numbers handed out are free and different, `CreatedKeeps` and `ForkKeeps` what a fork adds, `EndClosed` and `TakenOut` what an end leaves |
| `LoopProofs!ServesWithinCount` | `WithinCount` always | `Within` is stronger: no more brokers with a process that runs or waits to be reaped than `count`. A replacement takes the place of the one that is reaped (`NoMoreServed`) |
| `LoopProofs!MessagesInOrder` | `InOrder` of `Channel` always | `ChannelInv` looks at all that lies between the decoder's buffer and the encoder as one line of units. Reads, partial writes and waiting bytes leave the line as it is; `send()` appends a message (`MoreOnTheWay`, `SentMore`), the decoder takes a header or a message from its front (`HeaderTaken`, `MessageTaken`). What makes the number of bytes the header announces the right one to take is `OnTheWay`: from each of its units on a message is there to its end, after an end another one starts, and the first unit is the one the pending header says |
| `LoopProofs!NothingForgotten` | `RestIsArmed` and `NothingHeldBack` of `Channel` always | `Waits`: between two reads the buffer is shorter than what the decoder waits for, a header or the payload of the pending one. By `ChannelInv` it then holds no end of a message |
| `WebSocketProofs!InflatedAsMeant` | `AsMeant` always | `WInv`: the flag is that of the message whose fragments are held, of every task and of what each thread works on. The head of a frame of which less than two bytes are there is never taken for a whole frame (`GetHead`), so the flag is set by frames of the peer only |
| `WebSocketProofs!WholeAlways`, `InOrderAlways` | `Whole`, `InOrder` always | `OInv`: the fragments held are all the frames of data since the `TEXT` that began them that lie before the reader, and what tasks, threads and calls hold are messages that begin before the fragments do; tasks are in order and newer than what was taken from them. `GetFrame` says that a frame with a payload is taken exactly to its end and a control frame at most to its end, `Passed` that the reader then has one frame more behind it. That rests on `Ends` being what its recursion says (`EndsRecursive`, the existence of the function, proved from initial segments) and on its growth (`EndsRise`). The two theorems hold also where the reader goes astray in a control frame: it then takes no more data |
| `HttpClientProofs!RepeatsEnd` | `AttemptsEnd` always | `HInv`: of the queued requests only the oldest was ever repeated, and `_attempt` is no less than the number of times. It survives `send()` because nothing is queued while an attempt is counted, and `result()` because what is left was never repeated. Ends of connections are counted apart: there the limit is not looked at |
| `HttpClientProofs!OwnAnswersAlways`, `NoDuplicatesAlways` | `OwnAnswers`, `NoDuplicates` always | `CalmInv`: a calm application leaves the client idle, busy with the oldest request, or about to repeat it (`Idle`, `Busy`, `Again`); in each of them what is queued, what is on the wire and what the history of submits and results says fit together (`Orderly`). The ids of requests, which are lengths of the queue, are in the order of sending only under these |
| `Socks5Proofs!AdmittedAlways` | `Admitted` always | `Barred`: without the password the negotiation stays in front of the request, whatever comes in whatever pieces |
| `Socks5Proofs!AgreeAlways` | `Agree` always | `Bound` adds to the shape of the state that the answer "ok" exists, on the wire, in the buffer of the client or in its state, only when the upstream was connected and the server is past the negotiation |
| `Socks5Proofs!InOrderAlways` | `InOrder` always | `Flow`: in the surroundings that `InOrder` is about the negotiation is a strict alternation (`Turn`), so no data is on the way while the server is locked or the client still parses; afterwards what is under way and what has arrived are one unbroken run of numbers (`Upwards`, `Downwards`). `PayloadOfData` says what the numbers of a read are, `RunsOn` that two runs joined are one |

*Assumptions.* Both theorems about `Queue` assume that who calls `reset()`, for
the second also `swap()`, uses the queue alone (`Alone`): these two
give the mutex back half way. TLC refutes `Layout` when another thread pushes
between the halves of `reset()`, and `NoLostWakeup` when one goes to sleep between
those of swap. Both instances of `queue_users` satisfy it: its
sharing threads do not call them, its owner calls everything.

*Only model-checked:* every liveness property (`ENABLED` and fairness are out of
reach of the provers used); `BudgetConserved`, which sums up over a set;
`NobodyDeaf` for DTLS, which does not hold for two schemes or for clients without
a MAC or an IP (section 5), so that a proof would have to be about one scheme; `NothingHeldBack` of `WebSocket` and of
`HttpServer`, and `OnTime` of `Watch`. What a recursive definition computes is not
proved by an induction rule over data but by the least input for which it would be
wrong; `WireProofs` does so for the folds that join the stream of `HttpServer`
(`JoinedSteps`, `OffsetSteps`) and for the loops over letters (`RunsToAny`,
`ChunkLoop`, `HeadersLoop`).

## 5. Where the code disagrees with its documentation

Each is a configuration outside the runs that TLC ends with a counterexample, in
surroundings that are as small as possible. The property is what a reader of the
documentation or of the callers would expect:

* `MCChannel_burst.cfg` (`PushReturns`): one read that carries more messages than
  the record limit of the decoder's queue (1000) blocks the only thread that could
  take them out (`cmp.cpp:808`).
* `MCOutbox_leak.cfg` (`MemoryReturned`): a connection that is closed while data
  waits takes its share of the common memory with it (`node.cpp:191`, `:232`).
* `MCCluster_race.cfg` (`Restarts`): the CLOSE event erases the broker before
  SIGCHLD is handled, and nothing starts the process again (`cluster.cpp:108`).
* `MCClientCore_stuck.cfg` (`IdleCanOpen`): `stop()` while a scheme waits for its
  next attempt takes the timer and leaves the status, and `open()` is refused from
  then on (`client.cpp:845`).
* `MCServerCore_again.cfg` (`AllHeard`): `stop()` leaves the event of the
  listening broker started; after `start()`, when the new socket has the old
  number, it is not registered again, and the port is deaf
  (`core/server.cpp:2947`). `multiThreads()` of the web servers stops and starts
  the core in this way. With `Environments <- Nameless` the same configuration
  shows a deaf DTLS port: `accept()` has disabled READ when it finds that the
  client has no MAC or no IP, clears the broker's context and does nothing else,
  no `close()` and no timer (`core/server.cpp:680`).
* `MCEventBase_missed.cfg` (`TimerHeard`): `del()` in a callback shortens the list
  under the loop, which passes over the next report; a timer's is edge triggered
  and never comes again (`base.cpp:923`). With `Worlds <- ThreeSockets`, and
  `CallsAsReported` as its only property, it shows a callback for somebody else's
  report. Three connections are reported, then two of them: the list holds a
  leftover of the third. A callback drops one and adds another, which gets the
  number and the node of what was dropped; the list is shorter by one, so the loop
  reaches the leftover and calls the new registration with it (`base.cpp:919`,
  `:3826`).
* `MCWebSocket_cut.cfg` (`InPlace`): a control frame is answered and taken out as
  soon as its header is there; its mask and payload, when they come with the next
  read, are read as a frame (`server/web/ws1.cpp:614`).
* `MCHttpClient_spent.cfg` (`CanSend`): after a redirect that leads to an error
  `_attempt` is not 0, and the next `send()` takes itself for a repetition and
  closes the connection (`client/web/http1.cpp:1033`).
* `MCHttpServer_blank.cfg` (`AsSent`): a read ends before the blank line of the
  headers; the next one ends the headers twice, and the first line of the body is
  lost (`http/web.cpp:1103`).
* `MCSocks5_parts.cfg` (`AnsweredEver`): a message of the negotiation that comes in
  two reads is forgotten and the client waits for ever
  (`socks5/server.cpp:176`); so does a client that is refused and stays.

The models contain further behaviours of this kind, without a configuration.
The properties above are stated so as to leave them out, and name the
condition (`env.eraseAny`, `Usual`, `env.reuse` and so on):

* a record in the backlog of a proxy is overtaken by a shorter one that is sent
  later (`SendOrder` without `~proxy`), and waits for ever if its own connection
  has nothing queued;
* a client of HTTP that sends another request after one with "Connection: close"
  may have it read and not answered: it comes while the last answer is on its way
  (`ClosesAfter` without `ClosesLast`);
* after `erase()` of a process that is not the newest, `send(wid, pid)` reaches
  the process after the one it names (`cluster.cpp:2519`), and `stop()` closes
  numbers of descriptors that were closed after the fork and may be the
  application's by then (`:2189`). When the CLOSE event comes before the signal, or
  `erase()` took another than the newest, a leftover broker may have the number of a
  living pair: the handler of CLOSE takes the first broker with that number and
  closes its other number, which may be an end of another living pair (`:93`;
  `PairsOpen` leaves both out);
* with two schemes in one core, a timer that has fired leaves its id behind, and
  clearing it takes the timer of the other scheme; a name that does not resolve
  leaves a scheme that is not kept alive locked (`IdleCanOpen` without `Usual`);
* a registration with two entries in `_events` leaves one behind when it is
  deleted; it is read by the loop and by `del(sock)` after it was freed, and
  takes a place so that the last report is not looked at (`Served` excludes
  the states after it); after `kick()` epoll is asked for nothing;
* `away()` does nothing while no timer runs, and the descriptor of the notifier
  stays open (`watch.cpp:256`); a request still in the queue rings the next
  timer with the number of its owner (`:146`); a request that comes between the
  clock's test and its sleep waits for the next deadline of another timer
  (`screen.hpp:184`); after `stop()` and `start()` the clock sleeps before it
  looks at what is overdue;
* a listening socket that fails while `start()` launches leaves the loop running
  after `stop()` (`core/server.cpp:3046`), and a `stop()` in the callback of a DTLS
  broker that ends leaves a new socket and broker behind (`:1876`); `StopEndsAll`
  leaves both out;
* with two DTLS schemes in one core, the id of a timer that has fired stays in
  `_timeouts`; the next timer gets the same id for the other scheme, and `close()`
  or `remove()` in the first scheme clears it: a client whose handshake was to be
  looked at again is not looked at any more (`core/server.cpp:1030`); the id of a
  scheme is the number of schemes plus one, so a scheme that is added after
  another than the last was removed gets an id that is in use, and is not added
  (`core/node.cpp:428`);
* with a pool, a peer that compresses some messages has others inflated by the
  wrong flag (`AsMeant` leaves it out), and more than one thread delivers messages
  in any order (`InOrder`); frames that come with the handshake wait for the next
  read (`Arrives`);
* the id of a request is the length of the queue plus one: a `send()` while others
  are queued and the first has been answered is lost (`Kept`, which holds for a
  calm application only; `client/web/http1.cpp:982`);
* `send()` of a whole answer empties the buffer, and with it the rest of a
  pipeline (`AsSentCareful` leaves it out; `server/web/http1.cpp:1265`); the timer of pings
  closes a connection whose request is not answered yet (`ClosesAfter` leaves it
  out);
* what an upstream says in one read with the answer of the proxy, and what a client
  says before it has the answer, is dropped (`InOrderEver`, which does not hold,
  against `InOrder`).

## 6. What is not modelled

PROJECT.json gives the reason for each component. In short: sequential code on
strings (addresses, headers, dates, encodings) is better served by tests than by
a model; calls of the system and of OpenSSL appear as choices of the models that
use them; facades have no state. HTTP/2 is driven by nghttp2, whose states would
have to be modelled with it. Within modelled components: the switch between a
proxy and its target, unix sockets and DTLS in `ClientCore`; UDP, the cluster mode
and the shift of bandwidth in `ServerCore`; the IPC transfer and several workers
in `Cluster`; `STREAM`, `stop()` and `rebase()` in `EventBase`; `interval()` and
the overflow of ids in `Timer`; sending, pings and the windows of compression in
`WebSocket`; CONNECT in the web clients and in the HTTP proxy; trailers, encodings
and ranges, and the parser of answers, in `HttpServer`; addresses, and messages
that the application holds back, in `Socks5`.

## 7. Plan

Order: what everything else stands on first. Done: the record queue and the
protocol of the cluster; the send path; the supervisor; the client and the server
core; the event base; the clock; WebSocket with its pool; HTTP/1.1 on both sides;
SOCKS5 and its tunnel.

Next, to widen the model:

1. The HTTP proxy: CONNECT and its tunnel, over the pairing of `Socks5`; with a
   backlog in both directions, over `Outbox`.
2. A module for `Timer` with `interval()` and ids of 16 bits, which come round;
   today `ClientCore` and `ServerCore` stay below the overflow.
3. The switch between proxy and target in `ClientCore`; the cluster mode of the
   server core with `Cluster`.
4. Streams of HTTP/2: what the library keeps per stream, with nghttp2 as a choice
   of its calls.
5. DNS's cache and black list; the nonces of Digest.
6. `stop()` and `rebase()` of the event base, and its upstream threads.

Then, to prove more: `KernelAgrees` of `EventBase`; `OnTime` of `Watch`, whose
invariant ties the thread's sleep to the earliest deadline; `EndAnnounced` of `ClientCore`; `NobodyDeaf` of
`ServerCore` for one DTLS scheme; `KeptCalm` of `HttpClient`.
