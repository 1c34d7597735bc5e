------------------------------ MODULE Cluster ------------------------------
(***************************************************************************)
(* The supervisor of src/cluster/cluster.cpp: a master that forks the      *)
(* processes of one worker, talks to each over two socket pairs            *)
(* (transfer_t::PIPE), learns of their end from the CLOSE event of the     *)
(* pair and from SIGCHLD, and starts them again.                           *)
(*                                                                         *)
(* The master's event handlers, its calls by the application and the       *)
(* signal handler are one action each; the kernel's table of descriptors,  *)
(* which hands out the lowest free number, and the processes are modelled  *)
(* from how the code uses them. Process ids are numbered in the order of   *)
(* the forks and never used again.                                         *)
(***************************************************************************)
EXTENDS Integers, SequencesExt

CONSTANTS
  Pids,         \* 1..n: the ids fork() can return (bounds the forks)
  Descriptors,  \* 0..m: the numbers of the descriptors
  Workers,      \* _count at the start
  Environments  \* what the surroundings may do, see env

ASSUME ClusterAssumption ==
  /\ IsFiniteSet(Pids) /\ Pids = 1..Cardinality(Pids)
  /\ IsFiniteSet(Descriptors) /\ Descriptors = 0..Cardinality(Descriptors) - 1
  /\ Workers \in Nat \ {0}
  /\ Environments \subseteq [closeFirst : BOOLEAN, eraseAny : BOOLEAN, strangers : Nat]

VARIABLES
  env,       \* may the event loop see CLOSE before the signal is delivered;
             \* does the application erase others than the newest process; how
             \* many descriptors of its own does it open (a bound)
  working,   \* Worker::_working
  exited,    \* the master has called exit()
  count,     \* Worker::_count
  restart,   \* Worker::_autoRestart
  brokers,   \* _brokers of the worker: the vector
  slot,      \* _pids: process id |-> index in the vector
  fd,        \* the table of descriptors of the master
  child,     \* the state of the process, for a zombie how it ended
  rebased    \* the processes reported as replaced by the "rebase" callback

table == <<brokers, slot, fd>>
clusterVars == <<env, working, exited, count, restart, table, child, rebased>>

\* exit(0); another status or a signal; SIGINT, or anything within three minutes of
\* the start (`date' of the broker, 180000 ms), which process() answers by exit()
Ended == {"zero", "error", "fatal"}

(***************************************************************************)
(* Descriptors. A broker holds two pairs: the master reads at m[1] what    *)
(* the process writes at m[2], and writes at c[2] what it reads at c[1].   *)
(***************************************************************************)
Closed == <<0, "closed">>
Stranger == <<0, "stranger">>
Reading(p) == <<p, "read">>
Writing(p) == <<p, "write">>

Free(f) == {d \in Descriptors : f[d] = Closed}

\* the kernel hands out the lowest free numbers
LowestFree(f, n) ==
  [k \in 1..n |-> CHOOSE d \in Free(f) : Cardinality({e \in Free(f) : e < d}) = k - 1]

Enough(f, n) == n <= Cardinality(Free(f))

Shut(f, numbers) == [d \in Descriptors |-> IF d \in numbers THEN Closed ELSE f[d]]

Ends(b) == {b.m[1], b.m[2], b.c[1], b.c[2]}
Kept(b) == {b.m[1], b.c[2]}

\* after the fork the parent keeps one end of each pair
Keeps(f, b) ==
  [d \in Descriptors |-> IF d = b.m[1] THEN Reading(b.pid)
                         ELSE IF d = b.c[2] THEN Writing(b.pid) ELSE f[d]]

\* _pids without one process
Without(p) == [q \in DOMAIN slot \ {p} |-> slot[q]]

At(p) == {i \in 1..Len(brokers) : brokers[i].pid = p}
Matching(p) == CHOOSE i \in At(p) : \A j \in At(p) : i <= j

Unused == {p \in Pids : child[p] = "none"}

\* the bound: every end of a process that is answered by a fork can be
Spare == Cardinality(Unused) - Cardinality({p \in Pids : child[p] = "error"})

(***************************************************************************)
(* emplace(wid, pid): two new pairs, a new broker at the end of the        *)
(* vector, a fork, and the ends of the process closed in the parent.       *)
(***************************************************************************)
NewBroker(f, p) ==
  LET n == LowestFree(f, 4)
  IN [pid |-> p, m |-> <<n[1], n[2]>>, c |-> <<n[3], n[4]>>]

Forked(t, b) ==
  [t EXCEPT !.brokers = Append(@, b),
            !.slot = [q \in DOMAIN @ \cup {b.pid} |->
                        IF q = b.pid THEN Len(t.brokers) + 1 ELSE @[q]],
            !.fd = Keeps(@, b)]

Table == [brokers |-> brokers, slot |-> slot, fd |-> fd]

Becomes(t) ==
  /\ brokers' = t.brokers
  /\ slot' = t.slot
  /\ fd' = t.fd

Run(born) == child' = [p \in Pids |-> IF p \in born THEN "run" ELSE child[p]]

Newest == CHOOSE p \in Unused : \A q \in Unused : p <= q

\* the fork of a process for the state t of the tables
Fork(state) == \E t \in {state} : \E b \in {NewBroker(t.fd, Newest)} : Becomes(Forked(t, b))

\* clear() and exit(): when the master is told to, and when there is no socket pair
Exit ==
  /\ exited' = TRUE
  /\ working' = FALSE
  /\ Becomes([brokers |-> <<>>, slot |-> <<>>,
              fd |-> Shut(fd, Descriptors)])

(***************************************************************************)
(* create(): all pairs first, then the forks one after the other, each     *)
(* followed by the parent's closing of the ends of that process. A signal  *)
(* between two forks belongs to an early end and ends the master.          *)
(***************************************************************************)
Created ==
  LET first == Newest
      all == LowestFree(fd, 4 * count)
      made == [i \in 1..count |->
                 [pid |-> first + i - 1,
                  m |-> <<all[4 * i - 3], all[4 * i - 2]>>,
                  c |-> <<all[4 * i - 1], all[4 * i]>>]]
  IN [brokers |-> made,
      slot |-> [p \in first..first + count - 1 |-> p - first + 1],
      fd |-> [d \in Descriptors |->
                IF \E i \in 1..count : d \in Kept(made[i])
                THEN Keeps(fd, made[CHOOSE i \in 1..count : d \in Kept(made[i])])[d]
                ELSE fd[d]]]

Start ==
  /\ ~exited /\ ~working /\ brokers = <<>> /\ Spare >= count
  /\ IF Enough(fd, 4 * count)
     THEN /\ Becomes(Created)
          /\ Run(DOMAIN Created.slot)
          /\ working' = TRUE
          /\ UNCHANGED exited
     ELSE Exit /\ UNCHANGED child
  /\ UNCHANGED <<env, count, restart, rebased>>

(***************************************************************************)
(* close(wid) closes all four numbers of every broker; stop(wid) also ends *)
(* the work and clears _pids.                                              *)
(***************************************************************************)
\* a plausible slip: only the reading side is closed
ClosesReading(b) == {b.m[1], b.m[2]}

Closes(b) == Ends(b)

Dropped ==
  [brokers |-> <<>>, slot |-> slot,
   fd |-> Shut(fd, UNION {Closes(brokers[i]) : i \in 1..Len(brokers)})]

CloseAll ==
  /\ ~exited
  /\ Becomes(Dropped)
  /\ UNCHANGED <<env, working, exited, count, restart, child, rebased>>

Stop ==
  /\ ~exited /\ brokers # <<>>
  /\ Becomes([Dropped EXCEPT !.slot = <<>>])
  /\ working' = FALSE
  /\ UNCHANGED <<env, exited, count, restart, child, rebased>>

\* emplace(wid)
Emplace ==
  /\ ~exited /\ working /\ Spare > 0
  /\ count' = count + 1
  /\ IF Enough(fd, 4)
     THEN Fork(Table) /\ Run({Newest}) /\ UNCHANGED <<working, exited>>
     ELSE Exit /\ UNCHANGED child
  /\ UNCHANGED <<env, restart, rebased>>

\* a process is killed, or has ended already
Kill(p) ==
  IF child[p] = "run"
  THEN \E how \in {"error", "fatal"} :
         /\ how = "error" => Spare > 0
         /\ child' = [child EXCEPT ![p] = how]
  ELSE UNCHANGED child

\* what the application erases
Erasable(p) == env.eraseAny \/ (brokers # <<>> /\ Last(brokers).pid = p)

\* erase(wid, pid), which ends with kill(pid, SIGTERM)
Erase(p) ==
  /\ ~exited /\ p \in DOMAIN slot
  /\ slot[p] <= Len(brokers)
  /\ Erasable(p)
  /\ Becomes([Table EXCEPT !.brokers = RemoveAt(@, slot[p]),
                           !.slot = Without(p),
                           !.fd = Shut(fd, Kept(brokers[slot[p]]))])
  /\ Kill(p)
  /\ UNCHANGED <<env, working, exited, count, restart, rebased>>

AutoRestart(mode) ==
  /\ ~exited
  /\ restart' = mode
  /\ UNCHANGED <<env, working, exited, count, table, child, rebased>>

(***************************************************************************)
(* SIGCHLD: child() reaps a zombie and process() looks for its broker.     *)
(***************************************************************************)
\* a plausible slip: the broker is erased, as in the CLOSE event
AfterEndErases(p) ==
  [Table EXCEPT !.brokers = RemoveAt(@, Matching(p)), !.slot = Without(p),
                !.fd = Shut(fd, Kept(brokers[Matching(p)]))]

\* the broker stays in the vector, with the numbers of closed descriptors
AfterEnd(p) ==
  [brokers |-> brokers, slot |-> Without(p), fd |-> Shut(fd, Kept(brokers[Matching(p)]))]

\* a plausible slip: only a process that called exit(0) is started again
FailedInverted(p) == child[p] = "zero"

Failed(p) == child[p] # "zero"

Sigchld(p) ==
  /\ ~exited /\ child[p] \in Ended
  /\ \/ /\ At(p) = {}
        /\ child' = [child EXCEPT ![p] = "reaped"]
        /\ UNCHANGED <<working, exited, table, rebased>>
     \/ /\ At(p) # {}
        /\ child[p] = "fatal" \/ ~restart
        /\ Exit
        /\ child' = [child EXCEPT ![p] = "reaped"]
        /\ UNCHANGED rebased
     \/ /\ At(p) # {}
        /\ child[p] # "fatal" /\ restart
        /\ IF ~Failed(p)
           THEN /\ Becomes(AfterEnd(p))
                /\ child' = [child EXCEPT ![p] = "reaped"]
                /\ UNCHANGED <<working, exited, rebased>>
           ELSE IF Enough(AfterEnd(p).fd, 4)
           THEN /\ Unused # {}
                /\ Fork(AfterEnd(p))
                /\ child' = [child EXCEPT ![p] = "reaped", ![Newest] = "run"]
                /\ rebased' = rebased \cup {p}
                /\ UNCHANGED <<working, exited>>
           ELSE /\ Exit
                /\ child' = [child EXCEPT ![p] = "reaped"]
                /\ UNCHANGED rebased
  /\ UNCHANGED <<env, count, restart>>

(***************************************************************************)
(* Worker::message, CLOSE: the other side of the pair is gone, and the     *)
(* descriptor is still watched.                                            *)
(***************************************************************************)
HungUp(p) ==
  /\ child[p] \in Ended
  /\ At(p) # {} /\ fd[brokers[Matching(p)].m[1]] = Reading(p)
  /\ env.closeFirst

\* the handler looks for the number, and the first broker that has it may be that of a
\* process reaped before, whose numbers are those of others by now
Numbered(d) ==
  CHOOSE i \in 1..Len(brokers) :
    brokers[i].m[1] = d /\ \A j \in 1..i - 1 : brokers[j].m[1] # d

Hangup(p) ==
  /\ ~exited /\ HungUp(p)
  /\ IF restart
     THEN /\ \E i \in {Numbered(brokers[Matching(p)].m[1])} :
               Becomes([Table EXCEPT !.brokers = RemoveAt(@, i),
                                     !.fd = Shut(fd, Kept(brokers[i]))])
          /\ UNCHANGED <<working, exited>>
     ELSE Exit
  /\ UNCHANGED <<env, count, restart, child, rebased>>

(***************************************************************************)
(* The surroundings: processes end by themselves, and when they read the   *)
(* end of their pair; the application opens descriptors.                   *)
(***************************************************************************)
\* how a process without a broker ends makes no difference: see ChildHangup
ChildEnds(p, how) ==
  /\ child[p] = "run" /\ At(p) # {}
  /\ how = "error" => Spare > 0
  /\ child' = [child EXCEPT ![p] = how]
  /\ UNCHANGED <<env, working, exited, count, restart, table, rebased>>

\* the CLOSE event in the process: stop(wid) and exit(EXIT_FAILURE)
ChildHangup(p) ==
  /\ child[p] = "run"
  /\ \A d \in Descriptors : fd[d] # Writing(p)
  /\ child' = [child EXCEPT ![p] = "error"]
  /\ UNCHANGED <<env, working, exited, count, restart, table, rebased>>

Open ==
  /\ ~exited /\ Enough(fd, 1)
  /\ Cardinality({d \in Descriptors : fd[d] = Stranger}) < env.strangers
  /\ fd' = [fd EXCEPT ![LowestFree(fd, 1)[1]] = Stranger]
  /\ UNCHANGED <<env, working, exited, count, restart, brokers, slot, child, rebased>>

ClusterInit ==
  /\ env \in Environments
  /\ working = FALSE /\ exited = FALSE
  /\ count = Workers
  /\ restart \in BOOLEAN
  /\ brokers = <<>> /\ slot = <<>>
  /\ fd = [d \in Descriptors |-> Closed]
  /\ child = [p \in Pids |-> "none"]
  /\ rebased = {}

ClusterNext ==
  \/ Start \/ Stop \/ CloseAll \/ Emplace \/ Open
  \/ \E mode \in BOOLEAN : AutoRestart(mode)
  \/ \E p \in Pids :
       \/ Erase(p) \/ Sigchld(p) \/ Hangup(p)
       \/ \E how \in Ended : ChildEnds(p, how)
       \/ ChildHangup(p)

ClusterSpec == ClusterInit /\ [][ClusterNext]_clusterVars

Reap == \E p \in Pids : Sigchld(p)
Dispatch == \E p \in Pids : Hangup(p)
Notice == \E p \in Pids : ChildHangup(p)

\* Signals are delivered, events are dispatched, and processes notice the end
\* of their pair; nothing makes an application call or a process end.
ClusterFairSpec == ClusterSpec /\ WF_clusterVars(Reap) /\ WF_clusterVars(Dispatch) /\ WF_clusterVars(Notice)
-----------------------------------------------------------------------------
Broker == [pid : Pids, m : Descriptors \X Descriptors, c : Descriptors \X Descriptors]

ClusterTypeOK ==
  /\ env \in Environments
  /\ working \in BOOLEAN /\ exited \in BOOLEAN /\ restart \in BOOLEAN
  /\ count \in Nat \ {0}
  /\ brokers \in Seq(Broker)
  /\ DOMAIN slot \subseteq Pids /\ \A p \in DOMAIN slot : slot[p] \in Nat \ {0}
  /\ rebased \subseteq Pids
  /\ fd \in [Descriptors -> ({0} \X {"closed", "stranger"}) \cup (Pids \X {"read", "write"})]
  /\ child \in [Pids -> {"none", "run", "reaped"} \cup Ended]

\* send(wid, pid): the processes it takes (their encoder exists from the HELLO of
\* the process, the first thing it sends, to the end of the broker), and where
\* the bytes go
Addressed == {p \in DOMAIN slot : At(p) # {} /\ child[p] = "run"}

Reaches(p) == slot[p] <= Len(brokers) /\ fd[brokers[slot[p]].c[2]] = Writing(p)

(***************************************************************************)
(* send() "sends a message to the child process" with the given id         *)
(* (cluster.cpp:1889): the index in _pids leads to the pair of that        *)
(* process, as long as no broker is taken out of the middle of the vector. *)
(***************************************************************************)
SendReachesInOrder ==
  ~env.eraseAny /\ ~env.closeFirst => \A p \in Addressed : Reaches(p)

(***************************************************************************)
(* Every process that runs and has a broker can be written to and read     *)
(* from, whatever numbers of other brokers were closed before: where the   *)
(* signal comes first and erase() takes the newest process. The handler of *)
(* CLOSE may close a number kept from a reaped process.                    *)
(***************************************************************************)
PairsOpen ==
  ~env.eraseAny /\ ~env.closeFirst =>
    \A i \in 1..Len(brokers) :
      child[brokers[i].pid] = "run" =>
        /\ fd[brokers[i].m[1]] = Reading(brokers[i].pid)
        /\ fd[brokers[i].c[2]] = Writing(brokers[i].pid)

(***************************************************************************)
(* However exits, closed pairs and calls interleave, no more processes are *)
(* served than were asked for.                                             *)
(***************************************************************************)
WithinCount ==
  Cardinality({p \in Pids : child[p] = "run" /\ At(p) # {}}) <= count

(***************************************************************************)
(* process() is the "method that restarts a process that has fallen"       *)
(* (cluster.cpp:531): a process that ended with an error is replaced,      *)
(* unless the master exits, closes all of them or has erased this one.     *)
(***************************************************************************)
Fallen(p) == child[p] = "error" /\ At(p) # {}

Settled(p) ==
  \/ p \in rebased \/ exited \/ brokers = <<>>
  \/ At(p) = {} /\ p \notin DOMAIN slot

Restarts == \A p \in Pids : Fallen(p) ~> Settled(p)

(***************************************************************************)
(* It is when the signal is delivered before the event, and erase() takes  *)
(* the process it was asked to take.                                       *)
(***************************************************************************)
RestartsOnSignal ==
  \A p \in Pids : Fallen(p) /\ ~env.closeFirst /\ ~env.eraseAny ~> Settled(p)

(***************************************************************************)
(* A process the master has dropped, with stop(), close(), erase() or by   *)
(* exiting, comes to its end.                                              *)
(***************************************************************************)
NoOrphans == \A p \in Pids : child[p] = "run" /\ At(p) = {} ~> child[p] # "run"
=============================================================================
