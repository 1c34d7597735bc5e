------------------------------- MODULE Queue -------------------------------
(***************************************************************************)
(* The record queue of src/sys/queue.cpp (awh::Queue).                     *)
(*                                                                         *)
(* Records lie one after the other in one byte vector: each is a header of *)
(* HeaderSize bytes that holds its size, then its payload.  Records are    *)
(* added at _iter.end and leave at _iter.begin; the space in front of      *)
(* `begin' is only given back when the queue has been drained.  Writers    *)
(* block on the condition variable `write' while the queue is at its       *)
(* record limit or its memory limit.                                       *)
(*                                                                         *)
(* Threads interleave at the mutex: a critical section is one action.      *)
(* What the code does outside of it is a step of its own: the test of      *)
(* `empty and count' in front of the lock of pop() and clear(), and the    *)
(* unlocked writes of _terminate.  A thread whose wait predicate is false  *)
(* keeps the mutex until it sleeps, so that a notification that does not   *)
(* hold the mutex can fall between the two.                                *)
(***************************************************************************)
EXTENDS Naturals, Sequences, FiniteSets

CONSTANTS
  Threads,       \* the threads that use the queue
  Uses,          \* who may call what: one of these for a whole behaviour
  Records,       \* the records offered to the queue, each pushed at most once
  SizeOf,        \* the payload size of a record
  HeaderSize,    \* sizeof(size_t)
  RecordLimits,  \* arguments of setMaxRecords; _max.records starts with one
  MemoryLimits,  \* arguments of setMaxMemory; _max.memory starts with one
  Nobody         \* the mutex is free

Operations == {"push", "pop", "clear", "reset", "limits", "swap", "destroy"}

ASSUME QueueAssumption ==
  /\ Uses \subseteq [Threads -> SUBSET Operations]
  /\ SizeOf \in [Records -> Nat \ {0}]
  /\ HeaderSize \in Nat \ {0}
  /\ RecordLimits \subseteq Nat \ {0}
  /\ MemoryLimits \subseteq Nat \ {0}
  /\ Nobody \notin Threads
  /\ Records # {}

VARIABLES
  may,        \* the operations each thread calls
  size,       \* _buffer.size()
  capacity,   \* _buffer.capacity()
  cells,      \* the headers written since the last memset, by address
  begin,      \* _iter.begin
  end,        \* _iter.end
  count,      \* _iter.count
  maxRecords, \* _max.records
  maxMemory,  \* _max.memory
  terminate,  \* _terminate
  owner,      \* the thread that holds _mtx between two steps
  pc,         \* where each thread is
  arg,        \* the record a thread is pushing
  asleep,     \* the threads asleep on _cv.write
  offered     \* the records push() has been called with

buffer == <<size, capacity, cells, begin, end, count>>
limits == <<maxRecords, maxMemory, may>>
threads == <<owner, pc, arg, asleep, offered>>
vars == <<buffer, limits, terminate, threads>>

Locations == {"idle", "full", "memory", "pop", "clear", "resetClear",
              "resetFree", "swap", "destroyed"}

(***************************************************************************)
(* Memory.  A cell is the header of one record at its address; a memset    *)
(* leaves zeroes, that is no cell.                                         *)
(***************************************************************************)
Bytes(r) == SizeOf[r] + HeaderSize

Larger(m, n) == IF m >= n THEN m ELSE n

\* rss(): is there room for record r, growing the vector if need be
Fits(r) ==
  IF size = 0 THEN Bytes(r) < maxMemory
  ELSE IF size > end
       THEN \/ size - end >= Bytes(r)
            \/ size + (Bytes(r) - (size - end)) < maxMemory
       ELSE capacity + Bytes(r) <= maxMemory

\* rss(): the size of the vector after it
Grown(r) == IF size > end THEN Larger(size, end + Bytes(r)) ELSE size + Bytes(r)

\* std::vector::resize: a vector that outgrows its capacity at least doubles
Reserved(n) == IF n <= capacity THEN capacity ELSE Larger(n, 2 * size)

\* the cell that starts at `begin', if the bytes there are not zero
AtBegin == {i \in 1..Len(cells) : cells[i].at = begin}

\* a plausible slip: the read offset survives the reset of the iterator
WipeKeepsBegin == end' = 0 /\ count' = 0 /\ cells' = <<>> /\ UNCHANGED begin

Wipe == /\ begin' = 0
        /\ end' = 0
        /\ count' = 0
        /\ cells' = <<>>

\* a plausible slip: one writer is woken where every one of them must be
NotifyOneWriter ==
  IF asleep = {} THEN UNCHANGED asleep
  ELSE \E t \in asleep : asleep' = asleep \ {t}

\* _cv.write.notify_all()
NotifyWriters == asleep' = {}

(***************************************************************************)
(* push()                                                                  *)
(***************************************************************************)
Idle(t, op) ==
  /\ pc[t] = "idle"
  /\ op \in may[t]
  /\ \A u \in Threads : pc[u] # "destroyed"

Goto(t, where) == pc' = [pc EXCEPT ![t] = where]

\* the part of push() behind the record limit: store the record, or wait for
\* the queue to be empty and return without it
Store(t, r) ==
  \/ /\ Fits(r)
     /\ cells' = Append(cells, [at |-> end, rec |-> r])
     /\ size' = Grown(r)
     /\ capacity' = Reserved(Grown(r))
     /\ end' = end + Bytes(r)
     /\ count' = count + 1
     /\ Goto(t, "idle")
     /\ UNCHANGED <<begin, owner>>
  \/ /\ ~Fits(r)
     /\ end = 0
     /\ Goto(t, "idle")
     /\ UNCHANGED <<buffer, owner>>
  \/ /\ ~Fits(r)
     /\ end # 0
     /\ Goto(t, "memory")
     /\ owner' = t
     /\ UNCHANGED buffer

Push(t, r) ==
  /\ Idle(t, "push")
  /\ owner = Nobody
  /\ r \notin offered
  /\ offered' = offered \cup {r}
  /\ arg' = [arg EXCEPT ![t] = r]
  /\ \/ /\ terminate
        /\ UNCHANGED <<buffer, owner, pc>>
     \/ /\ ~terminate
        /\ count >= maxRecords
        /\ Goto(t, "full")
        /\ owner' = t
        /\ UNCHANGED buffer
     \/ /\ ~terminate
        /\ count < maxRecords
        /\ Store(t, r)
  /\ UNCHANGED <<limits, terminate, asleep>>

\* condition_variable::wait with a false predicate: sleep and give up the mutex
Sleep(t) ==
  /\ owner = t
  /\ owner' = Nobody
  /\ asleep' = asleep \cup {t}
  /\ UNCHANGED <<buffer, limits, terminate, pc, arg, offered>>

\* the wait predicates of push()
MayLeave(t) ==
  \/ terminate
  \/ pc[t] = "full" /\ count < maxRecords
  \/ pc[t] = "memory" /\ end = 0

\* the standard allows a wait to return unnotified; with a false predicate the
\* thread just sleeps again, so only the other case is a step
WakeUnnotified(t) ==
  /\ t \in asleep
  /\ MayLeave(t)
  /\ asleep' = asleep \ {t}
  /\ UNCHANGED <<buffer, limits, terminate, owner, pc, arg, offered>>

Waiting(t) == pc[t] \in {"full", "memory"} /\ owner # t /\ t \notin asleep

\* a notified thread gets the mutex back and evaluates its predicate again
Resume(t) ==
  /\ Waiting(t)
  /\ owner = Nobody
  /\ \/ /\ ~MayLeave(t)
        /\ owner' = t
        /\ UNCHANGED <<buffer, pc>>
     \/ /\ terminate
        /\ Goto(t, "idle")
        /\ UNCHANGED <<buffer, owner>>
     \/ /\ ~terminate
        /\ MayLeave(t)
        /\ pc[t] = "full"
        /\ Store(t, arg[t])
     \/ /\ ~terminate
        /\ MayLeave(t)
        /\ pc[t] = "memory"
        /\ Goto(t, "idle")
        /\ UNCHANGED <<buffer, owner>>
  /\ UNCHANGED <<limits, terminate, arg, asleep, offered>>

(***************************************************************************)
(* pop(), clear() and reset()                                              *)
(***************************************************************************)
\* the test in front of the lock
PopTest(t) ==
  /\ Idle(t, "pop")
  /\ size > 0 /\ count > 0
  /\ Goto(t, "pop")
  /\ UNCHANGED <<buffer, limits, terminate, owner, arg, asleep, offered>>

\* a plausible slip: the iterator is not moved to the next record
PopKeepsBegin(t) ==
  /\ pc[t] = "pop"
  /\ owner = Nobody
  /\ Goto(t, "idle")
  /\ IF count > 1
     THEN /\ count' = count - 1
          /\ UNCHANGED <<begin, cells, end, asleep>>
     ELSE Wipe /\ NotifyWriters
  /\ UNCHANGED <<size, capacity, limits, terminate, owner, arg, offered>>

Pop(t) ==
  /\ pc[t] = "pop"
  /\ owner = Nobody
  /\ Goto(t, "idle")
  /\ \/ /\ AtBegin = {}
        /\ UNCHANGED <<cells, begin, end, count, asleep>>
     \/ \E i \in AtBegin :
          LET next == begin + Bytes(cells[i].rec) IN
          \/ /\ next = end
             /\ Wipe
             /\ NotifyWriters
          \/ /\ next # end
             /\ begin' = next
             /\ count' = count - 1
             /\ UNCHANGED <<cells, end, asleep>>
  /\ UNCHANGED <<size, capacity, limits, terminate, owner, arg, offered>>

ClearTest(t) ==
  /\ Idle(t, "clear")
  /\ size > 0 /\ count > 0
  /\ Goto(t, "clear")
  /\ UNCHANGED <<buffer, limits, terminate, owner, arg, asleep, offered>>

\* reset() calls clear(), which leaves the mutex again, and takes it once more
ResetTest(t) ==
  /\ Idle(t, "reset")
  /\ size > 0
  /\ Goto(t, IF count > 0 THEN "resetClear" ELSE "resetFree")
  /\ UNCHANGED <<buffer, limits, terminate, owner, arg, asleep, offered>>

Clear(t) ==
  /\ pc[t] \in {"clear", "resetClear"}
  /\ owner = Nobody
  /\ Wipe
  /\ NotifyWriters
  /\ Goto(t, IF pc[t] = "clear" THEN "idle" ELSE "resetFree")
  /\ UNCHANGED <<size, capacity, limits, terminate, owner, arg, offered>>

Free(t) ==
  /\ pc[t] = "resetFree"
  /\ owner = Nobody
  /\ size' = 0
  /\ capacity' = 0
  /\ cells' = <<>>
  /\ Goto(t, "idle")
  /\ UNCHANGED <<begin, end, count, limits, terminate, owner, arg, asleep, offered>>

SetMaxRecords(t, n) ==
  /\ Idle(t, "limits")
  /\ owner = Nobody
  /\ maxRecords' = n
  /\ UNCHANGED <<buffer, maxMemory, may, terminate, threads>>

SetMaxMemory(t, n) ==
  /\ Idle(t, "limits")
  /\ owner = Nobody
  /\ maxMemory' = n
  /\ UNCHANGED <<buffer, maxRecords, may, terminate, threads>>

(***************************************************************************)
(* swap() and the move operations, the other queue being a new one, and    *)
(* the destructor.  Both raise _terminate and notify without the mutex.    *)
(***************************************************************************)
SwapBegin(t) ==
  /\ Idle(t, "swap")
  /\ terminate' = TRUE
  /\ NotifyWriters
  /\ Goto(t, "swap")
  /\ UNCHANGED <<buffer, limits, owner, arg, offered>>

Swap(t) ==
  /\ pc[t] = "swap"
  /\ owner = Nobody
  /\ Wipe
  /\ size' = 0
  /\ capacity' = 0
  /\ terminate' = FALSE
  /\ Goto(t, "idle")
  /\ UNCHANGED <<limits, owner, arg, asleep, offered>>

Destroy(t) ==
  /\ Idle(t, "destroy")
  /\ terminate' = TRUE
  /\ NotifyWriters
  /\ Goto(t, "destroyed")
  /\ UNCHANGED <<buffer, limits, owner, arg, offered>>

Init ==
  /\ may \in Uses
  /\ size = 0 /\ capacity = 0 /\ cells = <<>>
  /\ begin = 0 /\ end = 0 /\ count = 0
  /\ maxRecords \in RecordLimits
  /\ maxMemory \in MemoryLimits
  /\ terminate = FALSE
  /\ owner = Nobody
  /\ pc = [t \in Threads |-> "idle"]
  /\ arg = [t \in Threads |-> CHOOSE r \in Records : TRUE]
  /\ asleep = {}
  /\ offered = {}

Advance(t) == Sleep(t) \/ Resume(t) \/ Pop(t) \/ Clear(t) \/ Free(t) \/ Swap(t)

Next ==
  \E t \in Threads :
    \/ \E r \in Records : Push(t, r)
    \/ Sleep(t) \/ WakeUnnotified(t) \/ Resume(t)
    \/ PopTest(t) \/ Pop(t)
    \/ ClearTest(t) \/ ResetTest(t) \/ Clear(t) \/ Free(t)
    \/ \E n \in RecordLimits : SetMaxRecords(t, n)
    \/ \E n \in MemoryLimits : SetMaxMemory(t, n)
    \/ SwapBegin(t) \/ Swap(t) \/ Destroy(t)

Spec == Init /\ [][Next]_vars

\* A thread inside an operation goes on, and the readers keep reading.
FairSpec == Spec /\ \A t \in Threads : WF_vars(Advance(t)) /\ WF_vars(PopTest(t))
-----------------------------------------------------------------------------
Cell == [at : Nat, rec : Records]

TypeOK ==
  /\ may \in Uses
  /\ size \in Nat /\ capacity \in Nat
  /\ cells \in Seq(Cell)
  /\ begin \in Nat /\ end \in Nat /\ count \in Nat
  /\ maxRecords \in RecordLimits /\ maxMemory \in MemoryLimits
  /\ terminate \in BOOLEAN
  /\ owner \in Threads \cup {Nobody}
  /\ pc \in [Threads -> Locations]
  /\ arg \in [Threads -> Records]
  /\ asleep \subseteq Threads
  /\ offered \subseteq Records

(***************************************************************************)
(* The iterator agrees with the bytes: `begin' is the header of the oldest *)
(* of `count' records that lie gapless up to `end' inside the vector, and  *)
(* an empty queue starts over at address 0.                                *)
(***************************************************************************)
After(i) == cells[i].at + Bytes(cells[i].rec)

Layout ==
  /\ end <= size
  /\ \A i \in 1..Len(cells) : After(i) <= end
  /\ \A i, j \in 1..Len(cells) : i < j => After(i) <= cells[j].at
  /\ \A i \in 1..Len(cells) - 1 : cells[i + 1].at = After(i)
  /\ end = IF cells = <<>> THEN 0 ELSE After(Len(cells))
  /\ count <= Len(cells)
  /\ begin = IF count = 0 THEN 0 ELSE cells[Len(cells) - count + 1].at
  /\ count = 0 => cells = <<>>

(***************************************************************************)
(* A writer is only ever asleep while there is a record whose removal will *)
(* notify it: notifications are sent when the queue drains (pop(), 142 to  *)
(* 152) or is cleared, never when it merely falls below its limit.         *)
(***************************************************************************)
NoLostWakeup == asleep # {} => count > 0

(***************************************************************************)
(* rss() never enlarges the buffer beyond the memory limit in force.       *)
(***************************************************************************)
GrowthWithinLimit == [][size' > size => size' <= maxMemory]_vars

(***************************************************************************)
(* A writer that waits for room gets out of push() as long as another      *)
(* thread keeps reading.                                                   *)
(***************************************************************************)
Readers == {t \in Threads : "pop" \in may[t]}

WritersReleased ==
  \A t \in Threads :
    pc[t] \in {"full", "memory"} /\ Readers \ {t} # {} ~> pc[t] = "idle"

(***************************************************************************)
(* The queue implements a first-in first-out channel: the accepted records *)
(* are the `count' ones that data() and pop() would find from `begin' on.  *)
(***************************************************************************)
Content ==
  IF count = 0 THEN <<>>
  ELSE LET oldest == CHOOSE i \in AtBegin : TRUE
       IN [i \in 1..count |-> cells[oldest + i - 1].rec]

MayDiscard ==
  \E u \in Uses, t \in Threads : u[t] \cap {"clear", "reset", "swap"} # {}

Channel == INSTANCE Fifo WITH Item <- Records, Discards <- MayDiscard, fifo <- Content

DeliversInOrder == Channel!Spec
=============================================================================
