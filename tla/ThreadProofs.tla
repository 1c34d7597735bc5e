---------------------------- MODULE ThreadProofs ----------------------------
(***************************************************************************)
(* The two parts whose threads meet without a dispatcher: the record queue *)
(* (Queue) and the clock of the event loop (Watch). The queue for every    *)
(* number of threads, every record size and every limit, as long as who    *)
(* calls reset() or swap() is the only user of it (both give the mutex     *)
(* back half way); the clock for any timers, delays, threads and requests. *)
(***************************************************************************)
EXTENDS Queue, Watch, SequenceTheorems, TLAPS

\* a thread that may call op uses the queue alone
Alone(op) ==
  \A u \in Uses : \A t \in Threads : op \in u[t] => \A o \in Threads \ {t} : u[o] = {}

\* who is busy may be, and reset() has emptied the queue when it frees the bytes
InsideReset ==
  \A t \in Threads :
    /\ pc[t] # "idle" => may[t] # {}
    /\ pc[t] \in {"resetClear", "resetFree"} => "reset" \in may[t]
    /\ pc[t] = "resetFree" => count = 0

LayoutInv == TypeOK /\ Layout /\ InsideReset

\* The size of a record and its header is a positive number.
LEMMA BytesPositive == ASSUME NEW r \in Records
                       PROVE  Bytes(r) \in Nat \ {0}
<1>1. SizeOf[r] \in Nat \ {0} /\ HeaderSize \in Nat \ {0}
  BY QueueAssumption
<1> QED BY <1>1 DEF Bytes

\* A vector that has grown for a record has room for it behind `end'.
LEMMA GrownFits ==
  ASSUME TypeOK, end <= size, NEW r \in Records
  PROVE  Grown(r) \in Nat /\ end + Bytes(r) <= Grown(r)
BY BytesPositive DEF TypeOK, Grown, Larger

\* Every header has an address and names a record.
LEMMA CellFields ==
  ASSUME TypeOK
  PROVE  \A k \in 1..Len(cells) : cells[k].at \in Nat /\ cells[k].rec \in Records
<1>1. \A k \in 1..Len(cells) : cells[k] \in Cell
  BY DEF TypeOK
<1> QED BY <1>1 DEF Cell

\* A record ends behind its header.
LEMMA CellSpan ==
  ASSUME TypeOK
  PROVE  \A k \in 1..Len(cells) : After(k) \in Nat /\ cells[k].at < After(k)
<1> SUFFICES ASSUME NEW k \in 1..Len(cells)
             PROVE  After(k) \in Nat /\ cells[k].at < After(k)
  OBVIOUS
<1>1. cells[k].at \in Nat /\ cells[k].rec \in Records
  BY CellFields
<1>2. Bytes(cells[k].rec) \in Nat \ {0}
  BY <1>1, BytesPositive
<1> QED BY <1>1, <1>2 DEF After

\* Two headers never share an address, so the header at `begin' is the one
\* the record count points at.
LEMMA HeadCell ==
  ASSUME TypeOK, Layout, NEW i \in AtBegin
  PROVE  /\ count > 0
         /\ i = Len(cells) - count + 1
         /\ i \in 1..Len(cells)
<1>1. i \in 1..Len(cells) /\ cells[i].at = begin
  BY DEF AtBegin
<1>2. count > 0
  <2>1. cells # <<>>
    BY <1>1
  <2> QED BY <2>1 DEF Layout, TypeOK
<1> DEFINE h == Len(cells) - count + 1
<1>3. h \in 1..Len(cells) /\ begin = cells[h].at
  BY <1>2 DEF Layout, TypeOK
<1>4. \A k \in 1..Len(cells) : cells[k].at \in Nat /\ cells[k].rec \in Records
  BY CellFields
<1>5. \A j, k \in 1..Len(cells) : j < k => cells[j].at < cells[k].at
  <2> SUFFICES ASSUME NEW j \in 1..Len(cells), NEW k \in 1..Len(cells), j < k
               PROVE  cells[j].at < cells[k].at
    OBVIOUS
  <2>1. After(j) <= cells[k].at
    BY DEF Layout
  <2>2. After(j) \in Nat /\ cells[j].at < After(j)
    BY CellSpan
  <2> QED BY <1>4, <2>1, <2>2
<1>6. i = h
  <2>1. i \in Nat /\ h \in Nat
    BY <1>1, <1>3
  <2>2. ~(i < h) /\ ~(h < i)
    BY <1>1, <1>3, <1>4, <1>5
  <2> QED BY <2>1, <2>2
<1> QED BY <1>1, <1>2, <1>6

\* Storing a record keeps the types and the layout.
LEMMA StoreKeepsLayout ==
  ASSUME TypeOK, Layout, NEW t \in Threads, NEW r \in Records, Store(t, r)
  PROVE  /\ size' \in Nat /\ capacity' \in Nat /\ cells' \in Seq(Cell)
         /\ begin' \in Nat /\ end' \in Nat /\ count' \in Nat
         /\ owner' \in Threads \cup {Nobody}
         /\ pc' \in [Threads -> Locations]
         /\ pc'[t] \in {"idle", "memory"}
         /\ \A u \in Threads \ {t} : pc'[u] = pc[u]
         /\ Layout'
<1>1. CASE UNCHANGED buffer
  <2>1. Layout'
    BY <1>1 DEF Layout, After, buffer
  <2> QED BY <1>1, <2>1, Zenon DEF Store, Goto, TypeOK, Locations, buffer
<1>2. CASE ~UNCHANGED buffer
  <2> DEFINE NewAfter(i) == cells'[i].at + Bytes(cells'[i].rec)
  <2>1. /\ cells' = Append(cells, [at |-> end, rec |-> r])
        /\ size' = Grown(r) /\ capacity' = Reserved(Grown(r))
        /\ end' = end + Bytes(r) /\ count' = count + 1
        /\ Goto(t, "idle") /\ UNCHANGED <<begin, owner>>
    BY <1>2 DEF Store
  <2>2. Bytes(r) \in Nat \ {0}
    BY BytesPositive
  <2>3. size' \in Nat /\ end' <= size'
    BY <2>1, GrownFits DEF Layout
  <2>4. capacity' \in Nat
    BY <2>1, GrownFits DEF TypeOK, Reserved, Larger, Layout
  <2>5. cells' \in Seq(Cell) /\ Len(cells') = Len(cells) + 1
    BY <2>1 DEF TypeOK, Cell
  <2>6. /\ \A i \in 1..Len(cells) : cells'[i] = cells[i]
        /\ cells'[Len(cells) + 1] = [at |-> end, rec |-> r]
    BY <2>1 DEF TypeOK
  <2>7. /\ \A i \in 1..Len(cells) : NewAfter(i) = After(i)
        /\ NewAfter(Len(cells) + 1) = end'
    <3>1. \A i \in 1..Len(cells) : NewAfter(i) = After(i)
      BY <2>6 DEF After
    <3>2. NewAfter(Len(cells) + 1) = end'
      BY <2>1, <2>6 DEF After
    <3> QED BY <3>1, <3>2
  <2>8. \A i \in 1..Len(cells) : After(i) \in Nat /\ After(i) <= end
    BY CellSpan DEF Layout
  <2>9. \A i \in 1..Len(cells') : NewAfter(i) <= end'
    BY <2>1, <2>2, <2>5, <2>7, <2>8 DEF TypeOK
  <2>10. \A i, j \in 1..Len(cells') : i < j => NewAfter(i) <= cells'[j].at
    <3> SUFFICES ASSUME NEW i \in 1..Len(cells'), NEW j \in 1..Len(cells'), i < j
                 PROVE  NewAfter(i) <= cells'[j].at
      OBVIOUS
    <3>1. i \in 1..Len(cells) /\ NewAfter(i) = After(i) /\ After(i) <= end
      BY <2>5, <2>7, <2>8
    <3>2. CASE j \in 1..Len(cells)
      BY <2>6, <3>1, <3>2 DEF Layout
    <3>3. CASE j = Len(cells) + 1
      BY <2>6, <3>1, <3>3
    <3> QED BY <2>5, <3>2, <3>3
  <2>11. \A i \in 1..Len(cells') - 1 : cells'[i + 1].at = NewAfter(i)
    <3>1. ASSUME NEW i \in 1..Len(cells), i = Len(cells)
          PROVE  cells'[i + 1].at = NewAfter(i)
      <4>1. end = After(i)
        BY <3>1 DEF Layout
      <4> QED BY <2>6, <2>7, <3>1, <4>1
    <3>2. ASSUME NEW i \in 1..Len(cells), i # Len(cells)
          PROVE  cells'[i + 1].at = NewAfter(i)
      <4>1. i \in 1..Len(cells) - 1 /\ i + 1 \in 1..Len(cells)
        BY <3>2 DEF TypeOK
      <4> QED BY <2>6, <2>7, <4>1 DEF Layout
    <3> QED BY <2>5, <3>1, <3>2 DEF TypeOK
  <2>12. end' = NewAfter(Len(cells')) /\ cells' # <<>>
    BY <2>5, <2>7
  <2>13. count' <= Len(cells') /\ count' # 0 /\ count' \in Nat
    BY <2>1, <2>5 DEF Layout, TypeOK
  <2>14. begin' = cells'[Len(cells') - count' + 1].at
    <3>1. CASE count = 0
      <4>1. Len(cells) = 0 /\ begin = 0 /\ end = 0
        BY <3>1 DEF Layout
      <4> QED BY <2>1, <2>5, <2>6, <3>1, <4>1 DEF TypeOK
    <3>2. CASE count # 0
      <4>1. Len(cells) - count + 1 \in 1..Len(cells)
        BY <3>2 DEF Layout, TypeOK
      <4>2. Len(cells') - count' + 1 = Len(cells) - count + 1
        BY <2>1, <2>5 DEF TypeOK
      <4> QED BY <2>1, <2>6, <3>2, <4>1, <4>2 DEF Layout
    <3> QED BY <3>1, <3>2
  <2>15. Layout'
    BY <2>3, <2>9, <2>10, <2>11, <2>12, <2>13, <2>14 DEF Layout, After
  <2>16. end' \in Nat /\ begin' \in Nat /\ owner' \in Threads \cup {Nobody}
    BY <2>1, <2>2 DEF TypeOK
  <2>17. /\ pc' \in [Threads -> Locations] /\ pc'[t] = "idle"
         /\ \A u \in Threads \ {t} : pc'[u] = pc[u]
    BY <2>1 DEF Goto, TypeOK, Locations
  <2> QED BY <2>3, <2>4, <2>5, <2>13, <2>15, <2>16, <2>17
<1> QED BY <1>1, <1>2

\* Resetting the iterator and the bytes together restores the empty layout.
LEMMA WipeKeepsLayout ==
  ASSUME Wipe, size' \in Nat
  PROVE  /\ Layout' /\ cells' \in Seq(Cell)
         /\ begin' \in Nat /\ end' \in Nat /\ count' \in Nat
<1>1. cells' = <<>> /\ begin' = 0 /\ end' = 0 /\ count' = 0
  BY DEF Wipe
<1>2. Len(cells') = 0
  BY <1>1
<1> QED BY <1>1, <1>2 DEF Layout

\* What pop() does under the mutex: nothing, a drain, or one record forward.
LEMMA PopCases ==
  ASSUME TypeOK, Layout, NEW t \in Threads, Pop(t)
  PROVE  \/ UNCHANGED <<cells, begin, end, count, asleep>>
         \/ Wipe /\ NotifyWriters
         \/ /\ count > 1 /\ count' = count - 1
            /\ begin' = cells[Len(cells) - count' + 1].at
            /\ UNCHANGED <<cells, end, asleep>>
<1>1. CASE UNCHANGED <<cells, begin, end, count, asleep>>
  BY <1>1
<1>2. CASE \E i \in AtBegin : begin + Bytes(cells[i].rec) = end /\ Wipe /\ NotifyWriters
  BY <1>2
<1>3. ASSUME NEW i \in AtBegin, begin + Bytes(cells[i].rec) # end,
             begin' = begin + Bytes(cells[i].rec), count' = count - 1,
             UNCHANGED <<cells, end, asleep>>
      PROVE  /\ count > 1
             /\ begin' = cells[Len(cells) - count' + 1].at
  <2>1. count > 0 /\ i = Len(cells) - count + 1 /\ i \in 1..Len(cells)
    BY HeadCell
  <2>2. begin' = After(i)
    BY <1>3 DEF After, AtBegin
  <2>3. i # Len(cells)
    BY <1>3, <2>1, <2>2 DEF Layout
  <2>4. i \in 1..Len(cells) - 1 /\ count > 1 /\ Len(cells) - count' + 1 = i + 1
    BY <1>3, <2>1, <2>3 DEF TypeOK
  <2> QED BY <2>2, <2>4 DEF Layout
<1> QED BY <1>1, <1>2, <1>3 DEF Pop

\* One record forward inside the bytes that are there.
LEMMA ForwardKeepsLayout ==
  ASSUME TypeOK, Layout, count > 1, count' = count - 1,
         begin' = cells[Len(cells) - count' + 1].at,
         UNCHANGED <<cells, end, size>>
  PROVE  Layout' /\ begin' \in Nat /\ count' \in Nat
<1>1. Len(cells) - count' + 1 \in 1..Len(cells) /\ count' \in Nat \ {0}
  BY DEF TypeOK, Layout
<1>2. begin' \in Nat
  BY <1>1, CellFields
<1>3. Layout'
  BY <1>1 DEF Layout, After, TypeOK
<1> QED BY <1>1, <1>2, <1>3

\* While a thread is inside reset() no other one has anything to do.
LEMMA ResetIsAlone ==
  ASSUME Alone("reset"), TypeOK, InsideReset,
         NEW t \in Threads, may[t] # {},
         NEW u \in Threads, pc[u] \in {"resetClear", "resetFree"}
  PROVE  u = t
BY DEF Alone, TypeOK, InsideReset

\* So what a thread that may does to the count is no business of reset(),
\* unless it is inside of it itself.
LEMMA InsideKeeps ==
  ASSUME Alone("reset"), TypeOK, InsideReset, NEW t \in Threads, may[t] # {},
         UNCHANGED may, pc' \in [Threads -> Locations],
         \A u \in Threads \ {t} : pc'[u] = pc[u],
         pc'[t] \in {"resetClear", "resetFree"} => "reset" \in may[t],
         pc'[t] = "resetFree" => count' = 0
  PROVE  InsideReset'
<1> SUFFICES ASSUME NEW u \in Threads
             PROVE  /\ pc'[u] # "idle" => may[u] # {}
                    /\ pc'[u] \in {"resetClear", "resetFree"} => "reset" \in may[u]
                    /\ pc'[u] = "resetFree" => count' = 0
  BY DEF InsideReset
<1>1. CASE u = t
  BY <1>1
<1>2. CASE u # t
  <2>1. pc'[u] = pc[u] /\ pc[u] \notin {"resetClear", "resetFree"}
    BY <1>2, ResetIsAlone
  <2> QED BY <2>1 DEF InsideReset
<1> QED BY <1>1, <1>2

(***************************************************************************)
(* The inductive invariant: types, layout, and what is left of reset().    *)
(***************************************************************************)
LEMMA LayoutInit == Init => LayoutInv
<1> SUFFICES ASSUME Init PROVE LayoutInv
  OBVIOUS
<1>1. (CHOOSE r \in Records : TRUE) \in Records
  BY QueueAssumption
<1>2. cells = <<>> /\ Len(cells) = 0
  BY DEF Init
<1>3. TypeOK
  <2>1. arg \in [Threads -> Records]
    BY <1>1 DEF Init
  <2>2. pc \in [Threads -> Locations]
    BY DEF Init, Locations
  <2>3. cells \in Seq(Cell)
    BY <1>2
  <2> QED BY <2>1, <2>2, <2>3 DEF Init, TypeOK
<1>4. Layout
  BY <1>2 DEF Init, Layout
<1>5. InsideReset
  BY DEF Init, InsideReset
<1> QED BY <1>3, <1>4, <1>5 DEF LayoutInv

LEMMA LayoutStep ==
  ASSUME Alone("reset"), LayoutInv, [Next]_vars
  PROVE  LayoutInv'
<1> USE DEF LayoutInv
<1>1. ASSUME NEW t \in Threads, NEW r \in Records, Push(t, r)
      PROVE  LayoutInv'
  <2>1. /\ arg' \in [Threads -> Records] /\ offered' \subseteq Records
        /\ UNCHANGED <<limits, terminate, asleep>>
        /\ may[t] # {} /\ pc[t] = "idle"
    BY <1>1 DEF Push, TypeOK, Idle
  <2>2. CASE Store(t, r)
    <3>1. TypeOK'
      BY <2>1, <2>2, StoreKeepsLayout DEF TypeOK, limits
    <3>2. InsideReset'
      BY <2>1, <2>2, StoreKeepsLayout, InsideKeeps DEF limits
    <3> QED BY <2>2, <3>1, <3>2, StoreKeepsLayout
  <2>3. CASE UNCHANGED <<buffer, owner, pc>>
    BY <2>1, <2>3 DEF TypeOK, Layout, After, InsideReset, buffer, limits
  <2>4. CASE Goto(t, "full") /\ owner' = t /\ UNCHANGED buffer
    <3>1. pc' \in [Threads -> Locations] /\ pc'[t] = "full"
          /\ \A u \in Threads \ {t} : pc'[u] = pc[u]
      BY <2>4 DEF Goto, TypeOK, Locations
    <3>2. InsideReset'
      BY <2>1, <3>1, InsideKeeps DEF limits
    <3>3. Layout'
      BY <2>4 DEF Layout, After, buffer
    <3> QED BY <2>1, <2>4, <3>1, <3>2, <3>3 DEF TypeOK, buffer, limits
  <2> QED BY <1>1, <2>2, <2>3, <2>4 DEF Push
<1>2. ASSUME NEW t \in Threads, Resume(t)
      PROVE  LayoutInv'
  <2>1. /\ UNCHANGED <<limits, terminate, arg, asleep, offered>>
        /\ pc[t] \in {"full", "memory"} /\ may[t] # {}
    BY <1>2 DEF Resume, Waiting, InsideReset
  <2>2. CASE Store(t, arg[t])
    <3>1. arg[t] \in Records
      BY DEF TypeOK
    <3>2. TypeOK'
      BY <2>1, <2>2, <3>1, StoreKeepsLayout DEF TypeOK, limits
    <3>3. InsideReset'
      BY <2>1, <2>2, <3>1, StoreKeepsLayout, InsideKeeps DEF limits
    <3> QED BY <2>2, <3>1, <3>2, <3>3, StoreKeepsLayout
  <2>3. CASE Goto(t, "idle") /\ UNCHANGED <<buffer, owner>>
    BY <2>1, <2>3 DEF TypeOK, Layout, After, InsideReset, buffer, limits, Goto, Locations
  <2>4. CASE owner' = t /\ UNCHANGED <<buffer, pc>>
    BY <2>1, <2>4 DEF TypeOK, Layout, After, InsideReset, buffer, limits
  <2> QED BY <1>2, <2>2, <2>3, <2>4 DEF Resume
<1>3. ASSUME NEW t \in Threads, Sleep(t) \/ WakeUnnotified(t)
      PROVE  LayoutInv'
  BY <1>3 DEF Sleep, WakeUnnotified, TypeOK, Layout, After, InsideReset, buffer, limits
<1>4. ASSUME NEW t \in Threads, PopTest(t) \/ ClearTest(t)
      PROVE  LayoutInv'
  BY <1>4 DEF PopTest, ClearTest, Idle, Goto, TypeOK, Locations, Layout, After,
              InsideReset, buffer, limits
<1>5. ASSUME NEW t \in Threads, Pop(t)
      PROVE  LayoutInv'
  <2>1. /\ pc' \in [Threads -> Locations] /\ pc'[t] = "idle"
        /\ \A u \in Threads \ {t} : pc'[u] = pc[u]
        /\ UNCHANGED <<size, capacity, limits, terminate, owner, arg, offered>>
        /\ may[t] # {}
    BY <1>5 DEF Pop, Goto, TypeOK, Locations, InsideReset
  <2>2. InsideReset'
    BY <2>1, InsideKeeps DEF limits
  <2>3. CASE UNCHANGED <<cells, begin, end, count, asleep>>
    BY <2>1, <2>3, <2>2 DEF TypeOK, Layout, After, limits
  <2>4. CASE Wipe /\ NotifyWriters
    <3>1. size' \in Nat
      BY <2>1 DEF TypeOK
    <3> QED BY <2>1, <2>4, <2>2, <3>1, WipeKeepsLayout DEF TypeOK, limits, NotifyWriters
  <2>5. CASE /\ count > 1 /\ count' = count - 1
             /\ begin' = cells[Len(cells) - count' + 1].at
             /\ UNCHANGED <<cells, end, asleep>>
    <3>1. Layout' /\ begin' \in Nat /\ count' \in Nat
      BY <2>1, <2>5, ForwardKeepsLayout
    <3> QED BY <2>1, <2>5, <2>2, <3>1 DEF TypeOK, limits
  <2> QED BY <1>5, <2>3, <2>4, <2>5, PopCases
<1>6. ASSUME NEW t \in Threads, Clear(t)
      PROVE  LayoutInv'
  <2>1. /\ pc' \in [Threads -> Locations] /\ pc'[t] \in {"idle", "resetFree"}
        /\ \A u \in Threads \ {t} : pc'[u] = pc[u]
        /\ pc'[t] = "resetFree" => pc[t] = "resetClear"
        /\ pc[t] # "idle" /\ size' \in Nat /\ count' = 0
    BY <1>6 DEF Clear, Goto, TypeOK, Locations, Wipe
  <2>2. may[t] # {} /\ (pc'[t] = "resetFree" => "reset" \in may[t]) /\ UNCHANGED may
    BY <1>6, <2>1 DEF InsideReset, Clear, limits
  <2>3. InsideReset'
    BY <2>1, <2>2, InsideKeeps
  <2> QED BY <1>6, <2>1, <2>3, WipeKeepsLayout DEF Clear, TypeOK, limits, NotifyWriters
<1>7. ASSUME NEW t \in Threads, ResetTest(t)
      PROVE  LayoutInv'
  <2>1. /\ pc' \in [Threads -> Locations]
        /\ \A u \in Threads \ {t} : pc'[u] = pc[u]
        /\ pc'[t] = "resetFree" => count = 0
        /\ "reset" \in may[t] /\ UNCHANGED <<buffer, limits, terminate, owner, arg, asleep, offered>>
    BY <1>7 DEF ResetTest, Goto, TypeOK, Locations, Idle
  <2>2. InsideReset'
    BY <2>1, InsideKeeps DEF limits, buffer
  <2> QED BY <2>1, <2>2 DEF TypeOK, Layout, After, buffer, limits
<1>8. ASSUME NEW t \in Threads, Free(t)
       PROVE  LayoutInv'
  <2>1. /\ pc' \in [Threads -> Locations] /\ pc'[t] = "idle"
        /\ \A u \in Threads \ {t} : pc'[u] = pc[u]
        /\ may[t] # {} /\ count = 0
        /\ UNCHANGED <<begin, end, count, limits, terminate, owner, arg, asleep, offered>>
    BY <1>8 DEF Free, Goto, TypeOK, Locations, InsideReset
  <2>2. InsideReset'
    BY <2>1, InsideKeeps DEF limits
  <2>3. cells = <<>> /\ begin = 0 /\ end = 0
    BY <2>1 DEF Layout
  <2>4. size' = 0 /\ capacity' = 0 /\ cells' = <<>> /\ Len(cells') = 0
    BY <1>8 DEF Free
  <2>5. Layout'
    BY <2>1, <2>3, <2>4 DEF Layout
  <2> QED BY <2>1, <2>2, <2>4, <2>5 DEF TypeOK, limits
<1>9. ASSUME NEW t \in Threads, NEW n \in RecordLimits, SetMaxRecords(t, n)
      PROVE  LayoutInv'
  BY <1>9 DEF SetMaxRecords, TypeOK, Layout, After, InsideReset, buffer, threads
<1>10. ASSUME NEW t \in Threads, NEW n \in MemoryLimits, SetMaxMemory(t, n)
      PROVE  LayoutInv'
  BY <1>10 DEF SetMaxMemory, TypeOK, Layout, After, InsideReset, buffer, threads
<1>11. ASSUME NEW t \in Threads, SwapBegin(t) \/ Destroy(t)
       PROVE  LayoutInv'
  BY <1>11 DEF SwapBegin, Destroy, NotifyWriters, Idle, Goto, TypeOK, Locations, Layout,
               After, InsideReset, buffer, limits
<1>12. ASSUME NEW t \in Threads, Swap(t)
       PROVE  LayoutInv'
  <2>1. /\ pc' \in [Threads -> Locations] /\ pc'[t] = "idle"
        /\ \A u \in Threads \ {t} : pc'[u] = pc[u]
        /\ may[t] # {} /\ size' \in Nat
    BY <1>12 DEF Swap, Goto, TypeOK, Locations, InsideReset
  <2>2. InsideReset'
    BY <1>12, <2>1, InsideKeeps DEF limits, Swap
  <2> QED BY <1>12, <2>1, <2>2, WipeKeepsLayout DEF Swap, TypeOK, limits
<1>13. CASE UNCHANGED vars
  BY <1>13 DEF vars, TypeOK, Layout, After, InsideReset, buffer, limits, threads
<1> QED BY <1>1, <1>2, <1>3, <1>4, <1>5, <1>6, <1>7, <1>9, <1>10, <1>11, <1>12,
           <1>13, <1>8 DEF Next

(***************************************************************************)
(* The iterator describes the bytes in every reachable state, and every    *)
(* variable keeps its type.                                                *)
(***************************************************************************)
THEOREM LayoutCorrect == ASSUME Alone("reset") PROVE Spec => [](TypeOK /\ Layout)
<1>1. Init => LayoutInv
  BY LayoutInit
<1>2. LayoutInv /\ [Next]_vars => LayoutInv'
  BY LayoutStep
<1>3. LayoutInv => TypeOK /\ Layout
  BY DEF LayoutInv
<1> QED BY <1>1, <1>2, <1>3, PTL DEF Spec

(***************************************************************************)
(* No writer sleeps in an empty queue. The strengthening: a writer that    *)
(* still holds the mutex on its way to sleep has seen a record, and nobody *)
(* can have taken it away since. swap() empties the queue after it has     *)
(* sent its notifications, so who calls it has to be the only user.        *)
(***************************************************************************)
WritersAsleep ==
  /\ owner \in Threads => count > 0 /\ pc[owner] \in {"full", "memory"}
  /\ \A t \in asleep : pc[t] \in {"full", "memory"}
  /\ \A t \in Threads : pc[t] = "swap" => "swap" \in may[t]

WakeupInv == LayoutInv /\ NoLostWakeup /\ WritersAsleep

\* A non-empty queue has a record, and an empty one no bytes in use.
LEMMA EndMeansCount == ASSUME TypeOK, Layout PROVE end # 0 => count > 0
BY DEF TypeOK, Layout

LEMMA WakeupStep ==
  ASSUME Alone("reset"), Alone("swap"), WakeupInv, [Next]_vars
  PROVE  WakeupInv'
<1> USE DEF WakeupInv
<1>1. LayoutInv'
  BY LayoutStep
<1>2. TypeOK /\ Layout /\ InsideReset /\ TypeOK'
  BY <1>1 DEF LayoutInv
<1>3. \A n \in RecordLimits : n \in Nat \ {0}
  BY QueueAssumption
<1>4. maxRecords \in Nat \ {0} /\ count \in Nat /\ count' \in Nat
  BY <1>2, <1>3 DEF TypeOK
<1>5. Nobody \notin Threads
  BY QueueAssumption
<1>6. ASSUME NEW t \in Threads, NEW r \in Records, Store(t, r), owner = Nobody,
             t \notin asleep, UNCHANGED <<may, asleep>>
      PROVE  NoLostWakeup' /\ WritersAsleep'
  <2>1. /\ pc'[t] \in {"idle", "memory"} /\ (owner' \in Threads => owner' = t /\ pc'[t] = "memory")
        /\ \A u \in Threads \ {t} : pc'[u] = pc[u]
    BY <1>2, <1>5, <1>6 DEF Store, Goto, TypeOK
  <2>2. count' >= count /\ (owner' \in Threads => count' > 0)
    BY <1>2, <1>4, <1>5, <1>6, EndMeansCount DEF Store, buffer
  <2>3. asleep \subseteq Threads
    BY <1>2 DEF TypeOK
  <2> QED BY <1>4, <1>6, <2>1, <2>2, <2>3 DEF NoLostWakeup, WritersAsleep
<1>7. ASSUME NEW t \in Threads, NEW r \in Records, Push(t, r)
      PROVE  NoLostWakeup' /\ WritersAsleep'
  <2>1. pc[t] = "idle" /\ t \notin asleep /\ owner = Nobody /\ UNCHANGED <<may, asleep>>
    BY <1>7 DEF Push, Idle, WritersAsleep, limits
  <2>2. CASE Store(t, r)
    BY <1>6, <2>1, <2>2
  <2>3. CASE UNCHANGED <<buffer, owner, pc>>
    BY <2>1, <2>3 DEF NoLostWakeup, WritersAsleep, buffer
  <2>4. CASE count >= maxRecords /\ Goto(t, "full") /\ owner' = t /\ UNCHANGED buffer
    BY <1>2, <1>4, <2>1, <2>4 DEF NoLostWakeup, WritersAsleep, buffer, Goto, TypeOK
  <2> QED BY <1>7, <2>2, <2>3, <2>4 DEF Push
<1>8. ASSUME NEW t \in Threads, Resume(t)
      PROVE  NoLostWakeup' /\ WritersAsleep'
  <2>1. /\ pc[t] \in {"full", "memory"} /\ t \notin asleep /\ owner = Nobody
        /\ UNCHANGED <<may, asleep>>
    BY <1>8 DEF Resume, Waiting, limits
  <2>2. CASE Store(t, arg[t])
    BY <1>2, <1>6, <2>1, <2>2 DEF TypeOK
  <2>3. CASE Goto(t, "idle") /\ UNCHANGED <<buffer, owner>>
    BY <1>2, <1>5, <2>1, <2>3 DEF NoLostWakeup, WritersAsleep, buffer, Goto, TypeOK
  <2>4. CASE ~MayLeave(t) /\ owner' = t /\ UNCHANGED <<buffer, pc>>
    <3>1. count > 0
      BY <1>2, <1>4, <2>1, <2>4, EndMeansCount DEF MayLeave
    <3> QED BY <2>1, <2>4, <3>1 DEF NoLostWakeup, WritersAsleep, buffer
  <2> QED BY <1>8, <2>2, <2>3, <2>4 DEF Resume
<1>9. ASSUME NEW t \in Threads, Sleep(t) \/ WakeUnnotified(t)
      PROVE  NoLostWakeup' /\ WritersAsleep'
  BY <1>2, <1>5, <1>9 DEF Sleep, WakeUnnotified, NoLostWakeup, WritersAsleep, buffer, limits
<1>10. ASSUME NEW t \in Threads, PopTest(t) \/ ClearTest(t) \/ ResetTest(t)
       PROVE  NoLostWakeup' /\ WritersAsleep'
  <2>1. pc[t] = "idle" /\ UNCHANGED <<buffer, limits, owner, asleep>>
    BY <1>10 DEF PopTest, ClearTest, ResetTest, Idle
  <2>2. /\ pc'[t] \in {"pop", "clear", "resetClear", "resetFree"}
        /\ \A u \in Threads \ {t} : pc'[u] = pc[u]
    BY <1>2, <1>10 DEF PopTest, ClearTest, ResetTest, Goto, TypeOK
  <2> QED BY <1>2, <2>1, <2>2 DEF NoLostWakeup, WritersAsleep, buffer, limits, TypeOK
<1>11. ASSUME NEW t \in Threads, Pop(t)
       PROVE  NoLostWakeup' /\ WritersAsleep'
  <2>1. /\ pc[t] = "pop" /\ pc'[t] = "idle" /\ \A u \in Threads \ {t} : pc'[u] = pc[u]
        /\ owner' = Nobody /\ UNCHANGED may /\ asleep' \subseteq asleep
    BY <1>2, <1>11 DEF Pop, Goto, TypeOK, limits, NotifyWriters
  <2>2. NoLostWakeup'
    <3>1. CASE UNCHANGED <<cells, begin, end, count, asleep>>
      BY <3>1 DEF NoLostWakeup
    <3>2. CASE NotifyWriters
      BY <3>2 DEF NoLostWakeup, NotifyWriters
    <3>3. CASE count > 1 /\ count' = count - 1
      BY <1>4, <3>3 DEF NoLostWakeup
    <3> QED BY <1>2, <1>11, <3>1, <3>2, <3>3, PopCases
  <2> QED BY <1>2, <1>5, <2>1, <2>2 DEF WritersAsleep, TypeOK
<1>12. ASSUME NEW t \in Threads, Clear(t)
       PROVE  NoLostWakeup' /\ WritersAsleep'
  BY <1>2, <1>5, <1>12 DEF Clear, NotifyWriters, Goto, NoLostWakeup, WritersAsleep, TypeOK, limits
<1>13. ASSUME NEW t \in Threads, Free(t)
       PROVE  NoLostWakeup' /\ WritersAsleep'
  BY <1>2, <1>5, <1>13 DEF Free, Goto, NoLostWakeup, WritersAsleep, TypeOK, limits
<1>14. ASSUME NEW t \in Threads, SwapBegin(t) \/ Destroy(t)
       PROVE  NoLostWakeup' /\ WritersAsleep'
  <2>1. /\ pc[t] = "idle" /\ asleep' = {} /\ UNCHANGED <<buffer, limits, owner>>
        /\ (pc'[t] = "swap" => "swap" \in may[t])
        /\ \A u \in Threads \ {t} : pc'[u] = pc[u]
    BY <1>2, <1>14 DEF SwapBegin, Destroy, Idle, NotifyWriters, Goto, TypeOK
  <2> QED BY <1>2, <2>1 DEF NoLostWakeup, WritersAsleep, buffer, limits
<1>15. ASSUME NEW t \in Threads, Swap(t)
       PROVE  NoLostWakeup' /\ WritersAsleep'
  <2>1. pc[t] = "swap" /\ "swap" \in may[t] /\ asleep \subseteq Threads /\ may \in [Threads -> SUBSET Operations]
    BY <1>2, <1>15, QueueAssumption DEF Swap, WritersAsleep, TypeOK
  <2>2. \A u \in Threads \ {t} : may[u] = {}
    BY <1>2, <2>1 DEF Alone, TypeOK
  <2>3. \A u \in Threads : pc[u] \in {"full", "memory"} => u = t
    BY <1>2, <2>2 DEF InsideReset
  <2>4. asleep = {}
    BY <2>1, <2>3 DEF WritersAsleep
  <2> QED BY <1>2, <1>5, <1>15, <2>4 DEF Swap, Goto, NoLostWakeup, WritersAsleep, TypeOK, limits
<1>16. ASSUME NEW t \in Threads,
              \/ \E n \in RecordLimits : SetMaxRecords(t, n)
              \/ \E n \in MemoryLimits : SetMaxMemory(t, n)
       PROVE  NoLostWakeup' /\ WritersAsleep'
  BY <1>16 DEF SetMaxRecords, SetMaxMemory, NoLostWakeup, WritersAsleep, buffer, threads
<1>17. ASSUME UNCHANGED vars
       PROVE  NoLostWakeup' /\ WritersAsleep'
  BY <1>17 DEF vars, NoLostWakeup, WritersAsleep, buffer, threads, limits
<1>18. NoLostWakeup' /\ WritersAsleep'
  BY <1>7, <1>8, <1>9, <1>10, <1>11, <1>12, <1>13, <1>14, <1>15, <1>16, <1>17 DEF Next
<1> QED BY <1>1, <1>18

(***************************************************************************)
(* A sleeping writer always has a notification to come: push(), pop() and  *)
(* clear() of src/sys/queue.cpp, with a notification only at a drain.      *)
(***************************************************************************)
THEOREM WakeupsNotLost ==
  ASSUME Alone("reset"), Alone("swap")
  PROVE  Spec => []NoLostWakeup
<1>1. Init => WakeupInv
  BY LayoutInit, QueueAssumption DEF Init, WakeupInv, NoLostWakeup, WritersAsleep
<1>2. WakeupInv /\ [Next]_vars => WakeupInv'
  BY WakeupStep
<1>3. WakeupInv => NoLostWakeup
  BY DEF WakeupInv
<1> QED BY <1>1, <1>2, <1>3, PTL DEF Spec
(***************************************************************************)
(* The queue implements the channel of module Fifo. Who is about to clear  *)
(* the queue may do so, which is all that the invariant has to add.        *)
(***************************************************************************)
ClearsMay ==
  \A t \in Threads : /\ pc[t] = "clear" => "clear" \in may[t]
                     /\ pc[t] = "swap" => "swap" \in may[t]

\* A thread that takes up an operation, or ends one, keeps that.
LEMMA ClearsMayStep ==
  ASSUME LayoutInv, ClearsMay, [Next]_vars
  PROVE  ClearsMay'
<1>1. /\ pc \in [Threads -> Locations]
      /\ may' = may
  <2>1. may' = may
    BY Zenon DEF Next, Push, Sleep, WakeUnnotified, Resume, PopTest, Pop, ClearTest,
                 ResetTest, Clear, Free, SetMaxRecords, SetMaxMemory, SwapBegin, Swap,
                 Destroy, vars, limits
  <2> QED BY <2>1 DEF LayoutInv, TypeOK
<1>2. ASSUME NEW t \in Threads, NEW w, Goto(t, w),
             w = "clear" => "clear" \in may[t],
             w = "swap" => "swap" \in may[t]
      PROVE  ClearsMay'
  BY <1>1, <1>2 DEF Goto, ClearsMay
<1>3. ASSUME pc' = pc
      PROVE  ClearsMay'
  BY <1>1, <1>3 DEF ClearsMay
<1>4. ASSUME NEW t \in Threads, NEW r, Store(t, r)
      PROVE  ClearsMay'
  BY <1>2, <1>4 DEF Store
<1>5. ASSUME NEW t \in Threads, NEW r \in Records, Push(t, r)
      PROVE  ClearsMay'
  BY <1>2, <1>3, <1>4, <1>5 DEF Push
<1>6. ASSUME NEW t \in Threads, Resume(t)
      PROVE  ClearsMay'
  BY <1>2, <1>3, <1>4, <1>6 DEF Resume
<1>7. ASSUME NEW t \in Threads,
             \/ Sleep(t) \/ WakeUnnotified(t)
             \/ \E n \in RecordLimits : SetMaxRecords(t, n)
             \/ \E n \in MemoryLimits : SetMaxMemory(t, n)
      PROVE  ClearsMay'
  BY <1>3, <1>7 DEF Sleep, WakeUnnotified, SetMaxRecords, SetMaxMemory, threads
<1>8. ASSUME NEW t \in Threads,
             \/ PopTest(t) \/ Pop(t) \/ ClearTest(t) \/ ResetTest(t)
             \/ Clear(t) \/ Free(t) \/ SwapBegin(t) \/ Swap(t) \/ Destroy(t)
      PROVE  ClearsMay'
  BY <1>2, <1>8 DEF PopTest, Pop, ClearTest, ResetTest, Clear, Free, SwapBegin, Swap,
                    Destroy, Idle
<1>9. CASE UNCHANGED vars
  BY <1>3, <1>9 DEF vars, threads
<1> QED BY <1>5, <1>6, <1>7, <1>8, <1>9 DEF Next

\* The record at position n of what is left of the queue.
Record(cs, rest, n) == cs[Len(cs) - rest + n].rec

\* What the readers will find is what the last `count' headers name.
LEMMA ContentIs ==
  TypeOK /\ Layout => Content = [n \in 1..count |-> Record(cells, count, n)]
<1> SUFFICES ASSUME TypeOK, Layout
             PROVE  Content = [n \in 1..count |-> Record(cells, count, n)]
  OBVIOUS
<1>1. CASE count = 0
  BY <1>1 DEF Content
<1>2. CASE count # 0
  <2> DEFINE h == Len(cells) - count + 1
             oldest == CHOOSE i \in AtBegin : TRUE
  <2>1. h \in 1..Len(cells) /\ cells[h].at = begin
    BY <1>2 DEF Layout, TypeOK
  <2>2. h \in AtBegin
    BY <2>1 DEF AtBegin
  <2>3. oldest \in AtBegin
    BY <2>2
  <2>4. oldest = h
    BY <2>3, HeadCell
  <2>5. Content = [n \in 1..count |-> cells[oldest + n - 1].rec]
    BY <1>2 DEF Content
  <2> HIDE DEF oldest
  <2>6. \A n \in 1..count : cells[oldest + n - 1].rec = Record(cells, count, n)
    BY <2>4 DEF Record, TypeOK, Layout
  <2> QED BY <2>5, <2>6
<1> QED BY <1>1, <1>2

\* The same of the state a step leads to.
LEMMA ContentWillBe ==
  TypeOK' /\ Layout' => Content' = [n \in 1..count' |-> Record(cells', count', n)]
<1> DEFINE Is == TypeOK /\ Layout => Content = [n \in 1..count |-> Record(cells, count, n)]
<1>1. Is
  BY ContentIs
<1> HIDE DEF Is
<1>2. Is'
  BY <1>1, PTL
<1> QED BY <1>2 DEF Is

\* Storing a record puts it behind all the others, or leaves them alone.
LEMMA StorePuts ==
  ASSUME LayoutInv, LayoutInv', NEW t \in Threads, NEW r \in Records, Store(t, r)
  PROVE  Content' = Append(Content, r) \/ Content' = Content
<1>1. CASE UNCHANGED buffer
  BY <1>1 DEF Content, AtBegin, buffer
<1>2. CASE ~UNCHANGED buffer
  <2>1. /\ cells' = Append(cells, [at |-> end, rec |-> r])
        /\ count' = count + 1
    BY <1>2 DEF Store
  <2>2. /\ Content = [n \in 1..count |-> Record(cells, count, n)]
        /\ Content' = [n \in 1..count' |-> Record(cells', count', n)]
    BY ContentIs, ContentWillBe DEF LayoutInv
  <2>3. /\ cells \in Seq(Cell) /\ count \in Nat /\ count <= Len(cells)
        /\ [at |-> end, rec |-> r] \in Cell
    BY DEF LayoutInv, TypeOK, Layout, Cell
  <2>4. \A n \in 1..count : /\ Record(cells', count', n) = Record(cells, count, n)
                            /\ Record(cells, count, n) \in Records
    BY <2>1, <2>3, CellFields DEF Record, LayoutInv
  <2>5. Record(cells', count', count + 1) = r
    BY <2>1, <2>3 DEF Record
  <2>6. Content \in Seq(Records) /\ Len(Content) = count
    BY <2>2, <2>3, <2>4
  <2> QED BY <2>1, <2>2, <2>3, <2>4, <2>5, <2>6
<1> QED BY <1>1, <1>2

\* pop() takes the oldest record, or finds nothing to take.
LEMMA PopTakes ==
  ASSUME LayoutInv, LayoutInv', NEW t \in Threads, Pop(t)
  PROVE  Channel!Take \/ Content' = Content
<1>1. CASE UNCHANGED <<cells, begin, end, count, asleep>>
  BY <1>1 DEF Content, AtBegin
<1>2. ASSUME ~UNCHANGED <<cells, begin, end, count, asleep>>
      PROVE  Channel!Take
  <2>1. /\ Content = [n \in 1..count |-> Record(cells, count, n)]
        /\ Content' = [n \in 1..count' |-> Record(cells', count', n)]
    BY ContentIs, ContentWillBe DEF LayoutInv
  <2>2. /\ cells \in Seq(Cell) /\ count \in Nat /\ count <= Len(cells)
    BY DEF LayoutInv, TypeOK, Layout
  <2>3. PICK i \in AtBegin :
           \/ begin + Bytes(cells[i].rec) = end /\ Wipe
           \/ begin + Bytes(cells[i].rec) # end /\ count' = count - 1 /\ cells' = cells
    BY <1>2 DEF Pop
  <2>4. /\ count > 0 /\ i = Len(cells) - count + 1 /\ i \in 1..Len(cells)
        /\ begin + Bytes(cells[i].rec) = After(i)
    BY HeadCell DEF LayoutInv, AtBegin, After
  <2>5. ASSUME begin + Bytes(cells[i].rec) = end
        PROVE  count = 1
    <3>1. i # Len(cells) => After(i) <= cells[Len(cells)].at
      BY <2>2, <2>4 DEF LayoutInv, Layout
    <3>2. /\ Len(cells) \in 1..Len(cells) /\ end = After(Len(cells))
          /\ cells[Len(cells)].at < After(Len(cells)) /\ After(Len(cells)) \in Nat
          /\ cells[Len(cells)].at \in Nat
      BY <2>2, <2>4, CellSpan, CellFields DEF LayoutInv, Layout
    <3> QED BY <2>2, <2>4, <2>5, <3>1, <3>2
  <2>6. Content # <<>> /\ Len(Content) = count /\ Content \in Seq(Records)
    <3>1. \A n \in 1..count : Record(cells, count, n) \in Records
      BY <2>2, CellFields DEF Record, LayoutInv
    <3> QED BY <2>1, <2>2, <2>4, <3>1
  <2>7. CASE begin + Bytes(cells[i].rec) = end /\ Wipe
    <3>1. count' = 0 /\ count = 1
      BY <2>5, <2>7 DEF Wipe
    <3>2. Content' = <<>>
      BY <2>1, <3>1
    <3>3. Tail(Content) = <<>>
      <4>1. Tail(Content) \in Seq(Records) /\ Len(Tail(Content)) = 0
        BY <2>6, <3>1, HeadTailProperties
      <4> QED BY <4>1, EmptySeq
    <3> QED BY <2>6, <3>2, <3>3 DEF Channel!Take
  <2>8. CASE begin + Bytes(cells[i].rec) # end /\ count' = count - 1 /\ cells' = cells
    <3>1. \A n \in 1..count' : Record(cells', count', n) = Record(cells, count, n + 1)
      BY <2>2, <2>4, <2>8 DEF Record
    <3>2. /\ Tail(Content) \in Seq(Records) /\ Len(Tail(Content)) = count'
          /\ \A n \in 1..count' : Tail(Content)[n] = Record(cells, count, n + 1)
      <4>1. /\ Tail(Content) \in Seq(Records) /\ Len(Tail(Content)) = count - 1
            /\ \A n \in 1..Len(Tail(Content)) : Tail(Content)[n] = Content[n + 1]
        BY <2>6, HeadTailProperties
      <4>2. /\ count' = count - 1 /\ count \in Nat \ {0}
            /\ \A n \in 1..count' : n + 1 \in 1..count
        BY <2>2, <2>4, <2>8
      <4>3. \A n \in 1..count : Content[n] = Record(cells, count, n)
        BY <2>1
      <4> HIDE DEF Record
      <4> QED BY <4>1, <4>2, <4>3
    <3>3. /\ Content' \in Seq(Records) /\ Len(Content') = count'
          /\ \A n \in 1..count' : Content'[n] = Tail(Content)[n]
      <4>1. \A n \in 1..count' : Tail(Content)[n] \in Records
        BY <3>2, ElementOfSeq
      <4> QED BY <2>1, <2>2, <2>4, <2>8, <3>1, <3>2, <4>1
    <3>4. Content' = Tail(Content)
      BY <3>2, <3>3, SeqEqual
    <3> QED BY <2>6, <3>4 DEF Channel!Take
  <2> QED BY <2>3, <2>7, <2>8
<1> QED BY <1>1, <1>2

\* Every step of the queue is one of the channel, or none at all.
LEMMA StepDelivers ==
  ASSUME LayoutInv, LayoutInv', ClearsMay, [Next]_vars
  PROVE  [Channel!Next]_Content
<1>1. ASSUME NEW t \in Threads, NEW r \in Records, Store(t, r)
      PROVE  [Channel!Next]_Content
  BY <1>1, StorePuts DEF Channel!Next, Channel!Put
<1>2. ASSUME UNCHANGED <<cells, begin, count>>
      PROVE  [Channel!Next]_Content
  BY <1>2 DEF Content, AtBegin
<1>3. ASSUME NEW t \in Threads, count' = 0, may[t] \cap {"clear", "reset", "swap"} # {}
      PROVE  [Channel!Next]_Content
  <2>1. MayDiscard
    BY <1>3 DEF MayDiscard, LayoutInv, TypeOK
  <2>2. Content' = <<>>
    BY <1>3 DEF Content
  <2> QED BY <2>1, <2>2 DEF Channel!Next, Channel!Discard
<1>4. ASSUME NEW t \in Threads, NEW r \in Records, Push(t, r)
      PROVE  [Channel!Next]_Content
  BY <1>1, <1>2, <1>4 DEF Push, buffer
<1>5. ASSUME NEW t \in Threads, Resume(t)
      PROVE  [Channel!Next]_Content
  <2>1. arg[t] \in Records
    BY DEF LayoutInv, TypeOK
  <2> QED BY <1>1, <1>2, <1>5, <2>1 DEF Resume, buffer
<1>6. ASSUME NEW t \in Threads, Pop(t)
      PROVE  [Channel!Next]_Content
  BY <1>6, PopTakes DEF Channel!Next
<1>7. ASSUME NEW t \in Threads, Clear(t)
      PROVE  [Channel!Next]_Content
  <2>1. count' = 0
    BY <1>7 DEF Clear, Wipe
  <2>2. may[t] \cap {"clear", "reset", "swap"} # {}
    BY <1>7 DEF Clear, LayoutInv, InsideReset, ClearsMay
  <2> QED BY <1>3, <2>1, <2>2
<1>8. ASSUME NEW t \in Threads, Free(t)
      PROVE  [Channel!Next]_Content
  <2>1. count' = 0
    BY <1>8 DEF Free, LayoutInv, InsideReset
  <2>2. may[t] \cap {"clear", "reset", "swap"} # {}
    BY <1>8 DEF Free, LayoutInv, InsideReset
  <2> QED BY <1>3, <2>1, <2>2
<1>9. ASSUME NEW t \in Threads, Swap(t)
      PROVE  [Channel!Next]_Content
  <2>1. count' = 0
    BY <1>9 DEF Swap, Wipe
  <2>2. may[t] \cap {"clear", "reset", "swap"} # {}
    BY <1>9 DEF Swap, ClearsMay
  <2> QED BY <1>3, <2>1, <2>2
<1>10. ASSUME NEW t \in Threads,
              \/ Sleep(t) \/ WakeUnnotified(t) \/ PopTest(t) \/ ClearTest(t)
              \/ ResetTest(t) \/ SwapBegin(t) \/ Destroy(t)
              \/ \E n \in RecordLimits : SetMaxRecords(t, n)
              \/ \E n \in MemoryLimits : SetMaxMemory(t, n)
       PROVE  [Channel!Next]_Content
  BY <1>2, <1>10 DEF Sleep, WakeUnnotified, PopTest, ClearTest, ResetTest, SwapBegin,
                     Destroy, SetMaxRecords, SetMaxMemory, buffer
<1>11. CASE UNCHANGED vars
  BY <1>2, <1>11 DEF vars, buffer
<1> QED BY <1>4, <1>5, <1>6, <1>7, <1>8, <1>9, <1>10, <1>11 DEF Next

(***************************************************************************)
(* What the readers of src/sys/queue.cpp get is what the writers put in,   *)
(* each accepted record once and the oldest first: the bytes and the       *)
(* iterator implement the channel of module Fifo, which loses its whole    *)
(* content at most, and only where somebody may call clear(), reset() or   *)
(* swap().                                                                 *)
(***************************************************************************)
THEOREM QueueIsFifo == ASSUME Alone("reset") PROVE Spec => DeliversInOrder
<1>1. Init => LayoutInv /\ ClearsMay /\ Channel!Init
  <2>1. Init => ClearsMay /\ Channel!Init
    BY DEF Init, ClearsMay, Channel!Init, Content
  <2> QED BY <2>1, LayoutInit
<1>2. LayoutInv /\ ClearsMay /\ [Next]_vars => LayoutInv' /\ ClearsMay'
  BY LayoutStep, ClearsMayStep
<1>3. LayoutInv /\ LayoutInv' /\ ClearsMay /\ [Next]_vars => [Channel!Next]_Content
  BY StepDelivers
<1> QED BY <1>1, <1>2, <1>3, PTL DEF Spec, DeliversInOrder, Channel!Spec

-----------------------------------------------------------------------------
(***************************************************************************)
(* The clock.                                                              *)
(***************************************************************************)
Unit == [sock : Socks, delay : Delays]

Shape ==
  /\ payload \in Seq(Unit)
  /\ \A s \in DOMAIN timers : timers[s] \in Nat
  /\ \A s \in DOMAIN left : left[s] \in Nat

(***************************************************************************)
(* The strengthening: what the list and the queue hold for a timer that is *)
(* held is its one request, with no less time than it has left. It needs   *)
(* that a new timer meets no request of an earlier one.                    *)
(***************************************************************************)
OneRequest ==
  /\ \A s \in held \cap DOMAIN timers : s \in DOMAIN left /\ left[s] <= timers[s]
  /\ \A i \in 1..Len(payload) : payload[i].sock \in held =>
       /\ payload[i].sock \in DOMAIN left
       /\ left[payload[i].sock] <= payload[i].delay
       /\ payload[i].sock \notin DOMAIN timers
  /\ \A i, j \in 1..Len(payload) :
       payload[i].sock = payload[j].sock /\ payload[i].sock \in held => i = j

WInv == Shape /\ (~env.reuse => OneRequest)

\* A request has a delay of at least one tick.
LEMMA UnitFields ==
  ASSUME Shape, NEW i \in 1..Len(payload)
  PROVE  /\ payload[i] \in Unit
         /\ payload[i].sock \in Socks /\ payload[i].delay \in Nat \ {0}
<1>1. payload[i] \in Unit
  BY DEF Shape
<1>2. payload[i].sock \in Socks /\ payload[i].delay \in Delays
  BY <1>1 DEF Unit
<1> QED BY <1>1, <1>2, WatchAssumption

\* What is left after a tick, and its order.
LEMMA LessIsLess ==
  ASSUME NEW f, NEW x \in DOMAIN f, f[x] \in Nat
  PROVE  /\ DOMAIN Less(f) = DOMAIN f /\ Less(f)[x] \in Nat
         /\ Less(f)[x] = IF f[x] > 0 THEN f[x] - 1 ELSE f[x]
BY DEF Less

\* What ringing leaves behind.
LEMMA RingLeaves ==
  ASSUME NEW f, Ring(f)
  PROVE  /\ DOMAIN timers' = DOMAIN f \ Overdue(f)
         /\ \A s \in DOMAIN timers' : timers'[s] = f[s]
         /\ DOMAIN left' = DOMAIN left \ Overdue(f)
         /\ \A s \in DOMAIN left' : left'[s] = left[s]
         /\ \A s : Rings(s) => s \in Overdue(f)
<1>1. Overdue(f) \subseteq DOMAIN f
  BY DEF Overdue
<1>2. timers' = [s \in DOMAIN f \ Overdue(f) |-> f[s]]
  BY DEF Ring, Without, Restrict
<1>3. left' = [s \in DOMAIN left \ Overdue(f) |-> left[s]]
  BY DEF Ring, Without, Restrict
<1>4. notifiers' = [s \in DOMAIN notifiers |-> notifiers[s] \/ s \in Overdue(f)]
  BY DEF Ring
<1>5. \A s : Rings(s) => s \in Overdue(f)
  BY <1>4, Zenon DEF Rings
<1> QED BY <1>2, <1>3, <1>5

(***************************************************************************)
(* Ringing keeps the invariant if what rings is the list, or the list with *)
(* the request that was taken from the front of the queue.                 *)
(***************************************************************************)
LEMMA RunKeeps ==
  ASSUME WInv, NEW t \in Receivers, Run(t)
  PROVE  /\ WInv'
         /\ \A s \in held : ~env.reuse /\ Rings(s) => s \in DOMAIN left /\ left[s] = 0
<1> USE DEF WInv
<1>0. UNCHANGED <<env, held, payload>>
  BY DEF Run
<1>1. CASE UNCHANGED <<left, timers, notifiers>>
  BY <1>0, <1>1 DEF Shape, OneRequest, Rings
<1>2. CASE Ring(timers)
  <2>1. /\ DOMAIN timers' = DOMAIN timers \ Overdue(timers)
        /\ \A s \in DOMAIN timers' : timers'[s] = timers[s]
        /\ DOMAIN left' = DOMAIN left \ Overdue(timers)
        /\ \A s \in DOMAIN left' : left'[s] = left[s]
        /\ \A s : Rings(s) => s \in Overdue(timers)
    BY <1>2, RingLeaves
  <2>2. Overdue(timers) = {s \in DOMAIN timers : timers[s] = 0}
    BY DEF Overdue
  <2>3. Shape'
    BY <1>0, <2>1 DEF Shape
  <2>4. ASSUME ~env.reuse PROVE OneRequest'
    BY <1>0, <2>1, <2>2, <2>4 DEF OneRequest
  <2>5. ASSUME NEW s \in held, ~env.reuse, Rings(s)
        PROVE  s \in DOMAIN left /\ left[s] = 0
    <3>1. s \in DOMAIN timers /\ timers[s] = 0
      BY <2>1, <2>2, <2>5
    <3>2. s \in DOMAIN left /\ left[s] <= timers[s] /\ left[s] \in Nat
      BY <2>5, <3>1 DEF OneRequest, Shape
    <3> QED BY <3>1, <3>2
  <2> QED BY <1>0, <2>3, <2>4, <2>5
<1> QED BY <1>1, <1>2 DEF Run

LEMMA ProcessKeeps ==
  ASSUME WInv, NEW t \in Receivers, Process(t)
  PROVE  /\ WInv'
         /\ \A s \in held : ~env.reuse /\ Rings(s) => s \in DOMAIN left /\ left[s] = 0
<1> USE DEF WInv
<1>0. UNCHANGED <<env, held>>
  BY DEF Process
<1>1. CASE UNCHANGED <<left, timers, notifiers, payload>>
  BY <1>0, <1>1 DEF Shape, OneRequest, Rings
<1>2. CASE payload # <<>>
  <2> DEFINE unit == Head(payload)
             f == [s \in DOMAIN timers \cup {unit.sock} |->
                     IF s = unit.sock THEN unit.delay ELSE timers[s]]
  <2>1. Ring(f) /\ payload' = Tail(payload)
    BY <1>2 DEF Process
  <2>2. 1 \in 1..Len(payload) /\ unit = payload[1]
    BY <1>2 DEF Shape
  <2>3. unit.sock \in Socks /\ unit.delay \in Nat \ {0}
    BY <2>2, UnitFields
  <2>4. /\ payload' \in Seq(Unit) /\ Len(payload') = Len(payload) - 1
        /\ \A i \in 1..Len(payload') : i + 1 \in 1..Len(payload) /\ payload'[i] = payload[i + 1]
    BY <1>2, <2>1 DEF Shape
  <2>5. /\ DOMAIN f = DOMAIN timers \cup {unit.sock}
        /\ f[unit.sock] = unit.delay
        /\ \A s \in DOMAIN timers \ {unit.sock} : f[s] = timers[s]
    OBVIOUS
  <2>6. /\ DOMAIN timers' = DOMAIN f \ Overdue(f)
        /\ \A s \in DOMAIN timers' : timers'[s] = f[s]
        /\ DOMAIN left' = DOMAIN left \ Overdue(f)
        /\ \A s \in DOMAIN left' : left'[s] = left[s]
        /\ \A s : Rings(s) => s \in Overdue(f)
    BY <2>1, RingLeaves
  <2>7. \A s \in Overdue(f) : s \in DOMAIN timers \ {unit.sock} /\ timers[s] = 0
    BY <2>3, <2>5 DEF Overdue
  <2> HIDE DEF unit, f
  <2>8. Shape'
    <3>1. \A s \in DOMAIN timers' : timers'[s] \in Nat
      BY <2>3, <2>5, <2>6 DEF Shape
    <3>2. \A s \in DOMAIN left' : left'[s] \in Nat
      BY <2>6 DEF Shape
    <3> QED BY <2>4, <3>1, <3>2 DEF Shape
  <2>9. ASSUME ~env.reuse PROVE OneRequest'
    <3> USE <2>9
    <3>1. ASSUME NEW s \in held', s \in DOMAIN timers'
          PROVE  s \in DOMAIN left' /\ left'[s] <= timers'[s]
      <4>1. s \in DOMAIN f /\ s \notin Overdue(f) /\ timers'[s] = f[s] /\ s \in held
        BY <1>0, <2>6, <3>1
      <4>2. CASE s = unit.sock
        BY <2>2, <2>5, <2>6, <4>1, <4>2 DEF OneRequest
      <4>3. CASE s # unit.sock
        BY <2>5, <2>6, <4>1, <4>3 DEF OneRequest
      <4> QED BY <4>2, <4>3
    <3>2. ASSUME NEW i \in 1..Len(payload'), payload'[i].sock \in held'
          PROVE  /\ payload'[i].sock \in DOMAIN left'
                 /\ left'[payload'[i].sock] <= payload'[i].delay
                 /\ payload'[i].sock \notin DOMAIN timers'
      <4>1. /\ i + 1 \in 1..Len(payload) /\ i + 1 # 1
            /\ payload'[i] = payload[i + 1] /\ payload[i + 1].sock \in held
        BY <1>0, <2>4, <3>2
      <4>2. /\ payload[i + 1].sock # unit.sock
            /\ payload[i + 1].sock \notin DOMAIN timers
        BY <2>2, <4>1 DEF OneRequest
      <4>3. payload[i + 1].sock \notin DOMAIN f /\ payload[i + 1].sock \notin Overdue(f)
        BY <2>5, <2>7, <4>2
      <4> QED BY <2>6, <4>1, <4>3 DEF OneRequest
    <3>3. ASSUME NEW i \in 1..Len(payload'), NEW j \in 1..Len(payload'),
                 payload'[i].sock = payload'[j].sock, payload'[i].sock \in held'
          PROVE  i = j
      <4>1. /\ i + 1 \in 1..Len(payload) /\ payload'[i] = payload[i + 1]
            /\ j + 1 \in 1..Len(payload) /\ payload'[j] = payload[j + 1]
        BY <2>4
      <4>2. i + 1 = j + 1
        BY <1>0, <3>3, <4>1 DEF OneRequest
      <4> QED BY <4>2
    <3> QED BY <3>1, <3>2, <3>3 DEF OneRequest
  <2>10. ASSUME NEW s \in held, ~env.reuse, Rings(s)
         PROVE  s \in DOMAIN left /\ left[s] = 0
    <3>1. s \in DOMAIN timers /\ timers[s] = 0
      BY <2>6, <2>7, <2>10
    <3>2. s \in DOMAIN left /\ left[s] <= timers[s] /\ left[s] \in Nat
      BY <2>10, <3>1 DEF OneRequest, Shape
    <3> QED BY <3>1, <3>2
  <2> QED BY <1>0, <2>8, <2>9, <2>10
<1> QED BY <1>1, <1>2 DEF Process

\* What the thread of the loop does, and the steps of the clock that ring nothing.
LEMMA CreateKeeps ==
  ASSUME WInv, Create
  PROVE  WInv' /\ \A s : ~Rings(s)
<1> USE DEF WInv
<1>1. PICK s \in env.socks \ DOMAIN notifiers :
        /\ env.reuse \/ ~Stale(s)
        /\ held' = held \cup {s}
        /\ notifiers' = [n \in DOMAIN notifiers \cup {s} |->
                           IF n = s THEN FALSE ELSE notifiers[n]]
  BY DEF Create
<1>2. UNCHANGED <<env, left, payload, timers>>
  BY DEF Create, screen
<1>3. Shape'
  BY <1>2 DEF Shape
<1>4. ASSUME ~env.reuse PROVE OneRequest'
  <2>1. s \notin DOMAIN timers /\ \A i \in 1..Len(payload) : payload[i].sock # s
    BY <1>1, <1>4 DEF Stale, Shape
  <2> QED BY <1>1, <1>2, <1>4, <2>1 DEF OneRequest
<1>5. \A n : ~Rings(n)
  BY <1>1, Zenon DEF Rings
<1> QED BY <1>2, <1>3, <1>4, <1>5

LEMMA WaitKeeps ==
  ASSUME WInv, NEW s \in Socks, NEW d \in Delays, Wait(s, d)
  PROVE  WInv' /\ \A n : ~Rings(n)
<1> USE DEF WInv
<1>1. UNCHANGED <<env, held, timers, notifiers>>
  BY DEF Wait
<1>2. /\ s \in held /\ s \notin DOMAIN left
      /\ left' = [n \in DOMAIN left \cup {s} |-> IF n = s THEN d ELSE left[n]]
      /\ payload' = Append(payload, [sock |-> s, delay |-> d])
  BY DEF Wait
<1>3. d \in Nat
  BY WatchAssumption
<1>4. /\ DOMAIN left' = DOMAIN left \cup {s} /\ left'[s] = d
      /\ \A n \in DOMAIN left : left'[n] = left[n]
  BY <1>2
<1>5. /\ payload' \in Seq(Unit) /\ Len(payload') = Len(payload) + 1
      /\ Len(payload) \in Nat
      /\ \A i \in 1..Len(payload) : payload'[i] = payload[i]
      /\ payload'[Len(payload) + 1] = [sock |-> s, delay |-> d]
  BY <1>2 DEF Shape, Unit
<1>6. Shape'
  BY <1>1, <1>3, <1>4, <1>5 DEF Shape
<1>7. ASSUME ~env.reuse PROVE OneRequest'
  <2> USE <1>7
  <2>1. s \notin DOMAIN timers
    BY <1>2 DEF OneRequest
  <2>2. \A i \in 1..Len(payload) : payload[i].sock # s
    BY <1>2 DEF OneRequest
  <2>3. \A i \in 1..Len(payload') : i \in 1..Len(payload) \/ i = Len(payload) + 1
    BY <1>5
  <2>4. \A n \in held' \cap DOMAIN timers' : n \in DOMAIN left' /\ left'[n] <= timers'[n]
    BY <1>1, <1>4, <2>1 DEF OneRequest
  <2>5. ASSUME NEW i \in 1..Len(payload'), payload'[i].sock \in held'
        PROVE  /\ payload'[i].sock \in DOMAIN left'
               /\ left'[payload'[i].sock] <= payload'[i].delay
               /\ payload'[i].sock \notin DOMAIN timers'
    <3>1. CASE i \in 1..Len(payload)
      <4>1. payload'[i] = payload[i] /\ payload[i].sock \in held /\ payload[i].sock # s
        BY <1>1, <1>5, <2>2, <2>5, <3>1
      <4> QED BY <1>1, <1>4, <3>1, <4>1 DEF OneRequest
    <3>2. CASE i = Len(payload) + 1
      <4>1. payload'[i].sock = s /\ payload'[i].delay = d
        BY <1>5, <3>2
      <4> QED BY <1>1, <1>3, <1>4, <2>1, <4>1
    <3> QED BY <2>3, <3>1, <3>2
  <2>6. ASSUME NEW i \in 1..Len(payload'), NEW j \in 1..Len(payload'),
               payload'[i].sock = payload'[j].sock, payload'[i].sock \in held'
        PROVE  i = j
    <3>1. payload'[Len(payload) + 1].sock = s
      BY <1>5
    <3>2. CASE i \in 1..Len(payload) /\ j \in 1..Len(payload)
      BY <1>1, <1>5, <2>6, <3>2 DEF OneRequest
    <3>3. CASE i = Len(payload) + 1 \/ j = Len(payload) + 1
      BY <1>5, <2>2, <2>3, <2>6, <3>1, <3>3
    <3> QED BY <2>3, <3>2, <3>3
  <2> QED BY <2>4, <2>5, <2>6 DEF OneRequest
<1>8. \A n : ~Rings(n)
  BY <1>1 DEF Rings
<1> QED BY <1>1, <1>6, <1>7, <1>8

\* A timer that is given up takes with it what was asked for it.
LEMMA AwayKeeps ==
  ASSUME WInv, (\E s \in Socks : AwayTest(s)) \/ AwayErase
  PROVE  WInv' /\ \A n : ~Rings(n)
<1> USE DEF WInv
<1>1. CASE \E s \in Socks : AwayTest(s)
  <2>1. PICK s \in Socks : AwayTest(s)
    BY <1>1
  <2>2. /\ UNCHANGED <<env, timers, notifiers, payload>>
        /\ held' = held \ {s} /\ left' = [n \in DOMAIN left \ {s} |-> left[n]]
    BY <2>1 DEF AwayTest, Without, Restrict, screen
  <2>3. DOMAIN left' = DOMAIN left \ {s} /\ \A n \in DOMAIN left' : left'[n] = left[n]
    BY <2>2
  <2>4. Shape'
    BY <2>2, <2>3 DEF Shape
  <2>5. ASSUME ~env.reuse PROVE OneRequest'
    BY <2>2, <2>3, <2>5 DEF OneRequest
  <2> QED BY <2>2, <2>4, <2>5 DEF Rings
<1>2. CASE AwayErase
  <2>1. /\ UNCHANGED <<env, held, left, payload>>
        /\ timers' = [n \in DOMAIN timers \ {call.sock} |-> timers[n]]
        /\ notifiers' = [n \in DOMAIN notifiers \ {call.sock} |-> notifiers[n]]
    BY <1>2 DEF AwayErase, Without, Restrict, screen
  <2>2. /\ DOMAIN timers' \subseteq DOMAIN timers
        /\ \A n \in DOMAIN timers' : timers'[n] = timers[n]
    BY <2>1
  <2>3. Shape'
    BY <2>1, <2>2 DEF Shape
  <2>4. ASSUME ~env.reuse PROVE OneRequest'
    BY <2>1, <2>2, <2>4 DEF OneRequest
  <2>5. \A n : ~Rings(n)
    BY <2>1, Zenon DEF Rings
  <2> QED BY <2>1, <2>3, <2>4, <2>5
<1> QED BY <1>1, <1>2

\* Time runs as fast for what a timer has left as for its entry in the list.
LEMMA TickKeeps ==
  ASSUME WInv, Tick
  PROVE  WInv' /\ \A n : ~Rings(n)
<1> USE DEF WInv
<1>1. /\ UNCHANGED <<env, held, payload, notifiers>>
      /\ timers' = Less(timers) /\ left' = Less(left)
  BY DEF Tick
<1>2. /\ DOMAIN timers' = DOMAIN timers /\ DOMAIN left' = DOMAIN left
      /\ \A s \in DOMAIN timers : /\ timers[s] \in Nat /\ timers'[s] \in Nat
                                  /\ timers'[s] = IF timers[s] > 0 THEN timers[s] - 1 ELSE timers[s]
      /\ \A s \in DOMAIN left : /\ left[s] \in Nat /\ left'[s] \in Nat
                                /\ left'[s] = IF left[s] > 0 THEN left[s] - 1 ELSE left[s]
  BY <1>1 DEF Less, Shape
<1>3. Shape'
  BY <1>1, <1>2 DEF Shape
<1>4. ASSUME ~env.reuse PROVE OneRequest'
  <2>1. \A s \in held' \cap DOMAIN timers' : s \in DOMAIN left' /\ left'[s] <= timers'[s]
    BY <1>1, <1>2, <1>4 DEF OneRequest
  <2>2. ASSUME NEW i \in 1..Len(payload), payload[i].sock \in held
        PROVE  /\ payload[i].sock \in DOMAIN left'
               /\ left'[payload[i].sock] <= payload[i].delay
               /\ payload[i].sock \notin DOMAIN timers'
    <3>1. payload[i].delay \in Nat
      BY UnitFields
    <3>2. /\ payload[i].sock \in DOMAIN left /\ left[payload[i].sock] <= payload[i].delay
          /\ payload[i].sock \notin DOMAIN timers
      BY <1>4, <2>2 DEF OneRequest
    <3> QED BY <1>2, <3>1, <3>2
  <2> QED BY <1>1, <1>4, <2>1, <2>2 DEF OneRequest
<1> QED BY <1>1, <1>3, <1>4 DEF Rings

LEMMA OthersKeep ==
  ASSUME WInv,
         \/ Notify \/ Stop \/ Start \/ UNCHANGED watchVars
         \/ \E s \in Socks : Read(s)
         \/ \E t \in Receivers : Top(t) \/ Check(t) \/ Doze(t) \/ Wake(t) \/ Test(t) \/ First(t)
  PROVE  WInv' /\ \A n : ~Rings(n)
<1>1. UNCHANGED <<env, held, left, payload, timers>>
  BY DEF Notify, Stop, Start, Read, Top, Check, Doze, Wake, Test, First, watchVars, loop, screen
<1>2. \/ UNCHANGED notifiers
      \/ \E s \in Socks : notifiers' = [notifiers EXCEPT ![s] = FALSE]
  BY DEF Notify, Stop, Start, Read, Top, Check, Doze, Wake, Test, First, watchVars, loop, screen
<1>3. WInv'
  BY <1>1 DEF WInv, Shape, OneRequest
<1>4. \A n : ~Rings(n)
  BY <1>2, Zenon DEF Rings
<1> QED BY <1>3, <1>4

Early(s) == ~env.reuse /\ Rings(s) /\ ~(s \in DOMAIN left /\ left[s] = 0)

LEMMA WStep ==
  ASSUME WInv, [WatchNext]_watchVars
  PROVE  WInv' /\ \A s \in held : ~Early(s)
<1>1. CASE Create
  BY <1>1, CreateKeeps DEF Early
<1>2. CASE \E s \in Socks, d \in Delays : Wait(s, d)
  BY <1>2, WaitKeeps DEF Early
<1>3. CASE (\E s \in Socks : AwayTest(s)) \/ AwayErase
  BY <1>3, AwayKeeps DEF Early
<1>4. CASE Tick
  BY <1>4, TickKeeps DEF Early
<1>5. CASE \E t \in Receivers : Run(t)
  BY <1>5, RunKeeps DEF Early
<1>6. CASE \E t \in Receivers : Process(t)
  BY <1>6, ProcessKeeps DEF Early
<1>7. CASE \/ Notify \/ Stop \/ Start \/ UNCHANGED watchVars
           \/ \E s \in Socks : Read(s)
           \/ \E t \in Receivers : Top(t) \/ Check(t) \/ Doze(t) \/ Wake(t) \/ Test(t) \/ First(t)
  BY <1>7, OthersKeep DEF Early
<1> QED BY <1>1, <1>2, <1>3, <1>4, <1>5, <1>6, <1>7 DEF WatchNext, Step

(***************************************************************************)
(* No timer is called before its time or after away(), whatever the delays *)
(* and however many timers, threads and requests there are: Watch::wait(), *)
(* away(), process() and trigger() of src/events/watch.cpp.                *)
(***************************************************************************)
THEOREM CalledInTime == WatchSpec => NeverEarly
<1>1. WatchInit => WInv
  <2> SUFFICES ASSUME WatchInit PROVE WInv
    OBVIOUS
  <2>1. payload = <<>> /\ held = {} /\ timers = <<>> /\ left = <<>>
    BY DEF WatchInit
  <2> QED BY <2>1 DEF WInv, Shape, OneRequest
<1>2. WInv /\ [WatchNext]_watchVars => WInv'
  BY WStep
<1>3. WInv /\ [WatchNext]_watchVars =>
        [\A s \in held : ~env.reuse /\ Rings(s) => s \in DOMAIN left /\ left[s] = 0]_watchVars
  BY WStep DEF Early
<1> QED BY <1>1, <1>2, <1>3, PTL DEF WatchSpec, NeverEarly
=============================================================================
