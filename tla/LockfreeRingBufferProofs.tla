---------------------- MODULE LockfreeRingBufferProofs ----------------------
(***************************************************************************)
(* Proofs about lockfree_ring_buffer.h for every number of threads, every  *)
(* set of items and every buffer size.                                     *)
(***************************************************************************)
EXTENDS LockfreeRingBuffer, SequenceTheorems, TLAPS

\* Division with remainder by a positive S.
LEMMA DivMod ==
    ASSUME NEW S \in Nat \ {0}, NEW a \in Nat
    PROVE  /\ a \div S \in Int
           /\ a % S \in 0 .. S - 1
           /\ a = S * (a \div S) + (a % S)
OBVIOUS

\* Multiplication distributes over subtraction.
LEMMA TimesMinus ==
    ASSUME NEW S \in Int, NEW j \in Int, NEW k \in Int
    PROVE  S * (k - j) = S * k - S * j
OBVIOUS

\* A non-zero multiple of S is at least S away from 0.
LEMMA MultipleGap ==
    ASSUME NEW S \in Nat \ {0}, NEW k \in Int
    PROVE  /\ k >= 1 => S * k >= S
           /\ k <= 0 => S * k <= 0
           /\ k <= -1 => S * k <= -S
OBVIOUS

\* Quotient and remainder are determined.
LEMMA DivModUnique ==
    ASSUME NEW S \in Nat \ {0}, NEW p \in Int, NEW q \in Int,
           NEW r \in 0 .. S - 1, NEW s \in 0 .. S - 1,
           S * p + r = S * q + s
    PROVE  r = s
<1>1. S * (p - q) = s - r
  BY TimesMinus
<1>2. CASE p - q >= 1
  BY <1>1, <1>2, MultipleGap
<1>3. CASE p - q <= -1
  BY <1>1, <1>3, MultipleGap
<1>4. CASE p = q
  BY <1>4
<1>5. QED
  BY <1>2, <1>3, <1>4

\* Two different tickets less than S apart are in different slots.
LEMMA ModDistinct ==
    ASSUME NEW S \in Nat \ {0}, NEW a \in Nat, NEW b \in Nat, a < b, b - a < S
    PROVE  a % S # b % S
<1> SUFFICES ASSUME a % S = b % S PROVE FALSE
  OBVIOUS
<1> DEFINE d == (b \div S) - (a \div S)
<1>1. S * d = b - a
  BY DivMod, TimesMinus
<1>2. d \in Int
  BY DivMod
<1> HIDE DEF d
<1>3. QED
  BY <1>1, <1>2, MultipleGap

\* The ticket one lap later is in the same slot.
LEMMA ModLap ==
    ASSUME NEW S \in Nat \ {0}, NEW a \in Nat
    PROVE  (a + S) % S = a % S
<1> DEFINE p == (a + S) \div S
           q == (a \div S) + 1
<1>1. S * p + ((a + S) % S) = S * q + (a % S)
  BY DivMod
<1>2. /\ p \in Int /\ q \in Int
      /\ (a + S) % S \in 0 .. S - 1
      /\ a % S \in 0 .. S - 1
  BY DivMod
<1> HIDE DEF p, q
<1>3. QED
  BY <1>1, <1>2, DivModUnique

\* index = ticket & power_of_2_mod is a slot of the buffer.
LEMMA IndexType == \A n \in Nat : Index(n) \in Slots
BY SizeAssumption, DivMod DEF Index, Slots

\* Tickets less than a lap apart have their own slots.
LEMMA IndexDistinct ==
    ASSUME NEW a \in Nat, NEW b \in Nat, a # b, a - b < Size, b - a < Size
    PROVE  Index(a) # Index(b)
<1>1. CASE a < b
  BY <1>1, SizeAssumption, ModDistinct DEF Index
<1>2. CASE b < a
  BY <1>2, SizeAssumption, ModDistinct DEF Index
<1>3. QED
  BY <1>1, <1>2

\* Tickets a lap apart share one.
LEMMA IndexLap == \A n \in Nat : Index(n + Size) = Index(n)
BY SizeAssumption, ModLap DEF Index

\* The buffer as created satisfies the invariant.
LEMMA InitInv == Init => IInv
BY SizeAssumption, NullAssumption, IndexType
   DEF Init, IInv, TypeOK, TicketsInRange, HistoryInv, FifoOrder, LocalsInv,
       SlotsInv, TestsInv, OwnersInv, TicketsDistinct, Labels, PushLabels,
       PopLabels

-----------------------------------------------------------------------------
(* Steps that change only the locals of one thread.                        *)

\* Returning from a call, or starting a trypush or trypop over, gives up
\* nothing another thread relies on.
LEMMA FailInv ==
    ASSUME IInv, NEW t \in Threads, UNCHANGED <<shared, history>>,
           \/ Return(t)
           \/ /\ pc[t] \in PushLabels /\ Goto(t, "push_low")
              /\ UNCHANGED <<spin, l_low, l_high, l_val>>
           \/ /\ Goto(t, "pop_high")
              /\ l_val' = [l_val EXCEPT ![t] = NULL]
              /\ UNCHANGED <<spin, l_low, l_high>>
    PROVE  IInv'
<1> USE SizeAssumption, NullAssumption, IndexType
    DEF IInv, TypeOK, TicketsInRange, HistoryInv, FifoOrder, LocalsInv, SlotsInv,
        TestsInv, OwnersInv, TicketsDistinct, Labels, PushLabels, PopLabels,
        Goto, shared, history
<1>1. CASE Return(t)
  BY <1>1 DEF Return
<1>2. CASE /\ pc[t] \in PushLabels /\ Goto(t, "push_low")
           /\ UNCHANGED <<spin, l_low, l_high, l_val>>
  BY <1>2
<1>3. CASE /\ Goto(t, "pop_high")
           /\ l_val' = [l_val EXCEPT ![t] = NULL]
           /\ UNCHANGED <<spin, l_low, l_high>>
  BY <1>3
<1>4. QED
  BY <1>1, <1>2, <1>3

\* Calls and reads of `low` and `high`.
LEMMA ReadInv ==
    ASSUME IInv, NEW t \in Threads,
           \/ \E v \in Items, b \in BOOLEAN : PushCall(t, v, b)
           \/ TrypushReadLow(t)
           \/ TrypushReadHigh(t)
           \/ \E b \in BOOLEAN : PopCall(t, b)
           \/ TrypopReadHigh(t)
           \/ TrypopReadLow(t)
           \/ SizeCall(t)
           \/ SizeReadHigh(t)
    PROVE  IInv'
<1> USE SizeAssumption, NullAssumption, IndexType
    DEF IInv, TypeOK, TicketsInRange, HistoryInv, FifoOrder, LocalsInv, SlotsInv,
        TestsInv, OwnersInv, TicketsDistinct, Labels, PushLabels, PopLabels,
        Goto, shared, history
<1>1. CASE \E v \in Items, b \in BOOLEAN : PushCall(t, v, b)
  BY <1>1 DEF PushCall
<1>2. CASE TrypushReadLow(t)
  BY <1>2 DEF TrypushReadLow
<1>3. CASE TrypushReadHigh(t)
  BY <1>3 DEF TrypushReadHigh
<1>4. CASE \E b \in BOOLEAN : PopCall(t, b)
  BY <1>4 DEF PopCall
<1>5. CASE TrypopReadHigh(t)
  BY <1>5 DEF TrypopReadHigh
<1>6. CASE TrypopReadLow(t)
  BY <1>6 DEF TrypopReadLow
<1>7. CASE SizeCall(t)
  BY <1>7 DEF SizeCall
<1>8. CASE SizeReadHigh(t)
  BY <1>8 DEF SizeReadHigh
<1>9. QED
  BY <1>1, <1>2, <1>3, <1>4, <1>5, <1>6, <1>7, <1>8

\* The tests of a slot: what they find stays true until the CAS they guard
\* succeeds or fails.
LEMMA TestInv ==
    ASSUME IInv, NEW t \in Threads, TrypushReadSlot(t) \/ TrypopReadSlot(t)
    PROVE  IInv'
<1> USE SizeAssumption, NullAssumption, IndexType
<1>1. CASE TrypushReadSlot(t) /\ PushMayClaim(t)
  <2>1. /\ pc[t] = "push_slot" /\ pc' = [pc EXCEPT ![t] = "push_cas"]
        /\ UNCHANGED <<high, low, buffer, pushed, popped, spin, l_low, l_high, l_val>>
    BY <1>1 DEF TrypushReadSlot, Goto, shared, history
  <2>2. TypeOK' /\ TicketsInRange' /\ HistoryInv'
    BY <2>1 DEF IInv, TypeOK, TicketsInRange, HistoryInv, FifoOrder, Labels, PushLabels
  <2>3. LocalsInv'
    BY <1>1, <2>1 DEF IInv, TypeOK, LocalsInv, PushLabels, PushMayClaim
  <2>4. SlotsInv' /\ OwnersInv' /\ TicketsDistinct'
    BY <2>1 DEF IInv, TypeOK, SlotsInv, OwnersInv, TicketsDistinct
  <2>5. TestsInv'
    BY <1>1, <2>1 DEF IInv, TypeOK, TestsInv, PushMayClaim
  <2>6. QED
    BY <2>2, <2>3, <2>4, <2>5 DEF IInv
<1>2. CASE TrypushReadSlot(t) /\ ~PushMayClaim(t)
  BY <1>2, FailInv DEF TrypushReadSlot, TrypushFail, PushLabels
<1>3. CASE TrypopReadSlot(t) /\ PopMayClaim(t)
  <2>1. /\ pc[t] = "pop_slot" /\ pc' = [pc EXCEPT ![t] = "pop_cas"]
        /\ l_val' = [l_val EXCEPT ![t] = buffer[Index(l_low[t])]]
        /\ UNCHANGED <<high, low, buffer, pushed, popped, spin, l_low, l_high>>
    BY <1>3 DEF TrypopReadSlot, Goto, shared, history
  <2>2. buffer[Index(l_low[t])] \in Items /\ l_low[t] < l_high[t]
    BY <1>3, <2>1 DEF IInv, TypeOK, PopMayClaim
  <2>3. TypeOK' /\ TicketsInRange' /\ HistoryInv'
    BY <2>1, <2>2
    DEF IInv, TypeOK, TicketsInRange, HistoryInv, FifoOrder, Labels, PopLabels
  <2>4. LocalsInv'
    BY <2>1, <2>2 DEF IInv, TypeOK, LocalsInv, PushLabels
  <2>5. SlotsInv' /\ OwnersInv' /\ TicketsDistinct'
    BY <2>1 DEF IInv, TypeOK, SlotsInv, OwnersInv, TicketsDistinct
  <2>6. TestsInv'
    BY <2>1, <2>2 DEF IInv, TypeOK, TestsInv
  <2>7. QED
    BY <2>3, <2>4, <2>5, <2>6 DEF IInv
<1>4. CASE TrypopReadSlot(t) /\ ~PopMayClaim(t)
  BY <1>4, FailInv DEF TrypopReadSlot, TrypopFail
<1>5. QED
  BY <1>1, <1>2, <1>3, <1>4

-----------------------------------------------------------------------------
(* Claims and stores.                                                      *)

\* A successful CAS on `high`: its slot is free, so no pop of the lap before
\* still has to clear it, and the ticket is new.
LEMMA PushClaimInv ==
    ASSUME IInv, NEW t \in Threads, TrypushCAS(t), high = l_high[t]
    PROVE  IInv'
<1> USE SizeAssumption, NullAssumption, IndexType
<1>1. /\ pc[t] = "push_cas" /\ pc' = [pc EXCEPT ![t] = "push_store"]
      /\ high' = high + 1 /\ pushed' = Append(pushed, l_val[t])
      /\ UNCHANGED <<low, buffer, popped, spin, l_low, l_high, l_val>>
  BY DEF TrypushCAS, Goto
<1>2. l_val[t] \in Items /\ high + 1 <= low + Size /\ buffer[Index(high)] = NULL
  BY <1>1 DEF IInv, TypeOK, LocalsInv, TestsInv, PushLabels
<1>3. /\ Len(pushed') = high + 1 /\ pushed'[high + 1] = l_val[t]
      /\ \A n \in 1 .. high : pushed'[n] = pushed[n]
  BY <1>1, <1>2 DEF IInv, TypeOK, HistoryInv
<1>4. TypeOK'
  BY <1>1, <1>2 DEF IInv, TypeOK, Labels, PushLabels
<1>5. TicketsInRange' /\ HistoryInv'
  BY <1>1, <1>2, <1>3 DEF IInv, TypeOK, TicketsInRange, HistoryInv, FifoOrder
<1>6. LocalsInv'
  BY <1>1, <1>2 DEF IInv, TypeOK, LocalsInv, PushLabels
<1>7. SlotsInv'
  BY <1>1, <1>2, <1>3 DEF IInv, TypeOK, SlotsInv, TicketsInRange
<1>8. TestsInv'
  BY <1>1 DEF IInv, TypeOK, TestsInv, LocalsInv
<1>9. OwnersInv'
  <2>1. ASSUME NEW u \in Threads, pc[u] = "pop_clear"
        PROVE  high + 1 <= l_low[u] + Size
    <3>1. high <= l_low[u] + Size /\ l_low[u] \in Nat /\ high \in Nat
      BY <2>1 DEF IInv, TypeOK, OwnersInv
    <3>2. high # l_low[u] + Size
      BY <1>2, <2>1, <3>1, IndexLap DEF IInv, OwnersInv
    <3>3. QED
      BY <3>1, <3>2
  <2>2. QED
    BY <1>1, <1>2, <1>3, <2>1
    DEF IInv, TypeOK, OwnersInv, LocalsInv, TicketsInRange
<1>10. TicketsDistinct'
  BY <1>1 DEF IInv, TypeOK, TicketsDistinct, OwnersInv
<1>11. QED
  BY <1>4, <1>5, <1>6, <1>7, <1>8, <1>9, <1>10 DEF IInv

\* A successful CAS on `low`: the slot holds its ticket's item, so no push still
\* has to write it, and the ticket is new.
LEMMA PopClaimInv ==
    ASSUME IInv, NEW t \in Threads, TrypopCAS(t), low = l_low[t]
    PROVE  IInv'
<1> USE SizeAssumption, NullAssumption, IndexType
<1>1. /\ pc[t] = "pop_cas" /\ pc' = [pc EXCEPT ![t] = "pop_clear"]
      /\ low' = low + 1 /\ popped' = Append(popped, l_val[t])
      /\ UNCHANGED <<high, buffer, pushed, spin, l_low, l_high, l_val>>
  BY DEF TrypopCAS, Goto
<1>2. l_val[t] \in Items /\ low < high /\ buffer[Index(low)] = l_val[t]
  BY <1>1 DEF IInv, TypeOK, LocalsInv, TestsInv
<1>3. l_val[t] = pushed[low + 1]
  BY <1>2 DEF IInv, TypeOK, SlotsInv
<1>4. TypeOK'
  BY <1>1, <1>2 DEF IInv, TypeOK, Labels, PopLabels
<1>5. TicketsInRange' /\ HistoryInv'
  BY <1>1, <1>2, <1>3 DEF IInv, TypeOK, TicketsInRange, HistoryInv, FifoOrder
<1>6. LocalsInv'
  BY <1>1, <1>2 DEF IInv, TypeOK, LocalsInv, PushLabels
<1>7. SlotsInv' /\ TestsInv'
  BY <1>1 DEF IInv, TypeOK, SlotsInv, TestsInv, LocalsInv
<1>8. OwnersInv'
  <2>1. ASSUME NEW u \in Threads, pc[u] = "push_store"
        PROVE  low + 1 <= l_high[u]
    BY <1>2, <2>1 DEF IInv, TypeOK, OwnersInv
  <2>2. QED
    BY <1>1, <1>2, <2>1 DEF IInv, TypeOK, OwnersInv, LocalsInv, TicketsInRange
<1>9. TicketsDistinct'
  BY <1>1 DEF IInv, TypeOK, TicketsDistinct, OwnersInv
<1>10. QED
  BY <1>4, <1>5, <1>6, <1>7, <1>8, <1>9 DEF IInv

\* The store after a push's claim fills a slot that is empty and its own.
LEMMA PushStoreInv ==
    ASSUME IInv, NEW t \in Threads, TrypushStore(t)
    PROVE  IInv'
<1> USE SizeAssumption, NullAssumption, IndexType
<1> DEFINE n == l_high[t]
<1>1. /\ pc[t] = "push_store" /\ pc' = [pc EXCEPT ![t] = "idle"]
      /\ buffer' = [buffer EXCEPT ![Index(n)] = l_val[t]]
      /\ spin' = [spin EXCEPT ![t] = FALSE]
      /\ l_low' = [l_low EXCEPT ![t] = 0]
      /\ l_high' = [l_high EXCEPT ![t] = 0]
      /\ l_val' = [l_val EXCEPT ![t] = NULL]
      /\ UNCHANGED <<high, low, pushed, popped>>
  BY DEF TrypushStore, Return, Goto, history
<1>2. /\ n \in Nat /\ low <= n /\ n < high /\ buffer[Index(n)] = NULL
      /\ l_val[t] = pushed[n + 1] /\ l_val[t] \in Items
  BY <1>1 DEF IInv, TypeOK, OwnersInv, LocalsInv, PushLabels
<1>3. /\ buffer'[Index(n)] = l_val[t]
      /\ \A m \in Nat : Index(m) # Index(n) => buffer'[Index(m)] = buffer[Index(m)]
  BY <1>1, <1>2 DEF IInv, TypeOK
<1>4. \A m \in Nat : m # n /\ low <= m /\ m < high => Index(m) # Index(n)
  BY <1>2, IndexDistinct DEF IInv, TypeOK, TicketsInRange
<1> HIDE DEF n
<1>5. TypeOK'
  BY <1>1, <1>2 DEF IInv, TypeOK, Labels
<1>6. TicketsInRange' /\ HistoryInv'
  BY <1>1 DEF IInv, TicketsInRange, HistoryInv, FifoOrder
<1>7. LocalsInv'
  BY <1>1 DEF IInv, TypeOK, LocalsInv, PushLabels
<1>8. SlotsInv'
  BY <1>1, <1>2, <1>3, <1>4 DEF IInv, TypeOK, SlotsInv
<1>9. TestsInv'
  <2>1. ASSUME NEW u \in Threads, pc'[u] = "push_cas", high' = l_high'[u]
        PROVE  buffer'[Index(high')] = NULL
    <3>1. u # t /\ pc[u] = "push_cas" /\ high = l_high[u]
      BY <1>1, <2>1 DEF IInv, TypeOK
    <3>2. high \in Nat /\ high # n /\ high - n < Size /\ n - high < Size
      BY <1>2, <3>1 DEF IInv, TypeOK, LocalsInv
    <3>3. Index(high) # Index(n)
      BY <1>2, <3>2, IndexDistinct
    <3>4. QED
      BY <1>1, <1>3, <3>1, <3>3 DEF IInv, TypeOK, TestsInv
  <2>2. ASSUME NEW u \in Threads, pc'[u] = "pop_cas", low' = l_low'[u]
        PROVE  buffer'[Index(low')] = l_val'[u]
    <3>1. /\ u # t /\ pc[u] = "pop_cas" /\ low = l_low[u]
          /\ l_val'[u] = l_val[u] /\ l_val[u] \in Items
      BY <1>1, <2>2 DEF IInv, TypeOK, LocalsInv
    <3>2. buffer[Index(low)] = l_val[u] /\ low < high
      BY <3>1 DEF IInv, TypeOK, TestsInv, LocalsInv
    <3>3. Index(low) # Index(n)
      BY <1>2, <3>1, <3>2
    <3>4. low \in Nat /\ low' = low
      BY <1>1 DEF IInv, TypeOK
    <3>5. QED
      BY <1>3, <3>1, <3>2, <3>3, <3>4
  <2>3. QED
    BY <2>1, <2>2 DEF TestsInv
<1>10. OwnersInv'
  <2>1. ASSUME NEW u \in Threads, pc'[u] = "push_store"
        PROVE  /\ low' <= l_high'[u] /\ l_high'[u] < high'
               /\ buffer'[Index(l_high'[u])] = NULL
               /\ l_val'[u] = pushed'[l_high'[u] + 1]
    <3>1. /\ u # t /\ pc[u] = "push_store"
          /\ l_high'[u] = l_high[u] /\ l_val'[u] = l_val[u]
      BY <1>1, <2>1 DEF IInv, TypeOK
    <3>2. /\ l_high[u] \in Nat /\ low <= l_high[u] /\ l_high[u] < high
          /\ buffer[Index(l_high[u])] = NULL
          /\ l_val[u] = pushed[l_high[u] + 1]
      BY <3>1 DEF IInv, TypeOK, OwnersInv
    <3>3. l_high[u] # n
      BY <1>1, <3>1 DEF IInv, TicketsDistinct, n
    <3>4. QED
      BY <1>1, <1>3, <1>4, <3>1, <3>2, <3>3
  <2>2. ASSUME NEW u \in Threads, pc'[u] = "pop_clear"
        PROVE  /\ l_low'[u] < low' /\ high' <= l_low'[u] + Size
               /\ buffer'[Index(l_low'[u])] # NULL
    <3>1. u # t /\ pc[u] = "pop_clear" /\ l_low'[u] = l_low[u] /\ l_low[u] \in Nat
      BY <1>1, <2>2 DEF IInv, TypeOK
    <3>2. /\ l_low[u] < low /\ high <= l_low[u] + Size
          /\ buffer[Index(l_low[u])] # NULL
      BY <3>1 DEF IInv, OwnersInv
    <3>3. QED
      BY <1>1, <1>2, <1>3, <3>1, <3>2
  <2>3. QED
    BY <2>1, <2>2 DEF OwnersInv
<1>11. TicketsDistinct'
  BY <1>1 DEF IInv, TypeOK, TicketsDistinct
<1>12. QED
  BY <1>5, <1>6, <1>7, <1>8, <1>9, <1>10, <1>11 DEF IInv

\* The store after a pop's claim empties a slot no live ticket uses.
LEMMA PopClearInv ==
    ASSUME IInv, NEW t \in Threads, TrypopClear(t)
    PROVE  IInv'
<1> USE SizeAssumption, NullAssumption, IndexType
<1> DEFINE n == l_low[t]
<1>1. /\ pc[t] = "pop_clear" /\ pc' = [pc EXCEPT ![t] = "idle"]
      /\ buffer' = [buffer EXCEPT ![Index(n)] = NULL]
      /\ spin' = [spin EXCEPT ![t] = FALSE]
      /\ l_low' = [l_low EXCEPT ![t] = 0]
      /\ l_high' = [l_high EXCEPT ![t] = 0]
      /\ l_val' = [l_val EXCEPT ![t] = NULL]
      /\ UNCHANGED <<high, low, pushed, popped>>
  BY DEF TrypopClear, Return, Goto, history
<1>2. n \in Nat /\ n < low /\ high <= n + Size
  BY <1>1 DEF IInv, TypeOK, OwnersInv
<1>3. /\ buffer'[Index(n)] = NULL
      /\ \A m \in Nat : Index(m) # Index(n) => buffer'[Index(m)] = buffer[Index(m)]
  BY <1>1, <1>2 DEF IInv, TypeOK
<1>4. \A m \in Nat : m # n /\ n <= m /\ m < high => Index(m) # Index(n)
  BY <1>2, IndexDistinct DEF IInv, TypeOK
<1> HIDE DEF n
<1>5. TypeOK'
  BY <1>1, <1>2 DEF IInv, TypeOK, Labels
<1>6. TicketsInRange' /\ HistoryInv'
  BY <1>1 DEF IInv, TicketsInRange, HistoryInv, FifoOrder
<1>7. LocalsInv'
  BY <1>1 DEF IInv, TypeOK, LocalsInv, PushLabels
<1>8. SlotsInv'
  BY <1>1, <1>2, <1>3, <1>4 DEF IInv, TypeOK, SlotsInv
<1>9. TestsInv'
  <2>1. ASSUME NEW u \in Threads, pc'[u] = "push_cas", high' = l_high'[u]
        PROVE  buffer'[Index(high')] = NULL
    BY <1>1, <1>3, <2>1 DEF IInv, TypeOK, TestsInv
  <2>2. ASSUME NEW u \in Threads, pc'[u] = "pop_cas", low' = l_low'[u]
        PROVE  buffer'[Index(low')] = l_val'[u]
    <3>1. /\ u # t /\ pc[u] = "pop_cas" /\ low = l_low[u]
          /\ l_val'[u] = l_val[u]
      BY <1>1, <2>2 DEF IInv, TypeOK
    <3>2. buffer[Index(low)] = l_val[u] /\ low < high /\ low \in Nat
      BY <3>1 DEF IInv, TypeOK, TestsInv, LocalsInv
    <3>3. Index(low) # Index(n)
      BY <1>2, <1>4, <3>2
    <3>4. QED
      BY <1>1, <1>3, <3>1, <3>2, <3>3
  <2>3. QED
    BY <2>1, <2>2 DEF TestsInv
<1>10. OwnersInv'
  <2>1. ASSUME NEW u \in Threads, pc'[u] = "push_store"
        PROVE  /\ low' <= l_high'[u] /\ l_high'[u] < high'
               /\ buffer'[Index(l_high'[u])] = NULL
               /\ l_val'[u] = pushed'[l_high'[u] + 1]
    <3>1. /\ u # t /\ pc[u] = "push_store" /\ l_high[u] \in Nat
          /\ l_high'[u] = l_high[u] /\ l_val'[u] = l_val[u]
      BY <1>1, <2>1 DEF IInv, TypeOK
    <3>2. QED
      BY <1>1, <1>3, <3>1 DEF IInv, OwnersInv
  <2>2. ASSUME NEW u \in Threads, pc'[u] = "pop_clear"
        PROVE  /\ l_low'[u] < low' /\ high' <= l_low'[u] + Size
               /\ buffer'[Index(l_low'[u])] # NULL
    <3>1. u # t /\ pc[u] = "pop_clear" /\ l_low'[u] = l_low[u] /\ l_low[u] \in Nat
      BY <1>1, <2>2 DEF IInv, TypeOK
    <3>2. /\ l_low[u] < low /\ high <= l_low[u] + Size
          /\ buffer[Index(l_low[u])] # NULL
      BY <3>1 DEF IInv, OwnersInv
    <3>3. l_low[u] # n
      BY <1>1, <3>1 DEF IInv, TicketsDistinct, n
    <3>4. Index(l_low[u]) # Index(n)
      BY <1>2, <3>1, <3>2, <3>3, IndexDistinct DEF IInv, TypeOK, TicketsInRange
    <3>5. QED
      BY <1>1, <1>3, <3>1, <3>2, <3>4
  <2>3. QED
    BY <2>1, <2>2 DEF OwnersInv
<1>11. TicketsDistinct'
  BY <1>1 DEF IInv, TypeOK, TicketsDistinct
<1>12. QED
  BY <1>5, <1>6, <1>7, <1>8, <1>9, <1>10, <1>11 DEF IInv

-----------------------------------------------------------------------------
\* Every step of every thread keeps the invariant.
THEOREM StepInv == IInv /\ [Next]_vars => IInv'
<1> SUFFICES ASSUME IInv, [Next]_vars PROVE IInv'
  OBVIOUS
<1>1. ASSUME NEW t \in Producers, PushStep(t) PROVE IInv'
  <2>1. CASE TrypushCAS(t) /\ high # l_high[t]
    BY <2>1, FailInv DEF TrypushCAS, TrypushFail, Threads, PushLabels
  <2>2. QED
    BY <1>1, <2>1, ReadInv, TestInv, PushClaimInv, PushStoreInv
    DEF PushStep, Threads
<1>2. ASSUME NEW t \in Consumers, PopStep(t) PROVE IInv'
  <2>1. CASE TrypopCAS(t) /\ low # l_low[t]
    BY <2>1, FailInv DEF TrypopCAS, TrypopFail, Threads
  <2>2. QED
    BY <1>2, <2>1, ReadInv, TestInv, PopClaimInv, PopClearInv
    DEF PopStep, Threads
<1>3. ASSUME NEW t \in Observers, SizeStep(t) PROVE IInv'
  <2>1. CASE SizeReadLow(t)
    BY <2>1, FailInv DEF SizeReadLow, Threads
  <2>2. QED
    BY <1>3, <2>1, ReadInv DEF SizeStep, Threads
<1>4. CASE UNCHANGED vars
  BY <1>4
  DEF vars, IInv, TypeOK, TicketsInRange, HistoryInv, FifoOrder, LocalsInv,
      SlotsInv, TestsInv, OwnersInv, TicketsDistinct
<1>5. QED
  BY <1>1, <1>2, <1>3, <1>4 DEF Next

-----------------------------------------------------------------------------
(* What the invariant says of every reachable state.                       *)

\* The inductive invariant holds whatever the threads, the items and the size.
THEOREM Invariant == Spec => []IInv
BY InitInv, StepInv, PTL DEF Spec

\* Every field and local keeps its type.
THEOREM TypeCorrect == Spec => []TypeOK
<1>1. IInv => TypeOK
  BY DEF IInv
<1>2. QED
  BY <1>1, Invariant, PTL

\* `high - low` is always between 0 and the size, so the unsigned subtraction
\* of trypush never wraps and no push runs a lap ahead of the pops.
THEOREM TicketsCorrect == Spec => []TicketsInRange
<1>1. IInv => TicketsInRange
  BY DEF IInv
<1>2. QED
  BY <1>1, Invariant, PTL

\* Pops return the pushed items in the order of their tickets: none lost, none
\* duplicated, none overtaken.
THEOREM FifoCorrect == Spec => []FifoOrder
<1>1. IInv => FifoOrder
  BY DEF IInv, HistoryInv
<1>2. QED
  BY <1>1, Invariant, PTL

\* The stores that follow the claims never meet in a slot.
THEOREM OwnershipCorrect == Spec => []SlotOwnership
<1>1. IInv => SlotOwnership
  <2> SUFFICES ASSUME IInv, NEW t \in Threads, NEW u \in Threads, t # u,
                      Unfinished(t), Unfinished(u)
               PROVE  Index(Ticket(t)) # Index(Ticket(u))
    BY DEF SlotOwnership
  <2>1. CASE pc[t] = "push_store" /\ pc[u] = "push_store"
    <3>1. /\ l_high[t] \in Nat /\ l_high[u] \in Nat /\ l_high[t] # l_high[u]
          /\ l_high[t] - l_high[u] < Size /\ l_high[u] - l_high[t] < Size
      BY <2>1, SizeAssumption
      DEF IInv, TypeOK, TicketsInRange, OwnersInv, TicketsDistinct
    <3>2. QED
      BY <2>1, <3>1, IndexDistinct DEF Ticket
  <2>2. CASE pc[t] = "pop_clear" /\ pc[u] = "pop_clear"
    <3>1. /\ l_low[t] \in Nat /\ l_low[u] \in Nat /\ l_low[t] # l_low[u]
          /\ l_low[t] - l_low[u] < Size /\ l_low[u] - l_low[t] < Size
      BY <2>2, SizeAssumption
      DEF IInv, TypeOK, TicketsInRange, OwnersInv, TicketsDistinct
    <3>2. QED
      BY <2>2, <3>1, IndexDistinct DEF Ticket
  <2>3. CASE pc[t] # pc[u]
    BY <2>3 DEF IInv, OwnersInv, Unfinished, Ticket
  <2>4. QED
    BY <2>1, <2>2, <2>3 DEF Unfinished
<1>2. QED
  BY <1>1, Invariant, PTL

\* lockfree_ring_buffer_size never reports more than the ring holds.
THEOREM SizeCorrect == Spec => []SizeNeverOver
<1>1. IInv => SizeNeverOver
  BY DEF IInv, TypeOK, TicketsInRange, LocalsInv, SizeNeverOver, SizeResult,
         Threads
<1>2. QED
  BY <1>1, Invariant, PTL

-----------------------------------------------------------------------------
(* The ring implements BoundedFifo.                                        *)

\* What SubSeq returns for a suffix.
LEMMA SuffixProperties ==
    ASSUME NEW S, NEW s \in Seq(S), NEW n \in 0 .. Len(s)
    PROVE  /\ SubSeq(s, n + 1, Len(s)) \in Seq(S)
           /\ Len(SubSeq(s, n + 1, Len(s))) = Len(s) - n
           /\ \A i \in 1 .. Len(s) - n : SubSeq(s, n + 1, Len(s))[i] = s[n + i]
<1> DEFINE l == Len(s)
           a == SubSeq(s, n + 1, l)
<1>1. l \in Nat /\ n \in Nat /\ n <= l
  BY LenProperties
<1>2. \A i \in 1 .. l : s[i] \in S
  BY ElementOfSeq
<1> HIDE DEF l
<1>3. /\ a \in Seq(S)
      /\ Len(a) = IF n + 1 <= l THEN l - (n + 1) + 1 ELSE 0
      /\ \A i \in 1 .. l - (n + 1) + 1 : a[i] = s[n + 1 + i - 1]
  BY <1>1, <1>2, SubSeqProperties
<1> HIDE DEF a
<1>4. a \in Seq(S) /\ Len(a) = l - n /\ \A i \in 1 .. l - n : a[i] = s[n + i]
  BY <1>1, <1>3
<1>5. QED
  BY <1>4 DEF a, l

\* Appending to a sequence appends to each of its suffixes.
LEMMA SuffixOfAppend ==
    ASSUME NEW S, NEW s \in Seq(S), NEW v \in S, NEW n \in 0 .. Len(s)
    PROVE  SubSeq(Append(s, v), n + 1, Len(s) + 1)
             = Append(SubSeq(s, n + 1, Len(s)), v)
<1> DEFINE l == Len(s)
           sv == Append(s, v)
           a == SubSeq(s, n + 1, l)
           b == SubSeq(sv, n + 1, l + 1)
<1>1. l \in Nat /\ n \in Nat /\ n <= l
  BY LenProperties
<1>2. /\ sv \in Seq(S) /\ Len(sv) = l + 1
      /\ sv[l + 1] = v /\ \A i \in 1 .. l : sv[i] = s[i]
  OBVIOUS
<1>3. /\ a \in Seq(S) /\ Len(a) = l - n
      /\ \A i \in 1 .. l - n : a[i] = s[n + i]
  BY SuffixProperties
<1> HIDE DEF sv
<1>4. /\ b \in Seq(S) /\ Len(b) = l + 1 - n
      /\ \A i \in 1 .. l + 1 - n : b[i] = sv[n + i]
  <2>1. n \in 0 .. Len(sv)
    BY <1>1, <1>2
  <2>2. /\ SubSeq(sv, n + 1, Len(sv)) \in Seq(S)
        /\ Len(SubSeq(sv, n + 1, Len(sv))) = Len(sv) - n
        /\ \A i \in 1 .. Len(sv) - n : SubSeq(sv, n + 1, Len(sv))[i] = sv[n + i]
    BY <1>2, <2>1, SuffixProperties
  <2>3. QED
    BY <1>2, <2>2
<1> HIDE DEF a, b, l
<1>5. /\ Append(a, v) \in Seq(S) /\ Len(Append(a, v)) = l + 1 - n
      /\ Append(a, v)[l + 1 - n] = v
      /\ \A i \in 1 .. l - n : Append(a, v)[i] = a[i]
  BY <1>1, <1>3
<1>6. \A i \in 1 .. l + 1 - n : b[i] = Append(a, v)[i]
  BY <1>1, <1>2, <1>3, <1>4, <1>5
<1>7. b = Append(a, v)
  BY <1>4, <1>5, <1>6, SeqEqual
<1>8. QED
  BY <1>7 DEF a, b, l, sv

-----------------------------------------------------------------------------
\* The items between the tickets, oldest first: the queue of BoundedFifo.
Contents == SubSeq(pushed, Len(popped) + 1, Len(pushed))

\* What the inductive invariant says of the histories.
LEMMA HistoryFacts ==
    ASSUME IInv
    PROVE  /\ high \in Nat /\ low \in 0 .. high /\ high <= low + Size
           /\ pushed \in Seq(Items) /\ Len(pushed) = high
           /\ popped \in Seq(Items) /\ Len(popped) = low
           /\ Contents \in Seq(Items) /\ Len(Contents) = high - low
<1>1. /\ high \in Nat /\ low \in 0 .. high /\ high <= low + Size
      /\ pushed \in Seq(Items) /\ Len(pushed) = high
      /\ popped \in Seq(Items) /\ Len(popped) = low
  BY DEF IInv, TypeOK, TicketsInRange, HistoryInv
<1>2. QED
  BY <1>1, SuffixProperties DEF Contents

\* A successful CAS on `high` is an Enqueue of the item it claims a slot for.
LEMMA PushRefines ==
    ASSUME IInv, NEW t \in Threads, TrypushCAS(t), high = l_high[t]
    PROVE  Abstract!Enqueue(l_val[t]) /\ l_val[t] \in Items
<1>1. /\ pc[t] = "push_cas" /\ popped' = popped
      /\ pushed' = Append(pushed, l_val[t])
  BY DEF TrypushCAS
<1>2. l_val[t] \in Items /\ high + 1 <= low + Size
  BY <1>1, SizeAssumption DEF IInv, TypeOK, LocalsInv, PushLabels
<1>3. Len(pushed') = Len(pushed) + 1
  BY <1>1, <1>2, HistoryFacts
<1>4. Contents' = Append(Contents, l_val[t])
  BY <1>1, <1>2, <1>3, HistoryFacts, SuffixOfAppend DEF Contents
<1>5. Len(Contents) < Size
  BY <1>2, HistoryFacts, SizeAssumption
<1>6. QED
  BY <1>1, <1>2, <1>4, <1>5 DEF Abstract!Enqueue, Contents

\* A successful CAS on `low` is a Dequeue: the item it returns is the oldest.
LEMMA PopRefines ==
    ASSUME IInv, NEW t \in Threads, TrypopCAS(t), low = l_low[t]
    PROVE  Abstract!Dequeue
<1>1. /\ pc[t] = "pop_cas" /\ pushed' = pushed
      /\ popped' = Append(popped, l_val[t])
  BY DEF TrypopCAS
<1>2. /\ low < high /\ l_val[t] \in Items /\ l_val[t] = pushed[low + 1]
  BY <1>1, IndexType, NullAssumption, SizeAssumption
  DEF IInv, TypeOK, LocalsInv, TestsInv, SlotsInv
<1>3. Len(popped') = low + 1
  BY <1>1, <1>2, HistoryFacts
<1>4. low + 1 \in 1 .. Len(pushed) /\ high \in low + 1 .. Len(pushed)
  BY <1>2, HistoryFacts
<1>5. /\ Head(Contents) = pushed[low + 1]
      /\ Tail(Contents) = SubSeq(pushed, low + 1 + 1, high)
  <2>1. Contents = SubSeq(pushed, low + 1, high)
    BY HistoryFacts DEF Contents
  <2>2. /\ Head(SubSeq(pushed, low + 1, high)) = pushed[low + 1]
        /\ Tail(SubSeq(pushed, low + 1, high)) = SubSeq(pushed, low + 1 + 1, high)
    BY <1>4, HistoryFacts, HeadTailOfSubSeq
  <2>3. QED
    BY <2>1, <2>2
<1>6. Contents' = Tail(Contents)
  <2>1. Contents' = SubSeq(pushed, low + 1 + 1, high)
    BY <1>1, <1>3, HistoryFacts DEF Contents
  <2>2. QED
    BY <1>5, <2>1
<1>7. Contents # <<>>
  BY <1>2, HistoryFacts
<1>8. QED
  BY <1>1, <1>2, <1>5, <1>6, <1>7 DEF Abstract!Dequeue, Contents

\* Every step of the ring is a step of BoundedFifo or leaves its queue alone.
LEMMA StepRefines ==
    ASSUME IInv, [Next]_vars
    PROVE  [Abstract!Next]_(Abstract!vars)
<1>1. ASSUME NEW t \in Producers, PushStep(t)
      PROVE  Abstract!Next \/ UNCHANGED <<pushed, popped>>
  <2>1. CASE TrypushCAS(t) /\ high = l_high[t]
    BY <2>1, PushRefines DEF Threads, Abstract!Next
  <2>2. CASE TrypushCAS(t) /\ high # l_high[t]
    BY <2>2 DEF TrypushCAS, TrypushFail, history
  <2>3. CASE ~TrypushCAS(t)
    BY <1>1, <2>3
    DEF PushStep, PushCall, TrypushReadLow, TrypushReadHigh, TrypushReadSlot,
        TrypushFail, TrypushStore, history
  <2>4. QED
    BY <2>1, <2>2, <2>3
<1>2. ASSUME NEW t \in Consumers, PopStep(t)
      PROVE  Abstract!Next \/ UNCHANGED <<pushed, popped>>
  <2>1. CASE TrypopCAS(t) /\ low = l_low[t]
    BY <2>1, PopRefines DEF Threads, Abstract!Next
  <2>2. CASE TrypopCAS(t) /\ low # l_low[t]
    BY <2>2 DEF TrypopCAS, TrypopFail, history
  <2>3. CASE ~TrypopCAS(t)
    BY <1>2, <2>3
    DEF PopStep, PopCall, TrypopReadLow, TrypopReadHigh, TrypopReadSlot,
        TrypopFail, TrypopClear, history
  <2>4. QED
    BY <2>1, <2>2, <2>3
<1>3. ASSUME NEW t \in Observers, SizeStep(t)
      PROVE  UNCHANGED <<pushed, popped>>
  BY <1>3 DEF SizeStep, SizeCall, SizeReadHigh, SizeReadLow, history
<1>4. Abstract!Next \/ UNCHANGED <<pushed, popped>>
  BY <1>1, <1>2, <1>3 DEF Next, vars
<1>5. UNCHANGED <<pushed, popped>> => UNCHANGED Abstract!vars
  BY DEF Abstract!vars
<1>6. QED
  BY <1>4, <1>5

\* The ring, with its stale reads, unfinished claims and wrapped slots, cannot be
\* told from a queue whose insertions and removals are indivisible.
THEOREM Refinement == Spec => ImplementsFifo
<1>1. Init => Abstract!Init
  BY DEF Init, Abstract!Init
<1>2. IInv /\ [Next]_vars => [Abstract!Next]_(Abstract!vars)
  BY StepRefines
<1>3. QED
  BY <1>1, <1>2, Invariant, PTL DEF Spec, ImplementsFifo, Abstract!Spec
=============================================================================
