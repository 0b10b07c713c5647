----------------------- MODULE FifoStealBufferProofs -----------------------
(***************************************************************************)
(* Proofs about fifo_steal_buffer.h for every number of thieves, every set *)
(* of items and every buffer size: first of one fifo_steal_buffer, then of *)
(* the sharded one, whose variables are declared there.                    *)
(***************************************************************************)
EXTENDS FifoStealBuffer, TLAPS

\* Division with remainder by a positive S.
LEMMA DivMod ==
    ASSUME NEW S \in Nat \ {0}, NEW a \in Nat
    PROVE  /\ a \div S \in Int
           /\ a % S \in 0 .. S - 1
           /\ a = S * (a \div S) + (a % S)
OBVIOUS

\* Multiplication distributes over subtraction.
LEMMA TimesMinus ==
    ASSUME NEW S \in Int, NEW j \in Int, NEW k \in Int
    PROVE  S * (k - j) = S * k - S * j
OBVIOUS

\* A non-zero multiple of S is at least S away from 0.
LEMMA MultipleGap ==
    ASSUME NEW S \in Nat \ {0}, NEW k \in Int
    PROVE  /\ k >= 1 => S * k >= S
           /\ k <= 0 => S * k <= 0
           /\ k <= -1 => S * k <= -S
OBVIOUS

\* Two different tickets less than S apart are in different slots.
LEMMA ModDistinct ==
    ASSUME NEW S \in Nat \ {0}, NEW a \in Nat, NEW b \in Nat, a < b, b - a < S
    PROVE  a % S # b % S
<1> SUFFICES ASSUME a % S = b % S PROVE FALSE
  OBVIOUS
<1> DEFINE d == (b \div S) - (a \div S)
<1>1. S * d = b - a
  BY DivMod, TimesMinus
<1>2. d \in Int
  BY DivMod
<1> HIDE DEF d
<1>3. QED
  BY <1>1, <1>2, MultipleGap

\* The remainder of what is smaller, and of S itself.
LEMMA ModSmall ==
    ASSUME NEW S \in Nat \ {0}, NEW a \in 0 .. S
    PROVE  a % S = IF a = S THEN 0 ELSE a
<1> DEFINE q == a \div S
<1>1. a = S * q + (a % S) /\ q \in Int /\ a % S \in 0 .. S - 1
  BY DivMod
<1>2. S * (q - 1) = S * q - S
  BY <1>1, TimesMinus
<1> HIDE DEF q
<1>3. CASE q >= 2
  BY <1>1, <1>2, <1>3, MultipleGap
<1>4. CASE q = 1
  BY <1>1, <1>4
<1>5. CASE q = 0
  BY <1>1, <1>5
<1>6. CASE q <= -1
  BY <1>1, <1>6, MultipleGap
<1> QED
  BY <1>1, <1>3, <1>4, <1>5, <1>6

\* index = ticket & power_of_2_mod is a slot of the buffer.
LEMMA IndexType == \A n \in Nat : Index(n) \in Slots
BY SizeAssumption, DivMod DEF Index, Slots

\* Tickets less than a lap apart have their own slots.
LEMMA IndexDistinct ==
    ASSUME NEW a \in Nat, NEW b \in Nat, a < b, b - a < Size
    PROVE  Index(a) # Index(b)
BY SizeAssumption, ModDistinct DEF Index

\* A buffer as created satisfies the invariant.
LEMMA InitInv == Init => IInv
<1> SUFFICES ASSUME Init PROVE IInv
  OBVIOUS
<1>1. TypeOK /\ TicketsInRange /\ ThievesInv
  BY SizeAssumption
  DEF Init, TypeOK, TicketsInRange, ThievesInv, Values, Labels, ThiefLabels, Results
<1>2. HistoryInv /\ MasterInv /\ SlotsInv /\ Accounting
  BY DEF Init, HistoryInv, MasterInv, SlotsInv, Accounting
<1>3. QED
  BY <1>1, <1>2 DEF IInv

-----------------------------------------------------------------------------
(* The master's push.                                                      *)

\* Nothing but the master's own place and parameter changes.
LEMMA PushLookInv ==
    ASSUME IInv, PushReadLow \/ \E v \in Items : PushCall(v)
    PROVE  IInv'
<1>1. CASE \E v \in Items : PushCall(v)
  BY <1>1
  DEF PushCall, thieves, history, IInv, TypeOK, Labels, TicketsInRange,
      HistoryInv, MasterInv, SlotsInv, ThievesInv, Accounting
<1>2. CASE PushReadLow
  BY <1>2
  DEF PushReadLow, thieves, history, IInv, TypeOK, Labels, TicketsInRange,
      HistoryInv, MasterInv, SlotsInv, ThievesInv, Accounting
<1>3. QED
  BY <1>1, <1>2

\* The slot written is none of a ticket in the buffer, and a thief about to CAS
\* on such a ticket has read it already.
LEMMA PushStoreDataInv ==
    ASSUME IInv, PushStoreData
    PROVE  IInv'
<1> USE SizeAssumption
<1>1. /\ pc = "push_data" /\ pc' = "push_high"
      /\ buffer' = [buffer EXCEPT ![Index(high)] = data]
      /\ UNCHANGED <<high, low, data, new_low, t_pc, t_high, t_low, out, ret,
                     pushed, delivered, dropped>>
  BY DEF PushStoreData, thieves, history
<1>2. /\ high \in Nat /\ low \in Nat /\ low <= high /\ high - low < Size
      /\ data \in Items /\ Index(high) \in Slots
  BY <1>1, IndexType DEF IInv, TypeOK, TicketsInRange, HistoryInv, MasterInv
<1>3. TypeOK' /\ TicketsInRange' /\ HistoryInv' /\ ThievesInv' /\ Accounting'
  BY <1>1, <1>2
  DEF IInv, TypeOK, Labels, Values, TicketsInRange, HistoryInv, ThievesInv, Accounting
<1>4. MasterInv'
  BY <1>1, <1>2 DEF IInv, TypeOK, MasterInv
<1>5. SlotsInv'
  <2> SUFFICES ASSUME NEW n \in low .. high - 1
               PROVE  buffer'[Index(n)] = pushed[n + 1]
    BY <1>1 DEF SlotsInv
  <2>1. n \in Nat /\ n < high /\ high - n < Size
    BY <1>2
  <2>2. Index(n) # Index(high) /\ Index(n) \in Slots
    BY <1>2, <2>1, IndexDistinct, IndexType
  <2>3. QED
    BY <1>1, <1>2, <2>2 DEF IInv, TypeOK, SlotsInv
<1>6. QED
  BY <1>3, <1>4, <1>5 DEF IInv

\* The new ticket is in the buffer, undelivered.
LEMMA PushStoreHighInv ==
    ASSUME IInv, PushStoreHigh
    PROVE  IInv'
<1> USE SizeAssumption
<1>1. /\ pc = "push_high" /\ pc' = "idle" /\ high' = high + 1
      /\ pushed' = Append(pushed, data) /\ data' = NULL
      /\ UNCHANGED <<low, buffer, new_low, t_pc, t_high, t_low, out, ret,
                     delivered, dropped>>
  BY DEF PushStoreHigh, thieves
<1>2. /\ high \in Nat /\ low \in Nat /\ low <= high /\ high - low < Size
      /\ data \in Items /\ buffer[Index(high)] = data
      /\ \A n \in 1 .. high : pushed[n] # data
  BY <1>1 DEF IInv, TypeOK, TicketsInRange, HistoryInv, MasterInv
<1>3. /\ pushed' \in Seq(Items) /\ Len(pushed') = high + 1
      /\ pushed'[high + 1] = data /\ \A n \in 1 .. high : pushed'[n] = pushed[n]
  BY <1>1, <1>2 DEF IInv, TypeOK, HistoryInv
<1>4. TypeOK' /\ TicketsInRange' /\ MasterInv'
  BY <1>1, <1>2, <1>3 DEF IInv, TypeOK, Labels, TicketsInRange, MasterInv
<1>5. HistoryInv'
  BY <1>1, <1>2, <1>3 DEF IInv, HistoryInv
<1>6. SlotsInv'
  BY <1>1, <1>2, <1>3 DEF IInv, SlotsInv
<1>7. ThievesInv'
  BY <1>1, <1>2, <1>3 DEF IInv, TypeOK, ThievesInv
<1>8. Accounting'
  <2>1. delivered[data] = 0 /\ data \notin dropped
    BY <1>2 DEF IInv, Accounting, Values
  <2>2. ASSUME NEW v \in Values, \A n \in 1 .. high + 1 : pushed'[n] # v
        PROVE  delivered[v] = 0 /\ v \notin dropped
    BY <1>2, <1>3, <2>2 DEF IInv, Accounting
  <2>3. ASSUME NEW n \in 1 .. high
        PROVE  IF n <= low
               THEN delivered[pushed[n]] = (IF pushed[n] \in dropped THEN 0 ELSE 1)
               ELSE delivered[pushed[n]] = 0 /\ pushed[n] \notin dropped
    BY <1>1, <2>3 DEF IInv, Accounting
  <2>4. QED
    BY <1>1, <1>2, <1>3, <2>1, <2>2, <2>3 DEF Accounting
<1>9. QED
  BY <1>4, <1>5, <1>6, <1>7, <1>8 DEF IInv

-----------------------------------------------------------------------------
(* The master's pop.                                                       *)

\* The look at `low` before the add changes nothing others see.
LEMMA PopLookInv ==
    ASSUME IInv, PopCall \/ PopReadLow
    PROVE  IInv'
<1>1. /\ pc' \in {"pop_low", "pop_add", "idle"}
      /\ pc \in {"idle", "pop_low"}
      /\ UNCHANGED <<high, low, buffer, data, new_low, t_pc, t_high, t_low, out,
                     ret, pushed, delivered, dropped>>
  BY DEF PopCall, PopReadLow, thieves, history
<1>2. QED
  BY <1>1
  DEF IInv, TypeOK, Labels, TicketsInRange, HistoryInv, MasterInv, SlotsInv,
      ThievesInv, Accounting

\* The add takes a ticket as a thief's CAS does, or steps past `high`; then no
\* thief can move `low` until the restore.
LEMMA PopAddInv ==
    ASSUME IInv, PopAdd
    PROVE  IInv'
<1> USE SizeAssumption
<1>1. /\ pc = "pop_add" /\ low' = low + 1 /\ new_low' = low + 1
      /\ UNCHANGED <<high, buffer, data, t_pc, t_high, t_low, out, ret, pushed,
                     delivered>>
  BY DEF PopAdd, thieves
<1>2. \/ /\ low + 1 >= high /\ pc' = "pop_restore"
         /\ dropped' = dropped \cup (IF low < high THEN {pushed[low + 1]} ELSE {})
      \/ low + 1 < high /\ pc' = "pop_read" /\ dropped' = dropped
  BY <1>1 DEF PopAdd, PopMustRestore, IInv, TypeOK
<1>3. /\ high \in Nat /\ low \in Nat /\ low <= high
      /\ pushed \in Seq(Items) /\ Len(pushed) = high
  BY <1>1 DEF IInv, TypeOK, TicketsInRange, HistoryInv
<1>4. TypeOK' /\ TicketsInRange'
  BY <1>1, <1>2, <1>3 DEF IInv, TypeOK, Labels, TicketsInRange
<1>5. HistoryInv' /\ SlotsInv'
  BY <1>1, <1>2, <1>3 DEF IInv, HistoryInv, SlotsInv
<1>6. MasterInv'
  BY <1>1, <1>2, <1>3 DEF IInv, MasterInv, SlotsInv
<1>7. ThievesInv'
  BY <1>1, <1>3 DEF IInv, TypeOK, ThievesInv
<1>8. Accounting'
  BY <1>1, <1>2, <1>3 DEF IInv, TypeOK, HistoryInv, Accounting
<1>9. QED
  BY <1>4, <1>5, <1>6, <1>7, <1>8 DEF IInv

\* The restore brings `low` back to `high`; every ticket stays accounted for.
LEMMA PopRestoreInv ==
    ASSUME IInv, PopRestore
    PROVE  IInv'
<1>1. /\ pc = "pop_restore" /\ pc' = "idle" /\ low' = high /\ new_low' = 0
      /\ UNCHANGED <<high, buffer, data, t_pc, t_high, t_low, out, ret, pushed,
                     delivered, dropped>>
  BY DEF PopRestore, thieves, history
<1>2. high \in Nat /\ low \in Nat /\ high <= low
  BY <1>1 DEF IInv, TypeOK, MasterInv
<1>3. TypeOK' /\ TicketsInRange' /\ HistoryInv' /\ MasterInv' /\ SlotsInv'
  BY <1>1, <1>2, SizeAssumption
  DEF IInv, TypeOK, Labels, TicketsInRange, HistoryInv, MasterInv, SlotsInv
<1>4. ThievesInv'
  BY <1>1, <1>2 DEF IInv, TypeOK, ThievesInv
<1>5. Accounting'
  BY <1>1, <1>2 DEF IInv, Accounting
<1>6. QED
  BY <1>3, <1>4, <1>5 DEF IInv

\* The slot of a ticket the pop holds is not reused before it is read.
LEMMA PopReadInv ==
    ASSUME IInv, PopRead
    PROVE  IInv'
<1>1. /\ pc = "pop_read" /\ pc' = "idle" /\ new_low' = 0
      /\ delivered' = [delivered EXCEPT ![buffer[Index(new_low - 1)]] = @ + 1]
      /\ UNCHANGED <<high, low, buffer, data, t_pc, t_high, t_low, out, ret, pushed,
                     dropped>>
  BY DEF PopRead, PopIndex, thieves
<1>2. /\ high \in Nat /\ low \in Nat
      /\ new_low \in 1 .. high /\ new_low <= low /\ Len(pushed) = high
      /\ buffer[Index(new_low - 1)] = pushed[new_low]
      /\ pushed[new_low] \in Items
  BY <1>1 DEF IInv, TypeOK, MasterInv, HistoryInv
<1>3. /\ delivered[pushed[new_low]] = 0 /\ pushed[new_low] \notin dropped
  BY <1>1, <1>2 DEF IInv, Accounting
<1>4. /\ delivered'[pushed[new_low]] = 1
      /\ \A v \in Values : v # pushed[new_low] => delivered'[v] = delivered[v]
  BY <1>1, <1>2, <1>3 DEF IInv, TypeOK, Values
<1>5. TypeOK'
  BY <1>1, <1>2 DEF IInv, TypeOK, Labels, Values
<1>6. TicketsInRange' /\ HistoryInv' /\ MasterInv' /\ SlotsInv' /\ ThievesInv'
  BY <1>1
  DEF IInv, TicketsInRange, HistoryInv, MasterInv, SlotsInv, ThievesInv
<1>7. Accounting'
  <2>1. \A n \in 1 .. high : pushed[n] \in Values
    BY <1>2 DEF IInv, TypeOK, Values
  <2>2. QED
    BY <1>1, <1>2, <1>3, <1>4, <2>1 DEF IInv, HistoryInv, Accounting
<1>8. QED
  BY <1>5, <1>6, <1>7 DEF IInv

-----------------------------------------------------------------------------
(* The thieves.                                                            *)

\* A steal that returns without an item leaves nothing behind but *out.
LEMMA ReturnInv ==
    ASSUME IInv, NEW t \in Thieves, NEW r \in Results, StealReturn(t, r),
           UNCHANGED <<high, low, buffer, pc, data, new_low, out, pushed,
                       delivered, dropped>>
    PROVE  TypeOK' /\ ThievesInv'
<1>1. TypeOK'
  BY DEF StealReturn, IInv, TypeOK, ThiefLabels
<1>2. ThievesInv'
  BY DEF StealReturn, IInv, TypeOK, ThievesInv
<1>3. QED
  BY <1>1, <1>2

\* Calls, reads and aborted steals change only the thief's own words.
LEMMA ThiefLocalInv ==
    ASSUME IInv, NEW t \in Thieves,
           \/ StealCall(t) \/ StealReadHigh(t) \/ StealReadLow(t)
           \/ StealReadSlot(t)
           \/ StealCAS(t) /\ low # t_low[t]
    PROVE  IInv'
<1>1. UNCHANGED <<high, low, buffer, pc, data, new_low, pushed, delivered, dropped>>
  BY DEF StealCall, StealReadHigh, StealReadLow, StealReadSlot, StealCAS, history
<1>2. TicketsInRange' /\ HistoryInv' /\ MasterInv' /\ SlotsInv' /\ Accounting'
  BY <1>1 DEF IInv, TicketsInRange, HistoryInv, MasterInv, SlotsInv, Accounting
<1>3. TypeOK' /\ ThievesInv'
  <2>1. CASE StealCall(t)
    BY <1>1, <2>1 DEF StealCall, IInv, TypeOK, ThiefLabels, Values, ThievesInv
  <2>2. CASE StealReadHigh(t)
    BY <1>1, <2>2 DEF StealReadHigh, IInv, TypeOK, ThiefLabels, ThievesInv
  <2>3. CASE StealReadLow(t)
    <3>1. CASE t_high[t] > low
      <4>1. /\ t_pc[t] = "steal_low" /\ t_pc' = [t_pc EXCEPT ![t] = "steal_read"]
            /\ t_low' = [t_low EXCEPT ![t] = low]
            /\ UNCHANGED <<t_high, out, ret>>
        BY <2>3, <3>1 DEF StealReadLow, StealReturn, IInv, TypeOK
      <4>2. QED
        BY <1>1, <3>1, <4>1 DEF IInv, TypeOK, ThiefLabels, ThievesInv
    <3>2. CASE ~(t_high[t] > low)
      BY <1>1, <2>3, <3>2, ReturnInv DEF StealReadLow, Results, IInv, TypeOK, history
    <3>3. QED
      BY <3>1, <3>2
  <2>4. CASE StealReadSlot(t)
    <3>1. /\ t_pc[t] = "steal_read" /\ t_pc' = [t_pc EXCEPT ![t] = "steal_cas"]
          /\ out' = [out EXCEPT ![t] = buffer[Index(t_low[t])]]
          /\ UNCHANGED <<t_high, t_low, ret>>
      BY <2>4 DEF StealReadSlot
    <3>2. /\ t_low[t] \in Nat /\ t_low[t] < high /\ buffer[Index(t_low[t])] \in Values
          /\ low = t_low[t] => buffer[Index(t_low[t])] = pushed[low + 1]
      <4>1. t_low[t] \in Nat /\ t_high[t] \in Nat /\ low \in Nat /\ high \in Nat
        BY DEF IInv, TypeOK
      <4>2. t_high[t] <= high /\ t_low[t] < t_high[t]
        BY <3>1 DEF IInv, ThievesInv
      <4>3. t_low[t] < high
        BY <4>1, <4>2
      <4>4. buffer[Index(t_low[t])] \in Values
        <5>1. Index(t_low[t]) \in Slots
          BY <4>1, IndexType
        <5>2. QED
          BY <5>1 DEF IInv, TypeOK
      <4>5. ASSUME low = t_low[t] PROVE buffer[Index(t_low[t])] = pushed[low + 1]
        <5>1. low \in low .. high - 1
          BY <4>1, <4>3, <4>5
        <5>2. buffer[Index(low)] = pushed[low + 1]
          BY <5>1 DEF IInv, SlotsInv
        <5>3. QED
          BY <4>5, <5>2
      <4>6. QED
        BY <4>1, <4>3, <4>4, <4>5
    <3>3. QED
      BY <1>1, <3>1, <3>2 DEF IInv, TypeOK, ThiefLabels, ThievesInv
  <2>5. CASE StealCAS(t) /\ low # t_low[t]
    BY <1>1, <2>5, ReturnInv DEF StealCAS, Results
  <2>6. QED
    BY <2>1, <2>2, <2>3, <2>4, <2>5
<1>4. QED
  BY <1>2, <1>3 DEF IInv

\* A successful CAS delivers the item of ticket `low`, which nobody else has.
LEMMA StealInv ==
    ASSUME IInv, NEW t \in Thieves, StealCAS(t), low = t_low[t]
    PROVE  IInv'
<1> USE SizeAssumption
<1>1. /\ t_pc[t] = "steal_cas" /\ low' = low + 1
      /\ t_pc' = [t_pc EXCEPT ![t] = "idle"]
      /\ t_high' = [t_high EXCEPT ![t] = 0] /\ t_low' = [t_low EXCEPT ![t] = 0]
      /\ ret' = [ret EXCEPT ![t] = "SUCCESS"]
      /\ delivered' = [delivered EXCEPT ![out[t]] = @ + 1]
      /\ UNCHANGED <<high, buffer, pc, data, new_low, out, pushed, dropped>>
  BY DEF StealCAS, StealReturn
<1>2. /\ high \in Nat /\ low \in Nat /\ low < high /\ out[t] = pushed[low + 1]
      /\ pushed \in Seq(Items) /\ Len(pushed) = high /\ pushed[low + 1] \in Items
  BY <1>1 DEF IInv, TypeOK, ThievesInv, HistoryInv
<1>3. /\ delivered[pushed[low + 1]] = 0 /\ pushed[low + 1] \notin dropped
  BY <1>2 DEF IInv, Accounting
<1>4. /\ delivered'[pushed[low + 1]] = 1
      /\ \A v \in Values : v # pushed[low + 1] => delivered'[v] = delivered[v]
  BY <1>1, <1>2, <1>3 DEF IInv, TypeOK, Values
<1>5. TypeOK'
  BY <1>1, <1>2 DEF IInv, TypeOK, ThiefLabels, Results, Values
<1>6. TicketsInRange' /\ HistoryInv' /\ MasterInv' /\ SlotsInv'
  BY <1>1, <1>2 DEF IInv, TypeOK, TicketsInRange, HistoryInv, MasterInv, SlotsInv
<1>7. ThievesInv'
  BY <1>1, <1>2 DEF IInv, TypeOK, ThievesInv
<1>8. Accounting'
  <2>1. \A n \in 1 .. high : pushed[n] \in Values
    BY <1>2 DEF Values
  <2>2. pc = "pop_read" => new_low # low + 1
    BY <1>2 DEF IInv, TypeOK, MasterInv
  <2>3. QED
    BY <1>1, <1>2, <1>3, <1>4, <2>1, <2>2
    DEF IInv, TypeOK, HistoryInv, Accounting
<1>9. QED
  BY <1>5, <1>6, <1>7, <1>8 DEF IInv

-----------------------------------------------------------------------------
\* Every step of the master and of every thief keeps the invariant.
THEOREM StepInv == IInv /\ [Next]_vars => IInv'
<1> SUFFICES ASSUME IInv, [Next]_vars PROVE IInv'
  OBVIOUS
<1>1. CASE MasterStep
  BY <1>1, PushLookInv, PushStoreDataInv, PushStoreHighInv, PopLookInv, PopAddInv,
     PopRestoreInv, PopReadInv
  DEF MasterStep, MasterRuns
<1>2. ASSUME NEW t \in Thieves, StealStep(t) PROVE IInv'
  BY <1>2, ThiefLocalInv, StealInv DEF StealStep
<1>3. CASE UNCHANGED vars
  BY <1>3
  DEF vars, IInv, TypeOK, TicketsInRange, HistoryInv, MasterInv, SlotsInv,
      ThievesInv, Accounting
<1>4. QED
  BY <1>1, <1>2, <1>3 DEF Next

\* The inductive invariant holds of every reachable state.
THEOREM Invariant == Spec => []IInv
BY InitInv, StepInv, PTL DEF Spec

\* No two calls return the same item, and none returns an unwritten slot.
THEOREM DeliveredOnceCorrect == Spec => []DeliveredOnce
<1>1. IInv => DeliveredOnce
  <2> SUFFICES ASSUME IInv, NEW v \in Values
               PROVE  delivered[v] <= IF v \in Items THEN 1 ELSE 0
    BY DEF DeliveredOnce
  <2>1. CASE \A n \in 1 .. high : pushed[n] # v
    BY <2>1 DEF IInv, Accounting
  <2>2. CASE \E n \in 1 .. high : pushed[n] = v
    <3>1. PICK n \in 1 .. high : pushed[n] = v
      BY <2>2
    <3>2. v \in Items
      BY <3>1 DEF IInv, TypeOK, HistoryInv
    <3>3. delivered[pushed[n]] \in {0, 1}
      BY DEF IInv, Accounting
    <3>4. QED
      BY <3>1, <3>2, <3>3
  <2>3. QED
    BY <2>1, <2>2
<1>2. QED
  BY <1>1, Invariant, PTL

\* `low` passes `high` only inside a pop, by one, and the ring never overflows.
THEOREM TicketsCorrect == Spec => []TicketsInRange
<1>1. IInv => TicketsInRange
  BY DEF IInv
<1>2. QED
  BY <1>1, Invariant, PTL

\* Items leave in the order in which the master pushed them.
THEOREM FifoCorrect == Spec => NoOvertaking
<1>1. ASSUME IInv, NEW n \in 1 .. high, n <= low + 1 PROVE \A m \in 1 .. n - 1 : Gone(m)
  <2> SUFFICES ASSUME NEW m \in 1 .. n - 1 PROVE Gone(m)
    OBVIOUS
  <2>1. m \in 1 .. high /\ m <= low
    BY <1>1 DEF IInv, TypeOK
  <2>2. QED
    BY <1>1, <2>1 DEF IInv, Accounting, Gone
<1>2. ASSUME IInv, Next PROVE OldestFirst
  <2> SUFFICES ASSUME NEW n \in 1 .. Len(pushed),
                      delivered'[pushed[n]] > delivered[pushed[n]]
               PROVE  \A m \in 1 .. n - 1 : Gone(m)
    BY DEF OldestFirst
  <2> USE <1>2
  <2>1. /\ Len(pushed) = high /\ high \in Nat /\ low \in Nat
        /\ delivered[pushed[n]] \in Nat /\ pushed[n] \in Items
    BY DEF IInv, TypeOK, HistoryInv, Values
  <2>2. n <= low + 1
    <3>1. CASE PopRead
      <4>1. buffer[Index(new_low - 1)] = pushed[new_low] /\ new_low \in 1 .. high
            /\ new_low <= low
        BY <3>1 DEF PopRead, IInv, TypeOK, MasterInv
      <4>2. pushed[n] = pushed[new_low]
        BY <2>1, <3>1, <4>1 DEF PopRead, PopIndex, IInv, TypeOK, Values
      <4>3. n = new_low
        BY <2>1, <4>1, <4>2 DEF IInv, HistoryInv
      <4>4. QED
        BY <2>1, <4>1, <4>3
    <3>2. ASSUME NEW t \in Thieves, StealCAS(t), low = t_low[t] PROVE n <= low + 1
      <4>1. out[t] = pushed[low + 1] /\ low + 1 \in 1 .. high
        BY <3>2 DEF StealCAS, IInv, TypeOK, ThievesInv
      <4>2. pushed[n] = pushed[low + 1]
        BY <2>1, <3>2, <4>1 DEF StealCAS, IInv, TypeOK, Values
      <4>3. n = low + 1
        BY <2>1, <4>1, <4>2 DEF IInv, HistoryInv
      <4>4. QED
        BY <2>1, <4>3
    <3>3. CASE UNCHANGED delivered
      BY <2>1, <3>3
    <3>4. QED
      BY <3>1, <3>2, <3>3
      DEF Next, MasterStep, MasterRuns, PushCall, PushReadLow, PushStoreData,
          PushStoreHigh, PopCall, PopReadLow, PopAdd, PopRestore, StealStep,
          StealCall, StealReadHigh, StealReadLow, StealReadSlot, StealCAS, history
  <2>3. QED
    BY <1>1, <2>1, <2>2
<1>3. IInv /\ [Next]_vars => [OldestFirst]_vars
  BY <1>2
<1>4. QED
  BY <1>3, Invariant, PTL DEF Spec, NoOvertaking

-----------------------------------------------------------------------------
(* The buffer implements StealBuffer.                                      *)

\* How many items are gone from the abstract buffer.
AbstractLow == IF low < high THEN low ELSE high

\* The value of the refinement mapping.
AbstractBuf == [size |-> Size, low |-> AbstractLow, items |-> pushed]

\* What the invariant says of the abstract buffer.
LEMMA AbstractFacts ==
    ASSUME IInv
    PROVE  /\ high \in Nat /\ low \in Nat /\ high <= low + Size
           /\ pushed \in Seq(Items) /\ Len(pushed) = high
           /\ low # high + 1 => low <= high
           /\ pc # "pop_restore" => low <= high
BY DEF IInv, TypeOK, TicketsInRange, HistoryInv

\* The store to `high` is the push: until then the master has seen room, and
\* thieves only make more.
LEMMA PushRefines ==
    ASSUME IInv, PushStoreHigh
    PROVE  data \in Items /\ Abstract!Push(data)
<1>1. /\ pc = "push_high" /\ high' = high + 1 /\ pushed' = Append(pushed, data)
      /\ low' = low /\ dropped' = dropped
  BY DEF PushStoreHigh
<1>2. /\ data \in Items /\ high - low < Size /\ low <= high
  BY <1>1, AbstractFacts DEF IInv, HistoryInv, MasterInv
<1>3. AbstractLow = low /\ AbstractLow' = low
  BY <1>1, <1>2, AbstractFacts DEF AbstractLow
<1>4. AbstractBuf' = [AbstractBuf EXCEPT !.items = Append(@, data)]
  <2>1. AbstractBuf' = [size |-> Size, low |-> low, items |-> pushed']
    BY <1>3 DEF AbstractBuf
  <2>2. AbstractBuf = [size |-> Size, low |-> low, items |-> pushed]
    BY <1>3 DEF AbstractBuf
  <2>3. AbstractBuf.items = pushed
    BY <2>2
  <2>4. [AbstractBuf EXCEPT !.items = pushed']
          = [size |-> Size, low |-> low, items |-> pushed']
    BY <2>2
  <2>5. QED
    BY <1>1, <2>1, <2>3, <2>4
<1>5. Len(AbstractBuf.items) - AbstractBuf.low < AbstractBuf.size
  BY <1>2, <1>3, AbstractFacts DEF AbstractBuf
<1>6. QED
  BY <1>1, <1>2, <1>4, <1>5
  DEF Abstract!Push, Abstract!Room, Abstract!High, Abstract!AfterPush, AbstractBuf,
      AbstractLow

\* Moving `low` by one while it is below `high` takes the oldest item.
LEMMA TakeRefines ==
    ASSUME IInv, low < high, low' = low + 1, UNCHANGED <<high, pushed>>
    PROVE  /\ Abstract!Left(AbstractBuf) = high - low
           /\ Abstract!Oldest(AbstractBuf) = pushed[low + 1]
           /\ AbstractBuf' = Abstract!AfterTake(AbstractBuf)
<1>1. AbstractLow = low /\ AbstractLow' = low + 1
  BY AbstractFacts DEF AbstractLow
<1>2. QED
  BY <1>1, AbstractFacts
  DEF AbstractBuf, Abstract!Left, Abstract!High, Abstract!Oldest, Abstract!AfterTake

\* A pop's add takes an item, or takes the last one and drops it, or finds that a
\* thief was faster and is not seen at all.
LEMMA PopRefines ==
    ASSUME IInv, PopAdd
    PROVE  \/ Abstract!Take \/ Abstract!Drop
           \/ AbstractBuf' = AbstractBuf /\ dropped' = dropped
<1>1. /\ pc = "pop_add" /\ low' = low + 1 /\ UNCHANGED <<high, pushed>>
  BY DEF PopAdd
<1>2. CASE low >= high
  <2>1. dropped' = dropped
    <3>1. ~(low < high)
      BY <1>2, AbstractFacts
    <3>2. \/ dropped' = dropped \cup {} \/ dropped' = dropped
      BY <3>1 DEF PopAdd
    <3>3. QED
      BY <3>2
  <2>2. QED
    BY <1>1, <1>2, <2>1, AbstractFacts DEF AbstractBuf, AbstractLow
<1>3. CASE low < high /\ low + 1 < high
  <2>1. dropped' = dropped
    BY <1>3, AbstractFacts DEF PopAdd, PopMustRestore
  <2>2. QED
    BY <1>1, <1>3, <2>1, TakeRefines, AbstractFacts
    DEF Abstract!Take, AbstractBuf, AbstractLow
<1>4. CASE low < high /\ low + 1 >= high
  <2>1. dropped' = dropped \cup {pushed[low + 1]}
    BY <1>4, AbstractFacts DEF PopAdd, PopMustRestore
  <2>2. high - low = 1
    BY <1>4, AbstractFacts
  <2>3. QED
    BY <1>1, <1>4, <2>1, <2>2, TakeRefines DEF Abstract!Drop, AbstractBuf, AbstractLow
<1>5. QED
  BY <1>2, <1>3, <1>4, AbstractFacts

\* A successful steal takes the oldest item.
LEMMA StealRefines ==
    ASSUME IInv, NEW t \in Thieves, StealCAS(t), low = t_low[t]
    PROVE  Abstract!Take
<1>1. /\ t_pc[t] = "steal_cas" /\ low' = low + 1
      /\ UNCHANGED <<high, pushed, dropped>>
  BY DEF StealCAS
<1>2. low < high
  BY <1>1, AbstractFacts DEF IInv, TypeOK, ThievesInv
<1>3. QED
  BY <1>1, <1>2, TakeRefines, AbstractFacts DEF Abstract!Take, AbstractBuf, AbstractLow

\* Every step is a step of StealBuffer or is not seen.
LEMMA StepRefines ==
    ASSUME IInv, [Next]_vars
    PROVE  Abstract!Next \/ (AbstractBuf' = AbstractBuf /\ dropped' = dropped)
<1>1. CASE PushStoreHigh
  BY <1>1, PushRefines DEF Abstract!Next
<1>2. CASE PopAdd
  BY <1>2, PopRefines DEF Abstract!Next
<1>3. CASE PopRestore
  BY <1>3, AbstractFacts
  DEF PopRestore, history, IInv, MasterInv, AbstractBuf, AbstractLow
<1>4. ASSUME NEW t \in Thieves, StealCAS(t), low = t_low[t]
      PROVE  Abstract!Next
  BY <1>4, StealRefines DEF Abstract!Next
<1>5. CASE UNCHANGED <<high, low, pushed, dropped>>
  BY <1>5 DEF AbstractBuf, AbstractLow
<1>6. QED
  BY <1>1, <1>2, <1>3, <1>4, <1>5
  DEF vars, Next, MasterStep, MasterRuns, PushCall, PushReadLow, PushStoreData,
      PopCall, PopReadLow, PopRead, StealStep, StealCall, StealReadHigh, StealReadLow,
      StealReadSlot, StealCAS, history

\* Stale reads, aborted steals and a pop that runs past `high` cannot be told from
\* a queue whose operations are indivisible.
THEOREM Refinement == Spec => ImplementsStealBuffer
<1>1. Init => Abstract!Init
  BY DEF Init, Abstract!Init, Abstract!NewBuffer
<1>2. IInv /\ [Next]_vars
        => [Abstract!Next]_<<[size |-> Size, low |-> IF low < high THEN low ELSE high,
                              items |-> pushed], dropped>>
  BY StepRefines DEF AbstractBuf, AbstractLow
<1>3. QED
  BY <1>1, <1>2, Invariant, PTL DEF Spec, ImplementsStealBuffer, Abstract!Spec

-----------------------------------------------------------------------------
(* sharded_fifo_steal_buffer, a system of its own.  Its shards are like    *)
(* the StealBuffer that Refinement is about.                               *)

CONSTANTS NumShards, Hints, UintModulus, UlongModulus, Unwritten, MaxPushes

VARIABLES shards, next_shard_push, next_shard_pop, s_pc, s_i,
          s_t_pc, s_t_i, s_t_high, s_t_low, final_ret, t_left, pushes, present

Sharded ==
    INSTANCE ShardedFifoStealBuffer
    WITH pc <- s_pc, i <- s_i,
         t_pc <- s_t_pc, t_i <- s_t_i, t_high <- s_t_high, t_low <- s_t_low

ShardsAssumed ==
    /\ Sharded!HintsAssumption /\ Sharded!ShardsAssumption /\ Sharded!WordsAssumption

LEMMA ShardFacts ==
    ASSUME ShardsAssumed
    PROVE  /\ NumShards \in Nat \ {0} /\ "master" \notin Thieves
           /\ 0 \in Sharded!Indices /\ Sharded!Indices = 0 .. NumShards - 1
           /\ UintModulus \in Nat \ {0} /\ UlongModulus \in Nat \ {0}
           /\ UintModulus <= UlongModulus
           /\ Sharded!Words = 0 .. UlongModulus - 1 /\ 0 \in Sharded!Words
           /\ \A h \in Hints : h \in Nat /\ h + NumShards < UintModulus
BY DEF ShardsAssumed, Sharded!HintsAssumption, Sharded!ShardsAssumption,
       Sharded!WordsAssumption, Sharded!Indices, Sharded!Words

\* Whatever create leaves alone, get_shard finds a header.
LEMMA HeaderType ==
    ASSUME ShardsAssumed, NEW w \in Int,
           NEW memory \in [Sharded!UnwrittenWords -> Unwritten]
    PROVE  Sharded!Header(w, memory) \in [high : Sharded!Words, low : Sharded!Words,
                                          size : 0 .. UintModulus - 1, mod : Int]
<1>1. Sharded!Sizes \in Sharded!Words
  <2>1. Size \in Nat \ {0} /\ Sharded!Sizes < UlongModulus
    BY ShardFacts DEF ShardsAssumed, Sharded!WordsAssumption
  <2>2. (Size - 1) * UintModulus \in Nat
    <3>1. Size - 1 \in Nat /\ UintModulus \in Nat
      BY <2>1, ShardFacts
    <3> QED
      BY <3>1
  <2> QED
    BY <2>1, <2>2, ShardFacts DEF Sharded!Sizes
<1>2. \A n \in Int : Sharded!Word(n, memory) \in Sharded!Words
  <2> TAKE n \in Int
  <2>1. Unwritten \subseteq Sharded!Words
    BY DEF ShardsAssumed, Sharded!WordsAssumption, Sharded!Words
  <2>2. CASE n \in Sharded!UnwrittenWords
    BY <2>1, <2>2 DEF Sharded!Word
  <2>3. CASE n \notin Sharded!UnwrittenWords
    BY <1>1, <2>3, ShardFacts DEF Sharded!Word
  <2> QED
    BY <2>2, <2>3
<1>3. \A n \in Sharded!Words :
         n % UintModulus \in 0 .. UintModulus - 1 /\ n \div UintModulus \in Int
  <2> TAKE n \in Sharded!Words
  <2>1. n \in Nat /\ UintModulus \in Nat \ {0}
    BY ShardFacts
  <2> QED
    BY <2>1, DivMod
<1>4. w + 1 \in Int /\ w + 2 \in Int
  OBVIOUS
<1> QED
  BY <1>2, <1>3, <1>4 DEF Sharded!Header

\* create
LEMMA ShardsInitInv == ASSUME ShardsAssumed, Sharded!Init PROVE Sharded!IInv
<1>1. shards \in [Sharded!Indices -> [high : Sharded!Words, low : Sharded!Words,
                                      size : 0 .. UintModulus - 1, mod : Int]]
  <2>1. PICK memory \in [Sharded!UnwrittenWords -> Unwritten] :
          shards = [k \in Sharded!Indices |-> Sharded!Header(Sharded!ShardAt(k), memory)]
    BY DEF Sharded!Init
  <2>2. \A k \in Sharded!Indices : Sharded!ShardAt(k) \in Int
    <3> TAKE k \in Sharded!Indices
    <3>1. k \in Int /\ 3 + Size \in Int
      BY ShardFacts DEF ShardsAssumed, Sharded!WordsAssumption
    <3> QED
      BY <3>1 DEF Sharded!ShardAt, Sharded!HeaderWords
  <2> QED
    BY <2>1, <2>2, HeaderType
<1>2. Sharded!TypeOK
  BY <1>1, ShardFacts DEF Sharded!Init, Sharded!TypeOK, Sharded!NoTickets
<1>3. \A c \in Sharded!Callers, k \in Sharded!Indices :
         Sharded!PresentUpTo(c, k, shards[k].high)
  BY <1>1, ShardFacts DEF Sharded!Init, Sharded!PresentUpTo, Sharded!NoTickets
<1>4. Sharded!PopInv /\ \A t \in Thieves : Sharded!StealInv(t)
  BY DEF Sharded!Init, Sharded!PopInv, Sharded!StealInv
<1> QED
  BY <1>2, <1>3, <1>4 DEF Sharded!IInv

\* What the other threads do to a shard: `low` grows, and so does `high` unless it
\* wraps around, below a `low` that it will never pass again.
Later(k) ==
    /\ shards[k].low <= shards[k].low'
    /\ shards[k].high <= shards[k].high' \/ Sharded!Lost(k)'
    /\ Sharded!Lost(k) => Sharded!Lost(k)'

ShardsType ==
    shards \in [Sharded!Indices -> [high : Sharded!Words, low : Sharded!Words,
                                    size : 0 .. UintModulus - 1, mod : Int]]
MasterType ==
    /\ next_shard_push \in Sharded!Indices /\ next_shard_pop \in Sharded!Indices
    /\ s_pc \in {"idle", "push", "pop", "undefined"} /\ s_i \in 0 .. NumShards
ThievesType ==
    /\ s_t_pc \in [Thieves -> {"idle", "high", "low", "cas"}]
    /\ s_t_i \in [Thieves -> Sharded!Indices] /\ t_left \in [Thieves -> 0 .. NumShards]
    /\ s_t_high \in [Thieves -> Sharded!Words] /\ s_t_low \in [Thieves -> Sharded!Words]
    /\ final_ret \in [Thieves -> {"EMPTY", "ABORT"}]
PresentType == present \in [Sharded!Callers -> [Sharded!Indices -> Sharded!Words]]

LEMMA TypeParts ==
    /\ Sharded!TypeOK <=> ShardsType /\ MasterType /\ ThievesType /\ PresentType
    /\ Sharded!TypeOK' <=> ShardsType' /\ MasterType' /\ ThievesType' /\ PresentType'
BY DEF Sharded!TypeOK, ShardsType, MasterType, ThievesType, PresentType

\* The types of what a step leaves alone.
LEMMA TypesKept ==
    ASSUME Sharded!IInv
    PROVE  /\ shards' = shards => ShardsType'
           /\ UNCHANGED <<s_t_pc, s_t_i, t_left, s_t_high, s_t_low, final_ret>> => ThievesType'
           /\ UNCHANGED <<next_shard_push, next_shard_pop, s_pc, s_i>> => MasterType'
           /\ UNCHANGED present => PresentType'
<1>1. ShardsType /\ MasterType /\ ThievesType /\ PresentType
  BY TypeParts DEF Sharded!IInv
<1>2. /\ Sharded!Indices' = Sharded!Indices /\ Sharded!Words' = Sharded!Words
      /\ Sharded!Callers' = Sharded!Callers
  BY DEF Sharded!Indices, Sharded!Words, Sharded!Callers
<1>3. shards' = shards => ShardsType'
  BY <1>1, <1>2 DEF ShardsType
<1>4. UNCHANGED <<s_t_pc, s_t_i, t_left, s_t_high, s_t_low, final_ret>> => ThievesType'
  BY <1>1, <1>2 DEF ThievesType
<1>5. UNCHANGED <<next_shard_push, next_shard_pop, s_pc, s_i>> => MasterType'
  BY <1>1, <1>2 DEF MasterType
<1>6. UNCHANGED present => PresentType'
  BY <1>1, <1>2 DEF PresentType
<1> QED
  BY <1>3, <1>4, <1>5, <1>6

\* The numbers in the state are integers.
LEMMA ShardState ==
    ASSUME ShardsAssumed, Sharded!IInv
    PROVE  /\ \A k \in Sharded!Indices :
                 /\ shards[k].high \in 0 .. UlongModulus - 1
                 /\ shards[k].low \in 0 .. UlongModulus - 1
                 /\ shards[k].size \in 0 .. UintModulus - 1 /\ shards[k].mod \in Int
           /\ \A c \in Sharded!Callers, k \in Sharded!Indices :
                 present[c][k] \in 0 .. UlongModulus - 1
           /\ \A t \in Thieves : /\ s_t_i[t] \in Sharded!Indices
                                 /\ t_left[t] \in 0 .. NumShards
                                 /\ s_t_high[t] \in 0 .. UlongModulus - 1
                                 /\ s_t_low[t] \in 0 .. UlongModulus - 1
                                 /\ t \in Sharded!Callers
           /\ ShardsType /\ MasterType /\ ThievesType /\ PresentType
           /\ "master" \in Sharded!Callers
<1>1. ShardsType /\ MasterType /\ ThievesType /\ PresentType
  BY TypeParts DEF Sharded!IInv
<1>2. \A k \in Sharded!Indices :
         /\ shards[k].high \in 0 .. UlongModulus - 1
         /\ shards[k].low \in 0 .. UlongModulus - 1
         /\ shards[k].size \in 0 .. UintModulus - 1 /\ shards[k].mod \in Int
  BY <1>1, ShardFacts DEF ShardsType
<1>3. \A c \in Sharded!Callers, k \in Sharded!Indices : present[c][k] \in 0 .. UlongModulus - 1
  BY <1>1, ShardFacts DEF PresentType
<1>4. \A t \in Thieves : /\ s_t_i[t] \in Sharded!Indices
                         /\ t_left[t] \in 0 .. NumShards
                         /\ s_t_high[t] \in 0 .. UlongModulus - 1
                         /\ s_t_low[t] \in 0 .. UlongModulus - 1
  BY <1>1, ShardFacts DEF ThievesType
<1> QED
  BY <1>1, <1>2, <1>3, <1>4 DEF Sharded!Callers

\* What a caller knows stays true.
LEMMA Known ==
    ASSUME ShardsAssumed, Sharded!IInv, ShardsType',
           NEW k \in Sharded!Indices, Later(k),
           NEW c \in Sharded!Callers, present'[c] = present[c]
    PROVE  /\ Sharded!PresentUpTo(c, k, shards[k].high)'
           /\ \A n \in Int : Sharded!PresentUpTo(c, k, n) => Sharded!PresentUpTo(c, k, n)'
           /\ Sharded!Gone(c, k) => Sharded!Gone(c, k)'
<1>1. /\ shards[k].high \in Int /\ shards[k].low \in Int /\ present[c][k] \in Int
      /\ shards'[k].high \in Int /\ shards'[k].low \in Int
  <2>1. shards'[k].high \in 0 .. UlongModulus - 1 /\ shards'[k].low \in 0 .. UlongModulus - 1
    BY ShardFacts DEF ShardsType, Sharded!Indices, Sharded!Words
  <2> QED
    BY <2>1, ShardState
<1>2. Sharded!PresentUpTo(c, k, shards[k].high)
  BY DEF Sharded!IInv
<1>3. present'[c][k] = present[c][k]
  OBVIOUS
<1>4. Sharded!PresentUpTo(c, k, shards[k].high)'
  BY <1>1, <1>2, <1>3 DEF Sharded!PresentUpTo, Later, Sharded!Lost
<1>5. \A n \in Int : Sharded!PresentUpTo(c, k, n) => Sharded!PresentUpTo(c, k, n)'
  BY <1>3 DEF Sharded!PresentUpTo, Later
<1>6. ASSUME Sharded!Gone(c, k)
      PROVE  Sharded!Gone(c, k)'
  <2>1. shards[k].low >= present[c][k] \/ Sharded!Lost(k)
    BY <1>1, <1>2, <1>6 DEF Sharded!Gone, Sharded!Tickets, Sharded!PresentUpTo, Sharded!Lost
  <2>2. shards'[k].low >= present'[c][k] \/ shards'[k].high < shards'[k].low
    BY <1>1, <1>3, <2>1 DEF Later, Sharded!Lost
  <2> QED
    BY <1>1, <2>2 DEF Sharded!Gone, Sharded!Tickets
<1> QED
  BY <1>4, <1>5, <1>6

LEMMA StaysLater ==
    ASSUME ShardsAssumed, Sharded!IInv, shards' = shards
    PROVE  \A k \in Sharded!Indices : Later(k)
BY ShardState DEF Later, Sharded!Lost

\* A thief that does not move still knows what it knew.
LEMMA ThiefKept ==
    ASSUME ShardsAssumed, Sharded!IInv, ShardsType',
           \A k \in Sharded!Indices : Later(k),
           NEW t \in Thieves,
           UNCHANGED <<s_t_pc[t], s_t_i[t], s_t_high[t], s_t_low[t], final_ret[t], t_left[t],
                       present[t]>>
    PROVE  Sharded!StealInv(t)'
<1>1. Sharded!StealInv(t) /\ t \in Sharded!Callers
  BY ShardState DEF Sharded!IInv
<1>2. ASSUME s_t_pc[t] \in {"low", "cas"}
      PROVE  t_left[t] > 0 /\ Sharded!PresentUpTo(t, s_t_i[t], s_t_high[t])'
  <2>1. /\ t_left[t] > 0 /\ Sharded!PresentUpTo(t, s_t_i[t], s_t_high[t])
        /\ s_t_i[t] \in Sharded!Indices /\ s_t_high[t] \in Int
    BY <1>1, <1>2, ShardState DEF Sharded!StealInv
  <2>2. \A k \in Sharded!Indices, n \in Int :
           Sharded!PresentUpTo(t, k, n) => Sharded!PresentUpTo(t, k, n)'
    BY <1>1, Known
  <2> QED
    BY <2>1, <2>2 DEF Sharded!PresentUpTo, Sharded!Lost
<1>3. \A k \in Sharded!Indices : Sharded!Gone(t, k) => Sharded!Gone(t, k)'
  BY <1>1, Known
<1>4. ASSUME s_t_pc[t] # "idle", final_ret[t] = "EMPTY",
             NEW k \in Sharded!Indices
      PROVE  Sharded!ToVisit(k, s_t_i[t], t_left[t]) \/ Sharded!Gone(t, k)'
  BY <1>1, <1>3, <1>4 DEF Sharded!StealInv
<1>5. s_t_pc[t] = "cas" => s_t_low[t] < s_t_high[t]
  BY <1>1 DEF Sharded!StealInv
<1> QED
  BY <1>2, <1>4, <1>5
  DEF Sharded!StealInv, Sharded!ToVisit, Sharded!PresentUpTo, Sharded!Lost, Sharded!Indices

\* One more shard has been looked at.
LEMMA VisitNext ==
    ASSUME ShardsAssumed, NEW k \in Sharded!Indices, NEW from \in Sharded!Indices, k # from,
           NEW n \in Int, Sharded!ToVisit(k, from, n)
    PROVE  Sharded!ToVisit(k, IF from + 1 = NumShards THEN 0 ELSE from + 1, n - 1)
BY ShardFacts DEF Sharded!ToVisit

-----------------------------------------------------------------------------
(* The sharded buffer's master.                                            *)

\* What a step of the master has to keep, whatever it does to a shard.
LEMMA MasterMoves ==
    ASSUME ShardsAssumed, Sharded!IInv, ShardsType', MasterType',
           \A k \in Sharded!Indices : Later(k),
           UNCHANGED <<s_t_pc, s_t_i, t_left, s_t_high, s_t_low, final_ret>>,
           \/ present' = present
           \/ present' = [present EXCEPT !["master"] = Sharded!Highs] /\ shards' = shards
           \/ present' = [present EXCEPT !["master"] = Sharded!NoTickets],
           Sharded!PopInv'
    PROVE  Sharded!IInv'
<1>1. /\ \A c \in Sharded!Callers \ {"master"} : present'[c] = present[c]
      /\ PresentType'
      /\ \/ present'["master"] = present["master"]
         \/ present'["master"] = Sharded!Highs /\ shards' = shards
         \/ present'["master"] = Sharded!NoTickets
  <2>1. /\ Sharded!Highs \in [Sharded!Indices -> Sharded!Words]
        /\ Sharded!NoTickets \in [Sharded!Indices -> Sharded!Words]
    BY ShardState, ShardFacts DEF Sharded!Highs, Sharded!NoTickets
  <2>2. present \in [Sharded!Callers -> [Sharded!Indices -> Sharded!Words]]
        /\ "master" \in Sharded!Callers
    BY ShardState DEF PresentType
  <2>3. PresentType' <=> present' \in [Sharded!Callers -> [Sharded!Indices -> Sharded!Words]]
    BY DEF PresentType, Sharded!Callers, Sharded!Indices, Sharded!Words
  <2> QED
    BY <2>1, <2>2, <2>3
<1>2. Sharded!TypeOK'
  BY <1>1, TypeParts, TypesKept
<1>3. ASSUME NEW c \in Sharded!Callers, NEW k \in Sharded!Indices
      PROVE  Sharded!PresentUpTo(c, k, shards[k].high)'
  <2>1. CASE present'[c] = present[c]
    BY <2>1, Known
  <2>2. CASE present'[c] = Sharded!Highs /\ shards' = shards
    BY <2>2, ShardState DEF Sharded!PresentUpTo, Sharded!Highs
  <2>3. CASE present'[c] = Sharded!NoTickets
    <3>1. shards'[k].high \in 0 .. UlongModulus - 1
      BY ShardFacts DEF ShardsType, Sharded!Indices, Sharded!Words
    <3> QED
      BY <2>3, <3>1 DEF Sharded!PresentUpTo, Sharded!NoTickets
  <2> QED
    BY <1>1, <2>1, <2>2, <2>3
<1>4. \A t \in Thieves : Sharded!StealInv(t)'
  <2> TAKE t \in Thieves
  <2>1. present'[t] = present[t]
    BY <1>1, ShardState, ShardFacts
  <2> QED
    BY <2>1, ThiefKept
<1> QED
  BY <1>2, <1>3, <1>4 DEF Sharded!IInv, Sharded!Callers, Sharded!Indices

\* PushCall and PopCall: what is in the shards now is `present`.
LEMMA MasterCallInv ==
    ASSUME ShardsAssumed, Sharded!IInv, Sharded!PopCall \/ Sharded!PushCall
    PROVE  Sharded!IInv'
<1>1. /\ s_pc' \in {"push", "pop"} /\ s_i' = 0
      /\ \/ present' = present /\ s_pc' = "push"
         \/ present' = [present EXCEPT !["master"] = Sharded!Highs]
      /\ UNCHANGED <<shards, next_shard_push, next_shard_pop, s_t_pc, s_t_i, s_t_high, s_t_low,
                     final_ret, t_left>>
  BY DEF Sharded!PopCall, Sharded!PushCall, Sharded!thieves
<1>2. MasterType'
  BY <1>1, ShardState, ShardFacts DEF MasterType, Sharded!Indices
<1>3. Sharded!PopInv'
  BY <1>1, <1>2, ShardState, ShardFacts
  DEF MasterType, Sharded!PopInv, Sharded!ToVisit, Sharded!Indices
<1> QED
  BY <1>1, <1>2, <1>3, TypesKept, StaysLater, MasterMoves

\* sharded_fifo_steal_buffer_next_shard
LEMMA NextShardType ==
    ASSUME ShardsAssumed, NEW k \in Sharded!Indices
    PROVE  /\ Sharded!NextShard(k) \in Sharded!Indices
           /\ Sharded!NextShard(k) = IF k + 1 = NumShards THEN 0 ELSE k + 1
BY ShardFacts DEF Sharded!NextShard

\* The remainder of a small negative number.
LEMMA ModNegative ==
    ASSUME NEW S \in Nat \ {0}, NEW a \in -S .. -1
    PROVE  a % S = a + S
<1> DEFINE q == a \div S
<1>1. a = S * q + (a % S) /\ q \in Int /\ a % S \in 0 .. S - 1
  OBVIOUS
<1>2. S * (q + 1) = S * q + S
  OBVIOUS
<1>3. S * (q + 1 + 1) = S * (q + 1) + S
  OBVIOUS
<1> HIDE DEF q
<1>4. CASE q >= 0
  <2>1. S * q >= 0
    BY <1>1, <1>4
  <2> QED
    BY <1>1, <2>1
<1>5. CASE q <= -2
  <2>1. S * (q + 1 + 1) <= 0
    BY <1>1, <1>5, MultipleGap
  <2> QED
    BY <1>1, <1>2, <1>3, <2>1
<1>6. CASE q = -1
  <2>1. S * q = -S
    BY <1>6
  <2> QED
    BY <1>1, <2>1
<1> QED
  BY <1>1, <1>4, <1>5, <1>6

\* A push that found room: `high` grows, or it wraps around where `low` is above 0.
LEMMA PushLater ==
    ASSUME ShardsAssumed, Sharded!IInv, NEW k \in Sharded!Indices, Sharded!Room(shards[k]),
           shards' = [shards EXCEPT ![k].high = (@ + 1) % UlongModulus]
    PROVE  ShardsType' /\ \A m \in Sharded!Indices : Later(m)
<1> DEFINE h == shards[k].high
           l == shards[k].low
           h2 == (h + 1) % UlongModulus
<1>1. /\ h \in 0 .. UlongModulus - 1 /\ l \in 0 .. UlongModulus - 1
      /\ shards[k].size \in 0 .. UintModulus - 1
  BY ShardState
<1>2. h2 = IF h + 1 = UlongModulus THEN 0 ELSE h + 1
  <2>1. h + 1 \in 0 .. UlongModulus /\ UlongModulus \in Nat \ {0}
    BY <1>1, ShardFacts
  <2> QED
    BY <2>1, ModSmall
<1>3. /\ shards'[k].high = h2 /\ shards'[k].low = l
      /\ \A m \in Sharded!Indices \ {k} : shards'[m] = shards[m]
  BY ShardState DEF ShardsType
<1>4. ShardsType'
  <2>1. h2 \in Sharded!Words
    BY <1>1, <1>2, ShardFacts
  <2>2. shards' \in [Sharded!Indices -> [high : Sharded!Words, low : Sharded!Words,
                                         size : 0 .. UintModulus - 1, mod : Int]]
    BY <2>1, ShardState DEF ShardsType
  <2> QED
    BY <2>2 DEF ShardsType, Sharded!Indices, Sharded!Words
<1>5. Later(k) <=> (h <= h2 \/ h2 < l) /\ (h < l => h2 < l)
  BY <1>1, <1>3 DEF Later, Sharded!Lost
<1> DEFINE left == (h - l) % UlongModulus
           M == UlongModulus
<1>6. left < shards[k].size
  BY DEF Sharded!Room
<1>7. /\ h \in 0 .. M - 1 /\ l \in 0 .. M - 1 /\ shards[k].size <= M - 1 /\ M \in Nat \ {0}
      /\ shards[k].size \in Int
      /\ h2 = IF h + 1 = M THEN 0 ELSE h + 1
  BY <1>1, <1>2, ShardFacts
<1>8. h >= l => left = h - l
  <2> SUFFICES ASSUME h >= l PROVE left = h - l
    OBVIOUS
  <2> HIDE DEF h, l
  <2>1. h - l \in 0 .. M /\ h - l # M
    BY <1>7
  <2> QED
    BY <1>7, <2>1, ModSmall
<1>9. h < l => left = h - l + M
  <2> SUFFICES ASSUME h < l PROVE left = h - l + M
    OBVIOUS
  <2> HIDE DEF h, l
  <2>1. h - l \in -M .. -1
    BY <1>7
  <2> QED
    BY <1>7, <2>1, ModNegative
<1>10. Later(k)
  <2> HIDE DEF h, l, h2, left, M
  <2>1. left \in Int
    BY <1>7, <1>8, <1>9
  <2> QED
    BY <1>5, <1>6, <1>7, <1>8, <1>9, <2>1
<1> QED
  BY <1>3, <1>4, <1>10, ShardState DEF Later, Sharded!Lost

\* A ticket that is taken: `low` grows, up to `high` at most.
LEMMA TakeLater ==
    ASSUME ShardsAssumed, Sharded!IInv, NEW k \in Sharded!Indices,
           shards[k].low < UlongModulus - 1,
           shards' = [shards EXCEPT ![k].low = @ + 1]
    PROVE  ShardsType' /\ \A m \in Sharded!Indices : Later(m)
<1>1. /\ shards[k].low \in 0 .. UlongModulus - 1 /\ shards[k].high \in 0 .. UlongModulus - 1
      /\ UlongModulus \in Nat
  BY ShardState, ShardFacts
<1>2. /\ shards'[k].high = shards[k].high /\ shards'[k].low = shards[k].low + 1
      /\ \A m \in Sharded!Indices \ {k} : shards'[m] = shards[m]
  BY ShardState DEF ShardsType
<1>3. ShardsType'
  <2>1. shards[k].low + 1 \in Sharded!Words
    BY <1>1, ShardFacts
  <2>2. shards' \in [Sharded!Indices -> [high : Sharded!Words, low : Sharded!Words,
                                         size : 0 .. UintModulus - 1, mod : Int]]
    BY <2>1, ShardState DEF ShardsType
  <2> QED
    BY <2>2 DEF ShardsType, Sharded!Indices, Sharded!Words
<1>4. Later(k)
  BY <1>1, <1>2 DEF Later, Sharded!Lost
<1> QED
  BY <1>2, <1>3, <1>4, ShardState DEF Later, Sharded!Lost

LEMMA ReturnsFacts ==
    ASSUME ShardsAssumed, Sharded!IInv, Sharded!Returns
    PROVE  /\ s_pc' = "idle" /\ s_i' \in 0 .. NumShards
           /\ present' = [present EXCEPT !["master"] = Sharded!NoTickets]
           /\ Sharded!PopInv'
BY ShardFacts DEF Sharded!Returns, Sharded!PopInv

LEMMA PushShardInv ==
    ASSUME ShardsAssumed, Sharded!IInv, Sharded!PushShard
    PROVE  Sharded!IInv'
<1>1. /\ s_pc = "push" /\ s_i \in 0 .. NumShards - 1
      /\ next_shard_push \in Sharded!Indices /\ next_shard_pop' = next_shard_pop
      /\ next_shard_push' = Sharded!NextShard(next_shard_push)
      /\ UNCHANGED <<s_t_pc, s_t_i, t_left, s_t_high, s_t_low, final_ret>>
  BY ShardState, ShardFacts DEF Sharded!PushShard, Sharded!thieves, MasterType
<1>2. next_shard_push' \in Sharded!Indices /\ next_shard_pop' \in Sharded!Indices
  BY <1>1, NextShardType, ShardState DEF MasterType
<1>3. CASE /\ Sharded!Room(shards[next_shard_push])
           /\ shards' = [shards EXCEPT ![next_shard_push].high = (@ + 1) % UlongModulus]
           /\ Sharded!Returns
  <2>1. ShardsType' /\ \A k \in Sharded!Indices : Later(k)
    BY <1>1, <1>3, PushLater
  <2>2. MasterType'
    BY <1>2, <1>3, ReturnsFacts, ShardFacts DEF MasterType, Sharded!Indices
  <2> QED
    BY <1>1, <1>3, <2>1, <2>2, ReturnsFacts, MasterMoves
<1>4. CASE s_i' = s_i + 1 /\ UNCHANGED <<shards, s_pc, present>>
  <2>1. MasterType' /\ Sharded!PopInv'
    BY <1>1, <1>2, <1>4, ShardFacts DEF MasterType, Sharded!PopInv, Sharded!Indices
  <2> QED
    BY <1>1, <1>4, <2>1, TypesKept, StaysLater, MasterMoves
<1> QED
  BY <1>3, <1>4 DEF Sharded!PushShard

\* A shard that the pop has been to has nothing left of what was there.
LEMMA PopShardInv ==
    ASSUME ShardsAssumed, Sharded!IInv, Sharded!PopShard
    PROVE  Sharded!IInv'
<1> DEFINE k == next_shard_pop
<1>1. /\ s_pc = "pop" /\ s_i \in 0 .. NumShards - 1
      /\ k \in Sharded!Indices /\ next_shard_push' = next_shard_push
      /\ next_shard_pop' = Sharded!NextShard(k)
      /\ UNCHANGED <<s_t_pc, s_t_i, t_left, s_t_high, s_t_low, final_ret>>
  BY ShardState, ShardFacts DEF Sharded!PopShard, Sharded!thieves, MasterType
<1>2. /\ next_shard_push' \in Sharded!Indices /\ next_shard_pop' \in Sharded!Indices
      /\ next_shard_pop' = IF k + 1 = NumShards THEN 0 ELSE k + 1
  BY <1>1, NextShardType, ShardState DEF MasterType
<1>3. shards[k].high \in 0 .. UlongModulus - 1 /\ shards[k].low \in 0 .. UlongModulus - 1
  BY <1>1, ShardState
<1>4. ShardsType' /\ \A m \in Sharded!Indices : Later(m)
  <2>1. CASE shards' = shards
    BY <2>1, TypesKept, StaysLater
  <2>2. CASE shards[k].low < shards[k].high /\ shards' = [shards EXCEPT ![k].low = @ + 1]
    <3>1. shards[k].low < UlongModulus - 1
      BY <1>3, <2>2, ShardFacts
    <3> QED
      BY <1>1, <2>2, <3>1, TakeLater
  <2> QED
    BY <1>3, <2>1, <2>2 DEF Sharded!PopShard
<1>5. CASE Sharded!Returns
  <2>1. MasterType'
    BY <1>2, <1>5, ReturnsFacts, ShardFacts DEF MasterType, Sharded!Indices
  <2> QED
    BY <1>1, <1>4, <1>5, <2>1, ReturnsFacts, MasterMoves
<1>6. CASE s_i' = s_i + 1 /\ UNCHANGED <<s_pc, present>> /\ shards'[k].high <= shards'[k].low
  <2>1. MasterType'
    BY <1>1, <1>2, <1>6, ShardFacts DEF MasterType, Sharded!Indices
  <2>2. ASSUME NEW m \in Sharded!Indices
        PROVE  \/ Sharded!ToVisit(m, next_shard_pop', NumShards - s_i')
               \/ Sharded!Gone("master", m)'
    <3>1. CASE m = k
      <4>1. /\ shards'[k].high \in 0 .. UlongModulus - 1
            /\ shards'[k].low \in 0 .. UlongModulus - 1
        BY <1>1, <1>4, ShardFacts DEF ShardsType, Sharded!Indices, Sharded!Words
      <4>2. shards'[k].low + 1 .. shards'[k].high = {}
        BY <1>6, <4>1
      <4> QED
        BY <3>1, <4>2 DEF Sharded!Gone, Sharded!Tickets
    <3>2. CASE m # k /\ Sharded!ToVisit(m, k, NumShards - s_i)
      <4>1. NumShards - s_i \in Int /\ NumShards - s_i' = NumShards - s_i - 1
        BY <1>1, <1>6, ShardFacts
      <4> QED
        BY <1>1, <1>2, <3>2, <4>1, VisitNext
    <3>3. CASE Sharded!Gone("master", m)
      BY <1>4, <1>6, <3>3, Known, ShardState
    <3>4. Sharded!ToVisit(m, k, NumShards - s_i) \/ Sharded!Gone("master", m)
      BY <1>1 DEF Sharded!IInv, Sharded!PopInv
    <3> QED
      BY <3>1, <3>2, <3>3, <3>4
  <2>3. Sharded!PopInv'
    BY <2>2 DEF Sharded!PopInv, Sharded!ToVisit, Sharded!Indices
  <2> QED
    BY <1>1, <1>4, <1>6, <2>1, <2>3, MasterMoves
<1>7. \/ Sharded!Returns
      \/ s_i' = s_i + 1 /\ UNCHANGED <<s_pc, present>> /\ shards'[k].high <= shards'[k].low
  <2>1. CASE shards' = shards /\ shards[k].high <= shards[k].low
    BY <1>3, <2>1 DEF Sharded!PopShard
  <2>2. CASE shards[k].high > shards[k].low /\ shards' = [shards EXCEPT ![k].low = @ + 1]
    <3>1. shards'[k].high = shards[k].high /\ shards'[k].low = shards[k].low + 1
      BY <1>1, <2>2, ShardState DEF ShardsType
    <3> QED
      BY <1>3, <2>2, <3>1 DEF Sharded!PopShard
  <2> QED
    BY <2>1, <2>2 DEF Sharded!PopShard
<1> QED
  BY <1>5, <1>6, <1>7

LEMMA ReturnsZeroInv ==
    ASSUME ShardsAssumed, Sharded!IInv, Sharded!ReturnsZero
    PROVE  Sharded!IInv'
<1>1. /\ Sharded!Returns
      /\ UNCHANGED <<shards, next_shard_push, next_shard_pop, s_t_pc, s_t_i, t_left, s_t_high,
                     s_t_low, final_ret>>
  BY DEF Sharded!ReturnsZero, Sharded!thieves
<1>2. MasterType'
  BY <1>1, ReturnsFacts, ShardState DEF MasterType, Sharded!Indices
<1> QED
  BY <1>1, <1>2, ReturnsFacts, TypesKept, StaysLater, MasterMoves

-----------------------------------------------------------------------------
(* The sharded buffer's thieves.                                           *)

\* t is the only thief that moves.
OnlyThief(t) ==
    /\ \A u \in Thieves \ {t} :
          UNCHANGED <<s_t_pc[u], s_t_i[u], s_t_high[u], s_t_low[u], final_ret[u], t_left[u]>>
    /\ \A c \in Sharded!Callers \ {t} : present'[c] = present[c]

\* It is enough to look at t where the master does not move.
LEMMA ThiefMoves ==
    ASSUME ShardsAssumed, Sharded!IInv, NEW t \in Thieves, OnlyThief(t),
           UNCHANGED <<s_pc, s_i, next_shard_push, next_shard_pop>>,
           ShardsType', \A k \in Sharded!Indices : Later(k),
           ThievesType', PresentType',
           \A k \in Sharded!Indices : Sharded!PresentUpTo(t, k, shards[k].high)',
           Sharded!StealInv(t)'
    PROVE  Sharded!IInv'
<1>1. Sharded!TypeOK'
  BY TypeParts, TypesKept
<1>2. \A c \in Sharded!Callers, k \in Sharded!Indices :
         Sharded!PresentUpTo(c, k, shards[k].high)'
  BY Known DEF OnlyThief
<1>3. Sharded!PopInv'
  <2>1. "master" \in Sharded!Callers \ {t}
    BY ShardState, ShardFacts
  <2>2. \A k \in Sharded!Indices : Sharded!Gone("master", k) => Sharded!Gone("master", k)'
    BY <2>1, Known DEF OnlyThief
  <2>3. s_pc = "pop" =>
          \A k \in Sharded!Indices :
             Sharded!ToVisit(k, next_shard_pop, NumShards - s_i) \/ Sharded!Gone("master", k)
    BY DEF Sharded!IInv, Sharded!PopInv
  <2> QED
    BY <2>2, <2>3 DEF Sharded!PopInv, Sharded!ToVisit, Sharded!Indices
<1>4. ASSUME NEW u \in Thieves PROVE Sharded!StealInv(u)'
  <2>1. CASE u # t
    BY <2>1, ThiefKept, ShardState DEF OnlyThief
  <2> QED
    BY <2>1
<1> QED
  BY <1>1, <1>2, <1>3, <1>4 DEF Sharded!IInv, Sharded!Callers, Sharded!Indices

\* A thief has all shards before it when it is called, wherever its hint is.
LEMMA StealCallInv ==
    ASSUME ShardsAssumed, Sharded!IInv, NEW t \in Thieves, NEW hint \in Hints,
           Sharded!StealCall(t, hint)
    PROVE  Sharded!IInv'
<1>1. /\ hint \in Nat /\ hint % NumShards \in 0 .. NumShards - 1
      /\ Sharded!End(hint) = hint + NumShards
  <2>1. hint \in Nat /\ hint + NumShards < UintModulus /\ UintModulus \in Nat
    BY ShardFacts
  <2>2. (hint + NumShards) % UintModulus = hint + NumShards
    <3>1. UintModulus \in Nat \ {0} /\ hint + NumShards \in 0 .. UintModulus
      BY <2>1, ShardFacts
    <3> QED
      BY <2>1, <3>1, ShardFacts, ModSmall
  <2> QED
    BY <2>1, <2>2, ShardFacts, DivMod DEF Sharded!End
<1>2. /\ s_t_pc' = [s_t_pc EXCEPT ![t] = "high"]
      /\ s_t_i' = [s_t_i EXCEPT ![t] = hint % NumShards]
      /\ t_left' = [t_left EXCEPT ![t] = NumShards]
      /\ present' = [present EXCEPT ![t] = Sharded!Highs]
      /\ UNCHANGED <<shards, s_pc, s_i, next_shard_push, next_shard_pop, s_t_high, s_t_low,
                     final_ret>>
  <2>1. hint < hint + NumShards /\ (hint + NumShards) - hint = NumShards
    BY <1>1, ShardFacts
  <2> QED
    BY <1>1, <2>1 DEF Sharded!StealCall, Sharded!master
<1>3. ThievesType'
  <2>1. hint % NumShards \in Sharded!Indices /\ NumShards \in 0 .. NumShards
    BY <1>1, ShardFacts
  <2> QED
    BY <1>2, <2>1, ShardState DEF ThievesType, Sharded!Indices, Sharded!Words
<1>4. PresentType' /\ present'[t] = Sharded!Highs
  <2>1. Sharded!Highs \in [Sharded!Indices -> Sharded!Words]
    BY ShardState, ShardFacts DEF Sharded!Highs
  <2> QED
    BY <1>2, <2>1, ShardState DEF PresentType, Sharded!Callers, Sharded!Indices, Sharded!Words
<1>5. OnlyThief(t)
  BY <1>2, ShardState DEF OnlyThief, ThievesType, PresentType
<1>6. \A k \in Sharded!Indices : Sharded!PresentUpTo(t, k, shards[k].high)'
  BY <1>2, <1>4, ShardState DEF Sharded!PresentUpTo, Sharded!Highs
<1>7. Sharded!StealInv(t)'
  <2>1. s_t_pc'[t] = "high" /\ s_t_i'[t] \in 0 .. NumShards - 1 /\ t_left'[t] = NumShards
    BY <1>1, <1>2, ShardState DEF ThievesType
  <2> QED
    BY <2>1, ShardFacts DEF Sharded!StealInv, Sharded!ToVisit, Sharded!Indices
<1> QED
  BY <1>2, <1>3, <1>4, <1>5, <1>6, <1>7, TypesKept, StaysLater, ThiefMoves

\* What t knows of its own where it has no new `present`.
LEMMA ThiefKnows ==
    ASSUME ShardsAssumed, Sharded!IInv, NEW t \in Thieves, ShardsType',
           \A k \in Sharded!Indices : Later(k), present' = present
    PROVE  /\ \A k \in Sharded!Indices : Sharded!PresentUpTo(t, k, shards[k].high)'
           /\ PresentType'
BY Known, TypesKept, ShardState

\* What was present has tickets up to `high`.
LEMMA StealHighInv ==
    ASSUME ShardsAssumed, Sharded!IInv, NEW t \in Thieves, Sharded!StealHigh(t)
    PROVE  Sharded!IInv'
<1>1. /\ s_t_pc[t] = "high" /\ t_left[t] > 0
      /\ s_t_high' = [s_t_high EXCEPT ![t] = shards[s_t_i[t]].high]
      /\ s_t_pc' = [s_t_pc EXCEPT ![t] = "low"]
      /\ UNCHANGED <<shards, s_pc, s_i, next_shard_push, next_shard_pop, s_t_i, s_t_low,
                     final_ret, t_left, present>>
  BY DEF Sharded!StealHigh, Sharded!master
<1>2. s_t_i[t] \in Sharded!Indices /\ shards[s_t_i[t]].high \in Sharded!Words
  BY ShardState, ShardFacts
<1>3. ThievesType'
  BY <1>1, <1>2, ShardState DEF ThievesType, Sharded!Indices, Sharded!Words
<1>4. OnlyThief(t)
  BY <1>1, ShardState DEF OnlyThief, ThievesType
<1>5. Sharded!StealInv(t)'
  <2>1. s_t_pc'[t] = "low" /\ s_t_high'[t] = shards[s_t_i[t]].high
    BY <1>1, ShardState DEF ThievesType
  <2>2. Sharded!StealInv(t) /\ Sharded!PresentUpTo(t, s_t_i[t], shards[s_t_i[t]].high)
    BY <1>2, ShardState DEF Sharded!IInv
  <2> QED
    BY <1>1, <2>1, <2>2
    DEF Sharded!StealInv, Sharded!ToVisit, Sharded!PresentUpTo, Sharded!Lost, Sharded!Gone,
        Sharded!Tickets, Sharded!Indices
<1> QED
  BY <1>1, <1>3, <1>4, <1>5, TypesKept, StaysLater, ThiefKnows, ThiefMoves

\* The thief goes on: it has found that what was present is gone, or remembers ABORT.
LEMMA NextVisitInv ==
    ASSUME ShardsAssumed, Sharded!IInv, NEW t \in Thieves, NEW answer \in {"EMPTY", "ABORT"},
           s_t_pc[t] \in {"low", "cas"},
           answer = "EMPTY" => s_t_high[t] <= shards[s_t_i[t]].low,
           Sharded!NextVisit(t, answer),
           UNCHANGED <<shards, s_pc, s_i, next_shard_push, next_shard_pop, present>>
    PROVE  Sharded!IInv'
<1> DEFINE k == s_t_i[t]
           next == IF k + 1 = NumShards THEN 0 ELSE k + 1
<1>1. /\ Sharded!StealInv(t) /\ t_left[t] > 0 /\ t_left[t] \in 0 .. NumShards
      /\ k \in Sharded!Indices /\ Sharded!PresentUpTo(t, k, s_t_high[t])
  BY ShardState DEF Sharded!IInv, Sharded!StealInv
<1>2. (k + 1) % NumShards = next /\ next \in Sharded!Indices
  <2>1. k + 1 \in 0 .. NumShards /\ NumShards \in Nat \ {0} /\ k \in 0 .. NumShards - 1
    BY <1>1, ShardFacts
  <2>2. (k + 1) % NumShards = next
    BY <2>1, ModSmall
  <2>3. next \in 0 .. NumShards - 1
    BY <2>1
  <2> QED
    BY <2>2, <2>3, ShardFacts
<1>3. /\ final_ret' = [final_ret EXCEPT ![t] = IF answer = "ABORT" THEN "ABORT" ELSE @]
      /\ s_t_i' = [s_t_i EXCEPT ![t] = next]
      /\ t_left' = [t_left EXCEPT ![t] = t_left[t] - 1]
      /\ s_t_high' = [s_t_high EXCEPT ![t] = 0] /\ s_t_low' = [s_t_low EXCEPT ![t] = 0]
      /\ s_t_pc' = [s_t_pc EXCEPT ![t] = "high"]
  BY <1>2 DEF Sharded!NextVisit, Sharded!FinalRet
<1>4. ThievesType'
  <2>1. t_left[t] - 1 \in 0 .. NumShards
    BY <1>1, ShardFacts
  <2> HIDE DEF k, next
  <2> QED
    BY <1>2, <1>3, <2>1, ShardFacts, ShardState DEF ThievesType, Sharded!Indices, Sharded!Words
<1>5. OnlyThief(t)
  BY <1>3, ShardState DEF OnlyThief, ThievesType
<1>6. Sharded!StealInv(t)'
  <2>1. /\ s_t_pc'[t] = "high" /\ t_left'[t] = t_left[t] - 1 /\ s_t_i'[t] = next
        /\ final_ret'[t] = IF answer = "ABORT" THEN "ABORT" ELSE final_ret[t]
    BY <1>3, ShardState DEF ThievesType
  <2>2. ASSUME answer = "EMPTY", final_ret[t] = "EMPTY", NEW m \in Sharded!Indices
        PROVE  Sharded!ToVisit(m, next, t_left[t] - 1) \/ Sharded!Gone(t, m)
    <3>1. CASE m = k
      <4>1. /\ shards[k].low \in Int /\ shards[k].high \in Int /\ s_t_high[t] \in Int
            /\ present[t][k] \in Int
        BY <1>1, ShardState
      <4>2. Sharded!Gone(t, k)
        BY <1>1, <2>2, <4>1
        DEF Sharded!PresentUpTo, Sharded!Lost, Sharded!Gone, Sharded!Tickets
      <4> QED
        BY <3>1, <4>2
    <3>2. CASE m # k
      <4>1. Sharded!ToVisit(m, k, t_left[t]) \/ Sharded!Gone(t, m)
        BY <1>1, <2>2 DEF Sharded!StealInv
      <4>2. t_left[t] \in Int
        BY <1>1
      <4> QED
        BY <1>1, <3>2, <4>1, <4>2, VisitNext
    <3> QED
      BY <3>1, <3>2
  <2> QED
    BY <2>1, <2>2
    DEF Sharded!StealInv, Sharded!ToVisit, Sharded!Gone, Sharded!Tickets, Sharded!Indices
<1> QED
  BY <1>4, <1>5, <1>6, TypesKept, StaysLater, ThiefKnows, ThiefMoves

LEMMA StealLowInv ==
    ASSUME ShardsAssumed, Sharded!IInv, NEW t \in Thieves, Sharded!StealLow(t)
    PROVE  Sharded!IInv'
<1>1. /\ s_t_pc[t] = "low"
      /\ UNCHANGED <<shards, s_pc, s_i, next_shard_push, next_shard_pop, present>>
  BY DEF Sharded!StealLow, Sharded!master
<1>2. CASE s_t_high[t] <= shards[s_t_i[t]].low /\ Sharded!NextVisit(t, "EMPTY")
  BY <1>1, <1>2, NextVisitInv
<1>3. CASE ~(s_t_high[t] <= shards[s_t_i[t]].low /\ Sharded!NextVisit(t, "EMPTY"))
  <2>1. /\ s_t_high[t] > shards[s_t_i[t]].low
        /\ s_t_low' = [s_t_low EXCEPT ![t] = shards[s_t_i[t]].low]
        /\ s_t_pc' = [s_t_pc EXCEPT ![t] = "cas"]
        /\ UNCHANGED <<s_t_i, s_t_high, final_ret, t_left>>
    BY <1>3 DEF Sharded!StealLow
  <2>2. /\ shards[s_t_i[t]].low \in Sharded!Words
        /\ shards[s_t_i[t]].low \in Int /\ s_t_high[t] \in Int
    BY ShardState, ShardFacts
  <2>3. ThievesType'
    BY <2>1, <2>2, ShardState DEF ThievesType, Sharded!Indices, Sharded!Words
  <2>4. OnlyThief(t)
    BY <1>1, <2>1, ShardState DEF OnlyThief, ThievesType
  <2>5. Sharded!StealInv(t)'
    <3>1. s_t_pc'[t] = "cas" /\ s_t_low'[t] < s_t_high[t]
      BY <2>1, <2>2, ShardState DEF ThievesType
    <3>2. Sharded!StealInv(t)
      BY DEF Sharded!IInv
    <3> QED
      BY <1>1, <2>1, <3>1, <3>2
      DEF Sharded!StealInv, Sharded!ToVisit, Sharded!PresentUpTo, Sharded!Lost, Sharded!Gone,
          Sharded!Tickets, Sharded!Indices
  <2> QED
    BY <1>1, <2>3, <2>4, <2>5, TypesKept, StaysLater, ThiefKnows, ThiefMoves
<1> QED
  BY <1>2, <1>3

\* A thief that has returned has no locals and nothing present.
LEMMA StealReturnsFacts ==
    ASSUME ShardsAssumed, Sharded!IInv, NEW t \in Thieves, Sharded!StealReturns(t), ShardsType'
    PROVE  /\ ThievesType' /\ OnlyThief(t) /\ Sharded!StealInv(t)' /\ PresentType'
           /\ \A k \in Sharded!Indices : Sharded!PresentUpTo(t, k, shards[k].high)'
<1>1. ThievesType'
  BY ShardState, ShardFacts
  DEF Sharded!StealReturns, ThievesType, Sharded!Indices, Sharded!Words
<1>2. PresentType' /\ present'[t] = Sharded!NoTickets
  <2>1. Sharded!NoTickets \in [Sharded!Indices -> Sharded!Words]
    BY ShardFacts DEF Sharded!NoTickets
  <2> QED
    BY <2>1, ShardState
    DEF Sharded!StealReturns, PresentType, Sharded!Callers, Sharded!Indices, Sharded!Words
<1>3. OnlyThief(t)
  BY ShardState DEF Sharded!StealReturns, OnlyThief, ThievesType, PresentType
<1>4. Sharded!StealInv(t)'
  <2>1. s_t_pc'[t] = "idle"
    BY ShardState DEF Sharded!StealReturns, ThievesType
  <2> QED
    BY <2>1 DEF Sharded!StealInv
<1>5. ASSUME NEW k \in Sharded!Indices
      PROVE  Sharded!PresentUpTo(t, k, shards[k].high)'
  <2>1. shards'[k].high \in 0 .. UlongModulus - 1 /\ present'[t][k] = 0
    BY <1>2, ShardFacts DEF ShardsType, Sharded!Indices, Sharded!Words, Sharded!NoTickets
  <2> QED
    BY <2>1 DEF Sharded!PresentUpTo
<1> QED
  BY <1>1, <1>2, <1>3, <1>4, <1>5

LEMMA StealReturnsFinalInv ==
    ASSUME ShardsAssumed, Sharded!IInv, NEW t \in Thieves, Sharded!StealReturnsFinal(t)
    PROVE  Sharded!IInv'
<1>1. /\ Sharded!StealReturns(t)
      /\ UNCHANGED <<shards, s_pc, s_i, next_shard_push, next_shard_pop>>
  BY DEF Sharded!StealReturnsFinal, Sharded!master
<1> QED
  BY <1>1, StealReturnsFacts, TypesKept, StaysLater, ThiefMoves

\* The ticket is below the `high` that was read, and `low` does not wrap around.
LEMMA StealCASInv ==
    ASSUME ShardsAssumed, Sharded!IInv, NEW t \in Thieves, Sharded!StealCAS(t)
    PROVE  Sharded!IInv'
<1>1. /\ s_t_pc[t] = "cas" /\ s_t_i[t] \in Sharded!Indices
      /\ UNCHANGED <<s_pc, s_i, next_shard_push, next_shard_pop>>
  BY ShardState DEF Sharded!StealCAS, Sharded!master
<1>2. CASE shards[s_t_i[t]].low # s_t_low[t]
  BY <1>1, <1>2, NextVisitInv DEF Sharded!StealCAS
<1>3. CASE shards[s_t_i[t]].low = s_t_low[t]
  <2>1. /\ Sharded!StealReturns(t)
        /\ shards' = [shards EXCEPT ![s_t_i[t]].low = @ + 1]
    BY <1>3 DEF Sharded!StealCAS
  <2>2. shards[s_t_i[t]].low < UlongModulus - 1
    <3>1. s_t_low[t] < s_t_high[t]
      BY <1>1 DEF Sharded!IInv, Sharded!StealInv
    <3> QED
      BY <1>3, <3>1, ShardState, ShardFacts
  <2>3. ShardsType' /\ \A k \in Sharded!Indices : Later(k)
    BY <1>1, <2>1, <2>2, TakeLater
  <2> QED
    BY <1>1, <2>1, <2>3, StealReturnsFacts, ThiefMoves
<1> QED
  BY <1>2, <1>3

\* A step that is undefined, or none at all, leaves everything but s_pc alone.
LEMMA StrayedInv ==
    ASSUME ShardsAssumed, Sharded!IInv, s_pc' \in {s_pc, "undefined"},
           UNCHANGED <<shards, s_i, next_shard_push, next_shard_pop, present, s_t_pc, s_t_i,
                       t_left, s_t_high, s_t_low, final_ret>>
    PROVE  Sharded!IInv'
<1>1. MasterType'
  BY ShardState DEF MasterType, Sharded!Indices
<1>2. Sharded!PopInv'
  <2>1. CASE s_pc' = "undefined"
    BY <2>1 DEF Sharded!PopInv
  <2>2. CASE s_pc' = s_pc
    BY <2>2
    DEF Sharded!IInv, Sharded!PopInv, Sharded!ToVisit, Sharded!Gone, Sharded!Tickets,
        Sharded!Indices
  <2> QED
    BY <2>1, <2>2
<1> QED
  BY <1>1, <1>2, TypesKept, StaysLater, MasterMoves

LEMMA ShardsNextInv ==
    ASSUME ShardsAssumed, Sharded!IInv, [Sharded!Next]_(Sharded!vars)
    PROVE  Sharded!IInv'
<1>1. CASE UNCHANGED Sharded!vars \/ Sharded!Undefined
  BY <1>1, StrayedInv DEF Sharded!Undefined, Sharded!vars, Sharded!master, Sharded!thieves
<1>2. CASE Sharded!MasterRuns
  <2>1. CASE Sharded!MasterStrays
    BY <2>1, StrayedInv DEF Sharded!MasterStrays, Sharded!thieves
  <2> QED
    BY <1>2, <2>1, PushShardInv, PopShardInv, ReturnsZeroInv DEF Sharded!MasterRuns
<1>3. CASE Sharded!PopCall \/ Sharded!PushCall
  BY <1>3, MasterCallInv
<1>4. ASSUME NEW t \in Thieves, Sharded!StealStep(t)
      PROVE  Sharded!IInv'
  <2>1. CASE Sharded!StealStrays(t)
    BY <2>1, StrayedInv DEF Sharded!StealStrays, Sharded!thieves
  <2> QED
    BY <1>4, <2>1, StealCallInv, StealHighInv, StealLowInv, StealCASInv, StealReturnsFinalInv
    DEF Sharded!StealStep
<1> QED
  BY <1>1, <1>2, <1>3, <1>4 DEF Sharded!Next

\* Whatever create has left in the memory of the shards, `low` and `high` keep what every
\* call relies on that looks at one shard after the other: a ticket that was there when it
\* began is still there, is gone, or is in a shard that the call has still to come to.
THEOREM ShardsInvariant == ASSUME ShardsAssumed PROVE Sharded!Spec => []Sharded!IInv
<1>1. Sharded!IInv /\ [Sharded!Next]_(Sharded!vars) => Sharded!IInv'
  BY ShardsNextInv
<1> QED
  BY <1>1, ShardsInitInv, PTL DEF Sharded!Spec

\* A sharded_fifo_steal_buffer_pop about to return 0 and a _steal about to return EMPTY
\* leave nothing behind that was there when they were called.
THEOREM EmptyAnswersCorrect == ASSUME ShardsAssumed PROVE Sharded!Spec => []Sharded!EmptyIsHonest
<1>1. ASSUME Sharded!IInv PROVE Sharded!EmptyIsHonest
  <2>1. \A k, from \in Sharded!Indices : ~Sharded!ToVisit(k, from, 0)
    BY ShardFacts DEF Sharded!ToVisit
  <2>2. ASSUME s_pc = "pop", s_i = NumShards
        PROVE  \A k \in Sharded!Indices : Sharded!Gone("master", k)
    <3>1. NumShards - s_i = 0 /\ next_shard_pop \in Sharded!Indices
      BY <1>1, <2>2, ShardFacts, ShardState DEF MasterType
    <3> QED
      BY <1>1, <2>1, <2>2, <3>1 DEF Sharded!IInv, Sharded!PopInv
  <2>3. ASSUME NEW t \in Thieves, s_t_pc[t] = "high", t_left[t] = 0, final_ret[t] = "EMPTY"
        PROVE  \A k \in Sharded!Indices : Sharded!Gone(t, k)
    BY <1>1, <2>1, <2>3, ShardState DEF Sharded!IInv, Sharded!StealInv
  <2> QED
    BY <2>2, <2>3 DEF Sharded!EmptyIsHonest
<1> QED
  BY <1>1, ShardsInvariant, PTL

=============================================================================
