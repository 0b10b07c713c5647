---------------------- MODULE WorkStealingDequeProofs ----------------------
(***************************************************************************)
(* Proofs about work_stealing_deque.c with a store_load_barrier that is a  *)
(* fence, for every number of thieves, every set of items, every first     *)
(* size, any number of growths and every size of the store buffer.         *)
(***************************************************************************)
EXTENDS WorkStealingDeque, SequenceTheorems, NaturalsInduction,
        WellFoundedInduction, TLAPS

\* Division with remainder by a positive S.
LEMMA DivMod ==
    ASSUME NEW S \in Nat \ {0}, NEW a \in Nat
    PROVE  /\ a \div S \in Int
           /\ a % S \in 0 .. S - 1
           /\ a = S * (a \div S) + (a % S)
OBVIOUS

\* Multiplication distributes over subtraction.
LEMMA TimesMinus ==
    ASSUME NEW S \in Int, NEW j \in Int, NEW k \in Int
    PROVE  S * (k - j) = S * k - S * j
OBVIOUS

\* A non-zero multiple of S is at least S away from 0.
LEMMA MultipleGap ==
    ASSUME NEW S \in Nat \ {0}, NEW k \in Int
    PROVE  /\ k >= 1 => S * k >= S
           /\ k <= 0 => S * k <= 0
           /\ k <= -1 => S * k <= -S
OBVIOUS

\* Two different tickets less than S apart are in different slots.
LEMMA ModDistinct ==
    ASSUME NEW S \in Nat \ {0}, NEW a \in Nat, NEW b \in Nat, a < b, b - a < S
    PROVE  a % S # b % S
<1> SUFFICES ASSUME a % S = b % S PROVE FALSE
  OBVIOUS
<1> DEFINE d == (b \div S) - (a \div S)
<1>1. S * d = b - a
  BY DivMod, TimesMinus
<1>2. d \in Int
  BY DivMod
<1> HIDE DEF d
<1>3. QED
  BY <1>1, <1>2, MultipleGap

-----------------------------------------------------------------------------
(* The inductive invariant.                                                *)

\* The index behind the newest item; an item a pop has reached for, and whose fate
\* the load of `top` or the CAS will decide, is still in the deque.
End == IF o_pc = "idle" THEN o_bottom ELSE o_bottom + 1

IsCell(j) == sb[j].to = "cell"
IsBottom(j) == sb[j].to = "bottom"
IsArray(j) == sb[j].to = "array"
Buffered == 1 .. Len(sb)

\* The item at index i is not in memory yet.
Unpublished(i) == \E j \in Buffered : IsCell(j) /\ sb[j].index = i

\* What the owner and memory disagree about is in the store buffer.
IndicesInv ==
    /\ top <= End /\ End - top < ArraySize(o_array)
    /\ bottom <= End
    /\ array <= o_array
    /\ array = o_array \/ \E j \in Buffered : IsArray(j) /\ sb[j].index = o_array
    /\ o_pc = "pop_top" =>
          IF sb = <<>> THEN bottom = o_bottom
          ELSE IsBottom(Len(sb)) /\ sb[Len(sb)].index = o_bottom
    /\ o_pc = "pop_cas" =>
          sb = <<>> /\ bottom = o_bottom /\ o_t = o_bottom /\ o_t <= top

\* A buffered item is one of the deque, goes to an array thieves can reach when it
\* gets there, and is followed by all newer ones.
BufferInv ==
    \A j \in Buffered :
        /\ IsBottom(j) => sb[j].index <= End
        /\ IsArray(j) => array < sb[j].index /\ sb[j].index <= o_array
        /\ IsCell(j) =>
              /\ top <= sb[j].index /\ sb[j].index < End
              /\ sb[j].index - top < ArraySize(sb[j].array)
              /\ bottom <= sb[j].index
              /\ sb[j].array <= o_array
              /\ \/ sb[j].array <= array
                 \/ \E m \in 1 .. j - 1 : IsArray(m) /\ sb[m].index = sb[j].array
              /\ \A i \in sb[j].index .. End - 1 : Unpublished(i)

\* The stores are in the order of the pushes and growths that made them.
OrderInv ==
    \A j, m \in Buffered :
        j < m =>
            /\ IsBottom(j) /\ IsCell(m) => sb[j].index <= sb[m].index
            /\ IsCell(j) /\ IsCell(m) =>
                  sb[j].index < sb[m].index /\ sb[j].array <= sb[m].array
            /\ IsArray(j) /\ IsArray(m) => sb[j].index < sb[m].index

\* Items differ; what was stolen or taken was pushed.
HistoryInv ==
    /\ \A m, n \in 1 .. Len(pushed) : pushed[m] = pushed[n] => m = n
    /\ \A v \in Values : (\A n \in 1 .. Len(pushed) : pushed[n] # v) => taken[v] = 0
    /\ \A m \in 1 .. Len(stolen) : \E n \in 1 .. Len(pushed) : stolen[m] = pushed[n]
    /\ StealsInPushOrder

\* The deque holds the pushes with numbers pos[top], ..., pos[End - 1], oldest first;
\* every other pushed item has been taken once, the stolen ones before these.
DequeHolds(pos) ==
    /\ \A i, j \in top .. End - 1 : i < j => pos[i] < pos[j]
    /\ \A n \in 1 .. Len(pushed) :
          taken[pushed[n]] = IF \E i \in top .. End - 1 : pos[i] = n THEN 0 ELSE 1
    /\ \A m \in 1 .. Len(stolen), i \in top .. End - 1 : Position(stolen[m]) < pos[i]

\* The arrays from the one thieves start from to the owner's have the items that
\* are published; the newer arrays have those still on the way to an older one.
ArraysHold(pos) ==
    /\ \A i \in top .. End - 1, k \in array .. o_array :
          ~Unpublished(i) => cells[k][Cell(k, i)] = pushed[pos[i]]
    /\ \A j \in Buffered :
          IsCell(j) =>
              /\ sb[j].value = pushed[pos[sb[j].index]]
              /\ \A k \in sb[j].array + 1 .. o_array :
                    cells[k][Cell(k, sb[j].index)] = pushed[pos[sb[j].index]]

\* A thief that has seen an item at its `t` while `top` is still there has seen a
\* published one, and reads it wherever the array it looks at has gone.
SeesItem(t) ==
    /\ t_pc[t] \in {"steal_array", "steal_cell", "steal_cas"}
    /\ t_top[t] < t_bottom[t]
    /\ t_top[t] = top

ThievesInv ==
    \A t \in Thieves :
        /\ t_pc[t] # "idle" => t_top[t] <= top
        /\ t_pc[t] \in {"steal_cell", "steal_cas"} =>
              t_top[t] < t_bottom[t] /\ t_array[t] <= o_array
        /\ SeesItem(t) => top < End /\ ~Unpublished(top)

ThievesHold(pos) ==
    \A t \in Thieves :
        SeesItem(t) =>
            /\ t_pc[t] = "steal_cell" =>
                  cells[t_array[t]][Cell(t_array[t], top)] = pushed[pos[top]]
            /\ t_pc[t] = "steal_cas" => t_val[t] = pushed[pos[top]]

Holds(pos) == DequeHolds(pos) /\ ArraysHold(pos) /\ ThievesHold(pos)

IInv ==
    /\ TypeOK /\ IndicesInv /\ BufferInv /\ OrderInv /\ HistoryInv /\ ThievesInv
    /\ \E pos \in [top .. End - 1 -> 1 .. Len(pushed)] : Holds(pos)

-----------------------------------------------------------------------------
(* Sizes of the arrays, and which indices share a cell.                    *)

\* A set of natural numbers that is not empty has a least element.
LEMMA LeastNat ==
    ASSUME NEW S \in SUBSET Nat, S # {}
    PROVE  \E m \in S : \A n \in S : m <= n
<1> DEFINE R == OpToRel(<, Nat)
<1>1. IsWellFoundedOn(R, Nat)
  BY NatLessThanWellFounded
<1>2. PICK m \in S : \A y \in S : ~(<<y, m>> \in R)
  <2> HIDE DEF R
  <2> QED
    BY <1>1, WFMin
<1>3. \A y \in S : ~(y < m)
  BY <1>2 DEF OpToRel
<1>4. QED
  BY <1>3

\* 1 << n doubles from one n to the next.
LEMMA TwoToStep ==
    \A n \in Nat : TwoTo[n] = IF n = 0 THEN 1 ELSE 2 * TwoTo[n - 1]
<1> DEFINE Double(v, n) == 2 * v
<1>1. NatInductiveDefHypothesis(TwoTo, 1, Double)
  BY DEF NatInductiveDefHypothesis, TwoTo
<1>2. NatInductiveDefConclusion(TwoTo, 1, Double)
  BY <1>1, NatInductiveDef
<1>3. QED
  BY <1>2 DEF NatInductiveDefConclusion

\* 1 << n is a positive number: there is no least n for which it is not.
LEMMA TwoToPositive == \A n \in Nat : TwoTo[n] \in Nat \ {0}
<1> DEFINE S == {n \in Nat : TwoTo[n] \notin Nat \ {0}}
<1> SUFFICES ASSUME S # {} PROVE FALSE
  OBVIOUS
<1>1. PICK m \in S : \A n \in S : m <= n
  BY LeastNat
<1>2. m # 0
  BY TwoToStep
<1>3. m - 1 \in Nat /\ m - 1 \notin S
  BY <1>1, <1>2
<1>4. TwoTo[m - 1] \in Nat \ {0}
  BY <1>3
<1>5. QED
  BY <1>1, <1>2, <1>4, TwoToStep

\* wsd_circular_array_grow doubles the size.
LEMMA Sizes ==
    ASSUME NEW k \in Nat
    PROVE  ArraySize(k) \in Nat \ {0} /\ ArraySize(k + 1) = 2 * ArraySize(k)
<1>1. InitLog + k \in Nat /\ InitLog + (k + 1) \in Nat \ {0}
      /\ InitLog + (k + 1) - 1 = InitLog + k
  BY BoundsAssumption
<1>2. ArraySize(k) \in Nat \ {0}
  BY <1>1, TwoToPositive DEF ArraySize
<1>3. ASSUME NEW m \in Nat, NEW n \in Nat, n # 0, n - 1 = m
      PROVE  TwoTo[n] = 2 * TwoTo[m]
  BY <1>3, TwoToStep
<1>4. TwoTo[InitLog + (k + 1)] = 2 * TwoTo[InitLog + k]
  BY <1>1, <1>3, BoundsAssumption
<1>5. QED
  BY <1>2, <1>4 DEF ArraySize

\* Indices are masked into the array, and two that are closer than its size get
\* different cells.
LEMMA Cells ==
    ASSUME NEW k \in Nat, NEW i \in Nat
    PROVE  /\ Cell(k, i) \in 0 .. ArraySize(k) - 1
           /\ \A j \in Nat : i < j /\ j - i < ArraySize(k) => Cell(k, i) # Cell(k, j)
<1>1. ArraySize(k) \in Nat \ {0}
  BY Sizes
<1>2. QED
  BY <1>1, DivMod, ModDistinct DEF Cell

-----------------------------------------------------------------------------
(* The store buffer.                                                       *)

\* What a buffered store is.
LEMMA StoreType ==
    ASSUME NEW s \in Stores
    PROVE  /\ s.to \in {"bottom", "array", "cell"}
           /\ s.to = "bottom" => s.index \in Nat \cup {-1}
           /\ s.to = "array" => s.index \in Arrays
           /\ s.to = "cell" => s.array \in Arrays /\ s.index \in Nat /\ s.value \in Items
BY DEF Stores

LEMMA BottomStoreType ==
    ASSUME NEW b \in Nat \cup {-1}
    PROVE  /\ BottomStore(b) \in Stores
           /\ BottomStore(b).to = "bottom" /\ BottomStore(b).index = b
BY DEF BottomStore, Stores

LEMMA ArrayStoreType ==
    ASSUME NEW k \in Arrays
    PROVE  /\ ArrayStore(k) \in Stores
           /\ ArrayStore(k).to = "array" /\ ArrayStore(k).index = k
BY DEF ArrayStore, Stores

LEMMA CellStoreType ==
    ASSUME NEW k \in Arrays, NEW i \in Nat, NEW v \in Items
    PROVE  /\ CellStore(k, i, v) \in Stores
           /\ CellStore(k, i, v).to = "cell" /\ CellStore(k, i, v).array = k
           /\ CellStore(k, i, v).index = i /\ CellStore(k, i, v).value = v
BY DEF CellStore, Stores

\* The types of the stores in the buffer.
LEMMA BufferType ==
    ASSUME TypeOK
    PROVE  /\ Len(sb) \in Nat
           /\ \A j \in Buffered :
                 /\ sb[j] \in Stores
                 /\ IsBottom(j) \/ IsArray(j) \/ IsCell(j)
                 /\ IsBottom(j) => sb[j].index \in Nat \cup {-1}
                 /\ IsArray(j) => sb[j].index \in Nat
                 /\ IsCell(j) => /\ sb[j].array \in Arrays /\ sb[j].array \in Nat
                                 /\ sb[j].index \in Nat /\ sb[j].value \in Items
<1>1. Len(sb) \in Nat /\ \A j \in Buffered : sb[j] \in Stores
  BY DEF TypeOK, Buffered
<1>2. Arrays \subseteq Nat
  BY BoundsAssumption DEF Arrays
<1>3. QED
  BY <1>1, <1>2, StoreType DEF IsBottom, IsArray, IsCell

\* The types of the indices.
LEMMA IndexType ==
    ASSUME TypeOK, IndicesInv
    PROVE  /\ top \in Nat /\ End \in Nat /\ bottom \in Int
           /\ o_bottom \in Nat \cup {-1} /\ o_bottom \in Int
           /\ array \in Nat /\ o_array \in Nat /\ o_array \in Arrays
           /\ top <= End /\ End - top < ArraySize(o_array)
           /\ ArraySize(o_array) \in Nat \ {0}
           /\ Len(pushed) \in Nat
<1>1. /\ top \in Nat /\ bottom \in Int /\ o_bottom \in Nat \cup {-1} /\ o_bottom \in Int
      /\ array \in Nat /\ o_array \in Nat /\ o_array \in Arrays
      /\ Len(pushed) \in Nat
  BY BoundsAssumption DEF TypeOK, Arrays
<1>2. End \in Int /\ top <= End /\ End - top < ArraySize(o_array)
  BY <1>1 DEF End, IndicesInv
<1>3. QED
  BY <1>1, <1>2, Sizes

\* Pushed items differ, so the position of the n-th is n.
LEMMA PositionOf ==
    ASSUME HistoryInv, NEW n \in 1 .. Len(pushed)
    PROVE  Position(pushed[n]) = n
BY DEF HistoryInv, Position

\* A step that neither pushes nor steals may still take an item that was pushed.
LEMMA HistoryKept ==
    ASSUME HistoryInv, UNCHANGED <<pushed, stolen>>,
           \/ taken' = taken
           \/ \A v \in Values : (\A n \in 1 .. Len(pushed) : pushed[n] # v) => taken'[v] = 0
    PROVE  HistoryInv'
<1>1. \A v : Position(v)' = Position(v)
  BY DEF Position
<1>2. StealsInPushOrder'
  BY <1>1 DEF HistoryInv, StealsInPushOrder
<1>3. \A v \in Values : (\A n \in 1 .. Len(pushed) : pushed[n] # v) => taken'[v] = 0
  BY DEF HistoryInv
<1>4. QED
  BY <1>2, <1>3 DEF HistoryInv

\* The owner reads every item of the deque, in memory or in its buffer.
LEMMA OwnerReads ==
    ASSUME TypeOK, IndicesInv, BufferInv, OrderInv,
           NEW pos, ArraysHold(pos), NEW i \in top .. End - 1
    PROVE  OwnerGet(o_array, i) = pushed[pos[i]]
<1> DEFINE mine == {j \in 1 .. Len(sb) : sb[j].to = "cell" /\ sb[j].array = o_array
                                         /\ Cell(o_array, sb[j].index) = Cell(o_array, i)}
<1>1. i \in Nat
  BY IndexType
<1>2. ASSUME NEW j \in mine
      PROVE  j \in Buffered /\ IsCell(j) /\ sb[j].array = o_array /\ sb[j].index = i
  <2>1. j \in Buffered /\ IsCell(j) /\ sb[j].array = o_array
        /\ Cell(o_array, sb[j].index) = Cell(o_array, i)
    BY DEF Buffered, IsCell
  <2>2. sb[j].index \in top .. End - 1 /\ sb[j].index \in Nat
    BY <2>1, BufferType, IndexType DEF BufferInv
  <2>3. ASSUME NEW x \in Nat, NEW y \in Nat, x < y, top <= x, y < End
        PROVE  Cell(o_array, x) # Cell(o_array, y)
    <3>1. y - x < ArraySize(o_array)
      BY SMTT(60), <2>3, IndexType
    <3>2. QED
      BY <2>3, <3>1, IndexType, Cells
  <2>4. top <= i /\ i < End /\ top <= sb[j].index /\ sb[j].index < End
    BY SMTT(60), <2>2, IndexType
  <2>5. ~(sb[j].index < i) /\ ~(i < sb[j].index)
    BY <1>1, <2>1, <2>2, <2>3, <2>4
  <2>6. QED
    BY <1>1, <2>1, <2>2, <2>5
<1>3. ASSUME NEW j \in mine, NEW m \in mine
      PROVE  j = m
  BY <1>1, <1>2, BufferType DEF OrderInv, Buffered
<1>4. CASE mine = {}
  <2>1. OwnerGet(o_array, i) = cells[o_array][Cell(o_array, i)]
    BY <1>4 DEF OwnerGet
  <2>2. CASE Unpublished(i)
    <3>1. PICK j \in Buffered : IsCell(j) /\ sb[j].index = i
      BY <2>2 DEF Unpublished
    <3>2. sb[j].array # o_array
      BY <1>4, <3>1 DEF Buffered, IsCell
    <3>3. sb[j].array \in Nat /\ sb[j].array <= o_array
      BY <3>1, BufferType DEF BufferInv
    <3>4. o_array \in sb[j].array + 1 .. o_array
      BY SMTT(60), <3>2, <3>3, IndexType
    <3>5. QED
      BY <2>1, <3>1, <3>4 DEF ArraysHold
  <2>3. CASE ~Unpublished(i)
    <3>1. o_array \in array .. o_array
      BY IndexType DEF IndicesInv
    <3>2. QED
      BY <2>1, <2>3, <3>1 DEF ArraysHold
  <2>4. QED
    BY <2>2, <2>3
<1>5. CASE mine # {}
  <2>1. PICK j \in mine : TRUE
    BY <1>5
  <2>2. (CHOOSE n \in mine : \A m \in mine : m <= n) = j
    <3>1. mine = {j} /\ j \in Int
      BY <1>3, <2>1
    <3> HIDE DEF mine
    <3>2. QED
      BY <3>1
  <2>3. OwnerGet(o_array, i) = sb[j].value
    BY <1>5, <2>2 DEF OwnerGet
  <2>4. QED
    BY <1>2, <2>1, <2>3 DEF ArraysHold
<1>6. QED
  BY <1>4, <1>5

-----------------------------------------------------------------------------
(* The thieves' loads.                                                     *)

\* What a step that leaves the deque, the owner and the history alone leaves true.
LEMMA DequeUnchanged ==
    ASSUME UNCHANGED <<memory, sb, owner, history>>
    PROVE  /\ End' = End
           /\ \A j : IsCell(j)' = IsCell(j) /\ IsBottom(j)' = IsBottom(j)
                     /\ IsArray(j)' = IsArray(j)
           /\ \A i : Unpublished(i)' = Unpublished(i)
           /\ IndicesInv => IndicesInv'
           /\ BufferInv => BufferInv'
           /\ OrderInv => OrderInv'
           /\ HistoryInv => HistoryInv'
           /\ \A pos : DequeHolds(pos) /\ ArraysHold(pos)
                          => DequeHolds(pos)' /\ ArraysHold(pos)'
<1>1. /\ top' = top /\ bottom' = bottom /\ array' = array /\ cells' = cells /\ sb' = sb
      /\ o_pc' = o_pc /\ o_bottom' = o_bottom /\ o_array' = o_array /\ o_t' = o_t
      /\ pushed' = pushed /\ taken' = taken /\ stolen' = stolen
  BY DEF memory, owner, history
<1>2. End' = End
  BY <1>1 DEF End
<1>3. \A j : IsCell(j)' = IsCell(j) /\ IsBottom(j)' = IsBottom(j) /\ IsArray(j)' = IsArray(j)
  BY <1>1 DEF IsCell, IsBottom, IsArray
<1>4. Buffered' = Buffered /\ \A i : Unpublished(i)' = Unpublished(i)
  BY <1>1, <1>3 DEF Unpublished, Buffered
<1>5. IndicesInv => IndicesInv'
  BY <1>1, <1>2, <1>3, <1>4 DEF IndicesInv
<1>6. BufferInv => BufferInv'
  BY <1>1, <1>2, <1>3, <1>4 DEF BufferInv
<1>7. OrderInv => OrderInv'
  BY <1>1, <1>3, <1>4 DEF OrderInv
<1>8. \A v : Position(v)' = Position(v)
  BY <1>1 DEF Position
<1>9. HistoryInv => HistoryInv'
  BY <1>1, <1>8 DEF HistoryInv, StealsInPushOrder
<1>10. ASSUME NEW pos, DequeHolds(pos), ArraysHold(pos)
       PROVE  DequeHolds(pos)' /\ ArraysHold(pos)'
  <2>1. DequeHolds(pos)'
    BY <1>1, <1>2, <1>8, <1>10 DEF DequeHolds
  <2>2. ArraysHold(pos)'
    BY <1>1, <1>2, <1>3, <1>4, <1>10 DEF ArraysHold
  <2>3. QED
    BY <2>1, <2>2
<1>11. QED
  BY <1>2, <1>3, <1>4, <1>5, <1>6, <1>7, <1>9, <1>10

\* A thief's load: what is left to show is the thieves' own state.
LEMMA ThiefStep ==
    ASSUME IInv, UNCHANGED <<memory, sb, owner, history>>, TypeOK', ThievesInv',
           \A pos : Holds(pos) => ThievesHold(pos)'
    PROVE  IInv'
<1>1. IndicesInv' /\ BufferInv' /\ OrderInv' /\ HistoryInv'
  BY DequeUnchanged DEF IInv
<1>2. PICK pos \in [top .. End - 1 -> 1 .. Len(pushed)] : Holds(pos)
  BY DEF IInv
<1>3. Holds(pos)'
  BY <1>2, DequeUnchanged DEF Holds
<1>4. pos \in [top' .. End' - 1 -> 1 .. Len(pushed')]
  BY <1>2, DequeUnchanged DEF memory, history
<1>5. QED
  BY <1>1, <1>3, <1>4 DEF IInv

LEMMA StealReadTopInv ==
    ASSUME IInv, NEW t \in Thieves, StealReadTop(t)
    PROVE  IInv'
<1> USE DEF IInv
<1>1. /\ UNCHANGED <<memory, sb, owner, history>>
      /\ UNCHANGED <<t_bottom, t_array, t_val>> /\ UNCHANGED <<top, cells, pushed, o_array>>
  BY DEF StealReadTop, memory, owner, history
<1>2. /\ t_pc' = [t_pc EXCEPT ![t] = "steal_bottom"]
      /\ t_top' = [t_top EXCEPT ![t] = top]
  BY DEF StealReadTop
<1>3. TypeOK'
  BY <1>1, <1>2 DEF TypeOK, memory, owner, history, Buffered
<1>4. \A u \in Thieves : SeesItem(u)' => u # t /\ SeesItem(u)
  BY <1>1, <1>2 DEF SeesItem, TypeOK
<1>5. ThievesInv'
  <2> SUFFICES ASSUME NEW u \in Thieves
               PROVE  /\ t_pc'[u] # "idle" => t_top'[u] <= top'
                      /\ t_pc'[u] \in {"steal_cell", "steal_cas"} =>
                            t_top'[u] < t_bottom'[u] /\ t_array'[u] <= o_array'
                      /\ SeesItem(u)' => top' < End' /\ ~Unpublished(top)'
    BY DEF ThievesInv
  <2>1. SeesItem(u)' => top' < End' /\ ~Unpublished(top)'
    BY <1>1, <1>4, DequeUnchanged DEF ThievesInv
  <2>2. QED
    BY <1>1, <1>2, <2>1 DEF ThievesInv, TypeOK
<1>6. ASSUME NEW pos, Holds(pos)
      PROVE  ThievesHold(pos)'
  BY <1>1, <1>2, <1>4, <1>6 DEF ThievesHold, Holds, TypeOK
<1>7. QED
  BY <1>1, <1>3, <1>5, <1>6, ThiefStep

\* An index below the `bottom` in memory is published: its cell was stored before.
LEMMA BelowBottom ==
    ASSUME TypeOK, IndicesInv, BufferInv, top < bottom
    PROVE  top < End /\ ~Unpublished(top)
BY BufferType, IndexType DEF BufferInv, IndicesInv, Unpublished

LEMMA StealReadBottomInv ==
    ASSUME IInv, NEW t \in Thieves, StealReadBottom(t)
    PROVE  IInv'
<1> USE DEF IInv
<1>1. /\ UNCHANGED <<memory, sb, owner, history>>
      /\ UNCHANGED <<t_top, t_array, t_val>> /\ UNCHANGED <<top, cells, pushed, o_array>>
  BY DEF StealReadBottom, memory, owner, history
<1>2. /\ t_pc[t] = "steal_bottom"
      /\ t_pc' = [t_pc EXCEPT ![t] = "steal_array"]
      /\ t_bottom' = [t_bottom EXCEPT ![t] = bottom]
  BY DEF StealReadBottom
<1>3. TypeOK'
  BY <1>1, <1>2 DEF TypeOK, memory, owner, history, Buffered
<1>4. \A u \in Thieves : SeesItem(u)' => IF u = t THEN top < bottom ELSE SeesItem(u)
  BY <1>1, <1>2 DEF SeesItem, TypeOK
<1>5. ThievesInv'
  <2> SUFFICES ASSUME NEW u \in Thieves
               PROVE  /\ t_pc'[u] # "idle" => t_top'[u] <= top'
                      /\ t_pc'[u] \in {"steal_cell", "steal_cas"} =>
                            t_top'[u] < t_bottom'[u] /\ t_array'[u] <= o_array'
                      /\ SeesItem(u)' => top' < End' /\ ~Unpublished(top)'
    BY DEF ThievesInv
  <2>1. SeesItem(u)' => top' < End' /\ ~Unpublished(top)'
    BY <1>1, <1>4, DequeUnchanged, BelowBottom DEF ThievesInv
  <2>2. QED
    BY <1>1, <1>2, <2>1 DEF ThievesInv, TypeOK
<1>6. ASSUME NEW pos, Holds(pos)
      PROVE  ThievesHold(pos)'
  BY <1>1, <1>2, <1>4, <1>6 DEF ThievesHold, Holds, TypeOK
<1>7. QED
  BY <1>1, <1>3, <1>5, <1>6, ThiefStep

LEMMA StealReadCellInv ==
    ASSUME IInv, NEW t \in Thieves, StealReadCell(t)
    PROVE  IInv'
<1> USE DEF IInv
<1>1. /\ UNCHANGED <<memory, sb, owner, history>>
      /\ UNCHANGED <<t_top, t_bottom, t_array>> /\ UNCHANGED <<top, cells, pushed, o_array>>
  BY DEF StealReadCell, memory, owner, history
<1>2. /\ t_pc[t] = "steal_cell"
      /\ t_pc' = [t_pc EXCEPT ![t] = "steal_cas"]
      /\ t_val' = [t_val EXCEPT ![t] = cells[t_array[t]][Cell(t_array[t], t_top[t])]]
  BY DEF StealReadCell
<1>3. TypeOK'
  <2>1. t_array[t] \in Arrays /\ t_array[t] \in Nat /\ t_top[t] \in Nat
    BY BoundsAssumption DEF TypeOK, Arrays
  <2>2. cells[t_array[t]][Cell(t_array[t], t_top[t])] \in Values
    <3>1. cells[t_array[t]] \in [0 .. ArraySize(t_array[t]) - 1 -> Values]
      BY <2>1 DEF TypeOK
    <3>2. Cell(t_array[t], t_top[t]) \in 0 .. ArraySize(t_array[t]) - 1
      BY <2>1, Cells
    <3>3. QED
      BY <3>1, <3>2
  <2>3. QED
    BY <1>1, <1>2, <2>2 DEF TypeOK, memory, owner, history, Buffered
<1>4. \A u \in Thieves : SeesItem(u)' => SeesItem(u)
  BY <1>1, <1>2 DEF SeesItem, TypeOK
<1>5. ThievesInv'
  <2> SUFFICES ASSUME NEW u \in Thieves
               PROVE  /\ t_pc'[u] # "idle" => t_top'[u] <= top'
                      /\ t_pc'[u] \in {"steal_cell", "steal_cas"} =>
                            t_top'[u] < t_bottom'[u] /\ t_array'[u] <= o_array'
                      /\ SeesItem(u)' => top' < End' /\ ~Unpublished(top)'
    BY DEF ThievesInv
  <2>1. SeesItem(u)' => top' < End' /\ ~Unpublished(top)'
    BY <1>1, <1>4, DequeUnchanged DEF ThievesInv
  <2>2. QED
    BY <1>1, <1>2, <2>1 DEF ThievesInv, TypeOK
<1>6. ASSUME NEW pos, Holds(pos)
      PROVE  ThievesHold(pos)'
  <2> SUFFICES ASSUME NEW u \in Thieves, SeesItem(u)'
               PROVE  /\ t_pc'[u] = "steal_cell" =>
                            cells'[t_array'[u]][Cell(t_array'[u], top')] = pushed'[pos[top']]
                      /\ t_pc'[u] = "steal_cas" => t_val'[u] = pushed'[pos[top']]
    BY DEF ThievesHold, Cell, ArraySize
  <2>1. SeesItem(u)
    BY <1>4
  <2>2. CASE u = t
    <3>1. t_val'[t] = cells[t_array[t]][Cell(t_array[t], top)]
      BY <1>2, <2>1, <2>2 DEF SeesItem, TypeOK
    <3>2. t_val'[t] = pushed[pos[top]]
      BY <1>2, <1>6, <2>1, <2>2, <3>1 DEF ThievesHold, Holds
    <3>3. QED
      BY <1>1, <1>2, <2>2, <3>2 DEF TypeOK
  <2>3. CASE u # t
    BY <1>1, <1>2, <1>6, <2>1, <2>3 DEF ThievesHold, Holds, TypeOK
  <2>4. QED
    BY <2>2, <2>3
<1>7. QED
  BY <1>1, <1>3, <1>5, <1>6, ThiefStep

\* The end of a steal that took nothing.
LEMMA StealReturnInv ==
    ASSUME IInv, NEW t \in Thieves, StealReturn(t), UNCHANGED <<memory, sb, owner, history>>
    PROVE  IInv'
<1> USE DEF IInv
<1>1. UNCHANGED <<top, cells, pushed, o_array>>
  BY DEF memory, owner, history
<1>2. TypeOK'
  BY BoundsAssumption DEF TypeOK, memory, owner, history, Buffered, StealReturn, Arrays, Values
<1>3. \A u \in Thieves : SeesItem(u)' => u # t /\ SeesItem(u)
  BY <1>1 DEF SeesItem, TypeOK, StealReturn
<1>4. ThievesInv'
  <2> SUFFICES ASSUME NEW u \in Thieves
               PROVE  /\ t_pc'[u] # "idle" => t_top'[u] <= top'
                      /\ t_pc'[u] \in {"steal_cell", "steal_cas"} =>
                            t_top'[u] < t_bottom'[u] /\ t_array'[u] <= o_array'
                      /\ SeesItem(u)' => top' < End' /\ ~Unpublished(top)'
    BY DEF ThievesInv
  <2>1. SeesItem(u)' => top' < End' /\ ~Unpublished(top)'
    BY <1>1, <1>3, DequeUnchanged DEF ThievesInv
  <2>2. QED
    BY <1>1, <2>1 DEF ThievesInv, TypeOK, StealReturn
<1>5. ASSUME NEW pos, Holds(pos)
      PROVE  ThievesHold(pos)'
  BY <1>1, <1>3, <1>5 DEF ThievesHold, Holds, TypeOK, StealReturn
<1>6. QED
  BY <1>2, <1>4, <1>5, ThiefStep

LEMMA StealReadArrayInv ==
    ASSUME IInv, NEW t \in Thieves, StealReadArray(t)
    PROVE  IInv'
<1> USE DEF IInv
<1>1. CASE StealReturn(t)
  BY <1>1, StealReturnInv DEF StealReadArray
<1>2. CASE ~StealReturn(t)
  <2>1. /\ UNCHANGED <<memory, sb, owner, history>>
        /\ UNCHANGED <<t_top, t_bottom, t_val>>
        /\ UNCHANGED <<top, cells, pushed, o_array, array>>
    BY <1>2 DEF StealReadArray, memory, owner, history
  <2>2. /\ t_pc[t] = "steal_array" /\ t_bottom[t] - t_top[t] > 0
        /\ t_pc' = [t_pc EXCEPT ![t] = "steal_cell"]
        /\ t_array' = [t_array EXCEPT ![t] = array]
    BY <1>2 DEF StealReadArray
  <2>3. TypeOK'
    BY <2>1, <2>2 DEF TypeOK, memory, owner, history, Buffered
  <2>4. \A u \in Thieves : SeesItem(u)' => SeesItem(u)
    BY <2>1, <2>2 DEF SeesItem, TypeOK
  <2>5. ThievesInv'
    <3> SUFFICES ASSUME NEW u \in Thieves
                 PROVE  /\ t_pc'[u] # "idle" => t_top'[u] <= top'
                        /\ t_pc'[u] \in {"steal_cell", "steal_cas"} =>
                              t_top'[u] < t_bottom'[u] /\ t_array'[u] <= o_array'
                        /\ SeesItem(u)' => top' < End' /\ ~Unpublished(top)'
      BY DEF ThievesInv
    <3>1. SeesItem(u)' => top' < End' /\ ~Unpublished(top)'
      BY <2>1, <2>4, DequeUnchanged DEF ThievesInv
    <3>2. CASE u = t
      <4>1. t_top[t] \in Nat /\ t_bottom[t] \in Int
        BY DEF TypeOK
      <4>2. t_top[t] < t_bottom[t] /\ t_top[t] <= top
        BY <2>2, <4>1 DEF ThievesInv
      <4>3. QED
        BY <2>1, <2>2, <3>1, <3>2, <4>2 DEF TypeOK, IndicesInv
    <3>3. CASE u # t
      BY <2>1, <2>2, <3>1, <3>3 DEF ThievesInv, TypeOK
    <3>4. QED
      BY <3>2, <3>3
  <2>6. ASSUME NEW pos, Holds(pos)
        PROVE  ThievesHold(pos)'
    <3> SUFFICES ASSUME NEW u \in Thieves, SeesItem(u)'
                 PROVE  /\ t_pc'[u] = "steal_cell" =>
                              cells'[t_array'[u]][Cell(t_array'[u], top')] = pushed'[pos[top']]
                        /\ t_pc'[u] = "steal_cas" => t_val'[u] = pushed'[pos[top']]
      BY DEF ThievesHold, Cell, ArraySize
    <3>1. SeesItem(u)
      BY <2>4
    <3>2. CASE u = t
      <4>1. top < End /\ ~Unpublished(top)
        BY <3>1 DEF ThievesInv
      <4>2. array \in array .. o_array /\ top \in top .. End - 1
        BY <4>1, IndexType DEF IndicesInv
      <4>3. cells[array][Cell(array, top)] = pushed[pos[top]]
        BY <2>6, <4>1, <4>2 DEF Holds, ArraysHold
      <4>4. QED
        BY <2>1, <2>2, <3>2, <4>3 DEF TypeOK
    <3>3. CASE u # t
      BY <2>1, <2>2, <2>6, <3>1, <3>3 DEF ThievesHold, Holds, TypeOK
    <3>4. QED
      BY <3>2, <3>3
  <2>7. QED
    BY <2>1, <2>3, <2>5, <2>6, ThiefStep
<1>3. QED
  BY <1>1, <1>2

-----------------------------------------------------------------------------
(* Taking an item.                                                         *)

\* Counting one more take of the n-th pushed item changes no other count.
LEMMA Take ==
    ASSUME TypeOK, HistoryInv, NEW n \in 1 .. Len(pushed),
           taken' = [taken EXCEPT ![pushed[n]] = @ + 1]
    PROVE  /\ taken' \in [Values -> Nat]
           /\ pushed[n] \in Items /\ pushed[n] \in Values
           /\ taken'[pushed[n]] = taken[pushed[n]] + 1
           /\ \A m \in 1 .. Len(pushed) : m # n => taken'[pushed[m]] = taken[pushed[m]]
           /\ \A v \in Values : (\A m \in 1 .. Len(pushed) : pushed[m] # v) => taken'[v] = 0
<1>1. taken \in [Values -> Nat] /\ pushed \in Seq(Items) /\ Items \subseteq Values
  BY DEF TypeOK, Values
<1>2. \A m \in 1 .. Len(pushed) : pushed[m] \in Items /\ pushed[m] \in Values
  BY <1>1
<1>3. \A m \in 1 .. Len(pushed) : m # n => pushed[m] # pushed[n]
  BY DEF HistoryInv
<1>4. QED
  BY <1>1, <1>2, <1>3 DEF HistoryInv

LEMMA StealCASInv ==
    ASSUME IInv, NEW t \in Thieves, StealCAS(t)
    PROVE  IInv'
<1> USE DEF IInv
<1>1. CASE top # t_top[t]
  <2>1. UNCHANGED <<memory, sb, owner, history>>
    BY <1>1 DEF StealCAS, memory, owner, history
  <2>2. QED
    BY <2>1, StealReturnInv DEF StealCAS
<1>2. CASE top = t_top[t]
  <2>1. PICK pos \in [top .. End - 1 -> 1 .. Len(pushed)] : Holds(pos)
    OBVIOUS
  <2>2. SeesItem(t) /\ top < End /\ ~Unpublished(top) /\ t_val[t] = pushed[pos[top]]
    BY <1>2, <2>1 DEF StealCAS, SeesItem, ThievesInv, Holds, ThievesHold
  <2>3. /\ top' = top + 1
        /\ taken' = [taken EXCEPT ![pushed[pos[top]]] = @ + 1]
        /\ stolen' = Append(stolen, pushed[pos[top]])
        /\ UNCHANGED <<bottom, array, cells, sb, o_pc, o_bottom, o_array, o_t, pushed>>
        /\ StealReturn(t)
    BY <1>2, <2>2 DEF StealCAS, owner
  <2>4. End' = End /\ Buffered' = Buffered
    BY <2>3 DEF End, Buffered
  <2>5. \A j : IsCell(j)' = IsCell(j) /\ IsBottom(j)' = IsBottom(j) /\ IsArray(j)' = IsArray(j)
    BY <2>3 DEF IsCell, IsBottom, IsArray
  <2>6. \A i : Unpublished(i)' = Unpublished(i)
    BY <2>3, <2>4, <2>5 DEF Unpublished
  <2>7. top \in top .. End - 1 /\ pos[top] \in 1 .. Len(pushed)
    BY <2>1, <2>2, IndexType
  <2>8. /\ pushed[pos[top]] \in Values /\ taken' \in [Values -> Nat]
        /\ \A m \in 1 .. Len(pushed) : m # pos[top] => taken'[pushed[m]] = taken[pushed[m]]
        /\ taken'[pushed[pos[top]]] = 1
        /\ \A v \in Values : (\A m \in 1 .. Len(pushed) : pushed[m] # v) => taken'[v] = 0
    <3>1. taken[pushed[pos[top]]] = 0
      BY <2>1, <2>7 DEF Holds, DequeHolds
    <3>2. /\ pushed[pos[top]] \in Values /\ taken' \in [Values -> Nat]
          /\ taken'[pushed[pos[top]]] = taken[pushed[pos[top]]] + 1
          /\ \A m \in 1 .. Len(pushed) : m # pos[top] => taken'[pushed[m]] = taken[pushed[m]]
          /\ \A v \in Values : (\A m \in 1 .. Len(pushed) : pushed[m] # v) => taken'[v] = 0
      BY <2>3, <2>7, Take
    <3>3. QED
      BY <3>1, <3>2
  <2>9. TypeOK'
    <3>1. stolen' \in Seq(Values) /\ top' \in Nat
      BY SMTT(60), <2>3, <2>8 DEF TypeOK
    <3>2. 0 \in Arrays /\ Garbage \in Values
      BY BoundsAssumption DEF Arrays, Values
    <3>3. QED
      BY <2>3, <2>8, <3>1, <3>2 DEF TypeOK, StealReturn
  <2>10. IndicesInv'
    <3>1. /\ top \in Nat /\ End \in Nat /\ o_t \in Nat
          /\ End - top < ArraySize(o_array) /\ ArraySize(o_array) \in Nat
          /\ o_pc = "pop_cas" => o_t <= top
      BY IndexType DEF IndicesInv, TypeOK
    <3>2. /\ top + 1 <= End /\ End - (top + 1) < ArraySize(o_array)
          /\ o_pc = "pop_cas" => o_t <= top + 1
      BY <2>2, <3>1
    <3>3. QED
      BY <2>3, <2>4, <2>5, <3>2 DEF IndicesInv
  <2>11. BufferInv'
    <3> SUFFICES ASSUME NEW j \in Buffered, IsCell(j)
                 PROVE  top + 1 <= sb[j].index /\ sb[j].index - (top + 1) < ArraySize(sb[j].array)
      BY <2>3, <2>4, <2>5, <2>6 DEF BufferInv
    <3>1. sb[j].index # top
      BY <2>2 DEF Unpublished
    <3>2. /\ top <= sb[j].index /\ sb[j].index - top < ArraySize(sb[j].array)
          /\ sb[j].index \in Nat /\ sb[j].array \in Nat /\ top \in Nat
      BY BufferType, IndexType DEF BufferInv
    <3>3. ArraySize(sb[j].array) \in Nat
      BY <3>2, Sizes
    <3>4. QED
      BY <3>1, <3>2, <3>3
  <2>12. OrderInv'
    BY <2>3, <2>4, <2>5 DEF OrderInv
  <2>13. /\ stolen' \in Seq(Values) /\ Len(stolen') = Len(stolen) + 1 /\ Len(stolen) \in Nat
         /\ \A m \in 1 .. Len(stolen) : stolen'[m] = stolen[m]
         /\ stolen'[Len(stolen) + 1] = pushed[pos[top]]
    BY <2>3, <2>8 DEF TypeOK
  <2>14. Position(pushed[pos[top]]) = pos[top] /\ \A v : Position(v)' = Position(v)
    BY <2>3, <2>7, PositionOf DEF Position
  <2>15. \A m \in 1 .. Len(stolen) : Position(stolen[m]) < pos[top]
    BY <2>1, <2>7 DEF Holds, DequeHolds
  <2>16. HistoryInv'
    <3>1. \A m \in 1 .. Len(stolen') : \E n \in 1 .. Len(pushed) : stolen'[m] = pushed[n]
      <4> SUFFICES ASSUME NEW m \in 1 .. Len(stolen')
                   PROVE  \E n \in 1 .. Len(pushed) : stolen'[m] = pushed[n]
        OBVIOUS
      <4>1. CASE m \in 1 .. Len(stolen)
        BY <2>13, <4>1 DEF HistoryInv
      <4>2. CASE m = Len(stolen) + 1
        BY <2>7, <2>13, <4>2
      <4>3. QED
        BY <2>13, <4>1, <4>2
    <3>2. ASSUME NEW m \in 1 .. Len(stolen'), NEW n \in 1 .. Len(stolen'), m < n
          PROVE  Position(stolen'[m]) < Position(stolen'[n])
      <4>1. m \in 1 .. Len(stolen)
        BY <2>13, <3>2
      <4>2. CASE n \in 1 .. Len(stolen)
        BY <2>13, <3>2, <4>1, <4>2 DEF HistoryInv, StealsInPushOrder
      <4>3. CASE n = Len(stolen) + 1
        BY <2>13, <2>14, <2>15, <4>1, <4>3
      <4>4. QED
        BY <2>13, <4>2, <4>3
    <3>3. StealsInPushOrder'
      BY <2>14, <3>2 DEF StealsInPushOrder
    <3>4. QED
      BY <2>3, <2>8, <3>1, <3>3 DEF HistoryInv
  <2>17. \A u \in Thieves : ~SeesItem(u)'
    <3> SUFFICES ASSUME NEW u \in Thieves, SeesItem(u)'
                 PROVE  FALSE
      OBVIOUS
    <3>1. u # t /\ t_pc[u] # "idle" /\ t_top[u] = top + 1
      BY <2>3 DEF SeesItem, StealReturn, TypeOK
    <3>2. QED
      BY <3>1, IndexType DEF ThievesInv
  <2>18. ThievesInv'
    <3> SUFFICES ASSUME NEW u \in Thieves
                 PROVE  /\ t_pc'[u] # "idle" => t_top'[u] <= top'
                        /\ t_pc'[u] \in {"steal_cell", "steal_cas"} =>
                              t_top'[u] < t_bottom'[u] /\ t_array'[u] <= o_array'
      BY <2>17 DEF ThievesInv
    <3>1. t_top[u] \in Nat /\ top \in Nat
      BY DEF TypeOK
    <3>2. QED
      BY <2>3, <3>1 DEF ThievesInv, TypeOK, StealReturn
  <2>19. PICK q \in [top + 1 .. End - 1 -> 1 .. Len(pushed)] :
              \A i \in top + 1 .. End - 1 : q[i] = pos[i]
    <3>1. \A i \in top + 1 .. End - 1 : pos[i] \in 1 .. Len(pushed)
      BY <2>1, IndexType
    <3>2. [i \in top + 1 .. End - 1 |-> pos[i]] \in [top + 1 .. End - 1 -> 1 .. Len(pushed)]
      BY <3>1
    <3>3. QED
      BY <3>2
  <2>20. \A i \in top + 1 .. End - 1 : i \in top .. End - 1 /\ top < i /\ q[i] = pos[i]
    BY <2>19, IndexType
  <2>21. DequeHolds(q)'
    <3>1. \A i, j \in top + 1 .. End - 1 : i < j => q[i] < q[j]
      BY <2>1, <2>20 DEF Holds, DequeHolds
    <3>2. ASSUME NEW n \in 1 .. Len(pushed)
          PROVE  taken'[pushed[n]] = IF \E i \in top + 1 .. End - 1 : q[i] = n THEN 0 ELSE 1
      <4>1. CASE n = pos[top]
        <5>1. \A i \in top + 1 .. End - 1 : q[i] # n
          BY <2>1, <2>7, <2>20, <4>1 DEF Holds, DequeHolds
        <5>2. QED
          BY <2>8, <4>1, <5>1
      <4>2. CASE n # pos[top]
        <5>1. (\E i \in top + 1 .. End - 1 : q[i] = n) <=> (\E i \in top .. End - 1 : pos[i] = n)
          <6>1. \A i \in top .. End - 1 : i = top \/ i \in top + 1 .. End - 1
            BY IndexType
          <6>2. QED
            BY <2>20, <4>2, <6>1
        <5>2. taken'[pushed[n]] = taken[pushed[n]]
          BY <2>8, <4>2
        <5>3. QED
          BY <2>1, <5>1, <5>2 DEF Holds, DequeHolds
      <4>3. QED
        BY <4>1, <4>2
    <3>3. ASSUME NEW m \in 1 .. Len(stolen'), NEW i \in top + 1 .. End - 1
          PROVE  Position(stolen'[m]) < q[i]
      <4>1. CASE m \in 1 .. Len(stolen)
        BY <2>1, <2>13, <2>20, <4>1 DEF Holds, DequeHolds
      <4>2. CASE m = Len(stolen) + 1
        BY <2>1, <2>7, <2>13, <2>14, <2>20, <4>2 DEF Holds, DequeHolds
      <4>3. QED
        BY <2>13, <4>1, <4>2
    <3>4. QED
      BY <2>3, <2>4, <2>14, <3>1, <3>2, <3>3 DEF DequeHolds
  <2>22. ArraysHold(q)'
    <3>1. ASSUME NEW i \in top + 1 .. End - 1, NEW k \in array .. o_array, ~Unpublished(i)
          PROVE  cells[k][Cell(k, i)] = pushed[q[i]]
      BY <2>1, <2>20, <3>1 DEF Holds, ArraysHold
    <3>2. ASSUME NEW j \in Buffered, IsCell(j)
          PROVE  /\ q[sb[j].index] = pos[sb[j].index]
                 /\ sb[j].value = pushed[pos[sb[j].index]]
                 /\ \A k \in sb[j].array + 1 .. o_array :
                       cells[k][Cell(k, sb[j].index)] = pushed[pos[sb[j].index]]
      <4>1. sb[j].index \in top + 1 .. End - 1
        <5>1. sb[j].index # top
          BY <2>2, <3>2 DEF Unpublished
        <5>2. top <= sb[j].index /\ sb[j].index < End /\ sb[j].index \in Nat
          BY <3>2, BufferType DEF BufferInv
        <5>3. top \in Nat /\ End \in Nat
          BY IndexType
        <5>4. QED
          BY <5>1, <5>2, <5>3
      <4>2. QED
        BY <2>1, <2>20, <3>2, <4>1 DEF Holds, ArraysHold
    <3>3. QED
      BY <2>3, <2>4, <2>5, <2>6, <3>1, <3>2 DEF ArraysHold
  <2>23. ThievesHold(q)'
    BY <2>17 DEF ThievesHold
  <2>24. q \in [top' .. End' - 1 -> 1 .. Len(pushed')]
    BY <2>3, <2>4, <2>19
  <2>25. QED
    BY <2>9, <2>10, <2>11, <2>12, <2>16, <2>18, <2>21, <2>22, <2>23, <2>24 DEF Holds
<1>3. QED
  BY <1>1, <1>2

-----------------------------------------------------------------------------
(* The oldest buffered store reaches memory.                               *)

\* The buffer without its oldest store.
LEMMA Drained ==
    ASSUME TypeOK, sb # <<>>, sb' = Tail(sb)
    PROVE  /\ sb' \in Seq(Stores) /\ Len(sb') = Len(sb) - 1
           /\ Len(sb) \in Nat \ {0} /\ 1 \in Buffered /\ Head(sb) = sb[1]
           /\ sb' = <<>> => Len(sb) = 1
           /\ sb' # <<>> => Len(sb) - 1 \in Buffered'
           /\ \A j \in Buffered :
                 j = 1 \/ (j - 1 \in Buffered' /\ sb'[j - 1] = sb[j]
                           /\ (IsCell(j - 1)' <=> IsCell(j))
                           /\ (IsArray(j - 1)' <=> IsArray(j)))
           /\ \A j \in Buffered' :
                 /\ j \in Nat /\ j + 1 \in Buffered /\ 1 < j + 1 /\ sb'[j] = sb[j + 1]
                 /\ IsCell(j)' <=> IsCell(j + 1)
                 /\ IsBottom(j)' <=> IsBottom(j + 1)
                 /\ IsArray(j)' <=> IsArray(j + 1)
           /\ \A i : Unpublished(i)' => Unpublished(i)
           /\ \A i : Unpublished(i) => Unpublished(i)' \/ (IsCell(1) /\ sb[1].index = i)
<1>1. /\ sb \in Seq(Stores) /\ Len(sb) \in Nat
  BY DEF TypeOK
<1>2. /\ sb' \in Seq(Stores) /\ Len(sb') = Len(sb) - 1
      /\ Len(sb) \in Nat \ {0} /\ Head(sb) = sb[1]
      /\ \A j \in 1 .. Len(sb) - 1 : sb'[j] = sb[j + 1]
  BY <1>1, HeadTailProperties, EmptySeq
<1>3. 1 \in Buffered /\ (sb' = <<>> => Len(sb) = 1)
  <2>1. sb' = <<>> => Len(sb') = 0
    BY EmptySeq
  <2>2. sb' = <<>> => Len(sb) = 1
    BY <1>2, <2>1
  <2>3. 1 \in Buffered
    BY <1>2 DEF Buffered
  <2>4. QED
    BY <2>2, <2>3
<1>4. sb' # <<>> => Len(sb) - 1 \in Buffered'
  <2>1. sb' # <<>> => Len(sb') # 0
    BY <1>2, EmptySeq
  <2>2. QED
    BY <1>2, <2>1 DEF Buffered
<1>5. ASSUME NEW j \in Buffered'
      PROVE  /\ j \in Nat /\ j + 1 \in Buffered /\ 1 < j + 1 /\ sb'[j] = sb[j + 1]
             /\ IsCell(j)' <=> IsCell(j + 1)
             /\ IsBottom(j)' <=> IsBottom(j + 1)
             /\ IsArray(j)' <=> IsArray(j + 1)
  BY <1>2 DEF Buffered, IsCell, IsBottom, IsArray
<1>6. ASSUME NEW j \in Buffered, j # 1
      PROVE  j - 1 \in Buffered' /\ sb'[j - 1] = sb[j]
             /\ (IsCell(j - 1)' <=> IsCell(j)) /\ (IsArray(j - 1)' <=> IsArray(j))
  <2>1. j - 1 \in 1 .. Len(sb) - 1 /\ (j - 1) + 1 = j
    BY <1>2, <1>6 DEF Buffered
  <2>2. sb'[j - 1] = sb[j]
    BY <1>2, <2>1
  <2>3. QED
    BY <1>2, <2>1, <2>2 DEF Buffered, IsCell, IsArray
<1>7. \A i : Unpublished(i)' => Unpublished(i)
  BY <1>5 DEF Unpublished
<1>8. \A i : Unpublished(i) => Unpublished(i)' \/ (IsCell(1) /\ sb[1].index = i)
  BY <1>6 DEF Unpublished
<1>9. QED
  BY <1>2, <1>3, <1>4, <1>5, <1>6, <1>7, <1>8

\* What every flush leaves true, wherever the store goes.
LEMMA FlushKeeps ==
    ASSUME IInv, sb # <<>>, sb' = Tail(sb), UNCHANGED <<top, owner, thieves, history>>
    PROVE  /\ End' = End /\ OrderInv' /\ HistoryInv' /\ ThievesInv'
           /\ \A pos : DequeHolds(pos) => DequeHolds(pos)'
           /\ \A t \in Thieves : SeesItem(t)' => SeesItem(t)
<1> USE DEF IInv
<1>1. /\ UNCHANGED <<top, o_pc, o_bottom, o_array, o_t, pushed, taken, stolen>>
      /\ UNCHANGED <<t_pc, t_top, t_bottom, t_array, t_val>>
  BY DEF owner, thieves, history
<1>2. End' = End /\ \A v : Position(v)' = Position(v)
  BY <1>1 DEF End, Position
<1>3. OrderInv'
  <2> SUFFICES ASSUME NEW j \in Buffered', NEW m \in Buffered', j < m
               PROVE  /\ IsBottom(j)' /\ IsCell(m)' => sb'[j].index <= sb'[m].index
                      /\ IsCell(j)' /\ IsCell(m)' =>
                            sb'[j].index < sb'[m].index /\ sb'[j].array <= sb'[m].array
                      /\ IsArray(j)' /\ IsArray(m)' => sb'[j].index < sb'[m].index
    BY DEF OrderInv
  <2>1. j + 1 \in Buffered /\ m + 1 \in Buffered /\ j + 1 < m + 1
    BY Drained
  <2>2. /\ IsBottom(j + 1) /\ IsCell(m + 1) => sb[j + 1].index <= sb[m + 1].index
        /\ IsCell(j + 1) /\ IsCell(m + 1) =>
              sb[j + 1].index < sb[m + 1].index /\ sb[j + 1].array <= sb[m + 1].array
        /\ IsArray(j + 1) /\ IsArray(m + 1) => sb[j + 1].index < sb[m + 1].index
    BY <2>1 DEF OrderInv
  <2>3. sb'[j] = sb[j + 1] /\ sb'[m] = sb[m + 1]
    BY Drained
  <2>4. /\ IsBottom(j)' <=> IsBottom(j + 1)
        /\ (IsCell(j)' <=> IsCell(j + 1)) /\ (IsCell(m)' <=> IsCell(m + 1))
        /\ (IsArray(j)' <=> IsArray(j + 1)) /\ (IsArray(m)' <=> IsArray(m + 1))
    BY Drained
  <2>5. QED
    BY <2>2, <2>3, <2>4
<1>4. HistoryInv'
  BY <1>1, HistoryKept
<1>5. \A t \in Thieves : SeesItem(t)' => SeesItem(t)
  BY <1>1 DEF SeesItem
<1>6. Unpublished(top)' => Unpublished(top)
  BY <1>1, Drained
<1>7. ThievesInv'
  BY <1>1, <1>2, <1>5, <1>6 DEF ThievesInv
<1>8. \A pos : DequeHolds(pos) => DequeHolds(pos)'
  BY <1>1, <1>2 DEF DequeHolds
<1>9. QED
  BY <1>2, <1>3, <1>4, <1>5, <1>7, <1>8

\* What is left to show for each kind of store.
LEMMA FlushStep ==
    ASSUME IInv, sb # <<>>, sb' = Tail(sb), UNCHANGED <<top, owner, thieves, history>>,
           TypeOK', IndicesInv', BufferInv',
           \A pos : Holds(pos) => ArraysHold(pos)' /\ ThievesHold(pos)'
    PROVE  IInv'
<1>1. OrderInv' /\ HistoryInv' /\ ThievesInv'
  BY FlushKeeps
<1>2. PICK pos \in [top .. End - 1 -> 1 .. Len(pushed)] : Holds(pos)
  BY DEF IInv
<1>3. Holds(pos)'
  BY <1>2, FlushKeeps DEF Holds
<1>4. pos \in [top' .. End' - 1 -> 1 .. Len(pushed')]
  BY <1>2, FlushKeeps DEF history
<1>5. QED
  BY <1>1, <1>3, <1>4 DEF IInv

LEMMA FlushBottomInv ==
    ASSUME IInv, sb # <<>>, sb' = Tail(sb), UNCHANGED <<top, owner, thieves, history>>,
           IsBottom(1), bottom' = sb[1].index, UNCHANGED <<array, cells>>
    PROVE  IInv'
<1> USE DEF IInv
<1>1. /\ UNCHANGED <<top, o_pc, o_bottom, o_array, o_t, pushed, taken, stolen>>
      /\ UNCHANGED <<t_pc, t_top, t_bottom, t_array, t_val>> /\ UNCHANGED <<array, cells>>
  BY DEF owner, thieves, history
<1>2. End' = End /\ 1 \in Buffered
  BY FlushKeeps, Drained
<1>3. bottom' \in Nat \cup {-1} /\ bottom' <= End
  BY <1>2, BufferType DEF BufferInv
<1>4. TypeOK'
  <2>1. sb' \in Seq(Stores) /\ Len(sb') <= StoreBufferSize
    BY Drained, BoundsAssumption DEF TypeOK
  <2>2. QED
    BY <1>1, <1>3, <2>1 DEF TypeOK
<1>5. ~IsCell(1) /\ ~IsArray(1)
  BY DEF IsBottom, IsCell, IsArray
<1>6. IndicesInv'
  <2>1. array = o_array \/ \E j \in Buffered' : IsArray(j)' /\ sb'[j].index = o_array
    <3>1. CASE array # o_array
      <4>1. PICK j \in Buffered : IsArray(j) /\ sb[j].index = o_array
        BY <3>1 DEF IndicesInv
      <4>2. j - 1 \in Buffered' /\ IsArray(j - 1)' /\ sb'[j - 1] = sb[j]
        BY <1>5, <4>1, Drained
      <4>3. QED
        BY <4>1, <4>2
    <3>2. QED
      BY <3>1
  <2>2. ASSUME o_pc = "pop_top"
        PROVE  IF sb' = <<>> THEN bottom' = o_bottom
               ELSE IsBottom(Len(sb))' /\ sb'[Len(sb')].index = o_bottom
    <3>1. IsBottom(Len(sb)) /\ sb[Len(sb)].index = o_bottom
      BY <2>2 DEF IndicesInv
    <3>2. CASE sb' = <<>>
      BY <3>1, <3>2, Drained
    <3>3. CASE sb' # <<>>
      <4>1. /\ Len(sb') \in Buffered' /\ sb'[Len(sb')] = sb[Len(sb)]
        <5>1. Len(sb') = Len(sb) - 1 /\ Len(sb) - 1 \in Buffered' /\ Len(sb) \in Nat
          BY <3>3, Drained
        <5>2. sb'[Len(sb) - 1] = sb[(Len(sb) - 1) + 1] /\ (Len(sb) - 1) + 1 = Len(sb)
          BY <5>1, Drained
        <5>3. QED
          BY <5>1, <5>2
      <4>2. QED
        BY <3>1, <3>3, <4>1 DEF IsBottom
    <3>4. QED
      BY <3>2, <3>3
  <2>3. o_pc # "pop_cas"
    BY DEF IndicesInv
  <2>4. QED
    BY <1>1, <1>2, <1>3, <2>1, <2>2, <2>3 DEF IndicesInv
<1>7. BufferInv'
  <2> SUFFICES ASSUME NEW j \in Buffered'
               PROVE  /\ IsBottom(j)' => sb'[j].index <= End'
                      /\ IsArray(j)' => array' < sb'[j].index /\ sb'[j].index <= o_array'
                      /\ IsCell(j)' =>
                            /\ top' <= sb'[j].index /\ sb'[j].index < End'
                            /\ sb'[j].index - top' < ArraySize(sb'[j].array)
                            /\ bottom' <= sb'[j].index
                            /\ sb'[j].array <= o_array'
                            /\ \/ sb'[j].array <= array'
                               \/ \E m \in 1 .. j - 1 :
                                     IsArray(m)' /\ sb'[m].index = sb'[j].array
                            /\ \A i \in sb'[j].index .. End' - 1 : Unpublished(i)'
    BY DEF BufferInv, ArraySize
  <2>1. j \in Nat /\ j + 1 \in Buffered /\ sb'[j] = sb[j + 1] /\ 1 < j + 1
    BY Drained
  <2>2. IsCell(j)' => bottom' <= sb'[j].index
    BY <1>2, <2>1, Drained DEF OrderInv
  <2>3. ASSUME IsCell(j)'
        PROVE  \/ sb'[j].array <= array'
               \/ \E m \in 1 .. j - 1 : IsArray(m)' /\ sb'[m].index = sb'[j].array
    <3>1. \/ sb[j + 1].array <= array
          \/ \E m \in 1 .. (j + 1) - 1 : IsArray(m) /\ sb[m].index = sb[j + 1].array
      BY <2>1, <2>3, Drained DEF BufferInv
    <3>2. ASSUME NEW m \in 1 .. (j + 1) - 1, IsArray(m)
          PROVE  m - 1 \in 1 .. j - 1 /\ IsArray(m - 1)' /\ sb'[m - 1] = sb[m]
      <4>1. m \in Buffered /\ m # 1
        BY <1>5, <2>1, <3>2 DEF Buffered
      <4>2. m - 1 \in 1 .. j - 1
        BY <2>1, <4>1
      <4>3. QED
        BY <3>2, <4>1, <4>2, Drained
    <3>3. QED
      BY <1>1, <2>1, <3>1, <3>2
  <2>4. QED
    BY <1>1, <1>2, <1>5, <2>1, <2>2, <2>3, Drained DEF BufferInv
<1>8. \A i : Unpublished(i)' <=> Unpublished(i)
  BY <1>5, Drained
<1>9. ASSUME NEW pos, Holds(pos)
      PROVE  ArraysHold(pos)' /\ ThievesHold(pos)'
  <2>1. ArraysHold(pos)'
    <3>1. ASSUME NEW j \in Buffered', IsCell(j)'
          PROVE  /\ sb'[j].value = pushed[pos[sb'[j].index]]
                 /\ \A k \in sb'[j].array + 1 .. o_array :
                       cells[k][Cell(k, sb'[j].index)] = pushed[pos[sb'[j].index]]
      <4>1. j + 1 \in Buffered /\ IsCell(j + 1) /\ sb'[j] = sb[j + 1]
        BY <3>1, Drained
      <4>2. /\ sb[j + 1].value = pushed[pos[sb[j + 1].index]]
            /\ \A k \in sb[j + 1].array + 1 .. o_array :
                  cells[k][Cell(k, sb[j + 1].index)] = pushed[pos[sb[j + 1].index]]
        BY <1>9, <4>1 DEF Holds, ArraysHold
      <4>3. QED
        BY <4>1, <4>2
    <3>2. \A i \in top .. End - 1, k \in array .. o_array :
             ~Unpublished(i)' => cells[k][Cell(k, i)] = pushed[pos[i]]
      BY <1>8, <1>9 DEF Holds, ArraysHold
    <3>3. QED
      BY ZenonT(60), <1>1, <1>2, <3>1, <3>2 DEF ArraysHold
  <2>2. ThievesHold(pos)'
    BY <1>1, <1>9, FlushKeeps DEF Holds, ThievesHold
  <2>3. QED
    BY <2>1, <2>2
<1>10. QED
  BY <1>4, <1>6, <1>7, <1>9, FlushStep

LEMMA FlushArrayInv ==
    ASSUME IInv, sb # <<>>, sb' = Tail(sb), UNCHANGED <<top, owner, thieves, history>>,
           IsArray(1), array' = sb[1].index, UNCHANGED <<bottom, cells>>
    PROVE  IInv'
<1> USE DEF IInv
<1>1. /\ UNCHANGED <<top, o_pc, o_bottom, o_array, o_t, pushed, taken, stolen>>
      /\ UNCHANGED <<t_pc, t_top, t_bottom, t_array, t_val>> /\ UNCHANGED <<bottom, cells>>
  BY DEF owner, thieves, history
<1>2. End' = End /\ 1 \in Buffered
  BY FlushKeeps, Drained
<1>3. array < array' /\ array' <= o_array /\ array' \in Arrays /\ array' \in Nat
  <2>1. sb[1] \in Stores /\ sb[1].to = "array" /\ sb[1].index \in Nat
    BY <1>2, BufferType DEF IsArray
  <2>2. QED
    BY <1>2, <2>1, StoreType DEF BufferInv
<1>4. TypeOK'
  <2>1. sb' \in Seq(Stores) /\ Len(sb') <= StoreBufferSize
    BY Drained, BoundsAssumption DEF TypeOK
  <2>2. QED
    BY <1>1, <1>3, <2>1 DEF TypeOK
<1>5. ~IsCell(1) /\ ~IsBottom(1)
  BY DEF IsBottom, IsCell, IsArray
<1>6. IndicesInv'
  <2>1. array' = o_array \/ \E j \in Buffered' : IsArray(j)' /\ sb'[j].index = o_array
    <3>1. PICK j \in Buffered : IsArray(j) /\ sb[j].index = o_array
      BY <1>3, IndexType DEF IndicesInv
    <3>2. CASE j = 1
      BY <3>1, <3>2
    <3>3. CASE j # 1
      <4>1. j - 1 \in Buffered' /\ IsArray(j - 1)' /\ sb'[j - 1] = sb[j]
        BY <3>1, <3>3, Drained
      <4>2. QED
        BY <3>1, <4>1
    <3>4. QED
      BY <3>2, <3>3
  <2>2. ASSUME o_pc = "pop_top"
        PROVE  sb' # <<>> /\ IsBottom(Len(sb))' /\ sb'[Len(sb')].index = o_bottom
    <3>1. IsBottom(Len(sb)) /\ sb[Len(sb)].index = o_bottom
      BY <2>2 DEF IndicesInv
    <3>2. sb' # <<>>
      BY <1>5, <3>1, Drained
    <3>3. Len(sb') = Len(sb) - 1 /\ Len(sb) - 1 \in Buffered' /\ Len(sb) \in Nat
      BY <3>2, Drained
    <3>4. sb'[Len(sb) - 1] = sb[(Len(sb) - 1) + 1] /\ (Len(sb) - 1) + 1 = Len(sb)
      BY <3>3, Drained
    <3>5. QED
      BY <3>1, <3>2, <3>3, <3>4 DEF IsBottom
  <2>3. o_pc # "pop_cas"
    BY DEF IndicesInv
  <2>4. QED
    BY <1>1, <1>2, <1>3, <2>1, <2>2, <2>3 DEF IndicesInv
<1>7. BufferInv'
  <2> SUFFICES ASSUME NEW j \in Buffered'
               PROVE  /\ IsBottom(j)' => sb'[j].index <= End'
                      /\ IsArray(j)' => array' < sb'[j].index /\ sb'[j].index <= o_array'
                      /\ IsCell(j)' =>
                            /\ top' <= sb'[j].index /\ sb'[j].index < End'
                            /\ sb'[j].index - top' < ArraySize(sb'[j].array)
                            /\ bottom' <= sb'[j].index
                            /\ sb'[j].array <= o_array'
                            /\ \/ sb'[j].array <= array'
                               \/ \E m \in 1 .. j - 1 :
                                     IsArray(m)' /\ sb'[m].index = sb'[j].array
                            /\ \A i \in sb'[j].index .. End' - 1 : Unpublished(i)'
    BY DEF BufferInv, ArraySize
  <2>1. j \in Nat /\ j + 1 \in Buffered /\ sb'[j] = sb[j + 1] /\ 1 < j + 1
    BY Drained
  <2>2. IsArray(j)' => array' < sb'[j].index
    BY <1>2, <2>1, Drained DEF OrderInv
  <2>3. ASSUME IsCell(j)'
        PROVE  \/ sb'[j].array <= array'
               \/ \E m \in 1 .. j - 1 : IsArray(m)' /\ sb'[m].index = sb'[j].array
    <3>1. sb[j + 1].array \in Nat
      BY <2>1, <2>3, Drained, BufferType
    <3>2. \/ sb[j + 1].array <= array
          \/ \E m \in 1 .. (j + 1) - 1 : IsArray(m) /\ sb[m].index = sb[j + 1].array
      BY <2>1, <2>3, Drained DEF BufferInv
    <3>3. ASSUME NEW m \in 1 .. (j + 1) - 1, IsArray(m), m # 1
          PROVE  m - 1 \in 1 .. j - 1 /\ IsArray(m - 1)' /\ sb'[m - 1] = sb[m]
      <4>1. m \in Buffered
        BY <2>1 DEF Buffered
      <4>2. m - 1 \in 1 .. j - 1
        BY <2>1, <3>3
      <4>3. QED
        BY <3>3, <4>1, <4>2, Drained
    <3>4. sb[j + 1].array <= array => sb[j + 1].array <= array'
      <4>1. array \in Nat
        BY IndexType
      <4>2. QED
        BY <1>3, <3>1, <4>1
    <3>5. sb[1].index = sb[j + 1].array => sb[j + 1].array <= array'
      BY <1>3
    <3>6. QED
      BY <2>1, <3>2, <3>3, <3>4, <3>5
  <2>4. QED
    BY <1>1, <1>2, <1>5, <2>1, <2>2, <2>3, Drained DEF BufferInv
<1>8. \A i : Unpublished(i)' <=> Unpublished(i)
  BY <1>5, Drained
<1>9. ASSUME NEW pos, Holds(pos)
      PROVE  ArraysHold(pos)' /\ ThievesHold(pos)'
  <2>1. ArraysHold(pos)'
    <3>1. ASSUME NEW j \in Buffered', IsCell(j)'
          PROVE  /\ sb'[j].value = pushed[pos[sb'[j].index]]
                 /\ \A k \in sb'[j].array + 1 .. o_array :
                       cells[k][Cell(k, sb'[j].index)] = pushed[pos[sb'[j].index]]
      <4>1. j + 1 \in Buffered /\ IsCell(j + 1) /\ sb'[j] = sb[j + 1]
        BY <3>1, Drained
      <4>2. /\ sb[j + 1].value = pushed[pos[sb[j + 1].index]]
            /\ \A k \in sb[j + 1].array + 1 .. o_array :
                  cells[k][Cell(k, sb[j + 1].index)] = pushed[pos[sb[j + 1].index]]
        BY <1>9, <4>1 DEF Holds, ArraysHold
      <4>3. QED
        BY <4>1, <4>2
    <3>2. \A k \in array' .. o_array : k \in array .. o_array
      BY SMTT(60), <1>3, IndexType
    <3>3. \A i \in top .. End - 1, k \in array' .. o_array :
             ~Unpublished(i)' => cells[k][Cell(k, i)] = pushed[pos[i]]
      BY <1>8, <1>9, <3>2 DEF Holds, ArraysHold
    <3>4. QED
      BY ZenonT(60), <1>1, <1>2, <3>1, <3>3 DEF ArraysHold
  <2>2. ThievesHold(pos)'
    BY <1>1, <1>9, FlushKeeps DEF Holds, ThievesHold
  <2>3. QED
    BY <2>1, <2>2
<1>10. QED
  BY <1>4, <1>6, <1>7, <1>9, FlushStep

\* The store of v at index x of array k reaches memory.
CellWritten(k, x, v) == cells' = [cells EXCEPT ![k][Cell(k, x)] = v]

LEMMA CellWrite ==
    ASSUME TypeOK, NEW k0 \in Arrays, NEW x \in Nat, NEW v \in Items, CellWritten(k0, x, v)
    PROVE  /\ DOMAIN cells' = Arrays
           /\ \A k \in Arrays : cells'[k] \in [0 .. ArraySize(k) - 1 -> Values]
           /\ cells'[k0][Cell(k0, x)] = v
           /\ \A k \in Arrays : k # k0 => cells'[k] = cells[k]
           /\ \A c \in 0 .. ArraySize(k0) - 1 :
                 c # Cell(k0, x) => cells'[k0][c] = cells[k0][c]
<1>1. DOMAIN cells = Arrays /\ \A k \in Arrays : cells[k] \in [0 .. ArraySize(k) - 1 -> Values]
  BY DEF TypeOK
<1>2. Cell(k0, x) \in 0 .. ArraySize(k0) - 1
  BY Cells, BoundsAssumption DEF Arrays
<1>3. DOMAIN cells' = Arrays /\ \A k \in Arrays : k # k0 => cells'[k] = cells[k]
  BY <1>1 DEF CellWritten
<1>4. cells'[k0] = [cells[k0] EXCEPT ![Cell(k0, x)] = v]
  BY <1>1 DEF CellWritten
<1>5. QED
  BY ZenonT(60), <1>1, <1>2, <1>3, <1>4 DEF Values

LEMMA FlushCellInv ==
    ASSUME IInv, sb # <<>>, sb' = Tail(sb), UNCHANGED <<top, owner, thieves, history>>,
           IsCell(1), UNCHANGED <<bottom, array>>,
           NEW k0 \in Arrays, NEW x \in Nat, NEW v \in Items,
           sb[1].array = k0, sb[1].index = x, sb[1].value = v, CellWritten(k0, x, v)
    PROVE  IInv'
<1> USE DEF IInv
<1>1. /\ UNCHANGED <<top, o_pc, o_bottom, o_array, o_t, pushed, taken, stolen>>
      /\ UNCHANGED <<t_pc, t_top, t_bottom, t_array, t_val>> /\ UNCHANGED <<bottom, array>>
  BY DEF owner, thieves, history
<1>2. End' = End /\ 1 \in Buffered
  BY FlushKeeps, Drained
<1>3. /\ top \in Nat /\ End \in Nat /\ array \in Nat /\ o_array \in Nat /\ k0 \in Nat
      /\ array <= o_array /\ o_array <= MaxGrow /\ MaxGrow \in Nat
  BY IndexType, BoundsAssumption DEF IndicesInv, Arrays
<1>4. top <= x /\ x < End /\ x - top < ArraySize(k0) /\ k0 <= array
  BY <1>2 DEF BufferInv
<1>5. /\ DOMAIN cells' = Arrays
      /\ \A k \in Arrays : cells'[k] \in [0 .. ArraySize(k) - 1 -> Values]
      /\ cells'[k0][Cell(k0, x)] = v
      /\ \A k \in Arrays : k # k0 => cells'[k] = cells[k]
      /\ \A c \in 0 .. ArraySize(k0) - 1 :
            c # Cell(k0, x) => cells'[k0][c] = cells[k0][c]
  BY CellWrite
<1>6. TypeOK'
  <2>1. sb' \in Seq(Stores) /\ Len(sb') <= StoreBufferSize
    BY Drained, BoundsAssumption DEF TypeOK
  <2>2. QED
    BY <1>1, <1>5, <2>1 DEF TypeOK
<1>7. ~IsArray(1) /\ ~IsBottom(1)
  BY DEF IsBottom, IsCell, IsArray
<1>8. IndicesInv'
  <2>1. array = o_array \/ \E j \in Buffered' : IsArray(j)' /\ sb'[j].index = o_array
    <3>1. CASE array # o_array
      <4>1. PICK j \in Buffered : IsArray(j) /\ sb[j].index = o_array
        BY <3>1 DEF IndicesInv
      <4>2. j - 1 \in Buffered' /\ IsArray(j - 1)' /\ sb'[j - 1] = sb[j]
        BY <1>7, <4>1, Drained
      <4>3. QED
        BY <4>1, <4>2
    <3>2. QED
      BY <3>1
  <2>2. ASSUME o_pc = "pop_top"
        PROVE  sb' # <<>> /\ IsBottom(Len(sb))' /\ sb'[Len(sb')].index = o_bottom
    <3>1. IsBottom(Len(sb)) /\ sb[Len(sb)].index = o_bottom
      BY <2>2 DEF IndicesInv
    <3>2. sb' # <<>>
      BY <1>7, <3>1, Drained
    <3>3. Len(sb') = Len(sb) - 1 /\ Len(sb) - 1 \in Buffered' /\ Len(sb) \in Nat
      BY <3>2, Drained
    <3>4. sb'[Len(sb) - 1] = sb[(Len(sb) - 1) + 1] /\ (Len(sb) - 1) + 1 = Len(sb)
      BY <3>3, Drained
    <3>5. QED
      BY <3>1, <3>2, <3>3, <3>4 DEF IsBottom
  <2>3. o_pc # "pop_cas"
    BY DEF IndicesInv
  <2>4. QED
    BY <1>1, <1>2, <2>1, <2>2, <2>3 DEF IndicesInv
<1>9. \A j \in Buffered' : IsCell(j)' => /\ x < sb'[j].index /\ k0 <= sb'[j].array
                                        /\ j + 1 \in Buffered /\ IsCell(j + 1)
                                        /\ sb'[j] = sb[j + 1]
  <2> SUFFICES ASSUME NEW j \in Buffered', IsCell(j)'
               PROVE  x < sb[j + 1].index /\ k0 <= sb[j + 1].array
    BY Drained
  <2>1. j + 1 \in Buffered /\ IsCell(j + 1) /\ 1 < j + 1
    BY Drained
  <2>2. QED
    BY <1>2, <2>1 DEF OrderInv
<1>10. BufferInv'
  <2> SUFFICES ASSUME NEW j \in Buffered'
               PROVE  /\ IsBottom(j)' => sb'[j].index <= End'
                      /\ IsArray(j)' => array' < sb'[j].index /\ sb'[j].index <= o_array'
                      /\ IsCell(j)' =>
                            /\ top' <= sb'[j].index /\ sb'[j].index < End'
                            /\ sb'[j].index - top' < ArraySize(sb'[j].array)
                            /\ bottom' <= sb'[j].index
                            /\ sb'[j].array <= o_array'
                            /\ \/ sb'[j].array <= array'
                               \/ \E m \in 1 .. j - 1 :
                                     IsArray(m)' /\ sb'[m].index = sb'[j].array
                            /\ \A i \in sb'[j].index .. End' - 1 : Unpublished(i)'
    BY DEF BufferInv, ArraySize
  <2>1. j \in Nat /\ j + 1 \in Buffered /\ sb'[j] = sb[j + 1] /\ 1 < j + 1
    BY Drained
  <2>2. ASSUME IsCell(j)', NEW i \in sb[j + 1].index .. End - 1
        PROVE  Unpublished(i)'
    <3>1. IsCell(j + 1) /\ x < sb[j + 1].index /\ sb[j + 1].index \in Nat
      BY <1>9, <2>1, <2>2, BufferType
    <3>2. Unpublished(i)
      BY <2>1, <3>1 DEF BufferInv
    <3>3. i # x
      BY <1>2, <3>1, IndexType
    <3>4. QED
      BY <1>3, <3>2, <3>3, Drained
  <2>3. ASSUME IsCell(j)'
        PROVE  \/ sb'[j].array <= array'
               \/ \E m \in 1 .. j - 1 : IsArray(m)' /\ sb'[m].index = sb'[j].array
    <3>1. \/ sb[j + 1].array <= array
          \/ \E m \in 1 .. (j + 1) - 1 : IsArray(m) /\ sb[m].index = sb[j + 1].array
      BY <2>1, <2>3, Drained DEF BufferInv
    <3>2. ASSUME NEW m \in 1 .. (j + 1) - 1, IsArray(m)
          PROVE  m - 1 \in 1 .. j - 1 /\ IsArray(m - 1)' /\ sb'[m - 1] = sb[m]
      <4>1. m \in Buffered /\ m # 1
        BY <1>7, <2>1, <3>2 DEF Buffered
      <4>2. m - 1 \in 1 .. j - 1
        BY <2>1, <4>1
      <4>3. QED
        BY <3>2, <4>1, <4>2, Drained
    <3>3. QED
      BY <1>1, <2>1, <3>1, <3>2
  <2>4. QED
    BY <1>1, <1>2, <1>7, <2>1, <2>2, <2>3, Drained DEF BufferInv
<1>11. ASSUME NEW k \in Arrays, NEW i \in Nat, k # k0 \/ (i < x /\ top <= i)
       PROVE  cells'[k][Cell(k, i)] = cells[k][Cell(k, i)]
  <2>1. CASE k # k0
    BY <1>5, <2>1
  <2>2. CASE k = k0 /\ i < x /\ top <= i
    <3>1. x - i < ArraySize(k0)
      <4>1. ArraySize(k0) \in Nat /\ top \in Nat
        BY <1>3, Sizes
      <4>2. QED
        BY <1>4, <2>2, <4>1
    <3>2. Cell(k0, i) # Cell(k0, x) /\ Cell(k0, i) \in 0 .. ArraySize(k0) - 1
      BY <1>3, <2>2, <3>1, Cells
    <3>3. QED
      BY <1>5, <2>2, <3>2
  <2>3. QED
    BY <1>11, <2>1, <2>2
<1>12. ASSUME NEW pos, Holds(pos)
       PROVE  ArraysHold(pos)' /\ ThievesHold(pos)'
  <2>1. v = pushed[pos[x]] /\ \A k \in k0 + 1 .. o_array : cells[k][Cell(k, x)] = pushed[pos[x]]
    BY <1>2, <1>3, <1>12 DEF Holds, ArraysHold
  <2>2. ASSUME NEW i \in top .. End - 1, NEW k \in array .. o_array, ~Unpublished(i)'
        PROVE  cells'[k][Cell(k, i)] = pushed[pos[i]]
    <3>1. k \in Arrays /\ k \in Nat /\ i \in Nat /\ k <= o_array /\ k0 <= k
      BY <1>3, <1>4 DEF Arrays
    <3>2. CASE i = x /\ k = k0
      BY <1>5, <2>1, <3>2
    <3>3. CASE i = x /\ k # k0
      <4>1. k \in k0 + 1 .. o_array
        BY <1>3, <3>1, <3>3
      <4>2. QED
        BY <1>11, <2>1, <3>1, <3>3, <4>1
    <3>4. CASE i # x
      <4>1. ~Unpublished(i)
        BY <1>3, <2>2, <3>4, Drained
      <4>2. i < x /\ top <= i
        <5>1. i \in x .. End - 1 => Unpublished(i)
          BY <1>2, <1>3 DEF BufferInv
        <5>2. QED
          BY <1>4, <3>1, <4>1, <5>1, IndexType
      <4>3. cells[k][Cell(k, i)] = pushed[pos[i]]
        BY <1>12, <4>1 DEF Holds, ArraysHold
      <4>4. QED
        BY <1>11, <3>1, <4>2, <4>3
    <3>5. QED
      BY <3>2, <3>3, <3>4
  <2>3. ASSUME NEW j \in Buffered', IsCell(j)'
        PROVE  /\ sb'[j].value = pushed[pos[sb'[j].index]]
               /\ \A k \in sb'[j].array + 1 .. o_array :
                     cells'[k][Cell(k, sb'[j].index)] = pushed[pos[sb'[j].index]]
    <3>1. /\ j + 1 \in Buffered /\ IsCell(j + 1) /\ sb'[j] = sb[j + 1]
          /\ k0 <= sb[j + 1].array
      BY <1>9, <2>3
    <3>2. /\ sb[j + 1].value = pushed[pos[sb[j + 1].index]]
          /\ \A k \in sb[j + 1].array + 1 .. o_array :
                cells[k][Cell(k, sb[j + 1].index)] = pushed[pos[sb[j + 1].index]]
      BY <1>12, <3>1 DEF Holds, ArraysHold
    <3>3. sb[j + 1].index \in Nat /\ sb[j + 1].array \in Nat
      BY <3>1, BufferType
    <3>4. \A k \in sb[j + 1].array + 1 .. o_array : k \in Arrays /\ k # k0
      <4>1. \A a \in Nat : k0 <= a => \A k \in a + 1 .. o_array : k \in Arrays /\ k # k0
        BY <1>3 DEF Arrays
      <4>2. QED
        BY <3>1, <3>3, <4>1
    <3>5. \A k \in sb[j + 1].array + 1 .. o_array :
             cells'[k][Cell(k, sb[j + 1].index)] = cells[k][Cell(k, sb[j + 1].index)]
      BY <1>11, <3>3, <3>4
    <3>6. QED
      BY <3>1, <3>2, <3>5
  <2>4. ArraysHold(pos)'
    BY <1>1, <1>2, <2>2, <2>3 DEF ArraysHold
  <2>5. ASSUME NEW t \in Thieves, SeesItem(t)', t_pc[t] = "steal_cell"
        PROVE  cells'[t_array[t]][Cell(t_array[t], top)] = pushed[pos[top]]
    <3>1. SeesItem(t) /\ ~Unpublished(top)
      BY <2>5, FlushKeeps DEF ThievesInv
    <3>2. top # x
      BY <1>2, <1>3, <3>1 DEF Unpublished
    <3>3. top \in Nat /\ top < x /\ t_array[t] \in Arrays
      BY <1>4, <3>2, IndexType DEF TypeOK
    <3>4. cells[t_array[t]][Cell(t_array[t], top)] = pushed[pos[top]]
      BY <1>12, <2>5, <3>1 DEF Holds, ThievesHold
    <3>5. QED
      BY <1>11, <3>3, <3>4
  <2>6. ThievesHold(pos)'
    <3>1. \A t \in Thieves : SeesItem(t)' /\ t_pc[t] = "steal_cas" => t_val[t] = pushed[pos[top]]
      BY <1>12, FlushKeeps DEF Holds, ThievesHold
    <3>2. QED
      BY <1>1, <2>5, <3>1 DEF ThievesHold
  <2>7. QED
    BY <2>4, <2>6
<1>13. QED
  BY <1>6, <1>8, <1>10, <1>12, FlushStep

LEMMA FlushInv ==
    ASSUME IInv, Flush
    PROVE  IInv'
<1>1. /\ sb # <<>> /\ sb' = Tail(sb) /\ UNCHANGED <<top, owner, thieves, history>>
      /\ TypeOK
  BY DEF Flush, IInv
<1>2. Head(sb) = sb[1]
  BY <1>1, Drained
<1>3. CASE Head(sb).to = "bottom"
  BY <1>1, <1>2, <1>3, FlushBottomInv DEF Flush, IsBottom
<1>4. CASE Head(sb).to = "array"
  BY <1>1, <1>2, <1>4, FlushArrayInv DEF Flush, IsArray
<1>5. CASE Head(sb).to = "cell"
  <2>1. 1 \in Buffered /\ IsCell(1)
    BY <1>1, <1>2, <1>5, Drained DEF IsCell
  <2>2. PICK k \in Arrays, x \in Nat, v \in Items :
            sb[1].array = k /\ sb[1].index = x /\ sb[1].value = v
    BY <1>1, <2>1, BufferType
  <2>3. CellWritten(k, x, v) /\ UNCHANGED <<bottom, array>>
    BY <1>2, <1>5, <2>2 DEF Flush, CellWritten
  <2>4. QED
    BY <1>1, <2>1, <2>2, <2>3, FlushCellInv
<1>6. QED
  BY <1>3, <1>4, <1>5 DEF Flush

-----------------------------------------------------------------------------
(* The owner's stores go into the buffer.                                  *)

\* The buffer with new stores behind the old ones.
LEMMA Extended ==
    ASSUME TypeOK, NEW stores \in Seq(Stores), Store(stores)
    PROVE  /\ sb' \in Seq(Stores) /\ Len(sb') <= StoreBufferSize
           /\ Len(stores) \in Nat /\ Len(sb) \in Nat /\ Len(sb') = Len(sb) + Len(stores)
           /\ \A j \in Buffered :
                 /\ j \in Nat /\ j <= Len(sb) /\ j \in Buffered' /\ sb'[j] = sb[j]
                 /\ IsCell(j)' <=> IsCell(j)
                 /\ IsBottom(j)' <=> IsBottom(j)
                 /\ IsArray(j)' <=> IsArray(j)
           /\ \A n \in 1 .. Len(stores) :
                 Len(sb) + n \in Buffered' /\ sb'[Len(sb) + n] = stores[n]
           /\ \A j \in Buffered' : j \in Buffered \/ j - Len(sb) \in 1 .. Len(stores)
           /\ \A i : Unpublished(i) => Unpublished(i)'
           /\ \A i : Unpublished(i)' => Unpublished(i) \/ \E n \in 1 .. Len(stores) :
                                           stores[n].to = "cell" /\ stores[n].index = i
<1>1. sb \in Seq(Stores) /\ Len(sb) \in Nat /\ Len(stores) \in Nat
  BY DEF TypeOK
<1>2. sb' = sb \o stores /\ Len(sb) + Len(stores) <= StoreBufferSize
  BY DEF Store
<1>3. /\ sb' \in Seq(Stores) /\ Len(sb') = Len(sb) + Len(stores)
      /\ \A j \in 1 .. Len(sb) : sb'[j] = sb[j]
      /\ \A n \in 1 .. Len(stores) : sb'[Len(sb) + n] = stores[n]
  BY <1>1, <1>2
<1>4. ASSUME NEW j \in Buffered
      PROVE  /\ j \in Nat /\ j <= Len(sb) /\ j \in Buffered' /\ sb'[j] = sb[j]
             /\ IsCell(j)' <=> IsCell(j)
             /\ IsBottom(j)' <=> IsBottom(j)
             /\ IsArray(j)' <=> IsArray(j)
  BY <1>1, <1>3 DEF Buffered, IsCell, IsBottom, IsArray
<1>5. \A n \in 1 .. Len(stores) : Len(sb) + n \in Buffered'
  BY <1>1, <1>3 DEF Buffered
<1>6. \A j \in Buffered' : j \in Buffered \/ j - Len(sb) \in 1 .. Len(stores)
  BY <1>1, <1>3 DEF Buffered
<1>7. \A i : Unpublished(i) => Unpublished(i)'
  BY <1>4 DEF Unpublished
<1>8. ASSUME NEW i, Unpublished(i)'
      PROVE  Unpublished(i) \/ \E n \in 1 .. Len(stores) :
                                  stores[n].to = "cell" /\ stores[n].index = i
  <2>1. PICK j \in Buffered' : IsCell(j)' /\ sb'[j].index = i
    BY <1>8 DEF Unpublished
  <2>2. CASE j \in Buffered
    BY <1>4, <2>1, <2>2 DEF Unpublished
  <2>3. CASE j - Len(sb) \in 1 .. Len(stores)
    <3>1. j = Len(sb) + (j - Len(sb))
      BY <1>1, <2>1, <1>3 DEF Buffered
    <3>2. sb'[j] = stores[j - Len(sb)]
      BY <1>3, <2>3, <3>1
    <3>3. QED
      BY <2>1, <2>3, <3>2 DEF IsCell
  <2>4. QED
    BY <1>6, <2>1, <2>2, <2>3
<1>9. QED
  BY <1>1, <1>2, <1>3, <1>4, <1>5, <1>6, <1>7, <1>8

\* One store of `bottom`.
LEMMA OneBottom ==
    ASSUME TypeOK, NEW b \in Nat \cup {-1}, Store(<<BottomStore(b)>>)
    PROVE  /\ sb' \in Seq(Stores) /\ Len(sb') <= StoreBufferSize
           /\ Len(sb) \in Nat /\ Len(sb') = Len(sb) + 1 /\ sb' # <<>>
           /\ \A j \in Buffered :
                 /\ j \in Nat /\ j <= Len(sb) /\ j \in Buffered' /\ sb'[j] = sb[j]
                 /\ IsCell(j)' <=> IsCell(j)
                 /\ IsBottom(j)' <=> IsBottom(j)
                 /\ IsArray(j)' <=> IsArray(j)
           /\ IsBottom(Len(sb))' /\ sb'[Len(sb')].index = b
           /\ ~IsCell(Len(sb))' /\ ~IsArray(Len(sb))'
           /\ \A j \in Buffered' : j \in Buffered \/ j = Len(sb')
           /\ \A i : Unpublished(i)' <=> Unpublished(i)
<1> DEFINE stores == <<BottomStore(b)>>
<1>1. stores \in Seq(Stores) /\ Len(stores) = 1 /\ stores[1] = BottomStore(b)
  BY BottomStoreType
<1>2. BottomStore(b).to = "bottom" /\ BottomStore(b).index = b
  BY BottomStoreType
<1>3. Store(stores)
  OBVIOUS
<1> HIDE DEF stores
<1>4. /\ sb' \in Seq(Stores) /\ Len(sb') <= StoreBufferSize
      /\ Len(sb) \in Nat /\ Len(sb') = Len(sb) + 1
      /\ \A j \in Buffered :
            /\ j \in Nat /\ j <= Len(sb) /\ j \in Buffered' /\ sb'[j] = sb[j]
            /\ IsCell(j)' <=> IsCell(j)
            /\ IsBottom(j)' <=> IsBottom(j)
            /\ IsArray(j)' <=> IsArray(j)
  BY <1>1, <1>3, Extended
<1>5. sb'[Len(sb')] = BottomStore(b)
  <2>1. 1 \in 1 .. Len(stores) /\ Len(sb') = Len(sb) + 1
    BY <1>1, <1>4
  <2>2. QED
    BY <1>1, <1>3, <2>1, Extended
<1>6. sb' # <<>>
  <2>1. Len(sb') # 0
    BY <1>4
  <2>2. QED
    BY <2>1, EmptySeq
<1>7. \A j \in Buffered' : j \in Buffered \/ j = Len(sb')
  <2> SUFFICES ASSUME NEW j \in Buffered', j \notin Buffered
               PROVE  j = Len(sb')
    OBVIOUS
  <2>1. j - Len(sb) \in 1 .. 1 /\ j \in Int
    BY SMTT(60), <1>1, <1>3, Extended DEF Buffered
  <2>2. QED
    BY <1>4, <2>1
<1>8. \A i : Unpublished(i)' <=> Unpublished(i)
  <2>1. \A n \in 1 .. Len(stores) : stores[n].to # "cell"
    BY <1>1, <1>2
  <2>2. QED
    BY <1>1, <1>3, <2>1, Extended
<1>9. QED
  BY <1>2, <1>4, <1>5, <1>6, <1>7, <1>8 DEF IsBottom, IsCell, IsArray

-----------------------------------------------------------------------------
(* pop_bottom                                                              *)

\* A step of the owner that leaves a thief's item in the deque and published.
LEMMA ThievesKept ==
    ASSUME TypeOK, ThievesInv, UNCHANGED <<t_pc, t_top, t_bottom, t_array, t_val, top>>,
           o_array' \in Nat, o_array \in Nat, o_array <= o_array',
           top < End /\ ~Unpublished(top) => top < End' /\ ~Unpublished(top)'
    PROVE  ThievesInv' /\ \A t \in Thieves : SeesItem(t)' <=> SeesItem(t)
<1>1. \A t \in Thieves : SeesItem(t)' <=> SeesItem(t)
  BY DEF SeesItem
<1>2. ASSUME NEW t \in Thieves
      PROVE  /\ t_pc'[t] # "idle" => t_top'[t] <= top'
             /\ t_pc'[t] \in {"steal_cell", "steal_cas"} =>
                   t_top'[t] < t_bottom'[t] /\ t_array'[t] <= o_array'
             /\ SeesItem(t)' => top' < End' /\ ~Unpublished(top)'
  <2>1. t_array[t] \in Nat
    BY BoundsAssumption DEF TypeOK, Arrays
  <2>2. SeesItem(t)' => top' < End' /\ ~Unpublished(top)'
    BY <1>1 DEF ThievesInv
  <2>3. QED
    BY <2>1, <2>2 DEF ThievesInv
<1>3. QED
  BY <1>1, <1>2 DEF ThievesInv

LEMMA PopStoreBottomInv ==
    ASSUME IInv, PopStoreBottom
    PROVE  IInv'
<1> USE DEF IInv
<1>1. /\ UNCHANGED <<top, bottom, array, cells, o_array, o_t, pushed, taken, stolen>>
      /\ UNCHANGED <<t_pc, t_top, t_bottom, t_array, t_val>>
  BY DEF PopStoreBottom, memory, thieves, history
<1>2. /\ o_pc = "idle" /\ o_pc' = "pop_top" /\ o_bottom' = o_bottom - 1
      /\ Store(<<BottomStore(o_bottom - 1)>>)
  BY DEF PopStoreBottom
<1>3. End = o_bottom /\ End' = End /\ End \in Nat /\ o_bottom - 1 \in Nat \cup {-1}
  BY <1>2, IndexType DEF End
<1>4. /\ sb' \in Seq(Stores) /\ Len(sb') <= StoreBufferSize
      /\ Len(sb) \in Nat /\ Len(sb') = Len(sb) + 1 /\ sb' # <<>>
      /\ \A j \in Buffered :
            /\ j \in Nat /\ j <= Len(sb) /\ j \in Buffered' /\ sb'[j] = sb[j]
            /\ IsCell(j)' <=> IsCell(j)
            /\ IsBottom(j)' <=> IsBottom(j)
            /\ IsArray(j)' <=> IsArray(j)
      /\ IsBottom(Len(sb))' /\ sb'[Len(sb')].index = o_bottom'
      /\ ~IsCell(Len(sb))' /\ ~IsArray(Len(sb))'
      /\ \A j \in Buffered' : j \in Buffered \/ j = Len(sb')
      /\ \A i : Unpublished(i)' <=> Unpublished(i)
  BY <1>2, <1>3, OneBottom
<1>5. TypeOK'
  BY <1>1, <1>2, <1>3, <1>4 DEF TypeOK
<1>6. IndicesInv'
  BY <1>1, <1>2, <1>3, <1>4 DEF IndicesInv
<1>7. BufferInv'
  <2> SUFFICES ASSUME NEW j \in Buffered'
               PROVE  /\ IsBottom(j)' => sb'[j].index <= End'
                      /\ IsArray(j)' => array' < sb'[j].index /\ sb'[j].index <= o_array'
                      /\ IsCell(j)' =>
                            /\ top' <= sb'[j].index /\ sb'[j].index < End'
                            /\ sb'[j].index - top' < ArraySize(sb'[j].array)
                            /\ bottom' <= sb'[j].index
                            /\ sb'[j].array <= o_array'
                            /\ \/ sb'[j].array <= array'
                               \/ \E m \in 1 .. j - 1 :
                                     IsArray(m)' /\ sb'[m].index = sb'[j].array
                            /\ \A i \in sb'[j].index .. End' - 1 : Unpublished(i)'
    BY DEF BufferInv, ArraySize
  <2>1. CASE j = Len(sb')
    <3>1. ~IsCell(j)' /\ ~IsArray(j)' /\ sb'[j].index = o_bottom - 1
      BY <1>2, <1>4, <2>1 DEF IsCell, IsArray
    <3>2. QED
      BY <1>3, <3>1
  <2>2. CASE j \in Buffered
    <3>1. \A m \in 1 .. j - 1 : m \in Buffered
      BY <1>4, <2>2 DEF Buffered
    <3>2. \A m \in 1 .. j - 1 : (IsArray(m)' <=> IsArray(m)) /\ sb'[m] = sb[m]
      BY <1>4, <3>1
    <3>3. QED
      BY <1>1, <1>3, <1>4, <2>2, <3>2 DEF BufferInv
  <2>3. QED
    BY <1>4, <2>1, <2>2
<1>8. OrderInv'
  <2> SUFFICES ASSUME NEW j \in Buffered', NEW m \in Buffered', j < m
               PROVE  /\ IsBottom(j)' /\ IsCell(m)' => sb'[j].index <= sb'[m].index
                      /\ IsCell(j)' /\ IsCell(m)' =>
                            sb'[j].index < sb'[m].index /\ sb'[j].array <= sb'[m].array
                      /\ IsArray(j)' /\ IsArray(m)' => sb'[j].index < sb'[m].index
    BY DEF OrderInv
  <2>1. CASE m = Len(sb')
    BY <1>4, <2>1 DEF IsCell, IsArray
  <2>2. CASE m \in Buffered
    <3>1. j \in Buffered
      BY <1>4, <2>2 DEF Buffered
    <3>2. QED
      BY <1>4, <2>2, <3>1 DEF OrderInv
  <2>3. QED
    BY <1>4, <2>1, <2>2
<1>9. \A v : Position(v)' = Position(v)
  BY <1>1 DEF Position
<1>10. HistoryInv'
  BY <1>1, HistoryKept
<1>11. ThievesInv' /\ \A t \in Thieves : SeesItem(t)' <=> SeesItem(t)
  BY <1>1, <1>3, <1>4, IndexType, ThievesKept
<1>12. PICK pos \in [top .. End - 1 -> 1 .. Len(pushed)] : Holds(pos)
  OBVIOUS
<1>13. DequeHolds(pos)'
  BY <1>1, <1>3, <1>9, <1>12 DEF Holds, DequeHolds
<1>14. ArraysHold(pos)'
  <2>1. ASSUME NEW j \in Buffered', IsCell(j)'
        PROVE  j \in Buffered /\ IsCell(j) /\ sb'[j] = sb[j]
    BY <1>4, <2>1 DEF IsCell
  <2>2. \A i \in top .. End - 1, k \in array .. o_array :
           ~Unpublished(i)' => cells[k][Cell(k, i)] = pushed[pos[i]]
    BY <1>4, <1>12 DEF Holds, ArraysHold
  <2>3. ASSUME NEW j \in Buffered', IsCell(j)'
        PROVE  /\ sb'[j].value = pushed[pos[sb'[j].index]]
               /\ \A k \in sb'[j].array + 1 .. o_array :
                     cells[k][Cell(k, sb'[j].index)] = pushed[pos[sb'[j].index]]
    <3>1. /\ sb[j].value = pushed[pos[sb[j].index]]
          /\ \A k \in sb[j].array + 1 .. o_array :
                cells[k][Cell(k, sb[j].index)] = pushed[pos[sb[j].index]]
      BY <1>12, <2>1, <2>3 DEF Holds, ArraysHold
    <3>2. QED
      BY <2>1, <2>3, <3>1
  <2>4. QED
    BY <1>1, <1>3, <2>2, <2>3 DEF ArraysHold
<1>15. ThievesHold(pos)'
  BY <1>1, <1>11, <1>12 DEF Holds, ThievesHold
<1>16. QED
  BY <1>1, <1>3, <1>5, <1>6, <1>7, <1>8, <1>10, <1>11, <1>12, <1>13, <1>14, <1>15 DEF Holds

\* With an empty buffer memory is what the owner sees.
LEMMA Empty ==
    ASSUME IndicesInv, sb = <<>>
    PROVE  Buffered = {} /\ array = o_array /\ \A i : ~Unpublished(i)
<1>1. Len(sb) = 0
  BY EmptySeq
<1>2. Buffered = {}
  BY <1>1 DEF Buffered
<1>3. QED
  BY <1>2 DEF Unpublished, IndicesInv

\* RestoreBottom after a drained buffer: nothing but the new `bottom` is on its way.
LEMMA Restored ==
    ASSUME TypeOK, IndicesInv, sb = <<>>, NEW b \in Nat, RestoreBottom(b)
    PROVE  /\ sb' \in Seq(Stores) /\ Len(sb') <= StoreBufferSize /\ End' = b
           /\ BufferInv' /\ OrderInv' /\ (\A i : ~Unpublished(i)')
           /\ \A j \in Buffered' : ~IsCell(j)'
<1>1. o_pc' = "idle" /\ o_bottom' = b /\ End' = b
  BY DEF RestoreBottom, End
<1>2. b \in Nat \cup {-1} /\ Store(<<BottomStore(b)>>)
  BY DEF RestoreBottom
<1>3. /\ sb' \in Seq(Stores) /\ Len(sb') <= StoreBufferSize
      /\ IsBottom(Len(sb))' /\ sb'[Len(sb')].index = b
      /\ ~IsCell(Len(sb))' /\ ~IsArray(Len(sb))'
      /\ \A j \in Buffered' : j \in Buffered \/ j = Len(sb')
      /\ \A i : Unpublished(i)' <=> Unpublished(i)
  BY <1>2, OneBottom
<1>4. ASSUME NEW j \in Buffered'
      PROVE  ~IsCell(j)' /\ ~IsArray(j)' /\ sb'[j].index = b
  BY <1>3, Empty DEF IsCell, IsArray
<1>5. BufferInv'
  BY <1>1, <1>4 DEF BufferInv
<1>6. OrderInv'
  BY <1>4 DEF OrderInv
<1>7. QED
  BY <1>1, <1>3, <1>4, <1>5, <1>6, Empty

\* The deque is empty, found so or after a thief took the last item: pop_bottom
\* takes nothing.
LEMMA PopEmptyInv ==
    ASSUME IInv, sb = <<>>, o_pc # "idle", bottom <= End, RestoreBottom(top), top = End,
           UNCHANGED <<memory, o_array, thieves, history>>
    PROVE  IInv'
<1> USE DEF IInv
<1>1. /\ UNCHANGED <<top, bottom, array, cells, o_array, pushed, taken, stolen>>
      /\ UNCHANGED <<t_pc, t_top, t_bottom, t_array, t_val>>
  BY DEF memory, thieves, history
<1>2. top \in Nat /\ o_array \in Nat /\ array = o_array /\ ArraySize(o_array) \in Nat \ {0}
  BY IndexType, Empty
<1>3. o_pc' = "idle" /\ o_bottom' = top /\ o_t' = 0 /\ End' = End
  BY <1>2, Restored DEF RestoreBottom
<1>4. TypeOK'
  BY <1>1, <1>2, <1>3, Restored DEF TypeOK
<1>5. IndicesInv'
  BY <1>1, <1>2, <1>3 DEF IndicesInv
<1>6. BufferInv' /\ OrderInv' /\ (\A i : ~Unpublished(i)') /\ \A j \in Buffered' : ~IsCell(j)'
  BY <1>2, Restored
<1>7. \A v : Position(v)' = Position(v)
  BY <1>1 DEF Position
<1>8. HistoryInv'
  BY <1>1, HistoryKept
<1>9. ThievesInv' /\ \A t \in Thieves : SeesItem(t)' <=> SeesItem(t)
  BY <1>1, <1>2, <1>3, <1>6, ThievesKept
<1>10. PICK pos \in [top .. End - 1 -> 1 .. Len(pushed)] : Holds(pos)
  OBVIOUS
<1>11. DequeHolds(pos)'
  BY <1>1, <1>3, <1>7, <1>10 DEF Holds, DequeHolds
<1>12. ArraysHold(pos)'
  <2>1. \A i \in top .. End - 1, k \in array .. o_array :
           cells[k][Cell(k, i)] = pushed[pos[i]]
    BY <1>10, Empty DEF Holds, ArraysHold
  <2>2. QED
    BY <1>1, <1>3, <1>6, <2>1 DEF ArraysHold
<1>13. ThievesHold(pos)'
  BY <1>1, <1>9, <1>10 DEF Holds, ThievesHold
<1>14. QED
  BY <1>1, <1>3, <1>4, <1>5, <1>6, <1>8, <1>9, <1>10, <1>11, <1>12, <1>13 DEF Holds

\* What pop_bottom returns is the newest item of the deque.
LEMMA PoppedItem ==
    ASSUME TypeOK, IndicesInv, BufferInv, OrderInv, NEW pos, ArraysHold(pos),
           o_pc # "idle", top < End
    PROVE  Popped = pushed[pos[End - 1]] /\ End - 1 \in top .. End - 1
<1>1. o_bottom = End - 1 /\ End - 1 \in top .. End - 1
  BY IndexType DEF End
<1>2. QED
  BY <1>1, OwnerReads DEF Popped

\* More than one item is left, so pop_bottom takes the newest without a CAS.
LEMMA PopNewestInv ==
    ASSUME IInv, o_pc = "pop_top", sb = <<>>, o_bottom - top > 0,
           taken' = [taken EXCEPT ![Popped] = @ + 1], o_pc' = "idle",
           UNCHANGED <<memory, sb, o_bottom, o_array, o_t, thieves, pushed, stolen>>
    PROVE  IInv'
<1> USE DEF IInv
<1>1. /\ UNCHANGED <<top, bottom, array, cells, sb, o_bottom, o_array, o_t, pushed, stolen>>
      /\ UNCHANGED <<t_pc, t_top, t_bottom, t_array, t_val>>
  BY DEF memory, thieves
<1>2. /\ top \in Nat /\ o_array \in Nat /\ array = o_array /\ o_bottom \in Nat
      /\ End \in Nat /\ End = o_bottom + 1 /\ End' = o_bottom /\ top < End
      /\ ArraySize(o_array) \in Nat /\ End - top < ArraySize(o_array)
  BY <1>1, IndexType, Empty DEF End
<1>3. bottom = o_bottom
  BY DEF IndicesInv
<1>4. PICK pos \in [top .. End - 1 -> 1 .. Len(pushed)] : Holds(pos)
  OBVIOUS
<1>5. Popped = pushed[pos[End - 1]] /\ End - 1 \in top .. End - 1
      /\ pos[End - 1] \in 1 .. Len(pushed)
  BY <1>2, <1>4, PoppedItem DEF Holds
<1>6. /\ pushed[pos[End - 1]] \in Values /\ taken' \in [Values -> Nat]
      /\ \A m \in 1 .. Len(pushed) : m # pos[End - 1] => taken'[pushed[m]] = taken[pushed[m]]
      /\ taken'[pushed[pos[End - 1]]] = taken[pushed[pos[End - 1]]] + 1
      /\ \A v \in Values : (\A m \in 1 .. Len(pushed) : pushed[m] # v) => taken'[v] = 0
  BY <1>5, Take
<1>7. taken'[pushed[pos[End - 1]]] = 1
  <2>1. taken[pushed[pos[End - 1]]] = 0
    BY <1>4, <1>5 DEF Holds, DequeHolds
  <2>2. QED
    BY <1>6, <2>1
<1>8. TypeOK'
  BY <1>1, <1>6 DEF TypeOK
<1>9. IndicesInv'
  BY <1>1, <1>2, <1>3 DEF IndicesInv
<1>10. Buffered' = {} /\ \A i : ~Unpublished(i)' /\ ~Unpublished(i)
  BY <1>1, Empty DEF Buffered, Unpublished
<1>11. BufferInv' /\ OrderInv'
  BY <1>10 DEF BufferInv, OrderInv
<1>12. \A v : Position(v)' = Position(v)
  BY <1>1 DEF Position
<1>13. HistoryInv'
  BY <1>1, <1>6, HistoryKept
<1>14. ThievesInv' /\ \A t \in Thieves : SeesItem(t)' <=> SeesItem(t)
  BY <1>1, <1>2, <1>10, ThievesKept
<1>15. PICK q \in [top .. (End - 1) - 1 -> 1 .. Len(pushed)] :
            \A i \in top .. (End - 1) - 1 : q[i] = pos[i]
  <2>1. \A i \in top .. (End - 1) - 1 : pos[i] \in 1 .. Len(pushed)
    BY <1>2, <1>4
  <2>2. [i \in top .. (End - 1) - 1 |-> pos[i]]
            \in [top .. (End - 1) - 1 -> 1 .. Len(pushed)]
    BY <2>1
  <2>3. QED
    BY <2>2
<1>16. \A i \in top .. (End - 1) - 1 :
          i \in top .. End - 1 /\ i < End - 1 /\ q[i] = pos[i]
  BY <1>2, <1>15
<1>17. DequeHolds(q)'
  <2>1. \A i, j \in top .. (End - 1) - 1 : i < j => q[i] < q[j]
    BY <1>4, <1>16 DEF Holds, DequeHolds
  <2>2. ASSUME NEW n \in 1 .. Len(pushed)
        PROVE  taken'[pushed[n]] = IF \E i \in top .. (End - 1) - 1 : q[i] = n THEN 0 ELSE 1
    <3>1. CASE n = pos[End - 1]
      <4>1. \A i \in top .. (End - 1) - 1 : q[i] # n
        BY <1>4, <1>5, <1>16, <3>1 DEF Holds, DequeHolds
      <4>2. QED
        BY <1>7, <3>1, <4>1
    <3>2. CASE n # pos[End - 1]
      <4>1. \A i \in top .. End - 1 : i = End - 1 \/ i \in top .. (End - 1) - 1
        BY <1>2
      <4>2. (\E i \in top .. (End - 1) - 1 : q[i] = n) <=> (\E i \in top .. End - 1 : pos[i] = n)
        BY <1>16, <3>2, <4>1
      <4>3. taken'[pushed[n]] = taken[pushed[n]]
        BY <1>6, <3>2
      <4>4. QED
        BY <1>4, <4>2, <4>3 DEF Holds, DequeHolds
    <3>3. QED
      BY <3>1, <3>2
  <2>3. \A m \in 1 .. Len(stolen), i \in top .. (End - 1) - 1 : Position(stolen[m]) < q[i]
    BY <1>4, <1>16 DEF Holds, DequeHolds
  <2>4. End' = End - 1
    BY <1>2
  <2>5. QED
    BY <1>1, <1>12, <2>1, <2>2, <2>3, <2>4 DEF DequeHolds
<1>18. ArraysHold(q)'
  <2>1. \A i \in top .. (End - 1) - 1, k \in array .. o_array :
           cells[k][Cell(k, i)] = pushed[q[i]]
    BY <1>4, <1>10, <1>16 DEF Holds, ArraysHold
  <2>2. End' = End - 1
    BY <1>2
  <2>3. QED
    BY <1>1, <1>10, <2>1, <2>2 DEF ArraysHold
<1>19. ThievesHold(q)'
  <2>1. q[top] = pos[top]
    BY <1>2, <1>16
  <2>2. QED
    BY <1>1, <1>4, <1>14, <2>1 DEF Holds, ThievesHold
<1>20. q \in [top' .. End' - 1 -> 1 .. Len(pushed')]
  <2>1. End' = End - 1
    BY <1>2
  <2>2. QED
    BY <1>1, <1>15, <2>1
<1>21. QED
  BY <1>8, <1>9, <1>11, <1>13, <1>14, <1>17, <1>18, <1>19, <1>20 DEF Holds

\* One item is left: the owner and the thieves will compete for it.
LEMMA PopLastInv ==
    ASSUME IInv, o_pc = "pop_top", sb = <<>>, o_bottom - top = 0, o_t' = top,
           o_pc' = "pop_cas",
           UNCHANGED <<memory, sb, o_bottom, o_array, thieves, history>>
    PROVE  IInv'
<1> USE DEF IInv
<1>1. /\ UNCHANGED <<top, bottom, array, cells, sb, o_bottom, o_array, pushed, taken, stolen>>
      /\ UNCHANGED <<t_pc, t_top, t_bottom, t_array, t_val>>
  BY DEF memory, thieves, history
<1>2. top \in Nat /\ o_array \in Nat /\ o_bottom = top /\ bottom = o_bottom /\ End' = End
  BY <1>1, IndexType DEF End, IndicesInv
<1>3. TypeOK'
  BY <1>1, <1>2 DEF TypeOK
<1>4. Buffered' = {} /\ \A i : ~Unpublished(i)' /\ ~Unpublished(i)
  BY <1>1, Empty DEF Buffered, Unpublished
<1>5. IndicesInv'
  BY <1>1, <1>2, Empty DEF IndicesInv
<1>6. BufferInv' /\ OrderInv'
  BY <1>4 DEF BufferInv, OrderInv
<1>7. \A v : Position(v)' = Position(v)
  BY <1>1 DEF Position
<1>8. HistoryInv'
  BY <1>1, HistoryKept
<1>9. ThievesInv' /\ \A t \in Thieves : SeesItem(t)' <=> SeesItem(t)
  BY <1>1, <1>2, <1>4, ThievesKept
<1>10. PICK pos \in [top .. End - 1 -> 1 .. Len(pushed)] : Holds(pos)
  OBVIOUS
<1>11. DequeHolds(pos)'
  BY <1>1, <1>2, <1>7, <1>10 DEF Holds, DequeHolds
<1>12. ArraysHold(pos)'
  BY <1>1, <1>2, <1>4, <1>10 DEF Holds, ArraysHold
<1>13. ThievesHold(pos)'
  BY <1>1, <1>9, <1>10 DEF Holds, ThievesHold
<1>14. QED
  BY <1>1, <1>2, <1>3, <1>5, <1>6, <1>8, <1>9, <1>10, <1>11, <1>12, <1>13 DEF Holds

LEMMA PopReadTopInv ==
    ASSUME Fenced, IInv, PopReadTop
    PROVE  IInv'
<1>1. o_pc = "pop_top" /\ sb = <<>>
  BY DEF PopReadTop
<1>2. /\ top \in Nat /\ o_bottom \in Int /\ top <= End /\ End = o_bottom + 1
      /\ bottom = o_bottom
  BY <1>1, IndexType DEF IInv, End, IndicesInv
<1>3. CASE o_bottom - top < 0
  <2>1. top = End /\ bottom <= End
    BY <1>2, <1>3
  <2>2. RestoreBottom(top) /\ UNCHANGED <<memory, o_array, thieves, history>>
    BY <1>2, <1>3 DEF PopReadTop
  <2>3. QED
    BY <1>1, <2>1, <2>2, PopEmptyInv
<1>4. CASE o_bottom - top > 0
  BY <1>1, <1>2, <1>4, PopNewestInv DEF PopReadTop
<1>5. CASE o_bottom - top = 0
  BY <1>1, <1>2, <1>5, PopLastInv DEF PopReadTop
<1>6. QED
  BY <1>3, <1>4, <1>5 DEF PopReadTop

LEMMA PopCASInv ==
    ASSUME IInv, PopCAS
    PROVE  IInv'
<1> USE DEF IInv
<1>1. /\ sb = <<>> /\ o_pc = "pop_cas" /\ RestoreBottom(o_t + 1)
      /\ UNCHANGED <<bottom, array, cells, o_array, pushed, stolen>>
      /\ UNCHANGED <<t_pc, t_top, t_bottom, t_array, t_val>>
  BY DEF PopCAS, thieves
<1>2. /\ top \in Nat /\ o_t \in Nat /\ o_array \in Nat /\ array = o_array
      /\ End = o_t + 1 /\ o_t <= top /\ top <= End /\ bottom = o_t
      /\ ArraySize(o_array) \in Nat \ {0}
  <2>1. o_t \in Nat /\ array = o_array
    BY <1>1, Empty DEF TypeOK
  <2>2. QED
    BY <1>1, <2>1, IndexType DEF End, IndicesInv
<1>3. CASE top # o_t
  <2>1. top = End /\ o_t + 1 = top /\ bottom <= End /\ UNCHANGED <<top, taken>>
    BY <1>2, <1>3 DEF PopCAS
  <2>2. UNCHANGED <<memory, o_array, thieves, history>>
    BY <1>1, <2>1 DEF memory, thieves, history
  <2>3. QED
    BY <1>1, <2>1, <2>2, PopEmptyInv
<1>4. CASE top = o_t
  <2>1. top' = top + 1 /\ taken' = [taken EXCEPT ![Popped] = @ + 1]
    BY <1>4 DEF PopCAS
  <2>2. /\ sb' \in Seq(Stores) /\ Len(sb') <= StoreBufferSize /\ End' = top + 1
        /\ BufferInv' /\ OrderInv' /\ (\A i : ~Unpublished(i)')
        /\ \A j \in Buffered' : ~IsCell(j)'
    BY <1>1, <1>2, <1>4, Restored
  <2>3. End' = End /\ End = top + 1 /\ o_pc' = "idle" /\ o_bottom' = top + 1 /\ o_t' = 0
    BY <1>1, <1>2, <1>4, <2>2 DEF RestoreBottom
  <2>4. PICK pos \in [top .. End - 1 -> 1 .. Len(pushed)] : Holds(pos)
    OBVIOUS
  <2>5. Popped = pushed[pos[top]] /\ top \in top .. End - 1 /\ pos[top] \in 1 .. Len(pushed)
    <3>1. top < End /\ End - 1 = top
      BY <1>2, <2>3
    <3>2. Popped = pushed[pos[End - 1]] /\ End - 1 \in top .. End - 1
      BY <1>1, <2>4, <3>1, PoppedItem DEF Holds
    <3>3. QED
      BY <2>4, <3>1, <3>2
  <2>6. /\ pushed[pos[top]] \in Values /\ taken' \in [Values -> Nat]
        /\ \A m \in 1 .. Len(pushed) : m # pos[top] => taken'[pushed[m]] = taken[pushed[m]]
        /\ taken'[pushed[pos[top]]] = taken[pushed[pos[top]]] + 1
        /\ \A v \in Values : (\A m \in 1 .. Len(pushed) : pushed[m] # v) => taken'[v] = 0
    BY <2>1, <2>5, Take
  <2>7. taken'[pushed[pos[top]]] = 1
    <3>1. taken[pushed[pos[top]]] = 0
      BY <2>4, <2>5 DEF Holds, DequeHolds
    <3>2. QED
      BY <2>6, <3>1
  <2>8. TypeOK'
    <3>1. top' \in Nat /\ o_bottom' \in Nat \cup {-1} /\ o_t' \in Nat
      BY <1>2, <2>1, <2>3
    <3>2. QED
      BY <1>1, <2>2, <2>3, <2>6, <3>1 DEF TypeOK
  <2>9. IndicesInv'
    BY <1>1, <1>2, <1>4, <2>1, <2>3 DEF IndicesInv
  <2>10. \A v : Position(v)' = Position(v)
    BY <1>1 DEF Position
  <2>11. HistoryInv'
    BY <1>1, <2>6, HistoryKept
  <2>12. \A t \in Thieves : ~SeesItem(t)'
    <3> SUFFICES ASSUME NEW t \in Thieves, SeesItem(t)'
                 PROVE  FALSE
      OBVIOUS
    <3>1. t_pc[t] # "idle" /\ t_top[t] = top + 1
      BY <1>1, <2>1 DEF SeesItem
    <3>2. QED
      BY <1>2, <3>1 DEF ThievesInv
  <2>13. ThievesInv'
    <3> SUFFICES ASSUME NEW t \in Thieves
                 PROVE  /\ t_pc'[t] # "idle" => t_top'[t] <= top'
                        /\ t_pc'[t] \in {"steal_cell", "steal_cas"} =>
                              t_top'[t] < t_bottom'[t] /\ t_array'[t] <= o_array'
      BY <2>12 DEF ThievesInv
    <3>1. t_top[t] \in Nat
      BY DEF TypeOK
    <3>2. QED
      BY <1>1, <1>2, <2>1, <3>1 DEF ThievesInv
  <2>14. \A i : i \notin top' .. End' - 1
    BY <1>2, <2>1, <2>3
  <2>15. PICK q : q \in [top' .. End' - 1 -> 1 .. Len(pushed')]
    <3>1. [i \in top' .. End' - 1 |-> 1] \in [top' .. End' - 1 -> 1 .. Len(pushed')]
      BY <2>14
    <3>2. QED
      BY <3>1
  <2>16. DequeHolds(q)'
    <3>1. ASSUME NEW n \in 1 .. Len(pushed)
          PROVE  taken'[pushed[n]] = 1
      <4>1. CASE n = pos[top]
        BY <2>7, <4>1
      <4>2. CASE n # pos[top]
        <5>1. \A i \in top .. End - 1 : i = top
          BY <1>2, <2>3
        <5>2. taken[pushed[n]] = 1
          BY <2>4, <4>2, <5>1 DEF Holds, DequeHolds
        <5>3. QED
          BY <2>6, <4>2, <5>2
      <4>3. QED
        BY <4>1, <4>2
    <3>2. QED
      BY <1>1, <2>14, <3>1 DEF DequeHolds
  <2>17. ArraysHold(q)'
    BY <2>2, <2>14 DEF ArraysHold
  <2>18. ThievesHold(q)'
    BY <2>12 DEF ThievesHold
  <2>19. QED
    BY <2>2, <2>8, <2>9, <2>11, <2>13, <2>15, <2>16, <2>17, <2>18 DEF Holds
<1>5. QED
  BY <1>3, <1>4

-----------------------------------------------------------------------------
(* push_bottom, with and without growing, and grow                         *)

\* wsd_circular_array_grow copies every item of the deque, those the owner's buffer
\* still holds included, and touches no other array.
LEMMA Copied ==
    ASSUME TypeOK, IndicesInv, BufferInv, OrderInv, o_pc = "idle",
           NEW pos \in [top .. End - 1 -> 1 .. Len(pushed)], ArraysHold(pos),
           NEW K \in Arrays, K = o_array + 1, CopyTo(K)
    PROVE  /\ DOMAIN cells' = Arrays
           /\ \A k \in Arrays : cells'[k] \in [0 .. ArraySize(k) - 1 -> Values]
           /\ \A k \in Arrays : k # K => cells'[k] = cells[k]
           /\ \A i \in top .. End - 1 : cells'[K][Cell(K, i)] = pushed[pos[i]]
<1> DEFINE live == top .. o_bottom - 1
           copy == [c \in DOMAIN cells[K] |->
                       IF \E i \in live : Cell(K, i) = c
                       THEN OwnerGet(o_array, CHOOSE i \in live : Cell(K, i) = c)
                       ELSE cells[K][c]]
<1>1. live = top .. End - 1
  BY DEF End
<1>2. cells' = [cells EXCEPT ![K] = copy]
  BY DEF CopyTo
<1>3. DOMAIN cells = Arrays /\ \A k \in Arrays : cells[k] \in [0 .. ArraySize(k) - 1 -> Values]
  BY DEF TypeOK
<1>4. /\ DOMAIN cells' = Arrays /\ cells'[K] = copy
      /\ \A k \in Arrays : k # K => cells'[k] = cells[k]
  BY <1>2, <1>3
<1>5. /\ K \in Nat /\ live \subseteq Nat
      /\ \A i, j \in live : i < j => j - i < ArraySize(K)
  <2>1. /\ o_array \in Nat /\ top \in Nat /\ End \in Nat /\ End - top < ArraySize(o_array)
        /\ ArraySize(o_array) \in Nat /\ ArraySize(K) = 2 * ArraySize(o_array)
    BY IndexType, Sizes
  <2>2. End - top < ArraySize(K) /\ ArraySize(K) \in Nat /\ K \in Nat
    BY <2>1
  <2>3. \A i, j \in top .. End - 1 : i \in Nat /\ j \in Nat /\ j - i < ArraySize(K)
    BY <2>1, <2>2
  <2>4. QED
    BY <1>1, <2>2, <2>3
<1>6. \A i \in live : Cell(K, i) \in DOMAIN cells[K]
  BY <1>3, <1>5, Cells
<1>7. \A i, j \in live : Cell(K, i) = Cell(K, j) => i = j
  <2> SUFFICES ASSUME NEW i \in live, NEW j \in live, i < j
               PROVE  Cell(K, i) # Cell(K, j)
    BY <1>5
  <2>1. QED
    BY <1>5, Cells
<1>8. \A i \in live : OwnerGet(o_array, i) = pushed[pos[i]] /\ pushed[pos[i]] \in Values
  <2> SUFFICES ASSUME NEW i \in live
               PROVE  OwnerGet(o_array, i) = pushed[pos[i]] /\ pushed[pos[i]] \in Values
    OBVIOUS
  <2>1. OwnerGet(o_array, i) = pushed[pos[i]]
    BY <1>1, OwnerReads
  <2>2. pos[i] \in 1 .. Len(pushed)
    BY <1>1
  <2>3. QED
    BY <2>1, <2>2 DEF TypeOK, Values
<1>9. \A i \in live : (CHOOSE j \in live : Cell(K, j) = Cell(K, i)) = i
  BY <1>7
<1> HIDE DEF live
<1>10. \A i \in live : copy[Cell(K, i)] = pushed[pos[i]]
  BY <1>6, <1>8, <1>9
<1>11. copy \in [0 .. ArraySize(K) - 1 -> Values]
  <2>1. DOMAIN cells[K] = 0 .. ArraySize(K) - 1
    BY <1>3
  <2>2. \A c \in 0 .. ArraySize(K) - 1 : copy[c] \in Values
    <3> SUFFICES ASSUME NEW c \in 0 .. ArraySize(K) - 1
                 PROVE  copy[c] \in Values
      OBVIOUS
    <3>1. CASE \E i \in live : Cell(K, i) = c
      BY <1>8, <1>10, <3>1
    <3>2. CASE ~\E i \in live : Cell(K, i) = c
      BY <1>3, <2>1, <3>2
    <3>3. QED
      BY <3>1, <3>2
  <2>3. QED
    BY <2>1, <2>2
<1> HIDE DEF copy
<1>12. QED
  BY <1>1, <1>3, <1>4, <1>10, <1>11

\* What the owner adds to the buffer when it pushes, grows or does both: the pointer
\* of a new array K comes first, and `bottom` after the item it publishes.
NewStores(stores, K) ==
    /\ stores \in Seq(Stores)
    /\ \A n \in 1 .. Len(stores) :
          /\ stores[n].to = "bottom" =>
                /\ stores[n].index <= End'
                /\ \A m \in 1 .. Len(stores) : stores[m].to = "cell" => m < n
          /\ stores[n].to = "array" => n = 1 /\ K = o_array + 1 /\ stores[n].index = K
          /\ stores[n].to = "cell" =>
                /\ stores[n].index = End /\ stores[n].array = K /\ End' = End + 1
                /\ \A m \in 1 .. Len(stores) : stores[m].to = "cell" => m = n
                /\ K = o_array + 1 => 1 < n
    /\ K = o_array + 1 => 1 \in 1 .. Len(stores) /\ stores[1].to = "array"
    /\ End' # End => \E n \in 1 .. Len(stores) : stores[n].to = "cell"

LEMMA StoresKept ==
    ASSUME TypeOK, IndicesInv, BufferInv, OrderInv, o_pc = "idle", o_pc' = "idle",
           NEW stores, NEW K \in Nat, NewStores(stores, K), Store(stores),
           K = o_array \/ K = o_array + 1, o_array' = K,
           End' = End \/ (End' = End + 1 /\ End' - top < ArraySize(K)),
           UNCHANGED <<top, bottom, array>>
    PROVE  /\ sb' \in Seq(Stores) /\ Len(sb') <= StoreBufferSize
           /\ IndicesInv' /\ BufferInv' /\ OrderInv'
           /\ \A i \in top .. End - 1 : Unpublished(i)' <=> Unpublished(i)
           /\ \A i : i = End /\ End' # End => Unpublished(i)'
           /\ \A j \in Buffered' : IsCell(j)' =>
                 \/ j \in Buffered /\ IsCell(j) /\ sb'[j] = sb[j]
                 \/ \E n \in 1 .. Len(stores) : stores[n].to = "cell" /\ sb'[j] = stores[n]
<1> DEFINE N == Len(sb)
           L == Len(stores)
<1>1. /\ stores \in Seq(Stores) /\ L \in Nat /\ N \in Nat
      /\ sb' \in Seq(Stores) /\ Len(sb') <= StoreBufferSize /\ Len(sb') = N + L
  BY Extended DEF NewStores
<1>2. \A n \in 1 .. L :
          /\ stores[n] \in Stores
          /\ stores[n].to = "bottom" => stores[n].index \in Int
          /\ stores[n].to = "cell" => stores[n].index \in Nat /\ stores[n].array \in Nat
  <2> SUFFICES ASSUME NEW n \in 1 .. L
               PROVE  /\ stores[n] \in Stores
                      /\ stores[n].to = "bottom" => stores[n].index \in Int
                      /\ stores[n].to = "cell" =>
                            stores[n].index \in Nat /\ stores[n].array \in Nat
    OBVIOUS
  <2>1. stores[n] \in Stores
    BY <1>1
  <2>2. QED
    BY <2>1, StoreType, BoundsAssumption DEF Arrays
<1>3. /\ top \in Nat /\ End \in Nat /\ End' \in Nat /\ End <= End' /\ top <= End
      /\ o_array \in Nat /\ array \in Nat /\ array <= o_array /\ bottom \in Int
      /\ bottom <= End /\ o_array <= K /\ End - top < ArraySize(o_array)
      /\ ArraySize(o_array) \in Nat /\ ArraySize(K) \in Nat
      /\ ArraySize(o_array) <= ArraySize(K)
  <2>1. ArraySize(o_array) <= ArraySize(K) /\ ArraySize(K) \in Nat
    <3>1. /\ o_array \in Nat /\ ArraySize(o_array) \in Nat
          /\ ArraySize(o_array + 1) = 2 * ArraySize(o_array)
      BY IndexType, Sizes
    <3>2. ArraySize(K) = ArraySize(o_array) \/ ArraySize(K) = ArraySize(o_array + 1)
      OBVIOUS
    <3>3. QED
      BY <3>1, <3>2
  <2>2. End' \in Nat /\ End <= End'
    BY IndexType
  <2>3. QED
    BY <2>1, <2>2, IndexType DEF IndicesInv
<1>4. \A j \in Buffered :
          /\ j \in Nat /\ j <= N /\ j \in Buffered' /\ sb'[j] = sb[j]
          /\ IsCell(j)' <=> IsCell(j)
          /\ IsBottom(j)' <=> IsBottom(j)
          /\ IsArray(j)' <=> IsArray(j)
  BY <1>1, Extended
<1>5. ASSUME NEW n \in 1 .. L
      PROVE  N + n \in Buffered' /\ sb'[N + n] = stores[n]
  BY <1>1, Extended
<1>6. ASSUME NEW j \in Buffered', j \notin Buffered
      PROVE  \E n \in 1 .. L : j = N + n
  <2>1. j - N \in 1 .. L /\ j \in Int
    BY <1>1, <1>6, Extended DEF Buffered
  <2>2. j = N + (j - N)
    BY <1>1, <2>1
  <2>3. QED
    BY <2>1, <2>2
<1>7. ASSUME NEW j \in Buffered', IsCell(j)'
      PROVE  \/ j \in Buffered /\ IsCell(j) /\ sb'[j] = sb[j]
             \/ \E n \in 1 .. Len(stores) : stores[n].to = "cell" /\ sb'[j] = stores[n]
  <2>1. CASE j \in Buffered
    BY <1>4, <1>7, <2>1
  <2>2. CASE j \notin Buffered
    <3>1. PICK n \in 1 .. L : j = N + n
      BY <1>6, <2>2
    <3>2. QED
      BY <1>5, <1>7, <3>1 DEF IsCell
  <2>3. QED
    BY <2>1, <2>2
<1>8. \A i : Unpublished(i) => Unpublished(i)'
  BY <1>4 DEF Unpublished
<1>9. ASSUME NEW i \in top .. End - 1
      PROVE  Unpublished(i)' <=> Unpublished(i)
  <2>1. ASSUME Unpublished(i)'
        PROVE  Unpublished(i)
    <3>1. PICK j \in Buffered' : IsCell(j)' /\ sb'[j].index = i
      BY <2>1 DEF Unpublished
    <3>2. ASSUME NEW n \in 1 .. Len(stores), stores[n].to = "cell"
          PROVE  stores[n].index # i
      BY <1>3, <3>2 DEF NewStores
    <3>3. QED
      BY <1>7, <3>1, <3>2 DEF Unpublished
  <2>2. QED
    BY <1>8, <2>1
<1>10. \A i : i = End /\ End' # End => Unpublished(i)'
  <2> SUFFICES ASSUME NEW i, i = End, End' # End
               PROVE  Unpublished(i)'
    OBVIOUS
  <2>1. PICK n \in 1 .. L : stores[n].to = "cell" /\ stores[n].index = End
    BY DEF NewStores
  <2>2. PICK j \in Buffered' : sb'[j] = stores[n]
    BY <1>5
  <2>3. j \in Buffered' /\ IsCell(j)' /\ sb'[j].index = i
    BY <2>1, <2>2 DEF IsCell
  <2>4. QED
    BY <2>3 DEF Unpublished
<1>11. IndicesInv'
  <2>1. array = K \/ \E j \in Buffered' : IsArray(j)' /\ sb'[j].index = K
    <3>1. CASE K = o_array
      BY <1>4, <3>1 DEF IndicesInv
    <3>2. CASE K = o_array + 1
      <4>1. 1 \in 1 .. L /\ stores[1].to = "array" /\ stores[1].index = K
        BY <3>2 DEF NewStores
      <4>2. PICK j \in Buffered' : sb'[j] = stores[1]
        BY <1>5, <4>1
      <4>3. QED
        BY <4>1, <4>2 DEF IsArray
    <3>3. QED
      BY <3>1, <3>2
  <2>2. End' - top < ArraySize(K)
    BY <1>3
  <2>3. QED
    BY <1>3, <2>1, <2>2 DEF IndicesInv
<1>12. BufferInv'
  <2> SUFFICES ASSUME NEW j \in Buffered'
               PROVE  /\ IsBottom(j)' => sb'[j].index <= End'
                      /\ IsArray(j)' => array' < sb'[j].index /\ sb'[j].index <= o_array'
                      /\ IsCell(j)' =>
                            /\ top' <= sb'[j].index /\ sb'[j].index < End'
                            /\ sb'[j].index - top' < ArraySize(sb'[j].array)
                            /\ bottom' <= sb'[j].index
                            /\ sb'[j].array <= o_array'
                            /\ \/ sb'[j].array <= array'
                               \/ \E m \in 1 .. j - 1 :
                                     IsArray(m)' /\ sb'[m].index = sb'[j].array
                            /\ \A i \in sb'[j].index .. End' - 1 : Unpublished(i)'
    BY DEF BufferInv, ArraySize
  <2>1. CASE j \in Buffered
    <3>1. /\ sb'[j] = sb[j]
          /\ (IsCell(j)' <=> IsCell(j)) /\ (IsBottom(j)' <=> IsBottom(j))
          /\ (IsArray(j)' <=> IsArray(j))
      BY <1>4, <2>1
    <3>2. ASSUME IsBottom(j)
          PROVE  sb[j].index <= End'
      <4>1. sb[j].index <= End
        BY <2>1, <3>2 DEF BufferInv
      <4>2. sb[j].index \in Int
        BY <2>1, <3>2, BufferType
      <4>3. QED
        BY <1>3, <4>1, <4>2
    <3>3. ASSUME IsArray(j)
          PROVE  array < sb[j].index /\ sb[j].index <= K
      <4>1. array < sb[j].index /\ sb[j].index <= o_array
        BY <2>1, <3>3 DEF BufferInv
      <4>2. sb[j].index \in Nat
        BY <2>1, <3>3, BufferType
      <4>3. QED
        BY <1>3, <4>1, <4>2
    <3>4. ASSUME IsCell(j)
          PROVE  /\ top <= sb[j].index /\ sb[j].index < End'
                 /\ sb[j].index - top < ArraySize(sb[j].array)
                 /\ bottom <= sb[j].index /\ sb[j].array <= K
      <4>1. /\ top <= sb[j].index /\ sb[j].index < End
            /\ sb[j].index - top < ArraySize(sb[j].array)
            /\ bottom <= sb[j].index /\ sb[j].array <= o_array
        BY <2>1, <3>4 DEF BufferInv
      <4>2. sb[j].index \in Nat /\ sb[j].array \in Nat
        BY <2>1, <3>4, BufferType
      <4>3. sb[j].index < End' /\ sb[j].array <= K
        BY <1>3, <4>1, <4>2
      <4>4. QED
        BY <4>1, <4>3
    <3>5. ASSUME IsCell(j)
          PROVE  \/ sb[j].array <= array
                 \/ \E m \in 1 .. j - 1 : IsArray(m)' /\ sb'[m].index = sb[j].array
      <4>1. \A m \in 1 .. j - 1 : m \in Buffered
        BY <2>1, <1>1 DEF Buffered
      <4>2. QED
        BY <1>4, <2>1, <3>5, <4>1 DEF BufferInv
    <3>6. ASSUME IsCell(j), NEW i \in sb[j].index .. End' - 1
          PROVE  Unpublished(i)'
      <4>1. sb[j].index \in Nat
        BY <2>1, <3>6, BufferType
      <4>2. \A x \in Nat : i \in x .. End' - 1
                              => i \in x .. End - 1 \/ (i = End /\ End' # End)
        <5>1. CASE End' = End
          BY <5>1
        <5>2. CASE End' = End + 1
          BY <1>3, <5>2
        <5>3. QED
          BY <5>1, <5>2
      <4>3. i \in sb[j].index .. End - 1 \/ (i = End /\ End' # End)
        BY <3>6, <4>1, <4>2
      <4>4. i \in sb[j].index .. End - 1 => Unpublished(i)
        BY <2>1, <3>6 DEF BufferInv
      <4>5. QED
        BY <1>8, <1>10, <4>3, <4>4
    <3>7. QED
      BY <3>1, <3>2, <3>3, <3>4, <3>5, <3>6
  <2>2. CASE j \notin Buffered
    <3>1. PICK n \in 1 .. L : j = N + n
      BY <1>6, <2>2
    <3>2. sb'[j] = stores[n]
      BY <1>5, <3>1
    <3>3. IsBottom(j)' => sb'[j].index <= End'
      BY <3>2 DEF IsBottom, NewStores
    <3>4. IsArray(j)' => array < sb'[j].index /\ sb'[j].index <= K
      BY <1>3, <3>2 DEF IsArray, NewStores
    <3>5. ASSUME IsCell(j)'
          PROVE  sb'[j].index = End /\ sb'[j].array = K /\ End' = End + 1
      <4>1. stores[n].to = "cell" /\ stores[n].index = End /\ stores[n].array = K
        BY <3>2, <3>5 DEF IsCell, NewStores
      <4>2. QED
        BY <3>2, <4>1 DEF NewStores
    <3>6. ASSUME IsCell(j)'
          PROVE  K <= array \/ \E m \in 1 .. j - 1 : IsArray(m)' /\ sb'[m].index = K
      <4>1. CASE K = o_array
        <5>1. CASE array # o_array
          <6>1. PICK m \in Buffered : IsArray(m) /\ sb[m].index = o_array
            BY <5>1 DEF IndicesInv
          <6>2. m \in 1 .. j - 1
            BY <1>1, <1>4, <3>1, <6>1 DEF Buffered
          <6>3. QED
            BY <1>4, <4>1, <6>1, <6>2
        <5>2. QED
          BY <1>3, <4>1, <5>1
      <4>2. CASE K = o_array + 1
        <5>1. 1 < n /\ 1 \in 1 .. L /\ stores[1].to = "array" /\ stores[1].index = K
          BY <3>2, <3>6, <4>2 DEF IsCell, NewStores
        <5>2. sb'[N + 1] = stores[1]
          BY <1>5, <5>1
        <5>3. PICK m \in Nat : m = N + 1
          BY <1>1
        <5>4. m \in 1 .. j - 1 /\ IsArray(m)' /\ sb'[m].index = K
          BY <1>1, <3>1, <5>1, <5>2, <5>3 DEF IsArray
        <5>5. QED
          BY <5>4
      <4>3. QED
        BY <4>1, <4>2
    <3>7. ASSUME IsCell(j)', NEW i \in sb'[j].index .. End' - 1
          PROVE  Unpublished(i)'
      <4>1. i = End /\ End' # End
        BY <1>3, <3>5, <3>7
      <4>2. QED
        BY <1>10, <4>1
    <3>8. IsCell(j)' => /\ top <= sb'[j].index /\ sb'[j].index < End'
                        /\ sb'[j].index - top < ArraySize(sb'[j].array)
                        /\ bottom <= sb'[j].index /\ sb'[j].array <= K
      BY SMTT(60), <1>3, <3>5
    <3>9. QED
      BY <3>3, <3>4, <3>5, <3>6, <3>7, <3>8
  <2>3. QED
    BY <2>1, <2>2
<1>13. OrderInv'
  <2> SUFFICES ASSUME NEW j \in Buffered', NEW m \in Buffered', j < m
               PROVE  /\ IsBottom(j)' /\ IsCell(m)' => sb'[j].index <= sb'[m].index
                      /\ IsCell(j)' /\ IsCell(m)' =>
                            sb'[j].index < sb'[m].index /\ sb'[j].array <= sb'[m].array
                      /\ IsArray(j)' /\ IsArray(m)' => sb'[j].index < sb'[m].index
    BY DEF OrderInv
  <2>1. CASE m \in Buffered
    <3>1. j \in Buffered
      BY <1>1, <2>1 DEF Buffered
    <3>2. /\ IsBottom(j) /\ IsCell(m) => sb[j].index <= sb[m].index
          /\ IsCell(j) /\ IsCell(m) =>
                sb[j].index < sb[m].index /\ sb[j].array <= sb[m].array
          /\ IsArray(j) /\ IsArray(m) => sb[j].index < sb[m].index
      BY <2>1, <3>1 DEF OrderInv
    <3>3. QED
      BY <1>4, <2>1, <3>1, <3>2
  <2>2. CASE m \notin Buffered /\ j \in Buffered
    <3>1. PICK n \in 1 .. L : sb'[m] = stores[n]
      BY <1>5, <1>6, <2>2
    <3>2. /\ stores[n].to = "array" => stores[n].index = K /\ K = o_array + 1
          /\ stores[n].to = "cell" => stores[n].index = End /\ stores[n].array = K
      BY DEF NewStores
    <3>3. /\ IsBottom(j) => sb[j].index <= End
          /\ IsArray(j) => sb[j].index <= o_array
          /\ IsCell(j) => sb[j].index < End /\ sb[j].array <= o_array
      BY <2>2 DEF BufferInv
    <3>4. /\ IsArray(j) => sb[j].index \in Nat
          /\ IsCell(j) => sb[j].array \in Nat
      BY <2>2, BufferType
    <3>5. /\ IsArray(j) /\ K = o_array + 1 => sb[j].index < K
          /\ IsCell(j) => sb[j].array <= K
      <4>1. \A a \in Nat : a <= o_array => a <= K /\ (K = o_array + 1 => a < K)
        BY <1>3
      <4>2. QED
        BY <3>3, <3>4, <4>1
    <3>6. /\ sb'[j] = sb[j]
          /\ (IsCell(j)' <=> IsCell(j)) /\ (IsBottom(j)' <=> IsBottom(j))
          /\ (IsArray(j)' <=> IsArray(j))
      BY <1>4, <2>2
    <3>7. /\ IsArray(m)' => stores[n].to = "array"
          /\ IsCell(m)' => stores[n].to = "cell"
      BY <3>1 DEF IsArray, IsCell
    <3>8. QED
      BY <3>1, <3>2, <3>3, <3>5, <3>6, <3>7
  <2>3. CASE m \notin Buffered /\ j \notin Buffered
    <3>1. PICK n \in 1 .. L : m = N + n
      BY <1>6, <2>3
    <3>2. PICK p \in 1 .. L : j = N + p
      BY <1>6, <2>3
    <3>3. p < n /\ p # n /\ ~(n < p)
      BY <1>1, <3>1, <3>2
    <3>4. sb'[m] = stores[n] /\ sb'[j] = stores[p]
      BY <1>5, <3>1, <3>2
    <3>5. ~(IsBottom(j)' /\ IsCell(m)')
      BY <3>3, <3>4 DEF IsBottom, IsCell, NewStores
    <3>6. ~(IsCell(j)' /\ IsCell(m)')
      BY <3>3, <3>4 DEF IsCell, NewStores
    <3>7. ~(IsArray(j)' /\ IsArray(m)')
      BY <3>3, <3>4 DEF IsArray, NewStores
    <3>8. QED
      BY <3>5, <3>6, <3>7
  <2>4. QED
    BY <2>1, <2>2, <2>3
<1>14. QED
  BY <1>1, <1>7, <1>9, <1>10, <1>11, <1>12, <1>13

\* The stores of push_bottom, of grow, and of push_bottom_autogrow when it grows.
LEMMA PushStores ==
    ASSUME TypeOK, IndicesInv, o_pc = "idle", o_array' = o_array, End' = End + 1,
           NEW v \in Items
    PROVE  NewStores(<<>> \o <<CellStore(o_array, o_bottom, v), BottomStore(o_bottom + 1)>>,
                     o_array)
<1> DEFINE s == <<>> \o <<CellStore(o_array, o_bottom, v), BottomStore(o_bottom + 1)>>
<1>1. o_bottom = End /\ End \in Nat /\ o_array \in Arrays /\ o_array \in Nat
  BY IndexType DEF End
<1>2. /\ CellStore(o_array, o_bottom, v) \in Stores /\ BottomStore(o_bottom + 1) \in Stores
      /\ CellStore(o_array, o_bottom, v).to = "cell"
      /\ CellStore(o_array, o_bottom, v).array = o_array
      /\ CellStore(o_array, o_bottom, v).index = End
      /\ BottomStore(o_bottom + 1).to = "bottom" /\ BottomStore(o_bottom + 1).index = End + 1
  BY <1>1, CellStoreType, BottomStoreType
<1>3. /\ s \in Seq(Stores) /\ Len(s) = 2
      /\ s[1] = CellStore(o_array, o_bottom, v) /\ s[2] = BottomStore(o_bottom + 1)
  <2>1. s = <<CellStore(o_array, o_bottom, v), BottomStore(o_bottom + 1)>>
    BY <1>2, ConcatEmptySeq
  <2>2. QED
    BY <1>2, <2>1
<1> HIDE DEF s
<1>4. \A n \in 1 .. Len(s) : n = 1 \/ n = 2
  BY <1>3
<1>5. NewStores(s, o_array)
  BY <1>1, <1>2, <1>3, <1>4 DEF NewStores
<1>6. QED
  BY <1>5 DEF s

LEMMA GrowStores ==
    ASSUME NEW K \in Arrays, K = o_array + 1, End' = End
    PROVE  NewStores(<<ArrayStore(K)>>, K)
<1> DEFINE s == <<ArrayStore(K)>>
<1>1. /\ s \in Seq(Stores) /\ Len(s) = 1 /\ s[1] = ArrayStore(K)
      /\ ArrayStore(K).to = "array" /\ ArrayStore(K).index = K
  BY ArrayStoreType
<1> HIDE DEF s
<1>2. \A n \in 1 .. Len(s) : n = 1
  BY <1>1
<1>3. NewStores(s, K)
  BY <1>1, <1>2 DEF NewStores
<1>4. QED
  BY <1>3 DEF s

LEMMA GrowPushStores ==
    ASSUME TypeOK, IndicesInv, o_pc = "idle", NEW K \in Arrays, K = o_array + 1,
           End' = End + 1, NEW v \in Items
    PROVE  NewStores(<<ArrayStore(K)>>
                       \o <<CellStore(K, o_bottom, v), BottomStore(o_bottom + 1)>>, K)
<1> DEFINE s == <<ArrayStore(K)>> \o <<CellStore(K, o_bottom, v), BottomStore(o_bottom + 1)>>
<1>1. o_bottom = End /\ End \in Nat /\ K \in Nat
  BY IndexType DEF End
<1>2. /\ CellStore(K, o_bottom, v) \in Stores /\ BottomStore(o_bottom + 1) \in Stores
      /\ ArrayStore(K) \in Stores
      /\ CellStore(K, o_bottom, v).to = "cell" /\ CellStore(K, o_bottom, v).array = K
      /\ CellStore(K, o_bottom, v).index = End
      /\ BottomStore(o_bottom + 1).to = "bottom" /\ BottomStore(o_bottom + 1).index = End + 1
      /\ ArrayStore(K).to = "array" /\ ArrayStore(K).index = K
  BY <1>1, CellStoreType, BottomStoreType, ArrayStoreType
<1>3. /\ s \in Seq(Stores) /\ Len(s) = 3 /\ s[1] = ArrayStore(K)
      /\ s[2] = CellStore(K, o_bottom, v) /\ s[3] = BottomStore(o_bottom + 1)
  BY <1>2
<1> HIDE DEF s
<1>4. \A n \in 1 .. Len(s) : n = 1 \/ n = 2 \/ n = 3
  BY <1>3
<1>5. NewStores(s, K)
  BY <1>1, <1>2, <1>3, <1>4 DEF NewStores
<1>6. QED
  BY <1>5 DEF s

\* The owner's next array: the same one, or a copy twice its size.
NextArray(K) ==
    \/ K = o_array /\ cells' = cells
    \/ K = o_array + 1 /\ CopyTo(K)

\* The arrays up to the owner's next one hold the deque.
LEMMA ArraysKept ==
    ASSUME TypeOK, IndicesInv, BufferInv, OrderInv, o_pc = "idle",
           NEW pos \in [top .. End - 1 -> 1 .. Len(pushed)], ArraysHold(pos),
           NEW K \in Arrays, NextArray(K)
    PROVE  /\ DOMAIN cells' = Arrays
           /\ \A k \in Arrays : cells'[k] \in [0 .. ArraySize(k) - 1 -> Values]
           /\ \A k \in Arrays : k <= o_array => cells'[k] = cells[k]
           /\ \A i \in top .. End - 1, k \in array .. K :
                 ~Unpublished(i) => cells'[k][Cell(k, i)] = pushed[pos[i]]
           /\ \A j \in Buffered :
                 IsCell(j) =>
                     /\ sb[j].value = pushed[pos[sb[j].index]]
                     /\ \A k \in sb[j].array + 1 .. K :
                           cells'[k][Cell(k, sb[j].index)] = pushed[pos[sb[j].index]]
<1>1. CASE K = o_array /\ cells' = cells
  BY <1>1 DEF TypeOK, ArraysHold
<1>2. CASE K = o_array + 1 /\ CopyTo(K)
  <2>1. /\ DOMAIN cells' = Arrays
        /\ \A k \in Arrays : cells'[k] \in [0 .. ArraySize(k) - 1 -> Values]
        /\ \A k \in Arrays : k # K => cells'[k] = cells[k]
        /\ \A i \in top .. End - 1 : cells'[K][Cell(K, i)] = pushed[pos[i]]
    BY <1>2, Copied
  <2>2. o_array \in Nat /\ array \in Nat /\ o_array <= MaxGrow /\ MaxGrow \in Nat
    BY IndexType, BoundsAssumption DEF Arrays
  <2>3. \A k \in Arrays : k <= o_array => cells'[k] = cells[k]
    BY <1>2, <2>1, <2>2 DEF Arrays
  <2>4. \A a \in Nat : \A k \in a .. K :
           k = K \/ (k \in a .. o_array /\ k \in Arrays /\ cells'[k] = cells[k])
    BY <1>2, <2>2, <2>3 DEF Arrays
  <2>5. ASSUME NEW i \in top .. End - 1, NEW k \in array .. K, ~Unpublished(i)
        PROVE  cells'[k][Cell(k, i)] = pushed[pos[i]]
    <3>1. CASE k = K
      BY <2>1, <3>1
    <3>2. CASE k # K
      BY <2>2, <2>4, <2>5, <3>2 DEF ArraysHold
    <3>3. QED
      BY <3>1, <3>2
  <2>6. ASSUME NEW j \in Buffered, IsCell(j)
        PROVE  /\ sb[j].value = pushed[pos[sb[j].index]]
               /\ \A k \in sb[j].array + 1 .. K :
                     cells'[k][Cell(k, sb[j].index)] = pushed[pos[sb[j].index]]
    <3>1. sb[j].index \in Nat /\ sb[j].array + 1 \in Nat
      BY <2>6, BufferType
    <3>2. sb[j].index \in top .. End - 1
      BY <2>6, <3>1, IndexType DEF BufferInv
    <3>3. /\ sb[j].value = pushed[pos[sb[j].index]]
          /\ \A k \in sb[j].array + 1 .. o_array :
                cells[k][Cell(k, sb[j].index)] = pushed[pos[sb[j].index]]
      BY <2>6 DEF ArraysHold
    <3>4. ASSUME NEW k \in sb[j].array + 1 .. K
          PROVE  cells'[k][Cell(k, sb[j].index)] = pushed[pos[sb[j].index]]
      <4>1. CASE k = K
        BY <2>1, <3>2, <4>1
      <4>2. CASE k # K
        BY <2>4, <3>1, <3>3, <3>4, <4>2
      <4>3. QED
        BY <4>1, <4>2
    <3>5. QED
      BY <3>3, <3>4
  <2>7. QED
    BY <2>1, <2>3, <2>5, <2>6
<1>3. QED
  BY <1>1, <1>2 DEF NextArray

\* A full deque that is not grown, or an array that could not be allocated.
LEMMA StutterInv ==
    ASSUME IInv, UNCHANGED vars
    PROVE  IInv'
<1> USE DEF IInv
<1>1. UNCHANGED <<memory, sb, owner, thieves, history>>
  BY DEF vars
<1>2. UNCHANGED <<memory, sb, owner, history>> /\ UNCHANGED <<top, cells, pushed, o_array>>
      /\ UNCHANGED <<t_pc, t_top, t_bottom, t_array, t_val>>
  BY <1>1 DEF memory, thieves, owner, history
<1>3. TypeOK'
  BY <1>1 DEF TypeOK, memory, owner, thieves, history
<1>4. ThievesInv' /\ \A pos : Holds(pos) => ThievesHold(pos)'
  BY <1>2, DequeUnchanged DEF ThievesInv, ThievesHold, Holds, SeesItem
<1>5. QED
  BY <1>2, <1>3, <1>4, ThiefStep

LEMMA GrowInv ==
    ASSUME IInv, Grow
    PROVE  IInv'
<1> USE DEF IInv
<1>1. CASE UNCHANGED vars
  BY <1>1, StutterInv
<1>2. CASE ~UNCHANGED vars
  <2>1. PICK K \in Arrays : K = o_array + 1
    <3>1. o_array \in Nat /\ o_array < MaxGrow
      BY <1>2, IndexType DEF Grow
    <3>2. QED
      BY <3>1, BoundsAssumption DEF Arrays
  <2>2. /\ o_pc = "idle" /\ o_pc' = "idle"
        /\ CopyTo(K) /\ Store(<<ArrayStore(K)>>) /\ o_array' = K
        /\ UNCHANGED <<top, bottom, array, o_bottom, o_t, pushed, taken, stolen>>
        /\ UNCHANGED <<t_pc, t_top, t_bottom, t_array, t_val>>
    BY <1>2, <2>1 DEF Grow, thieves, history
  <2>3. End' = End /\ K \in Nat /\ o_array \in Nat /\ o_array <= K
    BY <2>1, <2>2, IndexType DEF End
  <2>4. NewStores(<<ArrayStore(K)>>, K)
    BY <2>1, <2>3, GrowStores
  <2>5. PICK stores : stores = <<ArrayStore(K)>>
    OBVIOUS
  <2>6. /\ sb' \in Seq(Stores) /\ Len(sb') <= StoreBufferSize
        /\ IndicesInv' /\ BufferInv' /\ OrderInv'
        /\ \A i \in top .. End - 1 : Unpublished(i)' <=> Unpublished(i)
        /\ \A j \in Buffered' : IsCell(j)' =>
              \/ j \in Buffered /\ IsCell(j) /\ sb'[j] = sb[j]
              \/ \E n \in 1 .. Len(stores) : stores[n].to = "cell" /\ sb'[j] = stores[n]
    <3>1. NewStores(stores, K) /\ Store(stores)
      BY <2>2, <2>4, <2>5
    <3>2. QED
      BY <2>1, <2>2, <2>3, <3>1, StoresKept
  <2>7. \A j \in Buffered' : IsCell(j)' => j \in Buffered /\ IsCell(j) /\ sb'[j] = sb[j]
    <3>1. \A n \in 1 .. Len(stores) : stores[n].to # "cell"
      BY <2>5 DEF ArrayStore
    <3>2. QED
      BY <2>6, <3>1
  <2>8. PICK pos \in [top .. End - 1 -> 1 .. Len(pushed)] : Holds(pos)
    OBVIOUS
  <2>9. /\ DOMAIN cells' = Arrays
        /\ \A k \in Arrays : cells'[k] \in [0 .. ArraySize(k) - 1 -> Values]
        /\ \A k \in Arrays : k <= o_array => cells'[k] = cells[k]
        /\ \A i \in top .. End - 1, k \in array .. K :
              ~Unpublished(i) => cells'[k][Cell(k, i)] = pushed[pos[i]]
        /\ \A j \in Buffered :
              IsCell(j) =>
                  /\ sb[j].value = pushed[pos[sb[j].index]]
                  /\ \A k \in sb[j].array + 1 .. K :
                        cells'[k][Cell(k, sb[j].index)] = pushed[pos[sb[j].index]]
    <3>1. NextArray(K) /\ ArraysHold(pos)
      BY <2>1, <2>2, <2>8 DEF NextArray, Holds
    <3>2. QED
      BY <2>2, <2>8, <3>1, ArraysKept
  <2>10. TypeOK'
    BY <2>2, <2>6, <2>9 DEF TypeOK
  <2>11. \A v : Position(v)' = Position(v)
    BY <2>2 DEF Position
  <2>12. HistoryInv'
    BY <2>2, HistoryKept
  <2>13. ThievesInv' /\ \A t \in Thieves : SeesItem(t)' <=> SeesItem(t)
    <3>1. top < End /\ ~Unpublished(top) => ~Unpublished(top)'
      <4>1. top < End => top \in top .. End - 1
        BY IndexType
      <4>2. QED
        BY <2>2, <2>6, <4>1
    <3>2. QED
      BY <2>2, <2>3, <3>1, ThievesKept
  <2>14. DequeHolds(pos)'
    BY <2>2, <2>3, <2>8, <2>11 DEF Holds, DequeHolds
  <2>15. ArraysHold(pos)'
    <3>1. ASSUME NEW j \in Buffered', IsCell(j)'
          PROVE  /\ sb'[j].value = pushed[pos[sb'[j].index]]
                 /\ \A k \in sb'[j].array + 1 .. K :
                       cells'[k][Cell(k, sb'[j].index)] = pushed[pos[sb'[j].index]]
      <4>1. j \in Buffered /\ IsCell(j) /\ sb'[j] = sb[j]
        BY <2>7, <3>1
      <4>2. /\ sb[j].value = pushed[pos[sb[j].index]]
            /\ \A k \in sb[j].array + 1 .. K :
                  cells'[k][Cell(k, sb[j].index)] = pushed[pos[sb[j].index]]
        BY <2>9, <4>1
      <4>3. QED
        BY <4>1, <4>2
    <3>2. \A i \in top .. End - 1, k \in array .. K :
             ~Unpublished(i)' => cells'[k][Cell(k, i)] = pushed[pos[i]]
      BY <2>6, <2>9
    <3>3. QED
      BY <2>2, <2>3, <3>1, <3>2 DEF ArraysHold
  <2>16. ThievesHold(pos)'
    <3> SUFFICES ASSUME NEW t \in Thieves, SeesItem(t)
                 PROVE  /\ t_pc[t] = "steal_cell" =>
                              cells'[t_array[t]][Cell(t_array[t], top)] = pushed[pos[top]]
                        /\ t_pc[t] = "steal_cas" => t_val[t] = pushed[pos[top]]
      BY <2>2, <2>13 DEF ThievesHold
    <3>1. t_pc[t] = "steal_cell" => cells'[t_array[t]] = cells[t_array[t]]
      BY <2>9 DEF ThievesInv, TypeOK
    <3>2. QED
      BY <2>8, <3>1 DEF Holds, ThievesHold
  <2>17. QED
    BY <2>2, <2>3, <2>6, <2>8, <2>10, <2>12, <2>13, <2>14, <2>15, <2>16 DEF Holds
<1>3. QED
  BY <1>1, <1>2

\* A push into the owner's array or into its copy.
LEMMA PushInv ==
    ASSUME IInv, NEW v \in Items, Fresh(v), NEW K \in Arrays, NextArray(K),
           NEW stores, NewStores(stores, K), Store(stores),
           \A n \in 1 .. Len(stores) : stores[n].to = "cell" => stores[n].value = v,
           o_pc = "idle", o_pc' = "idle", o_bottom' = o_bottom + 1, o_array' = K,
           pushed' = Append(pushed, v),
           End - top < ArraySize(K) - 1,
           UNCHANGED <<top, bottom, array, o_t, taken, stolen>>,
           UNCHANGED <<t_pc, t_top, t_bottom, t_array, t_val>>
    PROVE  IInv'
<1> USE DEF IInv
<1> DEFINE N == Len(pushed)
<1>1. /\ End = o_bottom /\ End' = End + 1 /\ End \in Nat /\ top \in Nat /\ top <= End
      /\ o_array \in Nat /\ array \in Nat /\ K \in Nat /\ o_array <= K /\ N \in Nat
      /\ K = o_array \/ K = o_array + 1
  BY SMTT(60), IndexType, BoundsAssumption DEF End, NextArray, Arrays
<1>2. /\ sb' \in Seq(Stores) /\ Len(sb') <= StoreBufferSize
      /\ IndicesInv' /\ BufferInv' /\ OrderInv'
      /\ \A i \in top .. End - 1 : Unpublished(i)' <=> Unpublished(i)
      /\ \A i : i = End => Unpublished(i)'
      /\ \A j \in Buffered' : IsCell(j)' =>
            \/ j \in Buffered /\ IsCell(j) /\ sb'[j] = sb[j]
            \/ \E n \in 1 .. Len(stores) : stores[n].to = "cell" /\ sb'[j] = stores[n]
  <2>1. End' - top < ArraySize(K) /\ End' # End
    <3>1. ArraySize(K) \in Nat
      BY <1>1, Sizes
    <3>2. QED
      BY <1>1, <3>1
  <2>2. UNCHANGED <<top, bottom, array>> /\ (End' = End + 1 /\ End' - top < ArraySize(K))
    BY <1>1, <2>1
  <2>3. QED
    BY <1>1, <2>1, <2>2, StoresKept
<1>3. PICK pos \in [top .. End - 1 -> 1 .. N] : Holds(pos)
  OBVIOUS
<1>4. /\ DOMAIN cells' = Arrays
      /\ \A k \in Arrays : cells'[k] \in [0 .. ArraySize(k) - 1 -> Values]
      /\ \A k \in Arrays : k <= o_array => cells'[k] = cells[k]
      /\ \A i \in top .. End - 1, k \in array .. K :
            ~Unpublished(i) => cells'[k][Cell(k, i)] = pushed[pos[i]]
      /\ \A j \in Buffered :
            IsCell(j) =>
                /\ sb[j].value = pushed[pos[sb[j].index]]
                /\ \A k \in sb[j].array + 1 .. K :
                      cells'[k][Cell(k, sb[j].index)] = pushed[pos[sb[j].index]]
  BY <1>3, ArraysKept DEF Holds
<1>5. /\ pushed' \in Seq(Items) /\ Len(pushed') = N + 1
      /\ \A n \in 1 .. N : pushed'[n] = pushed[n] /\ n \in 1 .. N + 1 /\ n # N + 1
      /\ pushed'[N + 1] = v
      /\ \A n \in 1 .. N + 1 : n \in 1 .. N \/ n = N + 1
  <2>1. pushed \in Seq(Items)
    BY DEF TypeOK
  <2>2. pushed' \in Seq(Items) /\ Len(pushed') = N + 1 /\ pushed'[N + 1] = v
    BY <2>1
  <2>3. \A n \in 1 .. N : pushed'[n] = pushed[n]
    BY <2>1
  <2>4. QED
    BY <1>1, <2>2, <2>3
<1>6. \A n \in 1 .. N : pushed[n] # v
  BY DEF Fresh
<1>7. TypeOK'
  <2>1. o_bottom' \in Nat \cup {-1}
    BY <1>1
  <2>2. QED
    BY <1>2, <1>4, <1>5, <2>1 DEF TypeOK
<1>8. \A m, n \in 1 .. N + 1 : pushed'[m] = pushed'[n] => m = n
  BY <1>5, <1>6 DEF HistoryInv
<1>9. \A n \in 1 .. N : Position(pushed[n]) = n
  BY PositionOf
<1>10. ASSUME NEW w, NEW n \in 1 .. N, w = pushed[n]
       PROVE  Position(w)' = n
  <2>1. Position(w)' = CHOOSE m \in 1 .. N + 1 : pushed'[m] = w
    BY <1>5 DEF Position
  <2>2. n \in 1 .. N + 1 /\ pushed'[n] = w
    BY <1>5, <1>10
  <2>3. QED
    BY <1>8, <2>1, <2>2
<1>11. \A m \in 1 .. Len(stolen) : \E n \in 1 .. N : stolen[m] = pushed[n]
  BY DEF HistoryInv
<1>12. ASSUME NEW m \in 1 .. Len(stolen), NEW w, w = stolen[m]
       PROVE  Position(w)' = Position(w)
  BY <1>9, <1>10, <1>11, <1>12
<1>13. HistoryInv'
  <2>1. \A w \in Values : (\A n \in 1 .. N + 1 : pushed'[n] # w) => taken[w] = 0
    BY <1>5 DEF HistoryInv
  <2>2. \A m \in 1 .. Len(stolen) : \E n \in 1 .. N + 1 : stolen[m] = pushed'[n]
    BY <1>5, <1>11
  <2>3. ASSUME NEW m \in 1 .. Len(stolen), NEW n \in 1 .. Len(stolen), m < n,
               NEW x, x = stolen[m], NEW y, y = stolen[n]
        PROVE  Position(x)' < Position(y)'
    BY SMTT(60), <1>12, <2>3 DEF HistoryInv, StealsInPushOrder
  <2>4. StealsInPushOrder'
    BY <2>3 DEF StealsInPushOrder
  <2>5. QED
    BY <1>5, <1>8, <2>1, <2>2, <2>4 DEF HistoryInv
<1>14. ThievesInv' /\ \A t \in Thieves : SeesItem(t)' <=> SeesItem(t)
  <2>1. top < End /\ ~Unpublished(top) => top < End' /\ ~Unpublished(top)'
    <3>1. top < End => top \in top .. End - 1 /\ top < End'
      BY <1>1
    <3>2. QED
      BY <1>2, <3>1
  <2>2. QED
    BY <1>1, <2>1, ThievesKept
<1>15. PICK q \in [top .. End -> 1 .. N + 1] :
            q[End] = N + 1 /\ \A i \in top .. End - 1 : q[i] = pos[i]
  <2> DEFINE f == [i \in top .. End |-> IF i = End THEN N + 1 ELSE pos[i]]
  <2>1. \A i \in top .. End : i = End \/ i \in top .. End - 1
    BY <1>1
  <2>2. \A i \in top .. End - 1 : i \in top .. End /\ i # End /\ pos[i] \in 1 .. N + 1
    BY <1>1, <1>3, <1>5
  <2>3. End \in top .. End /\ N + 1 \in 1 .. N + 1
    BY <1>1
  <2>4. f \in [top .. End -> 1 .. N + 1]
    BY <2>1, <2>2, <2>3
  <2>5. f[End] = N + 1 /\ \A i \in top .. End - 1 : f[i] = pos[i]
    BY <2>2, <2>3
  <2>6. QED
    BY <2>4, <2>5
<1>16. /\ End' - 1 = End
       /\ \A i \in top .. End : i = End \/ i \in top .. End - 1
       /\ \A i \in top .. End - 1 : i < End /\ q[i] = pos[i] /\ pos[i] \in 1 .. N /\ pos[i] < N + 1
                                    /\ pushed'[q[i]] = pushed[pos[i]]
  <2>1. \A i \in top .. End - 1 : i < End /\ q[i] = pos[i] /\ pos[i] \in 1 .. N /\ pos[i] < N + 1
    BY <1>1, <1>3, <1>15
  <2>2. QED
    BY <1>1, <1>5, <2>1
<1>17. DequeHolds(q)'
  <2>1. ASSUME NEW i \in top .. End, NEW j \in top .. End, i < j
        PROVE  q[i] < q[j]
    <3>1. i \in top .. End - 1
      BY <1>1, <2>1
    <3>2. CASE j = End
      BY <1>15, <1>16, <3>1, <3>2
    <3>3. CASE j # End
      BY <1>3, <1>16, <2>1, <3>1, <3>3 DEF Holds, DequeHolds
    <3>4. QED
      BY <3>2, <3>3
  <2>2. ASSUME NEW n \in 1 .. N + 1
        PROVE  taken[pushed'[n]] = IF \E i \in top .. End : q[i] = n THEN 0 ELSE 1
    <3>1. CASE n = N + 1
      <4>1. taken[v] = 0
        BY <1>6 DEF HistoryInv, Values
      <4>2. End \in top .. End
        BY <1>1
      <4>3. QED
        BY <1>5, <1>15, <3>1, <4>1, <4>2
    <3>2. CASE n \in 1 .. N
      <4>1. (\E i \in top .. End : q[i] = n) <=> (\E i \in top .. End - 1 : pos[i] = n)
        <5>1. \A i \in top .. End - 1 : i \in top .. End
          BY <1>1
        <5>2. QED
          BY <1>5, <1>15, <1>16, <3>2, <5>1
      <4>2. taken[pushed[n]] = IF \E i \in top .. End - 1 : pos[i] = n THEN 0 ELSE 1
        BY <1>3, <3>2 DEF Holds, DequeHolds
      <4>3. QED
        BY <1>5, <3>2, <4>1, <4>2
    <3>3. QED
      BY <1>5, <3>1, <3>2
  <2>3. ASSUME NEW m \in 1 .. Len(stolen), NEW w, w = stolen[m], NEW i \in top .. End
        PROVE  Position(w)' < q[i]
    <3>1. Position(w)' = Position(w) /\ Position(w) \in 1 .. N
      BY <1>9, <1>11, <1>12, <2>3
    <3>2. CASE i = End
      BY <1>1, <1>15, <3>1, <3>2
    <3>3. CASE i \in top .. End - 1
      BY <1>3, <1>16, <2>3, <3>1, <3>3 DEF Holds, DequeHolds
    <3>4. QED
      BY <1>16, <3>2, <3>3
  <2>4. QED
    BY <1>5, <1>16, <2>1, <2>2, <2>3 DEF DequeHolds
<1>18. ArraysHold(q)'
  <2>1. ASSUME NEW i \in top .. End, NEW k \in array .. K, ~Unpublished(i)'
        PROVE  cells'[k][Cell(k, i)] = pushed'[q[i]]
    <3>1. i \in top .. End - 1
      BY <1>2, <1>16, <2>1
    <3>2. QED
      BY <1>2, <1>4, <1>16, <2>1, <3>1
  <2>2. ASSUME NEW j \in Buffered', IsCell(j)'
        PROVE  /\ sb'[j].value = pushed'[q[sb'[j].index]]
               /\ \A k \in sb'[j].array + 1 .. K :
                     cells'[k][Cell(k, sb'[j].index)] = pushed'[q[sb'[j].index]]
    <3>1. CASE j \in Buffered /\ IsCell(j) /\ sb'[j] = sb[j]
      <4>1. sb[j].index \in top .. End - 1
        BY <1>1, <3>1, BufferType DEF BufferInv
      <4>2. pushed'[q[sb[j].index]] = pushed[pos[sb[j].index]]
        BY <1>16, <4>1
      <4>3. /\ sb[j].value = pushed[pos[sb[j].index]]
            /\ \A k \in sb[j].array + 1 .. K :
                  cells'[k][Cell(k, sb[j].index)] = pushed[pos[sb[j].index]]
        BY <1>4, <3>1
      <4>4. QED
        BY <3>1, <4>2, <4>3
    <3>2. CASE \E n \in 1 .. Len(stores) : stores[n].to = "cell" /\ sb'[j] = stores[n]
      <4>1. sb'[j].index = End /\ sb'[j].array = K /\ sb'[j].value = v
        BY <3>2 DEF NewStores
      <4>2. \A k : k \notin K + 1 .. K
        BY <1>1
      <4>3. QED
        BY <1>5, <1>15, <4>1, <4>2
    <3>3. QED
      BY <1>2, <2>2, <3>1, <3>2
  <2>3. QED
    BY <1>16, <2>1, <2>2 DEF ArraysHold
<1>19. ThievesHold(q)'
  <2> SUFFICES ASSUME NEW t \in Thieves, SeesItem(t)
               PROVE  /\ t_pc[t] = "steal_cell" =>
                            cells'[t_array[t]][Cell(t_array[t], top)] = pushed'[q[top]]
                      /\ t_pc[t] = "steal_cas" => t_val[t] = pushed'[q[top]]
    BY <1>14 DEF ThievesHold
  <2>1. top \in top .. End - 1
    BY <1>1 DEF ThievesInv
  <2>2. pushed'[q[top]] = pushed[pos[top]]
    BY <1>16, <2>1
  <2>3. t_pc[t] = "steal_cell" => cells'[t_array[t]] = cells[t_array[t]]
    BY <1>4 DEF ThievesInv, TypeOK
  <2>4. QED
    BY <1>3, <2>2, <2>3 DEF Holds, ThievesHold
<1>20. q \in [top' .. End' - 1 -> 1 .. Len(pushed')]
  BY <1>5, <1>15, <1>16
<1>21. QED
  BY <1>2, <1>7, <1>13, <1>14, <1>17, <1>18, <1>19, <1>20 DEF Holds

LEMMA PushBottomInv ==
    ASSUME IInv, NEW v \in Items, PushBottom(v)
    PROVE  IInv'
<1> USE DEF IInv
<1>1. CASE UNCHANGED vars
  BY <1>1, StutterInv
<1>2. CASE ~UNCHANGED vars
  <2>1. PICK stores :
            stores = <<>> \o <<CellStore(o_array, o_bottom, v), BottomStore(o_bottom + 1)>>
    OBVIOUS
  <2>2. /\ o_pc = "idle" /\ Fresh(v) /\ ~Full /\ Store(stores)
        /\ o_bottom' = o_bottom + 1 /\ pushed' = Append(pushed, v)
        /\ o_pc' = "idle" /\ o_array' = o_array /\ cells' = cells
        /\ UNCHANGED <<top, bottom, array, o_t, taken, stolen>>
        /\ UNCHANGED <<t_pc, t_top, t_bottom, t_array, t_val>>
    BY <1>2, <2>1 DEF PushBottom, PutBottom, memory, thieves
  <2>3. o_array \in Arrays /\ End' = End + 1 /\ NextArray(o_array)
    BY <2>2, IndexType DEF End, NextArray
  <2>4. NewStores(stores, o_array)
    BY <2>1, <2>2, <2>3, PushStores
  <2>5. \A n \in 1 .. Len(stores) : stores[n].to = "cell" => stores[n].value = v
    <3>1. stores = <<CellStore(o_array, o_bottom, v), BottomStore(o_bottom + 1)>>
      BY <2>1
    <3>2. QED
      BY <3>1 DEF CellStore, BottomStore
  <2>6. End - top < ArraySize(o_array) - 1
    BY <2>2, IndexType DEF Full, End
  <2>7. QED
    BY <2>2, <2>3, <2>4, <2>5, <2>6, PushInv
<1>3. QED
  BY <1>1, <1>2

LEMMA PushBottomAutogrowInv ==
    ASSUME IInv, NEW v \in Items, PushBottomAutogrow(v)
    PROVE  IInv'
<1> USE DEF IInv
<1>1. CASE UNCHANGED vars
  BY <1>1, StutterInv
<1>2. CASE ~UNCHANGED vars
  <2>1. PICK K \in Arrays : K = o_array + 1
    <3>1. o_array \in Nat /\ o_array < MaxGrow
      BY <1>2, IndexType DEF PushBottomAutogrow
    <3>2. QED
      BY <3>1, BoundsAssumption DEF Arrays
  <2>2. PICK stores : stores = <<ArrayStore(K)>>
                                  \o <<CellStore(K, o_bottom, v), BottomStore(o_bottom + 1)>>
    OBVIOUS
  <2>3. /\ o_pc = "idle" /\ Fresh(v) /\ CopyTo(K) /\ Store(stores)
        /\ o_bottom' = o_bottom + 1 /\ pushed' = Append(pushed, v)
        /\ o_pc' = "idle" /\ o_array' = K
        /\ UNCHANGED <<top, bottom, array, o_t, taken, stolen>>
        /\ UNCHANGED <<t_pc, t_top, t_bottom, t_array, t_val>>
    BY <1>2, <2>1, <2>2 DEF PushBottomAutogrow, PutBottom, thieves
  <2>4. End' = End + 1 /\ NextArray(K)
    BY <2>1, <2>3, IndexType DEF End, NextArray
  <2>5. NewStores(stores, K)
    BY <2>1, <2>2, <2>3, <2>4, GrowPushStores
  <2>6. \A n \in 1 .. Len(stores) : stores[n].to = "cell" => stores[n].value = v
    <3>1. /\ CellStore(K, o_bottom, v) \in Stores /\ BottomStore(o_bottom + 1) \in Stores
          /\ ArrayStore(K) \in Stores
      BY <2>3, IndexType, CellStoreType, BottomStoreType, ArrayStoreType DEF End
    <3>2. /\ Len(stores) = 3 /\ stores[1] = ArrayStore(K)
          /\ stores[2] = CellStore(K, o_bottom, v) /\ stores[3] = BottomStore(o_bottom + 1)
      BY <2>2, <3>1
    <3>3. \A n \in 1 .. Len(stores) : n = 1 \/ n = 2 \/ n = 3
      BY <3>2
    <3>4. QED
      BY <3>2, <3>3 DEF CellStore, BottomStore, ArrayStore
  <2>7. End - top < ArraySize(K) - 1
    <3>1. /\ o_array \in Nat /\ ArraySize(o_array) \in Nat \ {0}
          /\ ArraySize(K) = 2 * ArraySize(o_array)
          /\ End \in Nat /\ top \in Nat /\ End - top < ArraySize(o_array)
      BY <2>1, IndexType, Sizes
    <3>2. QED
      BY <3>1
  <2>8. QED
    BY <2>3, <2>4, <2>5, <2>6, <2>7, PushInv
<1>3. QED
  BY <1>1, <1>2

-----------------------------------------------------------------------------
(* The theorems.                                                           *)

\* The deque as created: empty, with nothing on its way to memory.
LEMMA InitInv == Init => IInv
<1> SUFFICES ASSUME Init
             PROVE  IInv
  OBVIOUS
<1> USE DEF Init
<1>1. Len(sb) = 0 /\ Buffered = {} /\ \A i : ~Unpublished(i)
  <2>1. Len(sb) = 0
    BY EmptySeq
  <2>2. Buffered = {}
    BY <2>1 DEF Buffered
  <2>3. QED
    BY <2>1, <2>2 DEF Unpublished
<1>2. Len(pushed) = 0 /\ Len(stolen) = 0 /\ pushed \in Seq(Items) /\ stolen \in Seq(Values)
      /\ sb \in Seq(Stores)
  BY EmptySeq
<1>3. 0 \in Arrays /\ 0 \in Nat /\ Garbage \in Values
  BY BoundsAssumption DEF Arrays, Values
<1>4. ArraySize(0) \in Nat \ {0}
  BY Sizes
<1>5. TypeOK
  <2>1. Len(sb) <= StoreBufferSize
    BY <1>1, BoundsAssumption
  <2>2. DOMAIN cells = Arrays /\ \A k \in Arrays : cells[k] \in [0 .. ArraySize(k) - 1 -> Values]
    BY <1>3
  <2>3. taken \in [Values -> Nat]
    OBVIOUS
  <2>4. /\ t_pc \in [Thieves -> {"idle", "steal_bottom", "steal_array", "steal_cell",
                                 "steal_cas"}]
        /\ t_top \in [Thieves -> Nat] /\ t_bottom \in [Thieves -> Nat \cup {-1}]
        /\ t_array \in [Thieves -> Arrays] /\ t_val \in [Thieves -> Values]
    BY <1>3
  <2>5. QED
    BY <1>2, <1>3, <2>1, <2>2, <2>3, <2>4 DEF TypeOK
<1>6. End = 0
  BY DEF End
<1>7. IndicesInv
  BY <1>4, <1>6 DEF IndicesInv
<1>8. BufferInv /\ OrderInv
  BY <1>1 DEF BufferInv, OrderInv
<1>9. HistoryInv
  BY <1>2 DEF HistoryInv, StealsInPushOrder
<1>10. \A t \in Thieves : ~SeesItem(t)
  BY DEF SeesItem
<1>11. ThievesInv
  BY <1>10 DEF ThievesInv
<1>12. \A i : i \notin top .. End - 1
  BY <1>6
<1>13. PICK pos : pos \in [top .. End - 1 -> 1 .. Len(pushed)]
  <2>1. [i \in top .. End - 1 |-> 1] \in [top .. End - 1 -> 1 .. Len(pushed)]
    BY <1>12
  <2>2. QED
    BY <2>1
<1>14. Holds(pos)
  BY <1>1, <1>2, <1>10, <1>12 DEF Holds, DequeHolds, ArraysHold, ThievesHold
<1>15. QED
  BY <1>5, <1>7, <1>8, <1>9, <1>11, <1>13, <1>14 DEF IInv

\* Every step of the owner, the thieves and the store buffer preserves the invariant.
LEMMA StepInv ==
    ASSUME Fenced, IInv, [Next]_vars
    PROVE  IInv'
<1>1. CASE UNCHANGED vars
  BY <1>1, StutterInv
<1>2. CASE Flush
  BY <1>2, FlushInv
<1>3. ASSUME NEW v \in Items, PushBottom(v) \/ PushBottomAutogrow(v)
      PROVE  IInv'
  BY <1>3, PushBottomInv, PushBottomAutogrowInv
<1>4. CASE Grow
  BY <1>4, GrowInv
<1>5. CASE PopStoreBottom
  BY <1>5, PopStoreBottomInv
<1>6. CASE PopReadTop
  BY <1>6, PopReadTopInv
<1>7. CASE PopCAS
  BY <1>7, PopCASInv
<1>8. ASSUME NEW t \in Thieves, StealStep(t)
      PROVE  IInv'
  BY <1>8, StealReadTopInv, StealReadBottomInv, StealReadArrayInv, StealReadCellInv,
     StealCASInv DEF StealStep
<1>9. QED
  BY <1>1, <1>2, <1>3, <1>4, <1>5, <1>6, <1>7, <1>8 DEF Next, OwnerStep, OwnerRuns

\* The inductive invariant holds of every behaviour of the fenced deque.
THEOREM Invariant ==
    ASSUME Fenced
    PROVE  Spec => []IInv
<1>1. Init => IInv
  BY InitInv
<1>2. IInv /\ [Next]_vars => IInv'
  BY StepInv
<1>3. QED
  BY <1>1, <1>2, PTL DEF Spec

\* No item is returned by two calls, and none that was not pushed, however
\* pop_bottom, the steals, the growths and the store buffer interleave.
THEOREM TakenOnceCorrect ==
    ASSUME Fenced
    PROVE  Spec => []TakenOnce
<1>1. IInv => TakenOnce
  <2> SUFFICES ASSUME IInv, NEW v \in Values
               PROVE  taken[v] <= IF v \in Items THEN 1 ELSE 0
    BY DEF TakenOnce
  <2>1. PICK pos \in [top .. End - 1 -> 1 .. Len(pushed)] : Holds(pos)
    BY DEF IInv
  <2>2. CASE \E n \in 1 .. Len(pushed) : pushed[n] = v
    <3>1. PICK n \in 1 .. Len(pushed) : pushed[n] = v
      BY <2>2
    <3>2. v \in Items
      BY <3>1 DEF IInv, TypeOK
    <3>3. taken[v] = 0 \/ taken[v] = 1
      BY <2>1, <3>1 DEF Holds, DequeHolds
    <3>4. QED
      BY <3>2, <3>3
  <2>3. CASE \A n \in 1 .. Len(pushed) : pushed[n] # v
    BY <2>3 DEF IInv, HistoryInv
  <2>4. QED
    BY <2>2, <2>3
<1>2. QED
  BY <1>1, Invariant, PTL

\* No pushed item is lost to a growth, an aborted steal or a pop that found the
\* deque empty; the size is never negative between calls; steals are in push order.
THEOREM DequeCorrect ==
    ASSUME Fenced
    PROVE  Spec => []DequeIntact
<1>1. IInv => DequeIntact
  <2> SUFFICES ASSUME IInv
               PROVE  DequeIntact
    OBVIOUS
  <2> USE DEF IInv
  <2>1. PICK pos \in [top .. End - 1 -> 1 .. Len(pushed)] : Holds(pos)
    OBVIOUS
  <2>2. BottomAboveTop
    BY IndexType DEF BottomAboveTop, End
  <2>3. End - 1 = IF o_pc = "idle" THEN o_bottom - 1 ELSE o_bottom
    BY IndexType DEF End
  <2>4. NothingLost
    <3> SUFFICES ASSUME NEW n \in 1 .. Len(pushed), ~(taken[pushed[n]] > 0)
                 PROVE  \E i \in top .. End - 1 : OwnerGet(o_array, i) = pushed[n]
      BY <2>3 DEF NothingLost
    <3>1. PICK i \in top .. End - 1 : pos[i] = n
      BY <2>1 DEF Holds, DequeHolds
    <3>2. OwnerGet(o_array, i) = pushed[n]
      BY <2>1, <3>1, OwnerReads DEF Holds
    <3>3. QED
      BY <3>2
  <2>5. QED
    BY <2>2, <2>4 DEF DequeIntact, HistoryInv
<1>2. QED
  BY <1>1, Invariant, PTL

\* pop_bottom returns the newest item: those pushed after it are already gone.
THEOREM OwnerTakesNewestCorrect ==
    ASSUME Fenced
    PROVE  Spec => OwnerTakesNewest
<1> DEFINE Newest == \A n \in 1 .. Len(pushed) :
                        stolen' = stolen /\ taken'[pushed[n]] > taken[pushed[n]]
                            => \A m \in n + 1 .. Len(pushed) : taken[pushed[m]] > 0
<1>1. ASSUME IInv, [Next]_vars
      PROVE  [Newest]_vars
  <2> SUFFICES ASSUME NEW n \in 1 .. Len(pushed), stolen' = stolen,
                      taken'[pushed[n]] > taken[pushed[n]],
                      NEW m \in n + 1 .. Len(pushed)
               PROVE  taken[pushed[m]] > 0
    OBVIOUS
  <2> USE <1>1 DEF IInv
  <2>1. PICK pos \in [top .. End - 1 -> 1 .. Len(pushed)] : Holds(pos)
    OBVIOUS
  <2>2. taken[pushed[n]] \in Nat /\ Len(pushed) \in Nat
    BY DEF TypeOK, Values
  <2>3. taken' # taken
    BY <2>2
  <2>4. /\ o_pc # "idle" /\ top < End
        /\ taken' = [taken EXCEPT ![Popped] = @ + 1]
    <3>1. CASE PopReadTop
      BY SMTT(60), <2>3, <3>1, IndexType DEF PopReadTop, End, history
    <3>2. CASE PopCAS
      <4>1. o_pc = "pop_cas" /\ top = o_t /\ taken' = [taken EXCEPT ![Popped] = @ + 1]
        BY <2>3, <3>2 DEF PopCAS
      <4>2. top = o_bottom /\ End = o_bottom + 1 /\ top \in Nat
        BY <4>1, IndexType DEF End, IndicesInv
      <4>3. QED
        BY <4>1, <4>2
    <3>3. CASE \E t \in Thieves : StealStep(t)
      BY <2>3, <3>3 DEF StealStep, StealReadTop, StealReadBottom, StealReadArray,
            StealReadCell, StealCAS, history, TypeOK
    <3>4. QED
      BY <1>1, <2>3, <3>1, <3>2, <3>3 DEF Next, OwnerStep, OwnerRuns, Flush, PushBottom,
            PushBottomAutogrow, Grow, PopStoreBottom, history, vars
  <2>5. Popped = pushed[pos[End - 1]] /\ End - 1 \in top .. End - 1
    BY <2>1, <2>4, PoppedItem DEF Holds
  <2>6. pos[End - 1] \in 1 .. Len(pushed) /\ taken' = [taken EXCEPT ![pushed[pos[End - 1]]] = @ + 1]
    BY <2>1, <2>4, <2>5
  <2>7. \A k \in 1 .. Len(pushed) : k # pos[End - 1] => taken'[pushed[k]] = taken[pushed[k]]
    BY <2>6, Take
  <2>8. n = pos[End - 1]
    BY <2>2, <2>7
  <2>9. m \in 1 .. Len(pushed) /\ n < m
    BY <2>2
  <2>10. ASSUME NEW i \in top .. End - 1
         PROVE  pos[i] # m
    <3>1. i = End - 1 \/ i < End - 1
      <4>1. End \in Nat /\ top \in Nat
        BY IndexType
      <4>2. QED
        BY <4>1
    <3>2. i < End - 1 => pos[i] < n
      BY <2>1, <2>5, <2>8 DEF Holds, DequeHolds
    <3>3. pos[i] \in Nat
      BY <2>1
    <3>4. QED
      BY <2>8, <2>9, <3>1, <3>2, <3>3
  <2>11. taken[pushed[m]] = 1
    BY <2>1, <2>9, <2>10 DEF Holds, DequeHolds
  <2>12. QED
    BY <2>11
<1>2. IInv /\ [Next]_vars => [Newest]_vars
  BY <1>1
<1>3. Spec => [][Newest]_vars
  <2> HIDE DEF Newest
  <2>1. QED
    BY <1>2, Invariant, PTL DEF Spec
<1>4. QED
  BY <1>3 DEF OwnerTakesNewest

=============================================================================
