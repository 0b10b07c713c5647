------------------------- MODULE WorkStealingDeque -------------------------
(***************************************************************************)
(* src/work_stealing_deque.c: the Chase-Lev deque.  The owner pushes and   *)
(* pops at `bottom` without a lock; thieves CAS `top`.  The array grows by *)
(* copying, and thieves may go on reading the old one.                     *)
(*                                                                         *)
(* The owner's plain stores go through a store buffer, as on x86: they are *)
(* seen by the owner at once and by the thieves when Flush writes them to  *)
(* memory, oldest first.  A locked instruction (the CAS) waits for the     *)
(* buffer to drain; so does store_load_barrier when it is a real fence,    *)
(* which it is for ARCH_x86 and is NOT for ARCH_x86_64, where its body is  *)
(* empty (Fenced).  Thieves store nothing but through their CAS.           *)
(*                                                                         *)
(* Between two loads of `top` the owner does nothing a thief can see       *)
(* except through Flush, so the owner's code from one load of `top` to the *)
(* next is one action.  Only the owner writes `bottom`, the array pointer  *)
(* and the cells: o_bottom and o_array are their newest values.            *)
(***************************************************************************)
EXTENDS Integers, Sequences, FiniteSets

CONSTANTS Thieves,          \* threads that call steal
          Items,            \* the pointers pushed; each is pushed once
          InitLog,          \* log_size of the first array (the code: at least 8)
          MaxGrow,          \* bound: how many times the array can grow
          StoreBufferSize,  \* how many stores the owner's buffer holds
          Fenced,           \* store_load_barrier() drains the store buffer
          Garbage           \* the content of malloc'ed cells nobody has written

ASSUME BoundsAssumption ==
    InitLog \in Nat \ {0} /\ MaxGrow \in Nat /\ StoreBufferSize \in Nat \ {0, 1, 2}
ASSUME FencedAssumption == Fenced \in BOOLEAN
ASSUME GarbageAssumption == Garbage \notin Items

VARIABLES
    top, bottom, array, cells,    \* memory: the deque and its arrays
    sb,                           \* the owner's stores that are not in memory yet
    o_pc, o_bottom, o_array, o_t, \* the owner, and its local `t`
    t_pc, t_top, t_bottom, t_array, t_val, \* the thieves and their locals
    pushed,                       \* history: the items pushed, in order
    taken,                        \* history: how many calls returned each value
    stolen                        \* history: the items stolen, in order

owner == <<o_pc, o_bottom, o_array, o_t>>
memory == <<top, bottom, array, cells>>
thieves == <<t_pc, t_top, t_bottom, t_array, t_val>>
history == <<pushed, taken, stolen>>
vars == <<memory, sb, owner, thieves, history>>

Values == Items \cup {Garbage}
Arrays == 0 .. MaxGrow

\* a->size = 1 << log_size, for the array after k growths; i & a->size_minus_one
TwoTo[n \in Nat] == IF n = 0 THEN 1 ELSE 2 * TwoTo[n - 1]
ArraySize(k) == TwoTo[InitLog + k]
Cell(k, i) == i % ArraySize(k)

\* wsd_work_stealing_deque_create
Init ==
    /\ top = 0 /\ bottom = 0 /\ array = 0
    /\ cells = [k \in Arrays |-> [i \in 0 .. ArraySize(k) - 1 |-> Garbage]]
    /\ sb = <<>>
    /\ o_pc = "idle" /\ o_bottom = 0 /\ o_array = 0 /\ o_t = 0
    /\ t_pc = [t \in Thieves |-> "idle"]
    /\ t_top = [t \in Thieves |-> 0]
    /\ t_bottom = [t \in Thieves |-> 0]
    /\ t_array = [t \in Thieves |-> 0]
    /\ t_val = [t \in Thieves |-> Garbage]
    /\ pushed = <<>> /\ taken = [v \in Values |-> 0] /\ stolen = <<>>

-----------------------------------------------------------------------------
(* The store buffer.                                                       *)

BottomStore(b) == [to |-> "bottom", index |-> b]
ArrayStore(k) == [to |-> "array", index |-> k]
CellStore(k, i, v) == [to |-> "cell", array |-> k, index |-> i, value |-> v]
Stores == [to : {"bottom"}, index : Nat \cup {-1}] \cup [to : {"array"}, index : Arrays]
          \cup [to : {"cell"}, array : Arrays, index : Nat, value : Items]

\* The owner's stores, in program order; they wait while the buffer is full.
Store(stores) ==
    /\ Len(sb) + Len(stores) <= StoreBufferSize
    /\ sb' = sb \o stores

\* The oldest buffered store reaches memory.
Flush ==
    /\ sb # <<>>
    /\ LET s == Head(sb) IN
         \/ s.to = "bottom" /\ bottom' = s.index /\ UNCHANGED <<array, cells>>
         \/ s.to = "array" /\ array' = s.index /\ UNCHANGED <<bottom, cells>>
         \/ /\ s.to = "cell"
            /\ cells' = [cells EXCEPT ![s.array][Cell(s.array, s.index)] = s.value]
            /\ UNCHANGED <<bottom, array>>
    /\ sb' = Tail(sb)
    /\ UNCHANGED <<top, owner, thieves, history>>

\* wsd_circular_array_get by the owner: its newest store to the cell, or memory.
OwnerGet(k, i) ==
    LET mine == {j \in 1 .. Len(sb) : sb[j].to = "cell" /\ sb[j].array = k
                                      /\ Cell(k, sb[j].index) = Cell(k, i)}
    IN  IF mine = {} THEN cells[k][Cell(k, i)]
        ELSE sb[CHOOSE j \in mine : \A m \in mine : m <= j].value

-----------------------------------------------------------------------------
(* wsd_work_stealing_deque_push_bottom, _push_bottom_autogrow and          *)
(* wsd_work_stealing_grow, owner only                                      *)

\* size >= a->size_minus_one, for size = b - d->top
Full == o_bottom - top >= ArraySize(o_array) - 1

Fresh(v) == \A i \in 1 .. Len(pushed) : pushed[i] # v

\* wsd_circular_array_put; write_barrier; d->bottom = b + 1
PutBottom_Swapped(k, v, before) ==
    /\ Store(before \o <<BottomStore(o_bottom + 1), CellStore(k, o_bottom, v)>>)
    /\ o_bottom' = o_bottom + 1
    /\ pushed' = Append(pushed, v)
PutBottom(k, v, before) ==
    /\ Store(before \o <<CellStore(k, o_bottom, v), BottomStore(o_bottom + 1)>>)
    /\ o_bottom' = o_bottom + 1
    /\ pushed' = Append(pushed, v)

\* wsd_circular_array_grow(a, top, bottom): the live items go to a new array no
\* thief can reach before the store of the array pointer.
CopyTo_FromTopPlusOne(k) ==
    cells' = [cells EXCEPT ![k] = [c \in DOMAIN cells[k] |->
        IF \E i \in top + 1 .. o_bottom - 1 : Cell(k, i) = c
        THEN OwnerGet(o_array, CHOOSE i \in top + 1 .. o_bottom - 1 : Cell(k, i) = c)
        ELSE cells[k][c]]]
CopyTo(k) ==
    cells' = [cells EXCEPT ![k] = [c \in DOMAIN cells[k] |->
        IF \E i \in top .. o_bottom - 1 : Cell(k, i) = c
        THEN OwnerGet(o_array, CHOOSE i \in top .. o_bottom - 1 : Cell(k, i) = c)
        ELSE cells[k][c]]]

\* A full array makes push_bottom return -1 and change nothing.
PushBottom(v) ==
    /\ o_pc = "idle" /\ Fresh(v)
    /\ \/ /\ ~Full
          /\ PutBottom(o_array, v, <<>>)
          /\ UNCHANGED <<memory, o_pc, o_array, o_t, thieves, taken, stolen>>
       \/ Full /\ UNCHANGED vars

\* With room left it does what PushBottom does.  When the new array cannot be
\* allocated, -1 is returned and nothing changes; MaxGrow bounds how often it can
\* be.
PushBottomAutogrow(v) ==
    /\ o_pc = "idle" /\ Fresh(v)
    /\ Full
    /\ \/ /\ o_array < MaxGrow
          /\ CopyTo(o_array + 1)
          /\ PutBottom(o_array + 1, v, <<ArrayStore(o_array + 1)>>)
          /\ o_array' = o_array + 1
          /\ UNCHANGED <<top, bottom, array, o_pc, o_t, thieves, taken, stolen>>
       \/ UNCHANGED vars

\* wsd_work_stealing_grow; WSD_ABORT when there is room, NULL when malloc fails.
Grow ==
    /\ o_pc = "idle"
    /\ Full
    /\ \/ /\ o_array < MaxGrow
          /\ CopyTo(o_array + 1)
          /\ Store(<<ArrayStore(o_array + 1)>>)
          /\ o_array' = o_array + 1
          /\ UNCHANGED <<top, bottom, array, o_pc, o_bottom, o_t, thieves, history>>
       \/ UNCHANGED vars

-----------------------------------------------------------------------------
(* wsd_work_stealing_deque_pop_bottom, owner only                          *)

\* b = d->bottom - 1; d->bottom = b
PopStoreBottom ==
    /\ o_pc = "idle"
    /\ Store(<<BottomStore(o_bottom - 1)>>)
    /\ o_bottom' = o_bottom - 1
    /\ o_pc' = "pop_top"
    /\ UNCHANGED <<memory, o_array, o_t, thieves, history>>

\* d->bottom = b, and the call returns
RestoreBottom(b) ==
    /\ Store(<<BottomStore(b)>>)
    /\ o_bottom' = b
    /\ o_pc' = "idle"
    /\ o_t' = 0

\* The item pop_bottom returns, from the cell at `b`.
Popped_CellAbove == OwnerGet(o_array, o_bottom + 1)
Popped == OwnerGet(o_array, o_bottom)

\* store_load_barrier(); t = d->top, and what follows up to the CAS
PopReadTop ==
    /\ o_pc = "pop_top"
    /\ Fenced => sb = <<>>
    /\ \/ /\ o_bottom - top < 0
          /\ RestoreBottom(top)
          /\ UNCHANGED <<memory, o_array, thieves, history>>
       \/ /\ o_bottom - top > 0
          /\ taken' = [taken EXCEPT ![Popped] = @ + 1]
          /\ o_pc' = "idle"
          /\ UNCHANGED <<memory, sb, o_bottom, o_array, o_t, thieves, pushed, stolen>>
       \/ /\ o_bottom - top = 0
          /\ o_t' = top
          /\ o_pc' = "pop_cas"
          /\ UNCHANGED <<memory, sb, o_bottom, o_array, thieves, history>>

\* One item was left: the CAS on `top` decides who gets it.
PopCAS_NoRestore ==
    /\ o_pc = "pop_cas"
    /\ sb = <<>>
    /\ \/ /\ top = o_t
          /\ top' = o_t + 1
          /\ taken' = [taken EXCEPT ![Popped] = @ + 1]
          /\ RestoreBottom(o_t + 1)
       \/ /\ top # o_t
          /\ o_pc' = "idle" /\ o_t' = 0
          /\ UNCHANGED <<top, taken, sb, o_bottom>>
    /\ UNCHANGED <<bottom, array, cells, o_array, thieves, pushed, stolen>>
PopCAS ==
    /\ o_pc = "pop_cas"
    /\ sb = <<>>
    /\ \/ /\ top = o_t
          /\ top' = o_t + 1
          /\ taken' = [taken EXCEPT ![Popped] = @ + 1]
       \/ /\ top # o_t
          /\ UNCHANGED <<top, taken>>
    /\ RestoreBottom(o_t + 1)
    /\ UNCHANGED <<bottom, array, cells, o_array, thieves, pushed, stolen>>

-----------------------------------------------------------------------------
(* wsd_work_stealing_deque_steal                                           *)

\* The call returns: its locals are gone.
StealReturn(t) ==
    /\ t_pc' = [t_pc EXCEPT ![t] = "idle"]
    /\ t_top' = [t_top EXCEPT ![t] = 0]
    /\ t_bottom' = [t_bottom EXCEPT ![t] = 0]
    /\ t_array' = [t_array EXCEPT ![t] = 0]
    /\ t_val' = [t_val EXCEPT ![t] = Garbage]

\* t = d->top
StealReadTop(t) ==
    /\ t_pc[t] = "idle"
    /\ t_top' = [t_top EXCEPT ![t] = top]
    /\ t_pc' = [t_pc EXCEPT ![t] = "steal_bottom"]
    /\ UNCHANGED <<memory, sb, owner, t_bottom, t_array, t_val, history>>

\* b = d->bottom
StealReadBottom(t) ==
    /\ t_pc[t] = "steal_bottom"
    /\ t_bottom' = [t_bottom EXCEPT ![t] = bottom]
    /\ t_pc' = [t_pc EXCEPT ![t] = "steal_array"]
    /\ UNCHANGED <<memory, sb, owner, t_top, t_array, t_val, history>>

\* a = d->underlying_array; size <= 0 returns WSD_EMPTY
StealReadArray(t) ==
    /\ t_pc[t] = "steal_array"
    /\ \/ /\ t_bottom[t] - t_top[t] > 0
          /\ t_array' = [t_array EXCEPT ![t] = array]
          /\ t_pc' = [t_pc EXCEPT ![t] = "steal_cell"]
          /\ UNCHANGED <<t_top, t_bottom, t_val>>
       \/ t_bottom[t] - t_top[t] <= 0 /\ StealReturn(t)
    /\ UNCHANGED <<memory, sb, owner, history>>

\* ret = wsd_circular_array_get(a, t)
StealReadCell(t) ==
    /\ t_pc[t] = "steal_cell"
    /\ t_val' = [t_val EXCEPT ![t] = cells[t_array[t]][Cell(t_array[t], t_top[t])]]
    /\ t_pc' = [t_pc EXCEPT ![t] = "steal_cas"]
    /\ UNCHANGED <<memory, sb, owner, t_top, t_bottom, t_array, history>>

\* __sync_bool_compare_and_swap(&d->top, t, t + 1) ? ret : WSD_ABORT
StealCAS(t) ==
    /\ t_pc[t] = "steal_cas"
    /\ \/ /\ top = t_top[t]
          /\ top' = t_top[t] + 1
          /\ taken' = [taken EXCEPT ![t_val[t]] = @ + 1]
          /\ stolen' = Append(stolen, t_val[t])
       \/ top # t_top[t] /\ UNCHANGED <<top, taken, stolen>>
    /\ StealReturn(t)
    /\ UNCHANGED <<bottom, array, cells, sb, owner, pushed>>

-----------------------------------------------------------------------------
OwnerRuns == PopReadTop \/ PopCAS
OwnerStep ==
    \/ \E v \in Items : PushBottom(v) \/ PushBottomAutogrow(v)
    \/ Grow
    \/ PopStoreBottom
    \/ OwnerRuns

StealStep(t) ==
    \/ StealReadTop(t) \/ StealReadBottom(t) \/ StealReadArray(t)
    \/ StealReadCell(t) \/ StealCAS(t)

Next == Flush \/ OwnerStep \/ \E t \in Thieves : StealStep(t)

Spec == Init /\ [][Next]_vars

\* Stores reach memory in the end, the owner finishes a pop it has begun but need
\* not call again, and thieves keep stealing.
Fairness ==
    /\ WF_vars(Flush)
    /\ WF_vars(OwnerRuns)
    /\ \A t \in Thieves : WF_vars(StealStep(t))

LiveSpec == Spec /\ Fairness

-----------------------------------------------------------------------------
\* `bottom` is -1 at worst: while pop_bottom looks at a deque that never held
\* anything.
TypeOK ==
    /\ top \in Nat /\ bottom \in Nat \cup {-1} /\ array \in Arrays
    /\ DOMAIN cells = Arrays
    /\ \A k \in Arrays : cells[k] \in [0 .. ArraySize(k) - 1 -> Values]
    /\ sb \in Seq(Stores) /\ Len(sb) <= StoreBufferSize
    /\ o_pc \in {"idle", "pop_top", "pop_cas"}
    /\ o_bottom \in Nat \cup {-1} /\ o_array \in Arrays /\ o_t \in Nat
    /\ t_pc \in [Thieves -> {"idle", "steal_bottom", "steal_array", "steal_cell",
                             "steal_cas"}]
    /\ t_top \in [Thieves -> Nat] /\ t_bottom \in [Thieves -> Nat \cup {-1}]
    /\ t_array \in [Thieves -> Arrays] /\ t_val \in [Thieves -> Values]
    /\ pushed \in Seq(Items) /\ taken \in [Values -> Nat] /\ stolen \in Seq(Values)

\* What wsd_test.c asserts of its results: each item is handed out by one call of
\* pop_bottom or steal and no other, and no call returns an unwritten cell of an
\* array that has just grown.
TakenOnce == \A v \in Values : taken[v] <= IF v \in Items THEN 1 ELSE 0

\* Every pushed item has been taken or can still be: it is in the owner's array
\* between `top` and the owner's end, an unfinished pop's cell included.  Neither
\* growing nor an aborted or emptied pop loses one.
NothingLost ==
    \A n \in 1 .. Len(pushed) :
        \/ taken[pushed[n]] > 0
        \/ \E i \in top .. (IF o_pc = "idle" THEN o_bottom - 1 ELSE o_bottom) :
              OwnerGet(o_array, i) = pushed[n]

\* Between calls `bottom` is not below `top`: the owner's size is never negative,
\* so wsd_work_stealing_grow's comparison with the unsigned size_minus_one is right.
BottomAboveTop == o_pc = "idle" => top <= o_bottom

Position(v) == CHOOSE n \in 1 .. Len(pushed) : pushed[n] = v

\* Thieves take the oldest items: over all thieves, in the order of pushing.
StealsInPushOrder ==
    \A m, n \in 1 .. Len(stolen) :
        m < n => Position(stolen[m]) < Position(stolen[n])

\* The deque between and within calls: its indices and cells are in range, its size
\* is never negative, nothing in it is lost, and thieves get it in push order.
DequeIntact == TypeOK /\ BottomAboveTop /\ NothingLost /\ StealsInPushOrder

\* The owner takes the newest: when pop_bottom returns an item, every item pushed
\* after it is already gone.
OwnerTakesNewest ==
    [][\A n \in 1 .. Len(pushed) :
          stolen' = stolen /\ taken'[pushed[n]] > taken[pushed[n]]
              => \A m \in n + 1 .. Len(pushed) : taken[pushed[m]] > 0]_vars

\* Every pushed item is taken in the end even if the owner never pops again: a
\* WSD_ABORT always means that another call took the item.
Drains ==
    \A v \in Items :
        (\E n \in 1 .. Len(pushed) : pushed[n] = v) ~> taken[v] > 0

=============================================================================
