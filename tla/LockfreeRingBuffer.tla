------------------------- MODULE LockfreeRingBuffer -------------------------
(***************************************************************************)
(* include/fibconcurrent/lockfree_ring_buffer.h: a bounded ring that any   *)
(* number of threads push to and pop from.  `high` and `low` are tickets:  *)
(* a push claims ticket `high` with a CAS and writes its slot afterwards,  *)
(* a pop claims ticket `low` with a CAS and clears its slot afterwards.    *)
(* Between the claim and the write (or the clearing) every other thread    *)
(* runs; the NULL in a slot is what tells them the claim is unfinished.    *)
(*                                                                         *)
(* One action per access to shared memory.  The buffer size is             *)
(* 1 << power_of_2_size, so `x & power_of_2_mod` is x % Size.  The tickets *)
(* are uint64_t and are not wrapped here: TicketsInRange keeps every       *)
(* subtraction the code makes on them non-negative, and 2^64 operations    *)
(* are out of reach of a run of the program.                               *)
(***************************************************************************)
EXTENDS Integers, Sequences, FiniteSets

CONSTANTS Producers,  \* threads that call push and trypush
          Consumers,  \* threads that call pop and trypop
          Observers,  \* threads that call size
          Items,      \* non-NULL pointers; each is pushed once
          Size,       \* rb->size
          NULL        \* an empty slot; what a failed trypop returns

ASSUME SizeAssumption == Size \in Nat \ {0}
ASSUME NullAssumption == NULL \notin Items
ASSUME RolesAssumption == /\ Producers \cap Observers = {}
                          /\ Consumers \cap Observers = {}

Threads == Producers \cup Consumers \cup Observers
Slots == 0 .. Size - 1

VARIABLES
    high, low, buffer,   \* the fields of lockfree_ring_buffer_t
    pc,                  \* where each thread is; "idle" is outside every call
    spin,                \* the call is push/pop, which retry, not trypush/trypop
    l_low, l_high,       \* the locals `low` and `high` of the call
    l_val,               \* the parameter `in`, or the local `ret`
    pushed, popped       \* history: the item of every claimed ticket, in order

shared == <<high, low, buffer>>
locals == <<pc, spin, l_low, l_high, l_val>>
history == <<pushed, popped>>
vars == <<high, low, buffer, pc, spin, l_low, l_high, l_val, pushed, popped>>

PushLabels == {"push_low", "push_high", "push_slot", "push_cas", "push_store"}
PopLabels == {"pop_high", "pop_low", "pop_slot", "pop_cas", "pop_clear"}
Labels == {"idle", "size_high", "size_low"} \cup PushLabels \cup PopLabels

Goto(t, label) == pc' = [pc EXCEPT ![t] = label]

\* The call returns: its locals are gone.
Return(t) ==
    /\ Goto(t, "idle")
    /\ spin' = [spin EXCEPT ![t] = FALSE]
    /\ l_low' = [l_low EXCEPT ![t] = 0]
    /\ l_high' = [l_high EXCEPT ![t] = 0]
    /\ l_val' = [l_val EXCEPT ![t] = NULL]

\* index = ticket & rb->power_of_2_mod
Index(ticket) == ticket % Size

\* lockfree_ring_buffer_create: calloc zeroes the tickets and the slots.
Init ==
    /\ high = 0
    /\ low = 0
    /\ buffer = [i \in Slots |-> NULL]
    /\ pc = [t \in Threads |-> "idle"]
    /\ spin = [t \in Threads |-> FALSE]
    /\ l_low = [t \in Threads |-> 0]
    /\ l_high = [t \in Threads |-> 0]
    /\ l_val = [t \in Threads |-> NULL]
    /\ pushed = <<>>
    /\ popped = <<>>

-----------------------------------------------------------------------------
(* lockfree_ring_buffer_trypush, and lockfree_ring_buffer_push around it.  *)

\* Items no call holds and no push has claimed a ticket for.
Fresh == Items \ ({pushed[i] : i \in 1 .. Len(pushed)} \cup {l_val[t] : t \in Producers})

PushCall(t, v, blocking) ==
    /\ pc[t] = "idle"
    /\ v \in Fresh
    /\ l_val' = [l_val EXCEPT ![t] = v]
    /\ spin' = [spin EXCEPT ![t] = blocking]
    /\ Goto(t, "push_low")
    /\ UNCHANGED <<shared, history, l_low, l_high>>

\* low = rb->low
TrypushReadLow(t) ==
    /\ pc[t] = "push_low"
    /\ l_low' = [l_low EXCEPT ![t] = low]
    /\ Goto(t, "push_high")
    /\ UNCHANGED <<shared, history, spin, l_high, l_val>>

\* high = rb->high
TrypushReadHigh(t) ==
    /\ pc[t] = "push_high"
    /\ l_high' = [l_high EXCEPT ![t] = high]
    /\ Goto(t, "push_slot")
    /\ UNCHANGED <<shared, history, spin, l_low, l_val>>

\* return 0: trypush gives up, push starts over.
TrypushFail(t) ==
    /\ \/ spin[t] /\ Goto(t, "push_low") /\ UNCHANGED <<spin, l_low, l_high, l_val>>
       \/ ~spin[t] /\ Return(t)
    /\ UNCHANGED <<shared, history>>

\* !rb->buffer[index] && high - low < rb->size
PushMayClaim_NoSlotTest(t) == l_high[t] - l_low[t] < Size
PushMayClaim_NoRoomTest(t) == buffer[Index(l_high[t])] = NULL
PushMayClaim(t) ==
    /\ buffer[Index(l_high[t])] = NULL
    /\ l_high[t] - l_low[t] < Size

TrypushReadSlot(t) ==
    /\ pc[t] = "push_slot"
    /\ \/ /\ PushMayClaim(t)
          /\ Goto(t, "push_cas")
          /\ UNCHANGED <<shared, history, spin, l_low, l_high, l_val>>
       \/ /\ ~PushMayClaim(t)
          /\ TrypushFail(t)

\* __sync_bool_compare_and_swap(&rb->high, high, high + 1)
TrypushCAS(t) ==
    /\ pc[t] = "push_cas"
    /\ \/ /\ high = l_high[t]
          /\ high' = l_high[t] + 1
          /\ pushed' = Append(pushed, l_val[t])
          /\ Goto(t, "push_store")
          /\ UNCHANGED <<low, buffer, popped, spin, l_low, l_high, l_val>>
       \/ /\ high # l_high[t]
          /\ TrypushFail(t)

\* rb->buffer[index] = in; return 1
TrypushStore(t) ==
    /\ pc[t] = "push_store"
    /\ buffer' = [buffer EXCEPT ![Index(l_high[t])] = l_val[t]]
    /\ Return(t)
    /\ UNCHANGED <<high, low, history>>

-----------------------------------------------------------------------------
(* lockfree_ring_buffer_trypop, and lockfree_ring_buffer_pop around it.    *)

PopCall(t, blocking) ==
    /\ pc[t] = "idle"
    /\ spin' = [spin EXCEPT ![t] = blocking]
    /\ Goto(t, "pop_high")
    /\ UNCHANGED <<shared, history, l_low, l_high, l_val>>

\* high = rb->high
TrypopReadHigh(t) ==
    /\ pc[t] = "pop_high"
    /\ l_high' = [l_high EXCEPT ![t] = high]
    /\ Goto(t, "pop_low")
    /\ UNCHANGED <<shared, history, spin, l_low, l_val>>

\* low = rb->low
TrypopReadLow(t) ==
    /\ pc[t] = "pop_low"
    /\ l_low' = [l_low EXCEPT ![t] = low]
    /\ Goto(t, "pop_slot")
    /\ UNCHANGED <<shared, history, spin, l_high, l_val>>

\* return NULL: trypop gives up, pop starts over.
TrypopFail(t) ==
    /\ \/ /\ spin[t]
          /\ Goto(t, "pop_high")
          /\ l_val' = [l_val EXCEPT ![t] = NULL]
          /\ UNCHANGED <<spin, l_low, l_high>>
       \/ ~spin[t] /\ Return(t)
    /\ UNCHANGED <<shared, history>>

\* ret && high > low, for ret = rb->buffer[index]
PopMayClaim_NoTicketTest(t) == buffer[Index(l_low[t])] # NULL
PopMayClaim_NoSlotTest(t) == l_high[t] > l_low[t]
PopMayClaim(t) ==
    /\ buffer[Index(l_low[t])] # NULL
    /\ l_high[t] > l_low[t]

TrypopReadSlot(t) ==
    /\ pc[t] = "pop_slot"
    /\ \/ /\ PopMayClaim(t)
          /\ l_val' = [l_val EXCEPT ![t] = buffer[Index(l_low[t])]]
          /\ Goto(t, "pop_cas")
          /\ UNCHANGED <<shared, history, spin, l_low, l_high>>
       \/ /\ ~PopMayClaim(t)
          /\ TrypopFail(t)

\* __sync_bool_compare_and_swap(&rb->low, low, low + 1)
TrypopCAS(t) ==
    /\ pc[t] = "pop_cas"
    /\ \/ /\ low = l_low[t]
          /\ low' = l_low[t] + 1
          /\ popped' = Append(popped, l_val[t])
          /\ Goto(t, "pop_clear")
          /\ UNCHANGED <<high, buffer, pushed, spin, l_low, l_high, l_val>>
       \/ /\ low # l_low[t]
          /\ TrypopFail(t)

\* rb->buffer[index] = 0; return ret
TrypopClear_Forgotten(t) ==
    /\ pc[t] = "pop_clear"
    /\ Return(t)
    /\ UNCHANGED <<shared, history>>
TrypopClear(t) ==
    /\ pc[t] = "pop_clear"
    /\ buffer' = [buffer EXCEPT ![Index(l_low[t])] = NULL]
    /\ Return(t)
    /\ UNCHANGED <<high, low, history>>

-----------------------------------------------------------------------------
(* lockfree_ring_buffer_size                                               *)

SizeCall(t) ==
    /\ pc[t] = "idle"
    /\ Goto(t, "size_high")
    /\ UNCHANGED <<shared, history, spin, l_low, l_high, l_val>>

\* high = rb->high
SizeReadHigh(t) ==
    /\ pc[t] = "size_high"
    /\ l_high' = [l_high EXCEPT ![t] = high]
    /\ Goto(t, "size_low")
    /\ UNCHANGED <<shared, history, spin, l_low, l_val>>

\* size >= 0 ? size : 0, for size = high - rb->low
SizeResult_NoClip(t) == l_high[t] - low
SizeResult(t) == IF l_high[t] - low >= 0 THEN l_high[t] - low ELSE 0

\* Reads rb->low and returns SizeResult(t).
SizeReadLow(t) ==
    /\ pc[t] = "size_low"
    /\ Return(t)
    /\ UNCHANGED <<shared, history>>

-----------------------------------------------------------------------------
PushStep(t) ==
    \/ \E v \in Items, b \in BOOLEAN : PushCall(t, v, b)
    \/ TrypushReadLow(t)
    \/ TrypushReadHigh(t)
    \/ TrypushReadSlot(t)
    \/ TrypushCAS(t)
    \/ TrypushStore(t)

PopStep(t) ==
    \/ \E b \in BOOLEAN : PopCall(t, b)
    \/ TrypopReadHigh(t)
    \/ TrypopReadLow(t)
    \/ TrypopReadSlot(t)
    \/ TrypopCAS(t)
    \/ TrypopClear(t)

SizeStep(t) == SizeCall(t) \/ SizeReadHigh(t) \/ SizeReadLow(t)

Next ==
    \/ \E t \in Producers : PushStep(t)
    \/ \E t \in Consumers : PopStep(t)
    \/ \E t \in Observers : SizeStep(t)

Spec == Init /\ [][Next]_vars

\* The operating system keeps running every thread, a producer goes on pushing
\* until its items are in and a consumer goes on popping, as the tests do.
Fairness ==
    /\ \A t \in Producers : WF_vars(PushStep(t))
    /\ \A t \in Consumers : WF_vars(PopStep(t))

LiveSpec == Spec /\ Fairness

-----------------------------------------------------------------------------
TypeOK ==
    /\ high \in Nat
    /\ low \in Nat
    /\ buffer \in [Slots -> Items \cup {NULL}]
    /\ pc \in [Threads -> Labels]
    /\ spin \in [Threads -> BOOLEAN]
    /\ l_low \in [Threads -> Nat]
    /\ l_high \in [Threads -> Nat]
    /\ l_val \in [Threads -> Items \cup {NULL}]
    /\ pushed \in Seq(Items)
    /\ popped \in Seq(Items)

\* The ring holds between 0 and Size tickets whatever stale values of `low` and
\* `high` the claims were decided on, so `high - low` never wraps and a stale
\* `low` never lets a push run a lap ahead.
TicketsInRange == low <= high /\ high <= low + Size

\* Strict FIFO across all threads: the n-th claimed pop returns the item of the
\* n-th claimed push.  No item is lost, duplicated, overtaken or read before
\* rb->buffer[index] = in, or after a stale value was left in the slot.
FifoOrder ==
    /\ Len(popped) <= Len(pushed)
    /\ \A i \in 1 .. Len(popped) : popped[i] = pushed[i]

\* The ticket a thread still has to write or to clear, if it has one.
Unfinished(t) == pc[t] \in {"push_store", "pop_clear"}
Ticket(t) == IF pc[t] = "push_store" THEN l_high[t] ELSE l_low[t]

\* The plain stores to buffer[index] after the CASes never meet: at any time at
\* most one thread owns a slot between its claim and its store, even when the
\* claims are a lap apart.
SlotOwnership ==
    \A t, u \in Threads :
        t # u /\ Unfinished(t) /\ Unfinished(u)
            => Index(Ticket(t)) # Index(Ticket(u))

\* The comment in lockfree_ring_buffer_size: reading `high` first makes the size
\* "look less than or equal to its actual size", and the tests assert it never
\* exceeds the capacity, however long ago `high` was read.
SizeNeverOver ==
    \A t \in Observers :
        pc[t] = "size_low" => SizeResult(t) \in 0 .. high - low

-----------------------------------------------------------------------------
(* The inductive invariant behind TicketsInRange, FifoOrder, SlotOwnership *)
(* and SizeNeverOver.                                                      *)

\* The histories are exactly the claimed tickets, and FIFO holds of them.
HistoryInv == Len(pushed) = high /\ Len(popped) = low /\ FifoOrder

\* What a thread knows from the tickets it read: it may be stale, never ahead.
LocalsInv ==
    \A t \in Threads :
        /\ l_low[t] <= low
        /\ l_high[t] <= high
        /\ pc[t] \in PushLabels => l_val[t] \in Items
        /\ pc[t] = "push_high" => l_low[t] <= high
        /\ pc[t] \in {"push_slot", "push_cas"} => l_low[t] <= l_high[t]
        /\ pc[t] = "push_cas" => l_high[t] - l_low[t] < Size
        /\ pc[t] = "pop_cas" => l_val[t] \in Items /\ l_low[t] < l_high[t]

\* A live slot is unwritten or holds its own ticket's item.
SlotsInv ==
    \A n \in low .. high - 1 : buffer[Index(n)] \in {NULL, pushed[n + 1]}

\* A test of a slot that a successful CAS would act on is still true.
TestsInv ==
    \A t \in Threads :
        /\ pc[t] = "push_cas" /\ high = l_high[t] => buffer[Index(high)] = NULL
        /\ pc[t] = "pop_cas" /\ low = l_low[t] => buffer[Index(low)] = l_val[t]

\* A thread that has claimed a ticket owns its slot until its store.
OwnersInv ==
    \A t \in Threads :
        /\ pc[t] = "push_store" =>
              /\ low <= l_high[t] /\ l_high[t] < high
              /\ buffer[Index(l_high[t])] = NULL
              /\ l_val[t] = pushed[l_high[t] + 1]
        /\ pc[t] = "pop_clear" =>
              /\ l_low[t] < low /\ high <= l_low[t] + Size
              /\ buffer[Index(l_low[t])] # NULL

\* No two threads own the same ticket.
TicketsDistinct ==
    \A t, u \in Threads : t # u =>
        /\ pc[t] = "push_store" /\ pc[u] = "push_store" => l_high[t] # l_high[u]
        /\ pc[t] = "pop_clear" /\ pc[u] = "pop_clear" => l_low[t] # l_low[u]

\* The conjunction is inductive: each step needs the others to keep its own part.
IInv ==
    /\ TypeOK /\ TicketsInRange /\ HistoryInv /\ LocalsInv
    /\ SlotsInv /\ TestsInv /\ OwnersInv /\ TicketsDistinct

-----------------------------------------------------------------------------
\* The ring implements a bounded FIFO: a push takes effect at its CAS on `high`
\* and a pop at its CAS on `low`; every other step is invisible.
Abstract == INSTANCE BoundedFifo
                WITH Capacity <- Size,
                     queue <- SubSeq(pushed, Len(popped) + 1, Len(pushed)),
                     delivered <- popped

ImplementsFifo == Abstract!Spec

\* Every item the producers have reaches a consumer: a thread stalled between
\* its claim and its store delays the others, but no interleaving of failed
\* claims, full and empty rings leaves them spinning for ever.
AllDelivered == <>(Items = {popped[i] : i \in 1 .. Len(popped)})

=============================================================================
