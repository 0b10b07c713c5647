-------------------------- MODULE FifoStealBuffer --------------------------
(***************************************************************************)
(* include/fibconcurrent/fifo_steal_buffer.h: a ring that one master       *)
(* thread pushes to and pops from while thieves steal from the same end.   *)
(* Only the master writes `high`; `low` moves by the thieves' CAS and by   *)
(* the master's fetch-and-add, which it makes BEFORE it knows whether an   *)
(* item is left: for a moment `low` may then be past `high`.               *)
(*                                                                         *)
(* One action per access to a word that another thread writes.  The        *)
(* master's own reads of `high` need no step: nobody else writes it.       *)
(* On x86 the master's plain stores become visible in program order and    *)
(* its only later load of a shared word (`low`) is either conservative     *)
(* when stale (push) or followed by a locked instruction (pop), so the     *)
(* model is sequentially consistent.                                       *)
(***************************************************************************)
EXTENDS Integers, Sequences, FiniteSets

CONSTANTS Thieves,   \* threads that call steal
          Items,     \* the pointers pushed; each is pushed once
          Size,      \* fifo->size = 1 << power_of_2_size
          Garbage,   \* the content of malloc'ed memory nobody has written
          NULL       \* what a caller sets *out to before a call

ASSUME SizeAssumption == Size \in Nat \ {0}
ASSUME ItemsAssumption == Garbage \notin Items /\ NULL \notin Items

VARIABLES
    high, low, buffer,      \* the fields of fifo_steal_buffer_t
    pc, data, new_low,      \* the master: where it is, push's parameter, pop's local
    t_pc, t_high, t_low,    \* the thieves: where they are, the locals of steal
    out,                    \* the word each thief passes as `out`
    ret,                    \* what each thief's last steal returned
    pushed,                 \* history: the item of every ticket, in order
    delivered,              \* history: how many calls returned each value
    dropped                 \* history: items a pop claimed and did not return

thieves == <<t_pc, t_high, t_low, out, ret>>
history == <<pushed, delivered, dropped>>
vars == <<high, low, buffer, pc, data, new_low, t_pc, t_high, t_low, out, ret,
          pushed, delivered, dropped>>

Slots == 0 .. Size - 1
Values == Items \cup {Garbage, NULL}
Labels == {"idle", "push_low", "push_data", "push_high",
           "pop_low", "pop_add", "pop_restore", "pop_read"}
ThiefLabels == {"idle", "steal_high", "steal_low", "steal_read", "steal_cas"}
Results == {"EMPTY", "ABORT", "SUCCESS"}

\* index = ticket & fifo->power_of_2_mod
Index(ticket) == ticket % Size

\* fifo_steal_buffer_create: malloc leaves the slots as they are.
Init ==
    /\ high = 0 /\ low = 0
    /\ buffer = [i \in Slots |-> Garbage]
    /\ pc = "idle" /\ data = NULL /\ new_low = 0
    /\ t_pc = [t \in Thieves |-> "idle"]
    /\ t_high = [t \in Thieves |-> 0]
    /\ t_low = [t \in Thieves |-> 0]
    /\ out = [t \in Thieves |-> NULL]
    /\ ret = [t \in Thieves |-> "EMPTY"]
    /\ pushed = <<>> /\ delivered = [v \in Values |-> 0] /\ dropped = {}

-----------------------------------------------------------------------------
(* fifo_steal_buffer_push, master thread only                              *)

PushCall(v) ==
    /\ pc = "idle"
    /\ \A i \in 1 .. Len(pushed) : pushed[i] # v
    /\ data' = v
    /\ pc' = "push_low"
    /\ UNCHANGED <<high, low, buffer, new_low, thieves, history>>

\* high - low < fifo->size, or return 0
PushReadLow_OffByOne ==
    /\ pc = "push_low"
    /\ \/ high - low <= Size /\ pc' = "push_data" /\ UNCHANGED data
       \/ high - low > Size /\ pc' = "idle" /\ data' = NULL
    /\ UNCHANGED <<high, low, buffer, new_low, thieves, history>>
PushReadLow ==
    /\ pc = "push_low"
    /\ \/ high - low < Size /\ pc' = "push_data" /\ UNCHANGED data
       \/ high - low >= Size /\ pc' = "idle" /\ data' = NULL
    /\ UNCHANGED <<high, low, buffer, new_low, thieves, history>>

\* fifo->buffer[index] = data
PushStoreData ==
    /\ pc = "push_data"
    /\ buffer' = [buffer EXCEPT ![Index(high)] = data]
    /\ pc' = "push_high"
    /\ UNCHANGED <<high, low, data, new_low, thieves, history>>

\* fifo->high = high + 1; return 1
PushStoreHigh ==
    /\ pc = "push_high"
    /\ high' = high + 1
    /\ pushed' = Append(pushed, data)
    /\ pc' = "idle" /\ data' = NULL
    /\ UNCHANGED <<low, buffer, new_low, thieves, delivered, dropped>>

-----------------------------------------------------------------------------
(* fifo_steal_buffer_pop, master thread only                               *)

PopCall ==
    /\ pc = "idle"
    /\ pc' = "pop_low"
    /\ UNCHANGED <<high, low, buffer, data, new_low, thieves, history>>

\* high > fifo->low, or return 0
PopReadLow ==
    /\ pc = "pop_low"
    /\ pc' = IF high > low THEN "pop_add" ELSE "idle"
    /\ UNCHANGED <<high, low, buffer, data, new_low, thieves, history>>

\* new_low >= high
PopMustRestore(n) == n >= high

\* new_low = __sync_add_and_fetch(&fifo->low, 1), and the recheck.  The ticket it
\* has just taken is dropped when the recheck fails and no thief holds it.
PopAdd ==
    /\ pc = "pop_add"
    /\ low' = low + 1
    /\ new_low' = low + 1
    /\ \/ /\ PopMustRestore(low + 1)
          /\ pc' = "pop_restore"
          /\ dropped' = dropped \cup (IF low < high THEN {pushed[low + 1]} ELSE {})
       \/ /\ ~PopMustRestore(low + 1)
          /\ pc' = "pop_read"
          /\ UNCHANGED dropped
    /\ UNCHANGED <<high, buffer, data, thieves, pushed, delivered>>

\* fifo->low = high; return 0
PopRestore_Forgotten ==
    /\ pc = "pop_restore"
    /\ pc' = "idle" /\ new_low' = 0
    /\ UNCHANGED <<high, low, buffer, data, thieves, history>>
PopRestore ==
    /\ pc = "pop_restore"
    /\ low' = high
    /\ pc' = "idle" /\ new_low' = 0
    /\ UNCHANGED <<high, buffer, data, thieves, history>>

\* index = (new_low - 1) & fifo->power_of_2_mod; *out = fifo->buffer[index]
PopIndex_OffByOne == Index(new_low)
PopIndex == Index(new_low - 1)

PopRead ==
    /\ pc = "pop_read"
    /\ delivered' = [delivered EXCEPT ![buffer[PopIndex]] = @ + 1]
    /\ pc' = "idle" /\ new_low' = 0
    /\ UNCHANGED <<high, low, buffer, data, thieves, pushed, dropped>>

-----------------------------------------------------------------------------
(* fifo_steal_buffer_steal                                                 *)

\* The call returns: its locals are gone, what it wrote to *out stays.
StealReturn(t, result) ==
    /\ t_pc' = [t_pc EXCEPT ![t] = "idle"]
    /\ t_high' = [t_high EXCEPT ![t] = 0]
    /\ t_low' = [t_low EXCEPT ![t] = 0]
    /\ ret' = [ret EXCEPT ![t] = result]

\* A caller passes the address of a NULL word, or calls again after an ABORT.
StealCall(t) ==
    /\ t_pc[t] = "idle"
    /\ \/ out' = [out EXCEPT ![t] = NULL]
       \/ ret[t] = "ABORT" /\ UNCHANGED out
    /\ t_pc' = [t_pc EXCEPT ![t] = "steal_high"]
    /\ UNCHANGED <<high, low, buffer, pc, data, new_low, t_high, t_low, ret, history>>

\* high = fifo->high
StealReadHigh(t) ==
    /\ t_pc[t] = "steal_high"
    /\ t_high' = [t_high EXCEPT ![t] = high]
    /\ t_pc' = [t_pc EXCEPT ![t] = "steal_low"]
    /\ UNCHANGED <<high, low, buffer, pc, data, new_low, t_low, out, ret, history>>

\* low = fifo->low; high > low, or return EMPTY
StealReadLow(t) ==
    /\ t_pc[t] = "steal_low"
    /\ \/ /\ t_high[t] > low
          /\ t_low' = [t_low EXCEPT ![t] = low]
          /\ t_pc' = [t_pc EXCEPT ![t] = "steal_read"]
          /\ UNCHANGED <<t_high, ret>>
       \/ t_high[t] <= low /\ StealReturn(t, "EMPTY")
    /\ UNCHANGED <<high, low, buffer, pc, data, new_low, out, history>>

\* *out = fifo->buffer[index]
StealReadSlot(t) ==
    /\ t_pc[t] = "steal_read"
    /\ out' = [out EXCEPT ![t] = buffer[Index(t_low[t])]]
    /\ t_pc' = [t_pc EXCEPT ![t] = "steal_cas"]
    /\ UNCHANGED <<high, low, buffer, pc, data, new_low, t_high, t_low, ret, history>>

\* __sync_bool_compare_and_swap(&fifo->low, low, low + 1) ? SUCCESS : ABORT
StealCAS_Blind(t) ==
    /\ t_pc[t] = "steal_cas"
    /\ low' = t_low[t] + 1
    /\ delivered' = [delivered EXCEPT ![out[t]] = @ + 1]
    /\ StealReturn(t, "SUCCESS")
    /\ UNCHANGED <<high, buffer, pc, data, new_low, out, pushed, dropped>>
StealCAS(t) ==
    /\ t_pc[t] = "steal_cas"
    /\ \/ /\ low = t_low[t]
          /\ low' = t_low[t] + 1
          /\ delivered' = [delivered EXCEPT ![out[t]] = @ + 1]
          /\ StealReturn(t, "SUCCESS")
       \/ /\ low # t_low[t]
          /\ StealReturn(t, "ABORT")
          /\ UNCHANGED <<low, delivered>>
    /\ UNCHANGED <<high, buffer, pc, data, new_low, out, pushed, dropped>>

-----------------------------------------------------------------------------
MasterRuns ==
    \/ PushReadLow \/ PushStoreData \/ PushStoreHigh
    \/ PopReadLow \/ PopAdd \/ PopRestore \/ PopRead

MasterStep == PopCall \/ MasterRuns \/ \E v \in Items : PushCall(v)

StealStep(t) ==
    \/ StealCall(t) \/ StealReadHigh(t) \/ StealReadLow(t)
    \/ StealReadSlot(t) \/ StealCAS(t)

Next == MasterStep \/ \E t \in Thieves : StealStep(t)

Spec == Init /\ [][Next]_vars

\* The master finishes what it started, but need not push or pop again; thieves
\* keep stealing, as the scale test does.
Fairness == WF_vars(MasterRuns) /\ \A t \in Thieves : WF_vars(StealStep(t))

LiveSpec == Spec /\ Fairness

-----------------------------------------------------------------------------
TypeOK ==
    /\ high \in Nat /\ low \in Nat
    /\ buffer \in [Slots -> Values]
    /\ pc \in Labels /\ data \in Items \cup {NULL} /\ new_low \in Nat
    /\ t_pc \in [Thieves -> ThiefLabels]
    /\ t_high \in [Thieves -> Nat] /\ t_low \in [Thieves -> Nat]
    /\ out \in [Thieves -> Values]
    /\ ret \in [Thieves -> Results]
    /\ pushed \in Seq(Items)
    /\ delivered \in [Values -> Nat]
    /\ dropped \subseteq Items

\* `low` runs past `high` only between a pop's add and its restore, by one, and a
\* push never lets the ring hold more than Size items: the unsigned `high - low`
\* that push computes never wraps.
TicketsInRange ==
    /\ high <= low + Size
    /\ low <= high + (IF pc = "pop_restore" THEN 1 ELSE 0)

\* Whatever the master and the thieves interleave, no two calls return the same
\* item, and no call returns a slot nobody wrote or a caller's own NULL.
DeliveredOnce ==
    \A v \in Values : delivered[v] <= IF v \in Items THEN 1 ELSE 0

\* The item of ticket n - 1 is gone from the buffer.
Gone(n) ==
    \/ delivered[pushed[n]] > 0
    \/ pushed[n] \in dropped
    \/ pc = "pop_read" /\ n = new_low

\* A step that returns an item leaves no older item in the buffer.
OldestFirst ==
    \A n \in 1 .. Len(pushed) :
        delivered'[pushed[n]] > delivered[pushed[n]] => \A m \in 1 .. n - 1 : Gone(m)

\* First in, first out, across the master and all thieves: no call of
\* fifo_steal_buffer_pop or fifo_steal_buffer_steal returns an item while an
\* older one is still in the buffer.
NoOvertaking == [][OldestFirst]_vars

-----------------------------------------------------------------------------
(* The inductive invariant behind TicketsInRange and DeliveredOnce.        *)

\* Tickets name distinct items, and the item being pushed is a new one.
HistoryInv ==
    /\ Len(pushed) = high
    /\ \A m, n \in 1 .. high : m # n => pushed[m] # pushed[n]
    /\ pc \in {"push_low", "push_data", "push_high"} =>
          data \in Items /\ \A n \in 1 .. high : pushed[n] # data

\* Where the master is says what it may rely on.
MasterInv ==
    /\ pc \in {"push_data", "push_high"} => high - low < Size
    /\ pc = "push_high" => buffer[Index(high)] = data
    /\ pc = "pop_restore" => high <= low
    /\ pc = "pop_read" =>
          /\ new_low \in 1 .. high - 1 /\ new_low <= low
          /\ buffer[Index(new_low - 1)] = pushed[new_low]

\* A ticket in the buffer has its item in its slot.
SlotsInv == \A n \in low .. high - 1 : buffer[Index(n)] = pushed[n + 1]

\* A thief's tickets may be stale; if they are not, it has read the right item.
ThievesInv ==
    \A t \in Thieves :
        /\ t_pc[t] \in {"steal_low", "steal_read", "steal_cas"} => t_high[t] <= high
        /\ t_pc[t] \in {"steal_read", "steal_cas"} =>
              t_low[t] < t_high[t] /\ t_low[t] <= low
        /\ t_pc[t] = "steal_cas" /\ low = t_low[t] => out[t] = pushed[low + 1]

\* Every ticket below `low` has been delivered once, or dropped by a pop, or is in
\* the hands of a pop that is about to return it; the others are in the buffer.
Accounting ==
    /\ \A v \in Values :
          (\A n \in 1 .. high : pushed[n] # v) => delivered[v] = 0 /\ v \notin dropped
    /\ \A n \in 1 .. high :
          IF n <= low
          THEN /\ pc = "pop_read" /\ n = new_low =>
                     delivered[pushed[n]] = 0 /\ pushed[n] \notin dropped
               /\ ~(pc = "pop_read" /\ n = new_low) =>
                     delivered[pushed[n]] = (IF pushed[n] \in dropped THEN 0 ELSE 1)
          ELSE delivered[pushed[n]] = 0 /\ pushed[n] \notin dropped

\* The conjunction is inductive.
IInv ==
    /\ TypeOK /\ TicketsInRange /\ HistoryInv /\ MasterInv
    /\ SlotsInv /\ ThievesInv /\ Accounting

-----------------------------------------------------------------------------
\* The thieves empty the buffer even if the master never pops again: an ABORT
\* always means that some other call made progress.
Outstanding ==
    {n \in 1 .. Len(pushed) : delivered[pushed[n]] = 0 /\ pushed[n] \notin dropped}
Drains == Outstanding # {} ~> Outstanding = {}

\* The comment in fifo_steal_buffer_pop: where it gives up, "some other thread
\* stole the data".
SomeOtherThreadStoleTheData ==
    pc = "pop_restore" => delivered[pushed[high]] = 1

\* To its callers the buffer is a StealBuffer: a push takes effect where it stores
\* `high`, a pop or a steal where it moves `low`; what a pop adds to `low` beyond
\* `high` is not seen.
Abstract ==
    INSTANCE StealBuffer WITH
        buf <- [size |-> Size, low |-> IF low < high THEN low ELSE high, items |-> pushed]

\* Every step of the buffer is a step of StealBuffer or none: no interleaving of
\* pushes, pops and steals shows anything but atomic operations.
ImplementsStealBuffer == Abstract!Spec

=============================================================================
