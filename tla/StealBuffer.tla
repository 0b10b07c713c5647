----------------------------- MODULE StealBuffer -----------------------------
(***************************************************************************)
(* What a fifo_steal_buffer promises its callers: a bounded queue whose    *)
(* operations are atomic.  A push appends if there is room; a pop or a     *)
(* steal takes the oldest item; and a pop may throw away the last item     *)
(* instead of returning it.  FifoStealBuffer is shown to implement it.     *)
(***************************************************************************)
EXTENDS Integers, Sequences

CONSTANTS Items,  \* the pointers pushed
          Size    \* the capacity

VARIABLES buf,      \* [size, low, items]: all items ever pushed, `low` of them gone
          dropped   \* the items thrown away

NewBuffer(size) == [size |-> size, low |-> 0, items |-> <<>>]

High(b) == Len(b.items)
Room(b) == High(b) - b.low < b.size
Left(b) == High(b) - b.low
Oldest(b) == b.items[b.low + 1]

AfterPush(b, v) == [b EXCEPT !.items = Append(@, v)]
AfterTake(b) == [b EXCEPT !.low = @ + 1]

Init == buf = NewBuffer(Size) /\ dropped = {}

Push(v) == Room(buf) /\ buf' = AfterPush(buf, v) /\ UNCHANGED dropped

Take == Left(buf) > 0 /\ buf' = AfterTake(buf) /\ UNCHANGED dropped

Drop == Left(buf) = 1 /\ buf' = AfterTake(buf) /\ dropped' = dropped \cup {Oldest(buf)}

Next == Take \/ Drop \/ \E v \in Items : Push(v)

Spec == Init /\ [][Next]_<<buf, dropped>>

=============================================================================
