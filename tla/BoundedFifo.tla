---------------------------- MODULE BoundedFifo ----------------------------
(***************************************************************************)
(* What a bounded multi-producer multi-consumer ring promises its callers: *)
(* a first-in first-out queue that never holds more than Capacity items.   *)
(* An insertion and a removal each take effect in one indivisible step.    *)
(* lockfree_ring_buffer.h is shown to implement this specification.        *)
(***************************************************************************)
EXTENDS Naturals, Sequences

CONSTANTS Items,     \* the things that can be queued
          Capacity   \* how many of them fit

VARIABLES queue,     \* the items inside, oldest first
          delivered  \* every item handed out so far, in order

vars == <<queue, delivered>>

Init == queue = <<>> /\ delivered = <<>>

Enqueue(v) ==
    /\ Len(queue) < Capacity
    /\ queue' = Append(queue, v)
    /\ UNCHANGED delivered

Dequeue ==
    /\ queue # <<>>
    /\ queue' = Tail(queue)
    /\ delivered' = Append(delivered, Head(queue))

Next == Dequeue \/ \E v \in Items : Enqueue(v)

Spec == Init /\ [][Next]_vars

============================================================================
