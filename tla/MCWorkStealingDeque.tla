------------------------ MODULE MCWorkStealingDeque ------------------------
(* Instances of WorkStealingDeque for TLC. *)
EXTENDS WorkStealingDeque

\* The items 1, 2, ... are interchangeable: push them in this order.
InOrder == \A i \in 1 .. Len(pushed') : pushed'[i] = i

=============================================================================
