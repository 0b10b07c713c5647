------------------------ MODULE MCLockfreeRingBuffer ------------------------
(* An instance of LockfreeRingBuffer for TLC, with the helpers of QueueDef. *)
EXTENDS LockfreeRingBuffer, QueueDef

CONSTANTS a, b, c

ASSUME SizeIsValid == queue_size_is_valid(Size) = QERR_OK

\* The items are alike: it is enough that calls take them in one order.
InOrder ==
    \A t \in Producers :
        l_val[t] = NULL =>
            /\ l_val'[t] = b => a \notin Fresh
            /\ l_val'[t] = c => b \notin Fresh

=============================================================================
