------------------------------ MODULE QueueDef ------------------------------
(***************************************************************************)
(* src/queuedef.c: pure helpers on queue sizes and error codes, checked    *)
(* against what they are for over every value of a size_t of SizeBits.     *)
(***************************************************************************)
LOCAL INSTANCE Integers
LOCAL INSTANCE Bitwise

\* A small size_t.
SizeBits == 6
SizeT == 0 .. 2 ^ SizeBits - 1

QERR_OK == 0
QERR_BADSIZE == 3
LAST_QERR == 6

\* ((n - 1) & n) == 0, where 0 - 1 wraps around
is_power_2(n) == (((n - 1) % 2 ^ SizeBits) & n) = 0

queue_size_is_valid(q_size) ==
    IF q_size <= 1 \/ ~is_power_2(q_size) THEN QERR_BADSIZE ELSE QERR_OK

\* while(q_size >>= 1) v <<= 1
size_to_power_of_2(q_size) ==
    LET v[n \in SizeT] == IF n \div 2 = 0 THEN 1 ELSE 2 * v[n \div 2] IN v[q_size]

\* The index into qerrs[] that queue_qerr_str returns; BAD_QERR is the entry
\* behind the last code.
BAD_QERR == 9 - 2
queue_qerr_index(qerr) == IF qerr >= BAD_QERR THEN BAD_QERR ELSE qerr

-----------------------------------------------------------------------------
PowersOf2 == {2 ^ k : k \in 0 .. SizeBits - 1}

\* The valid sizes are the powers of two from 2 on, although is_power_2 accepts 0:
\* `ticket & (size - 1)` is `ticket % size` for exactly these.
ASSUME ValidSizes ==
    \A n \in SizeT :
        queue_size_is_valid(n) = (IF n \in PowersOf2 \ {1} THEN QERR_OK ELSE QERR_BADSIZE)
ASSUME MaskIsModulo ==
    \A n \in SizeT : queue_size_is_valid(n) = QERR_OK =>
        \A ticket \in SizeT : ticket & (n - 1) = ticket % n

\* The rounded size is the largest power of two not above the argument, a valid
\* size from 2 on; 0 and 1 give 1, which queue_size_is_valid refuses.
ASSUME RoundsDown ==
    \A n \in SizeT :
        LET v == size_to_power_of_2(n) IN
        /\ v \in PowersOf2 /\ n < 2 * v
        /\ IF n >= 2 THEN v <= n /\ queue_size_is_valid(v) = QERR_OK ELSE v = 1

\* Every code has a string of its own, and every other value the last one.
ASSUME CodesInTable ==
    /\ BAD_QERR = LAST_QERR + 1
    /\ \A e \in SizeT : queue_qerr_index(e) = IF e <= LAST_QERR THEN e ELSE BAD_QERR

=============================================================================
