SPECIFICATION LiveSpec
CONSTANTS
    a = a
    b = b
    c = c
    Producers = {p1, p2}
    Consumers = {c1}
    Observers = {o1}
    Items = {a, b, c}
    Size = 2
    NULL = NULL
ACTION_CONSTRAINT InOrder
INVARIANTS IInv FifoOrder SlotOwnership SizeNeverOver
PROPERTY ImplementsFifo AllDelivered
