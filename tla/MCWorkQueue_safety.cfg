SPECIFICATION LiveSpec
CONSTANTS
    Threads = {t1, t2, t3}
    Nodes = {n1, n2, n3, n4}
    Items = {a, b, c}
    NULL = NULL
INVARIANTS WorkerRole FifoOrder NodesInOrder
PROPERTY AllProcessed
