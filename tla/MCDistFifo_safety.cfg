SPECIFICATION LiveSpec
CONSTANTS
    Threads = {t1, t2}
    Pusher = t1
    Nodes = {n1, n2, n3}
    NULL = NULL
    MaxCounter = 5
    Items = {a, b}
INVARIANTS NodesIntact FifoOrder
PROPERTY AllPopped
CHECK_DEADLOCK FALSE
