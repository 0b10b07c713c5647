SPECIFICATION LiveSpec
CONSTANTS
    t1 = t1
    t2 = t2
    Threads = {t1, t2}
    Records <- Two
    K = 2
    Nodes = {1, 2, 3}
    Items = {a, b}
    InitialNode = 2
    NULL = NULL
    Fenced = TRUE
INVARIANTS NodesIntact NoUseAfterFree FifoOrder
PROPERTY AllPopped
CHECK_DEADLOCK FALSE
