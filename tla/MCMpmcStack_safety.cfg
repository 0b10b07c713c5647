SPECIFICATION LiveSpec
CONSTANTS
    Threads = {t1, t2}
    Nodes = {n1, n2, n3}
    NULL = NULL
    TriesModulus = 4
    MaxTries = 2
INVARIANTS ListsIntact TriesHonoured
PROPERTY PushTimeoutReturns
