SPECIFICATION LiveSpec
CONSTANTS
    NumProducers = 2
    Fifos = {0, 1}
    CounterModulus = 5
    Nodes = {n1, n2, n3, n4}
    Items = {a, b}
    NULL = NULL
INVARIANTS NodesIntact RoundRobin
PROPERTY PopsInOrder NobodyStarves
