SPECIFICATION Spec
CONSTANTS
    Threads = {t1, t2, t3}
    K = 1
    Nodes = {1, 2, 3}
    NULL = NULL
    Fenced = TRUE
SYMMETRY Symmetry
CHECK_DEADLOCK FALSE
INVARIANTS UsedNotFreed ThresholdsCorrect ListsBounded AllGivenBack
