SPECIFICATION LiveSpec
CONSTANTS
    Thieves = {t1, t2}
    Items = {1, 2, 3}
    InitLog = 1
    MaxGrow = 1
    StoreBufferSize = 3
    Fenced = TRUE
    Garbage = Garbage
ACTION_CONSTRAINT InOrder
INVARIANTS DequeIntact TakenOnce
PROPERTY OwnerTakesNewest Drains
