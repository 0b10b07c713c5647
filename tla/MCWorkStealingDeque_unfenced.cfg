SPECIFICATION Spec
CONSTANTS
    Thieves = {t1}
    Items = {a, b}
    InitLog = 1
    MaxGrow = 1
    StoreBufferSize = 3
    Fenced = FALSE
    Garbage = Garbage
INVARIANT TakenOnce
