SPECIFICATION LiveSpec
CONSTANTS
    Thieves = {t1, t2}
    Items = {a, b, c}
    Size = 2
    Garbage = Garbage
    NULL = NULL
INVARIANTS IInv DeliveredOnce
PROPERTY NoOvertaking ImplementsStealBuffer Drains
