SPECIFICATION Spec
CONSTANTS
    Thieves = {t1}
    Items = {a, b}
    Size = 2
    Garbage = Garbage
    NULL = NULL
INVARIANT SomeOtherThreadStoleTheData
