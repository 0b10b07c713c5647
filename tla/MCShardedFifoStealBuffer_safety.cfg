SPECIFICATION LiveSpec
CONSTANTS
    NumShards = 2
    Size = 4
    Thieves = {t1, t2}
    Hints = {0, 1}
    UintModulus = 5
    UlongModulus = 25
    Unwritten = {21, 24}
    MaxPushes = 2
INVARIANTS IInv EmptyIsHonest
PROPERTY Drains
