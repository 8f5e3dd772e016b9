CONSTANTS
    Size = 3
    kVerticalFullSize = 3
    LevelCounts = {1, 2, 3}
    Value <- MCValue
    Zero <- MCZero
    Garbage <- MCGarbage
    Profiles <- MCProfiles
    Orders <- Shuffles
SPECIFICATION Spec
INVARIANT InLfricOrder
CHECK_DEADLOCK FALSE
