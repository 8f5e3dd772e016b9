CONSTANTS
    Size = 3
    kVerticalFullSize = 3
    LevelCounts = {1, 2, 3}
    Value <- MCValue
    Zero <- MCZero
    Garbage <- MCGarbage
    Profiles <- MCProfiles
    Orders <- AnyOrder
SPECIFICATION Spec
INVARIANT TypeOK
INVARIANT RoundTrip
INVARIANT AtItsPoint
INVARIANT WholeVariable
INVARIANT ReadStaysInData
CHECK_DEADLOCK FALSE
