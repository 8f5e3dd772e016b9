SPECIFICATION Spec
CONSTANTS
    NameOrder <- MCNameOrder
    NotFound = "NOT_FOUND"
    Files <- MCFiles
    AttrValue = {"m"}
    DataValue = {"ones", "twos"}
INVARIANT TypeOK
INVARIANT CopyIsEqual
INVARIANT CopyIsComplete
INVARIANT EqualIsSame
CHECK_DEADLOCK FALSE
