CONSTANTS
    g1 = g1
    g2 = g2
    state1 = state1
    state2 = state2
    out = out
    d1 = d1
    d2 = d2
    a = a
    b = b
    theta = theta
    wind = wind
    soil = soil
    extra = extra
    NoPath = NoPath
    Garbage = Garbage
    None = None
    Grid = {g1, g2}
    Path = {state1, state2, out}
    Date = {d1, d2}
    Value = {a, b}
    Field = {theta, soil}
    lfricReadName <- FieldReadName
    lfricWriteName <- FieldWriteName
    jediName <- FieldJediName
    levels <- FieldLevels
    NoFirstLevel = {theta}
    GlobalField = {}
    Missing = {"none"}
    InputFiles <- MCInputFiles
    Calls <- TwoGridCalls
    MaxCalls = 4
    MaxJobs = 2
SPECIFICATION Spec
INVARIANT TypeOK
INVARIANT PromiseKept
INVARIANT FreshMetadata
INVARIANT ReadDelivers
CHECK_DEADLOCK FALSE
PROPERTY ImplementsFieldStore
