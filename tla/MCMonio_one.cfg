CONSTANTS
    g1 = g1
    g2 = g2
    state1 = state1
    state2 = state2
    out = out
    d1 = d1
    d2 = d2
    a = a
    b = b
    theta = theta
    wind = wind
    soil = soil
    extra = extra
    NoPath = NoPath
    Garbage = Garbage
    None = None
    Grid = {g1}
    Path = {state1, out}
    Date = {d1, d2}
    Value = {a, b}
    Field = {theta, wind}
    lfricReadName <- FieldReadName
    lfricWriteName <- FieldWriteName
    jediName <- FieldJediName
    levels <- FieldLevels
    NoFirstLevel = {theta}
    GlobalField = {wind}
    Missing = {"none"}
    InputFiles <- MCInputFiles
    Calls <- OneGridCalls
    MaxCalls = 4
    MaxJobs = 2
SPECIFICATION FairSpec
INVARIANT IInv
INVARIANT PromiseKept
INVARIANT ReadDelivers
INVARIANT AbortClosesWriter
CHECK_DEADLOCK FALSE
PROPERTY CallsEnd
PROPERTY ImplementsFieldStore
