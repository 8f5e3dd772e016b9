CONSTANTS
    g1 = g1
    g2 = g2
    state1 = state1
    state2 = state2
    out = out
    d1 = d1
    d2 = d2
    a = a
    b = b
    theta = theta
    wind = wind
    soil = soil
    extra = extra
    NoPath = NoPath
    Garbage = Garbage
    None = None
    Grid = {g1}
    Path = {state1, out}
    Date = {d1, d2}
    Value = {a, b}
    Field = {theta, extra}
    lfricReadName <- FieldReadName
    lfricWriteName <- FieldWriteName
    jediName <- FieldJediName
    levels <- FieldLevels
    NoFirstLevel = {theta, extra}
    GlobalField = {}
    Missing = {"none"}
    InputFiles <- MCInputFiles
    Calls <- OneGridCalls
    MaxCalls = 2
    MaxJobs = 1
SPECIFICATION Spec
INVARIANT ReadFillsEveryField
CHECK_DEADLOCK FALSE
