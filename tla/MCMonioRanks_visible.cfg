CONSTANTS
    input = input
    output = output
    Rank = {0, 1, 2}
    Owner = 0
    Halo <- Chain
    Path = {input, output}
    NField = 1
    Skipped = {}
    InputFiles = {input}
    Calls <- MCCalls
    ProgramLength = 3
    IOMayFail = FALSE
SPECIFICATION Spec
CHECK_DEADLOCK FALSE
INVARIANT WrittenFileVisible
