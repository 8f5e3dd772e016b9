CONSTANTS
    input = input
    output = output
    Rank = {0, 1, 2}
    Owner = 0
    Halo <- Chain
    Path = {input, output}
    NField = 2
    Skipped = {2}
    InputFiles = {input}
    Calls <- MCCalls
    ProgramLength = 4
    IOMayFail = TRUE
SPECIFICATION Spec
CHECK_DEADLOCK FALSE
INVARIANT TypeOK
INVARIANT SequentialEquivalence
INVARIANT HaloCoherent
INVARIANT CollectivesMatch
INVARIANT NotAllWaiting
INVARIANT WrittenFileVisible
PROPERTY Termination
