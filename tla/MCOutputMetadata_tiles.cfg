SPECIFICATION Spec
CONSTANTS
    NameOrder <- MCNameOrder
    NotFound = "NOT_FOUND"
    Points = 6
    Field = {"theta", "snow"}
    levels <- FieldLevels
    NoFirstLevel = {"theta"}
    lfricVertConfig <- FieldLfricVert
    jediVertConfig <- FieldJediVert
    FieldSets <- AllFields
    InputFiles <- MCInputFiles
    MeshVariables <- MCMeshVariables
    GeneratedNames <- MCGeneratedNames
    MaxCalls = 2
INVARIANT OnlySingleLevelDropped
CHECK_DEADLOCK FALSE
