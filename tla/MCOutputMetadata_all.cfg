SPECIFICATION Spec
CONSTANTS
    NameOrder <- MCNameOrder
    NotFound = "NOT_FOUND"
    Points = 6
    Field = {"theta", "pressure", "wind", "skin", "snow", "cube"}
    levels <- FieldLevels
    NoFirstLevel = {"theta"}
    lfricVertConfig <- FieldLfricVert
    jediVertConfig <- FieldJediVert
    FieldSets <- Several
    InputFiles <- MCInputFiles
    MeshVariables <- MCMeshVariables
    GeneratedNames <- MCGeneratedNames
    MaxCalls = 5
INVARIANT TypeOK
INVARIANT DeclaredSize
INVARIANT OutputWithoutTime
INVARIANT MeshKept
INVARIANT DataHaveVariables
INVARIANT IInv
CHECK_DEADLOCK FALSE
