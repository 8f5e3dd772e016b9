SPECIFICATION Spec
CONSTANTS
    Points = 4
    Levels = 3
    Coord <- MCCoord
    Distance <- MCDistance
    AtlasCoords <- MCAtlasCoords
    Files <- MCFiles
    Dates = {0, 3600, 3601}
INVARIANT TypeOK
INVARIANT SliceOfDate
INVARIANT MapFindsPoints
CHECK_DEADLOCK FALSE
