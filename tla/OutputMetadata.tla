--------------------------- MODULE OutputMetadata ---------------------------
(***************************************************************************)
(* The dimensions and variables of the files Monio writes, on the owner    *)
(* PE: what initialiseFile takes from a file, what cleanFileData and       *)
(* addJediData make of it, how AtlasWriter finds the dimensions of a field *)
(* by their sizes, and what File and Writer define and store for one field *)
(* after another.  An output may be read again for the next write.         *)
(*                                                                         *)
(* Data are abstracted to their amount and to whose they are; convention,  *)
(* values, failures and crashes are in Monio, the order of values in       *)
(* FieldLayout.                                                            *)
(***************************************************************************)
EXTENDS Metadata

CONSTANTS
    Points,           \* points of the grid
    Field,            \* the fields, each by the name of its variable
    levels,           \* the levels of each
    NoFirstLevel,     \* FieldMetadata::noFirstLevel
    lfricVertConfig,  \* FieldMetadata::lfricVertConfig, or ""
    jediVertConfig,   \* FieldMetadata::jediVertConfig, or ""
    FieldSets,        \* the sets of fields that are written together
    InputFiles,       \* files of LFRic
    MeshVariables,    \* the variables whose names have kLfricMeshTerm
    GeneratedNames,   \* "dim0", "dim1", ...
    MaxCalls          \* bound: calls in a behaviour

kVerticalFullSize    == 71
kVerticalHalfSize    == 70
kVertFullNoSurfSize  == 70
kVertHalfWithTopSize == 71

ReadDims  == {"time_counter", "surface_tiles"}   \* kTimeDimName, kTileDimName
ReadVars  == {"time_instant", "tile_fraction"}   \* kTimeVarName, kTileVarName
LevelVars == {"full_levels", "half_levels"}      \* kVerticalFullName, kVerticalHalfName
CoordVars == {"longitude", "latitude"}           \* kCoordVarNames
Geometry  == MeshVariables \cup LevelVars
JediLevels == {"full_levels_no_surf", "half_levels_with_top"}  \* of addJediData
Reserved  == Geometry \cup JediLevels \cup CoordVars \cup ReadVars

(***************************************************************************)
(* A file: its dimensions with their sizes, the names of the dimensions of *)
(* each variable, and the data each has been given: how many, and whose.   *)
(***************************************************************************)
EmptyFile == [dimensions |-> NoMap, variables |-> NoMap, data |-> NoMap]

Container(size, of) == [size |-> size, of |-> of]

EmptyFileData == [metadata |-> EmptyMetadata, data |-> NoMap]

\* Monio's own levels, if they are there, have the sizes Monio gives them.
JediLevelsFit(dimensions) ==
    /\ "full_levels_no_surf" \in DOMAIN dimensions =>
          dimensions["full_levels_no_surf"] = kVertFullNoSurfSize
    /\ "half_levels_with_top" \in DOMAIN dimensions =>
          dimensions["half_levels_with_top"] = kVertHalfWithTopSize

\* What can be read as a state of LFRic: a file with a dimension for the points, and
\* the mesh and the levels, which have no time and no tiles.
IsInput(file) ==
    /\ DOMAIN file.dimensions \subseteq Names
    /\ \A d \in DOMAIN file.dimensions : file.dimensions[d] \in Nat
    /\ \E d \in DOMAIN file.dimensions \ ReadDims : file.dimensions[d] = Points
    /\ JediLevelsFit(file.dimensions)
    /\ \A n \in DOMAIN file.variables :
          /\ file.variables[n] \in Seq(DOMAIN file.dimensions)
          /\ \A i, j \in 1..Len(file.variables[n]) :
                file.variables[n][i] = file.variables[n][j] => i = j
    /\ Geometry \subseteq DOMAIN file.variables
    /\ \A n \in Geometry : \A i \in 1..Len(file.variables[n]) :
          file.variables[n][i] \notin ReadDims

ASSUME SchemaAssumption ==
    /\ Points \in Nat \ {0}
    /\ levels \in [Field -> Nat \ {0}]
    /\ NoFirstLevel \subseteq Field
    /\ FieldSets \subseteq SUBSET Field
    /\ MaxCalls \in Nat
    /\ \A file \in InputFiles : IsInput(file)

\* No field and no mesh variable is named like a variable that Monio has a use for; the
\* generated names are no others' than the first dimensions'.
ASSUME NamesAssumption ==
    /\ Field \cap Reserved = {}
    /\ MeshVariables \cap (ReadVars \cup JediLevels) = {}
    /\ GeneratedNames \in Seq(Names \ (ReadDims \cup JediLevels))
    /\ \A i, j \in 1..Len(GeneratedNames) : GeneratedNames[i] = GeneratedNames[j] => i = j
    /\ JediLevels \subseteq Names

VARIABLES
    stored,    \* the FileData of the grid
    fileData,  \* the FileData of the write in progress
    out,       \* the file it writes, or that the last write left
    op,        \* that write, or "idle" or "aborted"
    left,      \* its fields still to be written
    fields,    \* all its fields
    dimCount,  \* AtlasWriter::dimCount_
    calls      \* counter for the bound

vars == <<stored, fileData, out, op, left, fields, dimCount, calls>>

WriteOp == {"LFRic", "JEDI", "writeFieldSet"}

IsMetadata(md) ==
    /\ \A n \in DOMAIN md.dimensions : md.dimensions[n] \in Nat
    /\ \A n \in DOMAIN md.variables : \A i \in 1..Len(md.variables[n].dims) :
          md.variables[n].dims[i] \in [name : STRING \ {NotFound}, size : Nat]

\* The shape of the state; no dimension bears the name of the error.
TypeOK ==
    /\ IsMetadata(stored.metadata) /\ IsMetadata(fileData.metadata)
    /\ \A n \in DOMAIN out.variables : out.variables[n] \in Seq(STRING \ {NotFound})
    /\ op \in WriteOp \cup {"idle", "aborted"}
    /\ left \subseteq fields /\ fields \subseteq Field
    /\ dimCount \in 0..Len(GeneratedNames)
    /\ calls \in 0..MaxCalls

Init ==
    /\ stored = EmptyFileData /\ fileData = EmptyFileData
    /\ out = EmptyFile
    /\ op = "idle" /\ left = {} /\ fields = {}
    /\ dimCount = 0 /\ calls = 0
----------------------------------------------------------------------------
(* Reading. *)

\* File::readDimensions and readVariables, into new Metadata.
readMetadata(file) ==
    [dimensions |-> file.dimensions,
     variables |-> [n \in DOMAIN file.variables |->
        [dims |-> [i \in 1..Len(file.variables[n]) |->
            [name |-> file.variables[n][i], size |-> file.dimensions[file.variables[n][i]]]]]]]

\* Reader::readFullDatum: a container as large as the metadata say.
readFullData(md, names) ==
    [n \in names |-> Container(getTotalSize(md.variables[n].dims), "file")]

\* initialiseFile, of a file of LFRic or of an output that has the geometry.
InitialiseFile(file, doCreateDateTimes) ==
    /\ op = "idle" /\ calls < MaxCalls
    /\ Geometry \subseteq DOMAIN file.variables
    /\ doCreateDateTimes => "time_instant" \in DOMAIN file.variables
    /\ LET md == readMetadata(file)
           times == IF doCreateDateTimes THEN {"time_instant"} ELSE {}
       IN  stored' = [metadata |-> md, data |-> readFullData(md, Geometry \cup times)]
    /\ calls' = calls + 1
    /\ UNCHANGED <<fileData, out, op, left, fields, dimCount>>
----------------------------------------------------------------------------
(* The start of a write. *)

\* Mutant: the dimensions that serve reading only are kept.
cleanDataOnly(fd) ==
    LET data == Without(fd.data, ReadVars)
    IN  [metadata |-> keepVariables(fd.metadata, DOMAIN data), data |-> data]

\* Monio::cleanFileData.
cleanFileData(fd) ==
    LET data == Without(fd.data, ReadVars)
        md == deleteDimension(deleteDimension(fd.metadata, "time_counter"), "surface_tiles")
    IN  [metadata |-> keepVariables(md, DOMAIN data), data |-> data]

\* The FileData that getFileData copied shares the Variables, and loses their
\* dimensions too.
SharedAfterClean(fd) ==
    [fd EXCEPT !.metadata.variables =
        [n \in DOMAIN @ |-> deleteVariableDimension(
                                deleteVariableDimension(@[n], "time_counter"), "surface_tiles")]]

\* Monio::addJediData, for one of its two dimensions.
addLevels(fd, name, size) ==
    [metadata |-> addVariable(addDimension(fd.metadata, name, size), name,
                              [dims |-> <<[name |-> name, size |-> size]>>]),
     data |-> insertIfAbsent(fd.data, name, Container(size, "Monio"))]

addJediData(fd) ==
    addLevels(addLevels(fd, "full_levels_no_surf", kVertFullNoSurfSize),
              "half_levels_with_top", kVertHalfWithTopSize)

\* writeState or writeIncrements, after a file of the grid has been initialised,
\* or writeFieldSet: up to the first field.
BeginWrite(o, fs) ==
    /\ op = "idle" /\ calls < MaxCalls
    /\ o # "writeFieldSet" => stored # EmptyFileData
    /\ fileData' = CASE o = "LFRic" -> cleanFileData(stored)
                     [] o = "JEDI"  -> addJediData(cleanFileData(stored))
                     [] o = "writeFieldSet" -> EmptyFileData
    /\ stored' = IF o = "writeFieldSet" THEN stored ELSE SharedAfterClean(stored)
    /\ out' = EmptyFile
    /\ op' = o /\ left' = fs /\ fields' = fs
    /\ calls' = calls + 1
    /\ UNCHANGED dimCount
----------------------------------------------------------------------------
(* A field. *)

\* AtlasWriter::getWriteField gives it the surface level.
WriteLevels(o, f) ==
    IF o = "LFRic" /\ f \in NoFirstLevel /\ levels[f] = kVerticalHalfSize
    THEN kVerticalFullSize ELSE levels[f]

VertConfig(o, f) ==
    CASE o = "LFRic" -> lfricVertConfig[f]
      [] o = "JEDI"  -> jediVertConfig[f]
      [] o = "writeFieldSet" -> ""

\* The dimension named by the metadata of the field, when that has the size, else
\* the first of the size.
DimensionName(md, size, vertConfig) ==
    IF vertConfig \in DOMAIN md.dimensions /\ md.dimensions[vertConfig] = size
    THEN vertConfig ELSE getDimensionName(md, size)

\* Mutant: a size without a name is not left out.
allDimensions(md, n, vertConfig) ==
    LET dimension(size) == [name |-> DimensionName(md, size, vertConfig), size |-> size]
    IN  <<dimension(n), dimension(Points)>>

\* AtlasWriter::addVariableDimensions: levels, then points; what has no name is
\* left out.
addVariableDimensions(md, n, vertConfig) ==
    LET named(size) == LET name == DimensionName(md, size, vertConfig)
                       IN  IF name = NotFound THEN <<>> ELSE <<[name |-> name, size |-> size]>>
    IN  named(n) \o named(Points)

\* Variable::addDimension aborts.
AlreadyDefined(dims) == Len(dims) = 2 /\ dims[1].name = dims[2].name

Abort(md) ==
    /\ op' = "aborted"
    /\ fileData' = [fileData EXCEPT !.metadata = md]
    /\ UNCHANGED <<stored, out, left, fields, calls>>

\* File::writeMetadata: what is not defined already.
writeMetadata(file, md) ==
    LET new == DOMAIN md.variables \ DOMAIN file.variables
        names(dims) == [i \in 1..Len(dims) |-> dims[i].name]
    IN  [file EXCEPT
            !.dimensions = [n \in DOMAIN @ \cup DOMAIN md.dimensions |->
                               IF n \in DOMAIN @ THEN @[n] ELSE md.dimensions[n]],
            !.variables = [n \in DOMAIN @ \cup new |->
                               IF n \in new THEN names(md.variables[n].dims) ELSE @[n]]]

\* Mutant: only the data of the field are written.
writeFieldData(file, data) ==
    [file EXCEPT !.data = [n \in DOMAIN @ \cup (DOMAIN data \cap Field) |->
                              IF n \in DOMAIN data \cap Field THEN data[n] ELSE @[n]]]

\* Writer::writeData.
writeData(file, data) ==
    [file EXCEPT !.data = [n \in DOMAIN @ \cup DOMAIN data |->
                              IF n \in DOMAIN data THEN data[n] ELSE @[n]]]

\* Mutant: the data stay for the next field.
clearMetadataOnly(fd) == [fd EXCEPT !.metadata = clear(@)]

\* FileData::clearData.
clearData(fd) == [metadata |-> clear(fd.metadata), data |-> NoMap]

\* writeMetadata, writeData and clearData.
WriteOut(md, data, f) ==
    /\ out' = writeData(writeMetadata(out, md), data)
    /\ fileData' = clearData([metadata |-> md, data |-> data])
    /\ left' = left \ {f}
    /\ UNCHANGED <<stored, op, fields, calls>>

\* populateFileDataWithField of writeState and writeIncrements.
WriteField(f) ==
    LET n == WriteLevels(op, f)
        dims == addVariableDimensions(fileData.metadata, n, VertConfig(op, f))
    IN  /\ op \in {"LFRic", "JEDI"}
        /\ f \in left
        /\ IF AlreadyDefined(dims)
           THEN Abort(fileData.metadata)
           ELSE WriteOut(addVariable(fileData.metadata, f, [dims |-> dims]),
                         insertIfAbsent(fileData.data, f, Container(n * Points, f)), f)
        /\ UNCHANGED dimCount

\* Mutant: dimCount_ is not counted up.
newNameOnce(md, count, size) ==
    IF getDimensionName(md, size) # NotFound
    THEN [metadata |-> md, count |-> count]
    ELSE [metadata |-> addDimension(md, GeneratedNames[count + 1], size), count |-> count]

\* A size without a dimension gets one, named by dimCount_.
newName(md, count, size) ==
    IF getDimensionName(md, size) # NotFound
    THEN [metadata |-> md, count |-> count]
    ELSE [metadata |-> addDimension(md, GeneratedNames[count + 1], size), count |-> count + 1]

\* populateFileDataWithField of writeFieldSet: names for the dimensions, the
\* variable, the coordinates of the points, and the data.
WriteFieldOfSet(f) ==
    LET first == newName(fileData.metadata, dimCount, Points)
        named == newName(first.metadata, first.count, levels[f])
        dims == addVariableDimensions(named.metadata, levels[f], "")
        pointDims == <<[name |-> getDimensionName(named.metadata, Points), size |-> Points]>>
        withField == addVariable(named.metadata, f, [dims |-> dims])
        withLongitude == addVariable(withField, "longitude", [dims |-> pointDims])
        withCoords == addVariable(withLongitude, "latitude", [dims |-> pointDims])
        coords == [n \in CoordVars |-> Container(Points, "Atlas")]
    IN  /\ op = "writeFieldSet"
        /\ f \in left
        /\ dimCount + 2 <= Len(GeneratedNames)
        /\ IF AlreadyDefined(dims)
           THEN Abort(named.metadata)
           ELSE WriteOut(withCoords, insertIfAbsent(coords, f, Container(levels[f] * Points, f)), f)
        /\ dimCount' = named.count

\* Writer::closeFile.
EndWrite ==
    /\ op \in WriteOp /\ left = {}
    /\ op' = "idle" /\ fileData' = EmptyFileData
    /\ UNCHANGED <<stored, out, left, fields, dimCount, calls>>
----------------------------------------------------------------------------
Next ==
    \/ \E file \in InputFiles \cup {out}, dates \in BOOLEAN : InitialiseFile(file, dates)
    \/ \E o \in WriteOp, fs \in FieldSets : BeginWrite(o, fs)
    \/ \E f \in Field : WriteField(f) \/ WriteFieldOfSet(f)
    \/ EndWrite

Spec == Init /\ [][Next]_vars
----------------------------------------------------------------------------
(* Properties. *)

\* The dimensions the file declares for a variable.
Declared(n) ==
    [i \in 1..Len(out.variables[n]) |->
        [name |-> out.variables[n][i], size |-> out.dimensions[out.variables[n][i]]]]

HasSize(size) == \E d \in DOMAIN out.dimensions : out.dimensions[d] = size

\* The levels that the last write to the file gave a field.
Levels(f) == WriteLevels(op, f)

\* A field that is written and still in the file under op, as it is until the write ends.
IsWritten(f) == op \in WriteOp /\ f \in fields \ left

\* A field of writeState or writeIncrements with more levels than one, for which the
\* file has no dimension.
WithoutDimension(n) ==
    /\ op \in {"LFRic", "JEDI"} /\ n \in Field
    /\ levels[n] > 1 /\ ~HasSize(Levels(n))

\* NetCDF stores as many values as the dimensions of a variable declare, from a
\* vector of which it knows only the start (File.cc:445).  So for every variable of
\* an output being written the dimensions are defined in the file, and their sizes
\* make up the length of the vector: no write reads past it, or leaves a part of it
\* out.  A field of writeState or writeIncrements must have a number of levels that
\* the file has a dimension for; writeFieldSet names those it meets.
DeclaredSize ==
    op \in WriteOp =>
        \A n \in DOMAIN out.data :
            \/ WithoutDimension(n)
            \/ /\ \A i \in 1..Len(out.variables[n]) :
                     out.variables[n][i] \in DOMAIN out.dimensions
               /\ getTotalSize(Declared(n)) = out.data[n].size

\* No output of writeState and writeIncrements has the time or tile dimension, or
\* the variables on them, that its input has (Monio.cc:446, Constants.h:137): its
\* fields have one time and no tiles, also when a field has as many levels as the
\* file has times.
OutputWithoutTime ==
    /\ DOMAIN out.dimensions \cap ReadDims = {}
    /\ DOMAIN out.variables \cap ReadVars = {}
    /\ \A n \in DOMAIN out.variables : \A i \in 1..Len(out.variables[n]) :
          out.variables[n][i] \notin ReadDims

\* An output of writeState and writeIncrements carries the mesh and the levels of
\* the file the grid was initialised from, with the same dimensions and complete
\* data, from the first field on: it can be initialised from in turn.
MeshKept ==
    op \in {"LFRic", "JEDI"} /\ left # fields =>
        \A n \in Geometry :
            /\ n \in DOMAIN out.data
            /\ Declared(n) = stored.metadata.variables[n].dims
            /\ out.data[n] = stored.data[n]

\* Every datum that waits to be written has its variable, so Writer::writeData never
\* throws at Writer.cc:81 between one field of a write and the next.
DataHaveVariables == DOMAIN fileData.data \subseteq DOMAIN fileData.metadata.variables

\* AtlasWriter.cc:416: the dimensions that are left out are those of fields of one
\* level, which need none.
OnlySingleLevelDropped ==
    \A f \in Field :
        IsWritten(f) /\ levels[f] > 1 => Len(out.variables[f]) = 2
=============================================================================
