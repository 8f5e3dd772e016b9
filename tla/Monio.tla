------------------------------- MODULE Monio -------------------------------
(***************************************************************************)
(* The Monio singleton as the owner PE (MPI rank 0) runs it: the calls of  *)
(* src/src/monio/Monio.cc, one after another, each as the sequence of file *)
(* operations it performs, over the files on disk, the open Reader and     *)
(* Writer, the cache filesData_ of one FileData per grid, and the caller's *)
(* fields.  Any operation may fail; a failing call ends the job (MPI       *)
(* abort), and a new job finds on disk what the old one left there.        *)
(*                                                                         *)
(* Data are abstracted: a field holds one value, a variable of a file one  *)
(* value per time step, and the mesh and level variables of a file are one *)
(* item, its geometry, whose value is the grid it describes.  The other    *)
(* PEs, and the gather and scatter between them, are in MonioRanks.        *)
(***************************************************************************)
EXTENDS Naturals, Sequences, FiniteSets

CONSTANTS
    Grid,             \* grid names, the keys of filesData_
    Path,             \* non-empty file paths
    NoPath,           \* the empty file path
    Date,             \* date-times of state files
    Value,            \* what a field may hold
    Garbage,          \* fill values, or memory nobody wrote
    None,             \* absent
    Field,            \* the caller's fields, one FieldMetadata each
    lfricReadName,    \* FieldMetadata::lfricReadName of each field
    lfricWriteName,   \* FieldMetadata::lfricWriteName of each field
    jediName,         \* FieldMetadata::jediName of each field
    levels,           \* the number of levels the caller gave the field
    NoFirstLevel,     \* the fields with FieldMetadata::noFirstLevel
    GlobalField,      \* the fields the caller made global (atlas option "global")
    Missing,          \* consts::kMissingVariableNames
    InputFiles,       \* the files on disk before the first job
    Calls,            \* the calls the caller may make
    MaxCalls,         \* bound: calls in a behaviour
    MaxJobs           \* bound: jobs in a behaviour

kVerticalFullSize == 71

LFRIC == "LFRic"
JEDI  == "JEDI"
Convention == {LFRIC, JEDI}

Name == UNION {{lfricReadName[f], lfricWriteName[f], jediName[f]} : f \in Field}

Datum    == Value \cup {Garbage}
Geometry == Grid \cup {None, Garbage}
Contents == [Name -> Seq(Datum)]        \* <<>>: no such variable
NoData   == [n \in Name |-> <<>>]

(***************************************************************************)
(* A file: geom is the grid its mesh dimensions are for, mesh what its     *)
(* mesh variables hold, timed the variables with a time dimension, conv    *)
(* the global attribute "variable_convention".                             *)
(***************************************************************************)
File == [geom: Grid \cup {None}, mesh: Geometry, times: Seq(Date),
         conv: Convention \cup {None}, timed: SUBSET Name, data: Contents]

EmptyFile == [geom |-> None, mesh |-> None, times |-> <<>>, conv |-> None,
              timed |-> {}, data |-> NoData]

VarsOf(file) == {n \in Name : file.data[n] # <<>>}

(***************************************************************************)
(* FileData: Metadata (geom, vars, timed, conv), Data (mesh, data), the    *)
(* horizontal map and the date-times.                                      *)
(***************************************************************************)
FileData == [geom: Grid \cup {None}, vars: SUBSET Name, timed: SUBSET Name,
             conv: Convention \cup {None}, mesh: Geometry, data: Contents,
             map: Geometry, times: Seq(Date)]

EmptyFileData == [geom |-> None, vars |-> {}, timed |-> {}, conv |-> None,
                  mesh |-> None, data |-> NoData, map |-> None, times |-> <<>>]

ReadOp  == {"readState", "readIncrements"}
WriteOp == {"writeState", "writeIncrements", "writeFieldSet"}
Op == ReadOp \cup WriteOp \cup {"initialiseFile"}

\* times: initialiseFile's doCreateDateTimes, which readState passes as true.
Call == [op: Op, grid: Grid, path: Path \cup {NoPath}, conv: Convention,
         date: Date, times: BOOLEAN, fields: SUBSET Field]

ASSUME NamesAssumption ==
    /\ None \notin Grid \cup Path \cup Field \cup Convention \cup File
    /\ None \notin Calls
    /\ Garbage \notin Grid \cup Value \cup {None}
    /\ NoPath \notin Path
    /\ lfricReadName \in [Field -> Name]
    /\ lfricWriteName \in [Field -> Name]
    /\ jediName \in [Field -> Name]

ASSUME FieldAssumption ==
    /\ levels \in [Field -> Nat]
    /\ NoFirstLevel \subseteq Field /\ GlobalField \subseteq Field

NamesOf(f) == {lfricReadName[f], lfricWriteName[f], jediName[f]}

\* Two field metadata share a name only when that name stands for no variable.
ASSUME DistinctNames ==
    /\ \A f, g \in Field : f # g => NamesOf(f) \cap NamesOf(g) \subseteq Missing
    /\ \A f \in Field : jediName[f] \notin Missing

\* Input files come complete: the mesh with its geometry, and a variable with a
\* time dimension with a slice for every time step.
ASSUME InputAssumption ==
    /\ InputFiles \in [Path -> File \cup {None}]
    /\ \A p \in Path : InputFiles[p] # None =>
          /\ InputFiles[p].mesh = InputFiles[p].geom
          /\ \A n \in InputFiles[p].timed : Len(InputFiles[p].data[n]) = Len(InputFiles[p].times)

ASSUME BoundAssumption ==
    Calls \subseteq Call /\ MaxCalls \in Nat /\ MaxJobs \in Nat \ {0}

VARIABLES
    disk,        \* the file at each path, None when there is none
    promise,     \* history: what a finished write put at each path (None: torn)
    fieldVal,    \* the values of the caller's fields, per grid
    fieldName,   \* their names
    filesData,   \* Monio::filesData_ (an absent key is an empty FileData)
    reader,      \* the path Reader::file_ has open, or None
    writer,      \* the path Writer::file_ has open, or None
    pc,          \* the next operation of the call in progress
    call,        \* that call
    work,        \* its local FileData
    cur,         \* the field its loop is at
    left,        \* the fields its loop has still to do
    calls, jobs  \* counters for the bounds

files  == <<disk, promise>>
caller == <<fieldVal, fieldName>>
local  == <<call, work, cur, left>>
counts == <<calls, jobs>>
vars   == <<files, caller, filesData, reader, writer, pc, local, counts>>
----------------------------------------------------------------------------
Reading   == {"open", "metadata", "geometry", "map", "times", "datum", "populate", "next"}
Writing   == {"create", "fields", "writeMetadata", "writeData"}
Stopped   == {"aborted", "killed"}
PC        == Reading \cup Writing \cup Stopped \cup {"idle"}

TypeOK ==
    /\ disk \in [Path -> File \cup {None}]
    /\ promise \in [Path -> File \cup {None}]
    /\ fieldVal \in [Grid -> [Field -> Datum]]
    /\ fieldName \in [Grid -> [Field -> Name]]
    /\ filesData \in [Grid -> FileData]
    /\ reader \in Path \cup {None}
    /\ writer \in Path \cup {None}
    /\ pc \in PC
    /\ call \in Call \cup {None}
    /\ work \in FileData
    /\ cur \in Field \cup {None}
    /\ left \in SUBSET Field
    /\ calls \in 0..MaxCalls
    /\ jobs \in 0..MaxJobs

Init ==
    /\ disk = InputFiles
    /\ promise = InputFiles
    /\ fieldVal \in [Grid -> [Field -> Value]]
    /\ fieldName = [g \in Grid |-> jediName]
    /\ filesData = [g \in Grid |-> EmptyFileData]
    /\ reader = None /\ writer = None
    /\ pc = "idle" /\ call = None
    /\ work = EmptyFileData /\ cur = None /\ left = {}
    /\ calls = 0 /\ jobs = 1
----------------------------------------------------------------------------
(* Ends of a call. *)

\* Mutant: the writer is left as it is.
closeReaderOnly == reader' = None /\ UNCHANGED writer

\* Monio::closeFiles.
closeFiles == reader' = None /\ writer' = None

\* closeFiles, then utils::throwException, which aborts MPI on every PE.
Abort ==
    /\ closeFiles
    /\ pc' = "aborted"
    /\ UNCHANGED <<files, caller, filesData, local, counts>>

Return ==
    /\ pc' = "idle"
    /\ call' = None /\ work' = EmptyFileData /\ cur' = None /\ left' = {}

\* The caller's own computation between two calls.
SetField(g, f, v) ==
    /\ pc = "idle"
    /\ fieldVal' = [fieldVal EXCEPT ![g][f] = v]
    /\ UNCHANGED <<files, fieldName, filesData, reader, writer, pc, local, counts>>
\* closeFiles is public, and may be called between two calls.
CallerClosesFiles ==
    /\ pc = "idle"
    /\ closeFiles
    /\ UNCHANGED <<files, caller, filesData, pc, local, counts>>
----------------------------------------------------------------------------
(* readState, readIncrements, initialiseFile. *)

\* The fields a call names, when the code would accept it.
Begin(c, start) ==
    /\ pc = "idle" /\ calls < MaxCalls
    /\ calls' = calls + 1
    /\ call' = c
    /\ pc' = start
    /\ UNCHANGED <<files, caller, cur, jobs>>

\* No field, no path or no file: closeFiles and abort.
BeginRead(c) ==
    /\ c.op \in ReadOp
    /\ LET accepted == c.fields # {} /\ c.path # NoPath /\ disk[c.path] # None
       IN  IF accepted
           THEN /\ Begin(c, "next")
                /\ left' = c.fields
                /\ UNCHANGED <<filesData, reader, writer, work>>
           ELSE /\ Begin(c, "aborted")
                /\ closeFiles
                /\ UNCHANGED <<filesData, work, left>>

BeginInitialise(c) ==
    /\ c.op = "initialiseFile"
    /\ Begin(c, "open")
    /\ UNCHANGED <<filesData, reader, writer, work, left>>

\* The head of the loop over the field metadata.
NextField(f) ==
    /\ pc = "next"
    /\ f \in left
    /\ cur' = f
    /\ pc' = "open"
    /\ UNCHANGED <<files, caller, filesData, reader, writer, call, work, left, counts>>

\* Mutant: the FileData the grid had is reused.
keepFileData(g) == [filesData EXCEPT ![g] = @]

\* createFileData drops the FileData the grid had.
createFileData(g) == [filesData EXCEPT ![g] = EmptyFileData]

\* createFileData, then Reader::openFile.
InitOpen ==
    /\ pc = "open" /\ call.path \in Path
    /\ disk[call.path] # None
    /\ filesData' = createFileData(call.grid)
    /\ reader' = call.path
    /\ pc' = "metadata"
    /\ UNCHANGED <<files, caller, writer, local, counts>>

\* A file that cannot be opened: File::File aborts before Reader can close it.
OpenFails ==
    /\ pc = "open" /\ call.path \in Path
    /\ filesData' = createFileData(call.grid)
    /\ pc' = "aborted"
    /\ UNCHANGED <<files, caller, reader, writer, local, counts>>

\* initialiseFile without a path: Reader::openFile leaves the file that is open,
\* and Reader::getFile aborts when none is.
OpenNothing ==
    /\ pc = "open" /\ call.path \notin Path
    /\ filesData' = createFileData(call.grid)
    /\ pc' = IF reader = None THEN "aborted" ELSE "metadata"
    /\ UNCHANGED <<files, caller, reader, writer, local, counts>>

\* File::readMetadata into fd: what fd already has stays (insert if absent).
readMetadata(fd, file) ==
    [fd EXCEPT !.geom  = IF @ = None THEN file.geom ELSE @,
               !.vars  = @ \cup VarsOf(file),
               !.timed = @ \cup (file.timed \ fd.vars),
               !.conv  = IF @ = None THEN file.conv ELSE @]

InitMetadata ==
    /\ pc = "metadata"
    /\ filesData' = [filesData EXCEPT ![call.grid] = readMetadata(@, disk[reader])]
    /\ pc' = "geometry"
    /\ UNCHANGED <<files, caller, reader, writer, local, counts>>

\* The mesh and level variables; getVariable aborts when the file lacks them.
InitGeometry ==
    /\ pc = "geometry"
    /\ IF filesData[call.grid].geom = None
       THEN Abort
       ELSE /\ filesData' = [filesData EXCEPT ![call.grid].mesh =
                                IF @ = None THEN disk[reader].mesh ELSE @]
            /\ pc' = "map"
            /\ UNCHANGED <<files, caller, reader, writer, local, counts>>

\* Mutant: the sizes of grid and mesh are not compared.
AnyGridFits(fd, g) == TRUE

\* utilsatlas::createLfricAtlasMap: as many points in the grid as in the mesh.
GridFits(fd, g) == fd.geom = g

createLfricAtlasMap ==
    /\ pc = "map"
    /\ IF ~ GridFits(filesData[call.grid], call.grid)
       THEN Abort
       ELSE /\ filesData' = [filesData EXCEPT ![call.grid].map =
                                IF @ = None THEN filesData[call.grid].mesh ELSE @]
            /\ pc' = "times"
            /\ UNCHANGED <<files, caller, reader, writer, local, counts>>

WithTimes(c) == c.op = "readState" \/ (c.op = "initialiseFile" /\ c.times)

\* The time variable and createDateTimes.  initialiseFile itself returns here
\* and leaves the reader open; a read takes its copy with getFileData.
createDateTimes ==
    /\ pc = "times"
    /\ IF WithTimes(call) /\ disk[reader].times = <<>>
       THEN Abort
       ELSE LET fd == [filesData[call.grid] EXCEPT
                         !.times = IF WithTimes(call) /\ @ = <<>>
                                   THEN disk[reader].times ELSE @]
            IN  /\ filesData' = [filesData EXCEPT ![call.grid] = fd]
                /\ UNCHANGED <<files, caller, reader, writer, counts>>
                /\ IF call.op = "initialiseFile"
                   THEN Return
                   ELSE /\ work' = fd
                        /\ pc' = "datum"
                        /\ UNCHANGED <<call, cur, left>>

\* getVariableConvention: LFRic unless the file says otherwise.
getVariableConvention(fd) == IF fd.conv = None THEN LFRIC ELSE fd.conv

readName(c, fd, f) ==
    IF getVariableConvention(fd) = JEDI THEN jediName[f] ELSE lfricReadName[f]

TimeSteps(fd, date) == {i \in 1..Len(fd.times) : fd.times[i] = date}

\* Mutant: the first time step for any date.
firstTimeStep(fd, date) == 1

findTimeStep(fd, date) == CHOOSE i \in TimeSteps(fd, date) :
                              \A j \in TimeSteps(fd, date) : i <= j

\* readDatumAtTime takes the slice of a variable whose first dimension is time.
\* readFullDatum takes the variable whole, into as much memory as the metadata
\* asks for; a field then uses the first time step.
readDatum(c, fd, file, n) ==
    IF c.op = "readState"
    THEN IF n \in file.timed THEN file.data[n][findTimeStep(fd, c.date)] ELSE Garbage
    ELSE IF n \in file.timed /\ n \notin fd.timed THEN Garbage ELSE file.data[n][1]

\* readState skips a field that LFRic does not have.
SkipDatum ==
    /\ pc = "datum"
    /\ call.op = "readState" /\ readName(call, work, cur) \in Missing
    /\ left' = left \ {cur}
    /\ pc' = "next"
    /\ UNCHANGED <<files, caller, filesData, reader, writer, call, work, cur, counts>>

\* Reader::readDatumAtTime (findTimeStep first) or Reader::readFullDatum.
ReadDatum ==
    LET n == readName(call, work, cur)
    IN  /\ pc = "datum"
        /\ ~ (call.op = "readState" /\ n \in Missing)
        /\ IF \/ call.op = "readState" /\ TimeSteps(work, call.date) = {}
              \/ n \notin work.vars
           THEN Abort
           ELSE /\ work' = [work EXCEPT !.data[n] = IF @ # <<>> THEN @ ELSE
                              <<readDatum(call, work, disk[reader], n)>>]
                /\ pc' = "populate"
                /\ UNCHANGED <<files, caller, filesData, reader, writer, call, cur,
                               left, counts>>

\* getReadField puts a new field in the place of one with the surface level too
\* many, and nobody copies it back.
getReadField(f) ==
    IF f \in NoFirstLevel /\ levels[f] = kVerticalFullSize THEN None ELSE f

\* populateFieldWithFileData, then scatter and halo exchange.
PopulateField ==
    /\ pc = "populate"
    /\ LET v == work.data[readName(call, work, cur)][1]
       IN  fieldVal' = IF getReadField(cur) = None THEN fieldVal
                       ELSE [fieldVal EXCEPT ![call.grid][getReadField(cur)] =
                                IF work.map = Garbage THEN Garbage ELSE v]
    /\ left' = left \ {cur}
    /\ pc' = "next"
    /\ UNCHANGED <<files, fieldName, filesData, reader, writer, call, work, cur, counts>>

ReadReturn ==
    /\ pc = "next"
    /\ left = {}
    /\ reader' = None
    /\ Return
    /\ UNCHANGED <<files, caller, filesData, writer, counts>>
----------------------------------------------------------------------------
(* writeState, writeIncrements, writeFieldSet. *)

\* Mutant: the global attributes of the file read last stay.
cleanFileDataOnly(fd) ==
    [fd EXCEPT !.timed = {}, !.vars = {n \in fd.vars : fd.data[n] # <<>>}]

\* cleanFileData: global attributes, time dimension, and the variables without
\* data go.
cleanFileData(fd) ==
    [fd EXCEPT !.conv = None, !.timed = {}, !.vars = {n \in fd.vars : fd.data[n] # <<>>}]

\* getFileData copies the maps of FileData but shares the Variables they point
\* to: the dimension cleanFileData deletes goes from the stored ones as well.
SharedAfterClean(fd) == [fd EXCEPT !.timed = {}]

\* Mutant: the path is not looked at.
AnyPath(c) == TRUE

\* Monio: filePath.length() != 0.
HasPath(c) == c.path # NoPath

BeginWrite(c) ==
    /\ c.op \in WriteOp
    /\ IF c.fields = {}
       THEN /\ Begin(c, "aborted") /\ closeFiles
            /\ UNCHANGED <<filesData, work, left>>
       ELSE /\ HasPath(c)
            /\ Begin(c, "create")
            /\ left' = c.fields
            /\ IF c.op = "writeFieldSet"
               THEN work' = EmptyFileData /\ UNCHANGED filesData
               ELSE /\ work' = cleanFileData(filesData[c.grid])
                    /\ filesData' = [filesData EXCEPT ![c.grid] = SharedAfterClean(@)]
            /\ UNCHANGED <<reader, writer>>

\* With fields but no path there is no output, and the call returns.
WriteNowhere(c) ==
    /\ c.op \in WriteOp /\ c.fields # {} /\ ~ HasPath(c)
    /\ pc = "idle" /\ calls < MaxCalls
    /\ calls' = calls + 1
    /\ UNCHANGED <<files, caller, filesData, reader, writer, pc, local, jobs>>

\* Writer::openFile replaces what was there.
CreateOutput ==
    /\ pc = "create"
    /\ disk' = [disk EXCEPT ![call.path] = EmptyFile]
    /\ promise' = [promise EXCEPT ![call.path] = None]
    /\ writer' = call.path
    /\ pc' = "fields"
    /\ UNCHANGED <<caller, filesData, reader, local, counts>>

\* File::File aborts; the old file may be lost or not.
CreateFails ==
    /\ pc = "create"
    /\ \/ UNCHANGED files
       \/ /\ disk' = [disk EXCEPT ![call.path] = EmptyFile]
          /\ promise' = [promise EXCEPT ![call.path] = None]
    /\ pc' = "aborted"
    /\ UNCHANGED <<caller, filesData, reader, writer, local, counts>>

\* The only difference between writeState and writeIncrements.
lfricName(c, f) == IF c.op = "writeState" THEN lfricReadName[f] ELSE lfricWriteName[f]

writeName(c, f) ==
    IF c.op = "writeFieldSet" THEN fieldName[c.grid][f]
    ELSE IF c.conv = JEDI THEN jediName[f] ELSE lfricName(c, f)

OutputConvention(c) == IF c.op = "writeFieldSet" THEN JEDI ELSE c.conv

\* What the code checks before it takes a field into the output: its name in a
\* JEDI file; its levels and its name in an LFRic file; the horizontal map.
FieldAccepted(c, fd, f) ==
    c.op # "writeFieldSet" =>
        /\ fd.map # None
        /\ c.conv = JEDI => fieldName[c.grid][f] = jediName[f]
        /\ c.conv = LFRIC =>
             /\ ~ (f \in NoFirstLevel /\ levels[f] = kVerticalFullSize)
             /\ writeName(c, f) \notin Missing

\* getWriteField copies a field it must give a surface level, and renames any
\* other: the caller's own when that is global already.
RenamedField(c, f) ==
    /\ c.op # "writeFieldSet" /\ c.conv = LFRIC
    /\ f \in GlobalField
    /\ f \notin NoFirstLevel \/ levels[f] # kVerticalFullSize - 1

\* populateFileDataWithField: variable, container, global attributes.
populateFileData(fd, n, v, conv) ==
    [fd EXCEPT !.vars = @ \cup {n},
               !.data[n] = IF @ = <<>> THEN <<v>> ELSE @,
               !.conv = IF @ = None THEN conv ELSE @]

WriteField(f) ==
    /\ pc = "fields"
    /\ f \in left
    /\ IF ~ FieldAccepted(call, work, f)
       THEN Abort
       ELSE LET n == writeName(call, f)
                v == IF work.map = Garbage THEN Garbage ELSE fieldVal[call.grid][f]
            IN  /\ cur' = f
                /\ work' = populateFileData(work, n, v, OutputConvention(call))
                /\ fieldName' = IF RenamedField(call, f)
                                THEN [fieldName EXCEPT ![call.grid][f] = n]
                                ELSE fieldName
                /\ pc' = "writeMetadata"
                /\ UNCHANGED <<files, fieldVal, filesData, reader, writer, call, left,
                               counts>>

\* File::writeMetadata defines what the file does not have; data come later.
writeMetadata(file, fd) ==
    [file EXCEPT !.geom = IF @ = None THEN fd.geom ELSE @,
                 !.mesh = IF file.geom = None /\ fd.geom # None THEN Garbage ELSE @,
                 !.timed = @ \cup (fd.timed \ VarsOf(file)),
                 !.conv = IF @ = None THEN fd.conv ELSE @,
                 !.data = [n \in Name |-> IF n \in fd.vars /\ @[n] = <<>>
                                          THEN <<Garbage>> ELSE @[n]]]

WriteMetadata ==
    /\ pc = "writeMetadata"
    /\ disk' = [disk EXCEPT ![writer] = writeMetadata(@, work)]
    /\ pc' = "writeData"
    /\ UNCHANGED <<promise, caller, filesData, reader, writer, local, counts>>

\* Writer::writeData, for the containers in done (all, unless it fails).
writeData(file, fd, done, withMesh) ==
    [file EXCEPT !.mesh = IF withMesh /\ fd.mesh # None THEN fd.mesh ELSE @,
                 !.data = [n \in Name |-> IF n \in done THEN fd.data[n] ELSE @[n]]]

Containers(fd) == {n \in Name : fd.data[n] # <<>>}

\* FileData::clearData: of the metadata only the dimensions stay.
clearData(fd) == [fd EXCEPT !.vars = {}, !.timed = {}, !.conv = None,
                            !.mesh = None, !.data = NoData]

\* writeData, then clearData.
WriteData ==
    /\ pc = "writeData"
    /\ disk' = [disk EXCEPT ![writer] = writeData(@, work, Containers(work), TRUE)]
    /\ work' = clearData(work)
    /\ left' = left \ {cur}
    /\ pc' = "fields"
    /\ UNCHANGED <<promise, caller, filesData, reader, writer, call, cur, counts>>

\* What the caller of a write may expect at its path: the geometry of its grid,
\* the convention it asked for, and the value of each of its fields.
Requested(c) ==
    LET geom == IF c.op = "writeFieldSet" THEN None ELSE c.grid
        written(n) == {f \in c.fields : writeName(c, f) = n}
    IN  [geom |-> geom, mesh |-> geom, times |-> <<>>,
         conv |-> OutputConvention(c), timed |-> {},
         data |-> [n \in Name |->
                     IF written(n) = {} THEN <<>>
                     ELSE <<fieldVal[c.grid][CHOOSE f \in written(n) : TRUE]>>]]

\* Writer::closeFile.  A map made from a torn file promises nothing.
WriteReturn ==
    /\ pc = "fields"
    /\ left = {}
    /\ writer' = None
    /\ promise' = [promise EXCEPT ![call.path] =
                     IF work.map = Garbage THEN None ELSE Requested(call)]
    /\ Return
    /\ UNCHANGED <<disk, caller, filesData, reader, counts>>
----------------------------------------------------------------------------
(* Failures. *)

\* Mutant: after an exception the file is opened once more.
RetryInRead ==
    /\ pc \in {"metadata", "geometry", "map", "times", "datum"}
    /\ reader' = None
    /\ pc' = "open"
    /\ UNCHANGED <<files, caller, filesData, writer, local, counts>>

\* An NcException, from the closing of the file too: caught by the reads and the
\* writes, which close the files and abort; by nobody in initialiseFile, which the
\* caller then sees fail with its FileData half made and the reader open.
NcExceptionInRead ==
    /\ \/ pc \in {"metadata", "geometry", "map", "times", "datum"}
       \/ pc = "next" /\ left = {}
    /\ IF call.op = "initialiseFile"
       THEN Return /\ UNCHANGED <<files, caller, filesData, reader, writer, counts>>
       ELSE Abort

\* A close that fails: some of the variables never get to the disk.
lostOnClose(file, lost, mesh) ==
    [file EXCEPT !.mesh = mesh,
                 !.data = [n \in Name |-> IF n \in lost THEN <<Garbage>> ELSE @[n]]]

\* The same in a write, which may have defined or written a part by then.
NcExceptionInWrite ==
    /\ \/ /\ pc = "writeMetadata"
          /\ \E defined \in SUBSET work.vars :
                disk' = [disk EXCEPT ![writer] =
                            writeMetadata(@, [work EXCEPT !.vars = defined, !.conv = None])]
       \/ /\ pc = "writeData"
          /\ \E done \in SUBSET Containers(work) :
                disk' = [disk EXCEPT ![writer] = writeData(@, work, done, done # {})]
       \/ /\ pc = "fields" /\ left = {}
          /\ \E lost \in SUBSET VarsOf(disk[writer]),
                mesh \in {disk[writer].mesh} \cup
                           (IF disk[writer].mesh = None THEN {} ELSE {Garbage}) :
                disk' = [disk EXCEPT ![writer] = lostOnClose(@, lost, mesh)]
    /\ closeFiles
    /\ pc' = "aborted"
    /\ UNCHANGED <<promise, caller, filesData, local, counts>>

\* Another PE aborts MPI, or the system ends the job, in the middle of a call.
Killed ==
    /\ pc \notin Stopped \cup {"idle"}
    /\ pc' = "killed"
    /\ UNCHANGED <<files, caller, filesData, reader, writer, local, counts>>

\* The next job: a new Monio over the same disk.
NewJob ==
    /\ pc \in Stopped \cup {"idle"}
    /\ jobs < MaxJobs
    /\ jobs' = jobs + 1
    /\ fieldName' = [g \in Grid |-> jediName]
    /\ filesData' = [g \in Grid |-> EmptyFileData]
    /\ closeFiles
    /\ Return
    /\ UNCHANGED <<files, fieldVal, calls>>
----------------------------------------------------------------------------
Next ==
    \/ \E g \in Grid, f \in Field, v \in Value : SetField(g, f, v)
    \/ \E c \in Calls : BeginRead(c) \/ BeginInitialise(c) \/ BeginWrite(c) \/ WriteNowhere(c)
    \/ \E f \in Field : NextField(f) \/ WriteField(f)
    \/ InitOpen \/ OpenFails \/ OpenNothing \/ InitMetadata \/ InitGeometry
    \/ createLfricAtlasMap \/ createDateTimes
    \/ SkipDatum \/ ReadDatum \/ PopulateField \/ ReadReturn
    \/ CreateOutput \/ CreateFails \/ WriteMetadata \/ WriteData \/ WriteReturn
    \/ NcExceptionInRead \/ NcExceptionInWrite \/ Killed
    \/ CallerClosesFiles \/ NewJob

Spec == Init /\ [][Next]_vars
----------------------------------------------------------------------------
(* Properties. *)

\* A file that a write finished, or that was there from the start, holds
\* exactly what that write was asked for until another write replaces it:
\* the mesh of the right grid, the requested convention, the values of the
\* caller's fields, and nothing left over from a file read before.
PromiseKept ==
    \A p \in Path : promise[p] # None => disk[p] = promise[p]

\* While a variable is read, the metadata and the map in use are those of the
\* file that is open, not of a file the same grid was initialised from before.
FreshMetadata ==
    pc \in {"datum", "populate"} =>
        /\ reader = call.path
        /\ work.vars = VarsOf(disk[reader])
        /\ work.timed = disk[reader].timed
        /\ work.conv = disk[reader].conv
        /\ work.map = disk[reader].mesh
        /\ call.op = "readState" => work.times = disk[reader].times

\* The value a finished file has for field f, for a read call c.
Promised(c, f) ==
    LET file == promise[c.path]
        n == IF file.conv = JEDI THEN jediName[f] ELSE lfricReadName[f]
    IN  IF c.op = "readState"
        THEN {file.data[n][i] : i \in {j \in 1..Len(file.times) :
                                         file.times[j] = c.date /\ n \in file.timed}}
        ELSE {file.data[n][1]}

\* A read that gets to its end has given every field the value the file was
\* finished with, whatever was read or written in between, by this job or an
\* earlier one, under the name its convention gives the field.  Not so for a
\* field LFRic lacks, for a field without a time dimension in a state file, and
\* for a field whose data getReadField loses (see ReadFillsEveryField).
ReadDelivers ==
    pc = "next" /\ left = {} /\ promise[call.path] # None =>
        \A f \in call.fields :
            \/ lfricReadName[f] \in Missing
            \/ getReadField(f) = None
            \/ Promised(call, f) = {}
            \/ fieldVal[call.grid][f] \in Promised(call, f)

\* When the code itself aborts, it has closed its output: what was written
\* before the failure is on disk.
AbortClosesWriter == pc = "aborted" => writer = None

\* README.md: a read populates the field set with data from the file; here, also
\* a field with the surface level that noFirstLevel says it has not.
ReadFillsEveryField ==
    pc = "next" /\ left = {} /\ promise[call.path] # None =>
        \A f \in call.fields :
            \/ lfricReadName[f] \in Missing
            \/ Promised(call, f) = {}
            \/ fieldVal[call.grid][f] \in Promised(call, f)
=============================================================================
