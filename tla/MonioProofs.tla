---------------------------- MODULE MonioProofs ----------------------------
(***************************************************************************)
(* Proofs, for any constants that meet the assumptions of Monio, that its  *)
(* safety properties hold.  IInv is shown inductive: helper lemmas give    *)
(* the types of the operators Monio is built from; frame lemmas say which  *)
(* parts of IInv an operation cannot disturb; one lemma per operation then *)
(* shows the parts it can.                                                 *)
(***************************************************************************)
EXTENDS MonioInvariant, TLAPS, WellFoundedInduction
----------------------------------------------------------------------------
(* Constants. *)

LEMMA EmptyTypes ==
    EmptyFileData \in FileData /\ EmptyFile \in File /\ NoData \in Contents
BY DEF EmptyFileData, FileData, EmptyFile, File, NoData, Contents, Geometry, Convention, Datum

LEMMA NameTypes ==
    \A f \in Field : /\ NamesOf(f) \subseteq Name
                     /\ lfricReadName[f] \in NamesOf(f)
                     /\ lfricWriteName[f] \in NamesOf(f)
                     /\ jediName[f] \in NamesOf(f)
BY DEF Name, NamesOf

\* The call in progress is one of the calls, and so a record of the right type.
LEMMA CallTypes ==
    ASSUME CallInProgress, pc \in Reading \cup Writing
    PROVE  /\ call \in Calls /\ call \in Call
           /\ call.op \in Op /\ call.grid \in Grid
           /\ (pc \in Writing \/ call.op # "initialiseFile") => call.path \in Path
           /\ call.conv \in Convention /\ call.date \in Date
           /\ call.fields \subseteq Field
BY BoundAssumption DEF CallInProgress, Call, WriteOp

LEMMA ReadNameType ==
    ASSUME NEW c, NEW fd, NEW f \in Field
    PROVE  readName(c, fd, f) \in Name
BY NameTypes DEF readName

LEMMA WriteNameType ==
    ASSUME NEW c \in Call, FieldNames, NEW f \in Field
    PROVE  writeName(c, f) \in NamesOf(f) /\ writeName(c, f) \in Name
<1>1. fieldName[c.grid][f] \in NamesOf(f)
  BY DEF FieldNames, Call
<1> QED
  BY <1>1, NameTypes DEF writeName, lfricName

\* findTimeStep finds the first of the time steps with the date.
LEMMA FindTimeStepType ==
    ASSUME NEW fd, fd.times \in Seq(Date), NEW date, TimeSteps(fd, date) # {}
    PROVE  findTimeStep(fd, date) \in TimeSteps(fd, date)
<1>1. TimeSteps(fd, date) \subseteq Nat
  BY DEF TimeSteps
<1> DEFINE R == {ss \in Nat \X Nat : ss[1] < ss[2]}
<1>w. R = OpToRel(<, Nat)
  BY Zenon DEF OpToRel
<1>x. IsWellFoundedOn(R, Nat)
  BY <1>w, NatLessThanWellFounded, Zenon
<1>2. PICK i \in TimeSteps(fd, date) : \A j \in TimeSteps(fd, date) : ~ (<<j, i>> \in R)
  <2> HIDE DEF R
  <2> QED BY <1>1, <1>x, WFMin
<1>3. \A j \in TimeSteps(fd, date) : i <= j
  <2> TAKE j \in TimeSteps(fd, date)
  <2>1. i \in Nat /\ j \in Nat
    BY <1>1
  <2>2. ~ (j < i)
    BY <1>2, <2>1
  <2> QED
    BY <2>1, <2>2
<1> QED
  BY <1>3 DEF findTimeStep
----------------------------------------------------------------------------
(* The types of what the operators of Monio return. *)

LEMMA ReadMetadataType ==
    ASSUME NEW fd \in FileData, NEW file \in File
    PROVE  readMetadata(fd, file) \in FileData
BY DEF readMetadata, FileData, File, VarsOf

LEMMA CleanTypes ==
    ASSUME NEW fd \in FileData
    PROVE  /\ cleanFileData(fd) \in FileData
           /\ SharedAfterClean(fd) \in FileData
           /\ clearData(fd) \in FileData
BY EmptyTypes DEF cleanFileData, SharedAfterClean, clearData, FileData, Geometry

LEMMA PopulateFileDataType ==
    ASSUME NEW fd \in FileData, NEW n \in Name, NEW v \in Datum, NEW conv \in Convention
    PROVE  populateFileData(fd, n, v, conv) \in FileData
<1>1. <<v>> \in Seq(Datum)
  OBVIOUS
<1> QED
  BY <1>1 DEF populateFileData, FileData, Contents

LEMMA WriteMetadataType ==
    ASSUME NEW file \in File, NEW fd \in FileData
    PROVE  writeMetadata(file, fd) \in File
<1>1. <<Garbage>> \in Seq(Datum)
  BY DEF Datum
<1>2. [n \in Name |-> IF n \in fd.vars /\ file.data[n] = <<>> THEN <<Garbage>> ELSE file.data[n]]
        \in Contents
  BY <1>1 DEF File, Contents
<1> QED
  BY <1>2 DEF writeMetadata, File, FileData, Geometry, VarsOf

LEMMA WriteDataType ==
    ASSUME NEW file \in File, NEW fd \in FileData, NEW done, NEW withMesh
    PROVE  writeData(file, fd, done, withMesh) \in File
<1>1. [n \in Name |-> IF n \in done THEN fd.data[n] ELSE file.data[n]] \in Contents
  BY DEF File, FileData, Contents
<1> QED
  BY <1>1 DEF writeData, File, FileData

LEMMA LostOnCloseType ==
    ASSUME NEW file \in File, NEW lost \in SUBSET Name,
           NEW mesh \in {file.mesh} \cup (IF file.mesh = None THEN {} ELSE {Garbage})
    PROVE  lostOnClose(file, lost, mesh) \in File
<1>1. <<Garbage>> \in Seq(Datum)
  BY DEF Datum
<1>2. [n \in Name |-> IF n \in lost THEN <<Garbage>> ELSE file.data[n]] \in Contents
  BY <1>1 DEF File, Contents
<1> QED
  BY <1>2 DEF lostOnClose, File, Geometry

LEMMA RequestedType ==
    ASSUME TypeOK, NEW c \in Call
    PROVE  Requested(c) \in File
<1>1. OutputConvention(c) \in Convention /\ c.grid \in Grid /\ c.fields \subseteq Field
  BY DEF OutputConvention, Convention, Call
<1> DEFINE written(n) == {f \in c.fields : writeName(c, f) = n}
<1>2. \A n \in Name : written(n) # {} =>
        <<fieldVal[c.grid][CHOOSE f \in written(n) : TRUE]>> \in Seq(Datum)
  <2> TAKE n \in Name
  <2> HAVE written(n) # {}
  <2>1. (CHOOSE f \in written(n) : TRUE) \in Field
    BY <1>1
  <2> QED
    BY <1>1, <2>1 DEF TypeOK
<1>3. [n \in Name |-> IF written(n) = {} THEN <<>>
                      ELSE <<fieldVal[c.grid][CHOOSE f \in written(n) : TRUE]>>] \in Contents
  <2> HIDE DEF written
  <2> QED
    BY <1>2 DEF Contents
<1>4. <<>> \in Seq(Date)
  OBVIOUS
<1> QED
  BY <1>1, <1>3, <1>4 DEF Requested, File, Geometry
----------------------------------------------------------------------------
(* What an operation does not disturb. *)

LEMMA FilesFrame == ASSUME Files, UNCHANGED files PROVE Files'
BY DEF Files, FilesWellFormed, PromisedMesh, PromiseKept, files

LEMMA NamesFrame == ASSUME FieldNames, UNCHANGED caller PROVE FieldNames'
BY DEF FieldNames, caller

LEMMA StoredFrame == ASSUME StoredFileData, UNCHANGED filesData PROVE StoredFileData'
BY DEF StoredFileData

LEMMA ReadsFrame ==
    ASSUME pc' \notin Reading
    PROVE  InitialiseStages' /\ ReadStages' /\ FieldsDelivered'
BY DEF InitialiseStages, ReadStages, FieldsDelivered, Reading

LEMMA WritesFrame == ASSUME pc' \notin Writing PROVE Writes'
BY DEF Writes, WriteAccepted, WriteFileData, WriteProgress, WriterOpen, Writing

\* Between two calls, and after the last one, no part of a call is left.
LEMMA IdleFrame ==
    ASSUME pc' \notin Reading \cup Writing,
           reader' # None => disk'[reader'] # None,
           pc' # "killed" => writer' = None
    PROVE  Control'
BY DEF Control, CallInProgress, CurrentField, OpenFiles, ReaderOpen, WriterOpen, Reading, Writing

\* While fields are read, those done keep what they have.
LEMMA DeliveredFrame ==
    ASSUME FieldsDelivered, UNCHANGED <<files, caller, call, left>>, pc \in Reading
    PROVE  FieldsDelivered'
<1>1. \A f : Promised(call, f)' = Promised(call, f)
  BY DEF Promised, files
<1> QED
  BY <1>1 DEF FieldsDelivered, Delivered, files, caller
----------------------------------------------------------------------------
(* One lemma per operation: the ends of a call. *)

LEMMA AbortStep == ASSUME IInv, Abort PROVE IInv'
<1>1. TypeOK'
  BY DEF IInv, TypeOK, Abort, closeFiles, files, caller, local, counts, PC, Stopped
<1>2. Control'
  BY IdleFrame DEF Abort, closeFiles, Reading, Writing
<1>3. Files' /\ FieldNames' /\ StoredFileData'
  BY FilesFrame, NamesFrame, StoredFrame DEF IInv, Reads, Abort
<1> QED
  BY <1>1, <1>2, <1>3, ReadsFrame, WritesFrame DEF IInv, Reads, Abort, Reading, Writing

LEMMA SetFieldStep ==
    ASSUME IInv, NEW g \in Grid, NEW f \in Field, NEW v \in Value, SetField(g, f, v)
    PROVE  IInv'
<1>1. TypeOK'
  BY DEF IInv, TypeOK, SetField, files, local, counts, Datum
<1>2. Control'
  BY IdleFrame DEF IInv, Control, OpenFiles, SetField, files, Reading, Writing, WriterOpen
<1>3. Files' /\ FieldNames' /\ StoredFileData'
  BY FilesFrame, StoredFrame DEF IInv, Reads, SetField, FieldNames
<1> QED
  BY <1>1, <1>2, <1>3, ReadsFrame, WritesFrame DEF IInv, Reads, SetField, Reading, Writing

LEMMA CallerClosesFilesStep == ASSUME IInv, CallerClosesFiles PROVE IInv'
<1>1. TypeOK'
  BY DEF IInv, TypeOK, CallerClosesFiles, closeFiles, files, caller, local, counts
<1>2. Control'
  BY IdleFrame DEF CallerClosesFiles, closeFiles, Reading, Writing
<1>3. Files' /\ FieldNames' /\ StoredFileData'
  BY FilesFrame, NamesFrame, StoredFrame DEF IInv, Reads, CallerClosesFiles
<1> QED
  BY <1>1, <1>2, <1>3, ReadsFrame, WritesFrame
  DEF IInv, Reads, CallerClosesFiles, Reading, Writing

LEMMA KilledStep == ASSUME IInv, Killed PROVE IInv'
<1>1. TypeOK'
  BY DEF IInv, TypeOK, Killed, files, caller, local, counts, PC, Stopped
<1>2. Control'
  BY IdleFrame DEF IInv, Control, OpenFiles, Killed, files, Reading, Writing
<1>3. Files' /\ FieldNames' /\ StoredFileData'
  BY FilesFrame, NamesFrame, StoredFrame DEF IInv, Reads, Killed
<1> QED
  BY <1>1, <1>2, <1>3, ReadsFrame, WritesFrame DEF IInv, Reads, Killed, Reading, Writing

LEMMA NewJobStep == ASSUME IInv, NewJob PROVE IInv'
<1>1. TypeOK'
  <2>1. filesData' \in [Grid -> FileData] /\ work' \in FileData
    BY EmptyTypes DEF NewJob, Return
  <2>2. fieldName' \in [Grid -> [Field -> Name]]
    BY NameTypes, NamesAssumption DEF NewJob, NamesAssumption
  <2>3. jobs' \in 0..MaxJobs
    BY BoundAssumption DEF IInv, TypeOK, NewJob
  <2> QED
    BY <2>1, <2>2, <2>3 DEF IInv, TypeOK, NewJob, Return, closeFiles, files, PC
<1>2. Control'
  BY IdleFrame DEF NewJob, Return, closeFiles, Reading, Writing
<1>3. FieldNames'
  BY NameTypes, DistinctNames DEF NewJob, FieldNames
<1>4. StoredFileData'
  BY DEF NewJob, StoredFileData, EmptyFileData
<1>5. Files'
  BY FilesFrame DEF IInv, NewJob
<1> QED
  BY <1>1, <1>2, <1>3, <1>4, <1>5, ReadsFrame, WritesFrame
  DEF IInv, Reads, NewJob, Return, Reading, Writing
----------------------------------------------------------------------------
(* Reads and initialiseFile. *)

LEMMA BeginReadStep ==
    ASSUME IInv, NEW c \in Calls, BeginRead(c)
    PROVE  IInv'
<1>1. CASE pc' = "aborted"
  <2>0. Begin(c, "aborted") /\ closeFiles /\ UNCHANGED <<filesData, work, left>>
    BY <1>1 DEF BeginRead, Begin
  <2>1. TypeOK'
    BY <2>0, BoundAssumption
    DEF IInv, TypeOK, Begin, closeFiles, files, caller, PC, Stopped
  <2>2. Control'
    BY <2>0, <1>1, IdleFrame DEF closeFiles, Reading, Writing
  <2>3. Files' /\ FieldNames' /\ StoredFileData'
    BY <2>0, FilesFrame, NamesFrame, StoredFrame DEF IInv, Reads, Begin
  <2> QED
    BY <1>1, <2>1, <2>2, <2>3, ReadsFrame, WritesFrame DEF IInv, Reads, Reading, Writing
<1>2. CASE pc' # "aborted"
  <2>0. /\ Begin(c, "next") /\ left' = c.fields
        /\ UNCHANGED <<filesData, reader, writer, work>>
        /\ c.op \in ReadOp /\ c.path # NoPath
    BY <1>2 DEF BeginRead, Begin
  <2>c. c \in Call /\ c.fields \subseteq Field /\ c.path \in Path
    BY <2>0, BoundAssumption DEF Call
  <2>1. TypeOK'
    BY <2>0, <2>c, BoundAssumption DEF IInv, TypeOK, Begin, files, caller, PC, Reading
  <2>2. Control'
    BY <2>0, <2>c
    DEF IInv, Control, CallInProgress, CurrentField, OpenFiles, Begin, files,
        ReaderOpen, WriterOpen, Reading, Writing
  <2>3. Files' /\ FieldNames' /\ StoredFileData'
    BY <2>0, FilesFrame, NamesFrame, StoredFrame DEF IInv, Reads, Begin
  <2>4. InitialiseStages' /\ ReadStages' /\ FieldsDelivered'
    BY <2>0 DEF Begin, InitialiseStages, ReadStages, FieldsDelivered
  <2> QED
    BY <2>0, <2>1, <2>2, <2>3, <2>4, WritesFrame DEF IInv, Reads, Begin, Writing
<1> QED
  BY <1>1, <1>2

LEMMA BeginInitialiseStep ==
    ASSUME IInv, NEW c \in Calls, BeginInitialise(c)
    PROVE  IInv'
<1>c. c \in Call
  BY BoundAssumption
<1>1. TypeOK'
  BY <1>c, BoundAssumption DEF IInv, TypeOK, BeginInitialise, Begin, files, caller, PC, Reading
<1>2. Control'
  BY <1>c
  DEF IInv, Control, CallInProgress, CurrentField, OpenFiles, BeginInitialise, Begin, files,
      ReadOp, ReaderOpen, WriterOpen, Reading, Writing
<1>3. Files' /\ FieldNames' /\ StoredFileData'
  BY FilesFrame, NamesFrame, StoredFrame DEF IInv, Reads, BeginInitialise, Begin
<1>4. InitialiseStages' /\ ReadStages' /\ FieldsDelivered'
  BY DEF BeginInitialise, Begin, InitialiseStages, ReadStages, FieldsDelivered, ReadOp
<1> QED
  BY <1>1, <1>2, <1>3, <1>4, WritesFrame DEF IInv, Reads, BeginInitialise, Begin, Writing

LEMMA NextFieldStep ==
    ASSUME IInv, NEW f \in Field, NextField(f)
    PROVE  IInv'
<1>1. TypeOK'
  BY DEF IInv, TypeOK, NextField, files, caller, counts, PC, Reading
<1>2. Control'
  BY DEF IInv, Control, CallInProgress, CurrentField, OpenFiles, NextField, files,
         ReaderOpen, WriterOpen, Reading, Writing
<1>3. Files' /\ FieldNames' /\ StoredFileData'
  BY FilesFrame, NamesFrame, StoredFrame DEF IInv, Reads, NextField
<1>4. InitialiseStages' /\ ReadStages'
  BY DEF NextField, InitialiseStages, ReadStages
<1>5. FieldsDelivered'
  BY DeliveredFrame DEF IInv, Reads, NextField, Reading
<1> QED
  BY <1>1, <1>2, <1>3, <1>4, <1>5, WritesFrame DEF IInv, Reads, NextField, Writing

LEMMA InitOpenStep == ASSUME IInv, InitOpen PROVE IInv'
<1>c. call \in Call /\ call.grid \in Grid /\ call.path \in Path
  BY CallTypes DEF IInv, Control, InitOpen, Reading
<1>1. TypeOK'
  BY <1>c, EmptyTypes
  DEF IInv, TypeOK, InitOpen, createFileData, files, caller, local, counts, PC, Reading
<1>2. Control'
  BY <1>c, NamesAssumption
  DEF IInv, Control, CallInProgress, CurrentField, OpenFiles, InitOpen, files, local,
         NamesAssumption, ReaderOpen, WriterOpen, Reading, Writing
<1>3. Files' /\ FieldNames'
  BY FilesFrame, NamesFrame DEF IInv, InitOpen
<1>4. StoredFileData'
  BY <1>c DEF IInv, TypeOK, Reads, StoredFileData, InitOpen, createFileData, EmptyFileData
<1>5. InitialiseStages' /\ ReadStages'
  BY <1>c DEF IInv, TypeOK, InitOpen, createFileData, InitialiseStages, ReadStages, local
<1>6. FieldsDelivered'
  BY DeliveredFrame DEF IInv, Reads, InitOpen, local, Reading
<1> QED
  BY <1>1, <1>2, <1>3, <1>4, <1>5, <1>6, WritesFrame DEF IInv, Reads, InitOpen, Writing

LEMMA OpenFailsStep == ASSUME IInv, OpenFails PROVE IInv'
<1>c. call \in Call /\ call.grid \in Grid
  BY CallTypes DEF IInv, Control, OpenFails, Reading
<1>1. TypeOK'
  BY <1>c, EmptyTypes
  DEF IInv, TypeOK, OpenFails, createFileData, files, caller, local, counts, PC, Stopped
<1>2. Control'
  BY IdleFrame DEF IInv, Control, OpenFiles, OpenFails, files, WriterOpen, Reading, Writing
<1>3. Files' /\ FieldNames'
  BY FilesFrame, NamesFrame DEF IInv, OpenFails
<1>4. StoredFileData'
  BY <1>c DEF IInv, TypeOK, Reads, StoredFileData, OpenFails, createFileData, EmptyFileData
<1> QED
  BY <1>1, <1>2, <1>3, <1>4, ReadsFrame, WritesFrame
  DEF IInv, Reads, OpenFails, Reading, Writing

LEMMA OpenNothingStep == ASSUME IInv, OpenNothing PROVE IInv'
<1>c. call \in Call /\ call.grid \in Grid
  BY CallTypes DEF IInv, Control, OpenNothing, Reading
<1>1. TypeOK'
  BY <1>c, EmptyTypes
  DEF IInv, TypeOK, OpenNothing, createFileData, files, caller, local, counts, PC, Reading, Stopped
<1>2. Control'
  BY DEF IInv, Control, CallInProgress, CurrentField, OpenFiles, OpenNothing, files, local,
         ReaderOpen, WriterOpen, Reading, Writing
<1>3. Files' /\ FieldNames'
  BY FilesFrame, NamesFrame DEF IInv, OpenNothing
<1>4. StoredFileData'
  BY <1>c DEF IInv, TypeOK, Reads, StoredFileData, OpenNothing, createFileData, EmptyFileData
<1>5. InitialiseStages' /\ ReadStages'
  BY <1>c DEF IInv, TypeOK, OpenNothing, createFileData, InitialiseStages, ReadStages, local
<1>6. FieldsDelivered'
  BY DeliveredFrame DEF IInv, Reads, OpenNothing, local, Reading
<1> QED
  BY <1>1, <1>2, <1>3, <1>4, <1>5, <1>6, WritesFrame DEF IInv, Reads, OpenNothing, Writing

\* The file that the Reader has open.
LEMMA ReaderFile ==
    ASSUME TypeOK, Control, Files, pc \in ReaderOpen
    PROVE  /\ call \in Call /\ call.grid \in Grid
           /\ reader \in Path /\ disk[reader] \in File /\ WellFormed(disk[reader])
           /\ call.op \in ReadOp => call.path = reader
<1>1. pc \in Reading
  BY DEF ReaderOpen
<1>2. call \in Call /\ call.grid \in Grid
  BY <1>1, CallTypes DEF Control
<1>3. call.op \in ReadOp => call.path \in Path
  BY <1>1, CallTypes DEF Control, ReadOp
<1> QED
  BY <1>2, <1>3 DEF TypeOK, Control, OpenFiles, Files, FilesWellFormed

LEMMA InitMetadataStep == ASSUME IInv, InitMetadata PROVE IInv'
<1>c. call.grid \in Grid /\ disk[reader] \in File
  BY ReaderFile DEF IInv, InitMetadata, ReaderOpen, Reading
<1>1. TypeOK'
  <2>1. readMetadata(filesData[call.grid], disk[reader]) \in FileData
    BY <1>c, ReadMetadataType DEF IInv, TypeOK
  <2> QED
    BY <2>1 DEF IInv, TypeOK, InitMetadata, files, caller, local, counts, PC, Reading
<1>2. Control'
  BY DEF IInv, Control, CallInProgress, CurrentField, OpenFiles, InitMetadata, files, local,
         ReaderOpen, WriterOpen, Reading, Writing
<1>3. Files' /\ FieldNames'
  BY FilesFrame, NamesFrame DEF IInv, InitMetadata
<1>4. filesData'[call.grid] = FromMetadata(disk[reader])
  <2>1. filesData[call.grid] = EmptyFileData
    BY DEF IInv, Reads, InitialiseStages, InitMetadata
  <2>2. readMetadata(EmptyFileData, disk[reader]) = FromMetadata(disk[reader])
    BY <1>c DEF readMetadata, FromMetadata, EmptyFileData, File
  <2> QED
    BY <1>c, <2>1, <2>2 DEF IInv, TypeOK, InitMetadata
<1>5. StoredFileData'
  BY <1>c, <1>4
  DEF IInv, TypeOK, Reads, StoredFileData, InitMetadata, FromMetadata, EmptyFileData
<1>6. InitialiseStages' /\ ReadStages'
  BY <1>4 DEF InitMetadata, InitialiseStages, ReadStages, files, local
<1>7. FieldsDelivered'
  BY DeliveredFrame DEF IInv, Reads, InitMetadata, local, Reading
<1> QED
  BY <1>1, <1>2, <1>3, <1>5, <1>6, <1>7, WritesFrame DEF IInv, Reads, InitMetadata, Writing

LEMMA InitGeometryStep == ASSUME IInv, InitGeometry PROVE IInv'
<1>1. CASE filesData[call.grid].geom = None
  BY <1>1, AbortStep DEF InitGeometry
<1>2. CASE filesData[call.grid].geom # None
  <2> DEFINE fd == filesData[call.grid]
             file == disk[reader]
  <2>c. call.grid \in Grid /\ file \in File
    BY ReaderFile DEF IInv, InitGeometry, ReaderOpen, Reading
  <2>0. filesData' = [filesData EXCEPT ![call.grid].mesh = file.mesh]
    BY <1>2, <2>c
    DEF IInv, Reads, InitialiseStages, InitGeometry, FromMetadata, EmptyFileData
  <2>1. TypeOK'
    <3>1. [fd EXCEPT !.mesh = file.mesh] \in FileData
      BY <2>c DEF IInv, TypeOK, FileData, File
    <3> QED
      BY <1>2, <2>0, <2>c, <3>1
      DEF IInv, TypeOK, InitGeometry, files, caller, local, counts, PC, Reading
  <2>2. Control'
    BY <1>2 DEF IInv, Control, CallInProgress, CurrentField, OpenFiles, InitGeometry, files,
                local, ReaderOpen, WriterOpen, Reading, Writing
  <2>3. Files' /\ FieldNames'
    BY <1>2, FilesFrame, NamesFrame DEF IInv, InitGeometry
  <2>4. filesData'[call.grid] = FromGeometry(file)
    BY <1>2, <2>0, <2>c DEF IInv, TypeOK, Reads, InitialiseStages, InitGeometry, FromGeometry
  <2>5. StoredFileData'
    BY <2>c, <2>0, <2>4
    DEF IInv, TypeOK, Reads, StoredFileData, FromGeometry, FromMetadata, EmptyFileData
  <2>6. InitialiseStages' /\ ReadStages'
    BY <1>2, <2>4 DEF InitGeometry, InitialiseStages, ReadStages, files, local
  <2>7. FieldsDelivered'
    BY <1>2, DeliveredFrame DEF IInv, Reads, InitGeometry, local, Reading
  <2> QED
    BY <1>2, <2>1, <2>2, <2>3, <2>5, <2>6, <2>7, WritesFrame
    DEF IInv, Reads, InitGeometry, Writing
<1> QED
  BY <1>1, <1>2

LEMMA createLfricAtlasMapStep == ASSUME IInv, createLfricAtlasMap PROVE IInv'
<1>1. CASE ~ GridFits(filesData[call.grid], call.grid)
  BY <1>1, AbortStep DEF createLfricAtlasMap
<1>2. CASE GridFits(filesData[call.grid], call.grid)
  <2> DEFINE fd == filesData[call.grid]
             file == disk[reader]
  <2>c. call.grid \in Grid /\ file \in File /\ WellFormed(file)
    BY ReaderFile DEF IInv, createLfricAtlasMap, ReaderOpen, Reading
  <2>0. /\ fd = FromGeometry(file)
        /\ fd.geom = file.geom /\ fd.mesh = file.mesh /\ fd.map = None
        /\ file.geom = call.grid
    BY <1>2 DEF IInv, Reads, InitialiseStages, createLfricAtlasMap, GridFits,
                FromGeometry, FromMetadata, EmptyFileData
  <2>m. filesData' = [filesData EXCEPT ![call.grid].map = file.mesh]
    BY <1>2, <2>0 DEF createLfricAtlasMap
  <2>1. TypeOK'
    <3>1. [fd EXCEPT !.map = file.mesh] \in FileData
      BY <2>c DEF IInv, TypeOK, FileData, File
    <3> QED
      BY <1>2, <2>m, <2>c, <3>1
      DEF IInv, TypeOK, createLfricAtlasMap, files, caller, local, counts, PC, Reading
  <2>2. Control'
    BY <1>2 DEF IInv, Control, CallInProgress, CurrentField, OpenFiles, createLfricAtlasMap,
                files, local, ReaderOpen, WriterOpen, Reading, Writing
  <2>3. Files' /\ FieldNames'
    BY <1>2, FilesFrame, NamesFrame DEF IInv, createLfricAtlasMap
  <2>4. filesData'[call.grid] = FromMap(file)
    BY <2>0, <2>m, <2>c DEF IInv, TypeOK, FromMap
  <2>5. StoredFileData'
    BY <2>c, <2>0, <2>m DEF IInv, TypeOK, Reads, StoredFileData, WellFormed
  <2>6. InitialiseStages' /\ ReadStages'
    BY <1>2, <2>0, <2>4 DEF createLfricAtlasMap, InitialiseStages, ReadStages, files, local
  <2>7. FieldsDelivered'
    BY <1>2, DeliveredFrame DEF IInv, Reads, createLfricAtlasMap, local, Reading
  <2> QED
    BY <1>2, <2>1, <2>2, <2>3, <2>5, <2>6, <2>7, WritesFrame
    DEF IInv, Reads, createLfricAtlasMap, Writing
<1> QED
  BY <1>1, <1>2

\* The end of initialiseFile, of a read and of a write: no part of the call stays.
LEMMA ReturnTypes ==
    ASSUME Return
    PROVE  /\ pc' \in PC /\ call' \in Call \cup {None} /\ work' \in FileData
           /\ cur' \in Field \cup {None} /\ left' \in SUBSET Field
BY EmptyTypes DEF Return, PC

LEMMA createDateTimesStep == ASSUME IInv, createDateTimes PROVE IInv'
<1> DEFINE file == disk[reader]
           fd == [filesData[call.grid] EXCEPT
                    !.times = IF WithTimes(call) /\ @ = <<>> THEN file.times ELSE @]
<1>c. /\ call.grid \in Grid /\ call \in Call /\ file \in File
      /\ call.op \in ReadOp => reader = call.path
  BY ReaderFile DEF IInv, createDateTimes, ReaderOpen, Reading
<1>1. CASE WithTimes(call) /\ disk[reader].times = <<>>
  BY <1>1, AbortStep DEF createDateTimes
<1>2. CASE ~ (WithTimes(call) /\ disk[reader].times = <<>>)
  <2>0. /\ filesData' = [filesData EXCEPT ![call.grid] = fd]
        /\ UNCHANGED <<files, caller, reader, writer, counts>>
        /\ IF call.op = "initialiseFile"
           THEN Return
           ELSE work' = fd /\ pc' = "datum" /\ UNCHANGED <<call, cur, left>>
    BY <1>2, <1>c DEF createDateTimes
  <2>1. filesData[call.grid] = FromMap(file) /\ filesData[call.grid].times = <<>>
    BY DEF IInv, Reads, InitialiseStages, createDateTimes, FromMap, FromGeometry, FromMetadata,
           EmptyFileData
  <2>2. fd \in FileData
    BY <1>c DEF IInv, TypeOK, FileData, File
  <2>3. /\ fd.data = filesData[call.grid].data /\ fd.geom = filesData[call.grid].geom
        /\ fd.mesh = filesData[call.grid].mesh /\ fd.map = filesData[call.grid].map
    BY <1>c DEF IInv, TypeOK, FileData
  <2>4. Files' /\ FieldNames'
    BY <2>0, FilesFrame, NamesFrame DEF IInv
  <2>5. StoredFileData'
    <3> HIDE DEF fd
    <3> QED
      BY <1>c, <2>0, <2>3 DEF IInv, TypeOK, Reads, StoredFileData
  <2>6. TypeOK'
    <3> HIDE DEF fd
    <3>1. filesData' \in [Grid -> FileData]
      BY <1>c, <2>0, <2>2 DEF IInv, TypeOK
    <3>2. CASE call.op = "initialiseFile"
      BY <2>0, <3>1, <3>2, ReturnTypes DEF IInv, TypeOK, files, caller, counts
    <3>3. CASE call.op # "initialiseFile"
      BY <2>0, <2>2, <3>1, <3>3 DEF IInv, TypeOK, files, caller, counts, PC, Reading
    <3> QED
      BY <3>2, <3>3
  <2>7. CASE call.op = "initialiseFile"
    <3>1. pc' = "idle"
      BY <2>0, <2>7 DEF Return
    <3>2. Control'
      BY <2>0, <3>1, IdleFrame
      DEF IInv, Control, OpenFiles, createDateTimes, files, WriterOpen, Reading, Writing
    <3> QED
      BY <2>4, <2>5, <2>6, <3>1, <3>2, ReadsFrame, WritesFrame DEF IInv, Reads, Reading, Writing
  <2>8. CASE call.op # "initialiseFile"
    <3>0. work' = fd /\ pc' = "datum" /\ UNCHANGED <<call, cur, left>>
      BY <2>0, <2>8
    <3>1. Control'
      BY <2>0, <2>8, <3>0
      DEF IInv, Control, CallInProgress, CurrentField, OpenFiles, createDateTimes, files,
          ReadOp, ReaderOpen, WriterOpen, Reading, Writing
    <3>2. InitialiseStages'
      BY <3>0 DEF InitialiseStages
    <3>3. ReadStages'
      <4>1. call.op \in ReadOp
        BY <2>8 DEF IInv, Control, CallInProgress, createDateTimes, Reading
      <4>2. fd.times = IF call.op = "readState" THEN file.times ELSE <<>>
        BY <1>c, <2>1, <4>1 DEF IInv, TypeOK, FileData, WithTimes, ReadOp
      <4>3. \A x \in {"geom", "vars", "timed", "conv", "mesh", "map"} : fd[x] = FromMap(file)[x]
        BY <2>1 DEF FromMap, FromGeometry, FromMetadata, EmptyFileData
      <4>4. fd.data = NoData
        BY <1>c, <2>3 DEF IInv, Reads, StoredFileData
      <4> HIDE DEF fd
      <4> QED
        BY <1>c, <2>0, <3>0, <4>1, <4>2, <4>3, <4>4 DEF ReadStages, files
    <3>4. FieldsDelivered'
      BY <2>0, <3>0, DeliveredFrame DEF IInv, Reads, createDateTimes, Reading
    <3> QED
      BY <2>4, <2>5, <2>6, <3>0, <3>1, <3>2, <3>3, <3>4, WritesFrame DEF IInv, Reads, Writing
  <2> QED
    BY <2>7, <2>8
<1> QED
  BY <1>1, <1>2

\* A field whose name stands for no variable is owed nothing.
LEMMA SkipDatumStep == ASSUME IInv, SkipDatum PROVE IInv'
<1>c. /\ call \in Call /\ call.grid \in Grid /\ call.path \in Path
      /\ call.fields \subseteq Field /\ call.op \in ReadOp
      /\ cur \in left /\ left \subseteq call.fields
  BY CallTypes DEF IInv, Control, CallInProgress, CurrentField, SkipDatum, ReadOp, Reading
<1>1. TypeOK'
  BY DEF IInv, TypeOK, SkipDatum, files, caller, counts, PC, Reading
<1>2. Control'
  BY DEF IInv, Control, CallInProgress, CurrentField, OpenFiles, SkipDatum, files,
         ReaderOpen, WriterOpen, Reading, Writing
<1>3. Files' /\ FieldNames' /\ StoredFileData'
  BY FilesFrame, NamesFrame, StoredFrame DEF IInv, Reads, SkipDatum
<1>4. InitialiseStages' /\ ReadStages'
  BY DEF SkipDatum, InitialiseStages, ReadStages
<1>5. FieldsDelivered'
  <2>1. lfricReadName[cur] \in Missing
    BY <1>c, DistinctNames DEF SkipDatum, readName
  <2>2. \A f : Promised(call, f)' = Promised(call, f)
    BY DEF SkipDatum, Promised, files
  <2> QED
    BY <1>c, <2>1, <2>2
    DEF IInv, Reads, FieldsDelivered, Delivered, SkipDatum, Reading, files, caller
<1> QED
  BY <1>1, <1>2, <1>3, <1>4, <1>5, WritesFrame DEF IInv, Reads, SkipDatum, Writing

\* The time step, and so the datum, depends on no more of the FileData than this.
LEMMA SameTimeSteps ==
    ASSUME NEW fd, NEW gd, fd.times = gd.times, NEW date
    PROVE  /\ TimeSteps(fd, date) = TimeSteps(gd, date)
           /\ findTimeStep(fd, date) = findTimeStep(gd, date)
BY DEF TimeSteps, findTimeStep

LEMMA SameDatum ==
    ASSUME NEW c, NEW fd, NEW gd, fd.times = gd.times, fd.timed = gd.timed, NEW file, NEW n
    PROVE  readDatum(c, fd, file, n) = readDatum(c, gd, file, n)
BY SameTimeSteps DEF readDatum

\* What a read finds in a whole file, by way of the file's own FileData.
LEMMA ReadDatumFinds ==
    ASSUME NEW c, c.op \in ReadOp, NEW file \in File, WellFormed(file), NEW fd \in FileData,
           fd.timed = file.timed, NEW n \in VarsOf(file),
           c.op = "readState" => fd.times = file.times /\ TimeSteps(fd, c.date) # {}
    PROVE  /\ c.op = "readState" /\ n \in file.timed =>
                 \E i \in 1..Len(file.times) :
                    /\ file.times[i] = c.date /\ i \in 1..Len(file.data[n])
                    /\ readDatum(c, fd, file, n) = file.data[n][i]
           /\ c.op # "readState" => readDatum(c, fd, file, n) = file.data[n][1]
           /\ readDatum(c, fd, file, n) \in Datum
<1>0. file.data[n] \in Seq(Datum) /\ file.data[n] # <<>> /\ Garbage \in Datum
  BY DEF File, Contents, VarsOf, Datum
<1>1. ASSUME c.op = "readState", n \in file.timed
      PROVE  \E i \in 1..Len(file.times) :
                /\ file.times[i] = c.date /\ i \in 1..Len(file.data[n])
                /\ readDatum(c, fd, file, n) = file.data[n][i]
  <2>1. findTimeStep(fd, c.date) \in TimeSteps(fd, c.date)
    BY <1>1, FindTimeStepType DEF FileData
  <2>2. Len(file.data[n]) = Len(file.times)
    BY <1>1 DEF WellFormed
  <2>3. readDatum(c, fd, file, n) = file.data[n][findTimeStep(fd, c.date)]
    BY <1>1 DEF readDatum
  <2> QED
    BY <1>1, <2>1, <2>2, <2>3 DEF TimeSteps
<1>2. c.op = "readState" /\ n \notin file.timed => readDatum(c, fd, file, n) = Garbage
  BY DEF readDatum
<1>3. c.op # "readState" => readDatum(c, fd, file, n) = file.data[n][1]
  BY DEF readDatum
<1>4. readDatum(c, fd, file, n) \in Datum
  <2>1. CASE c.op = "readState" /\ n \in file.timed
    BY <1>0, <1>1, <2>1
  <2>2. CASE c.op = "readState" /\ n \notin file.timed
    BY <1>0, <1>2, <2>2
  <2>3. CASE c.op # "readState"
    BY <1>0, <1>3, <2>3
  <2> QED
    BY <2>1, <2>2, <2>3
<1> QED
  BY <1>1, <1>3, <1>4

LEMMA ReadDatumStep == ASSUME IInv, ReadDatum PROVE IInv'
<1> DEFINE n == readName(call, work, cur)
           file == disk[call.path]
<1>c. /\ call \in Call /\ call.grid \in Grid /\ call.path \in Path
      /\ call.op \in ReadOp /\ cur \in Field
      /\ reader = call.path /\ file \in File /\ WellFormed(file)
  <2>1. call.op \in ReadOp /\ cur \in left
    BY DEF IInv, Control, CallInProgress, CurrentField, ReadDatum, ReadOp, Reading
  <2> QED
    BY <2>1, ReaderFile DEF IInv, TypeOK, ReadDatum, ReaderOpen, Reading
<1>1. CASE \/ call.op = "readState" /\ TimeSteps(work, call.date) = {}
           \/ n \notin work.vars
  BY <1>1, AbortStep DEF ReadDatum
<1>2. CASE ~ (\/ call.op = "readState" /\ TimeSteps(work, call.date) = {}
              \/ n \notin work.vars)
  <2> DEFINE d == readDatum(call, work, file, n)
             wd == [work EXCEPT !.data[n] = <<d>>]
  <2>n. n \in Name
    BY <1>c, ReadNameType
  <2>w. /\ work \in FileData /\ work.data = NoData /\ work.timed = file.timed
        /\ work.vars = VarsOf(file)
        /\ call.op = "readState" => work.times = file.times
    BY DEF IInv, TypeOK, Reads, ReadStages, ReadDatum, FromMap, FromGeometry, FromMetadata,
           EmptyFileData
  <2>d. d \in Datum
    BY <1>2, <1>c, <2>w, ReadDatumFinds
  <2>0. /\ work' = wd /\ pc' = "populate"
        /\ UNCHANGED <<files, caller, filesData, reader, writer, call, cur, left, counts>>
    <3>1. work.data[n] = <<>>
      BY <2>n, <2>w DEF NoData
    <3> QED
      BY <1>2, <1>c, <3>1 DEF ReadDatum
  <2>t. /\ wd \in FileData /\ wd.data[n] = <<d>>
        /\ \A x \in {"geom", "vars", "timed", "conv", "mesh", "map", "times"} : wd[x] = work[x]
    <3>1. <<d>> \in Seq(Datum)
      BY <2>d
    <3> HIDE DEF d, n
    <3> QED
      BY <2>n, <2>w, <3>1 DEF FileData, Contents
  <2>1. TypeOK'
    <3> HIDE DEF wd
    <3> QED
      BY <2>0, <2>t DEF IInv, TypeOK, files, caller, counts, PC, Reading
  <2>2. Control'
    <3> HIDE DEF wd
    <3> QED
      BY <2>0 DEF IInv, Control, CallInProgress, CurrentField, OpenFiles, ReadDatum, files,
                  ReaderOpen, WriterOpen, Reading, Writing
  <2>3. Files' /\ FieldNames' /\ StoredFileData'
    BY <2>0, FilesFrame, NamesFrame, StoredFrame DEF IInv, Reads
  <2>4. InitialiseStages'
    BY <2>0 DEF InitialiseStages
  <2>5. ReadStages'
    <3> HIDE DEF wd
    <3>1. readName(call, wd, cur) = n
      BY <2>t DEF readName, getVariableConvention
    <3>2. TimeSteps(wd, call.date) = TimeSteps(work, call.date)
      BY <2>t, SameTimeSteps
    <3>3. readDatum(call, wd, file, n) = d
      BY <2>t, SameDatum
    <3>4. ReadStages
      BY DEF IInv, Reads
    <3>5. call.op = "readState" => n \notin Missing
      BY DEF ReadDatum
    <3> HIDE DEF n, d
    <3>6. \A x \in {"geom", "vars", "timed", "conv", "mesh", "map"} : wd[x] = FromMap(file)[x]
      BY <2>t, <3>4 DEF ReadStages, ReadDatum
    <3>7. wd.times = IF call.op = "readState" THEN file.times ELSE <<>>
      BY <2>t, <3>4 DEF ReadStages, ReadDatum
    <3>8. work' = wd /\ pc' = "populate" /\ call' = call /\ cur' = cur /\ disk' = disk
      BY <2>0 DEF files
    <3>9. n \in wd.vars /\ wd.data[n] = <<d>>
      BY <1>2, <2>t DEF n
    <3> QED
      BY <1>2, <3>1, <3>2, <3>3, <3>5, <3>6, <3>7, <3>8, <3>9 DEF ReadStages
  <2>6. FieldsDelivered'
    BY <2>0, DeliveredFrame DEF IInv, Reads, ReadDatum, Reading
  <2> QED
    BY <2>0, <2>1, <2>2, <2>3, <2>4, <2>5, <2>6, WritesFrame DEF IInv, Reads, Writing
<1> QED
  BY <1>1, <1>2

\* The datum in hand is the one that the finished file promises for the field.
LEMMA PopulateDelivers ==
    ASSUME IInv, pc = "populate", promise[call.path] # None
    PROVE  LET n == readName(call, work, cur)
           IN  /\ work.map # Garbage
               /\ Promised(call, cur) # {} => work.data[n][1] \in Promised(call, cur)
<1> DEFINE n == readName(call, work, cur)
           file == disk[call.path]
<1>c. /\ call.grid \in Grid /\ call.path \in Path /\ call.op \in ReadOp
      /\ file \in File /\ WellFormed(file)
  BY ReaderFile DEF IInv, Control, CallInProgress, ReaderOpen, Reading
<1>1. file = promise[call.path]
  BY <1>c DEF IInv, Files, PromiseKept
<1>2. /\ work \in FileData /\ work.vars = VarsOf(file) /\ work.timed = file.timed
      /\ work.conv = file.conv /\ work.map = file.mesh
      /\ call.op = "readState" => work.times = file.times /\ TimeSteps(work, call.date) # {}
      /\ n \in VarsOf(file)
      /\ work.data[n] = <<readDatum(call, work, file, n)>>
  BY DEF IInv, TypeOK, Reads, ReadStages, FromMap, FromGeometry, FromMetadata, EmptyFileData
<1>3. work.map # Garbage
  BY <1>c, <1>1, <1>2, NamesAssumption DEF IInv, Files, PromisedMesh, File, NamesAssumption
<1>4. n = IF file.conv = JEDI THEN jediName[cur] ELSE lfricReadName[cur]
  BY <1>2, NamesAssumption DEF readName, getVariableConvention, Convention, JEDI, LFRIC
<1>5. Promised(call, cur) =
        IF call.op = "readState"
        THEN {file.data[n][i] : i \in {j \in 1..Len(file.times) :
                                         file.times[j] = call.date /\ n \in file.timed}}
        ELSE {file.data[n][1]}
  <2> HIDE DEF n, file
  <2> QED
    BY <1>1, <1>4 DEF Promised
<1>6. Promised(call, cur) # {} => readDatum(call, work, file, n) \in Promised(call, cur)
  <2> HIDE DEF n, file
  <2>1. CASE call.op = "readState" /\ n \in file.timed
    <3>1. PICK i \in 1..Len(file.times) :
            /\ file.times[i] = call.date
            /\ readDatum(call, work, file, n) = file.data[n][i]
      BY <1>c, <1>2, <2>1, ReadDatumFinds
    <3> QED
      BY <1>5, <2>1, <3>1
  <2>2. CASE call.op = "readState" /\ n \notin file.timed
    BY <1>5, <2>2
  <2>3. CASE call.op # "readState"
    BY <1>c, <1>2, <1>5, <2>3, ReadDatumFinds
  <2> QED
    BY <2>1, <2>2, <2>3
<1> QED
  BY <1>2, <1>3, <1>6

LEMMA PopulateFieldStep == ASSUME IInv, PopulateField PROVE IInv'
<1> DEFINE n == readName(call, work, cur)
           v == IF work.map = Garbage THEN Garbage ELSE work.data[n][1]
           file == disk[call.path]
<1>c. /\ call \in Call /\ call.grid \in Grid /\ call.path \in Path
      /\ call.fields \subseteq Field /\ call.op \in ReadOp
      /\ cur \in left /\ cur \in Field /\ left \subseteq call.fields
  BY CallTypes DEF IInv, TypeOK, Control, CallInProgress, CurrentField, PopulateField, ReadOp,
                   Reading
<1>n. None \notin Field
  BY NamesAssumption DEF NamesAssumption
<1>0. /\ fieldVal' = IF getReadField(cur) = None THEN fieldVal
                     ELSE [fieldVal EXCEPT ![call.grid][cur] = v]
      /\ getReadField(cur) # None => getReadField(cur) = cur
      /\ left' = left \ {cur} /\ pc' = "next"
      /\ UNCHANGED <<files, fieldName, filesData, reader, writer, call, work, cur, counts>>
  BY DEF PopulateField, getReadField
<1>1. TypeOK'
  <2>1. v \in Datum
    <3>1. n \in Name
      BY <1>c, ReadNameType
    <3>2. work.data[n] = <<readDatum(call, work, file, n)>>
      BY DEF IInv, Reads, ReadStages, PopulateField
    <3>3. work.data[n] \in Seq(Datum)
      BY <3>1 DEF IInv, TypeOK, FileData, Contents
    <3> QED
      BY <3>2, <3>3 DEF Datum
  <2> HIDE DEF v
  <2>2. fieldVal' \in [Grid -> [Field -> Datum]]
    BY <1>c, <1>0, <2>1 DEF IInv, TypeOK
  <2> QED
    BY <1>0, <2>2 DEF IInv, TypeOK, files, counts, PC, Reading
<1>2. Control'
  BY <1>c, <1>0 DEF IInv, Control, CallInProgress, CurrentField, OpenFiles, PopulateField,
                    files, ReaderOpen, WriterOpen, Reading, Writing
<1>3. Files' /\ StoredFileData' /\ FieldNames'
  BY <1>0, FilesFrame, StoredFrame DEF IInv, Reads, FieldNames
<1>4. InitialiseStages' /\ ReadStages'
  BY <1>0 DEF InitialiseStages, ReadStages
<1>5. FieldsDelivered'
  <2>1. \A f : Promised(call, f)' = Promised(call, f)
    BY <1>0 DEF Promised, files
  <2>2. SUFFICES ASSUME promise[call.path] # None, NEW f \in call.fields \ (left \ {cur})
                 PROVE  Delivered(f)'
    BY <1>0 DEF FieldsDelivered, files
  <2>3. CASE f = cur
    <3>1. getReadField(cur) # None /\ Promised(call, cur) # {} => v \in Promised(call, cur)
      BY <2>2, PopulateDelivers DEF PopulateField
    <3> HIDE DEF v
    <3>2. getReadField(cur) # None => fieldVal'[call.grid][cur] = v
      BY <1>c, <1>0 DEF IInv, TypeOK
    <3> QED
      BY <1>0, <2>1, <2>3, <3>1, <3>2 DEF Delivered
  <2>4. CASE f # cur
    <3>1. Delivered(f)
      BY <1>c, <2>2, <2>4 DEF IInv, Reads, FieldsDelivered, PopulateField, Reading
    <3> HIDE DEF v
    <3>2. f \in Field => fieldVal'[call.grid][f] = fieldVal[call.grid][f]
      BY <1>c, <1>0, <2>4 DEF IInv, TypeOK
    <3> QED
      BY <1>c, <1>0, <2>1, <2>2, <3>1, <3>2 DEF Delivered
  <2> QED
    BY <2>3, <2>4
<1> QED
  BY <1>0, <1>1, <1>2, <1>3, <1>4, <1>5, WritesFrame DEF IInv, Reads, Writing

LEMMA ReadReturnStep == ASSUME IInv, ReadReturn PROVE IInv'
<1>1. TypeOK'
  BY ReturnTypes DEF IInv, TypeOK, ReadReturn, files, caller, counts
<1>2. Control'
  BY IdleFrame DEF IInv, Control, OpenFiles, ReadReturn, Return, files, WriterOpen,
                   Reading, Writing
<1>3. Files' /\ FieldNames' /\ StoredFileData'
  BY FilesFrame, NamesFrame, StoredFrame DEF IInv, Reads, ReadReturn
<1> QED
  BY <1>1, <1>2, <1>3, ReadsFrame, WritesFrame
  DEF IInv, Reads, ReadReturn, Return, Reading, Writing

LEMMA NcExceptionInReadStep == ASSUME IInv, NcExceptionInRead PROVE IInv'
<1>1. CASE call.op # "initialiseFile"
  BY <1>1, AbortStep DEF NcExceptionInRead
<1>2. CASE call.op = "initialiseFile"
  <2>1. TypeOK'
    BY <1>2, ReturnTypes DEF IInv, TypeOK, NcExceptionInRead, files, caller, counts
  <2>2. Control'
    BY <1>2, IdleFrame DEF IInv, Control, OpenFiles, NcExceptionInRead, Return, files,
                           WriterOpen, Reading, Writing
  <2>3. Files' /\ FieldNames' /\ StoredFileData'
    BY <1>2, FilesFrame, NamesFrame, StoredFrame DEF IInv, Reads, NcExceptionInRead
  <2> QED
    BY <1>2, <2>1, <2>2, <2>3, ReadsFrame, WritesFrame
    DEF IInv, Reads, NcExceptionInRead, Return, Reading, Writing
<1> QED
  BY <1>1, <1>2
----------------------------------------------------------------------------
(* Writes. *)

LEMMA BeginWriteStep ==
    ASSUME IInv, NEW c \in Calls, BeginWrite(c)
    PROVE  IInv'
<1>c. /\ c \in Call /\ c.fields \subseteq Field /\ c.grid \in Grid /\ c.op \in WriteOp
      /\ c.path \in Path \cup {NoPath}
  BY BoundAssumption DEF Call, BeginWrite
<1>1. CASE c.fields = {}
  <2>0. Begin(c, "aborted") /\ closeFiles /\ UNCHANGED <<filesData, work, left>>
    BY <1>1 DEF BeginWrite
  <2>1. TypeOK'
    BY <2>0, <1>c, BoundAssumption
    DEF IInv, TypeOK, Begin, closeFiles, files, caller, PC, Stopped
  <2>2. Control'
    BY <2>0, IdleFrame DEF Begin, closeFiles, Reading, Writing
  <2>3. Files' /\ FieldNames' /\ StoredFileData'
    BY <2>0, FilesFrame, NamesFrame, StoredFrame DEF IInv, Reads, Begin
  <2> QED
    BY <2>0, <2>1, <2>2, <2>3, ReadsFrame, WritesFrame
    DEF IInv, Reads, Begin, Reading, Writing
<1>2. CASE c.fields # {}
  <2>0. /\ Begin(c, "create") /\ left' = c.fields /\ c.path \in Path
        /\ UNCHANGED <<reader, writer>>
        /\ IF c.op = "writeFieldSet"
           THEN work' = EmptyFileData /\ UNCHANGED filesData
           ELSE /\ work' = cleanFileData(filesData[c.grid])
                /\ filesData' = [filesData EXCEPT ![c.grid] = SharedAfterClean(@)]
    BY <1>2, <1>c DEF BeginWrite, HasPath
  <2>1. TypeOK'
    <3>1. filesData' \in [Grid -> FileData] /\ work' \in FileData
      BY <2>0, <1>c, EmptyTypes, CleanTypes DEF IInv, TypeOK
    <3> QED
      BY <2>0, <1>c, <3>1, BoundAssumption DEF IInv, TypeOK, Begin, files, caller, PC, Writing
  <2>2. Control'
    BY <2>0, <1>c, <1>2
    DEF IInv, Control, CallInProgress, CurrentField, OpenFiles, Begin, files,
        ReaderOpen, WriterOpen, Reading, Writing
  <2>3. Files' /\ FieldNames'
    BY <2>0, FilesFrame, NamesFrame DEF IInv, Begin
  <2>4. StoredFileData'
    <3>1. \A g \in Grid :
            /\ filesData'[g].data = filesData[g].data /\ filesData'[g].map = filesData[g].map
            /\ filesData'[g].geom = filesData[g].geom /\ filesData'[g].mesh = filesData[g].mesh
      <4>1. CASE c.op = "writeFieldSet"
        BY <2>0, <4>1
      <4>2. CASE c.op # "writeFieldSet"
        <5>1. filesData' = [filesData EXCEPT ![c.grid] = [@ EXCEPT !.timed = {}]]
          BY <2>0, <4>2 DEF SharedAfterClean
        <5> QED
          BY <5>1, <1>c DEF IInv, TypeOK, FileData
      <4> QED
        BY <4>1, <4>2
    <3> QED
      BY <3>1 DEF IInv, Reads, StoredFileData
  <2>5. /\ call' = c /\ pc' = "create" /\ Done' = {} /\ InHand' = {} /\ Named' = {}
    BY <2>0 DEF Begin, Done, InHand, Named
  <2>6. WriteFileData'
    <3>1. /\ work'.timed = {} /\ work'.vars = {} /\ work'.conv = None /\ work'.data = NoData
          /\ c.op = "writeFieldSet" => work'.map = None /\ work'.geom = None /\ work'.mesh = None
          /\ work'.map # None => /\ work'.geom = c.grid
                                 /\ work'.map \in {c.grid, Garbage}
                                 /\ work'.mesh = work'.map
      <4>1. CASE c.op = "writeFieldSet"
        BY <2>0, <4>1 DEF EmptyFileData
      <4>2. CASE c.op # "writeFieldSet"
        <5>1. /\ filesData[c.grid] \in FileData
              /\ filesData[c.grid].data = NoData
              /\ filesData[c.grid].map # None =>
                    /\ filesData[c.grid].geom = c.grid
                    /\ filesData[c.grid].mesh = filesData[c.grid].map
                    /\ filesData[c.grid].map \in {c.grid, Garbage}
          BY <1>c DEF IInv, TypeOK, Reads, StoredFileData
        <5>2. work' = cleanFileData(filesData[c.grid])
          BY <2>0, <4>2
        <5> QED
          BY <4>2, <5>1, <5>2 DEF cleanFileData, NoData, FileData
      <4> QED
        BY <4>1, <4>2
    <3> QED
      BY <2>5, <3>1 DEF WriteFileData, NoData
  <2>7. WriteAccepted' /\ WriteProgress'
    BY <2>0, <2>5 DEF WriteAccepted, WriteProgress, WriterOpen
  <2> QED
    BY <2>1, <2>2, <2>3, <2>4, <2>5, <2>6, <2>7, ReadsFrame DEF IInv, Reads, Writes, Reading
<1> QED
  BY <1>1, <1>2

LEMMA WriteNowhereStep ==
    ASSUME IInv, NEW c \in Calls, WriteNowhere(c)
    PROVE  IInv'
<1>1. TypeOK'
  BY BoundAssumption DEF IInv, TypeOK, WriteNowhere, files, caller, local
<1>2. Control'
  BY IdleFrame DEF IInv, Control, OpenFiles, WriteNowhere, files, WriterOpen, Reading, Writing
<1>3. Files' /\ FieldNames' /\ StoredFileData'
  BY FilesFrame, NamesFrame, StoredFrame DEF IInv, Reads, WriteNowhere
<1> QED
  BY <1>1, <1>2, <1>3, ReadsFrame, WritesFrame DEF IInv, Reads, WriteNowhere, Reading, Writing

\* A path whose file is begun anew, and is promised nothing.
LEMMA EmptyFileFrame ==
    ASSUME TypeOK, Files, NEW p \in Path,
           disk' = [disk EXCEPT ![p] = EmptyFile], promise' = [promise EXCEPT ![p] = None]
    PROVE  /\ disk' \in [Path -> File \cup {None}] /\ promise' \in [Path -> File \cup {None}]
           /\ Files'
<1>1. disk' \in [Path -> File \cup {None}] /\ promise' \in [Path -> File \cup {None}]
  BY EmptyTypes DEF TypeOK
<1>2. WellFormed(EmptyFile)
  BY DEF WellFormed, EmptyFile
<1> QED
  BY <1>1, <1>2 DEF TypeOK, Files, FilesWellFormed, PromisedMesh, PromiseKept

LEMMA CreateOutputStep == ASSUME IInv, CreateOutput PROVE IInv'
<1>c. call \in Call /\ call.path \in Path
  BY CallTypes DEF IInv, Control, CreateOutput, Writing
<1>1. TypeOK' /\ Files'
  BY <1>c, EmptyFileFrame DEF IInv, TypeOK, CreateOutput, caller, local, counts, PC, Writing
<1>2. disk'[call.path] = EmptyFile /\ promise'[call.path] = None /\ EmptyFile # None
  BY <1>c, EmptyTypes, NamesAssumption DEF IInv, TypeOK, CreateOutput, NamesAssumption
<1>3. Control'
  BY <1>2 DEF IInv, Control, CallInProgress, CurrentField, OpenFiles, CreateOutput, local,
              ReaderOpen, WriterOpen, Reading, Writing
<1>4. FieldNames' /\ StoredFileData'
  BY NamesFrame, StoredFrame DEF IInv, Reads, CreateOutput
<1>5. Done = {} /\ Done' = {} /\ InHand = {} /\ InHand' = {} /\ Named = {} /\ Named' = {}
  BY DEF IInv, Writes, WriteAccepted, CreateOutput, Done, InHand, Named, Writing, local
<1>6. WriteAccepted'
  BY <1>5 DEF WriteAccepted, CreateOutput
<1>7. WriteFileData'
  BY <1>5 DEF IInv, Writes, WriteFileData, CreateOutput, Writing, local, OutputConvention
<1>8. WriteProgress'
  BY <1>2, <1>5 DEF WriteProgress, CreateOutput, local, EmptyFile, NoData
<1> QED
  BY <1>1, <1>3, <1>4, <1>6, <1>7, <1>8, ReadsFrame
  DEF IInv, Reads, Writes, CreateOutput, Reading

LEMMA CreateFailsStep == ASSUME IInv, CreateFails PROVE IInv'
<1>c. call.path \in Path
  BY CallTypes DEF IInv, Control, CreateFails, Writing
<1>1. TypeOK' /\ Files'
  <2>1. CASE UNCHANGED files
    BY <2>1, FilesFrame
    DEF IInv, TypeOK, CreateFails, files, caller, local, counts, PC, Stopped
  <2>2. CASE ~ UNCHANGED files
    BY <2>2, <1>c, EmptyFileFrame
    DEF IInv, TypeOK, CreateFails, caller, local, counts, PC, Stopped
  <2> QED
    BY <2>1, <2>2
<1>2. Control'
  <2>1. EmptyFile # None
    BY EmptyTypes, NamesAssumption DEF NamesAssumption
  <2>2. reader' # None => disk'[reader'] # None
    BY <1>c, <2>1 DEF IInv, TypeOK, Control, OpenFiles, CreateFails, files
  <2> QED
    BY <2>2, IdleFrame DEF IInv, Control, OpenFiles, CreateFails, WriterOpen, Reading, Writing
<1>3. FieldNames' /\ StoredFileData'
  BY NamesFrame, StoredFrame DEF IInv, Reads, CreateFails
<1> QED
  BY <1>1, <1>2, <1>3, ReadsFrame, WritesFrame
  DEF IInv, Reads, CreateFails, Reading, Writing

\* The file that the Writer has open, and the field in hand.
LEMMA WriterFile ==
    ASSUME TypeOK, Control, pc \in WriterOpen
    PROVE  /\ call \in Call /\ call.grid \in Grid /\ call.path \in Path
           /\ call.op \in WriteOp /\ call.fields \subseteq Field /\ call.fields # {}
           /\ OutputConvention(call) \in Convention
           /\ left \subseteq call.fields /\ Done \subseteq Field
           /\ writer = call.path /\ disk[call.path] \in File
           /\ pc # "fields" => cur \in left /\ cur \in Field
<1>1. pc \in Writing
  BY DEF WriterOpen
<1>2. /\ call \in Call /\ call.grid \in Grid /\ call.path \in Path
      /\ call.conv \in Convention /\ call.fields \subseteq Field
  BY <1>1, CallTypes DEF Control
<1> QED
  BY <1>1, <1>2
  DEF TypeOK, Control, CallInProgress, CurrentField, OpenFiles, OutputConvention, Convention,
      Done, ReadOp, WriteOp, WriterOpen, Writing

LEMMA WriteFieldStep ==
    ASSUME IInv, NEW f \in Field, WriteField(f)
    PROVE  IInv'
<1> DEFINE n == writeName(call, f)
           v == IF work.map = Garbage THEN Garbage ELSE fieldVal[call.grid][f]
           oc == OutputConvention(call)
<1>c. /\ call \in Call /\ call.grid \in Grid /\ call.path \in Path
      /\ call.op \in WriteOp /\ call.fields \subseteq Field
      /\ oc \in Convention /\ f \in left /\ left \subseteq call.fields
      /\ call.conv \in Convention
  BY WriterFile DEF IInv, WriteField, WriterOpen, Writing, Call
<1>1. CASE ~ FieldAccepted(call, work, f)
  BY <1>1, AbortStep DEF WriteField
<1>2. CASE FieldAccepted(call, work, f)
  <2>0. /\ pc = "fields" /\ pc' = "writeMetadata" /\ cur' = f
        /\ work' = populateFileData(work, n, v, oc)
        /\ fieldName' = IF RenamedField(call, f)
                        THEN [fieldName EXCEPT ![call.grid][f] = n]
                        ELSE fieldName
        /\ UNCHANGED <<files, fieldVal, filesData, reader, writer, call, left, counts>>
    BY <1>2 DEF WriteField
  <2>n. n \in Name /\ n \in NamesOf(f)
    BY <1>c, WriteNameType DEF IInv
  <2>m. n \notin Missing
    <3>1. CASE call.op = "writeFieldSet"
      BY <1>c, <3>1 DEF IInv, FieldNames, writeName
    <3>2. CASE call.op # "writeFieldSet" /\ call.conv = JEDI
      BY <3>2, DistinctNames DEF writeName
    <3>3. CASE call.op # "writeFieldSet" /\ call.conv = LFRIC
      BY <1>2, <3>3 DEF FieldAccepted
    <3> QED
      BY <1>c, <3>1, <3>2, <3>3 DEF Convention
  <2>v. v \in Datum
    BY <1>c DEF IInv, TypeOK, Datum
  <2>h. Done' = Done /\ InHand = {} /\ InHand' = {f}
    BY <2>0 DEF Done, InHand
  <2>r. \A g : writeName(call, g)' = writeName(call, g)
    BY <2>0 DEF writeName, lfricName, RenamedField
  <2>N. Named' = Named \cup {n}
    BY <2>h, <2>r DEF Named
  <2> HIDE DEF n, v, oc
  <2>w. /\ work' \in FileData
        /\ work'.vars = work.vars \cup {n}
        /\ work'.data = [work.data EXCEPT ![n] = IF @ = <<>> THEN <<v>> ELSE @]
        /\ work'.conv = IF work.conv = None THEN oc ELSE work.conv
        /\ work'.timed = work.timed /\ work'.geom = work.geom
        /\ work'.map = work.map /\ work'.mesh = work.mesh
    BY <1>c, <2>0, <2>n, <2>v, PopulateFileDataType
    DEF IInv, TypeOK, FileData, populateFileData
  <2>a. WriteFileData /\ WriteAccepted /\ WriteProgress
    BY DEF IInv, Writes
  <2>1. TypeOK'
    <3>1. fieldName' \in [Grid -> [Field -> Name]]
      BY <1>c, <2>0, <2>n DEF IInv, TypeOK
    <3> QED
      BY <2>0, <2>w, <3>1 DEF IInv, TypeOK, files, counts, PC, Writing
  <2>2. Control'
    BY <1>c, <2>0 DEF IInv, Control, CallInProgress, CurrentField, OpenFiles, files,
                      ReaderOpen, WriterOpen, Reading, Writing
  <2>3. Files' /\ StoredFileData'
    BY <2>0, FilesFrame, StoredFrame DEF IInv, Reads
  <2>4. FieldNames'
    BY <1>c, <2>0, <2>n, <2>m DEF IInv, TypeOK, FieldNames
  <2>5. WriteAccepted'
    BY <1>2, <2>0, <2>m, <2>h, <2>N, <2>w, <2>a
    DEF WriteAccepted, FieldAccepted, Writing
  <2>t. \A g : Taken(g)' = Taken(g)
    BY <2>0, <2>w DEF Taken
  <2>6. WriteFileData'
    <3>1. work'.conv = oc
      BY <1>c, <2>0, <2>h, <2>w, <2>a, NamesAssumption
      DEF WriteFileData, oc, NamesAssumption, Writing
    <3>2. work'.data = [m \in Name |-> IF \E g \in InHand' : m = writeName(call, g)'
                                       THEN <<Taken(f)>> ELSE <<>>]
      <4>1. work.data = [m \in Name |-> <<>>]
        BY <2>0, <2>h, <2>a DEF WriteFileData, Writing
      <4>2. v = Taken(f)
        BY DEF v, Taken
      <4>3. \A m : (\E g \in InHand' : m = writeName(call, g)') <=> m = n
        BY <2>h, <2>r DEF n
      <4> QED
        BY <2>n, <2>w, <4>1, <4>2, <4>3
    <3>3. OutputConvention(call)' = oc
      BY <2>0 DEF OutputConvention, oc
    <3>4. work'.vars = {writeName(call, g)' : g \in InHand'}
      BY <2>0, <2>h, <2>r, <2>w, <2>a DEF WriteFileData, Writing, n
    <3> QED
      BY <2>0, <2>h, <2>t, <2>w, <2>a, <3>1, <3>2, <3>3, <3>4 DEF WriteFileData, Writing
  <2>7. WriteProgress'
    <3>1. OutputConvention(call)' = OutputConvention(call)
      BY <2>0 DEF OutputConvention
    <3> QED
      BY <2>0, <2>h, <2>r, <2>t, <2>w, <2>a, <3>1 DEF WriteProgress, WriterOpen, Writing, files
  <2> QED
    BY <2>0, <2>1, <2>2, <2>3, <2>4, <2>5, <2>6, <2>7, ReadsFrame DEF IInv, Reads, Writes, Reading
<1> QED
  BY <1>1, <1>2

\* A write in progress changes no file but its output, which nobody is promised.
LEMMA OutputFrame ==
    ASSUME TypeOK, Files, NEW p \in Path, NEW file \in File, WellFormed(file),
           promise[p] = None, disk' = [disk EXCEPT ![p] = file], promise' = promise
    PROVE  disk' \in [Path -> File \cup {None}] /\ disk'[p] = file /\ Files'
<1>1. disk' \in [Path -> File \cup {None}] /\ disk'[p] = file
  BY DEF TypeOK
<1>2. \A q \in Path : q # p => disk'[q] = disk[q]
  BY DEF TypeOK
<1> QED
  BY <1>1, <1>2 DEF Files, FilesWellFormed, PromisedMesh, PromiseKept

\* The fields of a write have different names, when those stand for variables.
LEMMA NamesDiffer ==
    ASSUME FieldNames, NEW c \in Call, NEW f \in Field, NEW g \in Field, f # g,
           writeName(c, f) \notin Missing
    PROVE  writeName(c, f) # writeName(c, g)
BY WriteNameType, DistinctNames

LEMMA WriteMetadataStep == ASSUME IInv, WriteMetadata PROVE IInv'
<1> DEFINE file == disk[call.path]
           new == writeMetadata(file, work)
           names == {writeName(call, f) : f \in Done}
           withGeometry == call.op # "writeFieldSet"
<1>c. /\ call \in Call /\ call.grid \in Grid /\ call.path \in Path
      /\ OutputConvention(call) \in Convention
      /\ Done \subseteq Field /\ cur \in left /\ cur \in Field
      /\ writer = call.path /\ file \in File /\ work \in FileData
  BY WriterFile DEF IInv, TypeOK, WriteMetadata, WriterOpen, Writing
<1>0. /\ pc = "writeMetadata" /\ pc' = "writeData"
      /\ disk' = [disk EXCEPT ![call.path] = new]
      /\ UNCHANGED <<promise, caller, filesData, reader, writer, local, counts>>
  BY <1>c DEF WriteMetadata
<1>a. WriteFileData /\ WriteAccepted /\ WriteProgress
  BY DEF IInv, Writes
<1>h. /\ Done' = Done /\ InHand = {cur} /\ InHand' = {cur}
      /\ \A f : writeName(call, f)' = writeName(call, f) /\ Taken(f)' = Taken(f)
  BY <1>0 DEF Done, InHand, Taken, writeName, lfricName, caller, local
<1>N. Named = names \cup {writeName(call, cur)} /\ Named' = Named
  BY <1>h DEF Named
<1>g. /\ None \notin Grid /\ None \notin Convention /\ Garbage # None
  BY NamesAssumption DEF NamesAssumption
<1>1. new \in File /\ new.times = <<>> /\ new.timed = {}
  BY <1>0, <1>c, <1>a, WriteMetadataType
  DEF writeMetadata, WriteFileData, WriteProgress, WriterOpen, Writing, File
<1>2. new.conv = OutputConvention(call)
  BY <1>0, <1>a, <1>c, <1>g, <1>h
  DEF writeMetadata, WriteFileData, WriteProgress, WriterOpen, Writing, File
<1>3. /\ new.geom = IF withGeometry THEN call.grid ELSE None
      /\ new.mesh = IF ~ withGeometry THEN None
                    ELSE IF Done = {} THEN Garbage ELSE work.map
  <2>1. /\ file.geom = IF Done # {} /\ withGeometry THEN call.grid ELSE None
        /\ file.mesh = IF Done # {} /\ withGeometry THEN work.map ELSE None
    BY <1>0, <1>a DEF WriteProgress, WriterOpen, Writing
  <2>2. work.geom = IF withGeometry THEN call.grid ELSE None
    BY <1>0, <1>a, <1>h DEF WriteFileData, WriteAccepted, Writing
  <2> QED
    BY <1>c, <1>g, <2>1, <2>2 DEF writeMetadata, File
<1>4. \A n \in Name : new.data[n] = IF n = writeName(call, cur) /\ file.data[n] = <<>>
                                    THEN <<Garbage>> ELSE file.data[n]
  <2>1. work.vars = {writeName(call, cur)}
    BY <1>0, <1>a, <1>h DEF WriteFileData, Writing
  <2> QED
    BY <1>c, <2>1 DEF writeMetadata, File
<1>5. WellFormed(new)
  BY <1>0, <1>1, <1>3, <1>a, <1>h DEF WellFormed, WriteFileData, WriteAccepted, Writing
<1>6. promise[call.path] = None
  BY <1>0, <1>a DEF WriteProgress, WriterOpen, Writing
<1> HIDE DEF new
<1>7. disk'[call.path] = new /\ Files' /\ TypeOK'
  BY <1>0, <1>1, <1>5, <1>6, <1>c, OutputFrame
  DEF IInv, TypeOK, caller, local, counts, PC, Writing
<1>8. Control'
  BY <1>0, <1>7, <1>1, NamesAssumption
  DEF IInv, Control, CallInProgress, CurrentField, OpenFiles, local, NamesAssumption,
      ReaderOpen, WriterOpen, Reading, Writing
<1>9. FieldNames' /\ StoredFileData'
  BY <1>0, NamesFrame, StoredFrame DEF IInv, Reads
<1>10. WriteAccepted' /\ WriteFileData'
  BY <1>0, <1>a, <1>h, <1>N
  DEF WriteAccepted, WriteFileData, OutputConvention, local, Writing
<1>11. WriteProgress'
  <2>1. \A f \in Done : new.data[writeName(call, f)] = <<Taken(f)>>
    <3> TAKE f \in Done
    <3>1. file.data[writeName(call, f)] = <<Taken(f)>>
      BY <1>0, <1>a DEF WriteProgress, WriterOpen, Writing
    <3>2. writeName(call, f) \in Name
      BY <1>c, WriteNameType DEF IInv
    <3> QED
      BY <1>4, <3>1, <3>2
  <2>2. \A n \in Name \ names : new.data[n] = IF n = writeName(call, cur)
                                              THEN <<Garbage>> ELSE <<>>
    BY <1>0, <1>4, <1>a DEF WriteProgress, WriterOpen, Writing
  <2>3. {writeName(call, f)' : f \in Done'} = names
    BY <1>h
  <2>5. writeName(call, cur)' = writeName(call, cur)
    BY <1>0 DEF writeName, lfricName, caller, local
  <2>4. OutputConvention(call)' = OutputConvention(call)
    BY <1>0 DEF OutputConvention, local
  <2> QED
    BY <1>0, <1>1, <1>2, <1>3, <1>6, <1>7, <1>h, <2>1, <2>2, <2>3, <2>4, <2>5
    DEF WriteProgress, local
<1> QED
  BY <1>0, <1>7, <1>8, <1>9, <1>10, <1>11, ReadsFrame DEF IInv, Reads, Writes, Reading

LEMMA WriteDataStep == ASSUME IInv, WriteData PROVE IInv'
<1> DEFINE file == disk[call.path]
           new == writeData(file, work, Containers(work), TRUE)
           names == {writeName(call, f) : f \in Done}
           n == writeName(call, cur)
           withGeometry == call.op # "writeFieldSet"
<1>c. /\ call \in Call /\ call.grid \in Grid /\ call.path \in Path
      /\ OutputConvention(call) \in Convention
      /\ Done \subseteq Field /\ cur \in left /\ cur \in Field /\ left \subseteq call.fields
      /\ writer = call.path /\ file \in File /\ work \in FileData
  BY WriterFile DEF IInv, TypeOK, WriteData, WriterOpen, Writing
<1>0. /\ pc = "writeData" /\ pc' = "fields"
      /\ disk' = [disk EXCEPT ![call.path] = new]
      /\ work' = clearData(work) /\ left' = left \ {cur}
      /\ UNCHANGED <<promise, caller, filesData, reader, writer, call, cur, counts>>
  BY <1>c DEF WriteData
<1>a. WriteFileData /\ WriteAccepted /\ WriteProgress
  BY DEF IInv, Writes
<1>w. /\ work' \in FileData /\ work'.data = NoData /\ work'.mesh = None
      /\ work'.geom = work.geom /\ work'.vars = {} /\ work'.timed = {}
      /\ work'.conv = None /\ work'.map = work.map
  BY <1>0, <1>c, CleanTypes DEF clearData, FileData
<1>h. /\ Done' = Done \cup {cur} /\ InHand = {cur} /\ InHand' = {}
      /\ \A f : writeName(call, f)' = writeName(call, f) /\ Taken(f)' = Taken(f)
  BY <1>0, <1>c, <1>w DEF Done, InHand, Taken, writeName, lfricName, caller
<1>N. Named = names \cup {n} /\ Named' = Named
  BY <1>h DEF Named
<1>g. None \notin Grid /\ Garbage # None
  BY NamesAssumption DEF NamesAssumption
<1>n. n \in Name /\ Containers(work) = {n} /\ work.data[n] = <<Taken(cur)>>
  <2>1. n \in Name
    BY <1>c, WriteNameType DEF IInv
  <2>2. work.data = [m \in Name |-> IF m = n THEN <<Taken(cur)>> ELSE <<>>]
    BY <1>0, <1>a, <1>h DEF WriteFileData, Writing
  <2> HIDE DEF n
  <2> QED
    BY <2>1, <2>2 DEF Containers
<1>1. new \in File /\ new.times = <<>> /\ new.timed = {} /\ new.conv = OutputConvention(call)
  <2>1. new \in File
    BY <1>c, WriteDataType
  <2>2. new.times = file.times /\ new.timed = file.timed /\ new.conv = file.conv
    BY <1>c DEF writeData, File
  <2>3. file.times = <<>> /\ file.timed = {} /\ file.conv = OutputConvention(call)
    BY <1>0, <1>a DEF WriteProgress, WriterOpen, Writing
  <2> HIDE DEF new
  <2> QED
    BY <2>1, <2>2, <2>3
<1>3. /\ new.geom = IF withGeometry THEN call.grid ELSE None
      /\ new.mesh = IF withGeometry THEN work.map ELSE None
  <2>1. /\ file.geom = IF withGeometry THEN call.grid ELSE None
        /\ file.mesh = IF ~ withGeometry THEN None
                       ELSE IF Done = {} THEN Garbage ELSE work.map
    BY <1>0, <1>a DEF WriteProgress, WriterOpen, Writing
  <2>2. /\ withGeometry => work.mesh = (IF Done = {} THEN work.map ELSE None) /\ work.map # None
        /\ ~ withGeometry => work.mesh = None
    BY <1>0, <1>a, <1>h DEF WriteFileData, WriteAccepted, Writing
  <2> QED
    BY <1>c, <2>1, <2>2 DEF writeData, File
<1>4. \A m \in Name : new.data[m] = IF m = n THEN <<Taken(cur)>> ELSE file.data[m]
  BY <1>c, <1>n DEF writeData, File
<1>5. WellFormed(new)
  BY <1>0, <1>1, <1>3, <1>a, <1>h DEF WellFormed, WriteFileData, WriteAccepted, Writing
<1>6. promise[call.path] = None
  BY <1>0, <1>a DEF WriteProgress, WriterOpen, Writing
<1> HIDE DEF new
<1>7. disk'[call.path] = new /\ Files' /\ TypeOK'
  BY <1>0, <1>1, <1>5, <1>6, <1>c, <1>w, OutputFrame
  DEF IInv, TypeOK, caller, counts, PC, Writing
<1>8. Control'
  BY <1>0, <1>7, <1>1, NamesAssumption
  DEF IInv, Control, CallInProgress, CurrentField, OpenFiles, NamesAssumption,
      ReaderOpen, WriterOpen, Reading, Writing
<1>9. FieldNames' /\ StoredFileData'
  BY <1>0, NamesFrame, StoredFrame DEF IInv, Reads
<1>10. WriteAccepted'
  BY <1>0, <1>a, <1>h, <1>w, <1>N DEF WriteAccepted, Writing
<1>11. WriteFileData'
  <2>1. OutputConvention(call)' = OutputConvention(call)
    BY <1>0 DEF OutputConvention
  <2> QED
    BY <1>0, <1>a, <1>h, <1>w, <1>N, <2>1 DEF WriteFileData, NoData, Writing
<1>12. WriteProgress'
  <2>1. \A f \in Done' : new.data[writeName(call, f)] = <<Taken(f)>>
    <3> SUFFICES ASSUME NEW f \in Done, f # cur
                 PROVE  new.data[writeName(call, f)] = <<Taken(f)>>
      BY <1>h, <1>n, <1>4
    <3>1. file.data[writeName(call, f)] = <<Taken(f)>>
      BY <1>0, <1>a DEF WriteProgress, WriterOpen, Writing
    <3>2. writeName(call, f) \in Name
      BY <1>c, WriteNameType DEF IInv
    <3>3. n \notin Missing
      BY <1>0, <1>a, <1>N DEF WriteAccepted, Writing
    <3>4. writeName(call, f) # n
      BY <1>c, <3>3, NamesDiffer DEF IInv
    <3> QED
      BY <1>4, <3>1, <3>2, <3>4
  <2>2. \A m \in Name \ (names \cup {n}) : new.data[m] = <<>>
    BY <1>0, <1>4, <1>a DEF WriteProgress, WriterOpen, Writing
  <2>3. {writeName(call, f)' : f \in Done'} = names \cup {n}
    BY <1>h
  <2>4. OutputConvention(call)' = OutputConvention(call)
    BY <1>0 DEF OutputConvention
  <2> QED
    BY <1>0, <1>1, <1>3, <1>6, <1>7, <1>h, <1>w, <2>1, <2>2, <2>3, <2>4 DEF WriteProgress
<1> QED
  BY <1>0, <1>7, <1>8, <1>9, <1>10, <1>11, <1>12, ReadsFrame
  DEF IInv, Reads, Writes, Reading

LEMMA WriteReturnStep == ASSUME IInv, WriteReturn PROVE IInv'
<1> DEFINE file == disk[call.path]
           req == Requested(call)
           withGeometry == call.op # "writeFieldSet"
<1>c. /\ call \in Call /\ call.grid \in Grid /\ call.path \in Path
      /\ call.fields \subseteq Field /\ call.fields # {} /\ file \in File
  BY WriterFile DEF IInv, WriteReturn, WriterOpen, Writing
<1>0. /\ pc = "fields" /\ pc' = "idle" /\ writer' = None /\ Return
      /\ promise' = [promise EXCEPT ![call.path] = IF work.map = Garbage THEN None ELSE req]
      /\ UNCHANGED <<disk, caller, filesData, reader, counts>>
  BY DEF WriteReturn, Return
<1>d. Done = call.fields /\ InHand = {}
  BY DEF WriteReturn, Done, InHand
<1>a. WriteFileData /\ WriteAccepted /\ WriteProgress
  BY DEF IInv, Writes
<1>1. req \in File
  BY <1>c, RequestedType DEF IInv
<1>2. ASSUME work.map # Garbage
      PROVE  file = req
  <2>1. withGeometry => work.map = call.grid
    BY <1>0, <1>2, <1>a, <1>c, <1>d DEF WriteFileData, WriteAccepted, Writing
  <2>2. /\ file.times = <<>> /\ file.timed = {} /\ file.conv = OutputConvention(call)
        /\ file.geom = IF withGeometry THEN call.grid ELSE None
        /\ file.mesh = IF withGeometry THEN call.grid ELSE None
    BY <1>0, <1>a, <1>c, <1>d, <2>1 DEF WriteProgress, WriterOpen, Writing
  <2>3. \A f \in call.fields : file.data[writeName(call, f)] = <<fieldVal[call.grid][f]>>
    BY <1>0, <1>2, <1>a, <1>d DEF WriteProgress, Taken, WriterOpen, Writing
  <2>4. \A n \in Name : (\A f \in call.fields : writeName(call, f) # n) => file.data[n] = <<>>
    BY <1>0, <1>a, <1>d DEF WriteProgress, WriterOpen, Writing
  <2> DEFINE written(n) == {f \in call.fields : writeName(call, f) = n}
             data == [n \in Name |->
                        IF written(n) = {} THEN <<>>
                        ELSE <<fieldVal[call.grid][CHOOSE f \in written(n) : TRUE]>>]
  <2>5. file.data = data
    <3>1. ASSUME NEW n \in Name PROVE file.data[n] = data[n]
      <4>1. CASE written(n) = {}
        BY <2>4, <4>1
      <4>2. CASE written(n) # {}
        <5> DEFINE f == CHOOSE f \in written(n) : TRUE
        <5>1. f \in call.fields /\ writeName(call, f) = n
          BY <4>2
        <5>2. data[n] = <<fieldVal[call.grid][f]>>
          BY <4>2
        <5> HIDE DEF f
        <5> QED
          BY <2>3, <5>1, <5>2
      <4> QED
        BY <4>1, <4>2
    <3>2. file.data \in [Name -> Seq(Datum)]
      BY <1>c DEF File, Contents
    <3> HIDE DEF data
    <3>3. data = [n \in Name |-> data[n]]
      BY DEF data
    <3> QED
      BY <3>1, <3>2, <3>3
  <2>6. req = [geom |-> IF withGeometry THEN call.grid ELSE None,
               mesh |-> IF withGeometry THEN call.grid ELSE None,
               times |-> <<>>, conv |-> OutputConvention(call), timed |-> {}, data |-> data]
    BY DEF Requested
  <2>7. file = [geom |-> file.geom, mesh |-> file.mesh, times |-> file.times,
                conv |-> file.conv, timed |-> file.timed, data |-> file.data]
    BY <1>c DEF File
  <2> HIDE DEF data, req, file
  <2> QED
    BY <2>2, <2>5, <2>6, <2>7
<1>3. req.mesh = req.geom
  BY DEF Requested
<1> HIDE DEF req
<1>4. TypeOK'
  <2>1. promise' \in [Path -> File \cup {None}]
    BY <1>0, <1>1, <1>c DEF IInv, TypeOK
  <2> QED
    BY <1>0, <2>1, ReturnTypes DEF IInv, TypeOK, caller, counts
<1>5. Control'
  BY <1>0, IdleFrame DEF IInv, Control, OpenFiles, Reading, Writing
<1>6. Files'
  <2>1. FilesWellFormed'
    BY <1>0 DEF IInv, Files, FilesWellFormed
  <2>2. PromisedMesh' /\ PromiseKept'
    BY <1>0, <1>2, <1>3, <1>c DEF IInv, TypeOK, Files, PromisedMesh, PromiseKept
  <2> QED
    BY <2>1, <2>2 DEF Files
<1>7. FieldNames' /\ StoredFileData'
  BY <1>0, NamesFrame, StoredFrame DEF IInv, Reads
<1> QED
  BY <1>0, <1>4, <1>5, <1>6, <1>7, ReadsFrame, WritesFrame DEF IInv, Reads, Reading, Writing

LEMMA NcExceptionInWriteStep == ASSUME IInv, NcExceptionInWrite PROVE IInv'
<1> DEFINE file == disk[call.path]
<1>c. /\ call.path \in Path /\ call.grid \in Grid
      /\ writer = call.path /\ file \in File /\ work \in FileData
  BY WriterFile DEF IInv, TypeOK, NcExceptionInWrite, WriterOpen, Writing
<1>a. WriteFileData /\ WriteAccepted /\ WriteProgress
  BY DEF IInv, Writes
<1>p. /\ \/ pc \in {"writeMetadata", "writeData"}
         \/ pc = "fields" /\ left = {}
      /\ pc' = "aborted" /\ closeFiles
      /\ UNCHANGED <<promise, caller, filesData, local, counts>>
  BY DEF NcExceptionInWrite
<1>h. /\ None # Garbage
      /\ pc # "fields" => InHand = {cur}
  BY <1>p, NamesAssumption DEF InHand, NamesAssumption
<1>1. PICK new : new \in File /\ WellFormed(new) /\ disk' = [disk EXCEPT ![call.path] = new]
  <2>1. CASE pc = "writeMetadata"
    <3>1. PICK defined \in SUBSET work.vars :
            disk' = [disk EXCEPT ![call.path] =
                       writeMetadata(file, [work EXCEPT !.vars = defined, !.conv = None])]
      BY <1>c, <2>1 DEF NcExceptionInWrite
    <3> DEFINE fd == [work EXCEPT !.vars = defined, !.conv = None]
               new == writeMetadata(file, fd)
    <3>2. fd \in FileData /\ fd.geom = work.geom /\ fd.timed = work.timed
      BY <1>c DEF FileData
    <3> HIDE DEF fd
    <3>3. new \in File
      BY <1>c, <3>2, WriteMetadataType
    <3>4. new.timed = {}
      BY <1>p, <2>1, <1>c, <3>2, <1>a
      DEF writeMetadata, File, WriteFileData, WriteProgress, WriterOpen, Writing
    <3>5. new.mesh \in {new.geom, Garbage}
      BY <1>p, <2>1, <1>c, <3>2, <1>a, <1>h
      DEF writeMetadata, File, WriteFileData, WriteProgress, WriteAccepted, WriterOpen, Writing
    <3> QED
      BY <3>1, <3>3, <3>4, <3>5 DEF WellFormed, fd
  <2>2. CASE pc = "writeData"
    <3>1. PICK done \in SUBSET Containers(work) :
            disk' = [disk EXCEPT ![call.path] = writeData(file, work, done, done # {})]
      BY <1>c, <2>2 DEF NcExceptionInWrite
    <3> DEFINE new == writeData(file, work, done, done # {})
    <3>2. new \in File
      BY <1>c, WriteDataType
    <3>3. /\ new.timed = file.timed /\ new.geom = file.geom
          /\ new.mesh = file.mesh \/ (work.mesh # None /\ new.mesh = work.mesh)
      BY <1>c DEF writeData, File
    <3>4. file.timed = {} /\ file.mesh \in {file.geom, Garbage}
      BY <2>2, <1>a, <1>h
      DEF WriteProgress, WriteFileData, WriteAccepted, WriterOpen, Writing
    <3>5. work.mesh # None => work.mesh \in {file.geom, Garbage}
      BY <2>2, <1>a, <1>h
      DEF WriteProgress, WriteFileData, WriteAccepted, WriterOpen, Writing
    <3> HIDE DEF new
    <3>6. WellFormed(new)
      BY <3>3, <3>4, <3>5 DEF WellFormed
    <3> QED
      BY <3>1, <3>2, <3>6 DEF new
  <2>3. CASE pc = "fields"
    <3>1. PICK lost \in SUBSET VarsOf(file),
               mesh \in {file.mesh} \cup (IF file.mesh = None THEN {} ELSE {Garbage}) :
            disk' = [disk EXCEPT ![call.path] = lostOnClose(file, lost, mesh)]
      BY <1>c, <2>3 DEF NcExceptionInWrite
    <3> DEFINE new == lostOnClose(file, lost, mesh)
    <3>2. new \in File
      BY <1>c, <3>1, LostOnCloseType DEF VarsOf
    <3>3. new.timed = file.timed /\ new.geom = file.geom /\ new.mesh = mesh
      BY <1>c DEF lostOnClose, File
    <3>4. file.timed = {} /\ file.mesh \in {file.geom, Garbage}
      <4>1. file # None
        BY <1>c, NamesAssumption DEF NamesAssumption
      <4> QED
        BY <1>c, <2>3, <1>a, <4>1
        DEF WriteProgress, WriterOpen, Writing, IInv, Files, FilesWellFormed, WellFormed
    <3> HIDE DEF new
    <3>5. WellFormed(new)
      BY <3>1, <3>3, <3>4 DEF WellFormed
    <3> QED
      BY <3>1, <3>2, <3>5 DEF new
  <2> QED
    BY <1>p, <2>1, <2>2, <2>3
<1>2. promise[call.path] = None
  BY <1>p, <1>a DEF WriteProgress, WriterOpen, Writing
<1>3. TypeOK' /\ Files'
  BY <1>1, <1>2, <1>c, <1>p, OutputFrame
  DEF IInv, TypeOK, closeFiles, caller, local, counts, PC, Stopped
<1>4. Control'
  BY <1>p, IdleFrame DEF closeFiles, Reading, Writing
<1>5. FieldNames' /\ StoredFileData'
  BY <1>p, NamesFrame, StoredFrame DEF IInv, Reads
<1> QED
  BY <1>p, <1>3, <1>4, <1>5, ReadsFrame, WritesFrame DEF IInv, Reads, Reading, Writing
----------------------------------------------------------------------------
(* The invariant. *)

LEMMA InitInv == Init => IInv
<1> SUFFICES ASSUME Init PROVE IInv
  OBVIOUS
<1>1. TypeOK
  <2>1. fieldVal \in [Grid -> [Field -> Datum]]
    BY DEF Init, Datum
  <2>2. fieldName \in [Grid -> [Field -> Name]]
    BY NamesAssumption DEF Init, NamesAssumption
  <2>3. jobs \in 0..MaxJobs /\ calls \in 0..MaxCalls
    BY BoundAssumption DEF Init
  <2> QED
    BY <2>1, <2>2, <2>3, EmptyTypes, InputAssumption DEF Init, TypeOK, InputAssumption, PC
<1>2. Control
  BY DEF Init, Control, CallInProgress, CurrentField, OpenFiles, ReaderOpen, WriterOpen,
         Reading, Writing
<1>3. Files
  BY InputAssumption
  DEF Init, Files, FilesWellFormed, WellFormed, PromisedMesh, PromiseKept, InputAssumption
<1>4. FieldNames
  BY NameTypes, DistinctNames DEF Init, FieldNames
<1>5. Reads
  BY DEF Init, Reads, StoredFileData, InitialiseStages, ReadStages, FieldsDelivered,
         EmptyFileData, Reading
<1>6. Writes
  BY DEF Init, Writes, WriteAccepted, WriteFileData, WriteProgress, WriterOpen, Writing
<1> QED
  BY <1>1, <1>2, <1>3, <1>4, <1>5, <1>6 DEF IInv

\* A stuttering step changes nothing that IInv speaks of.
LEMMA StutterStep == IInv /\ UNCHANGED vars => IInv'
<1> SUFFICES ASSUME IInv, UNCHANGED vars PROVE IInv'
  OBVIOUS
<1>0. UNCHANGED <<files, caller, filesData, reader, writer, pc, call, work, cur, left, counts>>
  BY DEF vars, local
<1>1. TypeOK' /\ Control' /\ Files' /\ FieldNames' /\ StoredFileData'
  BY <1>0, FilesFrame, NamesFrame, StoredFrame
  DEF IInv, TypeOK, Control, CallInProgress, CurrentField, OpenFiles, Reads, files, caller,
      counts
<1>2. InitialiseStages' /\ ReadStages'
  BY <1>0 DEF IInv, Reads, InitialiseStages, ReadStages, files
<1>3. FieldsDelivered'
  <2>1. CASE pc \in Reading
    BY <1>0, <2>1, DeliveredFrame DEF IInv, Reads
  <2>2. CASE pc \notin Reading
    BY <1>0, <2>2 DEF FieldsDelivered
  <2> QED
    BY <2>1, <2>2
<1>4. Writes'
  <2>1. /\ \A f : writeName(call, f)' = writeName(call, f) /\ Taken(f)' = Taken(f)
        /\ Done' = Done /\ InHand' = InHand /\ OutputConvention(call)' = OutputConvention(call)
        /\ writeName(call, cur)' = writeName(call, cur) /\ Taken(cur)' = Taken(cur)
    BY <1>0 DEF writeName, lfricName, Taken, Done, InHand, OutputConvention, caller
  <2>2. Named' = Named
    BY <2>1 DEF Named
  <2>3. {writeName(call, f)' : f \in Done'} = {writeName(call, f) : f \in Done}
    BY <2>1
  <2>4. WriteAccepted'
    BY <1>0, <2>1, <2>2 DEF IInv, Writes, WriteAccepted
  <2>5. WriteFileData'
    BY <1>0, <2>1, <2>2 DEF IInv, Writes, WriteFileData
  <2>6. WriteProgress'
    BY <1>0, <2>1, <2>3 DEF IInv, Writes, WriteProgress, files
  <2> QED
    BY <2>4, <2>5, <2>6 DEF Writes
<1> QED
  BY <1>1, <1>2, <1>3, <1>4 DEF IInv, Reads

LEMMA NextInv == IInv /\ [Next]_vars => IInv'
<1> SUFFICES ASSUME IInv, [Next]_vars PROVE IInv'
  OBVIOUS
<1>1. ASSUME NEW g \in Grid, NEW f \in Field, NEW v \in Value, SetField(g, f, v) PROVE IInv'
  BY <1>1, SetFieldStep
<1>2. ASSUME NEW c \in Calls, BeginRead(c) \/ BeginInitialise(c) \/ BeginWrite(c) \/ WriteNowhere(c)
      PROVE  IInv'
  BY <1>2, BeginReadStep, BeginInitialiseStep, BeginWriteStep, WriteNowhereStep
<1>3. ASSUME NEW f \in Field, NextField(f) \/ WriteField(f) PROVE IInv'
  BY <1>3, NextFieldStep, WriteFieldStep
<1>4. CASE InitOpen \/ OpenFails \/ OpenNothing \/ InitMetadata \/ InitGeometry
  BY <1>4, InitOpenStep, OpenFailsStep, OpenNothingStep, InitMetadataStep, InitGeometryStep
<1>5. CASE createLfricAtlasMap \/ createDateTimes
  BY <1>5, createLfricAtlasMapStep, createDateTimesStep
<1>6. CASE SkipDatum \/ ReadDatum \/ PopulateField \/ ReadReturn
  BY <1>6, SkipDatumStep, ReadDatumStep, PopulateFieldStep, ReadReturnStep
<1>7. CASE CreateOutput \/ CreateFails \/ WriteMetadata \/ WriteData \/ WriteReturn
  BY <1>7, CreateOutputStep, CreateFailsStep, WriteMetadataStep, WriteDataStep, WriteReturnStep
<1>8. CASE NcExceptionInRead \/ NcExceptionInWrite \/ Killed \/ CallerClosesFiles \/ NewJob
  BY <1>8, NcExceptionInReadStep, NcExceptionInWriteStep, KilledStep, CallerClosesFilesStep,
     NewJobStep
<1>9. CASE UNCHANGED vars
  BY <1>9, StutterStep
<1> QED
  BY <1>1, <1>2, <1>3, <1>4, <1>5, <1>6, <1>7, <1>8, <1>9 DEF Next

\* IInv holds in every state: the Monio of any grids, paths, fields and calls is,
\* at every operation of a call, where the parts of IInv say.
THEOREM Invariance == Spec => []IInv
BY InitInv, NextInv, PTL DEF Spec
----------------------------------------------------------------------------
(* The properties. *)

\* Every variable keeps its type: no operation of a call, in any order of calls
\* and jobs, meets a file, a FileData or a time step that is not there.
THEOREM TypeCorrect == Spec => []TypeOK
<1>1. IInv => TypeOK
  BY DEF IInv
<1> QED
  BY <1>1, Invariance, PTL

\* A file that Monio finished holds exactly what the write was asked for, until
\* another write replaces it (closeFile at the end of Monio's writes).
THEOREM PromisesKept == Spec => []PromiseKept
<1>1. IInv => PromiseKept
  BY DEF IInv, Files
<1> QED
  BY <1>1, Invariance, PTL

\* A variable is read with the metadata, map and date-times of the file that is
\* open, whatever the grid was initialised from before (createFileData).
THEOREM MetadataFresh == Spec => []FreshMetadata
<1>1. IInv => FreshMetadata
  <2> SUFFICES ASSUME IInv, pc \in {"datum", "populate"}
               PROVE  /\ reader = call.path
                      /\ work.vars = VarsOf(disk[reader])
                      /\ work.timed = disk[reader].timed
                      /\ work.conv = disk[reader].conv
                      /\ work.map = disk[reader].mesh
                      /\ call.op = "readState" => work.times = disk[reader].times
    BY DEF FreshMetadata
  <2>1. reader = call.path
    BY ReaderFile DEF IInv, Control, CallInProgress, ReaderOpen, Reading
  <2> QED
    BY <2>1 DEF IInv, Reads, ReadStages, FromMap, FromGeometry, FromMetadata, EmptyFileData
<1> QED
  BY <1>1, Invariance, PTL

\* A read that reaches its end has given each field the value the file at its
\* path was finished with (readState, readIncrements).
THEOREM ReadsDeliver == Spec => []ReadDelivers
<1>1. IInv => ReadDelivers
  BY DEF IInv, Control, CallInProgress, Reads, FieldsDelivered, Delivered, ReadDelivers, Reading
<1> QED
  BY <1>1, Invariance, PTL

\* Monio aborts with its output closed (closeFiles before throwException).
THEOREM AbortsClosed == Spec => []AbortClosesWriter
<1>1. IInv => AbortClosesWriter
  BY DEF IInv, Control, OpenFiles, WriterOpen, Writing, AbortClosesWriter
<1> QED
  BY <1>1, Invariance, PTL
=============================================================================
