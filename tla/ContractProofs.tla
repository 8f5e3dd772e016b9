---------------------------- MODULE ContractProofs ----------------------------
(***************************************************************************)
(* The proof that Monio implements FieldStore, for any constants that meet *)
(* the assumptions of Monio: its initial states are initial states of the  *)
(* store, and each of its operations is, under the mapping of              *)
(* MonioContract, an operation of the store or invisible to it.            *)
(***************************************************************************)
EXTENDS MonioContract, MonioProofs
----------------------------------------------------------------------------
(* What the mapping needs to know beyond IInv. *)

\* Between two calls nothing of a call is left.
IdleHasNoCall == pc = "idle" => call = None

\* A write works with the map that is stored for its grid.
MapOfGrid ==
    pc \in Writing /\ call.op # "writeFieldSet" => work.map = filesData[call.grid].map

CInv == IdleHasNoCall /\ MapOfGrid

LEMMA InitCInv == Init => CInv
BY DEF Init, CInv, IdleHasNoCall, MapOfGrid, Writing

\* The start and the steps of a write: the map is copied, and stays what it was.
LEMMA WritingCInv ==
    ASSUME IInv, CInv,
           \/ \E c \in Calls : BeginWrite(c) \/ WriteNowhere(c)
           \/ \E f \in Field : WriteField(f)
           \/ CreateOutput \/ CreateFails \/ WriteMetadata \/ WriteData \/ WriteReturn
           \/ NcExceptionInWrite
    PROVE  CInv'
<1>1. ASSUME NEW c \in Calls, BeginWrite(c) PROVE CInv'
  <2>1. c.op # "writeFieldSet" /\ pc' = "create" => c.grid \in Grid
    BY BoundAssumption DEF Call
  <2>2. pc' \in {"aborted", "create"} /\ call' = c
    BY <1>1 DEF BeginWrite, Begin
  <2>3. pc' = "create" /\ c.op # "writeFieldSet" =>
            /\ work' = cleanFileData(filesData[c.grid])
            /\ filesData' = [filesData EXCEPT ![c.grid] = SharedAfterClean(@)]
    BY <1>1 DEF BeginWrite, Begin
  <2>4. \A g \in Grid : /\ filesData[g] \in FileData
                        /\ cleanFileData(filesData[g]).map = filesData[g].map
                        /\ SharedAfterClean(filesData[g]).map = filesData[g].map
    BY DEF IInv, TypeOK, FileData, cleanFileData, SharedAfterClean
  <2> QED
    BY <2>1, <2>2, <2>3, <2>4 DEF CInv, IdleHasNoCall, MapOfGrid, Writing, IInv, TypeOK
<1>2. ASSUME NEW c \in Calls, WriteNowhere(c) PROVE CInv'
  BY <1>2 DEF CInv, IdleHasNoCall, MapOfGrid, WriteNowhere, local
<1>3. ASSUME NEW f \in Field, WriteField(f) PROVE CInv'
  <2>1. CASE Abort
    BY <2>1 DEF CInv, IdleHasNoCall, MapOfGrid, Abort, Writing
  <2>2. CASE ~ Abort
    <3>1. /\ work'.map = work.map /\ UNCHANGED <<call, filesData>>
          /\ pc = "fields" /\ pc' = "writeMetadata"
      BY <1>3, <2>2 DEF WriteField, populateFileData, IInv, TypeOK, FileData
    <3> QED
      BY <3>1 DEF CInv, IdleHasNoCall, MapOfGrid, Writing
  <2> QED
    BY <2>1, <2>2
<1>4. CASE CreateOutput \/ WriteMetadata
  BY <1>4 DEF CInv, IdleHasNoCall, MapOfGrid, CreateOutput, WriteMetadata, local, Writing
<1>5. CASE WriteData
  <2>1. /\ work'.map = work.map /\ UNCHANGED <<call, filesData>>
        /\ pc = "writeData" /\ pc' = "fields"
    BY <1>5 DEF WriteData, clearData, IInv, TypeOK, FileData
  <2> QED
    BY <2>1 DEF CInv, IdleHasNoCall, MapOfGrid, Writing
<1>6. CASE CreateFails \/ WriteReturn \/ NcExceptionInWrite
  BY <1>6 DEF CInv, IdleHasNoCall, MapOfGrid, CreateFails, WriteReturn, NcExceptionInWrite,
              Return, Writing
<1> QED
  BY <1>1, <1>2, <1>3, <1>4, <1>5, <1>6

LEMMA NextCInv == IInv /\ CInv /\ [Next]_vars => CInv'
<1> SUFFICES ASSUME IInv, CInv, [Next]_vars PROVE CInv'
  OBVIOUS
<1> USE DEF CInv, IdleHasNoCall, MapOfGrid, Writing
<1>1. ASSUME NEW g \in Grid, NEW f \in Field, NEW v \in Value, SetField(g, f, v) PROVE CInv'
  BY <1>1 DEF SetField, local
<1>2. ASSUME NEW c \in Calls, BeginRead(c) \/ BeginInitialise(c) PROVE CInv'
  BY <1>2 DEF BeginRead, BeginInitialise, Begin
<1>3. ASSUME NEW f \in Field, NextField(f) PROVE CInv'
  BY <1>3 DEF NextField
<1>4. CASE \/ InitOpen \/ OpenFails \/ OpenNothing \/ InitMetadata \/ InitGeometry
         \/ createLfricAtlasMap
  BY <1>4 DEF InitOpen, OpenFails, OpenNothing, InitMetadata, InitGeometry, createLfricAtlasMap, Abort
<1>5. CASE createDateTimes
  BY <1>5 DEF createDateTimes, Abort, Return
<1>6. CASE SkipDatum \/ ReadDatum \/ PopulateField \/ ReadReturn
  BY <1>6 DEF SkipDatum, ReadDatum, PopulateField, ReadReturn, Abort, Return
<1>7. CASE NcExceptionInRead \/ Killed \/ CallerClosesFiles \/ NewJob
  BY <1>7 DEF NcExceptionInRead, Killed, CallerClosesFiles, NewJob, Abort, Return, local
<1>8. CASE UNCHANGED vars
  BY <1>8 DEF vars, local
<1> QED
  BY <1>1, <1>2, <1>3, <1>4, <1>5, <1>6, <1>7, <1>8, WritingCInv DEF Next
----------------------------------------------------------------------------
(* The mapping. *)

\* What the store sees of a step that changes neither files nor promises.
LEMMA PromisesFrame == ASSUME UNCHANGED files PROVE Promises' = Promises
BY DEF Promises, files

LEMMA TornFrame ==
    ASSUME Running' = Running, \A g \in Grid : filesData'[g].map = filesData[g].map
    PROVE  TornGrids' = TornGrids
BY DEF TornGrids

\* The store sees no change of the file that is being written.
LEMMA UnfinishedFrame ==
    ASSUME IInv, pc \in WriterOpen, UNCHANGED promise,
           \E file : disk' = [disk EXCEPT ![call.path] = file]
    PROVE  Promises' = Promises
<1>1. promise[call.path] = None
  BY DEF IInv, Writes, WriteProgress
<1> QED
  BY <1>1 DEF Promises, IInv, TypeOK

\* A call in progress is one of Calls, and the store sees it.
LEMMA InProgressNow ==
    ASSUME IInv, pc \in Reading \cup Writing
    PROVE  /\ Running /\ CallNow = call /\ call \in Calls /\ call # None
           /\ Contract!InProgress
           /\ Due = IF call.op \in ReadOp THEN left ELSE {}
<1>1. Running /\ call \in Calls /\ call # None
  BY CallTypes, NamesAssumption DEF IInv, Control, Running, Stopped, Reading, Writing,
     NamesAssumption
<1> QED
  BY <1>1 DEF CallNow, Due, Contract!InProgress

LEMMA IdleNow ==
    ASSUME CInv, pc = "idle"
    PROVE  Running /\ CallNow = None /\ Due = {} /\ ~ Contract!InProgress
BY DEF CInv, IdleHasNoCall, Running, Stopped, CallNow, Due, Contract!InProgress

LEMMA StoppedNow ==
    ASSUME pc \in Stopped
    PROVE  ~ Running /\ CallNow = None /\ Due = {} /\ TornGrids = {} /\ ~ Contract!InProgress
BY DEF Running, CallNow, Due, TornGrids, Contract!InProgress

\* A step that ends the job is a failure to the store.
LEMMA StopFails ==
    ASSUME pc \notin Stopped, pc' \in Stopped, UNCHANGED caller,
           \/ Promises' = Promises
           \/ /\ Contract!InProgress /\ Contract!Writes(CallNow)
              /\ Promises' = [Promises EXCEPT ![CallNow.path] = None]
    PROVE  Contract!Next
<1>1. Running /\ ~ Running' /\ CallNow' = None /\ Due' = {} /\ TornGrids' = {}
  BY DEF Running, CallNow, Due, TornGrids
<1>2. Contract!Fail
  BY <1>1 DEF Contract!Fail, caller
<1> QED
  BY <1>2 DEF Contract!Next

LEMMA AbortRefines == ASSUME pc \notin Stopped, Abort PROVE Contract!Next
BY PromisesFrame, StopFails DEF Abort, Stopped

\* A step of a call that the store does not see.
LEMMA InvisibleStep ==
    ASSUME IInv, pc \in Reading \cup Writing, pc' \in Reading \cup Writing,
           Promises' = Promises, UNCHANGED <<caller, call>>,
           \A g \in Grid : filesData'[g].map = filesData[g].map,
           call.op \in ReadOp => left' = left
    PROVE  UNCHANGED Contract!vars
<1>1. Running' = Running
  BY DEF Running, Stopped, Reading, Writing
<1>2. CallNow' = CallNow /\ Due' = Due
  BY <1>1 DEF CallNow, Due
<1> QED
  BY <1>1, <1>2, TornFrame DEF Contract!vars, caller
----------------------------------------------------------------------------
(* One lemma per operation: between calls, and the beginnings of a call. *)

LEMMA SetFieldRefines ==
    ASSUME CInv, NEW g \in Grid, NEW f \in Field, NEW v \in Value, SetField(g, f, v)
    PROVE  Contract!Next
<1>1. Running /\ Running' /\ ~ Contract!InProgress /\ CallNow' = CallNow /\ Due' = Due
  BY IdleNow DEF SetField, local, Running, CallNow, Due
<1>2. Promises' = Promises /\ TornGrids' = TornGrids
  BY <1>1, PromisesFrame, TornFrame DEF SetField
<1>3. Contract!Compute(g, f, v)
  BY <1>1, <1>2 DEF SetField, Contract!Compute
<1> QED
  BY <1>3 DEF Contract!Next

LEMMA CallerClosesFilesRefines ==
    ASSUME CInv, CallerClosesFiles PROVE UNCHANGED Contract!vars
<1>1. Running' = Running /\ CallNow' = CallNow /\ Due' = Due
  BY DEF CallerClosesFiles, local, Running, CallNow, Due
<1> QED
  BY <1>1, PromisesFrame, TornFrame DEF CallerClosesFiles, caller, Contract!vars

LEMMA KilledRefines == ASSUME Killed PROVE Contract!Next
BY PromisesFrame, StopFails DEF Killed, Stopped

LEMMA NewJobRefines == ASSUME CInv, NewJob PROVE Contract!Next
<1>1. ~ Contract!InProgress /\ CallNow = None /\ Due = {}
  BY IdleNow, StoppedNow DEF NewJob
<1>2. Running' /\ CallNow' = None /\ Due' = {}
  BY DEF NewJob, Return, Running, Stopped, CallNow, Due
<1>3. TornGrids' = {}
  BY NamesAssumption DEF NewJob, EmptyFileData, TornGrids, NamesAssumption
<1>4. Contract!NewJob
  BY <1>1, <1>2, <1>3, PromisesFrame DEF NewJob, Contract!NewJob
<1> QED
  BY <1>4 DEF Contract!Next

\* A call that the code accepts is one that the store begins.
LEMMA BeginRefines ==
    ASSUME IInv, CInv, NEW c \in Calls, Begin(c, pc'), pc' \in {"next", "open", "create"},
           c.op \in ReadOp => left' = c.fields,
           \A g \in Grid : filesData'[g].map = filesData[g].map
    PROVE  Contract!Next
<1>1. Running /\ ~ Contract!InProgress /\ CallNow = None
  BY IdleNow DEF Begin
<1>2. Running' /\ CallNow' = c /\ c # None
  BY NamesAssumption DEF Begin, Running, Stopped, CallNow, NamesAssumption
<1>3. Due' = IF Contract!Reads(c) THEN c.fields ELSE {}
  BY <1>2 DEF Begin, Due, ReadOp, Contract!Reads
<1>4. Promises' = Promises /\ TornGrids' = TornGrids
  BY <1>1, <1>2, PromisesFrame, TornFrame DEF Begin
<1>5. Contract!Begin(c)
  BY <1>1, <1>2, <1>3, <1>4 DEF Begin, caller, Contract!Begin
<1> QED
  BY <1>5 DEF Contract!Next

\* One that it does not accept ends the job.
LEMMA RejectRefines ==
    ASSUME NEW c \in Calls, Begin(c, "aborted") PROVE Contract!Next
BY PromisesFrame, StopFails DEF Begin, Stopped

LEMMA BeginReadRefines ==
    ASSUME IInv, CInv, NEW c \in Calls, BeginRead(c) PROVE Contract!Next
<1>1. CASE Begin(c, "aborted")
  BY <1>1, RejectRefines
<1>2. CASE Begin(c, "next") /\ left' = c.fields /\ UNCHANGED filesData
  <2>1. pc' = "next"
    BY <1>2 DEF Begin
  <2> QED
    BY <1>2, <2>1, BeginRefines
<1> QED
  BY <1>1, <1>2 DEF BeginRead

LEMMA BeginInitialiseRefines ==
    ASSUME IInv, CInv, NEW c \in Calls, BeginInitialise(c) PROVE Contract!Next
<1>1. Begin(c, "open") /\ UNCHANGED filesData /\ c.op \notin ReadOp
  BY DEF BeginInitialise, ReadOp
<1>2. pc' = "open"
  BY <1>1 DEF Begin
<1> QED
  BY <1>1, <1>2, BeginRefines

LEMMA BeginWriteRefines ==
    ASSUME IInv, CInv, NEW c \in Calls, BeginWrite(c) PROVE Contract!Next
<1>1. CASE c.fields = {}
  BY <1>1, RejectRefines DEF BeginWrite
<1>2. CASE c.fields # {}
  <2>1. Begin(c, "create") /\ pc' = "create" /\ c.op \notin ReadOp
    BY <1>2 DEF BeginWrite, Begin, ReadOp, WriteOp
  <2>2. \A g \in Grid : filesData'[g].map = filesData[g].map
    <3>1. \/ UNCHANGED filesData
          \/ filesData' = [filesData EXCEPT ![c.grid] = SharedAfterClean(@)]
      BY <1>2 DEF BeginWrite
    <3>2. \A g \in Grid : SharedAfterClean(filesData[g]).map = filesData[g].map
      BY DEF IInv, TypeOK, FileData, SharedAfterClean
    <3> QED
      BY <3>1, <3>2 DEF IInv, TypeOK
  <2> QED
    BY <2>1, <2>2, BeginRefines
<1> QED
  BY <1>1, <1>2

LEMMA WriteNowhereRefines ==
    ASSUME NEW c \in Calls, WriteNowhere(c) PROVE UNCHANGED Contract!vars
<1>1. Running' = Running /\ CallNow' = CallNow /\ Due' = Due
  BY DEF WriteNowhere, local, Running, CallNow, Due
<1> QED
  BY <1>1, PromisesFrame, TornFrame DEF WriteNowhere, caller, Contract!vars
----------------------------------------------------------------------------
(* Reads and initialiseFile. *)

LEMMA NextFieldRefines ==
    ASSUME IInv, NEW f \in Field, NextField(f) PROVE UNCHANGED Contract!vars
BY PromisesFrame, InvisibleStep DEF NextField, Reading

\* The call that has the reader is one that learns of its grid.
LEMMA LearningCall ==
    ASSUME IInv, pc \in Reading
    PROVE  /\ Running /\ CallNow = call /\ Contract!InProgress /\ Contract!Learns(CallNow)
           /\ call.grid \in Grid
           /\ Due = IF call.op \in ReadOp THEN left ELSE {}
BY InProgressNow, CallTypes
DEF IInv, Control, CallInProgress, ReadOp, Contract!Learns, Contract!Reads

\* A new map for the grid of the call, or none: the store forgets, or learns that the
\* grid is known from a torn file only.
LEMMA LearnRefines ==
    ASSUME IInv, pc \in Reading, pc' \in Reading, UNCHANGED <<files, caller, call, left>>,
           NEW fd, filesData' = [filesData EXCEPT ![call.grid] = fd],
           fd.map = Garbage => \E p \in Contract!Sources(call) : Promises[p] = None
    PROVE  Contract!Next
<1>1. Running' /\ CallNow' = CallNow /\ Due' = Due
  BY LearningCall DEF Running, CallNow, Due, Stopped, Reading
<1>2. Promises' = Promises
  BY PromisesFrame
<1>3. TornGrids' = IF fd.map = Garbage THEN TornGrids \cup {call.grid}
                   ELSE TornGrids \ {call.grid}
  BY <1>1, LearningCall DEF TornGrids, IInv, TypeOK
<1>4. Contract!Learn
  BY <1>1, <1>2, <1>3, LearningCall DEF Contract!Learn, caller
<1> QED
  BY <1>4 DEF Contract!Next

LEMMA InitOpenRefines == ASSUME IInv, InitOpen PROVE Contract!Next
<1>1. EmptyFileData.map # Garbage
  BY NamesAssumption DEF EmptyFileData, NamesAssumption
<1> QED
  BY <1>1, LearnRefines DEF InitOpen, createFileData, local, Reading

LEMMA OpenNothingRefines == ASSUME IInv, OpenNothing PROVE Contract!Next
<1>1. EmptyFileData.map # Garbage
  BY NamesAssumption DEF EmptyFileData, NamesAssumption
<1>2. CASE reader = None
  <2>1. pc \notin Stopped /\ pc' \in Stopped /\ UNCHANGED <<files, caller>>
    BY <1>2 DEF OpenNothing, Stopped
  <2> QED
    BY <2>1, PromisesFrame, StopFails
<1>3. CASE reader # None
  BY <1>1, <1>3, LearnRefines DEF OpenNothing, createFileData, local, Reading
<1> QED
  BY <1>2, <1>3

LEMMA OpenFailsRefines == ASSUME OpenFails PROVE Contract!Next
BY PromisesFrame, StopFails DEF OpenFails, Stopped

LEMMA InitMetadataRefines == ASSUME IInv, InitMetadata PROVE UNCHANGED Contract!vars
<1>1. \A g \in Grid : filesData'[g].map = filesData[g].map
  <2>1. \A g \in Grid : readMetadata(filesData[g], disk[reader]).map = filesData[g].map
    BY DEF IInv, TypeOK, FileData, readMetadata
  <2> QED
    BY <2>1 DEF InitMetadata, IInv, TypeOK
<1> QED
  BY <1>1, PromisesFrame, InvisibleStep DEF InitMetadata, local, Reading

LEMMA InitGeometryRefines ==
    ASSUME IInv, InitGeometry PROVE [Contract!Next]_(Contract!vars)
<1>1. CASE Abort
  BY <1>1, AbortRefines DEF InitGeometry, Stopped
<1>2. CASE ~ Abort
  <2>1. \A g \in Grid : filesData'[g].map = filesData[g].map
    BY <1>2 DEF InitGeometry, IInv, TypeOK, FileData
  <2> QED
    BY <1>2, <2>1, PromisesFrame, InvisibleStep DEF InitGeometry, local, Reading
<1> QED
  BY <1>1, <1>2

\* A map of fill values is made from a file of which nothing is promised.
LEMMA createLfricAtlasMapRefines ==
    ASSUME IInv, createLfricAtlasMap PROVE Contract!Next
<1>1. CASE Abort
  BY <1>1, AbortRefines DEF createLfricAtlasMap, Stopped
<1>2. CASE ~ Abort
  <2> DEFINE fd == filesData[call.grid]
             file == disk[reader]
  <2>1. /\ filesData' = [filesData EXCEPT ![call.grid].map = IF fd.map = None THEN fd.mesh ELSE @]
        /\ pc = "map" /\ pc' = "times" /\ UNCHANGED <<files, caller, call, left>>
    BY <1>2 DEF createLfricAtlasMap, local
  <2>2. /\ call.grid \in Grid /\ file \in File
        /\ reader \in Path /\ reader \in Contract!Sources(call)
        /\ fd.map = None /\ fd.mesh = file.mesh
    BY <2>1, ReaderFile
    DEF IInv, Control, OpenFiles, Reads, InitialiseStages, FromGeometry, FromMetadata,
        EmptyFileData, Contract!Sources, ReaderOpen, Reading
  <2>3. fd.mesh = Garbage => Promises[reader] = None
    <3>1. promise[reader] # None => file.mesh = file.geom
      BY <2>2 DEF IInv, Files, PromiseKept, PromisedMesh
    <3>2. file.geom \in Grid \cup {None}
      BY <2>2 DEF File
    <3>3. file.geom # Garbage
      BY <3>2, NamesAssumption DEF NamesAssumption
    <3> QED
      BY <2>2, <3>1, <3>3 DEF Promises
  <2>4. fd \in FileData
    BY <2>2 DEF IInv, TypeOK
  <2> DEFINE nd == [fd EXCEPT !.map = IF fd.map = None THEN fd.mesh ELSE @]
  <2>5. filesData' = [filesData EXCEPT ![call.grid] = nd] /\ nd.map = fd.mesh
    BY <2>1, <2>2, <2>4 DEF IInv, TypeOK, FileData
  <2> HIDE DEF nd, fd
  <2> QED
    BY <2>1, <2>2, <2>3, <2>5, LearnRefines DEF Reading
<1> QED
  BY <1>1, <1>2

\* The last step of initialiseFile, and of a read: none of its fields is due.
LEMMA EndReadRefines ==
    ASSUME IInv, pc \in Reading, Due = {}, Return, UNCHANGED <<files, caller>>,
           \A g \in Grid : filesData'[g].map = filesData[g].map
    PROVE  Contract!Next
<1>1. Running' /\ CallNow' = None /\ Due' = {}
  BY DEF Return, Running, Stopped, CallNow, Due
<1>2. Promises' = Promises /\ TornGrids' = TornGrids
  BY <1>1, LearningCall, PromisesFrame, TornFrame
<1>3. Contract!EndRead
  BY <1>1, <1>2, LearningCall DEF Contract!EndRead, caller
<1> QED
  BY <1>3 DEF Contract!Next

LEMMA createDateTimesRefines ==
    ASSUME IInv, createDateTimes PROVE [Contract!Next]_(Contract!vars)
<1>1. CASE Abort
  BY <1>1, AbortRefines DEF createDateTimes, Stopped
<1>2. CASE ~ Abort
  <2>1. \A g \in Grid : filesData'[g].map = filesData[g].map
    BY <1>2 DEF createDateTimes, IInv, TypeOK, FileData
  <2>2. CASE call.op = "initialiseFile"
    <3>1. pc \in Reading /\ Due = {}
      BY <2>2, LearningCall DEF createDateTimes, Reading, ReadOp
    <3> QED
      BY <1>2, <2>1, <2>2, <3>1, EndReadRefines DEF createDateTimes
  <2>3. CASE call.op # "initialiseFile"
    BY <1>2, <2>1, <2>3, PromisesFrame, InvisibleStep DEF createDateTimes, Reading
  <2> QED
    BY <2>2, <2>3
<1> QED
  BY <1>1, <1>2

LEMMA ReadReturnRefines == ASSUME IInv, ReadReturn PROVE Contract!Next
<1>1. pc \in Reading /\ Due = {}
  BY LearningCall DEF ReadReturn, Reading
<1> QED
  BY <1>1, EndReadRefines DEF ReadReturn

LEMMA NcExceptionInReadRefines == ASSUME IInv, NcExceptionInRead PROVE Contract!Next
<1>1. CASE Abort
  BY <1>1, AbortRefines DEF NcExceptionInRead, Stopped
<1>2. CASE ~ Abort
  <2>1. call.op = "initialiseFile" /\ Return /\ UNCHANGED <<files, caller, filesData>>
    BY <1>2 DEF NcExceptionInRead
  <2>2. pc \in Reading
    BY DEF NcExceptionInRead, Reading
  <2> QED
    BY <2>1, <2>2, LearningCall, EndReadRefines DEF ReadOp
<1> QED
  BY <1>1, <1>2

\* A field of a read is done: what it now holds is in Filled.
LEMMA FillRefines ==
    ASSUME IInv, pc \in {"datum", "populate"}, call.op \in ReadOp, pc' = "next",
           left' = left \ {cur}, UNCHANGED <<files, fieldName, filesData, call>>,
           NEW v \in Filled(call, Promises[call.path], cur, fieldVal[call.grid][cur]),
           fieldVal' = [fieldVal EXCEPT ![call.grid][cur] = v]
    PROVE  Contract!Next
<1>1. /\ CallNow = call /\ Contract!InProgress /\ Running /\ Due = left
      /\ cur \in left /\ cur \in Field
  BY LearningCall DEF IInv, TypeOK, Control, CurrentField, ReadOp, Reading
<1>2. Running' /\ CallNow' = CallNow /\ Due' = Due \ {cur}
  BY <1>1, InProgressNow DEF Running, CallNow, Due, Stopped, Reading
<1>3. Promises' = Promises /\ TornGrids' = TornGrids
  BY <1>1, <1>2, PromisesFrame, TornFrame
<1>4. Contract!Fill(cur)
  BY <1>1, <1>2, <1>3 DEF Contract!Fill, Contract!Reads, ReadOp
<1> QED
  BY <1>1, <1>4 DEF Contract!Next

LEMMA SkipDatumRefines == ASSUME IInv, SkipDatum PROVE Contract!Next
<1> DEFINE file == disk[call.path]
           old == fieldVal[call.grid][cur]
<1>1. /\ call.grid \in Grid /\ call.path \in Path /\ file \in File /\ cur \in Field
      /\ call.op = "readState" /\ work.conv = file.conv
      /\ readName(call, work, cur) \in Missing
  BY ReaderFile
  DEF SkipDatum, IInv, TypeOK, Control, CurrentField, Reads, ReadStages, FromMap, FromGeometry,
      FromMetadata, EmptyFileData, ReadOp, ReaderOpen, Reading
<1>2. file.conv # JEDI /\ lfricReadName[cur] \in Missing
  BY <1>1, DistinctNames, NamesAssumption
  DEF readName, getVariableConvention, Convention, JEDI, LFRIC, NamesAssumption
<1>3. Promises[call.path] \in {None, file}
  BY <1>1 DEF Promises
<1>4. old \in Filled(call, Promises[call.path], cur, old)
  <2> HIDE DEF file, old
  <2> QED
    BY <1>1, <1>2, <1>3 DEF Filled, Untouched
<1>5. fieldVal' = [fieldVal EXCEPT ![call.grid][cur] = old]
  BY <1>1 DEF SkipDatum, caller, IInv, TypeOK
<1> HIDE DEF old
<1> QED
  BY <1>1, <1>4, <1>5, FillRefines DEF SkipDatum, caller, ReadOp, old

LEMMA ReadDatumRefines == ASSUME IInv, ReadDatum PROVE [Contract!Next]_(Contract!vars)
<1>1. CASE Abort
  BY <1>1, AbortRefines DEF ReadDatum, Stopped
<1>2. CASE ~ Abort
  BY <1>2, PromisesFrame, InvisibleStep DEF ReadDatum, Reading
<1> QED
  BY <1>1, <1>2

\* The datum in hand is one that the file holds for the field.
LEMMA DatumIsHeld ==
    ASSUME IInv, pc = "populate", getReadField(cur) # None
    PROVE  LET datum == work.data[readName(call, work, cur)][1]
           IN  /\ datum \in Held(call, disk[call.path], cur)
               /\ datum \in Datum
               /\ ~ Untouched(call, disk[call.path], cur)
<1> DEFINE n == readName(call, work, cur)
           file == disk[call.path]
<1>1. /\ call.grid \in Grid /\ call.path \in Path /\ call.op \in ReadOp
      /\ file \in File /\ WellFormed(file)
  BY ReaderFile DEF IInv, Control, CallInProgress, ReaderOpen, Reading
<1>2. /\ work \in FileData /\ work.vars = VarsOf(file) /\ work.timed = file.timed
      /\ work.conv = file.conv
      /\ call.op = "readState" =>
            work.times = file.times /\ TimeSteps(work, call.date) # {} /\ n \notin Missing
      /\ n \in VarsOf(file)
      /\ work.data[n] = <<readDatum(call, work, file, n)>>
  BY DEF IInv, TypeOK, Reads, ReadStages, FromMap, FromGeometry, FromMetadata, EmptyFileData
<1>3. n = IF file.conv = JEDI THEN jediName[cur] ELSE lfricReadName[cur]
  BY <1>2, NamesAssumption DEF readName, getVariableConvention, Convention, JEDI, LFRIC,
     NamesAssumption
<1>4. file.data[n] \in Seq(Datum) /\ file.data[n] # <<>>
  BY <1>1, <1>2 DEF VarsOf, File, Contents
<1> DEFINE slices(I) == {file.data[n][i] : i \in {j \in 1..Len(file.data[n]) : j \in I}}
<1>5. Held(call, file, cur) =
        IF call.op = "readIncrements" THEN slices({1})
        ELSE IF n \notin file.timed THEN {Garbage}
        ELSE slices({i \in 1..Len(file.times) : file.times[i] = call.date})
  <2> HIDE DEF n, file
  <2> QED
    BY <1>3 DEF Held
<1>6. ~ Untouched(call, file, cur)
  <2> HIDE DEF n, file
  <2> QED
    BY <1>2, <1>3 DEF Untouched
<1> HIDE DEF n, file
<1>7. readDatum(call, work, file, n) \in Datum
  BY <1>1, <1>2, ReadDatumFinds
<1>8. readDatum(call, work, file, n) \in Held(call, file, cur)
  <2>1. CASE call.op = "readIncrements"
    <3>1. readDatum(call, work, file, n) = file.data[n][1]
      BY <1>1, <1>2, <2>1, ReadDatumFinds
    <3> QED
      BY <1>4, <1>5, <2>1, <3>1
  <2>2. CASE call.op = "readState" /\ n \in file.timed
    <3>1. PICK i \in 1..Len(file.times) :
            /\ file.times[i] = call.date /\ i \in 1..Len(file.data[n])
            /\ readDatum(call, work, file, n) = file.data[n][i]
      BY <1>1, <1>2, <2>2, ReadDatumFinds
    <3> QED
      BY <1>5, <2>2, <3>1
  <2>3. CASE call.op = "readState" /\ n \notin file.timed
    BY <1>5, <2>3 DEF readDatum
  <2> QED
    BY <1>1, <2>1, <2>2, <2>3 DEF ReadOp
<1>9. work.data[n][1] = readDatum(call, work, file, n)
  BY <1>2
<1> QED
  BY <1>6, <1>7, <1>8, <1>9 DEF n, file

LEMMA PopulateFieldRefines == ASSUME IInv, PopulateField PROVE Contract!Next
<1> DEFINE datum == work.data[readName(call, work, cur)][1]
           file == disk[call.path]
           old == fieldVal[call.grid][cur]
           new == IF getReadField(cur) = None THEN old
                  ELSE IF work.map = Garbage THEN Garbage ELSE datum
<1>1. /\ call.grid \in Grid /\ call.path \in Path /\ file \in File /\ cur \in Field
      /\ call.op \in ReadOp /\ work.map = file.mesh
      /\ pc = "populate" /\ pc' = "next" /\ left' = left \ {cur}
      /\ UNCHANGED <<files, fieldName, filesData, call>>
  BY ReaderFile
  DEF PopulateField, IInv, TypeOK, Control, CallInProgress, CurrentField, Reads, ReadStages,
      FromMap, FromGeometry, FromMetadata, EmptyFileData, ReadOp, ReaderOpen, Reading
<1>2. fieldVal' = [fieldVal EXCEPT ![call.grid][cur] = new]
  <2>1. getReadField(cur) # None => getReadField(cur) = cur
    BY DEF getReadField
  <2> QED
    BY <1>1, <2>1 DEF PopulateField, IInv, TypeOK
<1>3. Promises[call.path] # None => Promises[call.path] = file /\ work.map # Garbage
  <2>1. promise[call.path] # None => file.mesh = file.geom
    BY <1>1 DEF IInv, Files, PromiseKept, PromisedMesh
  <2>2. file.geom \in Grid \cup {None}
    BY <1>1 DEF File
  <2>3. file.geom # Garbage
    BY <2>2, NamesAssumption DEF NamesAssumption
  <2> HIDE DEF file
  <2> QED
    BY <1>1, <2>1, <2>3 DEF Promises, file
<1> HIDE DEF file, old
<1>4. new \in Filled(call, Promises[call.path], cur, old)
  <2>1. CASE getReadField(cur) = None
    BY <2>1 DEF Filled, Untouched
  <2>2. CASE getReadField(cur) # None
    <3>1. datum \in Held(call, file, cur) /\ datum \in Datum /\ ~ Untouched(call, file, cur)
      BY <1>1, <2>2, DatumIsHeld DEF file
    <3> HIDE DEF datum
    <3>2. Garbage \in Datum
      BY DEF Datum
    <3> QED
      BY <1>3, <2>2, <3>1, <3>2 DEF Filled
  <2> QED
    BY <2>1, <2>2
<1> HIDE DEF new
<1> QED
  BY <1>1, <1>2, <1>4, FillRefines DEF old
----------------------------------------------------------------------------
(* Writes. *)

LEMMA WritingCall ==
    ASSUME IInv, pc \in Writing
    PROVE  /\ Running /\ CallNow = call /\ Contract!InProgress /\ Contract!Writes(CallNow)
           /\ call \in Call /\ call.grid \in Grid /\ call.path \in Path
           /\ call.op \notin ReadOp /\ Due = {}
BY InProgressNow, CallTypes
DEF IInv, Control, CallInProgress, ReadOp, WriteOp, Contract!Writes

\* What is promised at a path is gone.
LEMMA PromiseTaken ==
    ASSUME IInv, NEW p \in Path, promise' = [promise EXCEPT ![p] = None],
           \E file : disk' = [disk EXCEPT ![p] = file]
    PROVE  Promises' = [Promises EXCEPT ![p] = None]
BY DEF Promises, IInv, TypeOK

LEMMA CreateOutputRefines == ASSUME IInv, CreateOutput PROVE Contract!Next
<1>1. pc \in Writing /\ Running' = Running
  BY DEF CreateOutput, Writing, Running, Stopped
<1>2. CallNow' = CallNow /\ Due' = Due /\ TornGrids' = TornGrids
  BY <1>1, TornFrame DEF CreateOutput, local, CallNow, Due
<1>3. Promises' = [Promises EXCEPT ![CallNow.path] = None]
  BY <1>1, WritingCall, PromiseTaken DEF CreateOutput
<1>4. Contract!Remove
  BY <1>1, <1>2, <1>3, WritingCall DEF CreateOutput, caller, Contract!Remove
<1> QED
  BY <1>4 DEF Contract!Next

LEMMA CreateFailsRefines == ASSUME IInv, CreateFails PROVE Contract!Next
<1>1. pc \in Writing /\ pc \notin Stopped /\ pc' \in Stopped /\ UNCHANGED caller
  BY DEF CreateFails, Writing, Stopped
<1>2. \/ Promises' = Promises
      \/ Promises' = [Promises EXCEPT ![CallNow.path] = None]
  BY <1>1, WritingCall, PromisesFrame, PromiseTaken DEF CreateFails
<1> QED
  BY <1>1, <1>2, WritingCall, StopFails

LEMMA WriteFieldRefines ==
    ASSUME IInv, NEW f \in Field, WriteField(f)
    PROVE  [Contract!Next]_(Contract!vars)
<1>1. CASE Abort
  BY <1>1, AbortRefines DEF WriteField, Stopped
<1>2. CASE ~ Abort
  <2>1. /\ pc = "fields" /\ pc \in Writing /\ pc' \in Writing /\ f \in call.fields
        /\ UNCHANGED <<files, fieldVal, filesData, call, left>>
        /\ fieldName' = IF RenamedField(call, f)
                        THEN [fieldName EXCEPT ![call.grid][f] = writeName(call, f)]
                        ELSE fieldName
    BY <1>2 DEF WriteField, Writing, IInv, Control, CallInProgress, ReadOp, WriteOp
  <2>2. CASE RenamedField(call, f)
    <3>1. writeName(call, f) \in NamesOf(f)
      BY <2>1, WritingCall, WriteNameType DEF IInv
    <3>2. Running' = Running /\ CallNow' = CallNow /\ Due' = Due
      BY <2>1, WritingCall DEF Running, CallNow, Due, Stopped, Writing
    <3>3. Promises' = Promises /\ TornGrids' = TornGrids
      BY <2>1, <3>2, PromisesFrame, TornFrame
    <3>4. Contract!Rename(f)
      BY <2>1, <2>2, <3>1, <3>2, <3>3, WritingCall DEF Contract!Rename
    <3> QED
      BY <3>4 DEF Contract!Next
  <2>3. CASE ~ RenamedField(call, f)
    BY <2>1, <2>3, PromisesFrame, InvisibleStep DEF caller
  <2> QED
    BY <2>2, <2>3
<1> QED
  BY <1>1, <1>2

LEMMA WriteMetadataRefines == ASSUME IInv, WriteMetadata PROVE UNCHANGED Contract!vars
<1>1. pc \in WriterOpen /\ pc \in Writing /\ pc' \in Writing
  BY DEF WriteMetadata, WriterOpen, Writing
<1>2. Promises' = Promises
  BY <1>1, WriterFile, UnfinishedFrame DEF IInv, WriteMetadata
<1> QED
  BY <1>1, <1>2, InvisibleStep DEF WriteMetadata, local

LEMMA WriteDataRefines == ASSUME IInv, WriteData PROVE UNCHANGED Contract!vars
<1>1. pc \in WriterOpen /\ pc \in Writing /\ pc' \in Writing
  BY DEF WriteData, WriterOpen, Writing
<1>2. Promises' = Promises
  BY <1>1, WriterFile, UnfinishedFrame DEF IInv, WriteData
<1> QED
  BY <1>1, <1>2, WritingCall, InvisibleStep DEF WriteData

LEMMA NcExceptionInWriteRefines == ASSUME IInv, NcExceptionInWrite PROVE Contract!Next
<1>1. pc \in WriterOpen /\ pc \notin Stopped /\ pc' \in Stopped
  BY DEF NcExceptionInWrite, WriterOpen, Writing, Stopped
<1>2. Promises' = Promises
  BY <1>1, WriterFile, UnfinishedFrame DEF IInv, NcExceptionInWrite
<1> QED
  BY <1>1, <1>2, StopFails DEF NcExceptionInWrite

\* The file that a write leaves is the one asked for, unless its map was torn: then the
\* store knows its grid from a torn file only.
LEMMA WriteReturnRefines == ASSUME IInv, IInv', CInv, WriteReturn PROVE Contract!Next
<1> DEFINE file == disk[call.path]
<1>1. /\ pc = "fields" /\ pc \in Writing /\ call' = None /\ left' = {}
      /\ promise' = [promise EXCEPT ![call.path] =
                        IF work.map = Garbage THEN None ELSE Requested(call)]
      /\ UNCHANGED <<disk, caller, filesData>>
      /\ Running /\ Running'
  BY DEF WriteReturn, Return, Writing, Running, Stopped
<1>2. CallNow' = None /\ Due' = {} /\ TornGrids' = TornGrids
  BY <1>1, TornFrame DEF CallNow, Due
<1>3. Promises[call.path] = None
  BY <1>1, WritingCall DEF IInv, Writes, WriteProgress, WriterOpen, Promises
<1>4. call.op # "writeFieldSet" /\ call.grid \in TornGrids <=> work.map = Garbage
  <2>1. call.op = "writeFieldSet" => work.map # Garbage
    BY <1>1, NamesAssumption DEF IInv, Writes, WriteFileData, NamesAssumption
  <2>2. call.op # "writeFieldSet" => work.map = filesData[call.grid].map
    BY <1>1 DEF CInv, MapOfGrid
  <2> QED
    BY <1>1, <2>1, <2>2, WritingCall DEF TornGrids
<1>5. work.map = Garbage => Promises' = Promises
  BY <1>1, <1>3, WritingCall DEF Promises, IInv, TypeOK
<1>6. Requested(call) = Written(call, fieldVal, fieldName)
  BY DEF Requested, Written, writeName
<1>7. work.map # Garbage =>
        Promises' = [Promises EXCEPT ![call.path] = Written(call, fieldVal, fieldName)]
  <2> SUFFICES ASSUME work.map # Garbage
               PROVE  Promises' = [Promises EXCEPT ![call.path] = Requested(call)]
    BY <1>6
  <2>1. promise'[call.path] = Requested(call)
    BY <1>1, WritingCall DEF IInv, TypeOK
  <2>2. Requested(call) # None => disk[call.path] = Requested(call)
    BY <1>1, <2>1, WritingCall DEF IInv, Files, PromiseKept
  <2> HIDE DEF file
  <2> QED
    BY <1>1, <2>1, <2>2, WritingCall DEF Promises, IInv, TypeOK
<1>8. Contract!EndWrite
  BY <1>1, <1>2, <1>3, <1>4, <1>5, <1>7, WritingCall DEF Contract!EndWrite, caller
<1> QED
  BY <1>8 DEF Contract!Next
----------------------------------------------------------------------------
(* The refinement. *)

LEMMA InitRefines == Init => Contract!Init
<1> SUFFICES ASSUME Init PROVE Contract!Init
  OBVIOUS
<1>1. Promises = InputFiles
  BY InputAssumption DEF Init, InputAssumption, Promises
<1>2. TornGrids = {}
  BY NamesAssumption DEF Init, EmptyFileData, TornGrids, NamesAssumption
<1> QED
  BY <1>1, <1>2 DEF Init, Contract!Init, Running, Stopped, CallNow, Due

LEMMA StutterRefines == UNCHANGED vars => UNCHANGED Contract!vars
BY DEF vars, files, caller, local, Contract!vars, Promises, TornGrids, CallNow, Due, Running

LEMMA NextRefines ==
    IInv /\ IInv' /\ CInv /\ [Next]_vars => [Contract!Next]_(Contract!vars)
<1> SUFFICES ASSUME IInv, IInv', CInv, [Next]_vars PROVE [Contract!Next]_(Contract!vars)
  OBVIOUS
<1>1. ASSUME NEW g \in Grid, NEW f \in Field, NEW v \in Value, SetField(g, f, v)
      PROVE  Contract!Next
  BY <1>1, SetFieldRefines
<1>2. ASSUME NEW c \in Calls, BeginRead(c) \/ BeginInitialise(c) \/ BeginWrite(c)
      PROVE  Contract!Next
  BY <1>2, BeginReadRefines, BeginInitialiseRefines, BeginWriteRefines
<1>3. ASSUME NEW c \in Calls, WriteNowhere(c) PROVE UNCHANGED Contract!vars
  BY <1>3, WriteNowhereRefines
<1>4. ASSUME NEW f \in Field, NextField(f) \/ WriteField(f)
      PROVE  [Contract!Next]_(Contract!vars)
  BY <1>4, NextFieldRefines, WriteFieldRefines
<1>5. CASE InitOpen \/ OpenFails \/ OpenNothing \/ InitMetadata \/ InitGeometry
  BY <1>5, InitOpenRefines, OpenFailsRefines, OpenNothingRefines, InitMetadataRefines, InitGeometryRefines
<1>6. CASE createLfricAtlasMap \/ createDateTimes
  BY <1>6, createLfricAtlasMapRefines, createDateTimesRefines
<1>7. CASE SkipDatum \/ ReadDatum \/ PopulateField \/ ReadReturn
  BY <1>7, SkipDatumRefines, ReadDatumRefines, PopulateFieldRefines, ReadReturnRefines
<1>8. CASE CreateOutput \/ CreateFails \/ WriteMetadata \/ WriteData \/ WriteReturn
  BY <1>8, CreateOutputRefines, CreateFailsRefines, WriteMetadataRefines, WriteDataRefines,
     WriteReturnRefines
<1>9. CASE NcExceptionInRead \/ NcExceptionInWrite \/ Killed \/ CallerClosesFiles \/ NewJob
  BY <1>9, NcExceptionInReadRefines, NcExceptionInWriteRefines, KilledRefines,
     CallerClosesFilesRefines, NewJobRefines
<1>10. CASE UNCHANGED vars
  BY <1>10, StutterRefines
<1> QED
  BY <1>1, <1>2, <1>3, <1>4, <1>5, <1>6, <1>7, <1>8, <1>9, <1>10 DEF Next

\* Monio implements the store of whole files: over any calls, jobs, failures and
\* crashes, no step of Monio.cc is one that the program could tell from FieldStore.
THEOREM Implementation == Spec => ImplementsFieldStore
<1>1. Spec => []CInv
  BY Invariance, InitCInv, NextCInv, PTL DEF Spec
<1> QED
  BY <1>1, Invariance, InitRefines, NextRefines, PTL DEF Spec, ImplementsFieldStore, Contract!Spec
===============================================================================
