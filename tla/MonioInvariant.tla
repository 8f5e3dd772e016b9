--------------------------- MODULE MonioInvariant ---------------------------
(***************************************************************************)
(* The inductive invariant of Monio.  The properties of Monio speak of the *)
(* ends of a call; the parts of IInv say what is true on the way there.    *)
(* TLC checks IInv on the instances of MCMonio, MonioProofs proves it.     *)
(***************************************************************************)
EXTENDS Monio

ReaderOpen == Reading \ {"open", "next"}
WriterOpen == Writing \ {"create"}

\* The operation in progress is one of the call that the caller made, which for a
\* read or a write has a path and fields.
CallInProgress ==
    pc \in Reading \cup Writing =>
        /\ call \in Calls
        /\ call.op # "initialiseFile" => call.path \in Path /\ left \subseteq call.fields
        /\ pc \in Reading => call.op \in ReadOp \cup {"initialiseFile"}
        /\ pc \in {"datum", "populate", "next"} => call.op \in ReadOp
        /\ pc \in Writing => call.op \in WriteOp /\ call.fields # {}

\* The field in hand is one that is still to do.
CurrentField ==
    \/ pc \in Reading \ {"next"} /\ call.op # "initialiseFile"
    \/ pc \in {"writeMetadata", "writeData"}
    => cur \in left

\* The Reader and the Writer have the call's file open while it is used; for a call
\* without a path, the Reader has the one it had.
OpenFiles ==
    /\ reader # None => disk[reader] # None
    /\ pc \in ReaderOpen => reader # None /\ (call.path \in Path => reader = call.path)
    /\ pc \in WriterOpen => writer = call.path /\ disk[call.path] # None
    /\ pc \notin WriterOpen \cup {"killed"} => writer = None

\* Any file, torn ones included: the mesh is of the geometry or not yet written,
\* and a variable with a time dimension has all its slices.
WellFormed(file) ==
    /\ file.mesh \in {file.geom, Garbage}
    /\ \A n \in file.timed : Len(file.data[n]) = Len(file.times)

FilesWellFormed == \A p \in Path : disk[p] # None => WellFormed(disk[p])

\* A promise is of a whole mesh.
PromisedMesh == \A p \in Path : promise[p] # None => promise[p].mesh = promise[p].geom

\* A stored FileData has metadata and a map, never data of a variable, and a map
\* only together with the mesh of its grid.
StoredFileData ==
    \A g \in Grid :
        /\ filesData[g].data = NoData
        /\ filesData[g].map # None =>
              /\ filesData[g].geom = g
              /\ filesData[g].mesh = filesData[g].map
              /\ filesData[g].map \in {g, Garbage}

\* What initialiseFile has put together at each of its steps.
FromMetadata(file) ==
    [EmptyFileData EXCEPT !.geom = file.geom, !.vars = VarsOf(file),
                          !.timed = file.timed, !.conv = file.conv]
FromGeometry(file) == [FromMetadata(file) EXCEPT !.mesh = file.mesh]
FromMap(file) == [FromGeometry(file) EXCEPT !.map = file.mesh]

InitialiseStages ==
    /\ pc = "metadata" => filesData[call.grid] = EmptyFileData
    /\ pc = "geometry" => filesData[call.grid] = FromMetadata(disk[reader])
    /\ pc = "map" => filesData[call.grid] = FromGeometry(disk[reader])
    /\ pc = "times" => /\ filesData[call.grid] = FromMap(disk[reader])
                       /\ disk[reader].geom = call.grid

\* The copy a read works on, and the datum it has read for the field in hand.
ReadStages ==
    /\ pc \in {"datum", "populate"} =>
          /\ \A x \in {"geom", "vars", "timed", "conv", "mesh", "map"} :
                work[x] = FromMap(disk[call.path])[x]
          /\ work.times = IF call.op = "readState" THEN disk[call.path].times ELSE <<>>
    /\ pc = "datum" => work.data = NoData
    /\ pc = "populate" =>
          LET n == readName(call, work, cur)
          IN  /\ n \in work.vars
              /\ call.op = "readState" =>
                    n \notin Missing /\ TimeSteps(work, call.date) # {}
              /\ work.data[n] = <<readDatum(call, work, disk[call.path], n)>>

\* What a finished read owes a field; see ReadDelivers.
Delivered(f) ==
    \/ lfricReadName[f] \in Missing
    \/ getReadField(f) = None
    \/ Promised(call, f) = {}
    \/ fieldVal[call.grid][f] \in Promised(call, f)

FieldsDelivered ==
    pc \in Reading /\ call.op \in ReadOp /\ promise[call.path] # None =>
        \A f \in call.fields \ left : Delivered(f)

\* The caller's fields keep a name of theirs that stands for a variable.
FieldNames ==
    \A g \in Grid, f \in Field : fieldName[g][f] \in NamesOf(f) \ Missing

\* The fields a write has written, the names it takes for those and the one in
\* hand, and the values.
Done == call.fields \ left
InHand == IF pc \in {"writeMetadata", "writeData"} THEN {cur} ELSE {}
Named == {writeName(call, f) : f \in Done \cup InHand}
Taken(f) == IF work.map = Garbage THEN Garbage ELSE fieldVal[call.grid][f]

\* A write never takes the name of no variable, or without a map.
WriteAccepted ==
    pc \in Writing =>
        /\ pc = "create" => left = call.fields
        /\ Named \cap Missing = {}
        /\ call.op # "writeFieldSet" /\ Done \cup InHand # {} => work.map # None

\* The FileData of a write: the field in hand, and of the file read last only
\* the geometry, with its data until the first field has been written.
WriteFileData ==
    pc \in Writing =>
        /\ work.timed = {}
        /\ work.vars = {writeName(call, f) : f \in InHand}
        /\ work.conv = IF InHand = {} THEN None ELSE OutputConvention(call)
        /\ work.data = [n \in Name |-> IF \E f \in InHand : n = writeName(call, f)
                                       THEN <<Taken(cur)>> ELSE <<>>]
        /\ call.op = "writeFieldSet" => work.map = None /\ work.geom = None /\ work.mesh = None
        /\ work.map # None => /\ work.geom = call.grid
                              /\ work.map \in {call.grid, Garbage}
                              /\ work.mesh = IF Done = {} THEN work.map ELSE None

\* The output: what the fields done have put there, and the fill values of the
\* variables that are only defined.
WriteProgress ==
    pc \in WriterOpen =>
        LET file == disk[call.path]
            defined == Done # {} \/ pc = "writeData"
            withGeometry == defined /\ call.op # "writeFieldSet"
        IN  /\ promise[call.path] = None
            /\ file.times = <<>> /\ file.timed = {}
            /\ file.conv = IF defined THEN OutputConvention(call) ELSE None
            /\ file.geom = IF withGeometry THEN call.grid ELSE None
            /\ file.mesh = IF ~ withGeometry THEN None
                           ELSE IF Done = {} THEN Garbage ELSE work.map
            /\ \A f \in Done : file.data[writeName(call, f)] = <<Taken(f)>>
            /\ \A n \in Name \ {writeName(call, f) : f \in Done} :
                  file.data[n] = IF pc = "writeData" /\ n = writeName(call, cur)
                                 THEN <<Garbage>> ELSE <<>>

Control  == CallInProgress /\ CurrentField /\ OpenFiles
Files    == FilesWellFormed /\ PromisedMesh /\ PromiseKept
Reads    == StoredFileData /\ InitialiseStages /\ ReadStages /\ FieldsDelivered
Writes   == WriteAccepted /\ WriteFileData /\ WriteProgress

IInv == TypeOK /\ Control /\ Files /\ FieldNames /\ Reads /\ Writes
=============================================================================
