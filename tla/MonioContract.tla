--------------------------- MODULE MonioContract ---------------------------
(***************************************************************************)
(* Monio implements FieldStore.  The store is what is really on disk at    *)
(* each path where a write has finished: a step that changes one byte of a *)
(* finished file, or finishes one with other contents than those asked     *)
(* for, is a step FieldStore does not have.                                *)
(***************************************************************************)
EXTENDS Monio

\* What a file holds for field f of a read c: in a state the slices of its date,
\* fill values for a variable without a time dimension; else the first slice.
Held(c, file, f) ==
    LET n == IF file.conv = JEDI THEN jediName[f] ELSE lfricReadName[f]
        slices(I) == {file.data[n][i] : i \in {j \in 1..Len(file.data[n]) : j \in I}}
    IN  IF c.op = "readIncrements" THEN slices({1})
        ELSE IF n \notin file.timed THEN {Garbage}
        ELSE slices({i \in 1..Len(file.times) : file.times[i] = c.date})

\* A read leaves a field alone whose data getReadField loses, and from a state
\* file one that LFRic lacks.
Untouched(c, file, f) ==
    \/ getReadField(f) = None
    \/ c.op = "readState" /\ file.conv # JEDI /\ lfricReadName[f] \in Missing

Filled(c, file, f, old) ==
    IF file = None THEN Datum \cup {old}
    ELSE IF Untouched(c, file, f) THEN {old}
    ELSE Held(c, file, f)

\* The file the write c leaves; Requested, of given fields.
Written(c, values, names) ==
    LET geom == IF c.op = "writeFieldSet" THEN None ELSE c.grid
        name(f) == IF c.op = "writeFieldSet" THEN names[c.grid][f]
                   ELSE IF c.conv = JEDI THEN jediName[f] ELSE lfricName(c, f)
        of(n) == {f \in c.fields : name(f) = n}
    IN  [geom |-> geom, mesh |-> geom, times |-> <<>>,
         conv |-> OutputConvention(c), timed |-> {},
         data |-> [n \in Name |-> IF of(n) = {} THEN <<>>
                                  ELSE <<values[c.grid][CHOOSE f \in of(n) : TRUE]>>]]

(***************************************************************************)
(* The refinement mapping: what FieldStore sees of Monio's state.          *)
(***************************************************************************)
Running == pc \notin Stopped

Promises == [p \in Path |-> IF promise[p] = None THEN None ELSE disk[p]]

TornGrids == {g \in Grid : Running /\ filesData[g].map = Garbage}

CallNow == IF Running THEN call ELSE None

Due == IF Running /\ call # None /\ call.op \in ReadOp THEN left ELSE {}

Contract == INSTANCE FieldStore WITH
    GivenFiles <- InputFiles,
    GivenNames <- jediName,
    NamesFor   <- NamesOf,
    store  <- Promises,
    values <- fieldVal,
    names  <- fieldName,
    torn   <- TornGrids,
    call   <- CallNow,
    due    <- Due,
    up     <- Running

\* Monio implements the store: over all calls, jobs, failures and crashes, every
\* step of Monio.cc is a step of FieldStore or invisible to the program.
ImplementsFieldStore == Contract!Spec
----------------------------------------------------------------------------
(* Every operation of the code returns or throws, and Monio is one thread: a *)
(* call in progress takes its next step.                                      *)
CallStep ==
    \/ \E f \in Field : NextField(f) \/ WriteField(f)
    \/ InitOpen \/ OpenFails \/ OpenNothing \/ InitMetadata \/ InitGeometry
    \/ createLfricAtlasMap \/ createDateTimes
    \/ SkipDatum \/ ReadDatum \/ PopulateField \/ ReadReturn
    \/ CreateOutput \/ CreateFails \/ WriteMetadata \/ WriteData \/ WriteReturn
    \/ NcExceptionInRead \/ NcExceptionInWrite

FairSpec == Spec /\ WF_vars(CallStep)

\* Every call ends: it returns, or it ends the job.  No order of its fields, no
\* field that it skips and no failure leaves a call going round its loop.
CallsEnd == pc \in Reading \cup Writing ~> pc \in Stopped \cup {"idle"}
=============================================================================
