# MONIO in TLA+

TLA+ models of MONIO, the Met Office's NetCDF input and output library for JEDI:
what its calls do to files, to the caller's fields and to its own cache, on one
PE and across all of them, where it puts each value, and what its files declare,
with properties TLC checks on small instances and theorems TLAPS proves for all of
them. `src/` below is the repository.

## The system

| Component | State | Operations | Correct when |
|---|---|---|---|
| `Monio` (singleton, `Monio.cc`) | `filesData_`: a `FileData` per grid name; a `Reader`, a `Writer`, an `AtlasReader`, an `AtlasWriter` | `readState`, `readIncrements`, `writeState`, `writeIncrements`, `writeFieldSet`, `initialiseFile`, `closeFiles` | a read gives each field what its file holds; a write that ends has put exactly what was asked for in the file; nothing of one file gets into another |
| `Reader`, `Writer` | `file_`: an open `File`, or none | open, close, metadata, data, time steps | open only while a call uses it; closed when the code aborts |
| `File` | the NetCDF handle, the path, the mode | dimensions, variables, attributes and data, to and from `Metadata` and `Data` | what is written can be read back |
| `FileData` = `Data` + `Metadata` + horizontal map + date-times | maps of shared pointers to variables, attributes, containers | insert if absent, delete, `clearData`, `removeAllButTheseVariables`, compare | metadata and data of one file, one grid |
| `AtlasReader`, `AtlasWriter` | `dimCount_` | field to and from a data vector, metadata of a new variable | each value at its point and level; the surface level handled by convention |
| `UtilsAtlas` | none | `getGlobalField`, coordinates, `createLfricAtlasMap`, field set comparison | every PE takes part in every collective |
| `Utils`, `Constants.h` | none | strings, file existence, `throwException`; names and sizes | an error on one PE ends all |
| Data containers, attributes | one value each | get and set | |

How they interact. A caller runs the same calls on every PE. In each call the
loop over the `FieldMetadata` gathers a field to the owner PE
(`getGlobalField`: halo exchange, then gather). The owner alone then uses
`Reader` or `Writer`, through a `FileData` it keeps (reads) or copies (writes),
and `AtlasReader` or `AtlasWriter` to move values. After a read the field is
scattered and halos are exchanged. A write takes geometry, levels and the
horizontal map from the `FileData` that the last read or `initialiseFile` left
for the grid. Errors are exceptions: `NcException` is caught in `Monio`'s reads
and writes, which close their files and call `throwException`; that aborts MPI.

What is hard here:

- the cache `filesData_` and its copies outlive a file, and everything inserts
  only if absent, so that what is not dropped stays;
- the copy of a `FileData` is shallow;
- a call may fail, or the job end, after any operation on a file, with an
  output already truncated, defined, or half written, which a later job may read;
- the calls depend on each other: reads and `initialiseFile` prepare writes, for
  the same grid or not;
- PEs keep together only by the messages they exchange; the owner alone sees
  errors and skips fields; every PE looks at the disk for itself.

`PROJECT.json` lists each hazard with its line and the properties that cover it.

## The modules

`Monio.tla` models the owner PE, file operation by file operation.
`MonioRanks.tla` models all PEs, with a file operation as one step.
`FieldLayout.tla` models one field and its variable, value by value, where in the
other two a field has one value.
`FieldStore.tla` says what a program may rely on, and `MonioContract.tla` maps `Monio`
to it.
`OutputMetadata.tla` models the dimensions and variables of the files, over
`Metadata.tla`, the maps of `Metadata`, `Variable` and `Data`.
`FileCopy.tla` models the basic test, which copies a file and compares the two.
`StateFile.tla` models what is taken from a state file for a field: coordinates,
dates and a part of a variable.
Beside each model stand its inductive invariant (`MonioInvariant`, `MonioRanksInvariant`,
`OutputInvariant`, `FileCopyInvariant`, `StateFileInvariant`; that of `FieldLayout` is in its
proofs), its proofs (`MonioProofs`, `ContractProofs`, `RanksProofs`, `FieldLayoutProofs`,
`OutputProofs`, `FileCopyProofs`, `StateFileProofs`, over the lemmas of `Recursion`) and its
instances for TLC (`MC...`).
`Monio` and `MonioRanks` meet in what the owner does: `BeginWrite`, `CreateOutput` in the one are
`BeginWrite` in the other (there, the owner opens its output before the first
halo exchange, as in `Monio.cc:178`), `WriteField` ... `WriteData` are
`WriteField`, `InitOpen` ... `PopulateField` are `ReadField`; the exceptions of
the one are `FileFails` and `CreateFails` of the other.

### Monio

State: `disk` (a file per path), `filesData` (the cache), `reader` and `writer`
(the path each has open), `fieldVal` and `fieldName` (the caller's fields, per
grid), the program counter `pc` and the locals of the call in progress (`call`,
`work` for its `FileData`, `cur` and `left` for its loop). `promise` is a history
variable: what the last finished write put at a path, None while a write is
under way or has failed.

A file is a record: the grid its mesh dimensions are for, what its mesh variables
hold (that grid, or Garbage for fill values), its times, its convention
attribute, which variables have a time dimension, and per variable a sequence of
values, one per time step. A field has one value. So two files, two grids, two
steps of time, two calls, and written from never written can be told apart, and
the index arithmetic inside a variable cannot.

| Code | Actions |
|---|---|
| `readState`, `readIncrements` | `BeginRead` (checks and `fileExists`), then per field `NextField`, the steps of `initialiseFile`, `ReadDatum` or `SkipDatum`, `PopulateField`; at the end `ReadReturn` |
| `initialiseFile` | `BeginInitialise`, `InitOpen` (with `createFileData`) or `OpenNothing` (no path), `InitMetadata`, `InitGeometry`, `createLfricAtlasMap`, `createDateTimes` |
| `writeState`, `writeIncrements`, `writeFieldSet` | `BeginWrite` (`getFileData` and `cleanFileData`), `CreateOutput`, then per field `WriteField`, `WriteMetadata`, `WriteData` (with `clearData`); `WriteReturn`. `WriteNowhere`: no path |
| errors | `Abort` (a check of the code), `OpenFails` and `CreateFails` (`File::File` aborts by itself), `NcExceptionInRead`, `NcExceptionInWrite` (with a part of the variables written, or lost when the file is closed), `Killed` (between any two steps) |
| the caller | `SetField`, `CallerClosesFiles`, `NewJob` |

Choices worth knowing:

- `addJediData` is part of the geometry of a file. Its variables are derived from
  the mesh variables and share their fate.
- The loop over `fieldMetadataVec` may take its fields in any order, which
  includes the code's.
- `readMetadata`, `populateFileData` and the rest keep insert-if-absent as it is,
  so that leftovers would show.
- `readIncrements` does not pass `doCreateDateTimes`; `readState` does;
  `initialiseFile` has it as a parameter (`times` of a call).
- `cleanFileData` deletes the time dimension from `Variable`s that the stored
  `FileData` shares with the copy: `SharedAfterClean`.
- `initialiseFile` does not catch `NcException`. The caller may, and goes on with
  the reader open and the `FileData` half made (`NcExceptionInRead`).
- `initialiseFile` does not check its path. Without one, `Reader::openFile` leaves the
  file that is open, after a read that an `initialiseFile` began, and that file is read
  for the grid; if none is open, `getFile` aborts (`OpenNothing`).
- `closeFile` at the end of a read or a write may throw as well. It is inside the `try`,
  so the call aborts; of a write, any part of what NetCDF held back is missing from the
  file (`lostOnClose`).
- After a kill between definition and data, a file's mesh is Garbage, and so is
  a map made from it; nothing is promised of a field read or written with it.

`MonioInvariant.tla` holds the inductive invariant, `MonioProofs.tla` the proofs,
`MCMonio.tla` the instances.

### MonioRanks

State: the program (a sequence of calls, the same on every PE); per PE the call,
the step and the field it is at; its own points of each field, what it has of
each neighbour in its halo; the owner's global field; the disk; and the messages
of halo exchanges, gathers and scatters that were sent and not yet received.
Values are the number of the call that computed them.

Per field, a PE sends to its neighbours and receives from all (`HaloBeforeGather`,
`HaloGathered`), sends to the owner (`GatherSend`) or receives there
(`GatherReceive`), the owner does its file work (`ReadField`, `WriteField`), and in
a read there follow `ScatterSend`, `ScatterReceive` and the second halo exchange
(`HaloSentAfter`, `HaloReceivedAfter`). `initialiseFile` and the file check of a
read (`BeginRead`) use no message. `throwException` kills the PE, `Die` the others,
each at a time of its own. A field LFRic lacks (`Skipped`) has in LFRic's convention one of
`kMissingVariableNames` (`nameMissing`): a read of an LFRic file skips it, a write in that
convention aborts at it (`FileFails`), and in JEDI's it is a field as any other.

Atlas is external. Its collectives are modelled as the messages MPI sends for
them: a send does not wait (small messages are buffered), a receive does. A model
in which a gather waited for the owner would hide what a fast PE can do.

### FieldLayout

State: the map from LFRic to Atlas points, the field with its levels and its
metadata, its variable in the file, and as history the field last written and what
was done last. Everything is on the owner, where fields are global. A variable is
the data vector, with its number of levels, its file's convention and who wrote it.

| Code | Definitions |
|---|---|
| `createLfricAtlasMap` | the map of `Init`: the Atlas point nearest to each LFRic point, in any order of `Orders` |
| `AtlasReader::populateFieldWithFileData` | `Read`: `ReadLevels` (`getReadField`), `FirstLevel`, `ExceedsSize` (the bounds check, then an abort), `populateField` |
| `AtlasWriter::populateFileDataWithField` | `Write`: `Misconfigured` (abort), `getWriteField` with `copySurfaceLevel`, `populateDataVec` |
| the same, for `writeFieldSet` | `writeFieldSet`: `populateDataVecInAtlasOrder` |
| `addVariableDimensions` | `ValueAt`: a reader of the file finds level `l` and point `p` at `l * Size + p` |
| the caller | `Compute` |

Choices worth knowing:

- The two loops of `populateDataVec` become a function on the indices: at each
  place the vector has what was stored there last, or the zero it was made with.
- A read of an index past the end of a vector is undefined in the code; here it
  gives `Garbage`, which no property lets into a field.
- A read that aborts may have filled a part of the field. Nothing runs after an
  abort, so the field is left as it was.
- The kind of file `writeFieldSet` makes has no mesh, and a read of it aborts.
- `Size` is two or more: with one point the bounds check would let an index past
  the end through.

### FieldStore and MonioContract

`FieldStore` is a store of whole files and a program with fields. A call is in progress
or not; a read fills each of its fields once with what its file holds, and ends when
none is due; a write takes the old file away and ends with the new one in its place; a
job fails at any moment, and may take the file in hand with it. What is known of a grid is of
the file of the call, or, where that has no path, of one opened before (`Sources`). No step of it sees a
reader, a `FileData`, metadata or an order of operations.

`MonioContract` states the mapping:

| FieldStore | Monio |
|---|---|
| `store` | `Promises`: the files on `disk` that something is promised of; any other is None |
| `values`, `names` | `fieldVal`, `fieldName` |
| `up` | `Running`: `pc` is not among `Stopped` |
| `call` | `CallNow`: `call`, of a job that is running |
| `due` | `Due`: `left`, of a read |
| `torn` | `TornGrids`: the grids whose `FileData` have a map made from fill values |
| `Held`, `Filled`, `Written` | what the arguments of the call and the names in the file say, not what `ReadDatum` and `PopulateField` do |

A read ends one field at `PopulateField` or `SkipDatum`; `Remove` is `CreateOutput`,
`EndWrite` is `WriteReturn`; the steps of `initialiseFile` and the definition and data of
each field stutter. `FairSpec`, for the property that calls end, is in the same module.

### OutputMetadata and Metadata

State: the stored `FileData` of the grid, that of the write in progress, the output, the
fields still to be written, and `dimCount_`. Metadata are a size for each dimension, and
the dimensions of each variable with their sizes; a container is its length and whose
values it has. Names have an order, that of the keys of a `std::map`, since the first
dimension of a size is the one that is found.

| Code | Definitions |
|---|---|
| `initialiseFile` | `InitialiseFile`: `readMetadata`, and data of the mesh and the levels |
| `Variable::deleteDimension`, `Metadata::deleteDimension` | `deleteVariableDimension` (the first of that name), `deleteDimension` |
| `cleanFileData`, `addJediData`, the shared variables | `BeginWrite`: `cleanFileData`, `addJediData`, `SharedAfterClean` |
| `populateFileDataWithField`, `writeMetadata`, `writeData`, `clearData` | `WriteField` and `WriteOut`; `WriteFieldOfSet` for `writeFieldSet`, with `newName` |
| `addVariableDimensions`, `Variable::addDimension` | `addVariableDimensions`, `AlreadyDefined` (an abort) |

### FileCopy

`testFunction` of `src/test/monio/StateBasic.h`, statement by statement: `ReadFirst`,
`WriteMetadata`, `WriteData`, `ReadSecondMetadata`, `CompareMetadata`, `CompareData`. A
variable has a type, dimensions and attributes with types, each of which is changed by the
switches of `File` in both directions. The second file read is the output or any other, so
that the comparisons meet files that differ. The test reads the output while the writer
has it open; that the reader finds it complete is left to NetCDF. An attribute has one
value.

### StateFile

State: the open file, its coordinates, map and dates, and the container last read, where
each value is known by its indices in the variable. `initialiseFile` has the order in which
`getCoordData` finds coordinates, the search of the nearest point, and the rounding of
times; `readDatumAtTime` the start and count vectors, of which NetCDF takes as many
elements as the variable has dimensions; `readFullDatum` all of a variable. Times are in
half seconds, so that rounding shows. The k-d tree of Atlas finds the point that is closest in
space, on a unit sphere; here the distance of two positions is a constant, `Distance`, of
which `MetricAssumption` says no more than that it is a metric. `MCStateFile` has the
distance in space, with positions in tenths of a degree: four points some 0.4 degrees from
the next, as the points of the grid of the tests (CS-LFR-224) are, two on either side of the
meridian where longitudes start and two on either side of a pole, whose longitudes are
180 degrees apart. Its `AllAreNext` shows that the positions in its files, off by a tenth of a
degree, are those `MapFindsPoints` speaks of.

## Runs

All runs set `CHECK_DEADLOCK FALSE`: a caller may stop calling, a program ends,
and a job that has aborted stays so. That no PE waits for ever is `NotAllWaiting` and `Termination`.

| Run | Instance | Shows |
|---|---|---|
| `one_grid` | one grid, a state file of two times and an output, two fields (one with two LFRic names and global, one with a surface level), 4 calls, 2 jobs, any failure | `IInv`; `PromiseKept`; `ReadDelivers`; `AbortClosesWriter`; `ImplementsFieldStore`; `CallsEnd` |
| `two_grids` | two grids with a state file each and an output, two fields (one that LFRic lacks), 4 calls, 2 jobs | the promises to the caller across grids, `FreshMetadata` and the refinement `ImplementsFieldStore`: also when the file of one grid is read for the other, overwritten, or has no path |
| `surface_level` | a field with 71 levels that is `noFirstLevel` | violates `ReadFillsEveryField` |
| `ranks` | 3 PEs in a row, 2 fields (one that LFRic lacks), every program of 4 calls out of 6, with writes in both conventions, any file operation may fail | `SequentialEquivalence`, `HaloCoherent`, `CollectivesMatch`, `NotAllWaiting`, `WrittenFileVisible`, `Termination` |
| `ranks_visible` | 3 PEs in a row, one field | violates `WrittenFileVisible` |
| `field_layout` | 3 points, 71 levels shrunk to 3, fields and variables of 1 to 3 levels, all 27 maps of points, both conventions, calls without bound | `RoundTrip`, `AtItsPoint`, `WholeVariable`, `ReadStaysInData` |
| `output_metadata` | 6 points; 6 fields: on full and half levels, with and without a surface level, on one level, on the tiles, and with as many levels as there are points; files with 1 time and 9 tiles, and 9 times and 1 tile; 5 calls | `IInv`, `DeclaredSize`, `OutputWithoutTime`, `MeshKept`, `DataHaveVariables` |
| `level_dim_lost` | a field on the tiles | violates `OnlySingleLevelDropped` |
| `file_copy` | every type of variable and attribute, files with two or three dimensions, one or two variables, and either of two data | `CopyIsEqual`, `CopyIsComplete`, `EqualIsSame` |
| `state_file` | 4 points in each of their 24 orders, longitudes from -180 or 0, both coordinates off by a tenth of a degree; 0 to 3 times, two of them one date; dimensions of four kinds; files opened one after another without bound | `SliceOfDate`, `MapFindsPoints` |
| `lfric_order` | the same as `field_layout`, with permutations | violates `InLfricOrder` |
| `field_set_dims` | the same as `field_layout` | violates `FieldSetReadable` |

The properties:

- `PromiseKept`: once a write has finished, its file is exactly what it was asked
  for (the geometry of its grid, the convention, its fields, no leftovers) until
  the next write to that path begins.
- `ReadDelivers`: a read that gets to its end has put the promised value into each
  field. Excepted are fields whose name is in `kMissingVariableNames`, fields the
  file does not promise, and the field of `surface_level`.
- `FreshMetadata`: while data are read, the metadata, map and dates in use are the
  open file's.
- `AbortClosesWriter`: the code's own aborts close the output first.
- `SequentialEquivalence`: at each call boundary every PE has what one process
  running the program would have, and the owner's files too.
- `HaloCoherent`: after a read or write the halo holds the neighbours' values.
- `CollectivesMatch`: a message is received in the call, field and step it was
  sent for, and none is left over.
- `NotAllWaiting`: the PEs that have not finished are never all waiting for a message.
- `WrittenFileVisible`: a PE about to read a file an earlier call wrote finds it.
- `Termination`: every PE ends the program, or every PE dies.
- `RoundTrip`: what a write wrote, a read gives back at every point and level,
  whatever the order of points, the levels and the convention. If several LFRic points
  have one nearest Atlas point, all of them get the column of one of them.
- `AtItsPoint`: after a read of LFRic's file or a write, the value at each level
  and point of the file is that of the Atlas point next to it, if the map is its
  own inverse (see the findings).
- `WholeVariable`: a write leaves no place of its vector unwritten.
- `ReadStaysInData`: nothing from past the end of a vector gets into a field, although
  the check `index <= size` is off by one: of a level too many it lets through the
  index of one point only, and the next index of that level stops the read.
- `ImplementsFieldStore`: the refinement. It says in one formula that a call is seen as a
  whole: fields change only by the reads of a call and each once, a file is replaced or
  gone and never mixed, and no failure is reported as success.
- `CallsEnd`: a call in progress returns, or ends the job.
- `DeclaredSize`: what a file declares for a variable is the length of the vector that
  `writeSingleDatum` gives NetCDF, whatever the fields before it. A field of `writeState`
  whose number of levels the file has no dimension for is excepted; see the findings.
- `OutputWithoutTime`: no output has the dimensions or variables of time and tiles, also
  where a field has as many levels as the file has times.
- `MeshKept`: an output has all of the mesh from its first field on, also an output made
  from one that was initialised from an output.
- `DataHaveVariables`: no datum is left over from one field to the next.
- `CopyIsEqual`, `CopyIsComplete`: whatever types the attributes have in a file, a copy of
  it is found equal by the comparison, and is.
- `EqualIsSame`: variables and data that are found equal are, and either may be on the
  left, though the loops go by the size of the left one.
- `SliceOfDate`: the vector read for a date is full, and each value has the point, the
  level and a time within half a second of the date.
- `MapFindsPoints`: the map finds, for each point of the file, the Atlas point that it is
  next to: less than half as far away as that is from any other (`NextTo`). It does for each
  order of the points, both ways to count longitudes, and at a pole.

Bounds. Four calls let a write follow a read of one file and an
`initialiseFile` of another and be read back; the second job lets a torn file be
met. Two times, two values and two grids are what it takes to tell right from
wrong; the proofs remove these bounds. In the ranks runs the third PE in the row
is the first that has no halo with the owner, four calls let it run ahead from a
write through a read into a computation. In `FieldLayout` each value of a field is marked with its field,
point and level, so that no two are equal; three points are the fewest that have an
order which is not its own inverse, and with three levels for 71 the surface level,
a level in the middle and the top differ. It needs no bound on the calls. `OutputMetadata` needs three calls for initialise, write and initialise from the output, and two more to write
from that; with sizes 71, 70, 9, 8, 6, 2 and 1 every dimension of the file is found by
its size, and some fields find another than their own. No field of any instance has the
name of a coordinate (`NamesAssumption`); see the observations.
In `StateFile` four points have two on either side of the meridian where longitudes start
and two on either side of a pole, and three times have a pair that is one date, in both orders with a third.

Fairness. The safety properties need none. `FairSpec` of `MonioContract` has `WF` of the
steps of a call in progress: MONIO is one thread on the owner, each file operation returns
or throws, and nothing waits for the caller. It has none for the caller, who may stop
calling, nor for `Killed`. In `MonioRanks` every PE is a
running process (`WF` of its steps), and an MPI abort reaches every PE (`WF` of
`Die`). Both are per PE; nothing is assumed of who is first.

### Findings

- `surface_level`: `getReadField` (`AtlasReader.cc:206`) makes a new field for a
  `noFirstLevel` field of 71 levels, fills that and drops it. The caller's field
  is left as it was; no error is reported.
- `ranks_visible`: a PE further from the owner than there are halo steps in a
  write may test for the file before the owner has created it, and abort the
  job. `ranks` shows that two fields are enough for three PEs in a row.
  It needs a gather that does not wait for its root, and no other
  synchronisation between the two calls.
- `lfric_order`: the map gives an Atlas point for each LFRic point; the index of
  `populateField` and `populateDataVec` wants the opposite. The two agree for an order
  that is its own inverse, the identity for one (`AtItsPoint`, proved). Otherwise a
  value is written, and read, at another point than its own, and a write and a read
  together hide it (`RoundTrip`, proved). The repository has no mesh to tell whether
  the orders in use are of that kind.
- `field_set_dims`: `writeFieldSet` stores the levels of a point together, but declares
  the levels as the first dimension.
- `level_dim_lost`: `cleanFileData` deletes `surface_tiles`, then a field on the tiles looks
  for a dimension of its size, finds none, and is declared with its points only. Of nine
  levels one gets into the file; the comment at the place speaks of 1-D fields.

### Observations

Seen while modelling, in the definitions named, without a run of their own:

- `getFileData` (`Monio.cc:384`) promises a copy and returns one that shares its
  variables; `cleanFileData` changes the stored ones (`SharedAfterClean`). Later calls are
  unharmed: `PromiseKept` and `ReadDelivers` are proved with this effect modelled.
- A write in the LFRic convention renames a global field of the caller's `const` field
  set (`AtlasWriter.cc:358`, `RenamedField`); a later JEDI write of it aborts. The abstract
  store has `Rename` for it.
- `initialiseFile` returns the LFRic convention on every PE but the owner
  (`Monio.cc:334`, `result` in `MonioRanks`).
- `writeFieldSet` finds dimensions by size, so it aborts on a field with as many levels
  as points (`AlreadyDefined`); and it adds "longitude" and "latitude" to the data first
  (`WriteFieldOfSet`), so that a field of that name, as the geometry of JEDI has, is
  written with the coordinates instead.
- `operator==` of `Metadata` takes dimensions of different numbers for equal, and of the
  same number by their sizes only (`Metadata.cc:33`, `sameDimensions`). `EqualIsSame` says
  what can be relied on: the variables and data.
- `kLfricLonVarName` is "Mesh2d_face_y". The order of a map in `getCoordData` undoes what the
  constants do; one who indexed `kLfricCoordVarNames` with `eLongitude`, as the comment at
  `Constants.h:48` suggests, would swap the axes (`coordsAsAsked` violates `MapFindsPoints`).

## Proofs

`MonioProofs.tla` proves for all constants that meet the named assumptions of
`Monio`:

| Theorem | Property |
|---|---|
| `Invariance` | `IInv` |
| `TypeCorrect` | `TypeOK` |
| `PromisesKept` | `PromiseKept` |
| `MetadataFresh` | `FreshMetadata` |
| `ReadsDeliver` | `ReadDelivers` |
| `AbortsClosed` | `AbortClosesWriter` |

Assumptions. `NamesAssumption` and `BoundAssumption` type the constants.
`FieldAssumption`: each field has a number of levels. `DistinctNames`: two fields
share a name only where it stands for no variable, and none has such a name in
JEDI. `InputAssumption`: the files of the start have mesh data for their
dimensions, and a slice per time for each variable with a time dimension.
The bounds `MaxCalls` and `MaxJobs` are arbitrary numbers.

Argument. `PromiseKept` says nothing about a write in progress, so by itself it
does not survive the step that finishes one. `IInv` adds, for a write:
`WriteProgress` (the output holds exactly the fields done, and fill values of the
one in hand) and `WriteFileData` (the `FileData` carries the field in hand, and of
the file read last only its geometry, whose data go into the output with the
first field). That in turn needs `StoredFileData`: what the cache keeps of a grid
has a map only with the mesh of that grid. For a read: `InitialiseStages` (the
stored `FileData` after each step is that of the open file), `ReadStages` (the copy
and the datum are the file's) and `FieldsDelivered` (the fields done have their
values). `Control` relates `pc` to the call, the open files and the loop;
`FilesWellFormed` keeps even torn files readable. One lemma per action shows that
it keeps `IInv`, part by part; frame lemmas give the parts an action cannot touch;
`NextInv` combines them, and PTL does the induction over time.

`FieldLayoutProofs.tla` proves, for any number of points (two or more), of levels,
any values, and any map:

| Theorem | Property |
|---|---|
| `TypeCorrect` | `TypeOK` |
| `RoundTrips` | `RoundTrip` |
| `ValuesAtTheirPoints` | `AtItsPoint` |
| `VariablesWhole` | `WholeVariable` |
| `ReadsStayInData` | `ReadStaysInData` |

Assumptions. `SizeAssumption`: the sizes, with levels no more than 71 (there, any
number from two). `ValueAssumption`: zeros and garbage can be told from values, and
the constants have their types. `WholeVariable` and `ReadStaysInData` are for
permutations: if two LFRic points have the same nearest Atlas point, a write does leave a
place of the vector unwritten. `RoundTrip` is for any map: each point gets the column that
was stored last for its place (`VectorColumn`, `WrittenColumn`).

Argument. `IndexUnique` and `IndexOnto`: points and levels, and the places of a
vector, correspond one to one, by division with remainder. Hence `VectorValue` (after
`populateDataVec` with a permutation each value is at its index), `VectorFull`
(there is nothing else) and `ReadWithin` (if no index exceeds the size by the
code's check, none equals it either, since then that of the point next to it would
exceed it). The properties relate a read to a write long before, so the invariant of
that module keeps what the variable holds as a function of the field it was made
from (`VariableWritten`, `FieldSetWritten`), what the last call did (`FieldInStep`) and that
garbage is nowhere (`NoGarbage`).

`ContractProofs.tla` proves the refinement, under the assumptions of `Monio`:

| Theorem | Property |
|---|---|
| `Implementation` | `ImplementsFieldStore` |

Argument. One lemma per action of `Monio` shows the step of `FieldStore` it is, or that
`FieldStore` sees no step. It takes `IInv` before and after the step: that what a finished
write promised is what is on disk (`PromiseKept`), that a read has its values from the file it
names, that a write ends with all it was asked for. Beyond it, `CInv` says what the map of a
`FileData` is while a call goes on, and thus which grids a failed read leaves torn.
`NamesAssumption` says that None is no call, which the mapping of `call` needs.

`RanksProofs.tla` proves, for any number of PEs, any neighbours, any number of fields and
any program:

| Theorem | Property |
|---|---|
| `TypeCorrect` | `TypeOK` |
| `SameAsOneProcess` | `SequentialEquivalence` |
| `HalosAreCoherent` | `HaloCoherent` |
| `MessagesMatch` | `CollectivesMatch` |
| `FilesAreVisible` | `WrittenFileVisible`, where `NearOwner` holds |
| `NoDeadlock` | `NotAllWaiting` |

Argument. The invariant (`MonioRanksInvariant`) makes everything a function of where each
PE is: in a call, at a field, in one of seven phases of it. A message is under way exactly if
its sender is past the phase that sends it and its receiver not past the one that receives it
(`Channels`), each box has its messages once and in the order of the program (`Carries`), and
what they hold is what one process has at that place (`HaloMessage` and the others). So the
head of a box, if there is one, is what its receiver looks for, and a PE that does not find
it waits. A PE that has died is taken to be in some phase (`\E ph`), since what it sent
still arrives. `Values` says the same of fields, halos, the owner's global field and the disk. That an LFRic
file never has a field LFRic lacks (`FileNames`) makes the owner skip exactly the fields that
one process, which looks only at what a file holds, would not find.
No bound on how far PEs are apart is needed. TLC checked this invariant on every reachable
state of the instance of `ranks` with programs of three calls; with four, checking it takes
longer than a run should, and no run has it.

`NoDeadlock`: of the PEs that have not finished take one that no other is behind (`LastPE`).
Whatever it waits for has been sent, or is sent by a PE in the same phase that waits for
nothing, as the owner in a scatter. This is the part of `Termination` that is a safety
property; that a PE which can go on does, and that an abort reaches the others, is fairness.

`FilesAreVisible`: a PE past a write has taken a message of each neighbour in each of its
exchanges, one per field. A neighbour nearer to the owner has then done all of them but the
last, and so on to the owner (`OwnerHasOpened`), who sends in the first exchange only after
`Writer::openFile`; and no call takes a file away (`FilesExist`, `FileStays`). The hypothesis
`NearOwner` says that there are enough exchanges to get to the owner: no PE is more neighbours
away from it than a write has fields. `ranks` has such an instance (two fields, two steps),
and without it the property is false: `ranks_visible` (one field, two steps).

`OutputProofs.tla` proves, for any files with a mesh, any fields, sets and numbers of calls:

| Theorem | Property |
|---|---|
| `Invariance` | `IInv` |
| `TypeCorrect` | `TypeOK` |
| `SizesDeclared` | `DeclaredSize` |
| `NoTimeWritten` | `OutputWithoutTime` |
| `MeshIsKept` | `MeshKept` |
| `DataAreDeclared` | `DataHaveVariables` |

Assumptions. `SchemaAssumption`: an input file (`IsInput`) has dimensions for its variables,
none twice in one variable, one of them for the points that is neither time nor tiles, the mesh
and the levels without time and tiles; and if it has the levels that MONIO adds, they have
MONIO's sizes. `NamesAssumption`: no field is named like the mesh, the levels, the coordinates,
time or tiles (`Reserved`), and the names "dim0", "dim1" and so on are not those of the
dimensions MONIO removes or adds. The first is what the code relies on and does not check: a
field named "longitude" is written with the coordinates, see the observations.

Argument. What has a size in the metadata has that size in the file, through every operation
that inserts only if absent (`Within`, both ways, after each field), so a name found for a
size in the one stands for that size in the other. After a write the stored `FileData` is not
what it was: `IsGrid` says what is left, and that it is enough for the next write.

`FileCopyProofs.tla` proves, for any files:

| Theorem | Property |
|---|---|
| `TypeCorrect` | `TypeOK` |
| `TestPasses` | `CopyIsEqual` |
| `NothingLost` | `CopyIsComplete` |
| `EqualFilesAreSame` | `EqualIsSame` |

Assumption. `FilesAssumption`: attributes have a type and a value; variables have data, and
dimensions that the file has.

Argument. The invariant (`FileCopyInvariant`) says what the two `FileData` and the output are
at each statement. What is read, written and read again is what was read (a conversion of a type, then
back, then again ends where the first did), so the second comparison is of equals. In the other
direction, two maps walked in step by the order of their keys, with as many keys, have the same
keys (`SameNames`) and so the same values.

`StateFileProofs.tla` proves, for any grid, any files and any dates:

| Theorem | Property |
|---|---|
| `TypeCorrect` | `TypeOK` |
| `PointsAreFound` | `MapFindsPoints` |
| `DatesAreSliced` | `SliceOfDate` |

Assumptions. `FileAssumption`: files have coordinates for each point, and no dimension twice in
the variable. `MetricAssumption`: distances are the same both ways and keep the triangle
inequality, as those on a sphere and those in space do.

Argument. The invariant (`StateFileInvariant`) says that map, dates and vector are those of the
open file. The Atlas point closest to a position is no further from it than the one the
position is next to; so the two are no further apart than twice that, and are one
(`ClosestIsNext`). The counts of a
slice multiply to the size of the container, whatever the place of the time dimension, and a
beginning of them to no more (`OneInFront`, `ProductOfPrefix`): no vector is written past its end.
With time as the first dimension, the index of a value is its level times the points plus its
point (`SliceWithLevels`).

Recursion. `getTotalSize`, `Keys`, `Product`, `WithoutTime` and `Sequential` are recursive
functions. What they do for every argument is proved without the induction theorems of the
library, which take an operator as a parameter: `Recursion` has a least number of every set of
numbers from `WFMin` (`LeastNumber`), from it induction over a set (`Induction`), and from that
the existence of a function that goes by a given step (`FunctionExists`), which each recursive
definition needs before it can be unfolded.

Only model-checked:

- `Termination` and `CallsEnd`: liveness, out of TLAPS's reach, as is anything with ENABLED or
  fairness.
- The properties that the violating runs refute.

## Plan

Built, in this order: `Monio`, `MonioInvariant`, `MonioProofs`, `MCMonio`, `MonioRanks`,
`MCMonioRanks`, `FieldLayout`, `MCFieldLayout`, `FieldLayoutProofs`; then `FieldStore`,
`MonioContract`, `Metadata`, `OutputMetadata`, `FileCopy`, `StateFile` and their instances; then
the invariants and proofs of `MonioContract`, `MonioRanks`, `OutputMetadata`, `FileCopy` and
`StateFile`, with `Recursion`. To come:

1. Action properties that follow from the invariants: what a step may never do to a file
   that is finished, or to the fields of a PE outside its reads.

## Not modelled

- Formatting, logging, the names and values of the attributes that describe an
  increment, and the parsing of the time origin.
- Attributes with several values, which are read into one variable; times before the
  origin of a file.
- A `FieldMetadata` without a field (Atlas throws; the files stay open; the disk
  is as after `Killed`), and an empty `fieldMetadataVec` with a non-empty field set,
  which writes an empty file.
- `closeFiles` itself throwing, from within the handler of another `NcException`, also of
  one that a `closeFile` threw: the exception would leave the call, with the file open.
- Two grids with the same number of points, which `createLfricAtlasMap`'s size
  check takes for equal; the model takes a grid for its size.
- Overflow of the `int` index of a data vector, which no LFRic mesh comes near.
- `readMetadata` for a part of the variables, `removeAllButTheseVariables`, `getVarStrAttrs`,
  the second `populateField` ("Not currently used"), and the comparison of field sets:
  tests only, or nobody.
- The nearest-point search of `createLfricAtlasMap`, gather, scatter and halo
  exchange belong to Atlas; they are modelled by what MONIO relies on.
- Tests other than the basic one, build and lint: no behaviour of the library. The
  sequences of calls of the tests are among those of the runs.
