---------------------------- MODULE FieldLayout ----------------------------
(***************************************************************************)
(* Where AtlasReader and AtlasWriter put the values of one field: the map  *)
(* between the order of points in LFRic's files and in Atlas, the index    *)
(* into the data vector, the surface level that LFRic's files have and     *)
(* JEDI's field may not, and the check of the index.  One global field on  *)
(* the owner and the variable its file has for it; a caller reads, writes, *)
(* writes for debugging (writeFieldSet) and computes, in any order.        *)
(***************************************************************************)
EXTENDS Integers

CONSTANTS
    Size,               \* points of the grid, the horizontal size
    kVerticalFullSize,  \* consts::kVerticalFullSize, 71
    LevelCounts,        \* the numbers of levels of fields and variables
    Value,              \* what a field may hold
    Zero,               \* what a vector holds where nothing was written
    Garbage,            \* what is past its end
    Profiles,           \* what the caller, and LFRic, may put in a field
    Orders              \* the Atlas point next to each of LFRic's

kVerticalHalfSize == kVerticalFullSize - 1

Point == 0..Size - 1
Level(n) == 0..n - 1
Datum == Value \cup {Zero, Garbage}
Fields(n, V) == [Point -> [Level(n) -> V]]

ASSUME SizeAssumption ==
    /\ Size \in Nat /\ Size >= 2
    /\ kVerticalFullSize \in Nat /\ kVerticalFullSize >= 2
    /\ LevelCounts \subseteq 1..kVerticalFullSize

ASSUME ValueAssumption ==
    /\ Zero \notin Value /\ Garbage \notin Value /\ Zero # Garbage
    /\ Profiles \subseteq Fields(kVerticalFullSize, Value)
    /\ Orders \subseteq [Point -> Point]

VARIABLES
    lfricAtlasMap,  \* FileData::lfricAtlasMap_
    noFirstLevel,   \* FieldMetadata::noFirstLevel of the field
    numLevels,      \* its levels, as the caller created it
    field,          \* its values, per point and level
    variable,       \* its variable in the file
    written,        \* history: the field that was last written
    last            \* what was done last

vars == <<lfricAtlasMap, noFirstLevel, numLevels, field, variable, written, last>>

(***************************************************************************)
(* A variable: its data in the order they are stored, declared with levels *)
(* as its first and points as its second dimension (addVariableDimensions  *)
(* reverses those of the field); whether its file has the LFRic convention;*)
(* and who wrote it.                                                       *)
(***************************************************************************)
Variable(n) == [levels: {n}, data: [0..n * Size - 1 -> Datum], lfric: BOOLEAN,
                by: {"LFRic", "write", "writeFieldSet"}]

Done == {"start", "compute", "write", "writeFieldSet", "read", "aborted"}

TypeOK ==
    /\ lfricAtlasMap \in [Point -> Point]
    /\ noFirstLevel \in BOOLEAN
    /\ numLevels \in LevelCounts
    /\ field \in Fields(numLevels, Datum)
    /\ \E n \in 1..kVerticalFullSize : variable \in Variable(n)
    /\ written \in Fields(numLevels, Datum)
    /\ last \in Done
----------------------------------------------------------------------------
(* Indices and levels. *)

\* The nearest Atlas point to each LFRic point, in the order of LFRic's points.
createLfricAtlasMap(order) == [p \in Point |-> order[p]]

Index(map, i, l) == map[i] + l * Size

\* The field LFRic stores with a surface level and JEDI has without.
WithoutSurface(lfric, n) == lfric /\ noFirstLevel /\ n = kVerticalHalfSize

\* Mutant: no level is left out.
AllLevels(lfric, n) == 0

FirstLevel(lfric, n) == IF WithoutSurface(lfric, n) THEN 1 ELSE 0

\* The point and level a vector has at k, of those stored there the last.
StoredAt(map, n, k) == {w \in Point \X Level(n) : Index(map, w[1], w[2]) = k}
LastStored(S) == CHOOSE w \in S : \A x \in S : x[1] <= w[1]

\* Mutant: the last level is not written.
OneLevelLess(map, n, f) ==
    [k \in 0..n * Size - 1 |->
        LET S == StoredAt(map, n - 1, k)
        IN  IF S = {} THEN Zero ELSE f[LastStored(S)[1]][LastStored(S)[2]]]

\* AtlasWriter::populateDataVec with the horizontal map.
populateDataVec(map, n, f) ==
    [k \in 0..n * Size - 1 |->
        LET S == StoredAt(map, n, k)
        IN  IF S = {} THEN Zero ELSE f[LastStored(S)[1]][LastStored(S)[2]]]

\* AtlasWriter::populateDataVec with the dimensions, points first.
populateDataVecInAtlasOrder(n, f) ==
    [k \in 0..n * Size - 1 |->
        LET w == CHOOSE w \in Point \X Level(n) : k = w[2] + w[1] * n
        IN  f[w[1]][w[2]]]
----------------------------------------------------------------------------
(* The file as LFRic leaves it, and the caller. *)

LowerLevels(f, n) == [i \in Point |-> [l \in Level(n) |-> f[i][l]]]

LfricVariable(n, lfric, f) ==
    [levels |-> n, lfric |-> lfric, by |-> "LFRic",
     data |-> populateDataVec([p \in Point |-> p], n, f)]

Init ==
    /\ \E order \in Orders : lfricAtlasMap = createLfricAtlasMap(order)
    /\ noFirstLevel \in BOOLEAN
    /\ numLevels \in LevelCounts
    /\ \E f \in Profiles : field = LowerLevels(f, numLevels)
    /\ \E n \in LevelCounts, lfric \in BOOLEAN, f \in Profiles :
          variable = LfricVariable(n, lfric, f)
    /\ written = field
    /\ last = "start"

Compute(f) ==
    /\ last # "aborted"
    /\ field' = LowerLevels(f, numLevels)
    /\ last' = "compute"
    /\ UNCHANGED <<lfricAtlasMap, noFirstLevel, numLevels, variable, written>>

Abort ==
    /\ last' = "aborted"
    /\ UNCHANGED <<lfricAtlasMap, noFirstLevel, numLevels, field, variable, written>>
----------------------------------------------------------------------------
(* Writing. *)

\* Mutant: the new level is the top one, which is left as it was created.
copyBelowTop(f) ==
    [i \in Point |-> [l \in Level(kVerticalFullSize) |->
                         IF l = kVerticalFullSize - 1 THEN Zero ELSE f[i][l]]]

\* All levels one up, and the lowest once more as the surface level.
copySurfaceLevel(f) ==
    [i \in Point |-> [l \in Level(kVerticalFullSize) |-> f[i][IF l = 0 THEN 0 ELSE l - 1]]]

getWriteField(lfric, f) == IF WithoutSurface(lfric, numLevels) THEN copySurfaceLevel(f) ELSE f

WriteLevels(lfric) == IF WithoutSurface(lfric, numLevels) THEN kVerticalFullSize ELSE numLevels

\* A field that has the surface level although its metadata says it has not.
Misconfigured == noFirstLevel /\ numLevels = kVerticalFullSize

\* writeState and writeIncrements.
Write(lfric) ==
    /\ last # "aborted"
    /\ IF lfric /\ Misconfigured
       THEN Abort
       ELSE /\ variable' = [levels |-> WriteLevels(lfric), lfric |-> lfric, by |-> "write",
                            data |-> populateDataVec(lfricAtlasMap, WriteLevels(lfric),
                                                     getWriteField(lfric, field))]
            /\ written' = field
            /\ last' = "write"
            /\ UNCHANGED <<lfricAtlasMap, noFirstLevel, numLevels, field>>

writeFieldSet ==
    /\ last # "aborted"
    /\ variable' = [levels |-> numLevels, lfric |-> FALSE, by |-> "writeFieldSet",
                    data |-> populateDataVecInAtlasOrder(numLevels, field)]
    /\ written' = field
    /\ last' = "writeFieldSet"
    /\ UNCHANGED <<lfricAtlasMap, noFirstLevel, numLevels, field>>
----------------------------------------------------------------------------
(* Reading. *)

\* getReadField: a misconfigured field is replaced by one with a level less.
ReadLevels == IF Misconfigured THEN kVerticalHalfSize ELSE numLevels

\* Each index populateField computes.
IndexRead(i, l) == Index(lfricAtlasMap, i, l + FirstLevel(variable.lfric, ReadLevels))

\* Mutant: no check.
Unchecked(v) == FALSE

\* The check is index <= size: an index at the end passes, and reads past it.
ExceedsSize(v) == \E i \in Point, l \in Level(ReadLevels) : IndexRead(i, l) > v.levels * Size

DatumAt(v, k) == IF k < v.levels * Size THEN v.data[k] ELSE Garbage

populateField(v) ==
    [i \in Point |-> [l \in Level(ReadLevels) |-> DatumAt(v, IndexRead(i, l))]]

\* Mutant: the replacement of a misconfigured field is handed to the caller.
readReplacement(v) == populateField(v)

\* What is read into a replacement of the field is lost.
populateFieldWithFileData(v) == IF Misconfigured THEN field ELSE populateField(v)

\* readState and readIncrements.  They abort on a file of writeFieldSet, which has
\* no mesh.
Read ==
    /\ last # "aborted"
    /\ IF variable.by = "writeFieldSet" \/ ExceedsSize(variable)
       THEN Abort
       ELSE /\ field' = populateFieldWithFileData(variable)
            /\ last' = "read"
            /\ UNCHANGED <<lfricAtlasMap, noFirstLevel, numLevels, variable, written>>
----------------------------------------------------------------------------
Next ==
    \/ \E f \in Profiles : Compute(f)
    \/ \E lfric \in BOOLEAN : Write(lfric)
    \/ writeFieldSet
    \/ Read

Spec == Init /\ [][Next]_vars
----------------------------------------------------------------------------
(* Properties. *)

IsPermutation(m) ==
    /\ \A i, j \in Point : m[i] = m[j] => i = j
    /\ \A k \in Point : \E i \in Point : m[i] = k
IsSelfInverse(m) == \A i \in Point : m[m[i]] = i

\* The value at level l and point p, as a reader of the file finds it who goes by
\* the declared dimensions of the variable.
ValueAt(l, p) == DatumAt(variable, l * Size + p)

\* The level of the file for level l of the field.
FileLevel(l) ==
    IF variable.lfric /\ noFirstLevel /\ numLevels = kVerticalHalfSize THEN l + 1 ELSE l

\* A read of what a write wrote gives each point what was written for it, whatever
\* the convention, the levels and the order of the points, and after other calls.
\* Where several LFRic points have one nearest Atlas point (UtilsAtlas.cc:125), all of
\* them get the whole column of one of them; with a permutation, the field is back.
RoundTrip ==
    last = "read" /\ variable.by = "write" /\ ~ Misconfigured =>
        \A i \in Point : \E j \in Point :
            /\ lfricAtlasMap[j] = lfricAtlasMap[i]
            /\ field[i] = written[j]

\* Every value of the field stands in the file at the LFRic point next to its own
\* point, after a read of LFRic's file as after a write, if taking the map from
\* LFRic to Atlas points twice leads back.  (The code takes it the other way.)
AtItsPoint ==
    last \in {"read", "write"} /\ IsSelfInverse(lfricAtlasMap)
        /\ ~ (last = "read" /\ Misconfigured)
        => \A p \in Point, l \in Level(numLevels) :
              field[lfricAtlasMap[p]][l] = ValueAt(FileLevel(l), p)

\* A write fills the whole variable, the level that the field has not included,
\* with values of the field.
WholeVariable ==
    variable.by # "LFRic" /\ IsPermutation(lfricAtlasMap) =>
        \A k \in DOMAIN variable.data :
            \E i \in Point, l \in Level(numLevels) :
                variable.data[k] = written[i][l]

\* A variable with less data than the field wants ends in an abort, never in a
\* value from past the end of the vector, though the check lets one through.
ReadStaysInData ==
    IsPermutation(lfricAtlasMap) =>
        \A i \in Point, l \in Level(numLevels) : field[i][l] # Garbage

\* AtlasWriter.h:96: populateDataVec "populates vector with data from field in
\* LFRic order", the order of the file's coordinates.
InLfricOrder ==
    last = "write" /\ IsPermutation(lfricAtlasMap) =>
        \A p \in Point, l \in Level(numLevels) :
            ValueAt(FileLevel(l), p) = field[lfricAtlasMap[p]][l]

\* README.md:106: writeFieldSet writes "in their default, Atlas order", and the
\* variable's dimensions are levels, then points.
FieldSetReadable ==
    last = "writeFieldSet" =>
        \A p \in Point, l \in Level(numLevels) : ValueAt(l, p) = field[p][l]
=============================================================================
