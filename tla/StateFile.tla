----------------------------- MODULE StateFile -----------------------------
(***************************************************************************)
(* What Monio takes from a state file of LFRic before a field is filled:   *)
(* the coordinates of the points and the map to the points of Atlas, the   *)
(* dates of its times, and the part of a variable that belongs to a date.  *)
(* Each value of the variable is known by its indices, so that a vector    *)
(* shows which part of the variable it holds.                              *)
(*                                                                         *)
(* Times count half seconds from the origin of the file, which is date 0.  *)
(* A position is a longitude and a latitude, of which one place may have   *)
(* several; how far two are apart on the unit sphere is a constant.        *)
(***************************************************************************)
EXTENDS Integers, Sequences, SequencesExt

CONSTANTS
    Points,       \* points of the grid
    Levels,       \* levels of the variable, if it has any
    Coord,        \* positions: longitude and latitude
    Distance,     \* distance on the unit sphere, of two positions
    AtlasCoords,  \* the position of each Atlas point
    Files,        \* state files, see File
    Dates         \* dates a caller may ask for

Point == 0..Points - 1

DimNames == {"time_counter", "full_levels", "nMesh2d_face"}

(***************************************************************************)
(* A file: the variables with the coordinates and their type, the times    *)
(* and their type, and the dimensions of the variable to read.             *)
(***************************************************************************)
File == [Mesh2d_face_x : [Point -> Int], Mesh2d_face_y : [Point -> Int],
         coordType : {"float", "double"}, times : Seq(Nat), timeType : {"float", "double"},
         dims : Seq(DimNames)]

NoFile == [Mesh2d_face_x |-> <<>>, Mesh2d_face_y |-> <<>>, coordType |-> "float",
           times |-> <<>>, timeType |-> "double", dims |-> <<>>]

ASSUME FileAssumption ==
    /\ Points \in Nat \ {0} /\ Levels \in Nat \ {0}
    /\ Coord \subseteq Int \X Int /\ AtlasCoords \in [Point -> Coord]
    /\ Files \subseteq File
    /\ \A file \in Files, p \in Point : <<file.Mesh2d_face_x[p], file.Mesh2d_face_y[p]>> \in Coord
    /\ \A file \in Files : IsInjective(file.dims)

\* Of the geometry of Atlas no more than that it is one: distances, in whatever unit, are
\* the same both ways, and no detour is shorter.
ASSUME MetricAssumption ==
    /\ Distance \in [Coord \X Coord -> Nat]
    /\ \A a, b \in Coord : Distance[a, b] = Distance[b, a]
    /\ \A a, b, c \in Coord : Distance[a, c] <= Distance[a, b] + Distance[b, c]

VARIABLES
    opened,         \* the file the reader has open
    lfricAtlasMap,  \* FileData::lfricAtlasMap_, the Atlas point of each LFRic point
    dateTimes,      \* FileData::dateTimes_
    vector,         \* the container last read
    asked,          \* the date it was asked for
    aborted

vars == <<opened, lfricAtlasMap, dateTimes, vector, asked, aborted>>

NoVector == [size |-> 0, data |-> <<>>]
NoDate == -1

TypeOK ==
    /\ opened \in Files \cup {NoFile}
    /\ lfricAtlasMap \in [Point -> Point] \cup {<<>>}
    /\ dateTimes \in Seq(Nat)
    /\ vector.size \in Nat
    /\ DOMAIN vector.data \subseteq 0..vector.size - 1
    /\ asked \in Dates \cup {NoDate}
    /\ aborted \in BOOLEAN

Init ==
    /\ opened = NoFile
    /\ lfricAtlasMap = <<>> /\ dateTimes = <<>>
    /\ vector = NoVector /\ asked = NoDate
    /\ aborted = FALSE
----------------------------------------------------------------------------
(* Coordinates. *)

kLfricLonVarName == "Mesh2d_face_y"
kLfricLatVarName == "Mesh2d_face_x"
kLfricCoordVarNames == <<kLfricLonVarName, kLfricLatVarName>>

\* Mutant: in the order of the names asked for.
coordsAsAsked(names) == names

\* Reader::getCoordData goes through a std::map, so whatever the order of the
\* names, Mesh2d_face_x is first.
getCoordData(names) ==
    LET named(n) == IF Contains(names, n) THEN <<n>> ELSE <<>>
    IN  named("Mesh2d_face_x") \o named("Mesh2d_face_y")

\* utilsatlas::getLfricCoords: the first are longitudes.
getLfricCoords(file, names) == [p \in Point |-> <<file[names[1]][p], file[names[2]][p]>>]

\* The k-d tree of Atlas points on the unit sphere.
closestPoint(c) ==
    CHOOSE i \in Point : \A j \in Point : Distance[c, AtlasCoords[i]] <= Distance[c, AtlasCoords[j]]

\* Mutant: payloads that count from one.
mapFromOne(coords) == [p \in Point |-> closestPoint(coords[p]) + 1]

\* utilsatlas::createLfricAtlasMap.
createLfricAtlasMap(coords) == [p \in Point |-> closestPoint(coords[p])]
----------------------------------------------------------------------------
(* Dates. *)

\* std::round, of half seconds to seconds.
Rounded(time) == (time + 1) \div 2

\* Monio::createDateTimes.
createDateTimes(file) == [i \in 1..Len(file.times) |-> Rounded(file.times[i])]

\* Mutant: steps count from one.
stepFromOne(date) ==
    CHOOSE i \in 1..Len(dateTimes) :
        dateTimes[i] = date /\ \A j \in 1..i - 1 : dateTimes[j] # date

\* Reader::findTimeStep: the first that has the date.
findTimeStep(date) ==
    (CHOOSE i \in 1..Len(dateTimes) :
        dateTimes[i] = date /\ \A j \in 1..i - 1 : dateTimes[j] # date) - 1
----------------------------------------------------------------------------
(* The hyperslab of a variable. *)

DimSize(file, d) ==
    CASE d = "time_counter" -> Len(file.times)
      [] d = "full_levels"  -> Levels
      [] d = "nMesh2d_face" -> Points

Product(s) ==
    LET product[i \in 0..Len(s)] == IF i = 0 THEN 1 ELSE product[i - 1] * s[i]
    IN  product[Len(s)]

WithoutTime(dims) ==
    LET kept[i \in 0..Len(dims)] ==
            IF i = 0 THEN <<>>
            ELSE IF dims[i] = "time_counter" THEN kept[i - 1]
            ELSE Append(kept[i - 1], dims[i])
    IN  kept[Len(dims)]

\* readDatumAtTime: one time, then the whole of the other dimensions.
startVec(file, step) == <<step>> \o [i \in 1..Len(WithoutTime(file.dims)) |-> 0]
countVec(file) ==
    <<1>> \o [i \in 1..Len(WithoutTime(file.dims)) |-> DimSize(file, WithoutTime(file.dims)[i])]

\* NetCDF takes as many elements of the two as the variable has dimensions, and the
\* last dimension varies fastest.
InRange(file, start, count) ==
    \A i \in 1..Len(file.dims) : start[i] + count[i] <= DimSize(file, file.dims[i])

getVar(file, start, count) ==
    LET n == Len(file.dims)
        position == [d \in ToSet(file.dims) |-> CHOOSE i \in 1..n : file.dims[i] = d]
        stride(i) == Product(SubSeq(count, i + 1, n))
    IN  [k \in 0..Product(SubSeq(count, 1, n)) - 1 |->
            [d \in ToSet(file.dims) |->
                LET i == position[d] IN start[i] + ((k \div stride(i)) % count[i])]]

\* The number of values the container is made for.
varSizeNoTime(file) ==
    Product([i \in 1..Len(WithoutTime(file.dims)) |-> DimSize(file, WithoutTime(file.dims)[i])])
----------------------------------------------------------------------------
(* Operations. *)

Abort ==
    /\ aborted' = TRUE
    /\ UNCHANGED <<opened, lfricAtlasMap, dateTimes, vector, asked>>

\* Monio::initialiseFile, with dates or without, into new FileData.
initialiseFile(file, doCreateDateTimes) ==
    /\ ~ aborted
    /\ \/ /\ \/ file.coordType # "float"
             \/ doCreateDateTimes /\ file.timeType # "double"
          /\ Abort
       \/ /\ file.coordType = "float"
          /\ doCreateDateTimes => file.timeType = "double"
          /\ opened' = file
          /\ lfricAtlasMap' =
                createLfricAtlasMap(getLfricCoords(file, getCoordData(kLfricCoordVarNames)))
          /\ dateTimes' = IF doCreateDateTimes THEN createDateTimes(file) ELSE <<>>
          /\ vector' = NoVector /\ asked' = NoDate
          /\ UNCHANGED aborted

\* Reader::readDatumAtTime, into a copy of the FileData; a date that the file has not,
\* and an NcException, end the program.
readDatumAtTime(date) ==
    LET step == findTimeStep(date)
        start == startVec(opened, step)
        count == countVec(opened)
    IN  /\ ~ aborted /\ opened # NoFile
        /\ \/ /\ ~ Contains(dateTimes, date)
              /\ Abort
           \/ /\ Contains(dateTimes, date)
              /\ ~ InRange(opened, start, count)
              /\ Abort
           \/ /\ Contains(dateTimes, date)
              /\ InRange(opened, start, count)
              /\ vector' = [size |-> varSizeNoTime(opened), data |-> getVar(opened, start, count)]
              /\ asked' = date
              /\ UNCHANGED <<opened, lfricAtlasMap, dateTimes, aborted>>

\* Reader::readFullDatum, of all times if the variable has several.
readFullDatum ==
    LET n == Len(opened.dims)
        sizes == [i \in 1..n |-> DimSize(opened, opened.dims[i])]
    IN  /\ ~ aborted /\ opened # NoFile
        /\ vector' = [size |-> Product(sizes), data |-> getVar(opened, [i \in 1..n |-> 0], sizes)]
        /\ asked' = NoDate
        /\ UNCHANGED <<opened, lfricAtlasMap, dateTimes, aborted>>

Next ==
    \/ \E file \in Files, dates \in BOOLEAN : initialiseFile(file, dates)
    \/ \E date \in Dates : readDatumAtTime(date)
    \/ readFullDatum

Spec == Init /\ [][Next]_vars
----------------------------------------------------------------------------
(* Properties. *)

Abs(n) == IF n < 0 THEN -n ELSE n

\* The orders of dimensions that LFRic writes.
LfricDims == {<<"time_counter", "full_levels", "nMesh2d_face">>, <<"time_counter", "nMesh2d_face">>}

\* The vector that readState hands to AtlasReader is filled to its end, and at point p
\* and level l it has the value of that point and level at a time of the file that is
\* within half a second of the date asked for, whichever file was open before: with one
\* step taken to be along the first dimension, and two times that may be one date.
SliceOfDate ==
    asked # NoDate /\ opened.dims \in LfricDims =>
        /\ DOMAIN vector.data = 0..vector.size - 1
        /\ \A k \in DOMAIN vector.data :
              LET value == vector.data[k]
              IN  /\ Abs(opened.times[value["time_counter"] + 1] - 2 * asked) <= 1
                  /\ value["nMesh2d_face"] = k % Points
                  /\ "full_levels" \in DOMAIN value => value["full_levels"] = k \div Points
        /\ \A k, j \in DOMAIN vector.data :
              vector.data[k]["time_counter"] = vector.data[j]["time_counter"]

\* A position less than half as far from an Atlas point as that is from any other.
NextTo(c, i) ==
    \A j \in Point \ {i} : 2 * Distance[c, AtlasCoords[i]] < Distance[AtlasCoords[i], AtlasCoords[j]]

\* However fine the grid, at the poles and at the meridian where longitudes start: a point
\* of the file that is next to an Atlas point is mapped to that one, whichever file was
\* open before.  Longitudes are compared with longitudes.
MapFindsPoints ==
    \A p \in DOMAIN lfricAtlasMap : \A i \in Point :
        NextTo(<<opened.Mesh2d_face_x[p], opened.Mesh2d_face_y[p]>>, i) => lfricAtlasMap[p] = i
=============================================================================
