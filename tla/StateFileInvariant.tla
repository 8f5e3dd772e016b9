------------------------- MODULE StateFileInvariant -------------------------
(***************************************************************************)
(* The inductive invariant of StateFile: the map and the dates are those   *)
(* of the file that is open, and the vector of a date is what NetCDF gives *)
(* for the step of that date.                                              *)
(***************************************************************************)
EXTENDS StateFile

MapOfFile ==
    \/ lfricAtlasMap = <<>>
    \/ /\ opened \in Files
       /\ lfricAtlasMap =
             createLfricAtlasMap(getLfricCoords(opened, getCoordData(kLfricCoordVarNames)))

DatesOfFile == dateTimes # <<>> => opened \in Files /\ dateTimes = createDateTimes(opened)

VectorOfDate ==
    asked # NoDate =>
        /\ Contains(dateTimes, asked)
        /\ vector = [size |-> varSizeNoTime(opened),
                     data |-> getVar(opened, startVec(opened, findTimeStep(asked)), countVec(opened))]

IInv == TypeOK /\ MapOfFile /\ DatesOfFile /\ VectorOfDate
=============================================================================
