------------------------------ MODULE MCMonio ------------------------------
(***************************************************************************)
(* Small instances of Monio for TLC: two grids with a state file each, a   *)
(* path to write to, and fields chosen so that every branch of the name    *)
(* and level handling is met.                                              *)
(***************************************************************************)
EXTENDS MonioInvariant, MonioContract, TLC

CONSTANTS g1, g2, state1, state2, out, d1, d2, a, b, theta, wind, soil, extra

\* theta: LFRic reads and writes it under one name and stores a surface level
\* the caller does not have.  wind: LFRic has one name for it in the state and
\* another for its increment.  soil: JEDI has it, LFRic has not.  extra: the
\* caller gave it the surface level that its metadata says it has not.
MCReadName  == theta :> "theta" @@ wind :> "u" @@ soil :> "none" @@ extra :> "exner"
MCWriteName == theta :> "theta" @@ wind :> "u_inc" @@ soil :> "none" @@ extra :> "exner"
MCJediName  == theta :> "potential_temperature" @@ wind :> "eastward_wind"
                 @@ soil :> "soil_moisture" @@ extra :> "exner_levels_minus_one"
MCLevels    == theta :> 70 @@ wind :> 70 @@ soil :> 70 @@ extra :> 71

OfFields(names) == [f \in Field |-> names[f]]
FieldReadName  == OfFields(MCReadName)
FieldWriteName == OfFields(MCWriteName)
FieldJediName  == OfFields(MCJediName)
FieldLevels    == OfFields(MCLevels)

\* A file of the model: the LFRic variables over two time steps.
StateFile(g) ==
    LET stored == {n \in Name : \E f \in Field : n = lfricReadName[f] /\ n \notin Missing}
    IN  [geom |-> g, mesh |-> g, times |-> <<d1, d2>>, conv |-> None, timed |-> stored,
         data |-> [n \in Name |-> IF n \notin stored THEN <<>>
                                  ELSE IF n = "u" THEN <<b, a>> ELSE <<a, b>>]]

InputOf(p) == CASE p = state1 -> StateFile(g1)
                [] p = state2 -> StateFile(g2)
                [] p = out    -> None
MCInputFiles == [p \in Path |-> InputOf(p)]

ACall(op, g, p, conv, date, fields) ==
    [op |-> op, grid |-> g, path |-> p, conv |-> conv, date |-> date,
     times |-> date = d1, fields |-> fields]

\* One grid: every operation, on the state file and on an output.
OneGridCalls ==
    {ACall(op, g1, p, LFRIC, d2, Field) : op \in ReadOp, p \in {state1, out}}
      \cup {ACall(op, g1, out, conv, d1, fs) :
                op \in {"writeState", "writeIncrements"}, conv \in Convention,
                fs \in {Field, Field \ {soil, wind}}}
      \cup {ACall("writeFieldSet", g1, out, JEDI, d1, Field)}

\* Two grids: a file of the one read, or used, while the other is stored.
TwoGridCalls ==
    {ACall("readState", g1, state1, LFRIC, d1, Field),
     ACall("readState", g2, state2, LFRIC, d2, Field),
     ACall("readIncrements", g1, state2, LFRIC, d1, {theta}),
     ACall("readIncrements", g1, out, LFRIC, d1, {theta}),
     ACall("readIncrements", g2, out, LFRIC, d1, {theta}),
     ACall("initialiseFile", g1, state1, LFRIC, d1, {}),
     ACall("initialiseFile", g1, out, LFRIC, d2, {}),
     ACall("initialiseFile", g1, NoPath, LFRIC, d1, {}),
     ACall("writeState", g1, out, LFRIC, d1, {theta}),
     ACall("writeState", g1, state1, LFRIC, d1, {theta, soil}),
     ACall("writeIncrements", g2, out, JEDI, d1, Field),
     ACall("writeState", g1, out, LFRIC, d1, Field),
     ACall("writeState", g1, NoPath, LFRIC, d1, Field),
     ACall("writeState", g1, out, LFRIC, d1, {})}
=============================================================================
