--------------------------- MODULE MCFieldLayout ---------------------------
(***************************************************************************)
(* Small instances of FieldLayout: three points, 71 levels shrunk to       *)
(* three, and two fields all of whose values differ.                       *)
(***************************************************************************)
EXTENDS FieldLayout, TLC

Tagged(version) ==
    [i \in Point |-> [l \in Level(kVerticalFullSize) |-> <<version, i, l>>]]

MCProfiles == {Tagged("first"), Tagged("second")}
MCValue    == {"first", "second"} \X Point \X Level(kVerticalFullSize)
MCZero     == <<"zero", 0, 0>>
MCGarbage  == <<"garbage", 0, 0>>
AnyOrder   == [Point -> Point]
Shuffles   == Permutations(Point)
=============================================================================
