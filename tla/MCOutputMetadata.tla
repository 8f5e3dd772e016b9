-------------------------- MODULE MCOutputMetadata --------------------------
(***************************************************************************)
(* Small instances of OutputMetadata: the mesh of a cubed sphere with one  *)
(* cell on each face, in a file with one time and one with nine, and       *)
(* fields on each kind of levels.                                          *)
(***************************************************************************)
EXTENDS OutputInvariant, TLC

MCNameOrder ==
    <<"Two", "dim0", "dim1", "dim2", "dim3", "dim4", "dim5", "dim6", "dim7", "full_levels",
      "full_levels_no_surf", "half_levels", "half_levels_with_top", "nMesh2d_face",
      "nMesh2d_node", "surface_tiles", "time_counter">>

MCGeneratedNames == SubSeq(MCNameOrder, 2, 9)

MCMeshVariables == {"Mesh2d", "Mesh2d_face_x", "Mesh2d_node_x", "Mesh2d_face_links"}

LfricFile(times, tiles) ==
    [dimensions |-> [full_levels |-> 71, half_levels |-> 70, nMesh2d_face |-> 6,
                     nMesh2d_node |-> 8, Two |-> 2, time_counter |-> times,
                     surface_tiles |-> tiles],
     variables |-> [Mesh2d |-> <<>>, Mesh2d_face_x |-> <<"nMesh2d_face">>,
                    Mesh2d_node_x |-> <<"nMesh2d_node">>,
                    Mesh2d_face_links |-> <<"nMesh2d_face", "Two">>,
                    full_levels |-> <<"full_levels">>, half_levels |-> <<"half_levels">>,
                    time_instant |-> <<"time_counter">>,
                    tile_fraction |-> <<"surface_tiles", "nMesh2d_face">>,
                    theta |-> <<"time_counter", "full_levels", "nMesh2d_face">>],
     data |-> NoMap]

MCInputFiles == {LfricFile(1, 9), LfricFile(9, 1)}

\* theta has no surface level in JEDI, pressure has; wind is on half levels, skin has
\* one level, snow one for each tile; cube has as many levels as the mesh has points.
MCLevels    == "theta" :> 70 @@ "pressure" :> 71 @@ "wind" :> 70 @@ "skin" :> 1
                 @@ "snow" :> 9 @@ "cube" :> 6
MCLfricVert == "theta" :> "full_levels" @@ "pressure" :> "full_levels"
                 @@ "wind" :> "half_levels" @@ "skin" :> "" @@ "snow" :> ""
MCJediVert  == "theta" :> "full_levels_no_surf" @@ "pressure" :> "half_levels_with_top"
                 @@ "wind" :> "half_levels" @@ "skin" :> "full_levels" @@ "snow" :> ""

OfFields(map) == [f \in Field |-> IF f \in DOMAIN map THEN map[f] ELSE ""]
FieldLevels == OfFields(MCLevels)
FieldLfricVert == OfFields(MCLfricVert)
FieldJediVert == OfFields(MCJediVert)

AllFields == {Field}
Several == {Field \ {"cube"}, {"theta", "snow"}, {"skin", "cube"}}
=============================================================================
