----------------------------- MODULE MCFileCopy -----------------------------
(***************************************************************************)
(* Small instances of FileCopy: files of one or two variables that differ  *)
(* in one thing or several.                                                *)
(***************************************************************************)
EXTENDS FileCopy, TLC

MCNameOrder == <<"axis", "produced_by", "u", "units", "v", "x", "y", "z">>

Attr(type, value) == [type |-> type, value |-> value]

MCDimensions ==
    {"x" :> 2 @@ "y" :> 3, "x" :> 2 @@ "z" :> 3, "x" :> 2 @@ "y" :> 3 @@ "z" :> 3}

MCAttrs == {NoMap} \cup {"units" :> Attr(type, "m") : type \in NcAttrType}
               \cup {"axis" :> Attr("short", "m") @@ "units" :> Attr("char", "m")}

MCVariables == [type : NcVarType, dims : {<<>>, <<"x">>}, attrs : MCAttrs]

AFile(dims, variables, globals, value) ==
    [dimensions |-> dims, variables |-> variables, globalAttrs |-> globals,
     data |-> [n \in DOMAIN variables |-> [size |-> IF variables[n].dims = <<>> THEN 1 ELSE 2,
                                      value |-> value]]]

Plain(type) == [type |-> type, dims |-> <<"x">>, attrs |-> NoMap]

\* One file for each kind of variable, and files around "u" of each of the others'.
MCFiles ==
    {AFile("x" :> 2 @@ "y" :> 3, "u" :> var, NoMap, "ones") : var \in MCVariables}
      \cup {AFile(dims, "u" :> Plain("float"), "produced_by" :> Attr(type, "m"), value) :
               dims \in MCDimensions, type \in {"string", "float", "byte"},
               value \in {"ones", "twos"}}
      \cup {AFile(dims, "u" :> Plain("int") @@ "v" :> var, NoMap, "ones") :
               dims \in MCDimensions, var \in {Plain("int"), Plain("double")}}
=============================================================================
