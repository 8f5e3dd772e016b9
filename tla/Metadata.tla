------------------------------ MODULE Metadata ------------------------------
(***************************************************************************)
(* Metadata and Variable: dimensions and variables by name, as values.  A  *)
(* std::map is a function on the names it has, with the order of its keys  *)
(* in NameOrder; a Variable has its dimensions in order, each with a name  *)
(* and a size, and whatever else its user gives it.                        *)
(***************************************************************************)
EXTENDS Naturals, Sequences

CONSTANTS
    NameOrder,  \* all names, in the order of the keys of a std::map
    NotFound    \* consts::kNotFoundError

ASSUME NameOrderAssumption ==
    /\ NameOrder \in Seq(STRING)
    /\ \A i, j \in 1..Len(NameOrder) : NameOrder[i] = NameOrder[j] => i = j
    /\ \A i \in 1..Len(NameOrder) : NameOrder[i] # NotFound

\* The names, as a set.
Names == {NameOrder[i] : i \in 1..Len(NameOrder)}

NoMap == [n \in {} |-> NotFound]

EmptyMetadata == [dimensions |-> NoMap, variables |-> NoMap]

\* The rule of all the maps: a name that is there keeps its value.
insertIfAbsent(map, name, value) ==
    [n \in DOMAIN map \cup {name} |-> IF n \in DOMAIN map THEN map[n] ELSE value]

Without(map, names) == [n \in DOMAIN map \ names |-> map[n]]

addDimension(md, name, size) ==
    [md EXCEPT !.dimensions = insertIfAbsent(@, name, size)]

addVariable(md, name, var) ==
    [md EXCEPT !.variables = insertIfAbsent(@, name, var)]

\* The first of the dimensions of a size, by name.
getDimensionName(md, size) ==
    LET position == {i \in 1..Len(NameOrder) :
                        /\ NameOrder[i] \in DOMAIN md.dimensions
                        /\ md.dimensions[NameOrder[i]] = size}
    IN  IF position = {} THEN NotFound
        ELSE NameOrder[CHOOSE i \in position : \A j \in position : i <= j]

\* Without the element at k.
WithoutElement(s, k) == [i \in 1..Len(s) - 1 |-> IF i < k THEN s[i] ELSE s[i + 1]]

\* Variable::deleteDimension: the first of that name.
deleteVariableDimension(var, name) ==
    LET found == {i \in 1..Len(var.dims) : var.dims[i].name = name}
    IN  IF found = {} THEN var
        ELSE [var EXCEPT !.dims = WithoutElement(@, CHOOSE i \in found : \A j \in found : i <= j)]

\* From the dimensions, if it is there, and from every variable.
deleteDimension(md, name) ==
    [dimensions |-> Without(md.dimensions, {name}),
     variables |-> [n \in DOMAIN md.variables |->
                       deleteVariableDimension(md.variables[n], name)]]

\* deleteVariable for every variable but these.
keepVariables(md, names) == [md EXCEPT !.variables = Without(@, DOMAIN @ \ names)]

\* Mutant: the dimensions go as well.
clearAll(md) == EmptyMetadata

\* Metadata::clear: the dimensions stay, for the variables to come.
clear(md) == [md EXCEPT !.variables = NoMap]

\* Variable::getTotalSize: the product of the sizes.
getTotalSize(dims) ==
    LET product[i \in 0..Len(dims)] == IF i = 0 THEN 1 ELSE product[i - 1] * dims[i].size
    IN  product[Len(dims)]
=============================================================================
