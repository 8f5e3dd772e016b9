---------------------------- MODULE OutputProofs ----------------------------
(***************************************************************************)
(* Proofs, for any files, fields, grids and orders of calls, about the     *)
(* dimensions and variables of the files Monio writes.                     *)
(***************************************************************************)
EXTENDS OutputInvariant, Recursion, TLAPS
----------------------------------------------------------------------------
(* The operators of Metadata. *)

\* The size of a variable is a number, for one or two dimensions their product.
LEMMA TotalSize ==
    ASSUME NEW dims \in Seq(Dimension)
    PROVE  /\ getTotalSize(dims) \in Nat
           /\ Len(dims) = 0 => getTotalSize(dims) = 1
           /\ Len(dims) = 1 => getTotalSize(dims) = dims[1].size
           /\ Len(dims) = 2 => getTotalSize(dims) = dims[1].size * dims[2].size
<1> DEFINE n == Len(dims)
           size == [i \in 1..n |-> dims[i].size]
           product == CHOOSE p : p = [i \in 0..n |-> IF i = 0 THEN 1 ELSE p[i - 1] * dims[i].size]
<1>1. n \in Nat /\ size \in [1..n -> Nat]
  <2>1. \A i \in 1..n : dims[i] \in Dimension
    OBVIOUS
  <2>2. \A i \in 1..n : dims[i].size \in Nat
    BY <2>1 DEF Dimension
  <2> QED
    BY <2>2
<1>2. \A p : IsProduct(p, n, size) <=>
                p = [i \in 0..n |-> IF i = 0 THEN 1 ELSE p[i - 1] * dims[i].size]
  <2> TAKE p
  <2>1. [i \in 0..n |-> IF i = 0 THEN 1 ELSE p[i - 1] * size[i]]
           = [i \in 0..n |-> IF i = 0 THEN 1 ELSE p[i - 1] * dims[i].size]
    OBVIOUS
  <2> QED
    BY <2>1, Zenon DEF IsProduct
<1>3. getTotalSize(dims) = product[n]
  BY DEF getTotalSize
<1>4. IsProduct(product, n, size)
  <2>1. \E p : IsProduct(p, n, size)
    <3> HIDE DEF size, n
    <3> QED BY <1>1, ProductExists
  <2> HIDE DEF size, n
  <2> QED
    BY <1>2, <2>1, Zenon
<1>5. /\ product[0] = 1 /\ \A i \in 1..n : product[i] = product[i - 1] * size[i]
      /\ \A i \in 0..n : product[i] \in Nat
  <2> HIDE DEF size, n, product
  <2> QED BY <1>1, <1>4, ProductType
<1> HIDE DEF product
<1>6. n = 1 => product[n] = size[1]
  BY <1>1, <1>5
<1>7. n = 2 => product[n] = size[1] * size[2]
  <2> SUFFICES ASSUME n = 2 PROVE product[2] = size[1] * size[2]
    OBVIOUS
  <2>1. product[1] = size[1]
    BY <1>1, <1>5
  <2> QED
    BY <1>1, <1>5, <2>1
<1> QED
  BY <1>1, <1>3, <1>5, <1>6, <1>7

\* getDimensionName finds a dimension of the size if there is one.
LEMMA DimensionFound ==
    ASSUME NEW md, NEW size, DimensionsFit(md.dimensions)
    PROVE  LET name == getDimensionName(md, size)
           IN  \/ name = NotFound /\ \A d \in DOMAIN md.dimensions : md.dimensions[d] # size
               \/ /\ name # NotFound /\ name \in DOMAIN md.dimensions /\ name \in Names
                  /\ md.dimensions[name] = size
<1> DEFINE position == {i \in 1..Len(NameOrder) : /\ NameOrder[i] \in DOMAIN md.dimensions
                                                  /\ md.dimensions[NameOrder[i]] = size}
<1>1. CASE position = {}
  <2>1. getDimensionName(md, size) = NotFound
    BY <1>1 DEF getDimensionName
  <2>2. \A d \in DOMAIN md.dimensions : md.dimensions[d] # size
    BY <1>1 DEF DimensionsFit, Names
  <2> QED
    BY <2>1, <2>2
<1>2. CASE position # {}
  <2> DEFINE first == CHOOSE i \in position : \A j \in position : i <= j
  <2>1. first \in position
    <3>1. position \subseteq Nat
      BY NameOrderAssumption
    <3>2. \E i \in position : \A j \in position : i <= j
      <4> HIDE DEF position
      <4> QED BY <1>2, <3>1, LeastNumber
    <3> HIDE DEF position
    <3> QED
      BY <3>2
  <2>2. getDimensionName(md, size) = NameOrder[first]
    BY <1>2 DEF getDimensionName
  <2> HIDE DEF first
  <2> QED
    BY <2>1, <2>2, NameOrderAssumption DEF Names
<1> QED
  BY <1>1, <1>2

\* The elements that are left are those at the other places.
LEMMA ElementGone ==
    ASSUME NEW S, NEW s \in Seq(S), NEW k \in 1..Len(s)
    PROVE  LET rest == WithoutElement(s, k)
           IN  /\ rest \in Seq(S) /\ Len(rest) = Len(s) - 1
               /\ \E from \in [1..Len(rest) -> 1..Len(s)] :
                     /\ \A i \in 1..Len(rest) : from[i] # k /\ rest[i] = s[from[i]]
                     /\ \A i, j \in 1..Len(rest) : from[i] = from[j] => i = j
<1> DEFINE n == Len(s)
           rest == WithoutElement(s, k)
           from == [i \in 1..n - 1 |-> IF i < k THEN i ELSE i + 1]
<1>1. n \in Nat /\ n - 1 \in Nat /\ \A i \in 1..n : s[i] \in S
  OBVIOUS
<1>2. \A i \in 1..n - 1 : from[i] \in 1..n /\ from[i] # k
  BY <1>1
<1>3. \A i, j \in 1..n - 1 : from[i] = from[j] => i = j
  BY <1>1
<1>4. rest = [i \in 1..n - 1 |-> s[from[i]]]
  <2>1. \A i \in 1..n - 1 : s[from[i]] = IF i < k THEN s[i] ELSE s[i + 1]
    OBVIOUS
  <2> HIDE DEF from
  <2> QED
    BY <2>1 DEF WithoutElement
<1>5. from \in [1..n - 1 -> 1..n]
  BY <1>2
<1> HIDE DEF from
<1>6. rest \in Seq(S) /\ Len(rest) = n - 1
  <2>1. \A i \in 1..n - 1 : s[from[i]] \in S
    BY <1>1, <1>2
  <2> QED
    BY <1>1, <1>4, <2>1
<1>7. \A i \in 1..n - 1 : rest[i] = s[from[i]]
  BY <1>4
<1>8. \E f \in [1..Len(rest) -> 1..Len(s)] :
         /\ \A i \in 1..Len(rest) : f[i] # k /\ rest[i] = s[f[i]]
         /\ \A i, j \in 1..Len(rest) : f[i] = f[j] => i = j
  BY <1>2, <1>3, <1>5, <1>6, <1>7
<1> QED
  BY <1>6, <1>8

\* The dimensions of a variable without one of them still fit.
LEMMA FewerFit ==
    ASSUME NEW s, NEW dimensions, DimsFit(s, dimensions), NEW k \in 1..Len(s)
    PROVE  LET rest == WithoutElement(s, k)
           IN  /\ DimsFit(rest, dimensions)
               /\ \A i \in 1..Len(rest) : /\ rest[i].name # s[k].name
                                          /\ \E j \in 1..Len(s) : rest[i] = s[j]
<1> DEFINE n == Len(s)
           rest == WithoutElement(s, k)
<1>1. /\ s \in Seq(Dimension)
      /\ \A i, j \in 1..n : s[i].name = s[j].name => i = j
      /\ \A i \in 1..n : s[i].name \in DOMAIN dimensions /\ dimensions[s[i].name] = s[i].size
  BY DEF DimsFit
<1>2. rest \in Seq(Dimension)
  BY <1>1, ElementGone
<1>3. PICK from \in [1..Len(rest) -> 1..n] :
           /\ \A i \in 1..Len(rest) : from[i] # k /\ rest[i] = s[from[i]]
           /\ \A i, j \in 1..Len(rest) : from[i] = from[j] => i = j
  BY <1>1, ElementGone
<1> HIDE DEF rest
<1>4. \A i \in 1..Len(rest) : from[i] \in 1..n
  BY <1>3
<1>5. \A i, j \in 1..Len(rest) : rest[i].name = rest[j].name => i = j
  BY <1>1, <1>3, <1>4
<1>6. \A i \in 1..Len(rest) : /\ rest[i].name \in DOMAIN dimensions
                              /\ dimensions[rest[i].name] = rest[i].size
  BY <1>1, <1>3, <1>4
<1>7. \A i \in 1..Len(rest) : /\ rest[i].name # s[k].name
                              /\ \E j \in 1..n : rest[i] = s[j]
  BY <1>1, <1>3, <1>4
<1>8. DimsFit(rest, dimensions)
  BY <1>2, <1>5, <1>6 DEF DimsFit
<1> QED
  BY <1>7, <1>8 DEF rest

\* Deleting a dimension of a variable takes that one away and no other.
LEMMA DimensionDeleted ==
    ASSUME NEW var, NEW dimensions, NEW name, IsVariable(var, dimensions)
    PROVE  /\ IsVariable(deleteVariableDimension(var, name), dimensions)
           /\ Lacks(deleteVariableDimension(var, name), name)
           /\ Lacks(var, name) => deleteVariableDimension(var, name) = var
<1> DEFINE s == var.dims
           found == {i \in 1..Len(s) : s[i].name = name}
           new == deleteVariableDimension(var, name)
<1>1. CASE found = {}
  <2>1. new = var
    BY <1>1 DEF deleteVariableDimension
  <2>2. \A i \in 1..Len(s) : s[i].name # name
    BY <1>1
  <2> QED
    BY <2>1, <2>2 DEF Lacks
<1>2. CASE found # {}
  <2> DEFINE k == CHOOSE i \in found : \A j \in found : i <= j
             rest == WithoutElement(s, k)
  <2>1. k \in found
    <3>1. found \subseteq Nat
      BY DEF IsVariable, DimsFit
    <3>2. \E i \in found : \A j \in found : i <= j
      <4> HIDE DEF found
      <4> QED BY <1>2, <3>1, LeastNumber
    <3> HIDE DEF found
    <3> QED
      BY <3>2
  <2>2. new = [var EXCEPT !.dims = rest]
    BY <1>2 DEF deleteVariableDimension
  <2>3. new = [dims |-> rest] /\ new.dims = rest
    <3> HIDE DEF rest
    <3> QED BY <2>2 DEF IsVariable
  <2>4. k \in 1..Len(s) /\ s[k].name = name
    BY <2>1
  <2> HIDE DEF k, found
  <2>5. /\ DimsFit(rest, dimensions)
        /\ \A i \in 1..Len(rest) : rest[i].name # name /\ \E j \in 1..Len(s) : rest[i] = s[j]
    BY <2>4, FewerFit DEF IsVariable
  <2> HIDE DEF rest
  <2> QED
    BY <2>3, <2>4, <2>5 DEF IsVariable, Lacks
<1> QED
  BY <1>1, <1>2

LEMMA DimensionDeletedFrom ==
    ASSUME NEW md, NEW name, MetadataFit(md)
    PROVE  LET new == deleteDimension(md, name)
           IN  /\ MetadataFit(new)
               /\ DOMAIN new.dimensions = DOMAIN md.dimensions \ {name}
               /\ \A d \in DOMAIN new.dimensions : new.dimensions[d] = md.dimensions[d]
               /\ DOMAIN new.variables = DOMAIN md.variables
               /\ \A n \in DOMAIN md.variables :
                     Lacks(md.variables[n], name) => new.variables[n] = md.variables[n]
<1> DEFINE dimensions == Without(md.dimensions, {name})
           variable(n) == deleteVariableDimension(md.variables[n], name)
           variables == [n \in DOMAIN md.variables |-> variable(n)]
           new == deleteDimension(md, name)
<1>1. new = [dimensions |-> dimensions, variables |-> variables]
  BY DEF deleteDimension
<1>2. /\ DOMAIN dimensions = DOMAIN md.dimensions \ {name}
      /\ \A d \in DOMAIN dimensions : dimensions[d] = md.dimensions[d]
  BY DEF Without
<1> HIDE DEF dimensions
<1>3. DimensionsFit(dimensions)
  BY <1>2 DEF MetadataFit, DimensionsFit, JediLevelsFit
<1>4. ASSUME NEW n \in DOMAIN md.variables
      PROVE  /\ IsVariable(variable(n), dimensions)
             /\ Lacks(md.variables[n], name) => variable(n) = md.variables[n]
  <2>1. IsVariable(md.variables[n], md.dimensions)
    BY DEF MetadataFit
  <2>2. /\ IsVariable(variable(n), md.dimensions) /\ Lacks(variable(n), name)
        /\ Lacks(md.variables[n], name) => variable(n) = md.variables[n]
    BY <2>1, DimensionDeleted
  <2> HIDE DEF variable
  <2> QED
    BY <1>2, <2>2 DEF IsVariable, DimsFit, Lacks
<1>5. /\ DOMAIN variables = DOMAIN md.variables
      /\ \A n \in DOMAIN md.variables : variables[n] = variable(n)
  OBVIOUS
<1> HIDE DEF variable, variables
<1>6. new.dimensions = dimensions /\ new.variables = variables
  BY <1>1
<1>7. MetadataFit(new)
  BY <1>1, <1>3, <1>4, <1>5 DEF MetadataFit
<1> QED
  BY <1>2, <1>4, <1>5, <1>6, <1>7

\* The Variables that two FileData share lose the dimensions of time and tiles; the
\* dimensions of a file that are not used by a variable do no harm.
LEMMA SharedVariablesFit ==
    ASSUME NEW fd, NEW new, fd = [metadata |-> fd.metadata, data |-> fd.data],
           MetadataFit(fd.metadata), new = SharedAfterClean(fd)
    PROVE  /\ new = [metadata |-> new.metadata, data |-> new.data]
           /\ new.data = fd.data /\ new.metadata.dimensions = fd.metadata.dimensions
           /\ MetadataFit(new.metadata)
           /\ DOMAIN new.metadata.variables = DOMAIN fd.metadata.variables
           /\ \A n \in DOMAIN fd.metadata.variables :
                 (\A name \in ReadDims : Lacks(fd.metadata.variables[n], name))
                    => new.metadata.variables[n] = fd.metadata.variables[n]
<1> DEFINE md == fd.metadata
           once(n) == deleteVariableDimension(md.variables[n], "time_counter")
           twice(n) == deleteVariableDimension(once(n), "surface_tiles")
           variables == [n \in DOMAIN md.variables |-> twice(n)]
<1>1. /\ md = [dimensions |-> md.dimensions, variables |-> md.variables]
      /\ DimensionsFit(md.dimensions)
  BY DEF MetadataFit
<1>2. new = [metadata |-> [dimensions |-> md.dimensions, variables |-> variables],
             data |-> fd.data]
  BY <1>1 DEF SharedAfterClean
<1>3. ASSUME NEW n \in DOMAIN md.variables
      PROVE  /\ IsVariable(twice(n), md.dimensions)
             /\ (\A name \in ReadDims : Lacks(md.variables[n], name))
                   => twice(n) = md.variables[n]
  <2>1. IsVariable(md.variables[n], md.dimensions)
    BY DEF MetadataFit
  <2>2. /\ IsVariable(once(n), md.dimensions)
        /\ Lacks(md.variables[n], "time_counter") => once(n) = md.variables[n]
    BY <2>1, DimensionDeleted
  <2> HIDE DEF once
  <2>3. /\ IsVariable(twice(n), md.dimensions)
        /\ Lacks(once(n), "surface_tiles") => twice(n) = once(n)
    BY <2>2, DimensionDeleted
  <2> HIDE DEF twice
  <2> QED
    BY <2>2, <2>3 DEF ReadDims
<1>4. /\ DOMAIN variables = DOMAIN md.variables
      /\ \A n \in DOMAIN md.variables : variables[n] = twice(n)
  OBVIOUS
<1> HIDE DEF twice, variables
<1>5. /\ new.data = fd.data /\ new.metadata.dimensions = md.dimensions
      /\ new.metadata.variables = variables
      /\ new = [metadata |-> new.metadata, data |-> new.data]
      /\ new.metadata = [dimensions |-> md.dimensions, variables |-> variables]
  BY <1>2
<1>6. MetadataFit(new.metadata)
  BY <1>1, <1>3, <1>4, <1>5 DEF MetadataFit
<1> QED
  BY <1>3, <1>4, <1>5, <1>6

\* The variables of the mesh and the levels are none of the others that Monio knows.
LEMMA GeometryApart ==
    /\ Geometry \cap ReadVars = {} /\ Geometry \cap JediLevels = {} /\ Geometry # {}
    /\ Field \cap (Geometry \cup JediLevels \cup CoordVars \cup ReadVars) = {}
    /\ JediLevels \cap ReadVars = {} /\ CoordVars \cap ReadVars = {}
    /\ JediLevels \cap ReadDims = {}
BY NamesAssumption
   DEF Geometry, ReadVars, JediLevels, LevelVars, CoordVars, ReadDims, Reserved
----------------------------------------------------------------------------
(* What a write starts from. *)

\* The mesh and the levels of the file, without time and tiles.
CleanedOf(fd, new) ==
    /\ new = [metadata |-> new.metadata, data |-> new.data]
    /\ MetadataFit(new.metadata) /\ HasPoints(new.metadata.dimensions)
    /\ DOMAIN new.metadata.dimensions \cap ReadDims = {}
    /\ DOMAIN new.metadata.variables \subseteq Geometry \cup JediLevels
    /\ \A n \in DOMAIN new.data : DataFit(new, n)
    /\ \A n \in Geometry : /\ DataFit(new, n) /\ DataFit(fd, n)
                           /\ new.data[n] = fd.data[n]
                           /\ new.metadata.variables[n] = fd.metadata.variables[n]

LEMMA CleanFits ==
    ASSUME NEW fd, IsGrid(fd)
    PROVE  /\ CleanedOf(fd, cleanFileData(fd))
           /\ DOMAIN cleanFileData(fd).metadata.variables \subseteq Geometry
           /\ DOMAIN cleanFileData(fd).data \subseteq Geometry
<1> DEFINE data == Without(fd.data, ReadVars)
           noTime == deleteDimension(fd.metadata, "time_counter")
           md == deleteDimension(noTime, "surface_tiles")
           variables == Without(md.variables, DOMAIN md.variables \ DOMAIN data)
           new == cleanFileData(fd)
<1>1. /\ MetadataFit(fd.metadata) /\ HasPoints(fd.metadata.dimensions)
      /\ Geometry \subseteq DOMAIN fd.data /\ DOMAIN fd.data \subseteq Geometry \cup ReadVars
      /\ \A n \in Geometry :
            /\ DataFit(fd, n)
            /\ Lacks(fd.metadata.variables[n], "time_counter")
            /\ Lacks(fd.metadata.variables[n], "surface_tiles")
  BY DEF IsGrid, ReadDims
<1>2. DOMAIN data = Geometry /\ \A n \in Geometry : data[n] = fd.data[n]
  BY <1>1, GeometryApart DEF Without
<1>3. /\ MetadataFit(noTime)
      /\ DOMAIN noTime.dimensions = DOMAIN fd.metadata.dimensions \ {"time_counter"}
      /\ \A d \in DOMAIN noTime.dimensions : noTime.dimensions[d] = fd.metadata.dimensions[d]
      /\ DOMAIN noTime.variables = DOMAIN fd.metadata.variables
      /\ \A n \in Geometry : noTime.variables[n] = fd.metadata.variables[n]
  BY <1>1, DimensionDeletedFrom DEF DataFit
<1> HIDE DEF noTime
<1>4. /\ MetadataFit(md)
      /\ DOMAIN md.dimensions = DOMAIN fd.metadata.dimensions \ ReadDims
      /\ \A d \in DOMAIN md.dimensions : md.dimensions[d] = fd.metadata.dimensions[d]
      /\ DOMAIN md.variables = DOMAIN fd.metadata.variables
      /\ \A n \in Geometry : md.variables[n] = fd.metadata.variables[n]
  BY <1>1, <1>3, DimensionDeletedFrom DEF DataFit, ReadDims
<1>5. new = [metadata |-> keepVariables(md, DOMAIN data), data |-> data]
  BY DEF cleanFileData, noTime
<1> HIDE DEF md, data
<1>6. /\ DOMAIN variables = Geometry
      /\ \A n \in Geometry : variables[n] = fd.metadata.variables[n]
  BY <1>1, <1>2, <1>4 DEF Without, DataFit
<1>7. keepVariables(md, DOMAIN data) = [dimensions |-> md.dimensions, variables |-> variables]
  BY <1>4 DEF keepVariables, MetadataFit
<1> HIDE DEF variables
<1>8. /\ new.metadata = [dimensions |-> md.dimensions, variables |-> variables]
      /\ new.data = data /\ new = [metadata |-> new.metadata, data |-> new.data]
  BY <1>5, <1>7
<1>9. MetadataFit(new.metadata)
  <2>1. \A n \in Geometry : IsVariable(variables[n], md.dimensions)
    BY <1>1, <1>4, <1>6 DEF MetadataFit, DataFit
  <2> QED
    BY <1>4, <1>6, <1>8, <2>1 DEF MetadataFit
<1>10. \A n \in Geometry : DataFit(new, n)
  BY <1>1, <1>2, <1>6, <1>8 DEF DataFit
<1>11. HasPoints(new.metadata.dimensions) /\ DOMAIN new.metadata.dimensions \cap ReadDims = {}
  BY <1>1, <1>4, <1>8 DEF HasPoints
<1> QED
  BY <1>1, <1>2, <1>6, <1>8, <1>9, <1>10, <1>11 DEF CleanedOf

LEMMA DimensionAdded ==
    ASSUME NEW md, MetadataFit(md), NEW name \in Names, NEW size \in Nat,
           name = "full_levels_no_surf" => size = kVertFullNoSurfSize,
           name = "half_levels_with_top" => size = kVertHalfWithTopSize
    PROVE  LET new == addDimension(md, name, size)
           IN  /\ MetadataFit(new) /\ new.variables = md.variables
               /\ DOMAIN new.dimensions = DOMAIN md.dimensions \cup {name}
               /\ \A d \in DOMAIN md.dimensions : new.dimensions[d] = md.dimensions[d]
               /\ name \notin DOMAIN md.dimensions => new.dimensions[name] = size
<1> DEFINE dimensions == insertIfAbsent(md.dimensions, name, size)
           new == addDimension(md, name, size)
<1>1. /\ DOMAIN dimensions = DOMAIN md.dimensions \cup {name}
      /\ \A d \in DOMAIN md.dimensions : dimensions[d] = md.dimensions[d]
      /\ name \notin DOMAIN md.dimensions => dimensions[name] = size
  BY DEF insertIfAbsent
<1> HIDE DEF dimensions
<1>2. new = [dimensions |-> dimensions, variables |-> md.variables]
  BY DEF addDimension, MetadataFit, dimensions
<1>3. new.dimensions = dimensions /\ new.variables = md.variables
  BY <1>2
<1>4. DimensionsFit(dimensions)
  <2>1. \A d \in DOMAIN dimensions : d \in DOMAIN md.dimensions \/ (d = name /\ dimensions[d] = size)
    BY <1>1
  <2> QED
    BY <1>1, <2>1 DEF MetadataFit, DimensionsFit, JediLevelsFit
<1>5. \A n \in DOMAIN md.variables : IsVariable(md.variables[n], dimensions)
  BY <1>1 DEF MetadataFit, IsVariable, DimsFit
<1>6. MetadataFit(new)
  BY <1>2, <1>3, <1>4, <1>5 DEF MetadataFit
<1> QED
  BY <1>1, <1>3, <1>6

LEMMA VariableAdded ==
    ASSUME NEW md, MetadataFit(md), NEW n, NEW var, IsVariable(var, md.dimensions)
    PROVE  LET new == addVariable(md, n, var)
           IN  /\ MetadataFit(new) /\ new.dimensions = md.dimensions
               /\ DOMAIN new.variables = DOMAIN md.variables \cup {n}
               /\ \A v \in DOMAIN md.variables : new.variables[v] = md.variables[v]
               /\ n \notin DOMAIN md.variables => new.variables[n] = var
<1> DEFINE variables == insertIfAbsent(md.variables, n, var)
           new == addVariable(md, n, var)
<1>1. /\ DOMAIN variables = DOMAIN md.variables \cup {n}
      /\ \A v \in DOMAIN md.variables : variables[v] = md.variables[v]
      /\ n \notin DOMAIN md.variables => variables[n] = var
  BY DEF insertIfAbsent
<1> HIDE DEF variables
<1>2. new = [dimensions |-> md.dimensions, variables |-> variables]
  BY DEF addVariable, MetadataFit, variables
<1>3. new.dimensions = md.dimensions /\ new.variables = variables
  BY <1>2
<1>4. \A v \in DOMAIN variables : IsVariable(variables[v], md.dimensions)
  BY <1>1 DEF MetadataFit
<1>5. MetadataFit(new)
  BY <1>2, <1>3, <1>4 DEF MetadataFit
<1> QED
  BY <1>1, <1>3, <1>5

\* A variable of one or two dimensions of the file, and its size.
LEMMA SmallVariable ==
    ASSUME NEW dimensions, DimensionsFit(dimensions), NEW c \in DOMAIN dimensions
    PROVE  LET one == <<[name |-> c, size |-> dimensions[c]]>>
           IN  /\ IsVariable([dims |-> one], dimensions) /\ Len(one) = 1
               /\ getTotalSize(one) = dimensions[c]
               /\ \A d \in DOMAIN dimensions \ {c} :
                     LET two == <<[name |-> d, size |-> dimensions[d]]>> \o one
                     IN  /\ IsVariable([dims |-> two], dimensions) /\ Len(two) = 2
                         /\ getTotalSize(two) = dimensions[d] * dimensions[c]
<1> DEFINE of(d) == [name |-> d, size |-> dimensions[d]]
           one == <<of(c)>>
<1>1. \A d \in DOMAIN dimensions : of(d) \in Dimension
  BY DEF DimensionsFit, Dimension
<1>2. one \in Seq(Dimension) /\ Len(one) = 1 /\ one[1] = of(c)
  BY <1>1
<1>3. DimsFit(one, dimensions)
  BY <1>2 DEF DimsFit
<1>4. getTotalSize(one) = dimensions[c]
  BY <1>2, TotalSize
<1>5. ASSUME NEW d \in DOMAIN dimensions \ {c}
      PROVE  LET two == <<of(d)>> \o one
             IN  /\ IsVariable([dims |-> two], dimensions) /\ Len(two) = 2
                 /\ getTotalSize(two) = dimensions[d] * dimensions[c]
  <2> DEFINE two == <<of(d)>> \o one
  <2>1. /\ two \in Seq(Dimension) /\ Len(two) = 2
        /\ two[1] = of(d) /\ two[2] = of(c)
    BY <1>1, <1>2
  <2>2. \A i \in 1..Len(two) : i = 1 \/ i = 2
    BY <2>1
  <2>3. DimsFit(two, dimensions)
    BY <2>1, <2>2 DEF DimsFit
  <2>4. getTotalSize(two) = dimensions[d] * dimensions[c]
    <3>1. getTotalSize(two) = two[1].size * two[2].size
      <4> HIDE DEF two
      <4> QED BY <2>1, TotalSize
    <3>2. two[1].size = dimensions[d] /\ two[2].size = dimensions[c]
      BY <2>1
    <3> HIDE DEF two
    <3> QED
      BY <3>1, <3>2
  <2> QED
    BY <2>1, <2>3, <2>4 DEF IsVariable
<1> QED
  BY <1>2, <1>3, <1>4, <1>5 DEF IsVariable

\* What Monio adds of its own: a dimension and, on it, a variable with its data.
LEMMA LevelsAdded ==
    ASSUME NEW grid, NEW fd, CleanedOf(grid, fd), NEW name \in JediLevels, NEW size \in Nat,
           name \notin DOMAIN fd.metadata.variables, name \notin DOMAIN fd.data,
           name = "full_levels_no_surf" => size = kVertFullNoSurfSize,
           name = "half_levels_with_top" => size = kVertHalfWithTopSize
    PROVE  LET new == addLevels(fd, name, size)
           IN  /\ CleanedOf(grid, new)
               /\ DOMAIN new.metadata.variables = DOMAIN fd.metadata.variables \cup {name}
               /\ DOMAIN new.data = DOMAIN fd.data \cup {name}
<1> DEFINE one == <<[name |-> name, size |-> size]>>
           dimensioned == addDimension(fd.metadata, name, size)
           md == addVariable(dimensioned, name, [dims |-> one])
           data == insertIfAbsent(fd.data, name, Container(size, "Monio"))
           new == addLevels(fd, name, size)
<1>1. /\ MetadataFit(fd.metadata) /\ name \in Names /\ name \notin ReadDims
      /\ HasPoints(fd.metadata.dimensions)
      /\ DOMAIN fd.metadata.dimensions \cap ReadDims = {}
      /\ DOMAIN fd.metadata.variables \subseteq Geometry \cup JediLevels
  BY NamesAssumption, GeometryApart DEF CleanedOf
<1>2. /\ MetadataFit(dimensioned) /\ dimensioned.variables = fd.metadata.variables
      /\ DOMAIN dimensioned.dimensions = DOMAIN fd.metadata.dimensions \cup {name}
      /\ \A d \in DOMAIN fd.metadata.dimensions :
            dimensioned.dimensions[d] = fd.metadata.dimensions[d]
      /\ name \notin DOMAIN fd.metadata.dimensions => dimensioned.dimensions[name] = size
  BY <1>1, DimensionAdded
<1> HIDE DEF dimensioned
<1>3. dimensioned.dimensions[name] = size
  BY <1>1, <1>2 DEF MetadataFit, DimensionsFit, JediLevelsFit, JediLevels
<1>4. IsVariable([dims |-> one], dimensioned.dimensions) /\ getTotalSize(one) = size
  <2>1. DimensionsFit(dimensioned.dimensions) /\ name \in DOMAIN dimensioned.dimensions
    BY <1>2 DEF MetadataFit
  <2> QED
    BY <1>3, <2>1, SmallVariable
<1>5. /\ MetadataFit(md) /\ md.dimensions = dimensioned.dimensions
      /\ DOMAIN md.variables = DOMAIN fd.metadata.variables \cup {name}
      /\ \A v \in DOMAIN fd.metadata.variables : md.variables[v] = fd.metadata.variables[v]
      /\ md.variables[name] = [dims |-> one]
  <2> HIDE DEF one
  <2> QED
    BY <1>2, <1>4, VariableAdded
<1>6. /\ DOMAIN data = DOMAIN fd.data \cup {name}
      /\ \A n \in DOMAIN fd.data : data[n] = fd.data[n]
      /\ data[name].size = size
  BY DEF insertIfAbsent, Container
<1>7. new = [metadata |-> md, data |-> data]
  BY DEF addLevels, dimensioned
<1> HIDE DEF md, data, one
<1>8. new.metadata = md /\ new.data = data /\ new = [metadata |-> new.metadata, data |-> new.data]
  BY <1>7
<1> HIDE DEF new
<1>9. \A n \in DOMAIN new.data : DataFit(new, n)
  <2>1. \A n \in DOMAIN fd.data : DataFit(fd, n)
    BY DEF CleanedOf
  <2>2. DataFit(new, name)
    BY <1>4, <1>5, <1>6, <1>8 DEF DataFit
  <2> QED
    BY <1>5, <1>6, <1>8, <2>1, <2>2 DEF DataFit
<1>10. \A n \in Geometry : /\ DataFit(new, n) /\ DataFit(grid, n)
                           /\ new.data[n] = grid.data[n]
                           /\ new.metadata.variables[n] = grid.metadata.variables[n]
  BY <1>5, <1>6, <1>8, <1>9 DEF CleanedOf, DataFit
<1>11. HasPoints(new.metadata.dimensions) /\ DOMAIN new.metadata.dimensions \cap ReadDims = {}
  BY <1>1, <1>2, <1>5, <1>8 DEF HasPoints
<1>12. CleanedOf(grid, new)
  BY <1>1, <1>5, <1>8, <1>9, <1>10, <1>11 DEF CleanedOf
<1> QED
  BY <1>5, <1>6, <1>8, <1>12 DEF new

LEMMA JediDataAdded ==
    ASSUME NEW grid, NEW fd, CleanedOf(grid, fd),
           DOMAIN fd.metadata.variables \subseteq Geometry, DOMAIN fd.data \subseteq Geometry
    PROVE  CleanedOf(grid, addJediData(fd))
<1> DEFINE first == addLevels(fd, "full_levels_no_surf", kVertFullNoSurfSize)
<1>1. /\ CleanedOf(grid, first)
      /\ DOMAIN first.metadata.variables = DOMAIN fd.metadata.variables
                                              \cup {"full_levels_no_surf"}
      /\ DOMAIN first.data = DOMAIN fd.data \cup {"full_levels_no_surf"}
  BY LevelsAdded, GeometryApart DEF JediLevels, kVertFullNoSurfSize
<1> HIDE DEF first
<1>2. /\ "half_levels_with_top" \notin DOMAIN first.metadata.variables
      /\ "half_levels_with_top" \notin DOMAIN first.data
  BY <1>1, GeometryApart DEF JediLevels
<1>3. CleanedOf(grid, addLevels(first, "half_levels_with_top", kVertHalfWithTopSize))
  BY <1>1, <1>2, LevelsAdded DEF JediLevels, kVertHalfWithTopSize
<1> QED
  BY <1>3 DEF addJediData, first
----------------------------------------------------------------------------
(* Reading. *)

\* A file that can be read for the grid.
Readable(file) ==
    /\ DimensionsFit(file.dimensions) /\ HasPoints(file.dimensions)
    /\ \A n \in DOMAIN file.variables :
          /\ file.variables[n] \in Seq(DOMAIN file.dimensions)
          /\ \A i, j \in 1..Len(file.variables[n]) :
                file.variables[n][i] = file.variables[n][j] => i = j
    /\ Geometry \subseteq DOMAIN file.variables
    /\ \A n \in Geometry : \A i \in 1..Len(file.variables[n]) :
          file.variables[n][i] \notin ReadDims

\* Metadata that are read fit, and a variable has in them the dimensions of the file.
LEMMA ReadFits ==
    ASSUME NEW file, Readable(file)
    PROVE  LET md == readMetadata(file)
           IN  /\ MetadataFit(md) /\ HasPoints(md.dimensions)
               /\ DOMAIN md.variables = DOMAIN file.variables
               /\ \A n \in Geometry : \A name \in ReadDims : Lacks(md.variables[n], name)
<1> DEFINE dims(n) == [i \in 1..Len(file.variables[n]) |->
                          [name |-> file.variables[n][i],
                           size |-> file.dimensions[file.variables[n][i]]]]
           variables == [n \in DOMAIN file.variables |-> [dims |-> dims(n)]]
           md == readMetadata(file)
<1>1. md = [dimensions |-> file.dimensions, variables |-> variables]
  BY DEF readMetadata
<1>2. ASSUME NEW n \in DOMAIN file.variables
      PROVE  DimsFit(dims(n), file.dimensions)
  <2> DEFINE s == file.variables[n]
             d == dims(n)
  <2>1. s \in Seq(DOMAIN file.dimensions) /\ Len(s) \in Nat
    BY DEF Readable
  <2>2. /\ \A i \in 1..Len(s) : s[i] \in DOMAIN file.dimensions
        /\ \A i, j \in 1..Len(s) : s[i] = s[j] => i = j
    BY <2>1 DEF Readable
  <2>3. d \in Seq(Dimension) /\ Len(d) = Len(s)
    <3>1. \A i \in 1..Len(s) : [name |-> s[i], size |-> file.dimensions[s[i]]] \in Dimension
      BY <2>2 DEF Readable, DimensionsFit, Dimension
    <3> QED
      BY <2>1, <3>1
  <2>4. \A i \in 1..Len(s) : d[i].name = s[i] /\ d[i].size = file.dimensions[s[i]]
    OBVIOUS
  <2> HIDE DEF d, s
  <2>5. DimsFit(d, file.dimensions)
    BY <2>2, <2>3, <2>4 DEF DimsFit
  <2> QED
    BY <2>5 DEF d
<1>3. \A n \in Geometry : \A name \in ReadDims : Lacks([dims |-> dims(n)], name)
  BY DEF Lacks, Readable
<1> HIDE DEF dims
<1>4. /\ DOMAIN variables = DOMAIN file.variables
      /\ \A n \in DOMAIN file.variables : variables[n] = [dims |-> dims(n)]
  OBVIOUS
<1> HIDE DEF variables
<1>5. md.dimensions = file.dimensions /\ md.variables = variables
  BY <1>1
<1>6. MetadataFit(md)
  <2>1. ASSUME NEW n \in DOMAIN file.variables
        PROVE  IsVariable(variables[n], file.dimensions)
    <3>1. variables[n] = [dims |-> dims(n)] /\ variables[n].dims = dims(n)
      BY <1>4
    <3>2. DimsFit(variables[n].dims, file.dimensions)
      BY <1>2, <3>1
    <3> QED
      BY <3>1, <3>2 DEF IsVariable
  <2>2. DimensionsFit(file.dimensions)
    BY DEF Readable
  <2> HIDE DEF md
  <2> QED
    BY <1>1, <1>4, <1>5, <2>1, <2>2 DEF MetadataFit
<1>7. \A n \in Geometry : \A name \in ReadDims : Lacks(md.variables[n], name)
  BY <1>3, <1>4, <1>5 DEF Readable
<1> QED
  BY <1>4, <1>5, <1>6, <1>7 DEF Readable

\* The FileData of a grid that has been read.
LEMMA GridRead ==
    ASSUME NEW file, Readable(file), NEW times \in SUBSET ReadVars
    PROVE  LET md == readMetadata(file)
           IN  IsGrid([metadata |-> md, data |-> readFullData(md, Geometry \cup times)])
<1> DEFINE md == readMetadata(file)
           data == readFullData(md, Geometry \cup times)
           fd == [metadata |-> md, data |-> data]
<1>1. /\ MetadataFit(md) /\ HasPoints(md.dimensions)
      /\ Geometry \subseteq DOMAIN md.variables
      /\ \A n \in Geometry : \A name \in ReadDims : Lacks(md.variables[n], name)
  BY ReadFits DEF Readable
<1> HIDE DEF md
<1>2. /\ DOMAIN data = Geometry \cup times
      /\ \A n \in Geometry : data[n].size = getTotalSize(md.variables[n].dims)
  BY DEF readFullData, Container
<1> HIDE DEF data
<1>3. IsGrid(fd)
  BY <1>1, <1>2 DEF IsGrid, DataFit
<1> QED
  BY <1>3 DEF data, md
----------------------------------------------------------------------------
(* The dimensions of a field. *)

\* The name found for a size is that of a dimension which has it.
IsNameOf(name, dimensions, size) ==
    \/ name = NotFound /\ \A d \in DOMAIN dimensions : dimensions[d] # size
    \/ name # NotFound /\ name \in DOMAIN dimensions /\ dimensions[name] = size

LEMMA DimensionNamed ==
    ASSUME NEW md, NEW size, NEW vertConfig, DimensionsFit(md.dimensions)
    PROVE  IsNameOf(DimensionName(md, size, vertConfig), md.dimensions, size)
<1>1. IsNameOf(getDimensionName(md, size), md.dimensions, size)
  BY DimensionFound DEF IsNameOf
<1>2. \A d \in DOMAIN md.dimensions : d # NotFound
  BY NameOrderAssumption DEF DimensionsFit, Names
<1> QED
  BY <1>1, <1>2 DEF DimensionName, IsNameOf

\* The dimensions of a field have its size, unless that of its levels is left out.
LEMMA FieldDimensions ==
    ASSUME NEW md, DimensionsFit(md.dimensions), HasPoints(md.dimensions), NEW n \in Nat,
           NEW vertConfig,
           ~AlreadyDefined(addVariableDimensions(md, n, vertConfig))
    PROVE  LET dims == addVariableDimensions(md, n, vertConfig)
           IN  /\ IsVariable([dims |-> dims], md.dimensions)
               /\ \/ getTotalSize(dims) = n * Points
                  \/ /\ getTotalSize(dims) = Points
                     /\ \A d \in DOMAIN md.dimensions : md.dimensions[d] # n
<1> DEFINE d == DimensionName(md, n, vertConfig)
           c == DimensionName(md, Points, vertConfig)
           of(e) == [name |-> e, size |-> md.dimensions[e]]
           dims == addVariableDimensions(md, n, vertConfig)
<1>1. IsNameOf(d, md.dimensions, n) /\ IsNameOf(c, md.dimensions, Points)
  BY DimensionNamed
<1>2. c # NotFound /\ c \in DOMAIN md.dimensions /\ md.dimensions[c] = Points
  BY <1>1 DEF IsNameOf, HasPoints
<1>3. dims = (IF d = NotFound THEN <<>> ELSE <<[name |-> d, size |-> n]>>)
                \o <<[name |-> c, size |-> Points]>>
  BY <1>2 DEF addVariableDimensions
<1> HIDE DEF d, c
<1>4. CASE d = NotFound
  <2>1. dims = <<[name |-> c, size |-> md.dimensions[c]]>>
    BY <1>2, <1>3, <1>4
  <2>2. IsVariable([dims |-> dims], md.dimensions) /\ getTotalSize(dims) = md.dimensions[c]
    BY <1>2, <2>1, SmallVariable
  <2> HIDE DEF dims
  <2>3. getTotalSize(dims) = Points /\ \A e \in DOMAIN md.dimensions : md.dimensions[e] # n
    BY <1>1, <1>2, <1>4, <2>2 DEF IsNameOf
  <2> QED
    BY <2>2, <2>3 DEF dims
<1>5. CASE d # NotFound
  <2>1. d \in DOMAIN md.dimensions /\ md.dimensions[d] = n
    BY <1>1, <1>5 DEF IsNameOf
  <2>2. dims = <<[name |-> d, size |-> md.dimensions[d]]>>
                  \o <<[name |-> c, size |-> md.dimensions[c]]>>
    BY <1>2, <1>3, <1>5, <2>1
  <2>3. Len(dims) = 2 /\ dims[1].name = d /\ dims[2].name = c
    BY <2>2
  <2>4. d \in DOMAIN md.dimensions \ {c}
    BY <2>1, <2>3 DEF AlreadyDefined
  <2>5. /\ IsVariable([dims |-> dims], md.dimensions)
        /\ getTotalSize(dims) = md.dimensions[d] * md.dimensions[c]
    BY <1>2, <2>2, <2>4, SmallVariable
  <2> HIDE DEF dims
  <2>6. getTotalSize(dims) = n * Points
    BY <1>2, <2>1, <2>5
  <2> QED
    BY <2>5, <2>6 DEF dims
<1> QED
  BY <1>4, <1>5

\* All dimensions of the metadata are generated, from the first names.
Generated(md, count) ==
    \A d \in DOMAIN md.dimensions : \E i \in 1..count : d = GeneratedNames[i]

\* A size gets the next of the names, if there is no dimension of it.
LEMMA SizeNamed ==
    ASSUME NEW md, MetadataFit(md), NEW count \in 0..Len(GeneratedNames) - 1,
           Generated(md, count), DOMAIN md.dimensions \cap ReadDims = {}, NEW size \in Nat
    PROVE  LET new == newName(md, count, size)
           IN  /\ MetadataFit(new.metadata) /\ new.count \in {count, count + 1}
               /\ new.metadata.variables = md.variables
               /\ Generated(new.metadata, new.count)
               /\ DOMAIN new.metadata.dimensions \cap ReadDims = {}
               /\ Within(md.dimensions, new.metadata.dimensions)
               /\ \E d \in DOMAIN new.metadata.dimensions : new.metadata.dimensions[d] = size
<1> DEFINE name == GeneratedNames[count + 1]
           added == addDimension(md, name, size)
           new == newName(md, count, size)
<1>1. DimensionsFit(md.dimensions)
  BY DEF MetadataFit
<1>2. CASE getDimensionName(md, size) # NotFound
  <2>1. new = [metadata |-> md, count |-> count]
    BY <1>2 DEF newName
  <2>2. new.metadata = md /\ new.count = count
    BY <2>1
  <2>3. \E d \in DOMAIN md.dimensions : md.dimensions[d] = size
    BY <1>1, <1>2, DimensionFound
  <2> HIDE DEF new
  <2> QED
    BY <2>2, <2>3 DEF Within, new
<1>3. CASE getDimensionName(md, size) = NotFound
  <2>1. /\ count + 1 \in 1..Len(GeneratedNames) /\ count \in Nat
        /\ GeneratedNames \in Seq(Names \ (ReadDims \cup JediLevels))
        /\ \A i, j \in 1..Len(GeneratedNames) : GeneratedNames[i] = GeneratedNames[j] => i = j
    BY NamesAssumption
  <2>2. name \in Names /\ name \notin ReadDims \cup JediLevels
    BY <2>1
  <2>3. name \notin DOMAIN md.dimensions
    <3>1. \A i \in 1..count : i \in 1..Len(GeneratedNames) /\ i # count + 1
      BY <2>1
    <3> QED
      BY <2>1, <3>1 DEF Generated
  <2> HIDE DEF name
  <2>4. /\ MetadataFit(added) /\ added.variables = md.variables
        /\ DOMAIN added.dimensions = DOMAIN md.dimensions \cup {name}
        /\ \A d \in DOMAIN md.dimensions : added.dimensions[d] = md.dimensions[d]
        /\ added.dimensions[name] = size
    BY <2>2, <2>3, DimensionAdded DEF JediLevels
  <2>5. new = [metadata |-> added, count |-> count + 1]
    BY <1>3 DEF newName, name
  <2> HIDE DEF added
  <2>6. new.metadata = added /\ new.count = count + 1
    BY <2>5
  <2> HIDE DEF new
  <2>7. Generated(added, count + 1)
    <3>1. \A i \in 1..count : i \in 1..count + 1
      BY <2>1
    <3>2. count + 1 \in 1..count + 1
      BY <2>1
    <3> QED
      BY <2>4, <3>1, <3>2 DEF Generated, name
  <2> QED
    BY <2>2, <2>4, <2>6, <2>7 DEF Within, new
<1> QED
  BY <1>2, <1>3
----------------------------------------------------------------------------
(* Writing. *)

DeclaredIn(file, n) ==
    [i \in 1..Len(file.variables[n]) |->
        [name |-> file.variables[n][i], size |-> file.dimensions[file.variables[n][i]]]]

\* The data of a variable are as many as its dimensions declare.
Sized(file, n) ==
    /\ \A i \in 1..Len(file.variables[n]) : file.variables[n][i] \in DOMAIN file.dimensions
    /\ getTotalSize(DeclaredIn(file, n)) = file.data[n].size

\* A file has what it had and, of the metadata, what is new.
IsWrittenTo(file, md, data, new) ==
    /\ IsOutput(new)
    /\ Within(new.dimensions, md.dimensions) /\ Within(md.dimensions, new.dimensions)
    /\ DOMAIN new.variables = DOMAIN file.variables \cup DOMAIN md.variables
    /\ \A n \in DOMAIN file.variables : DeclaredIn(new, n) = DeclaredIn(file, n)
    /\ \A n \in DOMAIN md.variables \ DOMAIN file.variables :
          DeclaredIn(new, n) = md.variables[n].dims
    /\ DOMAIN new.data = DOMAIN file.data \cup DOMAIN data
    /\ \A n \in DOMAIN data : new.data[n] = data[n]
    /\ \A n \in DOMAIN file.data \ DOMAIN data : new.data[n] = file.data[n]

LEMMA Written ==
    ASSUME NEW file, NEW md, NEW data, IsOutput(file), MetadataFit(md),
           Within(file.dimensions, md.dimensions), HasPoints(md.dimensions),
           DOMAIN md.dimensions \cap ReadDims = {}, DOMAIN md.variables \cap ReadVars = {},
           DOMAIN data \subseteq DOMAIN md.variables
    PROVE  IsWrittenTo(file, md, data, writeData(writeMetadata(file, md), data))
<1> DEFINE fresh == DOMAIN md.variables \ DOMAIN file.variables
           names(dims) == [i \in 1..Len(dims) |-> dims[i].name]
           dimensions == [d \in DOMAIN file.dimensions \cup DOMAIN md.dimensions |->
                            IF d \in DOMAIN file.dimensions THEN file.dimensions[d]
                                                            ELSE md.dimensions[d]]
           variables == [n \in DOMAIN file.variables \cup fresh |->
                           IF n \in fresh THEN names(md.variables[n].dims)
                                          ELSE file.variables[n]]
           all == [n \in DOMAIN file.data \cup DOMAIN data |->
                     IF n \in DOMAIN data THEN data[n] ELSE file.data[n]]
           new == writeData(writeMetadata(file, md), data)
<1>1. new = [dimensions |-> dimensions, variables |-> variables, data |-> all]
  <2>1. file = [dimensions |-> file.dimensions, variables |-> file.variables,
                data |-> file.data]
    BY DEF IsOutput
  <2>2. writeMetadata(file, md)
           = [file EXCEPT !.dimensions = dimensions, !.variables = variables]
    BY DEF writeMetadata
  <2> HIDE DEF dimensions, variables
  <2>3. writeMetadata(file, md)
           = [dimensions |-> dimensions, variables |-> variables, data |-> file.data]
    BY <2>1, <2>2
  <2>4. writeData(writeMetadata(file, md), data)
           = [writeMetadata(file, md) EXCEPT !.data =
                [n \in DOMAIN @ \cup DOMAIN data |-> IF n \in DOMAIN data THEN data[n] ELSE @[n]]]
    BY DEF writeData
  <2> HIDE DEF all
  <2>5. writeData([dimensions |-> dimensions, variables |-> variables, data |-> file.data], data)
           = [dimensions |-> dimensions, variables |-> variables, data |-> all]
    BY DEF writeData, all
  <2> QED
    BY <2>3, <2>5
<1>2. /\ DOMAIN dimensions = DOMAIN md.dimensions
      /\ \A d \in DOMAIN md.dimensions : dimensions[d] = md.dimensions[d]
      /\ \A d \in DOMAIN file.dimensions : d \in DOMAIN dimensions
                                           /\ dimensions[d] = file.dimensions[d]
  BY DEF Within
<1>3. /\ DOMAIN variables = DOMAIN file.variables \cup DOMAIN md.variables
      /\ \A n \in DOMAIN file.variables : variables[n] = file.variables[n]
      /\ \A n \in fresh : variables[n] = names(md.variables[n].dims)
  OBVIOUS
<1>4. /\ DOMAIN all = DOMAIN file.data \cup DOMAIN data
      /\ \A n \in DOMAIN data : all[n] = data[n]
      /\ \A n \in DOMAIN file.data \ DOMAIN data : all[n] = file.data[n]
  OBVIOUS
<1> HIDE DEF dimensions, variables, all
<1>5. /\ new.dimensions = dimensions /\ new.variables = variables /\ new.data = all
      /\ new = [dimensions |-> new.dimensions, variables |-> new.variables, data |-> new.data]
  BY <1>1
<1> HIDE DEF new
<1>6. ASSUME NEW n \in fresh
      PROVE  /\ new.variables[n] \in Seq(DOMAIN new.dimensions)
             /\ \A i, j \in 1..Len(new.variables[n]) :
                   new.variables[n][i] = new.variables[n][j] => i = j
             /\ DeclaredIn(new, n) = md.variables[n].dims
  <2> DEFINE dims == md.variables[n].dims
             s == names(dims)
  <2>1. DimsFit(dims, md.dimensions)
    BY DEF MetadataFit, IsVariable
  <2>2. dims \in Seq(Dimension) /\ Len(dims) \in Nat
    BY <2>1 DEF DimsFit
  <2>3. \A i \in 1..Len(dims) : dims[i] = [name |-> dims[i].name, size |-> dims[i].size]
    <3>1. \A d \in Dimension : d = [name |-> d.name, size |-> d.size]
      BY DEF Dimension
    <3>2. \A i \in 1..Len(dims) : dims[i] \in Dimension
      <4> HIDE DEF dims
      <4> QED BY <2>2
    <3> QED
      BY <3>1, <3>2
  <2>4. \A i \in 1..Len(dims) : dims[i].name \in DOMAIN dimensions
                                /\ dimensions[dims[i].name] = dims[i].size
    BY <1>2, <2>1 DEF DimsFit
  <2>5. \A i, j \in 1..Len(dims) : dims[i].name = dims[j].name => i = j
    BY <2>1 DEF DimsFit
  <2>6. new.variables[n] = s
    BY <1>3, <1>5
  <2>7. s \in Seq(DOMAIN dimensions) /\ Len(s) = Len(dims)
    BY <2>2, <2>4
  <2>8. \A i \in 1..Len(dims) : s[i] = dims[i].name
    OBVIOUS
  <2> HIDE DEF s
  <2>9. DeclaredIn(new, n) = [i \in 1..Len(dims) |-> [name |-> s[i], size |-> dimensions[s[i]]]]
    BY <1>5, <2>6, <2>7 DEF DeclaredIn
  <2>10. dims = [i \in 1..Len(dims) |-> dims[i]]
    <3> HIDE DEF dims
    <3> QED BY <2>2
  <2>11. \A i \in 1..Len(dims) : [name |-> s[i], size |-> dimensions[s[i]]] = dims[i]
    BY <2>3, <2>4, <2>8
  <2>12. DeclaredIn(new, n) = dims
    <3> HIDE DEF dims
    <3> QED BY <2>9, <2>10, <2>11
  <2> QED
    BY <1>5, <2>5, <2>6, <2>7, <2>8, <2>12
<1>7. ASSUME NEW n \in DOMAIN file.variables
      PROVE  /\ new.variables[n] = file.variables[n]
             /\ new.variables[n] \in Seq(DOMAIN new.dimensions)
             /\ DeclaredIn(new, n) = DeclaredIn(file, n)
  <2> DEFINE s == file.variables[n]
  <2>1. new.variables[n] = s
    BY <1>3, <1>5
  <2>2. s \in Seq(DOMAIN file.dimensions) /\ Len(s) \in Nat
    BY DEF IsOutput
  <2>3. \A i \in 1..Len(s) : s[i] \in DOMAIN file.dimensions /\ s[i] \in DOMAIN dimensions
                             /\ dimensions[s[i]] = file.dimensions[s[i]]
    BY <1>2, <2>2
  <2> HIDE DEF s
  <2>4. s \in Seq(DOMAIN dimensions)
    BY <2>2, <2>3
  <2>5. DeclaredIn(new, n) = DeclaredIn(file, n)
    BY <1>5, <2>1, <2>3 DEF DeclaredIn, s
  <2> QED
    BY <1>5, <2>1, <2>4, <2>5 DEF s
<1>8. IsOutput(new)
  <2>1. DimensionsFit(new.dimensions)
    BY <1>2, <1>5 DEF MetadataFit, DimensionsFit, JediLevelsFit
  <2>2. DOMAIN new.dimensions \cap ReadDims = {} /\ HasPoints(new.dimensions)
    BY <1>2, <1>5 DEF HasPoints
  <2>3. \A n \in DOMAIN new.variables :
           /\ new.variables[n] \in Seq(DOMAIN new.dimensions)
           /\ \A i, j \in 1..Len(new.variables[n]) :
                 new.variables[n][i] = new.variables[n][j] => i = j
    <3>1. \A n \in DOMAIN new.variables : n \in fresh \/ n \in DOMAIN file.variables
      BY <1>3, <1>5
    <3>2. \A n \in DOMAIN file.variables : \A i, j \in 1..Len(file.variables[n]) :
             file.variables[n][i] = file.variables[n][j] => i = j
      BY DEF IsOutput
    <3> HIDE DEF fresh
    <3> QED
      BY <1>6, <1>7, <3>1, <3>2
  <2>4. DOMAIN new.variables \cap ReadVars = {} /\ DOMAIN new.data \subseteq DOMAIN new.variables
    BY <1>3, <1>4, <1>5 DEF IsOutput
  <2> QED
    BY <1>5, <2>1, <2>2, <2>3, <2>4 DEF IsOutput
<1>9. Within(new.dimensions, md.dimensions) /\ Within(md.dimensions, new.dimensions)
  BY <1>2, <1>5 DEF Within
<1>10. IsWrittenTo(file, md, data, new)
  BY <1>3, <1>4, <1>5, <1>6, <1>7, <1>8, <1>9 DEF IsWrittenTo
<1> QED
  BY <1>10 DEF new
----------------------------------------------------------------------------
(* The invariant. *)

LEMMA FitIsMetadata ==
    ASSUME NEW md, MetadataFit(md)
    PROVE  IsMetadata(md)
<1>1. Names \subseteq STRING \ {NotFound}
  BY NameOrderAssumption DEF Names
<1>2. Dimension \subseteq [name : STRING \ {NotFound}, size : Nat]
  BY <1>1 DEF Dimension
<1>3. \A n \in DOMAIN md.variables : \A i \in 1..Len(md.variables[n].dims) :
         md.variables[n].dims[i] \in Dimension
  BY DEF MetadataFit, IsVariable, DimsFit
<1> QED
  BY <1>2, <1>3 DEF IsMetadata, MetadataFit, DimensionsFit

LEMMA OutputTypes ==
    ASSUME NEW file, IsOutput(file)
    PROVE  \A n \in DOMAIN file.variables : file.variables[n] \in Seq(STRING \ {NotFound})
<1>1. DOMAIN file.dimensions \subseteq STRING \ {NotFound}
  BY NameOrderAssumption DEF Names, IsOutput, DimensionsFit
<1>2. \A S, T : S \subseteq T => Seq(S) \subseteq Seq(T)
  OBVIOUS
<1> QED
  BY <1>1, <1>2 DEF IsOutput

LEMMA EmptyFits ==
    /\ MetadataFit(EmptyMetadata) /\ IsOutput(EmptyFile)
    /\ EmptyFileData.metadata = EmptyMetadata /\ DOMAIN EmptyFileData.data = {}
    /\ EmptyFileData = [metadata |-> EmptyFileData.metadata, data |-> EmptyFileData.data]
    /\ DOMAIN EmptyMetadata.dimensions = {} /\ DOMAIN EmptyMetadata.variables = {}
    /\ DOMAIN EmptyFile.dimensions = {} /\ DOMAIN EmptyFile.variables = {}
    /\ DOMAIN EmptyFile.data = {}
BY DEF EmptyMetadata, EmptyFile, EmptyFileData, NoMap, MetadataFit, DimensionsFit,
       JediLevelsFit, IsOutput

\* What is kept of the shape of the state by an action that is not about numbers.
Progress ==
    /\ op \in WriteOp \cup {"idle", "aborted"}
    /\ left \subseteq fields /\ fields \subseteq Field
    /\ dimCount \in 0..Len(GeneratedNames) /\ calls \in 0..MaxCalls

LEMMA Types == StoredFits /\ OutFits /\ FileDataFits /\ Progress => TypeOK
<1> SUFFICES ASSUME StoredFits, OutFits, FileDataFits, Progress
             PROVE  TypeOK
  OBVIOUS
<1>1. MetadataFit(stored.metadata)
  BY EmptyFits DEF StoredFits, IsGrid
<1>2. MetadataFit(fileData.metadata)
  BY DEF FileDataFits
<1>3. IsOutput(out)
  BY DEF OutFits
<1> QED
  BY <1>1, <1>2, <1>3, FitIsMetadata, OutputTypes DEF TypeOK, Progress

\* When no write is in progress, only what fits has to be shown.
NoOp == op \in {"idle", "aborted"}

LEMMA NoWrite == NoOp /\ Progress /\ StoredFits /\ OutFits /\ FileDataFits /\ Idle => IInv
BY Types DEF IInv, NoOp, StateWrite, FieldSetWrite, DeclaredSize, MeshKept, WriteOp

LEMMA InitHolds == Init => IInv
<1> SUFFICES ASSUME Init PROVE IInv
  OBVIOUS
<1>1. StoredFits /\ OutFits /\ FileDataFits /\ Idle
  BY EmptyFits DEF Init, StoredFits, OutFits, FileDataFits, Idle
<1>2. NoOp /\ Progress
  BY SchemaAssumption, NamesAssumption DEF Init, NoOp, Progress
<1> QED
  BY <1>1, <1>2, NoWrite

LEMMA InputReadable ==
    ASSUME NEW file, IsInput(file)
    PROVE  Readable(file)
<1>1. DimensionsFit(file.dimensions) /\ HasPoints(file.dimensions)
  BY DEF IsInput, DimensionsFit, HasPoints
<1> QED
  BY <1>1 DEF IsInput, Readable

LEMMA OutputReadable ==
    ASSUME NEW file, IsOutput(file), Geometry \subseteq DOMAIN file.variables
    PROVE  Readable(file)
<1>1. \A n \in DOMAIN file.variables : \A i \in 1..Len(file.variables[n]) :
         file.variables[n][i] \in DOMAIN file.dimensions
  <2>1. \A S : \A s \in Seq(S) : \A i \in 1..Len(s) : s[i] \in S
    OBVIOUS
  <2> QED
    BY <2>1 DEF IsOutput
<1>2. HasPoints(file.dimensions)
  BY GeometryApart DEF IsOutput
<1> QED
  BY <1>1, <1>2 DEF IsOutput, Readable

LEMMA InitialiseHolds ==
    ASSUME IInv, NEW file \in InputFiles \cup {out}, NEW dates \in BOOLEAN,
           InitialiseFile(file, dates)
    PROVE  IInv'
<1>1. Readable(file)
  BY InputReadable, OutputReadable, SchemaAssumption DEF InitialiseFile, IInv, OutFits
<1>2. StoredFits'
  <2> DEFINE times == IF dates THEN {"time_instant"} ELSE {}
             md == readMetadata(file)
  <2>1. times \in SUBSET ReadVars
    BY DEF ReadVars
  <2>2. stored' = [metadata |-> md, data |-> readFullData(md, Geometry \cup times)]
    BY DEF InitialiseFile
  <2> HIDE DEF times
  <2> QED
    BY <1>1, <2>1, <2>2, GridRead DEF StoredFits
<1>3. OutFits' /\ FileDataFits' /\ Idle'
  BY DEF InitialiseFile, IInv, OutFits, FileDataFits, Idle
<1>4. NoOp' /\ Progress'
  BY SchemaAssumption DEF InitialiseFile, IInv, TypeOK, NoOp, Progress
<1> QED
  BY <1>2, <1>3, <1>4, NoWrite, PTL

\* Nothing of a write is in the file before its first field.
LEMMA NothingOut ==
    out = EmptyFile /\ left = fields => OutFits /\ DeclaredSize /\ MeshKept
BY EmptyFits DEF OutFits, DeclaredSize, MeshKept

LEMMA BeginHolds ==
    ASSUME IInv, NEW o \in WriteOp, NEW fs \in FieldSets, BeginWrite(o, fs)
    PROVE  IInv'
<1>1. /\ op' = o /\ left' = fs /\ fields' = fs /\ out' = EmptyFile
      /\ dimCount' = dimCount /\ calls' = calls + 1 /\ calls < MaxCalls
  BY DEF BeginWrite
<1>2. OutFits' /\ DeclaredSize' /\ MeshKept'
  <2>1. (out = EmptyFile)' /\ (left = fields)'
    BY <1>1
  <2> QED
    BY <2>1, NothingOut, PTL
<1>3. Progress'
  BY <1>1, SchemaAssumption DEF Progress, IInv, TypeOK
<1>4. Idle'
  BY <1>1 DEF Idle, WriteOp
<1>5. CASE o = "writeFieldSet"
  <2>1. stored' = stored /\ fileData' = EmptyFileData
    BY <1>5 DEF BeginWrite
  <2>2. StoredFits' /\ FileDataFits'
    BY <2>1, EmptyFits DEF IInv, StoredFits, FileDataFits
  <2>3. StateWrite'
    BY <1>1, <1>5 DEF StateWrite
  <2>4. FieldSetWrite'
    BY <1>1, <2>1, EmptyFits DEF FieldSetWrite, Within
  <2>5. TypeOK'
    BY <1>2, <1>3, <2>2, Types, PTL
  <2> QED
    BY <1>2, <1>4, <2>2, <2>3, <2>4, <2>5 DEF IInv
<1>6. CASE o # "writeFieldSet"
  <2>1. IsGrid(stored)
    BY <1>6 DEF BeginWrite, IInv, StoredFits
  <2>2. stored' = SharedAfterClean(stored)
    BY <1>6 DEF BeginWrite
  <2>3. /\ stored' = [metadata |-> stored'.metadata, data |-> stored'.data]
        /\ stored'.data = stored.data
        /\ stored'.metadata.dimensions = stored.metadata.dimensions
        /\ MetadataFit(stored'.metadata)
        /\ DOMAIN stored'.metadata.variables = DOMAIN stored.metadata.variables
        /\ \A n \in Geometry : stored'.metadata.variables[n] = stored.metadata.variables[n]
    <3> DEFINE new == SharedAfterClean(stored)
    <3>1. /\ stored = [metadata |-> stored.metadata, data |-> stored.data]
          /\ MetadataFit(stored.metadata)
          /\ \A n \in Geometry : /\ n \in DOMAIN stored.metadata.variables
                                 /\ \A name \in ReadDims :
                                       Lacks(stored.metadata.variables[n], name)
      BY <2>1 DEF IsGrid, DataFit
    <3>2. /\ new = [metadata |-> new.metadata, data |-> new.data]
          /\ new.data = stored.data /\ new.metadata.dimensions = stored.metadata.dimensions
          /\ MetadataFit(new.metadata)
          /\ DOMAIN new.metadata.variables = DOMAIN stored.metadata.variables
          /\ \A n \in DOMAIN stored.metadata.variables :
                (\A name \in ReadDims : Lacks(stored.metadata.variables[n], name))
                   => new.metadata.variables[n] = stored.metadata.variables[n]
      BY <3>1, SharedVariablesFit
    <3> HIDE DEF new
    <3>3. stored' = new
      BY <2>2 DEF new
    <3> QED
      BY <3>1, <3>2, <3>3
  <2>4. \A n \in Geometry : DataFit(stored', n) <=> DataFit(stored, n)
    BY <2>3 DEF DataFit
  <2>5. StoredFits'
    <3>1. IsGrid(stored')
      BY <2>1, <2>3, <2>4 DEF IsGrid
    <3> QED
      BY <3>1 DEF StoredFits
  <2>6. CleanedOf(stored, fileData')
    <3>1. /\ CleanedOf(stored, cleanFileData(stored))
          /\ DOMAIN cleanFileData(stored).metadata.variables \subseteq Geometry
          /\ DOMAIN cleanFileData(stored).data \subseteq Geometry
      BY <2>1, CleanFits
    <3>2. CleanedOf(stored, addJediData(cleanFileData(stored)))
      BY <3>1, JediDataAdded
    <3>3. \/ fileData' = cleanFileData(stored)
          \/ fileData' = addJediData(cleanFileData(stored))
      BY <1>6 DEF BeginWrite, WriteOp
    <3> QED
      BY <3>1, <3>2, <3>3
  <2>7. FileDataFits'
    BY <2>6 DEF FileDataFits, CleanedOf
  <2>8. StateWrite'
    <3>1. \A n \in Geometry : /\ DataFit(fileData', n) /\ DataFit(stored', n)
                              /\ fileData'.data[n] = stored'.data[n]
                              /\ fileData'.metadata.variables[n] = stored'.metadata.variables[n]
      BY <2>3, <2>4, <2>6 DEF CleanedOf
    <3> QED
      BY <1>1, <2>6, <3>1, EmptyFits DEF StateWrite, CleanedOf
  <2>9. FieldSetWrite'
    BY <1>1, <1>6 DEF FieldSetWrite
  <2>10. TypeOK'
    BY <1>2, <1>3, <2>5, <2>7, Types, PTL
  <2> QED
    BY <1>2, <1>4, <2>5, <2>7, <2>8, <2>9, <2>10 DEF IInv
<1> QED
  BY <1>5, <1>6

LEMMA EndHolds ==
    ASSUME IInv, EndWrite
    PROVE  IInv'
<1>1. NoOp' /\ Progress' /\ Idle'
  BY DEF EndWrite, NoOp, Progress, Idle, IInv, TypeOK
<1>2. StoredFits' /\ OutFits' /\ FileDataFits'
  BY EmptyFits DEF EndWrite, IInv, StoredFits, OutFits, FileDataFits
<1> QED
  BY <1>1, <1>2, NoWrite, PTL

\* A write that aborts leaves the file as it is.
LEMMA AbortHolds ==
    ASSUME IInv, NEW md, Abort(md), MetadataFit(md), dimCount' \in 0..Len(GeneratedNames),
           DOMAIN md.dimensions \cap ReadDims = {},
           \A n \in DOMAIN fileData.data :
              /\ n \in DOMAIN md.variables
              /\ md.variables[n] = fileData.metadata.variables[n]
    PROVE  IInv'
<1>1. NoOp' /\ Progress' /\ Idle'
  BY DEF Abort, NoOp, Progress, Idle, IInv, TypeOK
<1>2. FileDataFits'
  <2>1. fileData' = [metadata |-> md, data |-> fileData.data]
    BY DEF Abort, IInv, FileDataFits
  <2>2. fileData'.metadata = md /\ fileData'.data = fileData.data
    BY <2>1
  <2>3. \A n \in DOMAIN fileData.data : DataFit(fileData', n)
    BY <2>2 DEF IInv, FileDataFits, DataFit
  <2> QED
    BY <2>1, <2>2, <2>3 DEF FileDataFits
<1>3. StoredFits' /\ OutFits'
  BY DEF Abort, IInv, StoredFits, OutFits
<1> QED
  BY <1>1, <1>2, <1>3, NoWrite, PTL

\* What writing out does, with the metadata and the data of a field.
LEMMA WrittenOut ==
    ASSUME IInv, NEW md, NEW data, NEW f, WriteOut(md, data, f), MetadataFit(md),
           Within(out.dimensions, md.dimensions), HasPoints(md.dimensions),
           DOMAIN md.dimensions \cap ReadDims = {}, DOMAIN md.variables \cap ReadVars = {},
           DOMAIN data \subseteq DOMAIN md.variables
    PROVE  /\ IsWrittenTo(out, md, data, out') /\ OutFits'
           /\ fileData'.metadata.dimensions = md.dimensions
           /\ DOMAIN fileData'.metadata.variables = {} /\ DOMAIN fileData'.data = {}
           /\ FileDataFits'
<1>1. IsWrittenTo(out, md, data, out')
  <2>1. out' = writeData(writeMetadata(out, md), data)
    BY DEF WriteOut
  <2> QED
    BY <2>1, Written DEF IInv, OutFits
<1>2. OutFits'
  BY <1>1 DEF IsWrittenTo, OutFits
<1>3. fileData' = [metadata |-> [dimensions |-> md.dimensions, variables |-> NoMap], data |-> NoMap]
  <2>1. fileData' = clearData([metadata |-> md, data |-> data])
    BY DEF WriteOut
  <2>2. md = [dimensions |-> md.dimensions, variables |-> md.variables]
    BY DEF MetadataFit
  <2>3. clear(md) = [dimensions |-> md.dimensions, variables |-> NoMap]
    BY <2>2 DEF clear
  <2> QED
    BY <2>1, <2>3 DEF clearData
<1>4. DOMAIN NoMap = {}
  BY DEF NoMap
<1>5. /\ fileData'.metadata.dimensions = md.dimensions
      /\ fileData'.metadata = [dimensions |-> fileData'.metadata.dimensions,
                               variables |-> fileData'.metadata.variables]
      /\ fileData' = [metadata |-> fileData'.metadata, data |-> fileData'.data]
      /\ DOMAIN fileData'.metadata.variables = {} /\ DOMAIN fileData'.data = {}
  BY <1>3, <1>4
<1>6. FileDataFits'
  BY <1>5 DEF FileDataFits, MetadataFit
<1> QED
  BY <1>1, <1>2, <1>5, <1>6

\* The data that a step writes are as many as the file declares for them.
LEMMA NewDataSized ==
    ASSUME NEW file, NEW md, NEW data, NEW new, IsWrittenTo(file, md, data, new),
           NEW n \in DOMAIN data, n \in DOMAIN md.variables \ DOMAIN file.variables,
           MetadataFit(md), data[n].size = getTotalSize(md.variables[n].dims)
    PROVE  Sized(new, n)
<1>1. DeclaredIn(new, n) = md.variables[n].dims /\ new.data[n] = data[n]
  BY DEF IsWrittenTo
<1>2. n \in DOMAIN new.variables
  BY DEF IsWrittenTo
<1>3. \A i \in 1..Len(new.variables[n]) : new.variables[n][i] \in DOMAIN new.dimensions
  <2>1. \A S : \A s \in Seq(S) : \A i \in 1..Len(s) : s[i] \in S
    OBVIOUS
  <2> QED
    BY <1>2, <2>1 DEF IsWrittenTo, IsOutput
<1> QED
  BY <1>1, <1>3 DEF Sized

\* The data that are in the file stay as many as it declares.
LEMMA OldDataSized ==
    ASSUME NEW file, NEW md, NEW data, NEW new, IsWrittenTo(file, md, data, new),
           NEW n \in DOMAIN file.data, n \in DOMAIN file.variables, Sized(file, n),
           n \in DOMAIN data => data[n].size = file.data[n].size
    PROVE  Sized(new, n)
<1>1. DeclaredIn(new, n) = DeclaredIn(file, n) /\ new.data[n].size = file.data[n].size
  BY DEF IsWrittenTo
<1>2. n \in DOMAIN new.variables
  BY DEF IsWrittenTo
<1>3. \A i \in 1..Len(new.variables[n]) : new.variables[n][i] \in DOMAIN new.dimensions
  <2>1. \A S : \A s \in Seq(S) : \A i \in 1..Len(s) : s[i] \in S
    OBVIOUS
  <2> QED
    BY <1>2, <2>1 DEF IsWrittenTo, IsOutput
<1> QED
  BY <1>1, <1>3 DEF Sized

\* A field has as many data as its dimensions say, or more levels than one and no
\* dimension for them.
LEMMA FieldSize ==
    ASSUME NEW f \in Field, NEW o \in {"LFRic", "JEDI"}, NEW size,
           \/ size = WriteLevels(o, f) * Points
           \/ size = Points /\ levels[f] = 1
    PROVE  size = WriteLevels(o, f) * Points
<1>1. levels[f] \in Nat \ {0} /\ Points \in Nat
  BY SchemaAssumption
<1>2. levels[f] = 1 => WriteLevels(o, f) = 1
  BY DEF WriteLevels, kVerticalHalfSize
<1> QED
  BY <1>1, <1>2

LEMMA WriteLevelsType ==
    ASSUME NEW f \in Field, NEW o
    PROVE  WriteLevels(o, f) \in Nat
BY SchemaAssumption DEF WriteLevels, kVerticalFullSize

\* DeclaredSize, by the file it is about.
Writing == op \in WriteOp

EachSized == \A n \in DOMAIN out.data : WithoutDimension(n) \/ Sized(out, n)

LEMMA AllSized == Writing => (DeclaredSize <=> EachSized)
BY DEF DeclaredSize, Writing, EachSized, Sized, Declared, DeclaredIn

LEMMA WriteFieldHolds ==
    ASSUME IInv, NEW f \in Field, WriteField(f)
    PROVE  IInv'
<1> DEFINE md == fileData.metadata
           n == WriteLevels(op, f)
           dims == addVariableDimensions(md, n, VertConfig(op, f))
           var == [dims |-> dims]
           md2 == addVariable(md, f, var)
           data == insertIfAbsent(fileData.data, f, Container(n * Points, f))
<1>1. /\ op \in {"LFRic", "JEDI"} /\ f \in left /\ dimCount' = dimCount
      /\ left \subseteq fields /\ f \in fields
      /\ MetadataFit(md) /\ DOMAIN md.dimensions \cap ReadDims = {}
      /\ HasPoints(md.dimensions)
      /\ DOMAIN md.variables \subseteq Geometry \cup JediLevels
      /\ DOMAIN out.variables \subseteq Geometry \cup JediLevels \cup (fields \ left)
      /\ IsOutput(out)
      /\ \A v \in DOMAIN fileData.data : DataFit(fileData, v)
  BY DEF WriteField, IInv, TypeOK, FileDataFits, StateWrite, OutFits
<1>2. /\ f \notin DOMAIN md.variables /\ f \notin DOMAIN out.variables
      /\ f \notin DOMAIN fileData.data /\ f \notin DOMAIN out.data
  BY <1>1, GeometryApart DEF DataFit, IsOutput
<1>3. /\ DimensionsFit(md.dimensions) /\ n \in Nat
  BY <1>1, WriteLevelsType DEF MetadataFit
<1>4. CASE AlreadyDefined(dims)
  <2>1. Abort(md)
    BY <1>4 DEF WriteField
  <2>2. dimCount' \in 0..Len(GeneratedNames)
    BY <1>1 DEF IInv, TypeOK
  <2> HIDE DEF md
  <2>3. \A v \in DOMAIN fileData.data : v \in DOMAIN md.variables
    BY <1>1 DEF DataFit, md
  <2>4. md = fileData.metadata
    BY DEF md
  <2> QED
    BY <1>1, <2>1, <2>2, <2>3, <2>4, AbortHolds
<1>5. CASE ~AlreadyDefined(dims)
  <2>1. WriteOut(md2, data, f)
    BY <1>5 DEF WriteField
  <2>2. /\ IsVariable(var, md.dimensions)
        /\ \/ getTotalSize(dims) = n * Points
           \/ /\ getTotalSize(dims) = Points
              /\ \A d \in DOMAIN md.dimensions : md.dimensions[d] # n
    <3> HIDE DEF n, md
    <3>1. ~AlreadyDefined(addVariableDimensions(md, n, VertConfig(op, f)))
      BY <1>5
    <3> QED
      BY <1>1, <1>3, <3>1, FieldDimensions
  <2> HIDE DEF dims
  <2>3. /\ MetadataFit(md2) /\ md2.dimensions = md.dimensions
        /\ DOMAIN md2.variables = DOMAIN md.variables \cup {f}
        /\ \A v \in DOMAIN md.variables : md2.variables[v] = md.variables[v]
        /\ md2.variables[f].dims = dims
    <3> HIDE DEF var
    <3>1. /\ MetadataFit(md2) /\ md2.dimensions = md.dimensions
          /\ DOMAIN md2.variables = DOMAIN md.variables \cup {f}
          /\ \A v \in DOMAIN md.variables : md2.variables[v] = md.variables[v]
          /\ md2.variables[f] = var
      BY <1>1, <1>2, <2>2, VariableAdded
    <3>2. var.dims = dims
      BY DEF var
    <3> HIDE DEF md2
    <3> QED
      BY <3>1, <3>2
  <2>4. /\ DOMAIN data = DOMAIN fileData.data \cup {f}
        /\ \A v \in DOMAIN fileData.data : data[v] = fileData.data[v]
        /\ data[f].size = n * Points
    BY <1>2 DEF insertIfAbsent, Container
  <2> HIDE DEF md2, data, var, n
  \* Of the first field, and of those after it.
  <2>5. Within(out.dimensions, md.dimensions)
    BY <1>1, EmptyFits DEF IInv, StateWrite, Within
  <2>6. DOMAIN md2.variables \cap ReadVars = {} /\ DOMAIN data \subseteq DOMAIN md2.variables
    BY <1>1, <2>3, <2>4, GeometryApart DEF DataFit
  <2>7. /\ IsWrittenTo(out, md2, data, out') /\ OutFits'
        /\ fileData'.metadata.dimensions = md.dimensions
        /\ DOMAIN fileData'.metadata.variables = {} /\ DOMAIN fileData'.data = {}
        /\ FileDataFits'
    <3>1. Within(out.dimensions, md2.dimensions) /\ HasPoints(md2.dimensions)
          /\ DOMAIN md2.dimensions \cap ReadDims = {}
      BY <1>1, <2>3, <2>5
    <3> QED
      BY <2>1, <2>3, <2>6, <3>1, WrittenOut
  <2>8. /\ stored' = stored /\ op' = op /\ left' = left \ {f} /\ fields' = fields
        /\ calls' = calls
    BY <2>1 DEF WriteOut
  <2>9. Progress' /\ StoredFits' /\ Idle' /\ FieldSetWrite'
    BY <1>1, <2>8 DEF IInv, Progress, TypeOK, StoredFits, Idle, FieldSetWrite, WriteOp
  <2>10. left' # fields'
    BY <1>1, <2>8
  <2>11. StateWrite'
    <3>1. DOMAIN out'.variables \subseteq Geometry \cup JediLevels \cup (fields' \ left')
      BY <1>1, <2>3, <2>7, <2>8 DEF IsWrittenTo
    <3>2. /\ Within(out'.dimensions, fileData'.metadata.dimensions)
          /\ Within(fileData'.metadata.dimensions, out'.dimensions)
      BY <2>3, <2>7 DEF IsWrittenTo
    <3> QED
      BY <1>1, <2>7, <2>10, <3>1, <3>2 DEF StateWrite
  <2>12. \/ left = fields /\ out = EmptyFile
         \/ /\ left # fields /\ DOMAIN fileData.data = {}
            /\ DOMAIN md.variables = {} /\ Within(md.dimensions, out.dimensions)
    BY <1>1 DEF IInv, StateWrite
  <2>13. DeclaredSize'
    <3> SUFFICES \A v \in DOMAIN out'.data : WithoutDimension(v)' \/ Sized(out', v)
      <4>1. Writing'
        BY <1>1, <2>8 DEF Writing, WriteOp
      <4>2. EachSized' => DeclaredSize'
        BY <4>1, AllSized, PTL
      <4> QED
        BY <4>2 DEF EachSized
    <3>1. WithoutDimension(f)' \/ Sized(out', f)
      <4>1. CASE getTotalSize(dims) = n * Points
        BY <1>2, <2>3, <2>4, <2>7, <4>1, NewDataSized
      <4>2. CASE /\ getTotalSize(dims) = Points
                 /\ \A d \in DOMAIN md.dimensions : md.dimensions[d] # n
        <5>1. CASE levels[f] = 1
          <6>1. getTotalSize(dims) = n * Points
            BY <1>1, <4>2, <5>1, FieldSize DEF n
          <6> QED
            BY <1>2, <2>3, <2>4, <2>7, <6>1, NewDataSized
        <5>2. CASE levels[f] # 1
          <6>1. \A d \in DOMAIN out'.dimensions : out'.dimensions[d] # n
            BY <2>3, <2>7, <4>2 DEF IsWrittenTo, Within
          <6>2. levels[f] > 1
            BY <5>2, SchemaAssumption
          <6> QED
            BY <1>1, <2>8, <6>1, <6>2 DEF WithoutDimension, HasSize, Levels, n
        <5> QED
          BY <5>1, <5>2
      <4> QED
        BY <2>2, <4>1, <4>2
    <3>2. ASSUME NEW v \in DOMAIN fileData.data
          PROVE  Sized(out', v)
      <4>1. DataFit(fileData, v) /\ v \in DOMAIN md.variables
        BY <1>1 DEF DataFit
      <4>2. v \notin DOMAIN out.variables
        BY <2>12, <4>1, EmptyFits
      <4> QED
        BY <2>3, <2>4, <2>7, <4>1, <4>2, NewDataSized DEF DataFit
    <3>3. ASSUME NEW v \in DOMAIN out.data
          PROVE  WithoutDimension(v)' \/ Sized(out', v)
      <4>1. /\ left # fields /\ DOMAIN fileData.data = {} /\ v \notin DOMAIN data
            /\ Within(md.dimensions, out.dimensions)
        BY <1>2, <2>4, <2>12, EmptyFits
      <4>2. WithoutDimension(v) \/ Sized(out, v)
        BY <1>1, AllSized DEF IInv, Writing, EachSized, WriteOp
      <4>3. ASSUME WithoutDimension(v)
            PROVE  WithoutDimension(v)'
        <5>1. \A d \in DOMAIN out'.dimensions : /\ d \in DOMAIN out.dimensions
                                                /\ out'.dimensions[d] = out.dimensions[d]
          BY <2>3, <2>7, <4>1 DEF IsWrittenTo, Within
        <5> QED
          BY <2>8, <4>3, <5>1 DEF WithoutDimension, HasSize, Levels
      <4>4. ASSUME Sized(out, v)
            PROVE  Sized(out', v)
        BY <1>1, <2>7, <4>1, <4>4, OldDataSized DEF IsOutput
      <4> QED
        BY <4>2, <4>3, <4>4
    <3>4. DOMAIN out'.data = DOMAIN out.data \cup DOMAIN fileData.data \cup {f}
      BY <2>4, <2>7 DEF IsWrittenTo
    <3> QED
      BY <3>1, <3>2, <3>3, <3>4
  <2>14. MeshKept'
    <3> SUFFICES ASSUME NEW v \in Geometry
                 PROVE  /\ v \in DOMAIN out'.data
                        /\ DeclaredIn(out', v) = stored.metadata.variables[v].dims
                        /\ out'.data[v] = stored.data[v]
      BY <2>8 DEF MeshKept, Declared, DeclaredIn
    <3>1. CASE left = fields
      <4>1. /\ DataFit(fileData, v) /\ fileData.data[v] = stored.data[v]
            /\ md.variables[v] = stored.metadata.variables[v] /\ out = EmptyFile
        BY <1>1, <3>1 DEF IInv, StateWrite
      <4>2. /\ v \in DOMAIN data /\ data[v] = stored.data[v]
            /\ v \in DOMAIN md2.variables \ DOMAIN out.variables
            /\ md2.variables[v].dims = stored.metadata.variables[v].dims
        BY <2>3, <2>4, <4>1, EmptyFits DEF DataFit
      <4> QED
        BY <2>7, <4>2 DEF IsWrittenTo
    <3>2. CASE left # fields
      <4>1. /\ v \in DOMAIN out.data /\ out.data[v] = stored.data[v]
            /\ DeclaredIn(out, v) = stored.metadata.variables[v].dims
        BY <1>1, <3>2 DEF IInv, MeshKept, Declared, DeclaredIn
      <4>2. v \notin DOMAIN data /\ v \in DOMAIN out.variables
        BY <1>1, <1>2, <2>4, <2>12, <3>2, <4>1 DEF IsOutput
      <4> QED
        BY <2>7, <4>1, <4>2 DEF IsWrittenTo
    <3> QED
      BY <3>1, <3>2
  <2>15. TypeOK'
    BY <2>7, <2>9, Types, PTL
  <2> QED
    BY <2>7, <2>9, <2>11, <2>13, <2>14, <2>15 DEF IInv
<1> QED
  BY <1>4, <1>5

\* The coordinates that writeFieldSet puts with a field: their variables and their data.
LEMMA CoordinatesAdded ==
    ASSUME NEW md, MetadataFit(md), DOMAIN md.variables = {}, HasPoints(md.dimensions),
           NEW f \in Field, NEW dims, IsVariable([dims |-> dims], md.dimensions)
    PROVE  LET pointDims == <<[name |-> getDimensionName(md, Points), size |-> Points]>>
               withField == addVariable(md, f, [dims |-> dims])
               withLongitude == addVariable(withField, "longitude", [dims |-> pointDims])
               new == addVariable(withLongitude, "latitude", [dims |-> pointDims])
           IN  /\ MetadataFit(new) /\ new.dimensions = md.dimensions
               /\ DOMAIN new.variables = CoordVars \cup {f}
               /\ new.variables[f].dims = dims
               /\ \A c \in CoordVars : getTotalSize(new.variables[c].dims) = Points
<1> DEFINE p == getDimensionName(md, Points)
           pointDims == <<[name |-> p, size |-> Points]>>
           var == [dims |-> dims]
           pointVar == [dims |-> pointDims]
           withField == addVariable(md, f, var)
           withLongitude == addVariable(withField, "longitude", pointVar)
           new == addVariable(withLongitude, "latitude", pointVar)
<1>1. DimensionsFit(md.dimensions)
  BY DEF MetadataFit
<1>2. p \in DOMAIN md.dimensions /\ md.dimensions[p] = Points
  BY <1>1, DimensionFound DEF HasPoints
<1> HIDE DEF p
<1>3. IsVariable(pointVar, md.dimensions) /\ getTotalSize(pointDims) = Points
  <2>1. pointDims = <<[name |-> p, size |-> md.dimensions[p]]>>
    BY <1>2
  <2> HIDE DEF pointDims
  <2> QED
    BY <1>1, <1>2, <2>1, SmallVariable
<1>4. var.dims = dims /\ pointVar.dims = pointDims
  OBVIOUS
<1>5. f # "longitude" /\ f # "latitude"
  BY GeometryApart DEF CoordVars
<1> HIDE DEF pointDims, pointVar
<1>6. /\ MetadataFit(withField) /\ withField.dimensions = md.dimensions
      /\ DOMAIN withField.variables = {f} /\ withField.variables[f] = var
  <2> HIDE DEF var
  <2> QED
    BY VariableAdded DEF var
<1> HIDE DEF var, withField
<1>7. /\ MetadataFit(withLongitude) /\ withLongitude.dimensions = md.dimensions
      /\ DOMAIN withLongitude.variables = {f, "longitude"}
      /\ withLongitude.variables[f] = var /\ withLongitude.variables["longitude"] = pointVar
  BY <1>3, <1>5, <1>6, VariableAdded
<1> HIDE DEF withLongitude
<1>8. /\ MetadataFit(new) /\ new.dimensions = md.dimensions
      /\ DOMAIN new.variables = {f, "longitude", "latitude"}
      /\ new.variables[f] = var /\ new.variables["longitude"] = pointVar
      /\ new.variables["latitude"] = pointVar
  BY <1>3, <1>5, <1>7, VariableAdded
<1> HIDE DEF new
<1>9. /\ MetadataFit(new) /\ new.dimensions = md.dimensions
      /\ DOMAIN new.variables = CoordVars \cup {f}
      /\ new.variables[f].dims = dims
      /\ \A c \in CoordVars : getTotalSize(new.variables[c].dims) = Points
  BY <1>3, <1>4, <1>8 DEF CoordVars
<1> QED
  BY <1>9 DEF new, withLongitude, withField, var, pointVar, pointDims, p

LEMMA WriteFieldOfSetHolds ==
    ASSUME IInv, NEW f \in Field, WriteFieldOfSet(f)
    PROVE  IInv'
<1> DEFINE md0 == fileData.metadata
           first == newName(md0, dimCount, Points)
           named == newName(first.metadata, first.count, levels[f])
           md == named.metadata
           dims == addVariableDimensions(md, levels[f], "")
           pointDims == <<[name |-> getDimensionName(md, Points), size |-> Points]>>
           withField == addVariable(md, f, [dims |-> dims])
           withLongitude == addVariable(withField, "longitude", [dims |-> pointDims])
           md2 == addVariable(withLongitude, "latitude", [dims |-> pointDims])
           coords == [n \in CoordVars |-> Container(Points, "Atlas")]
           data == insertIfAbsent(coords, f, Container(levels[f] * Points, f))
<1>1. /\ op = "writeFieldSet" /\ f \in left /\ left \subseteq fields /\ f \in fields
      /\ MetadataFit(md0) /\ DOMAIN md0.dimensions \cap ReadDims = {}
      /\ DOMAIN md0.variables = {} /\ DOMAIN fileData.data = {}
      /\ Generated(md0, dimCount) /\ Within(out.dimensions, md0.dimensions)
      /\ DOMAIN out.variables \subseteq CoordVars \cup (fields \ left)
      /\ DOMAIN out.data = DOMAIN out.variables
      /\ \A n \in CoordVars \cap DOMAIN out.data : out.data[n].size = Points
      /\ IsOutput(out)
  BY DEF WriteFieldOfSet, IInv, TypeOK, FileDataFits, FieldSetWrite, OutFits, Generated
<1>2. /\ dimCount \in Nat /\ dimCount + 2 <= Len(GeneratedNames) /\ Len(GeneratedNames) \in Nat
      /\ Points \in Nat /\ levels[f] \in Nat /\ dimCount' = named.count
  <2>1. dimCount \in 0..Len(GeneratedNames)
    BY DEF IInv, TypeOK
  <2>2. Len(GeneratedNames) \in Nat
    BY NamesAssumption
  <2>3. dimCount + 2 <= Len(GeneratedNames) /\ dimCount' = named.count
    BY DEF WriteFieldOfSet
  <2> HIDE DEF named
  <2> QED
    BY <2>1, <2>2, <2>3, SchemaAssumption
<1>3. f \notin CoordVars /\ f \notin DOMAIN out.variables
  BY <1>1, GeometryApart
<1>4. /\ MetadataFit(first.metadata) /\ first.count \in {dimCount, dimCount + 1}
      /\ first.metadata.variables = md0.variables
      /\ Generated(first.metadata, first.count)
      /\ DOMAIN first.metadata.dimensions \cap ReadDims = {}
      /\ Within(md0.dimensions, first.metadata.dimensions)
      /\ \E d \in DOMAIN first.metadata.dimensions : first.metadata.dimensions[d] = Points
  <2>1. dimCount \in 0..Len(GeneratedNames) - 1
    BY <1>2
  <2> HIDE DEF md0
  <2> QED
    BY <1>1, <1>2, <2>1, SizeNamed
<1> HIDE DEF first
<1>5. /\ MetadataFit(md) /\ named.count \in {first.count, first.count + 1}
      /\ md.variables = first.metadata.variables
      /\ Generated(md, named.count)
      /\ DOMAIN md.dimensions \cap ReadDims = {}
      /\ Within(first.metadata.dimensions, md.dimensions)
      /\ \E d \in DOMAIN md.dimensions : md.dimensions[d] = levels[f]
  <2> DEFINE md1 == first.metadata
             count == first.count
             size == levels[f]
  <2>1. count \in 0..Len(GeneratedNames) - 1
    BY <1>2, <1>4
  <2>2. /\ MetadataFit(md1) /\ Generated(md1, count) /\ DOMAIN md1.dimensions \cap ReadDims = {}
        /\ size \in Nat
    BY <1>2, <1>4
  <2>3. named = newName(md1, count, size)
    OBVIOUS
  <2> HIDE DEF md1, count, size, named
  <2>4. /\ MetadataFit(named.metadata) /\ named.count \in {count, count + 1}
        /\ named.metadata.variables = md1.variables
        /\ Generated(named.metadata, named.count)
        /\ DOMAIN named.metadata.dimensions \cap ReadDims = {}
        /\ Within(md1.dimensions, named.metadata.dimensions)
        /\ \E d \in DOMAIN named.metadata.dimensions : named.metadata.dimensions[d] = size
    BY <2>1, <2>2, <2>3, SizeNamed
  <2> QED
    BY <2>4 DEF md1, count, size
<1> HIDE DEF named
<1>6. named.count \in 0..Len(GeneratedNames)
  BY <1>2, <1>4, <1>5
<1> HIDE DEF md
<1>7. /\ HasPoints(md.dimensions) /\ Within(out.dimensions, md.dimensions)
      /\ DOMAIN md.variables = {}
  BY <1>1, <1>4, <1>5 DEF HasPoints, Within
<1>8. DimensionsFit(md.dimensions)
  BY <1>5 DEF MetadataFit
<1>9. CASE AlreadyDefined(dims)
  <2>1. Abort(md)
    BY <1>9 DEF WriteFieldOfSet, md, named, first
  <2> HIDE DEF dims, md2, data
  <2> QED
    BY <1>1, <1>2, <1>5, <1>6, <2>1, AbortHolds
<1>10. CASE ~AlreadyDefined(dims)
  <2>1. WriteOut(md2, data, f)
    BY <1>10 DEF WriteFieldOfSet, md, named, first
  <2>2. IsVariable([dims |-> dims], md.dimensions) /\ getTotalSize(dims) = levels[f] * Points
    BY <1>2, <1>5, <1>7, <1>8, <1>10, FieldDimensions
  <2> HIDE DEF dims
  <2>3. /\ MetadataFit(md2) /\ md2.dimensions = md.dimensions
        /\ DOMAIN md2.variables = CoordVars \cup {f}
        /\ md2.variables[f].dims = dims
        /\ \A c \in CoordVars : getTotalSize(md2.variables[c].dims) = Points
    BY <1>5, <1>7, <2>2, CoordinatesAdded
  <2>4. /\ DOMAIN data = CoordVars \cup {f} /\ data[f].size = levels[f] * Points
        /\ \A c \in CoordVars : data[c].size = Points
    BY <1>3 DEF insertIfAbsent, Container
  <2> HIDE DEF md2, data
  <2>5. /\ IsWrittenTo(out, md2, data, out') /\ OutFits'
        /\ fileData'.metadata.dimensions = md.dimensions
        /\ DOMAIN fileData'.metadata.variables = {} /\ DOMAIN fileData'.data = {}
        /\ FileDataFits'
    <3>1. /\ Within(out.dimensions, md2.dimensions) /\ HasPoints(md2.dimensions)
          /\ DOMAIN md2.dimensions \cap ReadDims = {}
          /\ DOMAIN md2.variables \cap ReadVars = {} /\ DOMAIN data \subseteq DOMAIN md2.variables
      BY <1>1, <1>5, <1>7, <2>3, <2>4, GeometryApart
    <3> QED
      BY <2>1, <2>3, <3>1, WrittenOut
  <2>6. /\ stored' = stored /\ op' = op /\ left' = left \ {f} /\ fields' = fields
        /\ calls' = calls
    BY <2>1 DEF WriteOut
  <2>7. Progress' /\ StoredFits' /\ Idle' /\ StateWrite' /\ MeshKept'
    BY <1>1, <1>2, <1>6, <2>6
       DEF IInv, Progress, TypeOK, StoredFits, Idle, StateWrite, MeshKept, WriteOp
  <2>8. DOMAIN out'.data = DOMAIN out.data \cup CoordVars \cup {f}
    BY <2>4, <2>5 DEF IsWrittenTo
  <2>9. \A c \in CoordVars : out'.data[c].size = Points
    BY <2>4, <2>5 DEF IsWrittenTo
  <2>10. FieldSetWrite'
    <3>1. /\ DOMAIN out'.variables \subseteq CoordVars \cup (fields' \ left')
          /\ DOMAIN out'.data = DOMAIN out'.variables
      BY <1>1, <2>3, <2>5, <2>6, <2>8 DEF IsWrittenTo
    <3>2. Within(out'.dimensions, fileData'.metadata.dimensions)
      BY <2>3, <2>5 DEF IsWrittenTo
    <3>3. \A d \in DOMAIN fileData'.metadata.dimensions :
             \E i \in 1..dimCount' : d = GeneratedNames[i]
      BY <1>2, <1>5, <2>5 DEF Generated
    <3> QED
      BY <2>5, <2>9, <3>1, <3>2, <3>3 DEF FieldSetWrite
  <2>11. DeclaredSize'
    <3> SUFFICES \A v \in DOMAIN out'.data : Sized(out', v)
      <4>1. Writing'
        BY <1>1, <2>6 DEF Writing, WriteOp
      <4>2. EachSized' => DeclaredSize'
        BY <4>1, AllSized, PTL
      <4> QED
        BY <4>2 DEF EachSized
    <3>1. Sized(out', f)
      BY <1>3, <2>2, <2>3, <2>4, <2>5, NewDataSized
    <3>2. ASSUME NEW c \in CoordVars, c \notin DOMAIN out.variables
          PROVE  Sized(out', c)
      BY <2>3, <2>4, <2>5, <3>2, NewDataSized
    <3>3. ASSUME NEW v \in DOMAIN out.data
          PROVE  Sized(out', v)
      <4>1. WithoutDimension(v) \/ Sized(out, v)
        BY <1>1, AllSized DEF IInv, Writing, EachSized, WriteOp
      <4>2. Sized(out, v)
        BY <1>1, <4>1 DEF WithoutDimension
      <4>3. v \in DOMAIN data => data[v].size = out.data[v].size
        BY <1>1, <1>3, <2>4
      <4> QED
        BY <1>1, <2>5, <4>2, <4>3, OldDataSized
    <3> QED
      BY <1>1, <2>8, <3>1, <3>2, <3>3
  <2>12. TypeOK'
    BY <2>5, <2>7, Types, PTL
  <2> QED
    BY <2>5, <2>7, <2>10, <2>11, <2>12 DEF IInv
<1> QED
  BY <1>9, <1>10

LEMMA StutterHolds ==
    ASSUME IInv, UNCHANGED vars
    PROVE  IInv'
<1>1. TypeOK' /\ StoredFits' /\ OutFits'
  BY DEF vars, IInv, TypeOK, StoredFits, OutFits
<1>2. FileDataFits' /\ StateWrite'
  BY DEF vars, IInv, FileDataFits, StateWrite
<1>3. FieldSetWrite' /\ Idle'
  BY DEF vars, IInv, FieldSetWrite, Idle
<1>4. DeclaredSize'
  BY DEF vars, IInv, DeclaredSize, WithoutDimension, HasSize, Levels, Declared
<1>5. MeshKept'
  BY DEF vars, IInv, MeshKept, Declared
<1> QED
  BY <1>1, <1>2, <1>3, <1>4, <1>5 DEF IInv

LEMMA NextHolds ==
    ASSUME IInv, [Next]_vars
    PROVE  IInv'
<1>1. ASSUME NEW file \in InputFiles \cup {out}, NEW dates \in BOOLEAN,
             InitialiseFile(file, dates)
      PROVE  IInv'
  BY <1>1, InitialiseHolds
<1>2. ASSUME NEW o \in WriteOp, NEW fs \in FieldSets, BeginWrite(o, fs)
      PROVE  IInv'
  BY <1>2, BeginHolds
<1>3. ASSUME NEW f \in Field, WriteField(f)
      PROVE  IInv'
  BY <1>3, WriteFieldHolds
<1>4. ASSUME NEW f \in Field, WriteFieldOfSet(f)
      PROVE  IInv'
  BY <1>4, WriteFieldOfSetHolds
<1>5. CASE EndWrite
  BY <1>5, EndHolds
<1>6. CASE UNCHANGED vars
  BY <1>6, StutterHolds
<1> QED
  BY <1>1, <1>2, <1>3, <1>4, <1>5, <1>6 DEF Next
----------------------------------------------------------------------------
(* The theorems. *)

\* IInv is an invariant of all files, fields, schemas and orders of calls.
THEOREM Invariance == Spec => []IInv
<1>1. Init => IInv
  BY InitHolds
<1>2. IInv /\ [Next]_vars => IInv'
  BY NextHolds
<1> QED
  BY <1>1, <1>2, PTL DEF Spec

\* The state has its shape, and no dimension bears the name of the error.
THEOREM TypeCorrect == Spec => []TypeOK
<1>1. IInv => TypeOK
  BY DEF IInv
<1> QED
  BY <1>1, Invariance, PTL

\* Writer::writeData gives NetCDF as many values as the dimensions of the variable
\* declare (File.cc:445), for every variable of every output, but for a field whose
\* number of levels the file has no dimension for.
THEOREM SizesDeclared == Spec => []DeclaredSize
<1>1. IInv => DeclaredSize
  BY DEF IInv
<1> QED
  BY <1>1, Invariance, PTL

\* cleanFileData (Monio.cc:446) takes time and tiles out of all that is written.
THEOREM NoTimeWritten == Spec => []OutputWithoutTime
<1>1. ASSUME IsOutput(out)
      PROVE  OutputWithoutTime
  <2>1. \A S : \A s \in Seq(S) : \A i \in 1..Len(s) : s[i] \in S
    OBVIOUS
  <2> QED
    BY <1>1, <2>1 DEF IsOutput, OutputWithoutTime
<1>2. IInv => OutputWithoutTime
  BY <1>1 DEF IInv, OutFits
<1> QED
  BY <1>2, Invariance, PTL

\* An output of writeState or writeIncrements has the mesh of its grid, with its
\* dimensions and data, from the first field on.
THEOREM MeshIsKept == Spec => []MeshKept
<1>1. IInv => MeshKept
  BY DEF IInv
<1> QED
  BY <1>1, Invariance, PTL

\* Writer.cc:81 never throws between the fields of a write: the data that wait have
\* their variables.
THEOREM DataAreDeclared == Spec => []DataHaveVariables
<1>1. IInv => DataHaveVariables
  BY DEF IInv, FileDataFits, DataFit, DataHaveVariables
<1> QED
  BY <1>1, Invariance, PTL
=============================================================================
