--------------------------- MODULE FileCopyProofs ---------------------------
(***************************************************************************)
(* Proofs, for any files, about reading a file, writing it and comparing   *)
(* what is read back.                                                      *)
(***************************************************************************)
EXTENDS FileCopyInvariant, Recursion, TLAPS
----------------------------------------------------------------------------
(* The keys of a map. *)

\* They are the names the map has.
KeysOf(keys, map) ==
    /\ keys \in Seq(Names)
    /\ \A i \in 1..Len(keys) : keys[i] \in DOMAIN map
    /\ \A n \in DOMAIN map : \E i \in 1..Len(keys) : keys[i] = n

LEMMA KeysAreNames ==
    ASSUME NEW map, DOMAIN map \subseteq Names
    PROVE  KeysOf(Keys(map), map)
<1> DEFINE N == Len(NameOrder)
           next(keys, i) == IF NameOrder[i] \in DOMAIN map THEN Append(keys, NameOrder[i]) ELSE keys
           IsKeys(f) == f = [i \in 0..N |-> IF i = 0 THEN <<>>
                                            ELSE IF NameOrder[i] \in DOMAIN map
                                                 THEN Append(f[i - 1], NameOrder[i])
                                                 ELSE f[i - 1]]
           k == CHOOSE f : IsKeys(f)
           step == [i \in 1..N |-> [s \in Seq(Names) |-> next(s, i)]]
<1>1. N \in Nat /\ \A i \in 1..N : NameOrder[i] \in Names
  BY NameOrderAssumption DEF Names
<1>2. Keys(map) = k[N]
  BY DEF Keys
<1>3. \E f : IsKeys(f)
  <2>1. step \in [1..N -> [Seq(Names) -> Seq(Names)]]
    <3>1. \A i \in 1..N : \A s \in Seq(Names) : next(s, i) \in Seq(Names)
      BY <1>1
    <3> HIDE DEF next, N
    <3> QED
      BY <3>1
  <2>2. PICK f \in [0..N -> Seq(Names)] : GoesBy(f, N, <<>>, step)
    <3>1. <<>> \in Seq(Names)
      OBVIOUS
    <3> HIDE DEF step, N
    <3> QED BY <1>1, <2>1, <3>1, FunctionExists
  <2>3. \A i \in 1..N : i - 1 \in 0..N
    BY <1>1
  <2>4. \A i \in 1..N : f[i] = next(f[i - 1], i)
    <3> HIDE DEF next, N
    <3> QED BY <2>2, <2>3 DEF GoesBy
  <2>5. f[0] = <<>>
    BY <2>2 DEF GoesBy
  <2>6. \A i \in 0..N : f[i] = IF i = 0 THEN <<>>
                               ELSE IF NameOrder[i] \in DOMAIN map
                                    THEN Append(f[i - 1], NameOrder[i]) ELSE f[i - 1]
    <3>1. \A i \in 0..N : i # 0 => i \in 1..N
      BY <1>1
    <3> HIDE DEF N
    <3> QED BY <2>4, <2>5, <3>1
  <2>7. f = [i \in 0..N |-> f[i]]
    BY <2>2
  <2>8. IsKeys(f)
    <3> HIDE DEF N
    <3> QED BY <2>6, <2>7
  <2> QED
    BY <2>8
<1>4. IsKeys(k)
  <2> HIDE DEF IsKeys
  <2> QED BY <1>3
<1>5. k[0] = <<>> /\ \A i \in 1..N : k[i] = next(k[i - 1], i)
  <2>1. 0 \in 0..N /\ \A i \in 1..N : i \in 0..N /\ i # 0
    BY <1>1
  <2> HIDE DEF k, N
  <2> QED
    BY <1>4, <2>1
<1> HIDE DEF k, IsKeys
<1> DEFINE Right(m) == /\ k[m] \in Seq(Names)
                       /\ \A i \in 1..Len(k[m]) : k[m][i] \in DOMAIN map
                       /\ \A j \in 1..m : NameOrder[j] \in DOMAIN map =>
                                             \E i \in 1..Len(k[m]) : k[m][i] = NameOrder[j]
           RightUpTo == {m \in 0..N : Right(m)}
<1>6. 0 \in RightUpTo
  <2>1. k[0] \in Seq(Names) /\ Len(k[0]) = 0
    BY <1>5
  <2>2. Right(0)
    BY <2>1
  <2> HIDE DEF Right
  <2> QED
    BY <1>1, <2>2
<1>7. ASSUME NEW m \in 1..N, m - 1 \in RightUpTo
      PROVE  m \in RightUpTo
  <2> DEFINE s == k[m - 1]
             t == k[m]
  <2>1. /\ s \in Seq(Names) /\ \A i \in 1..Len(s) : s[i] \in DOMAIN map
        /\ \A j \in 1..m - 1 : NameOrder[j] \in DOMAIN map => \E i \in 1..Len(s) : s[i] = NameOrder[j]
    BY <1>7
  <2>2. t = next(s, m)
    BY <1>5
  <2>3. m \in 0..N /\ m \in Nat /\ \A j \in 1..m : j = m \/ j \in 1..m - 1
    BY <1>1
  <2>4. NameOrder[m] \in Names
    BY <1>1
  <2> HIDE DEF s, t
  <2>5. Right(m)
    <3>1. CASE NameOrder[m] \in DOMAIN map
      <4>1. t = Append(s, NameOrder[m])
        BY <2>2, <3>1
      <4>2. /\ t \in Seq(Names) /\ Len(t) = Len(s) + 1 /\ t[Len(t)] = NameOrder[m]
            /\ \A i \in 1..Len(s) : t[i] = s[i] /\ i \in 1..Len(t)
            /\ Len(t) \in 1..Len(t)
            /\ \A i \in 1..Len(t) : i = Len(t) \/ i \in 1..Len(s)
        BY <2>1, <2>4, <4>1
      <4>3. \A i \in 1..Len(t) : t[i] \in DOMAIN map
        BY <2>1, <3>1, <4>2
      <4>4. \A j \in 1..m : NameOrder[j] \in DOMAIN map => \E i \in 1..Len(t) : t[i] = NameOrder[j]
        BY <2>1, <2>3, <4>2
      <4> QED
        BY <4>2, <4>3, <4>4 DEF t
    <3>2. CASE NameOrder[m] \notin DOMAIN map
      <4>1. t = s
        BY <2>2, <3>2
      <4> QED
        BY <2>1, <2>3, <3>2, <4>1 DEF t
    <3> QED
      BY <3>1, <3>2
  <2> HIDE DEF Right
  <2> QED
    BY <2>3, <2>5
<1>8. N \in RightUpTo
  <2>1. N \in 0..N
    BY <1>1
  <2> HIDE DEF RightUpTo, N
  <2> QED
    BY <1>1, <1>6, <1>7, <2>1, Induction
<1>9. Right(N)
  BY <1>8
<1>10. \A n \in DOMAIN map : \E j \in 1..N : NameOrder[j] = n
  BY DEF Names
<1> QED
  BY <1>2, <1>9, <1>10 DEF KeysOf

\* Maps that are walked in step, as far as both go, have the same names.
LEMMA SameNames ==
    ASSUME NEW lhs, NEW rhs, DOMAIN lhs \subseteq Names, DOMAIN rhs \subseteq Names,
           Len(Keys(lhs)) = Len(Keys(rhs)),
           \A i \in 1..Len(Keys(lhs)) : Keys(lhs)[i] = Keys(rhs)[i]
    PROVE  /\ DOMAIN lhs = DOMAIN rhs
           /\ \A n \in DOMAIN lhs : \E i \in 1..Len(Keys(lhs)) : Keys(lhs)[i] = n
<1>1. KeysOf(Keys(lhs), lhs) /\ KeysOf(Keys(rhs), rhs)
  BY KeysAreNames
<1>2. /\ \A i \in 1..Len(Keys(lhs)) : Keys(lhs)[i] \in DOMAIN lhs
      /\ \A n \in DOMAIN lhs : \E i \in 1..Len(Keys(lhs)) : Keys(lhs)[i] = n
      /\ \A i \in 1..Len(Keys(lhs)) : Keys(rhs)[i] \in DOMAIN rhs
      /\ \A n \in DOMAIN rhs : \E i \in 1..Len(Keys(lhs)) : Keys(rhs)[i] = n
  BY <1>1 DEF KeysOf
<1>3. DOMAIN lhs \subseteq DOMAIN rhs /\ DOMAIN rhs \subseteq DOMAIN lhs
  BY <1>2
<1> QED
  BY <1>2, <1>3

\* Functions, as the maps are.
IsFunction(map) == map = [n \in DOMAIN map |-> map[n]]

LEMMA SameMaps ==
    ASSUME NEW lhs, NEW rhs, IsFunction(lhs), IsFunction(rhs), DOMAIN lhs = DOMAIN rhs,
           \A n \in DOMAIN lhs : lhs[n] = rhs[n]
    PROVE  lhs = rhs
BY DEF IsFunction

\* Attributes that sameAttributes takes for equal are the same.
LEMMA SameAttributes ==
    ASSUME NEW lhs, NEW rhs, IsFunction(lhs), IsFunction(rhs),
           DOMAIN lhs \subseteq Names, DOMAIN rhs \subseteq Names,
           Len(Keys(lhs)) = Len(Keys(rhs)), sameAttributes(lhs, rhs)
    PROVE  lhs = rhs
<1>1. /\ \A i \in 1..Len(Keys(lhs)) : Keys(lhs)[i] = Keys(rhs)[i]
      /\ \A i \in 1..Len(Keys(lhs)) : lhs[Keys(lhs)[i]] = rhs[Keys(rhs)[i]]
  BY DEF sameAttributes
<1>2. /\ DOMAIN lhs = DOMAIN rhs
      /\ \A n \in DOMAIN lhs : \E i \in 1..Len(Keys(lhs)) : Keys(lhs)[i] = n
  BY <1>1, SameNames
<1>3. \A n \in DOMAIN lhs : lhs[n] = rhs[n]
  BY <1>1, <1>2
<1> QED
  BY <1>2, <1>3, SameMaps
----------------------------------------------------------------------------
(* What is read of a file. *)

\* A variable with its dimensions and attributes.
IsVariable(var) ==
    /\ var = [type |-> var.type, dims |-> var.dims, attrs |-> var.attrs]
    /\ var.dims \in Seq([name : Names, size : Nat])
    /\ IsFunction(var.attrs) /\ DOMAIN var.attrs \subseteq Names

\* Metadata with the names of files.
IsRead(md) ==
    /\ IsFunction(md.variables) /\ DOMAIN md.variables \subseteq Names
    /\ \A n \in DOMAIN md.variables : IsVariable(md.variables[n])

LEMMA SameVariable ==
    ASSUME NEW lhs, NEW rhs, IsVariable(lhs), IsVariable(rhs), sameVariable(lhs, rhs)
    PROVE  lhs = rhs
<1>1. lhs.attrs = rhs.attrs
  BY SameAttributes DEF IsVariable, sameVariable
<1>2. lhs.dims = rhs.dims
  BY DEF IsVariable, sameVariable
<1> QED
  BY <1>1, <1>2 DEF IsVariable, sameVariable

\* Metadata::operator== takes metadata for equal only if their variables are.
LEMMA SameVariables ==
    ASSUME NEW lhs, NEW rhs, IsRead(lhs), IsRead(rhs), MetadataEqual(lhs, rhs)
    PROVE  lhs.variables = rhs.variables
<1> DEFINE L == lhs.variables
           R == rhs.variables
<1>1. /\ Len(Keys(L)) = Len(Keys(R))
      /\ \A i \in 1..Len(Keys(L)) : /\ Keys(L)[i] = Keys(R)[i]
                                    /\ sameVariable(L[Keys(L)[i]], R[Keys(R)[i]])
  BY DEF MetadataEqual
<1>2. /\ IsFunction(L) /\ IsFunction(R) /\ DOMAIN L \subseteq Names /\ DOMAIN R \subseteq Names
      /\ \A n \in DOMAIN L : IsVariable(L[n])
      /\ \A n \in DOMAIN R : IsVariable(R[n])
  BY DEF IsRead
<1> HIDE DEF L, R
<1>3. /\ DOMAIN L = DOMAIN R
      /\ \A n \in DOMAIN L : \E i \in 1..Len(Keys(L)) : Keys(L)[i] = n
  BY <1>1, <1>2, SameNames
<1>4. \A n \in DOMAIN L : sameVariable(L[n], R[n])
  BY <1>1, <1>3
<1>5. \A n \in DOMAIN L : L[n] = R[n]
  BY <1>2, <1>3, <1>4, SameVariable
<1> QED
  BY <1>2, <1>3, <1>5, SameMaps DEF L, R

\* So does Data::operator== of data.
LEMMA SameData ==
    ASSUME NEW lhs, NEW rhs, IsFunction(lhs), IsFunction(rhs),
           DOMAIN lhs \subseteq Names, DOMAIN rhs \subseteq Names, DataEqual(lhs, rhs)
    PROVE  lhs = rhs
<1>1. /\ Len(Keys(lhs)) = Len(Keys(rhs))
      /\ \A i \in 1..Len(Keys(lhs)) : Keys(lhs)[i] = Keys(rhs)[i]
      /\ \A i \in 1..Len(Keys(lhs)) : lhs[Keys(lhs)[i]] = rhs[Keys(rhs)[i]]
  BY DEF DataEqual
<1>2. /\ DOMAIN lhs = DOMAIN rhs
      /\ \A n \in DOMAIN lhs : \E i \in 1..Len(Keys(lhs)) : Keys(lhs)[i] = n
  BY <1>1, SameNames
<1>3. \A n \in DOMAIN lhs : lhs[n] = rhs[n]
  BY <1>1, <1>2
<1> QED
  BY <1>2, <1>3, SameMaps

\* Both comparisons take anything for equal to itself.
LEMMA EqualToItself ==
    ASSUME NEW md, NEW data
    PROVE  MetadataEqual(md, md) /\ DataEqual(data, data)
BY DEF MetadataEqual, DataEqual, sameDimensions, sameVariable, sameAttributes

\* Metadata::operator== with the sides exchanged, where the variables are the same.
LEMMA EqualExchanged ==
    ASSUME NEW lhs, NEW rhs, MetadataEqual(lhs, rhs), lhs.variables = rhs.variables
    PROVE  MetadataEqual(rhs, lhs)
<1>1. sameDimensions(rhs.dimensions, lhs.dimensions)
  BY DEF MetadataEqual, sameDimensions
<1>2. MetadataEqual(lhs, lhs)
  BY EqualToItself
<1> QED
  BY <1>1, <1>2 DEF MetadataEqual

\* A file that can be read has types that Monio has.
LEMMA TypesRead ==
    ASSUME NEW attrs, IsAttributes(attrs), \A a \in DOMAIN attrs : attrs[a].type # "byte"
    PROVE  /\ IsFunction(readAttrs(attrs)) /\ DOMAIN readAttrs(attrs) = DOMAIN attrs
           /\ \A a \in DOMAIN attrs : readAttrs(attrs)[a] \in [type : AttrType, value : AttrValue]
           /\ readAttrs(writeAttrs(readAttrs(attrs))) = readAttrs(attrs)
           /\ DOMAIN writeAttrs(readAttrs(attrs)) = DOMAIN attrs
           /\ \A a \in DOMAIN attrs : writeAttrs(readAttrs(attrs))[a].type # "byte"
<1> DEFINE read == readAttrs(attrs)
           written == writeAttrs(read)
<1>1. ASSUME NEW t \in NcAttrType, t # "byte"
      PROVE  /\ MonioType(t) \in AttrType /\ MonioType(NcType(MonioType(t))) = MonioType(t)
             /\ NcType(MonioType(t)) # "byte"
  BY <1>1 DEF MonioType, NcType, AttrType, NcAttrType
<1>2. /\ read = [a \in DOMAIN attrs |-> [type |-> MonioType(attrs[a].type), value |-> attrs[a].value]]
      /\ DOMAIN read = DOMAIN attrs
      /\ \A a \in DOMAIN attrs : /\ read[a].type = MonioType(attrs[a].type)
                                 /\ read[a].value = attrs[a].value
                                 /\ read[a] = [type |-> read[a].type, value |-> read[a].value]
  BY DEF readAttrs
<1> HIDE DEF read
<1>3. /\ DOMAIN written = DOMAIN attrs
      /\ \A a \in DOMAIN attrs : /\ written[a].type = NcType(read[a].type)
                                 /\ written[a].value = read[a].value
  BY <1>2 DEF writeAttrs
<1> HIDE DEF written
<1>4. \A a \in DOMAIN attrs : attrs[a].type \in NcAttrType /\ attrs[a].value \in AttrValue
  BY DEF IsAttributes
<1>5. \A a \in DOMAIN attrs : /\ read[a].type \in AttrType /\ read[a].value \in AttrValue
                              /\ written[a].type # "byte"
                              /\ MonioType(written[a].type) = read[a].type
  BY <1>1, <1>2, <1>3, <1>4
<1>6. readAttrs(written) = read
  <2>1. readAttrs(written) = [a \in DOMAIN attrs |->
                                [type |-> MonioType(written[a].type), value |-> written[a].value]]
    BY <1>3 DEF readAttrs
  <2>2. \A a \in DOMAIN attrs :
           [type |-> MonioType(written[a].type), value |-> written[a].value] = read[a]
    BY <1>2, <1>3, <1>5
  <2>3. read = [a \in DOMAIN attrs |-> read[a]]
    BY <1>2
  <2> QED
    BY <2>1, <2>2, <2>3
<1>7. IsFunction(read)
  BY <1>2 DEF IsFunction
<1>8. \A a \in DOMAIN attrs : read[a] \in [type : AttrType, value : AttrValue]
  BY <1>2, <1>5
<1> QED
  BY <1>2, <1>3, <1>5, <1>6, <1>7, <1>8 DEF written, read

\* The variables of a file, as they are read, and as they are written and read again.
LEMMA VariableRead ==
    ASSUME NEW file, IsFile(file), CanRead(file), NEW n \in DOMAIN file.variables
    PROVE  LET var == readVariable(file, n)
           IN  /\ IsVariable(var) /\ var.type \in VarType
               /\ \A a \in DOMAIN var.attrs : var.attrs[a] \in [type : AttrType, value : AttrValue]
               /\ writeVariable(var) = [type |-> var.type, dims |-> file.variables[n].dims,
                                        attrs |-> writeAttrs(var.attrs)]
               /\ readAttrs(writeAttrs(var.attrs)) = var.attrs
               /\ \A a \in DOMAIN writeAttrs(var.attrs) : writeAttrs(var.attrs)[a].type # "byte"
<1> DEFINE f == file.variables[n]
           attrs == readAttrs(f.attrs)
           s == f.dims
           dims == [i \in 1..Len(s) |-> [name |-> s[i], size |-> file.dimensions[s[i]]]]
           var == readVariable(file, n)
<1>1. var = [type |-> f.type, dims |-> dims, attrs |-> attrs]
  BY DEF readVariable
<1>2. /\ f.type \in VarType /\ IsAttributes(f.attrs)
      /\ \A a \in DOMAIN f.attrs : f.attrs[a].type # "byte"
      /\ s \in Seq(DOMAIN file.dimensions) /\ DOMAIN file.dimensions \subseteq Names
      /\ \A d \in DOMAIN file.dimensions : file.dimensions[d] \in Nat
  BY DEF CanRead, IsFile
<1>3. /\ IsFunction(attrs) /\ DOMAIN attrs = DOMAIN f.attrs /\ DOMAIN attrs \subseteq Names
      /\ \A a \in DOMAIN attrs : attrs[a] \in [type : AttrType, value : AttrValue]
      /\ readAttrs(writeAttrs(attrs)) = attrs
      /\ \A a \in DOMAIN writeAttrs(attrs) : writeAttrs(attrs)[a].type # "byte"
  <2>1. DOMAIN f.attrs \subseteq Names
    BY <1>2 DEF IsAttributes
  <2> HIDE DEF f
  <2> QED
    BY <1>2, <2>1, TypesRead
<1> HIDE DEF attrs, f
<1>4. /\ Len(s) \in Nat /\ \A i \in 1..Len(s) : s[i] \in DOMAIN file.dimensions
      /\ s = [i \in 1..Len(s) |-> s[i]]
  <2> HIDE DEF s
  <2> QED BY <1>2
<1>5. /\ dims \in Seq([name : Names, size : Nat]) /\ Len(dims) = Len(s)
      /\ \A i \in 1..Len(s) : dims[i].name = s[i]
  <2> HIDE DEF s
  <2>1. \A i \in 1..Len(s) : [name |-> s[i], size |-> file.dimensions[s[i]]]
                                \in [name : Names, size : Nat]
    BY <1>2, <1>4
  <2> QED
    BY <1>4, <2>1
<1> HIDE DEF dims, s
<1>6. var.type = f.type /\ var.dims = dims /\ var.attrs = attrs
      /\ var = [type |-> var.type, dims |-> var.dims, attrs |-> var.attrs]
  BY <1>1
<1> HIDE DEF var
<1>7. IsVariable(var)
  BY <1>3, <1>5, <1>6 DEF IsVariable
<1>8. writeVariable(var) = [type |-> var.type, dims |-> s, attrs |-> writeAttrs(var.attrs)]
  <2>1. [i \in 1..Len(var.dims) |-> var.dims[i].name] = s
    BY <1>4, <1>5, <1>6
  <2> QED
    BY <2>1 DEF writeVariable
<1> QED
  BY <1>2, <1>3, <1>6, <1>7, <1>8 DEF var, s, f

\* The size of a variable is a number.
LEMMA SizeType ==
    ASSUME NEW dims \in Seq([name : Names, size : Nat])
    PROVE  getTotalSize(dims) \in Nat
<1> DEFINE n == Len(dims)
           size == [i \in 1..n |-> dims[i].size]
           IsSizes(p) == p = [i \in 0..n |-> IF i = 0 THEN 1 ELSE p[i - 1] * dims[i].size]
           product == CHOOSE p : IsSizes(p)
<1>1. n \in Nat /\ n \in 0..n /\ size \in [1..n -> Nat]
  <2>1. \A i \in 1..n : dims[i] \in [name : Names, size : Nat]
    <3>1. \A S : \A s \in Seq(S) : \A i \in 1..Len(s) : s[i] \in S
      OBVIOUS
    <3> QED
      BY <3>1
  <2> QED
    BY <2>1
<1>2. \A p : IsProduct(p, n, size) <=> IsSizes(p)
  <2>1. \A p : [i \in 0..n |-> IF i = 0 THEN 1 ELSE p[i - 1] * size[i]]
                  = [i \in 0..n |-> IF i = 0 THEN 1 ELSE p[i - 1] * dims[i].size]
    OBVIOUS
  <2> QED
    BY <2>1, Zenon DEF IsProduct
<1>3. getTotalSize(dims) = product[n]
  BY DEF getTotalSize
<1> HIDE DEF IsSizes, size, n
<1>4. IsProduct(product, n, size)
  BY <1>1, <1>2, ProductExists
<1>5. product[n] \in Nat
  BY <1>1, <1>4, ProductType
<1> QED
  BY <1>3, <1>5

\* FileData that are read of a file have their types, and the names of the file.
LEMMA FileRead ==
    ASSUME NEW file, IsFile(file), CanRead(file)
    PROVE  LET fd == readFile(file)
           IN  /\ IsFileData(fd) /\ IsRead(fd.metadata)
               /\ IsFunction(fd.data) /\ DOMAIN fd.data \subseteq Names
<1> DEFINE md == readMetadata(file)
           variables == [n \in DOMAIN file.variables |-> readVariable(file, n)]
           globals == readAttrs(file.globalAttrs)
           data == readAllData(md, file)
           fd == readFile(file)
<1>1. \A n \in DOMAIN file.variables :
         /\ IsVariable(readVariable(file, n)) /\ readVariable(file, n).type \in VarType
         /\ \A a \in DOMAIN readVariable(file, n).attrs :
               readVariable(file, n).attrs[a] \in [type : AttrType, value : AttrValue]
  BY VariableRead
<1>2. /\ DOMAIN variables = DOMAIN file.variables
      /\ \A n \in DOMAIN variables : variables[n] = readVariable(file, n)
      /\ IsFunction(variables)
  BY DEF IsFunction
<1>3. /\ DOMAIN file.dimensions \subseteq Names /\ DOMAIN file.variables \subseteq Names
      /\ \A d \in DOMAIN file.dimensions : file.dimensions[d] \in Nat
      /\ IsAttributes(file.globalAttrs)
      /\ \A a \in DOMAIN file.globalAttrs : file.globalAttrs[a].type # "byte"
      /\ \A n \in DOMAIN file.variables : file.data[n].value \in DataValue
  BY DEF IsFile, CanRead
<1>4. /\ DOMAIN globals \subseteq Names
      /\ \A a \in DOMAIN globals : globals[a] \in [type : AttrType, value : AttrValue]
  BY <1>3, TypesRead DEF IsAttributes
<1>5. md = [dimensions |-> file.dimensions, variables |-> variables, globalAttrs |-> globals]
  BY DEF readMetadata
<1> HIDE DEF variables, globals
<1>6. md.dimensions = file.dimensions /\ md.variables = variables /\ md.globalAttrs = globals
  BY <1>5
<1> HIDE DEF md
<1>7. /\ IsFunction(data) /\ DOMAIN data = DOMAIN file.variables
      /\ \A n \in DOMAIN data : data[n] \in [type : VarType, size : Nat, value : DataValue]
  <2>1. data = [n \in DOMAIN variables |->
                   [type |-> variables[n].type, size |-> getTotalSize(variables[n].dims),
                    value |-> file.data[n].value]]
    BY <1>6 DEF readAllData
  <2>2. \A n \in DOMAIN variables : getTotalSize(variables[n].dims) \in Nat
    BY <1>1, <1>2, SizeType DEF IsVariable
  <2> HIDE DEF data
  <2> QED
    BY <1>1, <1>2, <1>3, <2>1, <2>2 DEF IsFunction
<1> HIDE DEF data
<1>8. fd.metadata = md /\ fd.data = data
  BY DEF readFile, md, data
<1> HIDE DEF fd
<1>9. IsRead(fd.metadata)
  BY <1>1, <1>2, <1>3, <1>6, <1>8 DEF IsRead
<1>10. IsFileData(fd)
  <2>1. Names \subseteq STRING
    BY NameOrderAssumption DEF Names
  <2>2. IsMap(md.dimensions, Nat) /\ IsMap(globals, [type : AttrType, value : AttrValue])
    BY <1>3, <1>4, <1>6, <2>1 DEF IsMap
  <2>3. IsMap(data, [type : VarType, size : Nat, value : DataValue])
    BY <1>3, <1>7, <2>1 DEF IsMap
  <2>4. \A n \in DOMAIN variables :
           /\ variables[n].type \in VarType
           /\ IsMap(variables[n].attrs, [type : AttrType, value : AttrValue])
    BY <1>1, <1>2, <2>1 DEF IsMap, IsVariable
  <2> QED
    BY <1>6, <1>8, <2>2, <2>3, <2>4 DEF IsFileData
<1> QED
  BY <1>3, <1>7, <1>8, <1>9, <1>10 DEF fd

\* What is written of a file that was read reads back as the same.
LEMMA ReadBack ==
    ASSUME NEW file, IsFile(file), CanRead(file)
    PROVE  LET fd == readFile(file)
               copy == writeMetadata(fd.metadata)
           IN  /\ CanRead(copy)
               /\ CanRead(writeData(copy, fd.data))
               /\ readFile(writeData(copy, fd.data)) = fd
<1> DEFINE md == readMetadata(file)
           data == readAllData(md, file)
           fd == readFile(file)
           var(n) == readVariable(file, n)
           globals == readAttrs(file.globalAttrs)
           written == [n \in DOMAIN file.variables |-> writeVariable(var(n))]
           out == writeMetadata(md)
           new == writeData(out, data)
<1>1. fd = [metadata |-> md, data |-> data] /\ fd.metadata = md /\ fd.data = data
  BY DEF readFile
<1>2. /\ md = [dimensions |-> file.dimensions,
               variables |-> [n \in DOMAIN file.variables |-> var(n)], globalAttrs |-> globals]
      /\ md.dimensions = file.dimensions /\ md.globalAttrs = globals
      /\ DOMAIN md.variables = DOMAIN file.variables
      /\ \A n \in DOMAIN file.variables : md.variables[n] = var(n)
  BY DEF readMetadata
<1>3. \A n \in DOMAIN file.variables :
         /\ var(n).type \in VarType
         /\ writeVariable(var(n)) = [type |-> var(n).type, dims |-> file.variables[n].dims,
                                     attrs |-> writeAttrs(var(n).attrs)]
         /\ readAttrs(writeAttrs(var(n).attrs)) = var(n).attrs
         /\ \A a \in DOMAIN writeAttrs(var(n).attrs) : writeAttrs(var(n).attrs)[a].type # "byte"
  BY VariableRead
<1>4. \A n \in DOMAIN file.variables :
         var(n) = [type |-> file.variables[n].type,
                   dims |-> [i \in 1..Len(file.variables[n].dims) |->
                               [name |-> file.variables[n].dims[i],
                                size |-> file.dimensions[file.variables[n].dims[i]]]],
                   attrs |-> var(n).attrs]
  BY DEF readVariable
<1>5. /\ readAttrs(writeAttrs(globals)) = globals
      /\ \A a \in DOMAIN writeAttrs(globals) : writeAttrs(globals)[a].type # "byte"
  <2>1. /\ IsAttributes(file.globalAttrs)
        /\ \A a \in DOMAIN file.globalAttrs : file.globalAttrs[a].type # "byte"
    BY DEF IsFile, CanRead
  <2> QED
    BY <2>1, TypesRead
<1> HIDE DEF md, var, globals, data
<1>6. out = [dimensions |-> file.dimensions, variables |-> written,
             globalAttrs |-> writeAttrs(globals), data |-> NoMap]
  <2> DEFINE vars1 == [n \in DOMAIN md.variables |-> writeVariable(md.variables[n])]
             defined == [dimensions |-> md.dimensions, variables |-> vars1,
                         globalAttrs |-> NoMap, data |-> NoMap]
  <2>1. vars1 = written
    BY <1>2
  <2>2. out = writeAttributes(defined, globals)
    BY <1>2 DEF writeMetadata
  <2> HIDE DEF vars1, written
  <2>3. defined = [dimensions |-> file.dimensions, variables |-> written,
                   globalAttrs |-> NoMap, data |-> NoMap]
    BY <1>2, <2>1
  <2>4. writeAttrs(globals) = [a \in {} \cup DOMAIN writeAttrs(globals) |->
                                 IF a \in {} THEN NoMap[a] ELSE writeAttrs(globals)[a]]
    BY DEF writeAttrs
  <2>5. DOMAIN NoMap = {}
    BY DEF NoMap
  <2> HIDE DEF out, defined
  <2> QED
    BY <2>2, <2>3, <2>4, <2>5 DEF writeAttributes
<1> HIDE DEF out
<1>7. new = [dimensions |-> file.dimensions, variables |-> written,
             globalAttrs |-> writeAttrs(globals),
             data |-> [n \in DOMAIN data |-> [size |-> data[n].size, value |-> data[n].value]]]
  BY <1>6 DEF writeData
<1>8. /\ DOMAIN written = DOMAIN file.variables
      /\ \A n \in DOMAIN file.variables :
            /\ written[n].type = var(n).type /\ written[n].dims = file.variables[n].dims
            /\ written[n].attrs = writeAttrs(var(n).attrs)
  BY <1>3
<1> HIDE DEF written
<1>9. CanRead(out) /\ CanRead(new)
  <2>1. \A f : f.variables = written /\ f.globalAttrs = writeAttrs(globals) => CanRead(f)
    BY <1>3, <1>5, <1>8 DEF CanRead
  <2>2. /\ out.variables = written /\ out.globalAttrs = writeAttrs(globals)
        /\ new.variables = written /\ new.globalAttrs = writeAttrs(globals)
    BY <1>6, <1>7
  <2> HIDE DEF new
  <2> QED
    BY <2>1, <2>2
<1>10. readMetadata(new) = md
  <2>1. /\ new.dimensions = file.dimensions /\ new.variables = written
        /\ new.globalAttrs = writeAttrs(globals)
    BY <1>7
  <2> HIDE DEF new
  <2>2. \A n \in DOMAIN file.variables : readVariable(new, n) = var(n)
    <3> TAKE n \in DOMAIN file.variables
    <3>1. readVariable(new, n) =
             [type |-> written[n].type,
              dims |-> [i \in 1..Len(written[n].dims) |->
                          [name |-> written[n].dims[i],
                           size |-> new.dimensions[written[n].dims[i]]]],
              attrs |-> readAttrs(written[n].attrs)]
      BY <2>1 DEF readVariable
    <3>2. written[n].type = file.variables[n].type
      BY <1>4, <1>8
    <3> QED
      BY <1>3, <1>4, <1>8, <2>1, <3>1, <3>2
  <2>3. [n \in DOMAIN new.variables |-> readVariable(new, n)]
           = [n \in DOMAIN file.variables |-> var(n)]
    BY <1>8, <2>1, <2>2
  <2> QED
    BY <1>2, <1>5, <2>1, <2>3 DEF readMetadata
<1>11. readAllData(md, new) = data
  <2>1. data = [n \in DOMAIN md.variables |->
                   [type |-> md.variables[n].type, size |-> getTotalSize(md.variables[n].dims),
                    value |-> file.data[n].value]]
    BY DEF data, readAllData
  <2>2. \A n \in DOMAIN md.variables : new.data[n].value = file.data[n].value
    BY <1>7, <2>1
  <2> HIDE DEF new
  <2> QED
    BY <2>1, <2>2 DEF readAllData
<1>12. readFile(new) = fd
  BY <1>1, <1>10, <1>11 DEF readFile
<1>13. new = writeData(writeMetadata(fd.metadata), fd.data) /\ out = writeMetadata(fd.metadata)
  BY <1>1 DEF out
<1> HIDE DEF new, fd
<1> QED
  BY <1>9, <1>12, <1>13 DEF fd
----------------------------------------------------------------------------
(* The invariant. *)

LEMMA EmptyFits ==
    CanRead(NoFile) /\ IsFileData(EmptyFileData)
BY DEF CanRead, NoFile, NoMap, IsFileData, EmptyFileData, IsMap

LEMMA MetadataTypes ==
    ASSUME NEW md, NEW data, IsFileData([metadata |-> md, data |-> data])
    PROVE  IsFileData([metadata |-> md, data |-> NoMap])
<1>1. IsMap(NoMap, [type : VarType, size : Nat, value : DataValue])
  BY DEF IsMap, NoMap
<1> QED
  BY <1>1 DEF IsFileData

LEMMA InitHolds == Init => IInv
BY EmptyFits DEF Init, IInv, TypeOK, FirstIsRead, OutputIsWritten, OpenedFile, SecondIsRead, Compared

LEMMA ReadFirstHolds ==
    ASSUME IInv, NEW file \in Files, ReadFirst(file)
    PROVE  IInv'
<1>1. IsFile(file) /\ pc = "read" /\ opened' = file /\ second' = second /\ output' = output
  BY FilesAssumption DEF ReadFirst
<1>2. CASE CanRead(file)
  <2>1. pc' = "define" /\ first' = readFile(file)
    BY <1>2 DEF ReadFirst
  <2>2. IsFileData(first')
    BY <1>1, <1>2, <2>1, FileRead
  <2>3. TypeOK'
    BY <1>1, <2>1, <2>2 DEF IInv, TypeOK
  <2>4. FirstIsRead'
    BY <1>2, <2>1 DEF FirstIsRead
  <2> QED
    BY <1>1, <2>1, <2>3, <2>4
       DEF IInv, OutputIsWritten, OpenedFile, SecondIsRead, Compared
<1>3. CASE ~CanRead(file)
  <2>1. pc' = "failed" /\ first' = first
    BY <1>3 DEF ReadFirst
  <2> QED
    BY <1>1, <1>3, <2>1
       DEF IInv, TypeOK, FirstIsRead, OutputIsWritten, OpenedFile, SecondIsRead, Compared
<1> QED
  BY <1>2, <1>3

\* The file that the first FileData were read of, and what becomes of it.
LEMMA FirstFile ==
    ASSUME IInv, pc \notin {"read", "failed"}
    PROVE  /\ \E file \in Files : IsFile(file) /\ CanRead(file) /\ first = readFile(file)
           /\ IsFileData(first) /\ IsRead(first.metadata)
           /\ IsFunction(first.data) /\ DOMAIN first.data \subseteq Names
           /\ CanRead(writeMetadata(first.metadata))
           /\ CanRead(writeData(writeMetadata(first.metadata), first.data))
           /\ readFile(writeData(writeMetadata(first.metadata), first.data)) = first
<1>1. PICK file \in Files : CanRead(file) /\ first = readFile(file)
  BY DEF IInv, FirstIsRead
<1>2. IsFile(file)
  BY FilesAssumption
<1>3. /\ IsFileData(first) /\ IsRead(first.metadata)
      /\ IsFunction(first.data) /\ DOMAIN first.data \subseteq Names
  BY <1>1, <1>2, FileRead
<1>4. /\ CanRead(writeMetadata(first.metadata))
      /\ CanRead(writeData(writeMetadata(first.metadata), first.data))
      /\ readFile(writeData(writeMetadata(first.metadata), first.data)) = first
  BY <1>1, <1>2, ReadBack
<1> QED
  BY <1>1, <1>2, <1>3, <1>4

LEMMA WriteHolds ==
    ASSUME IInv, WriteMetadata \/ WriteData
    PROVE  IInv'
<1>1. CASE WriteMetadata
  <2>1. /\ pc = "define" /\ pc' = "write" /\ output' = writeMetadata(first.metadata)
        /\ first' = first /\ second' = second /\ opened' = opened
    BY <1>1 DEF WriteMetadata
  <2>2. CanRead(output') /\ opened \in Files
    BY <2>1, FirstFile DEF IInv, OpenedFile
  <2> QED
    BY <2>1, <2>2
       DEF IInv, TypeOK, FirstIsRead, OutputIsWritten, OpenedFile, SecondIsRead, Compared
<1>2. CASE WriteData
  <2>1. /\ pc = "write" /\ pc' = "readAgain" /\ output' = writeData(output, first.data)
        /\ output = writeMetadata(first.metadata)
        /\ first' = first /\ second' = second /\ opened' = opened
    BY <1>2 DEF WriteData, IInv, OutputIsWritten
  <2>2. CanRead(output') /\ opened \in Files
    BY <2>1, FirstFile DEF IInv, OpenedFile
  <2>3. second = EmptyFileData
    BY <2>1 DEF IInv, SecondIsRead
  <2> QED
    BY <2>1, <2>2, <2>3
       DEF IInv, TypeOK, FirstIsRead, OutputIsWritten, OpenedFile, SecondIsRead, Compared
<1> QED
  BY <1>1, <1>2

\* A file that is read as the second: one there was, or the output, which reads as the first.
LEMMA SecondFile ==
    ASSUME IInv, pc \in {"readAgain", "compare", "compareData"},
           NEW file \in Files \cup {output}, CanRead(file)
    PROVE  LET fd == readFile(file)
           IN  /\ IsFileData(fd) /\ IsRead(fd.metadata)
               /\ IsFunction(fd.data) /\ DOMAIN fd.data \subseteq Names
               /\ fd = [metadata |-> fd.metadata, data |-> fd.data]
               /\ fd.metadata = readMetadata(file)
               /\ fd.data = readAllData(readMetadata(file), file)
               /\ file = output => fd = first
<1>1. output = writeData(writeMetadata(first.metadata), first.data)
  BY DEF IInv, OutputIsWritten
<1>2. readFile(output) = first /\ IsFileData(first) /\ IsRead(first.metadata)
      /\ IsFunction(first.data) /\ DOMAIN first.data \subseteq Names
  BY <1>1, FirstFile
<1>3. file \in Files => IsFile(file)
  BY FilesAssumption
<1>4. LET fd == readFile(file)
      IN  /\ fd = [metadata |-> fd.metadata, data |-> fd.data]
          /\ fd.metadata = readMetadata(file)
          /\ fd.data = readAllData(readMetadata(file), file)
  BY DEF readFile
<1>5. CASE file = output
  BY <1>2, <1>4, <1>5
<1>6. CASE file # output
  BY <1>3, <1>4, <1>6, FileRead
<1> QED
  BY <1>5, <1>6

LEMMA ReadSecondHolds ==
    ASSUME IInv, NEW file \in Files \cup {output}, ReadSecondMetadata(file)
    PROVE  IInv'
<1>1. /\ pc = "readAgain" /\ opened' = file /\ first' = first /\ output' = output
      /\ second = EmptyFileData
  BY DEF ReadSecondMetadata, IInv, SecondIsRead
<1>2. CASE CanRead(file)
  <2>1. pc' = "compare" /\ second' = [metadata |-> readMetadata(file), data |-> NoMap]
    BY <1>1, <1>2 DEF ReadSecondMetadata, EmptyFileData
  <2>2. IsFileData(second')
    <3>1. IsFileData([metadata |-> readMetadata(file), data |-> readAllData(readMetadata(file), file)])
      BY <1>1, <1>2, SecondFile DEF readFile
    <3> QED
      BY <2>1, <3>1, MetadataTypes
  <2>3. TypeOK'
    BY <1>1, <2>1, <2>2 DEF IInv, TypeOK
  <2> QED
    BY <1>1, <1>2, <2>1, <2>3
       DEF IInv, FirstIsRead, OutputIsWritten, OpenedFile, SecondIsRead, Compared
<1>3. CASE ~CanRead(file)
  <2>1. pc' = "failed" /\ second' = second
    BY <1>3 DEF ReadSecondMetadata
  <2> QED
    BY <1>1, <1>3, <2>1
       DEF IInv, TypeOK, FirstIsRead, OutputIsWritten, OpenedFile, SecondIsRead, Compared
<1> QED
  BY <1>2, <1>3

LEMMA CompareMetadataHolds ==
    ASSUME IInv, CompareMetadata
    PROVE  IInv'
<1>1. /\ pc = "compare" /\ opened' = opened /\ first' = first /\ output' = output
      /\ second = [metadata |-> readMetadata(opened), data |-> NoMap]
      /\ opened \in Files \cup {output} /\ CanRead(opened)
  BY DEF CompareMetadata, IInv, SecondIsRead, OpenedFile
<1>2. second.metadata = readMetadata(opened)
  BY <1>1
<1>3. /\ IsFileData(readFile(opened))
      /\ readFile(opened) = [metadata |-> readMetadata(opened),
                             data |-> readAllData(readMetadata(opened), opened)]
      /\ readFile(opened).metadata = readMetadata(opened)
      /\ opened = output => readFile(opened) = first
  BY <1>1, SecondFile DEF readFile
<1>4. CASE MetadataEqual(first.metadata, second.metadata)
  <2>1. pc' = "compareData" /\ second' = readFile(opened)
    BY <1>1, <1>2, <1>3, <1>4 DEF CompareMetadata
  <2>2. second'.metadata = second.metadata
    BY <1>2, <1>3, <2>1
  <2>3. TypeOK'
    BY <1>1, <1>3, <2>1 DEF IInv, TypeOK
  <2> QED
    BY <1>1, <1>4, <2>1, <2>2, <2>3
       DEF IInv, FirstIsRead, OutputIsWritten, OpenedFile, SecondIsRead, Compared
<1>5. CASE ~MetadataEqual(first.metadata, second.metadata)
  <2>1. pc' = "different" /\ second' = second
    BY <1>5 DEF CompareMetadata
  <2>2. opened # output
    <3>1. opened = output => second.metadata = first.metadata
      BY <1>2, <1>3
    <3> QED
      BY <1>5, <3>1, EqualToItself
  <2> QED
    BY <1>1, <2>1, <2>2
       DEF IInv, TypeOK, FirstIsRead, OutputIsWritten, OpenedFile, SecondIsRead, Compared
<1> QED
  BY <1>4, <1>5

LEMMA CompareDataHolds ==
    ASSUME IInv, CompareData
    PROVE  IInv'
<1>1. /\ pc = "compareData" /\ opened' = opened /\ first' = first /\ output' = output
      /\ second' = second /\ second = readFile(opened)
      /\ opened \in Files \cup {output} /\ CanRead(opened)
      /\ MetadataEqual(first.metadata, second.metadata)
  BY DEF CompareData, IInv, SecondIsRead, OpenedFile, Compared
<1>2. opened = output => second = first
  BY <1>1, SecondFile
<1>3. \/ pc' = "same" /\ DataEqual(first.data, second.data)
      \/ pc' = "different" /\ opened # output
  BY <1>2, EqualToItself DEF CompareData
<1> QED
  BY <1>1, <1>3
     DEF IInv, TypeOK, FirstIsRead, OutputIsWritten, OpenedFile, SecondIsRead, Compared

LEMMA NextHolds ==
    ASSUME IInv, [Next]_vars
    PROVE  IInv'
<1>1. ASSUME NEW file \in Files, ReadFirst(file)
      PROVE  IInv'
  BY <1>1, ReadFirstHolds
<1>2. CASE WriteMetadata \/ WriteData
  BY <1>2, WriteHolds
<1>3. ASSUME NEW file \in Files \cup {output}, ReadSecondMetadata(file)
      PROVE  IInv'
  BY <1>3, ReadSecondHolds
<1>4. CASE CompareMetadata
  BY <1>4, CompareMetadataHolds
<1>5. CASE CompareData
  BY <1>5, CompareDataHolds
<1>6. CASE UNCHANGED vars
  BY <1>6
     DEF vars, IInv, TypeOK, FirstIsRead, OutputIsWritten, OpenedFile, SecondIsRead, Compared
<1> QED
  BY <1>1, <1>2, <1>3, <1>4, <1>5, <1>6 DEF Next
----------------------------------------------------------------------------
(* The theorems. *)

\* At each statement of the test, the two FileData and the output are what reading and
\* writing make of the files there were.
LEMMA Invariance == Spec => []IInv
<1>1. Init => IInv
  BY InitHolds
<1>2. IInv /\ [Next]_vars => IInv'
  BY NextHolds
<1> QED
  BY <1>1, <1>2, PTL DEF Spec

\* The state has its shape: all types that reading stores are Monio's.
THEOREM TypeCorrect == Spec => []TypeOK
<1>1. IInv => TypeOK
  BY DEF IInv
<1> QED
  BY <1>1, Invariance, PTL

\* StateBasic.h:72 never fails on the file that it wrote, whatever file it has read.
THEOREM TestPasses == Spec => []CopyIsEqual
<1>1. IInv => CopyIsEqual
  BY DEF IInv, OpenedFile, Compared, CopyIsEqual
<1> QED
  BY <1>1, Invariance, PTL

\* Nothing of what was read is lost by writing it.
THEOREM NothingLost == Spec => []CopyIsComplete
<1>1. ASSUME IInv, pc \in {"compareData", "same"}, opened = output
      PROVE  second = first
  <2>1. output = writeData(writeMetadata(first.metadata), first.data)
    BY <1>1 DEF IInv, OutputIsWritten
  <2>2. readFile(output) = first
    BY <1>1, <2>1, FirstFile
  <2> QED
    BY <1>1, <2>2 DEF IInv, SecondIsRead
<1>2. IInv => CopyIsComplete
  BY <1>1 DEF CopyIsComplete
<1> QED
  BY <1>2, Invariance, PTL

\* Files that operator== takes for equal have the same variables and data, and it takes
\* them for equal the other way round.
THEOREM EqualFilesAreSame == Spec => []EqualIsSame
<1>1. ASSUME IInv, pc = "same"
      PROVE  /\ first.metadata.variables = second.metadata.variables
             /\ first.data = second.data
             /\ MetadataEqual(second.metadata, first.metadata)
  <2>1. /\ IsRead(first.metadata) /\ IsFunction(first.data) /\ DOMAIN first.data \subseteq Names
    BY <1>1, FirstFile
  <2>2. IsRead(second.metadata) /\ IsFunction(second.data) /\ DOMAIN second.data \subseteq Names
    <3>1. second = readFile(opened) /\ opened \in Files \cup {output} /\ CanRead(opened)
      BY <1>1 DEF IInv, SecondIsRead, OpenedFile
    <3>2. CASE opened = output
      <4>1. output = writeData(writeMetadata(first.metadata), first.data)
        BY <1>1 DEF IInv, OutputIsWritten
      <4>2. readFile(output) = first
        BY <1>1, <4>1, FirstFile
      <4> QED
        BY <2>1, <3>1, <3>2, <4>2
    <3>3. CASE opened # output
      BY <3>1, <3>3, FileRead, FilesAssumption
    <3> QED
      BY <3>2, <3>3
  <2>3. MetadataEqual(first.metadata, second.metadata) /\ DataEqual(first.data, second.data)
    BY <1>1 DEF IInv, Compared
  <2>4. first.metadata.variables = second.metadata.variables
    BY <2>1, <2>2, <2>3, SameVariables
  <2>5. first.data = second.data
    BY <2>1, <2>2, <2>3, SameData
  <2>6. MetadataEqual(second.metadata, first.metadata)
    BY <2>3, <2>4, EqualExchanged
  <2> QED
    BY <2>4, <2>5, <2>6
<1>2. IInv => EqualIsSame
  BY <1>1 DEF EqualIsSame
<1> QED
  BY <1>2, Invariance, PTL
=============================================================================
