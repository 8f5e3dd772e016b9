------------------------------ MODULE FileCopy ------------------------------
(***************************************************************************)
(* The program of test/monio/StateBasic.h: read a file whole, write it     *)
(* under another name, read what was written, and compare the two with     *)
(* Metadata::operator== and Data::operator==.  The second file may be any  *)
(* other, so that the comparison is met with files that differ.            *)
(*                                                                         *)
(* Reading and writing convert: NetCDF has more types of attributes than   *)
(* Monio, and Monio writes one NetCDF type for each of its own.  Attribute *)
(* and data values are abstract; an attribute has one value.               *)
(***************************************************************************)
EXTENDS Metadata

CONSTANTS
    Files,      \* the files there are to read
    AttrValue,  \* values of attributes
    DataValue   \* the values of a variable, as one

\* The types of Monio: eDouble, eFloat, eInt, eString.
VarType  == {"double", "float", "int"}
AttrType == {"double", "int", "string"}

\* The types of NetCDF that Monio has no code for are "byte" here.
NcVarType  == VarType \cup {"byte"}
NcAttrType == {"char", "string", "int", "short", "float", "double", "byte"}

\* A file: the attributes have values, the variables dimensions that the file has, and
\* all of them data.
IsAttributes(attrs) ==
    /\ DOMAIN attrs \subseteq Names
    /\ \A a \in DOMAIN attrs : attrs[a].type \in NcAttrType /\ attrs[a].value \in AttrValue

IsFile(file) ==
    /\ DOMAIN file.dimensions \subseteq Names /\ DOMAIN file.variables \subseteq Names
    /\ \A d \in DOMAIN file.dimensions : file.dimensions[d] \in Nat
    /\ IsAttributes(file.globalAttrs)
    /\ \A n \in DOMAIN file.variables :
          /\ file.variables[n].type \in NcVarType
          /\ file.variables[n].dims \in Seq(DOMAIN file.dimensions)
          /\ IsAttributes(file.variables[n].attrs)
          /\ file.data[n].value \in DataValue

ASSUME FilesAssumption == \A file \in Files : IsFile(file)

NoFile == [dimensions |-> NoMap, variables |-> NoMap, globalAttrs |-> NoMap, data |-> NoMap]

EmptyFileData ==
    [metadata |-> [dimensions |-> NoMap, variables |-> NoMap, globalAttrs |-> NoMap],
     data |-> NoMap]

VARIABLES
    pc,      \* the next statement of the test, its verdict, or "failed"
    first,   \* firstFileData
    second,  \* secondFileData
    output,  \* the file the writer made
    opened   \* the file the reader has open

vars == <<pc, first, second, output, opened>>

IsMap(map, Values) == \A n \in DOMAIN map : n \in STRING /\ map[n] \in Values

IsFileData(fd) ==
    /\ IsMap(fd.metadata.dimensions, Nat)
    /\ IsMap(fd.metadata.globalAttrs, [type : AttrType, value : AttrValue])
    /\ \A n \in DOMAIN fd.metadata.variables :
          /\ fd.metadata.variables[n].type \in VarType
          /\ IsMap(fd.metadata.variables[n].attrs, [type : AttrType, value : AttrValue])
    /\ IsMap(fd.data, [type : VarType, size : Nat, value : DataValue])

TypeOK ==
    /\ pc \in {"read", "define", "write", "readAgain", "compare", "compareData",
               "same", "different", "failed"}
    /\ IsFileData(first) /\ IsFileData(second)
    /\ opened \in Files \cup {NoFile, output}

Init ==
    /\ pc = "read"
    /\ first = EmptyFileData /\ second = EmptyFileData
    /\ output = NoFile /\ opened = NoFile
----------------------------------------------------------------------------
(* Reading. *)

\* Mutant: an attribute keeps the type it has in the file.
TypeInFile(ncType) == ncType

\* The types of attributes as File::readVariable and File::readAttributes map them.
MonioType(ncType) ==
    CASE ncType \in {"char", "string"}  -> "string"
      [] ncType \in {"int", "short"}    -> "int"
      [] ncType \in {"float", "double"} -> "double"
      [] ncType = "byte"                -> NotFound

readAttrs(attrs) ==
    [a \in DOMAIN attrs |-> [type |-> MonioType(attrs[a].type), value |-> attrs[a].value]]

\* A type without code, of a variable or of an attribute, makes the reading throw.
CanRead(file) ==
    /\ \A n \in DOMAIN file.variables :
          /\ file.variables[n].type \in VarType
          /\ \A a \in DOMAIN file.variables[n].attrs : file.variables[n].attrs[a].type # "byte"
    /\ \A a \in DOMAIN file.globalAttrs : file.globalAttrs[a].type # "byte"

readVariable(file, n) ==
    LET var == file.variables[n]
    IN  [type |-> var.type,
         dims |-> [i \in 1..Len(var.dims) |->
                      [name |-> var.dims[i], size |-> file.dimensions[var.dims[i]]]],
         attrs |-> readAttrs(var.attrs)]

\* Reader::readMetadata, into new Metadata.
readMetadata(file) ==
    [dimensions |-> file.dimensions,
     variables |-> [n \in DOMAIN file.variables |-> readVariable(file, n)],
     globalAttrs |-> readAttrs(file.globalAttrs)]

\* Reader::readAllData: the type and the size are those of the variable.
readAllData(md, file) ==
    [n \in DOMAIN md.variables |->
        [type |-> md.variables[n].type, size |-> getTotalSize(md.variables[n].dims),
         value |-> file.data[n].value]]

readFile(file) ==
    [metadata |-> readMetadata(file), data |-> readAllData(readMetadata(file), file)]

ReadFirst(file) ==
    /\ pc = "read"
    /\ opened' = file
    /\ IF CanRead(file)
       THEN /\ pc' = "define"
            /\ first' = readFile(file)
       ELSE pc' = "failed" /\ UNCHANGED first
    /\ UNCHANGED <<second, output>>
----------------------------------------------------------------------------
(* Writing. *)

\* A string goes to the file as characters.
NcType(type) == IF type = "string" THEN "char" ELSE type

writeAttrs(attrs) ==
    [a \in DOMAIN attrs |-> [type |-> NcType(attrs[a].type), value |-> attrs[a].value]]

\* Mutant: the attributes of the file are left out.
writeNoGlobals(file, attrs) == file

\* File::writeAttributes.
writeAttributes(file, attrs) ==
    LET new == writeAttrs(attrs)
    IN  [file EXCEPT !.globalAttrs = [a \in DOMAIN @ \cup DOMAIN new |->
                                         IF a \in DOMAIN @ THEN @[a] ELSE new[a]]]

\* Mutant: the attributes of a variable are left out.
writeNoAttrs(var) ==
    [type |-> var.type, dims |-> [i \in 1..Len(var.dims) |-> var.dims[i].name], attrs |-> NoMap]

writeVariable(var) ==
    [type |-> var.type, dims |-> [i \in 1..Len(var.dims) |-> var.dims[i].name],
     attrs |-> writeAttrs(var.attrs)]

\* File::writeMetadata, to the file that has just been made.
writeMetadata(md) ==
    LET defined ==
            [dimensions |-> md.dimensions,
             variables |-> [n \in DOMAIN md.variables |-> writeVariable(md.variables[n])],
             globalAttrs |-> NoMap, data |-> NoMap]
    IN  writeAttributes(defined, md.globalAttrs)

\* Writer::writeMetadata.
WriteMetadata ==
    /\ pc = "define"
    /\ output' = writeMetadata(first.metadata)
    /\ pc' = "write"
    /\ UNCHANGED <<first, second, opened>>

writeData(file, data) ==
    [file EXCEPT !.data = [n \in DOMAIN data |-> [size |-> data[n].size, value |-> data[n].value]]]

\* Writer::writeData.
WriteData ==
    /\ pc = "write"
    /\ output' = writeData(output, first.data)
    /\ pc' = "readAgain"
    /\ UNCHANGED <<first, second, opened>>
----------------------------------------------------------------------------
(* Comparing: element by element, in the order of the maps. *)

\* The keys of a std::map, in order.
Keys(map) ==
    LET keys[i \in 0..Len(NameOrder)] ==
            IF i = 0 THEN <<>>
            ELSE IF NameOrder[i] \in DOMAIN map THEN Append(keys[i - 1], NameOrder[i])
            ELSE keys[i - 1]
    IN  keys[Len(NameOrder)]

\* Whether two attributes, in the same place, are equal: types, names and values.
sameAttributes(lhs, rhs) ==
    LET l == Keys(lhs)  r == Keys(rhs)
    IN  \A i \in 1..Len(l) : l[i] = r[i] /\ lhs[l[i]] = rhs[r[i]]

\* Mutant: the number of attributes is not compared.
sameVariableOneWay(lhs, rhs) ==
    /\ lhs.type = rhs.type /\ lhs.dims = rhs.dims
    /\ \A i \in 1..Len(Keys(lhs.attrs)) :
          /\ i <= Len(Keys(rhs.attrs))
          /\ Keys(lhs.attrs)[i] = Keys(rhs.attrs)[i]
          /\ lhs.attrs[Keys(lhs.attrs)[i]] = rhs.attrs[Keys(rhs.attrs)[i]]

\* The total sizes are equal when the dimensions are.
sameVariable(lhs, rhs) ==
    /\ lhs.type = rhs.type
    /\ Len(lhs.dims) = Len(rhs.dims)
    /\ \A i \in 1..Len(lhs.dims) : lhs.dims[i] = rhs.dims[i]
    /\ Len(Keys(lhs.attrs)) = Len(Keys(rhs.attrs))
    /\ sameAttributes(lhs.attrs, rhs.attrs)

\* Dimensions of different numbers are not compared, those of the same number by
\* their sizes.
sameDimensions(lhs, rhs) ==
    LET l == Keys(lhs)  r == Keys(rhs)
    IN  Len(l) = Len(r) => \A i \in 1..Len(l) : lhs[l[i]] = rhs[r[i]]

\* Metadata::operator==.
MetadataEqual(lhs, rhs) ==
    LET l == Keys(lhs.variables)  r == Keys(rhs.variables)
    IN  /\ sameDimensions(lhs.dimensions, rhs.dimensions)
        /\ Len(l) = Len(r)
        /\ \A i \in 1..Len(l) :
              l[i] = r[i] /\ sameVariable(lhs.variables[l[i]], rhs.variables[r[i]])

\* Data::operator==.
DataEqual(lhs, rhs) ==
    LET l == Keys(lhs)  r == Keys(rhs)
    IN  Len(l) = Len(r) /\ \A i \in 1..Len(l) : l[i] = r[i] /\ lhs[l[i]] = rhs[r[i]]

ReadSecondMetadata(file) ==
    /\ pc = "readAgain"
    /\ opened' = file
    /\ IF CanRead(file)
       THEN pc' = "compare" /\ second' = [second EXCEPT !.metadata = readMetadata(file)]
       ELSE pc' = "failed" /\ UNCHANGED second
    /\ UNCHANGED <<first, output>>

CompareMetadata ==
    /\ pc = "compare"
    /\ IF MetadataEqual(first.metadata, second.metadata)
       THEN pc' = "compareData" /\ second' = [second EXCEPT
                                     !.data = readAllData(second.metadata, opened)]
       ELSE pc' = "different" /\ UNCHANGED second
    /\ UNCHANGED <<first, output, opened>>

CompareData ==
    /\ pc = "compareData"
    /\ pc' = IF DataEqual(first.data, second.data) THEN "same" ELSE "different"
    /\ UNCHANGED <<first, second, output, opened>>
----------------------------------------------------------------------------
Next ==
    \/ \E file \in Files : ReadFirst(file)
    \/ WriteMetadata
    \/ WriteData
    \/ \E file \in Files \cup {output} : ReadSecondMetadata(file)
    \/ CompareMetadata
    \/ CompareData

Spec == Init /\ [][Next]_vars
----------------------------------------------------------------------------
(* Properties. *)

\* StateBasic.h:72: what is written from a file that could be read reads back as
\* equal, whichever types its attributes have there: the conversions of writing undo
\* none of reading, so the test never fails, nor throws, on the file it wrote.
CopyIsEqual == opened = output => pc \notin {"different", "failed"}

\* The file written loses nothing of what was read, the attributes of the file and
\* the dimensions that no variable has included, which operator== does not look at.
CopyIsComplete ==
    pc \in {"compareData", "same"} /\ opened = output => second = first

\* Metadata::operator== and Data::operator== walk two maps in step, by the size of
\* the left one: files they take for equal have the same variables, with the same
\* dimensions, attributes and data, and either may be the left one.
EqualIsSame ==
    pc = "same" =>
        /\ first.metadata.variables = second.metadata.variables
        /\ first.data = second.data
        /\ MetadataEqual(second.metadata, first.metadata)
=============================================================================
