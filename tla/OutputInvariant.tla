--------------------------- MODULE OutputInvariant ---------------------------
(***************************************************************************)
(* The inductive invariant of OutputMetadata.  Metadata always know the    *)
(* dimensions of their variables, with the sizes they have there, and data *)
(* are as large as those say; what an output has been given comes from the *)
(* FileData of the write.                                                  *)
(***************************************************************************)
EXTENDS OutputMetadata

Dimension == [name : Names, size : Nat]

HasPoints(dimensions) == \E d \in DOMAIN dimensions \ ReadDims : dimensions[d] = Points

\* Dimensions of one variable: none twice, and each with the size it has in the file.
DimsFit(dims, dimensions) ==
    /\ dims \in Seq(Dimension)
    /\ \A i \in 1..Len(dims) : /\ dims[i].name \in DOMAIN dimensions
                               /\ dimensions[dims[i].name] = dims[i].size
    /\ \A i, j \in 1..Len(dims) : dims[i].name = dims[j].name => i = j

IsVariable(var, dimensions) ==
    var = [dims |-> var.dims] /\ DimsFit(var.dims, dimensions)

\* A variable that does not have a dimension.
Lacks(var, name) == \A i \in 1..Len(var.dims) : var.dims[i].name # name

\* The dimensions of one are dimensions of the other, with their sizes.
Within(some, all) == \A d \in DOMAIN some : d \in DOMAIN all /\ some[d] = all[d]

DimensionsFit(dimensions) ==
    /\ DOMAIN dimensions \subseteq Names
    /\ \A d \in DOMAIN dimensions : dimensions[d] \in Nat
    /\ JediLevelsFit(dimensions)

MetadataFit(md) ==
    /\ md = [dimensions |-> md.dimensions, variables |-> md.variables]
    /\ DimensionsFit(md.dimensions)
    /\ \A n \in DOMAIN md.variables : IsVariable(md.variables[n], md.dimensions)

\* There are as many data as the dimensions say.
DataFit(fd, n) ==
    /\ n \in DOMAIN fd.metadata.variables /\ n \in DOMAIN fd.data
    /\ fd.data[n].size = getTotalSize(fd.metadata.variables[n].dims)
----------------------------------------------------------------------------
\* The FileData of a grid.  After a write it has lost what it shares with the copy that
\* was written, the dimensions of time and tiles of its Variables; the mesh has none.
IsGrid(fd) ==
    /\ fd = [metadata |-> fd.metadata, data |-> fd.data]
    /\ MetadataFit(fd.metadata) /\ HasPoints(fd.metadata.dimensions)
    /\ Geometry \subseteq DOMAIN fd.data
    /\ DOMAIN fd.data \subseteq Geometry \cup ReadVars
    /\ \A n \in Geometry :
          DataFit(fd, n) /\ \A name \in ReadDims : Lacks(fd.metadata.variables[n], name)

StoredFits == stored = EmptyFileData \/ IsGrid(stored)

IsOutput(file) ==
    /\ file = [dimensions |-> file.dimensions, variables |-> file.variables, data |-> file.data]
    /\ DimensionsFit(file.dimensions) /\ DOMAIN file.dimensions \cap ReadDims = {}
    /\ \A n \in DOMAIN file.variables :
          /\ file.variables[n] \in Seq(DOMAIN file.dimensions)
          /\ \A i, j \in 1..Len(file.variables[n]) :
                file.variables[n][i] = file.variables[n][j] => i = j
    /\ DOMAIN file.variables # {} => HasPoints(file.dimensions)
    /\ DOMAIN file.variables \cap ReadVars = {}
    /\ DOMAIN file.data \subseteq DOMAIN file.variables

OutFits == IsOutput(out)

FileDataFits ==
    /\ fileData = [metadata |-> fileData.metadata, data |-> fileData.data]
    /\ MetadataFit(fileData.metadata)
    /\ DOMAIN fileData.metadata.dimensions \cap ReadDims = {}
    /\ \A n \in DOMAIN fileData.data : DataFit(fileData, n)
----------------------------------------------------------------------------
\* Before the first field the mesh is in the FileData, afterwards in the file.
StateWrite ==
    op \in {"LFRic", "JEDI"} =>
        /\ HasPoints(fileData.metadata.dimensions)
        /\ DOMAIN fileData.metadata.variables \subseteq Geometry \cup JediLevels
        /\ DOMAIN out.variables \subseteq Geometry \cup JediLevels \cup (fields \ left)
        /\ left = fields =>
              /\ out = EmptyFile
              /\ \A n \in Geometry :
                    /\ DataFit(fileData, n) /\ DataFit(stored, n)
                    /\ fileData.data[n] = stored.data[n]
                    /\ fileData.metadata.variables[n] = stored.metadata.variables[n]
        /\ left # fields =>
              /\ DOMAIN fileData.data = {} /\ DOMAIN fileData.metadata.variables = {}
              /\ Within(out.dimensions, fileData.metadata.dimensions)
              /\ Within(fileData.metadata.dimensions, out.dimensions)

\* All dimensions are generated, and the next name is not one of them.
FieldSetWrite ==
    op = "writeFieldSet" =>
        /\ DOMAIN fileData.data = {} /\ DOMAIN fileData.metadata.variables = {}
        /\ \A d \in DOMAIN fileData.metadata.dimensions :
              \E i \in 1..dimCount : d = GeneratedNames[i]
        /\ Within(out.dimensions, fileData.metadata.dimensions)
        /\ DOMAIN out.variables \subseteq CoordVars \cup (fields \ left)
        /\ DOMAIN out.data = DOMAIN out.variables
        /\ \A n \in CoordVars \cap DOMAIN out.data : out.data[n].size = Points

Idle == op = "idle" => fileData = EmptyFileData

IInv ==
    /\ TypeOK /\ StoredFits /\ OutFits /\ FileDataFits
    /\ StateWrite /\ FieldSetWrite /\ Idle
    /\ DeclaredSize /\ MeshKept
=============================================================================
