------------------------- MODULE FieldLayoutProofs -------------------------
(***************************************************************************)
(* Proofs, for any number of points and levels and any contents, that the  *)
(* properties of FieldLayout hold.  First the index: each point and level  *)
(* of a field has an index of its own in the vector, and the indices fill  *)
(* it.  Then what populateDataVec and populateField do with it, and last   *)
(* the invariant, which says what the variable and the field hold after    *)
(* each call.                                                              *)
(***************************************************************************)
EXTENDS FieldLayout, TLAPS, WellFoundedInduction
----------------------------------------------------------------------------
(* The index. *)

LEMMA SizeTypes ==
    /\ Size \in Nat \ {0} /\ Size >= 2
    /\ kVerticalFullSize \in Nat \ {0, 1} /\ kVerticalHalfSize \in Nat \ {0}
    /\ kVerticalHalfSize = kVerticalFullSize - 1
    /\ LevelCounts \subseteq Nat \ {0}
BY SizeAssumption DEF kVerticalHalfSize

\* No two pairs of a point and a level have the same index.
LEMMA IndexUnique ==
    ASSUME NEW d \in Nat \ {0}, NEW a \in 0..d - 1, NEW b \in 0..d - 1,
           NEW j \in Nat, NEW l \in Nat, a + j * d = b + l * d
    PROVE  a = b /\ j = l
BY SMT

\* An index of one of n levels is within a vector for n levels.
LEMMA IndexRange ==
    ASSUME NEW d \in Nat \ {0}, NEW n \in Nat, NEW a \in 0..d - 1, NEW l \in 0..n - 1
    PROVE  a + l * d \in 0..n * d - 1
<1>1. l + 1 <= n
  OBVIOUS
<1>2. (l + 1) * d <= n * d
  BY <1>1
<1>3. (l + 1) * d = l * d + d /\ l * d \in Nat /\ n * d \in Nat
  OBVIOUS
<1>. QED BY <1>2, <1>3

\* Every place of a vector is the index of a point and a level.
LEMMA IndexOnto ==
    ASSUME NEW d \in Nat \ {0}, NEW n \in Nat, NEW k \in 0..n * d - 1
    PROVE  \E p \in 0..d - 1, l \in 0..n - 1 : k = p + l * d
<1>. DEFINE l == k \div d
            p == k % d
<1>1. k = l * d + p /\ p \in 0..d - 1 /\ l \in Int
  BY SMT
<1>. HIDE DEF l, p
<1>2. l * d <= k /\ k < n * d /\ 0 <= k /\ k < l * d + d
  BY <1>1
<1>3. l < n /\ 0 <= l
  BY <1>1, <1>2
<1>4. k = p + l * d /\ l \in 0..n - 1
  BY <1>1, <1>3
<1>. QED BY <1>1, <1>4

LEMMA IndexType ==
    ASSUME NEW map \in [Point -> Point], NEW n \in Nat, NEW i \in Point, NEW l \in Level(n)
    PROVE  Index(map, i, l) \in 0..n * Size - 1
<1>1. map[i] \in 0..Size - 1
  BY DEF Point
<1>. QED BY <1>1, SizeTypes, IndexRange DEF Index, Level
----------------------------------------------------------------------------
(* populateDataVec. *)

\* Of several points with the same index, the one written last is one of them, and
\* none of them comes after it.
LEMMA LastStoredIn ==
    ASSUME NEW n \in Nat, NEW S \in SUBSET (Point \X Level(n)), S # {}
    PROVE  LastStored(S) \in S /\ \A x \in S : x[1] <= LastStored(S)[1]
<1>. DEFINE T == {x \in Nat : \E w \in S : x = Size - w[1]}
<1>1. \A w \in S : w[1] \in 0..Size - 1
  BY DEF Point
<1>2. T # {} /\ T \subseteq Nat
  BY <1>1, SizeTypes
<1>. DEFINE R == {ss \in Nat \X Nat : ss[1] < ss[2]}
<1>3. PICK m \in T : \A x \in T : ~ (<<x, m>> \in R)
  <2>1. R = OpToRel(<, Nat)
    BY Zenon DEF OpToRel
  <2>2. IsWellFoundedOn(R, Nat)
    BY <2>1, NatLessThanWellFounded, Zenon
  <2>. HIDE DEF R, T
  <2>. QED BY <1>2, <2>2, WFMin
<1>4. \A x \in T : m <= x
  <2>. TAKE x \in T
  <2>1. x \in Nat /\ m \in Nat /\ ~ (x < m)
    BY <1>2, <1>3
  <2>. QED BY <2>1
<1>5. PICK w \in S : m = Size - w[1]
  OBVIOUS
<1>6. \A x \in S : x[1] <= w[1]
  BY <1>1, <1>4, <1>5, SizeTypes
<1>. QED BY <1>6 DEF LastStored

\* Every element of the vector is a value of the field, or was not written.
LEMMA VectorType ==
    ASSUME NEW map \in [Point -> Point], NEW n \in Nat, NEW V, NEW f \in Fields(n, V)
    PROVE  populateDataVec(map, n, f) \in [0..n * Size - 1 -> V \cup {Zero}]
<1>1. SUFFICES ASSUME NEW k \in 0..n * Size - 1
               PROVE  populateDataVec(map, n, f)[k] \in V \cup {Zero}
  BY DEF populateDataVec
<1>. DEFINE S == StoredAt(map, n, k)
<1>2. CASE S = {}
  BY <1>2 DEF populateDataVec
<1>3. CASE S # {}
  <2>1. S \in SUBSET (Point \X Level(n))
    BY DEF StoredAt
  <2>2. LastStored(S) \in Point \X Level(n)
    BY <1>3, <2>1, LastStoredIn
  <2>3. populateDataVec(map, n, f)[k] = f[LastStored(S)[1]][LastStored(S)[2]]
    BY <1>3 DEF populateDataVec
  <2>. QED BY <2>2, <2>3 DEF Fields
<1>. QED BY <1>2, <1>3

\* Where the index of a point stands, all levels are those of one point with that
\* index: the last.
LEMMA VectorColumn ==
    ASSUME NEW map \in [Point -> Point], NEW n \in Nat, n # 0, NEW f, NEW i \in Point
    PROVE  \E j \in Point :
              /\ map[j] = map[i]
              /\ \A l \in Level(n) : populateDataVec(map, n, f)[Index(map, i, l)] = f[j][l]
<1>. DEFINE S(l) == StoredAt(map, n, Index(map, i, l))
            P(l) == LastStored(S(l))[1]
<1>1. ASSUME NEW l \in Level(n)
      PROVE  S(l) = {w \in Point \X Level(n) : map[w[1]] = map[i] /\ w[2] = l}
  <2>1. SUFFICES ASSUME NEW w \in Point \X Level(n)
                 PROVE  Index(map, w[1], w[2]) = Index(map, i, l)
                          <=> map[w[1]] = map[i] /\ w[2] = l
    BY DEF StoredAt
  <2>. DEFINE a == map[w[1]]
              b == map[i]
              k == w[2]
  <2>2. a \in 0..Size - 1 /\ b \in 0..Size - 1 /\ k \in Nat /\ l \in Nat
    BY DEF Point, Level
  <2>3. ASSUME a + k * Size = b + l * Size
        PROVE  a = b /\ k = l
    <3>. HIDE DEF a, b, k
    <3>. QED BY <2>2, <2>3, SizeTypes, IndexUnique
  <2>4. map[w[1]] + w[2] * Size = map[i] + l * Size <=> map[w[1]] = map[i] /\ w[2] = l
    BY <2>3
  <2>. QED BY <2>4 DEF Index
<1>2. ASSUME NEW l \in Level(n)
      PROVE  /\ P(l) \in Point /\ map[P(l)] = map[i] /\ LastStored(S(l)) = <<P(l), l>>
             /\ \A j \in Point : map[j] = map[i] => j <= P(l)
             /\ S(l) # {}
  <2>1. S(l) \in SUBSET (Point \X Level(n)) /\ <<i, l>> \in S(l)
    BY <1>1
  <2>2. LastStored(S(l)) \in S(l) /\ \A x \in S(l) : x[1] <= LastStored(S(l))[1]
    <3>. HIDE DEF S
    <3>. QED BY <2>1, LastStoredIn
  <2>3. \A j \in Point : map[j] = map[i] => <<j, l>> \in S(l)
    BY <1>1
  <2>4. PICK j \in Point : LastStored(S(l)) = <<j, l>> /\ map[j] = map[i]
    <3>1. LastStored(S(l)) \in {w \in Point \X Level(n) : map[w[1]] = map[i] /\ w[2] = l}
      BY <1>1, <2>2
    <3>. QED BY <3>1
  <2>5. P(l) = j
    BY <2>4
  <2>6. \A k \in Point : map[k] = map[i] => k <= P(l)
    <3>1. SUFFICES ASSUME NEW k \in Point, map[k] = map[i] PROVE k <= P(l)
      OBVIOUS
    <3>2. <<k, l>> \in S(l)
      BY <2>3, <3>1
    <3>. HIDE DEF S
    <3>. QED BY <2>2, <3>2
  <2>. HIDE DEF P, S
  <2>. QED BY <2>1, <2>4, <2>5, <2>6
<1>3. 0 \in Level(n)
  BY DEF Level
<1>4. P(0) \in Point /\ map[P(0)] = map[i]
  BY <1>2, <1>3
<1>5. ASSUME NEW l \in Level(n)
      PROVE  populateDataVec(map, n, f)[Index(map, i, l)] = f[P(0)][l]
  <2>1. P(l) <= P(0) /\ P(0) <= P(l) /\ P(l) \in Nat /\ P(0) \in Nat
    <3>. HIDE DEF P
    <3>. QED BY <1>2, <1>3 DEF Point
  <2>2. P(l) = P(0)
    <3>. HIDE DEF P
    <3>. QED BY <2>1
  <2>3. LastStored(S(l)) = <<P(0), l>>
    <3>. HIDE DEF P, S
    <3>. QED BY <1>2, <2>2
  <2>4. Index(map, i, l) \in 0..n * Size - 1
    BY IndexType
  <2>5. populateDataVec(map, n, f)[Index(map, i, l)] = f[LastStored(S(l))[1]][LastStored(S(l))[2]]
    BY <1>2, <2>4 DEF populateDataVec
  <2>. QED BY <2>3, <2>5
<1>. HIDE DEF P
<1>. QED BY <1>4, <1>5

\* With a permutation of the points nothing is written over.
LEMMA VectorValue ==
    ASSUME NEW map \in [Point -> Point], IsPermutation(map), NEW n \in Nat, NEW f,
           NEW i \in Point, NEW l \in Level(n)
    PROVE  populateDataVec(map, n, f)[Index(map, i, l)] = f[i][l]
<1>1. n # 0
  BY DEF Level
<1>. QED BY <1>1, VectorColumn DEF IsPermutation

\* ... and everything is written.
LEMMA VectorFull ==
    ASSUME NEW map \in [Point -> Point], IsPermutation(map), NEW n \in Nat, NEW f,
           NEW k \in 0..n * Size - 1
    PROVE  \E i \in Point, l \in Level(n) : populateDataVec(map, n, f)[k] = f[i][l]
<1>1. PICK p \in 0..Size - 1, l \in 0..n - 1 : k = p + l * Size
  BY SizeTypes, IndexOnto
<1>2. PICK i \in Point : map[i] = p
  BY DEF IsPermutation, Point
<1>3. Index(map, i, l) = k /\ l \in Level(n)
  BY <1>1, <1>2 DEF Index, Level
<1>4. populateDataVec(map, n, f)[k] = f[i][l]
  BY <1>3, VectorValue
<1>. QED BY <1>3, <1>4

LEMMA AtlasOrderType ==
    ASSUME NEW n \in Nat \ {0}, NEW V, NEW f \in Fields(n, V)
    PROVE  /\ populateDataVecInAtlasOrder(n, f) \in [0..n * Size - 1 -> V]
           /\ \A k \in 0..n * Size - 1 : \E i \in Point, l \in Level(n) :
                 populateDataVecInAtlasOrder(n, f)[k] = f[i][l]
<1>1. SUFFICES ASSUME NEW k \in 0..n * Size - 1
               PROVE  \E i \in Point, l \in Level(n) :
                         /\ populateDataVecInAtlasOrder(n, f)[k] = f[i][l]
                         /\ f[i][l] \in V
  BY DEF populateDataVecInAtlasOrder
<1>. DEFINE w == CHOOSE w \in Point \X Level(n) : k = w[2] + w[1] * n
<1>2. n * Size = Size * n
  BY SizeTypes
<1>3. PICK l \in 0..n - 1, i \in 0..Size - 1 : k = l + i * n
  <2>1. k \in 0..Size * n - 1 /\ Size \in Nat
    BY <1>2, SizeTypes
  <2>. QED BY <2>1, IndexOnto
<1>4. <<i, l>> \in Point \X Level(n) /\ k = <<i, l>>[2] + <<i, l>>[1] * n
  BY <1>3 DEF Point, Level
<1>5. w \in Point \X Level(n)
  BY <1>4
<1>6. populateDataVecInAtlasOrder(n, f)[k] = f[w[1]][w[2]]
  BY DEF populateDataVecInAtlasOrder
<1>7. w[1] \in Point /\ w[2] \in Level(n) /\ f[w[1]][w[2]] \in V
  BY <1>5 DEF Fields
<1>. QED BY <1>6, <1>7
----------------------------------------------------------------------------
(* What the field and the variable hold after each call. *)

\* The variable a write made, from the field written then.
VariableWritten ==
    LET n == WriteLevels(variable.lfric)
    IN  variable.by = "write" =>
          /\ ~ (variable.lfric /\ Misconfigured)
          /\ variable.levels = n
          /\ variable.data =
                populateDataVec(lfricAtlasMap, n, getWriteField(variable.lfric, written))

FieldSetWritten ==
    variable.by = "writeFieldSet" =>
        /\ variable.levels = numLevels
        /\ variable.data = populateDataVecInAtlasOrder(numLevels, written)

\* The field after a write, and after a read that was not lost.
FieldInStep ==
    /\ last = "write" => variable.by = "write" /\ field = written
    /\ last = "read" =>
          /\ variable.by # "writeFieldSet"
          /\ ~ ExceedsSize(variable)
          /\ ~ Misconfigured => field = populateField(variable)

\* Nothing from past the end of a vector is anywhere.
NoGarbage ==
    IsPermutation(lfricAtlasMap) =>
        /\ field \in Fields(numLevels, Value \cup {Zero})
        /\ written \in Fields(numLevels, Value \cup {Zero})
        /\ variable.data \in [0..variable.levels * Size - 1 -> Value \cup {Zero}]

IInv == TypeOK /\ VariableWritten /\ FieldSetWritten /\ FieldInStep /\ NoGarbage
----------------------------------------------------------------------------
(* The types of what the operators return, for values in any set V. *)

LEMMA LowerLevelsType ==
    ASSUME NEW f \in Profiles, NEW n \in LevelCounts
    PROVE  LowerLevels(f, n) \in Fields(n, Value)
BY SizeAssumption, ValueAssumption DEF LowerLevels, Fields, Level

LEMMA LevelTypes ==
    ASSUME TypeOK
    PROVE  /\ numLevels \in Nat \ {0} /\ numLevels \in 1..kVerticalFullSize
           /\ \A lfric \in BOOLEAN : WriteLevels(lfric) \in 1..kVerticalFullSize
           /\ ~ Misconfigured => ReadLevels = numLevels
           /\ ReadLevels \in 1..kVerticalFullSize
           /\ variable.lfric \in BOOLEAN /\ variable.levels \in 1..kVerticalFullSize
           /\ variable.data \in [0..variable.levels * Size - 1 -> Datum]
           /\ variable.by \in {"LFRic", "write", "writeFieldSet"}
<1>1. PICK n \in 1..kVerticalFullSize : variable \in Variable(n)
  BY DEF TypeOK
<1>2. /\ variable.lfric \in BOOLEAN /\ variable.levels = n
      /\ variable.data \in [0..n * Size - 1 -> Datum]
      /\ variable.by \in {"LFRic", "write", "writeFieldSet"}
  BY <1>1 DEF Variable
<1>3. numLevels \in 1..kVerticalFullSize
  BY SizeAssumption DEF TypeOK
<1>. QED BY <1>2, <1>3, SizeTypes DEF WriteLevels, ReadLevels, Misconfigured

LEMMA WriteFieldType ==
    ASSUME TypeOK, NEW V, NEW f \in Fields(numLevels, V), NEW lfric \in BOOLEAN
    PROVE  getWriteField(lfric, f) \in Fields(WriteLevels(lfric), V)
<1>1. CASE WithoutSurface(lfric, numLevels)
  <2>1. numLevels = kVerticalFullSize - 1
    BY <1>1, SizeTypes DEF WithoutSurface
  <2>2. \A l \in Level(kVerticalFullSize) :
           (IF l = 0 THEN 0 ELSE l - 1) \in Level(numLevels)
    BY <2>1, SizeTypes DEF Level
  <2>. QED BY <1>1, <2>2 DEF getWriteField, WriteLevels, copySurfaceLevel, Fields
<1>2. CASE ~ WithoutSurface(lfric, numLevels)
  BY <1>2 DEF getWriteField, WriteLevels
<1>. QED BY <1>1, <1>2

LEMMA LfricVariableType ==
    ASSUME NEW n \in LevelCounts, NEW lfric \in BOOLEAN, NEW f \in Profiles
    PROVE  /\ LfricVariable(n, lfric, f) \in Variable(n)
           /\ LfricVariable(n, lfric, f).levels = n
           /\ LfricVariable(n, lfric, f).by = "LFRic"
           /\ LfricVariable(n, lfric, f).data \in [0..n * Size - 1 -> Value \cup {Zero}]
<1>1. f \in Fields(kVerticalFullSize, Value) /\ n \in Nat /\ n <= kVerticalFullSize
  BY SizeAssumption, ValueAssumption
<1>. DEFINE g == LowerLevels(f, n)
            v == populateDataVec([p \in Point |-> p], n, f)
            w == populateDataVec([p \in Point |-> p], n, g)
<1>2. g \in Fields(n, Value)
  BY LowerLevelsType
<1>3. w \in [0..n * Size - 1 -> Value \cup {Zero}]
  BY <1>1, <1>2, VectorType
<1>4. v = w
  <2>1. SUFFICES ASSUME NEW k \in 0..n * Size - 1
                 PROVE  v[k] = w[k]
    BY DEF populateDataVec
  <2>. DEFINE S == StoredAt([p \in Point |-> p], n, k)
  <2>2. CASE S = {}
    BY <2>2 DEF populateDataVec
  <2>3. CASE S # {}
    <3>1. S \in SUBSET (Point \X Level(n))
      BY DEF StoredAt
    <3>2. LastStored(S) \in Point \X Level(n)
      <4>. HIDE DEF S
      <4>. QED BY <1>1, <2>3, <3>1, LastStoredIn
    <3>3. g[LastStored(S)[1]][LastStored(S)[2]] = f[LastStored(S)[1]][LastStored(S)[2]]
      BY <3>2 DEF LowerLevels
    <3>. QED BY <2>3, <3>3 DEF populateDataVec
  <2>. QED BY <2>2, <2>3
<1>5. v \in [0..n * Size - 1 -> Value \cup {Zero}]
  BY <1>3, <1>4
<1>6. v \in [0..n * Size - 1 -> Datum]
  BY <1>5 DEF Datum
<1>. QED BY <1>5, <1>6 DEF LfricVariable, Variable

\* An index that populateField reads and the check lets through.
LEMMA IndexReadType ==
    ASSUME TypeOK, ~ ExceedsSize(variable), NEW i \in Point, NEW l \in Level(ReadLevels)
    PROVE  IndexRead(i, l) \in 0..variable.levels * Size
<1>1. lfricAtlasMap[i] \in 0..Size - 1 /\ l \in Nat
  BY LevelTypes DEF TypeOK, Point, Level
<1>. DEFINE m == l + FirstLevel(variable.lfric, ReadLevels)
<1>2. m \in Nat
  BY <1>1 DEF FirstLevel
<1>3. m * Size \in Nat /\ variable.levels * Size \in Nat
  BY <1>2, SizeTypes, LevelTypes
<1>4. IndexRead(i, l) = lfricAtlasMap[i] + m * Size
  BY DEF IndexRead, Index
<1>5. ~ (IndexRead(i, l) > variable.levels * Size)
  BY DEF ExceedsSize
<1>. HIDE DEF m
<1>. QED BY <1>1, <1>3, <1>4, <1>5

LEMMA PopulateFieldType ==
    ASSUME TypeOK, ~ ExceedsSize(variable), ~ Misconfigured
    PROVE  populateField(variable) \in Fields(numLevels, Datum)
<1>1. SUFFICES ASSUME NEW i \in Point, NEW l \in Level(ReadLevels)
               PROVE  DatumAt(variable, IndexRead(i, l)) \in Datum
  BY LevelTypes DEF populateField, Fields
<1>2. IndexRead(i, l) \in 0..variable.levels * Size
  BY IndexReadType
<1>3. variable.levels * Size \in Nat
  BY SizeTypes, LevelTypes
<1>4. IndexRead(i, l) < variable.levels * Size => IndexRead(i, l) \in 0..variable.levels * Size - 1
  BY <1>2, <1>3
<1>. QED BY <1>4, LevelTypes DEF DatumAt, Datum

\* The one index that the check lets through although it is past the end is that of
\* point 0 one level too high; but then that of point 1 is not let through.
LEMMA ReadWithin ==
    ASSUME TypeOK, IsPermutation(lfricAtlasMap), ~ ExceedsSize(variable),
           NEW i \in Point, NEW l \in Level(ReadLevels)
    PROVE  IndexRead(i, l) \in 0..variable.levels * Size - 1
<1>. DEFINE m == l + FirstLevel(variable.lfric, ReadLevels)
<1>1. PICK j \in Point : lfricAtlasMap[j] = 1
  BY SizeTypes DEF IsPermutation, Point
<1>2. IndexRead(i, l) \in 0..variable.levels * Size
      /\ IndexRead(j, l) \in 0..variable.levels * Size
  BY IndexReadType
<1>3. IndexRead(i, l) = lfricAtlasMap[i] + m * Size /\ IndexRead(j, l) = 1 + m * Size
  BY <1>1 DEF IndexRead, Index
<1>4. lfricAtlasMap[i] \in 0..Size - 1 /\ l \in Nat
  BY LevelTypes DEF TypeOK, Point, Level
<1>5. m \in Nat /\ variable.levels \in Nat
  BY <1>4, LevelTypes DEF FirstLevel
<1>. HIDE DEF m
<1>6. m * Size < variable.levels * Size
  BY <1>2, <1>3, <1>5, SizeTypes
<1>7. m < variable.levels
  BY <1>5, <1>6, SizeTypes
<1>8. m \in 0..variable.levels - 1 /\ variable.levels \in Nat
  BY <1>5, <1>7
<1>. QED BY <1>3, <1>4, <1>8, SizeTypes, IndexRange
----------------------------------------------------------------------------
(* Every step keeps the invariant. *)

LEMMA InitInv == Init => IInv
<1>. SUFFICES ASSUME Init PROVE IInv
  OBVIOUS
<1>1. PICK f \in Profiles : field = LowerLevels(f, numLevels)
  BY DEF Init
<1>2. PICK n \in LevelCounts, lfric \in BOOLEAN, g \in Profiles :
         variable = LfricVariable(n, lfric, g)
  BY DEF Init
<1>3. numLevels \in LevelCounts /\ noFirstLevel \in BOOLEAN /\ written = field /\ last = "start"
  BY DEF Init
<1>4. lfricAtlasMap \in [Point -> Point]
  BY ValueAssumption DEF Init, createLfricAtlasMap
<1>5. field \in Fields(numLevels, Value)
  BY <1>1, <1>3, LowerLevelsType
<1>6. field \in Fields(numLevels, Datum) /\ field \in Fields(numLevels, Value \cup {Zero})
  BY <1>5 DEF Fields, Datum
<1>7. /\ variable \in Variable(n) /\ variable.levels = n /\ variable.by = "LFRic"
      /\ variable.data \in [0..n * Size - 1 -> Value \cup {Zero}]
  BY <1>2, LfricVariableType
<1>8. TypeOK
  BY <1>3, <1>4, <1>6, <1>7, SizeAssumption DEF TypeOK, Done
<1>. QED
  BY <1>3, <1>6, <1>7, <1>8
     DEF IInv, VariableWritten, FieldSetWritten, FieldInStep, NoGarbage

LEMMA ComputeStep ==
    ASSUME IInv, NEW f \in Profiles, Compute(f)
    PROVE  IInv'
<1>1. field' \in Fields(numLevels, Value)
  BY LowerLevelsType DEF Compute, IInv, TypeOK
<1>2. field' \in Fields(numLevels, Datum) /\ field' \in Fields(numLevels, Value \cup {Zero})
  BY <1>1 DEF Fields, Datum
<1>3. TypeOK'
  BY <1>2 DEF Compute, IInv, TypeOK, Done
<1>4. VariableWritten' /\ FieldSetWritten'
  BY DEF Compute, IInv, VariableWritten, FieldSetWritten, WriteLevels, WithoutSurface,
         Misconfigured, getWriteField
<1>5. FieldInStep'
  BY DEF Compute, FieldInStep
<1>6. NoGarbage'
  BY <1>2 DEF Compute, IInv, NoGarbage
<1>. QED BY <1>3, <1>4, <1>5, <1>6 DEF IInv

LEMMA AbortStep == ASSUME IInv, Abort PROVE IInv'
<1>1. TypeOK'
  BY DEF Abort, IInv, TypeOK, Done
<1>2. VariableWritten' /\ FieldSetWritten'
  BY DEF Abort, IInv, VariableWritten, FieldSetWritten, WriteLevels, WithoutSurface,
         Misconfigured, getWriteField
<1>3. FieldInStep'
  BY DEF Abort, FieldInStep
<1>4. NoGarbage'
  BY DEF Abort, IInv, NoGarbage
<1>. QED BY <1>1, <1>2, <1>3, <1>4 DEF IInv

LEMMA WriteStep ==
    ASSUME IInv, NEW lfric \in BOOLEAN, Write(lfric)
    PROVE  IInv'
<1>1. CASE lfric /\ Misconfigured
  BY <1>1, AbortStep DEF Write
<1>2. CASE ~ (lfric /\ Misconfigured)
  <2>. DEFINE n == WriteLevels(lfric)
              g == getWriteField(lfric, field)
              d == populateDataVec(lfricAtlasMap, n, g)
  <2>1. /\ variable' = [levels |-> n, lfric |-> lfric, by |-> "write", data |-> d]
        /\ written' = field /\ last' = "write"
        /\ UNCHANGED <<lfricAtlasMap, noFirstLevel, numLevels, field>>
    BY <1>2 DEF Write
  <2>2. n \in 1..kVerticalFullSize /\ n \in Nat /\ lfricAtlasMap \in [Point -> Point]
    BY LevelTypes, SizeTypes DEF IInv, TypeOK
  <2>3. ASSUME NEW V, field \in Fields(numLevels, V)
        PROVE  d \in [0..n * Size - 1 -> V \cup {Zero}]
    <3>1. g \in Fields(n, V)
      BY <2>3, WriteFieldType DEF IInv
    <3>. QED BY <2>2, <3>1, VectorType
  <2>4. d \in [0..n * Size - 1 -> Datum]
    <3>1. d \in [0..n * Size - 1 -> Datum \cup {Zero}]
      BY <2>3 DEF IInv, TypeOK
    <3>. QED BY <3>1 DEF Datum
  <2>5. variable' \in Variable(n)
    BY <2>1, <2>4 DEF Variable
  <2>6. TypeOK'
    BY <2>1, <2>2, <2>5 DEF IInv, TypeOK, Done
  <2>7. VariableWritten' /\ FieldSetWritten'
    BY <1>2, <2>1 DEF VariableWritten, FieldSetWritten, WriteLevels, WithoutSurface,
                      Misconfigured, getWriteField
  <2>8. FieldInStep'
    BY <2>1 DEF FieldInStep
  <2>9. NoGarbage'
    <3>1. SUFFICES ASSUME IsPermutation(lfricAtlasMap)
                   PROVE  /\ field \in Fields(numLevels, Value \cup {Zero})
                          /\ d \in [0..n * Size - 1 -> Value \cup {Zero}]
      BY <2>1 DEF NoGarbage, IsPermutation
    <3>2. field \in Fields(numLevels, Value \cup {Zero})
      BY <3>1 DEF IInv, NoGarbage
    <3>3. d \in [0..n * Size - 1 -> (Value \cup {Zero}) \cup {Zero}]
      BY <3>2, <2>3
    <3>4. (Value \cup {Zero}) \cup {Zero} = Value \cup {Zero}
      OBVIOUS
    <3>. QED BY <3>2, <3>3, <3>4
  <2>. QED BY <2>6, <2>7, <2>8, <2>9 DEF IInv
<1>. QED BY <1>1, <1>2

LEMMA writeFieldSetStep == ASSUME IInv, writeFieldSet PROVE IInv'
<1>. DEFINE d == populateDataVecInAtlasOrder(numLevels, field)
<1>1. /\ variable' = [levels |-> numLevels, lfric |-> FALSE, by |-> "writeFieldSet", data |-> d]
      /\ written' = field /\ last' = "writeFieldSet"
      /\ UNCHANGED <<lfricAtlasMap, noFirstLevel, numLevels, field>>
  BY DEF writeFieldSet
<1>2. numLevels \in Nat \ {0} /\ numLevels \in 1..kVerticalFullSize
  BY LevelTypes DEF IInv
<1>3. \A V : field \in Fields(numLevels, V) => d \in [0..numLevels * Size - 1 -> V]
  BY <1>2, AtlasOrderType
<1>4. variable' \in Variable(numLevels)
  BY <1>1, <1>3 DEF Variable, IInv, TypeOK
<1>5. TypeOK'
  BY <1>1, <1>2, <1>4 DEF IInv, TypeOK, Done
<1>6. VariableWritten' /\ FieldSetWritten'
  BY <1>1 DEF VariableWritten, FieldSetWritten
<1>7. FieldInStep'
  BY <1>1 DEF FieldInStep
<1>8. NoGarbage'
  BY <1>1, <1>3 DEF IInv, NoGarbage, IsPermutation
<1>. QED BY <1>5, <1>6, <1>7, <1>8 DEF IInv

LEMMA ReadStep == ASSUME IInv, Read PROVE IInv'
<1>1. CASE variable.by = "writeFieldSet" \/ ExceedsSize(variable)
  BY <1>1, AbortStep DEF Read
<1>2. CASE ~ (variable.by = "writeFieldSet" \/ ExceedsSize(variable))
  <2>1. /\ field' = IF Misconfigured THEN field ELSE populateField(variable)
        /\ last' = "read"
        /\ UNCHANGED <<lfricAtlasMap, noFirstLevel, numLevels, variable, written>>
    BY <1>2 DEF Read, populateFieldWithFileData
  <2>2. TypeOK
    BY DEF IInv
  <2>3. field' \in Fields(numLevels, Datum)
    BY <1>2, <2>1, <2>2, PopulateFieldType DEF TypeOK
  <2>4. TypeOK'
    BY <2>1, <2>3 DEF IInv, TypeOK, Done
  <2>5. VariableWritten' /\ FieldSetWritten'
    BY <2>1 DEF IInv, VariableWritten, FieldSetWritten, WriteLevels, WithoutSurface,
                Misconfigured, getWriteField
  <2>6. FieldInStep'
    BY <1>2, <2>1 DEF FieldInStep, ExceedsSize, IndexRead, FirstLevel, WithoutSurface,
                      ReadLevels, Misconfigured, populateField
  <2>7. NoGarbage'
    <3>1. SUFFICES ASSUME IsPermutation(lfricAtlasMap)
                   PROVE  field' \in Fields(numLevels, Value \cup {Zero})
      BY <2>1 DEF IInv, NoGarbage, IsPermutation
    <3>2. CASE Misconfigured
      BY <2>1, <3>1, <3>2 DEF IInv, NoGarbage
    <3>3. CASE ~ Misconfigured
      <4>1. SUFFICES ASSUME NEW i \in Point, NEW l \in Level(ReadLevels)
                     PROVE  DatumAt(variable, IndexRead(i, l)) \in Value \cup {Zero}
        BY <2>1, <2>2, <3>3, LevelTypes DEF populateField, Fields
      <4>2. IndexRead(i, l) \in 0..variable.levels * Size - 1
        BY <1>2, <2>2, <3>1, ReadWithin
      <4>3. variable.levels * Size \in Nat
        BY <2>2, SizeTypes, LevelTypes
      <4>4. DatumAt(variable, IndexRead(i, l)) = variable.data[IndexRead(i, l)]
        BY <4>2, <4>3 DEF DatumAt
      <4>. QED BY <3>1, <4>2, <4>4 DEF IInv, NoGarbage
    <3>. QED BY <3>2, <3>3
  <2>. QED BY <2>4, <2>5, <2>6, <2>7 DEF IInv
<1>. QED BY <1>1, <1>2

LEMMA NextInv == IInv /\ [Next]_vars => IInv'
<1>. SUFFICES ASSUME IInv, [Next]_vars PROVE IInv'
  OBVIOUS
<1>1. CASE \E f \in Profiles : Compute(f)
  BY <1>1, ComputeStep
<1>2. CASE \E lfric \in BOOLEAN : Write(lfric)
  BY <1>2, WriteStep
<1>3. CASE writeFieldSet
  BY <1>3, writeFieldSetStep
<1>4. CASE Read
  BY <1>4, ReadStep
<1>5. CASE UNCHANGED vars
  <2>1. TypeOK'
    BY <1>5 DEF vars, IInv, TypeOK
  <2>2. VariableWritten' /\ FieldSetWritten'
    BY <1>5 DEF vars, IInv, VariableWritten, FieldSetWritten, WriteLevels, WithoutSurface,
                Misconfigured, getWriteField
  <2>3. FieldInStep'
    BY <1>5 DEF vars, IInv, FieldInStep, ExceedsSize, IndexRead, FirstLevel, WithoutSurface,
                ReadLevels, Misconfigured, populateField
  <2>4. NoGarbage'
    BY <1>5 DEF vars, IInv, NoGarbage, IsPermutation
  <2>. QED BY <2>1, <2>2, <2>3, <2>4 DEF IInv
<1>. QED BY <1>1, <1>2, <1>3, <1>4, <1>5 DEF Next

\* IInv holds after any sequence of calls.
THEOREM Invariance == Spec => []IInv
<1>1. Init => IInv
  BY InitInv
<1>2. IInv /\ [Next]_vars => IInv'
  BY NextInv
<1>. QED BY <1>1, <1>2, PTL DEF Spec
----------------------------------------------------------------------------
(* What the invariant implies. *)

\* What a write took from the field is, for some point with the same index, where a
\* read looks for it.
LEMMA WrittenColumn ==
    ASSUME IInv, variable.by = "write", NEW i \in Point
    PROVE  \E j \in Point :
              /\ lfricAtlasMap[j] = lfricAtlasMap[i]
              /\ \A l \in Level(numLevels) :
                    DatumAt(variable, Index(lfricAtlasMap, i,
                                            l + FirstLevel(variable.lfric, numLevels)))
                      = written[j][l]
<1>. DEFINE lfric == variable.lfric
            n == WriteLevels(lfric)
            m(l) == l + FirstLevel(lfric, numLevels)
            g == getWriteField(lfric, written)
<1>1. /\ TypeOK /\ lfricAtlasMap \in [Point -> Point] /\ n \in Nat /\ n # 0
      /\ numLevels \in Nat /\ lfric \in BOOLEAN
  BY LevelTypes, SizeTypes DEF IInv, TypeOK
<1>2. variable.levels = n /\ variable.data = populateDataVec(lfricAtlasMap, n, g)
  BY DEF IInv, VariableWritten
<1>3. ASSUME NEW l \in Level(numLevels), NEW j \in Point
      PROVE  m(l) \in Level(n) /\ g[j][m(l)] = written[j][l]
  <2>1. CASE WithoutSurface(lfric, numLevels)
    <3>1. m(l) = l + 1 /\ n = kVerticalFullSize /\ numLevels = kVerticalFullSize - 1
      BY <2>1, SizeTypes DEF WithoutSurface, FirstLevel, WriteLevels
    <3>2. l \in Nat /\ m(l) \in Level(kVerticalFullSize) /\ m(l) # 0 /\ m(l) - 1 = l
      BY <3>1, SizeTypes DEF Level
    <3>. QED BY <2>1, <3>1, <3>2 DEF getWriteField, copySurfaceLevel
  <2>2. CASE ~ WithoutSurface(lfric, numLevels)
    <3>1. m(l) = l
      BY <1>1, <2>2 DEF FirstLevel, Level
    <3>. QED BY <2>2, <3>1 DEF getWriteField, WriteLevels
  <2>. QED BY <2>1, <2>2
<1>4. PICK j \in Point :
         /\ lfricAtlasMap[j] = lfricAtlasMap[i]
         /\ \A k \in Level(n) :
               populateDataVec(lfricAtlasMap, n, g)[Index(lfricAtlasMap, i, k)] = g[j][k]
  <2>. HIDE DEF n, g
  <2>. QED BY <1>1, VectorColumn
<1>5. ASSUME NEW l \in Level(numLevels)
      PROVE  DatumAt(variable, Index(lfricAtlasMap, i, m(l))) = written[j][l]
  <2>1. Index(lfricAtlasMap, i, m(l)) \in 0..n * Size - 1
    BY <1>1, <1>3, IndexType
  <2>2. n * Size \in Nat
    BY <1>1, SizeTypes
  <2>3. DatumAt(variable, Index(lfricAtlasMap, i, m(l)))
          = variable.data[Index(lfricAtlasMap, i, m(l))]
    BY <1>2, <2>1, <2>2 DEF DatumAt
  <2>. QED BY <1>2, <1>3, <1>4, <2>3
<1>. QED BY <1>4, <1>5

\* With a permutation, that point is the point itself.
LEMMA WrittenAt ==
    ASSUME IInv, variable.by = "write", IsPermutation(lfricAtlasMap),
           NEW i \in Point, NEW l \in Level(numLevels)
    PROVE  DatumAt(variable, Index(lfricAtlasMap, i, l + FirstLevel(variable.lfric, numLevels)))
             = written[i][l]
BY WrittenColumn DEF IsPermutation

LEMMA RoundTripInv == IInv => RoundTrip
<1>. SUFFICES ASSUME IInv, last = "read", variable.by = "write", ~ Misconfigured,
                     NEW i \in Point
              PROVE  \E j \in Point : lfricAtlasMap[j] = lfricAtlasMap[i] /\ field[i] = written[j]
  BY DEF RoundTrip
<1>1. ReadLevels = numLevels
  BY LevelTypes DEF IInv
<1>2. field = populateField(variable)
  BY DEF IInv, FieldInStep
<1>3. written \in [Point -> [Level(numLevels) -> Datum]]
  BY DEF IInv, TypeOK, Fields
<1>4. PICK j \in Point :
         /\ lfricAtlasMap[j] = lfricAtlasMap[i]
         /\ \A l \in Level(numLevels) : DatumAt(variable, IndexRead(i, l)) = written[j][l]
  BY <1>1, WrittenColumn DEF IndexRead
<1>5. field[i] = [l \in Level(numLevels) |-> written[j][l]]
  BY <1>1, <1>2, <1>4 DEF populateField
<1>. QED BY <1>3, <1>4, <1>5

LEMMA SelfInverse ==
    ASSUME NEW map \in [Point -> Point], IsSelfInverse(map)
    PROVE  IsPermutation(map)
BY DEF IsSelfInverse, IsPermutation

LEMMA AtItsPointInv == IInv => AtItsPoint
<1>. SUFFICES ASSUME IInv, last \in {"read", "write"}, IsSelfInverse(lfricAtlasMap),
                     ~ (last = "read" /\ Misconfigured),
                     NEW p \in Point, NEW l \in Level(numLevels)
              PROVE  field[lfricAtlasMap[p]][l] = ValueAt(FileLevel(l), p)
  BY DEF AtItsPoint
<1>. DEFINE i == lfricAtlasMap[p]
            m == l + FirstLevel(variable.lfric, numLevels)
<1>1. TypeOK /\ lfricAtlasMap \in [Point -> Point] /\ numLevels \in Nat
  BY LevelTypes DEF IInv, TypeOK
<1>2. i \in Point /\ lfricAtlasMap[i] = p /\ IsPermutation(lfricAtlasMap)
  BY <1>1, SelfInverse DEF IsSelfInverse
<1>3. m = FileLevel(l) /\ m \in Nat
  BY <1>1 DEF FileLevel, FirstLevel, WithoutSurface, Level
<1>4. Index(lfricAtlasMap, i, m) = FileLevel(l) * Size + p
  BY <1>2, <1>3, SizeTypes DEF Index, Point
<1>5. field[i][l] = DatumAt(variable, Index(lfricAtlasMap, i, m))
  <2>1. CASE last = "read"
    <3>1. ReadLevels = numLevels /\ field = populateField(variable)
      BY <1>1, <2>1, LevelTypes DEF IInv, FieldInStep
    <3>. QED BY <1>2, <3>1 DEF populateField, IndexRead
  <2>2. CASE last = "write"
    <3>1. variable.by = "write" /\ field = written
      BY <2>2 DEF IInv, FieldInStep
    <3>. QED BY <1>2, <3>1, WrittenAt
  <2>. QED BY <2>1, <2>2
<1>. QED BY <1>4, <1>5 DEF ValueAt

LEMMA WholeVariableInv == IInv => WholeVariable
<1>. SUFFICES ASSUME IInv, variable.by # "LFRic", IsPermutation(lfricAtlasMap),
                     NEW k \in DOMAIN variable.data
              PROVE  \E i \in Point, l \in Level(numLevels) : variable.data[k] = written[i][l]
  BY DEF WholeVariable
<1>1. /\ TypeOK /\ lfricAtlasMap \in [Point -> Point] /\ numLevels \in Nat \ {0}
      /\ k \in 0..variable.levels * Size - 1
      /\ variable.by \in {"LFRic", "write", "writeFieldSet"} /\ variable.lfric \in BOOLEAN
      /\ written \in Fields(numLevels, Datum)
  BY LevelTypes DEF IInv, TypeOK
<1>2. CASE variable.by = "write"
  <2>. DEFINE lfric == variable.lfric
              n == WriteLevels(lfric)
              g == getWriteField(lfric, written)
  <2>1. n \in Nat /\ variable.levels = n /\ variable.data = populateDataVec(lfricAtlasMap, n, g)
    BY <1>1, <1>2, LevelTypes, SizeTypes DEF IInv, VariableWritten
  <2>2. PICK i \in Point, m \in Level(n) : variable.data[k] = g[i][m]
    <3>. HIDE DEF n, g
    <3>. QED BY <1>1, <2>1, VectorFull
  <2>3. CASE WithoutSurface(lfric, numLevels)
    <3>1. n = kVerticalFullSize /\ numLevels = kVerticalFullSize - 1
      BY <2>3, SizeTypes DEF WithoutSurface, WriteLevels
    <3>2. (IF m = 0 THEN 0 ELSE m - 1) \in Level(numLevels)
      BY <3>1, SizeTypes DEF Level
    <3>3. g[i][m] = written[i][IF m = 0 THEN 0 ELSE m - 1]
      BY <2>3, <3>1 DEF getWriteField, copySurfaceLevel
    <3>. QED BY <2>2, <3>2, <3>3
  <2>4. CASE ~ WithoutSurface(lfric, numLevels)
    BY <2>2, <2>4 DEF getWriteField, WriteLevels
  <2>. QED BY <2>3, <2>4
<1>3. CASE variable.by = "writeFieldSet"
  <2>1. variable.levels = numLevels
        /\ variable.data = populateDataVecInAtlasOrder(numLevels, written)
    BY <1>3 DEF IInv, FieldSetWritten
  <2>. QED BY <1>1, <2>1, AtlasOrderType
<1>. QED BY <1>1, <1>2, <1>3

LEMMA ReadStaysInDataInv == IInv => ReadStaysInData
BY ValueAssumption DEF IInv, NoGarbage, ReadStaysInData, Fields
----------------------------------------------------------------------------
(* The properties of FieldLayout. *)

\* Type correctness.
THEOREM TypeCorrect == Spec => []TypeOK
<1>1. IInv => TypeOK
  BY DEF IInv
<1>. QED BY <1>1, Invariance, PTL

\* A field that is written and read back has at each point the column written for it,
\* or for a point with the same index, for any number of points and levels and any map.
THEOREM RoundTrips == Spec => []RoundTrip
BY RoundTripInv, Invariance, PTL

\* With a map that is its own inverse, field and file agree at every point.
THEOREM ValuesAtTheirPoints == Spec => []AtItsPoint
BY AtItsPointInv, Invariance, PTL

\* A write leaves no part of its variable unwritten.
THEOREM VariablesWhole == Spec => []WholeVariable
BY WholeVariableInv, Invariance, PTL

\* No value from past the end of a vector gets into a field.
THEOREM ReadsStayInData == Spec => []ReadStaysInData
BY ReadStaysInDataInv, Invariance, PTL
=============================================================================
