-------------------------- MODULE StateFileProofs --------------------------
(***************************************************************************)
(* Proofs, for any files, grids and dates, about what Monio takes from a   *)
(* state file before a field is filled.                                    *)
(***************************************************************************)
EXTENDS StateFileInvariant, Recursion, TLAPS
----------------------------------------------------------------------------
(* Positions. *)

\* There is a point that is closest.
LEMMA Closest ==
    ASSUME NEW c \in Coord
    PROVE  /\ closestPoint(c) \in Point
           /\ \A j \in Point : Distance[c, AtlasCoords[closestPoint(c)]] <= Distance[c, AtlasCoords[j]]
<1> DEFINE distances == {Distance[c, AtlasCoords[j]] : j \in Point}
<1>1. distances \subseteq Nat /\ distances # {}
  <2>1. \A j \in Point : Distance[c, AtlasCoords[j]] \in Nat
    BY FileAssumption, MetricAssumption
  <2>2. 0 \in Point
    BY FileAssumption DEF Point
  <2> QED
    BY <2>1, <2>2
<1>2. \E i \in Point : \A j \in Point : Distance[c, AtlasCoords[i]] <= Distance[c, AtlasCoords[j]]
  <2>1. PICK n \in distances : \A k \in distances : n <= k
    <3> HIDE DEF distances
    <3> QED BY <1>1, LeastNumber
  <2> QED
    BY <2>1
<1> QED
  BY <1>2 DEF closestPoint

\* The point that a position is next to is the one that is closest: to any other the way
\* would be shorter by the position than straight.
LEMMA ClosestIsNext ==
    ASSUME NEW c \in Coord, NEW i \in Point, NextTo(c, i)
    PROVE  closestPoint(c) = i
<1> DEFINE j == closestPoint(c)
<1>1. j \in Point /\ Distance[c, AtlasCoords[j]] <= Distance[c, AtlasCoords[i]]
  BY Closest
<1> HIDE DEF j
<1>2. AtlasCoords[i] \in Coord /\ AtlasCoords[j] \in Coord
  BY <1>1, FileAssumption
<1> DEFINE toI == Distance[c, AtlasCoords[i]]
           toJ == Distance[c, AtlasCoords[j]]
           between == Distance[AtlasCoords[i], AtlasCoords[j]]
<1>3. between <= toI + toJ
  <2>1. between <= Distance[AtlasCoords[i], c] + toJ
    BY <1>2, MetricAssumption
  <2>2. Distance[AtlasCoords[i], c] = toI
    BY <1>2, MetricAssumption
  <2> QED
    BY <2>1, <2>2
<1>4. toI \in Nat /\ toJ \in Nat /\ between \in Nat
  BY <1>2, MetricAssumption
<1>5. j # i => 2 * toI < between
  BY <1>1 DEF NextTo
<1>6. toJ <= toI
  BY <1>1
<1> HIDE DEF toI, toJ, between
<1>7. j = i
  BY <1>3, <1>4, <1>5, <1>6
<1> QED
  BY <1>7 DEF j

\* The coordinates of a file, longitudes first.
LEMMA CoordsOfFile ==
    ASSUME NEW file \in Files
    PROVE  LET coords == getLfricCoords(file, getCoordData(kLfricCoordVarNames))
           IN  /\ coords \in [Point -> Coord]
               /\ \A p \in Point : coords[p] = <<file.Mesh2d_face_x[p], file.Mesh2d_face_y[p]>>
<1> DEFINE names == getCoordData(kLfricCoordVarNames)
<1>1. names[1] = "Mesh2d_face_x" /\ names[2] = "Mesh2d_face_y"
  <2>1. /\ Contains(kLfricCoordVarNames, "Mesh2d_face_x")
        /\ Contains(kLfricCoordVarNames, "Mesh2d_face_y")
    BY DEF Contains, kLfricCoordVarNames, kLfricLonVarName, kLfricLatVarName
  <2>2. names = <<"Mesh2d_face_x">> \o <<"Mesh2d_face_y">>
    BY <2>1 DEF getCoordData
  <2>3. \A x, y : (<<x>> \o <<y>>)[1] = x /\ (<<x>> \o <<y>>)[2] = y
    OBVIOUS
  <2> HIDE DEF names
  <2> QED
    BY <2>2, <2>3
<1>2. \A p \in Point : <<file.Mesh2d_face_x[p], file.Mesh2d_face_y[p]>> \in Coord
  BY FileAssumption
<1> QED
  BY <1>1, <1>2 DEF getLfricCoords

LEMMA MapType ==
    ASSUME NEW coords \in [Point -> Coord]
    PROVE  createLfricAtlasMap(coords) \in [Point -> Point]
BY Closest DEF createLfricAtlasMap
----------------------------------------------------------------------------
(* Dates. *)

LEMMA DatesType ==
    ASSUME NEW file \in Files
    PROVE  createDateTimes(file) \in Seq(Nat)
<1>1. file.times \in Seq(Nat)
  BY FileAssumption DEF File
<1>2. \A t \in Nat : Rounded(t) \in Nat
  BY DEF Rounded
<1>3. Len(file.times) \in Nat /\ \A i \in 1..Len(file.times) : Rounded(file.times[i]) \in Nat
  <2>1. Len(file.times) \in Nat /\ \A i \in 1..Len(file.times) : file.times[i] \in Nat
    BY <1>1
  <2> QED
    BY <1>2, <2>1
<1>4. createDateTimes(file) \in [1..Len(file.times) -> Nat]
  BY <1>3 DEF createDateTimes
<1> QED
  BY <1>3, <1>4

\* The step of a date is that of the first time that has the date.
LEMMA StepFound ==
    ASSUME NEW date, dateTimes \in Seq(Nat), Contains(dateTimes, date)
    PROVE  /\ findTimeStep(date) \in 0..Len(dateTimes) - 1
           /\ dateTimes[findTimeStep(date) + 1] = date
<1> DEFINE n == Len(dateTimes)
           places == {i \in 1..n : dateTimes[i] = date}
           First(i) == dateTimes[i] = date /\ \A j \in 1..i - 1 : dateTimes[j] # date
           first == CHOOSE i \in 1..n : First(i)
<1>1. n \in Nat
  OBVIOUS
<1>2. places \subseteq Nat /\ places # {}
  BY DEF Contains
<1>3. PICK i \in places : \A j \in places : i <= j
  <2> HIDE DEF places
  <2> QED BY <1>2, LeastNumber
<1>4. i \in 1..n /\ First(i)
  <2>1. \A j \in 1..i - 1 : j \in 1..n /\ ~ (i <= j)
    BY <1>1, <1>3
  <2> QED
    BY <1>3, <2>1
<1>5. first \in 1..n /\ First(first)
  <2> HIDE DEF First
  <2> QED BY <1>4
<1>6. findTimeStep(date) = first - 1
  BY DEF findTimeStep
<1> HIDE DEF first
<1> QED
  BY <1>1, <1>5, <1>6
----------------------------------------------------------------------------
(* Products. *)

\* The product of a sequence is the last of the products of its beginnings.
LEMMA ProductGoes ==
    ASSUME NEW s \in Seq(Nat)
    PROVE  \E p : /\ p[0] = 1 /\ \A i \in 1..Len(s) : p[i] = p[i - 1] * s[i]
                  /\ \A i \in 0..Len(s) : p[i] \in Nat
                  /\ Product(s) = p[Len(s)]
<1> DEFINE p == CHOOSE p : IsProduct(p, Len(s), s)
<1>1. Len(s) \in Nat /\ s \in [1..Len(s) -> Nat]
  OBVIOUS
<1>2. Product(s) = p[Len(s)]
  BY DEF Product, IsProduct
<1>3. IsProduct(p, Len(s), s)
  BY <1>1, ProductExists
<1> HIDE DEF p
<1>4. /\ p[0] = 1 /\ \A i \in 1..Len(s) : p[i] = p[i - 1] * s[i]
      /\ \A i \in 0..Len(s) : p[i] \in Nat
  BY <1>1, <1>3, ProductType
<1> QED
  BY <1>2, <1>4

LEMMA ProductNat ==
    ASSUME NEW s \in Seq(Nat)
    PROVE  Product(s) \in Nat
<1>1. Len(s) \in 0..Len(s)
  OBVIOUS
<1> QED
  BY <1>1, ProductGoes

\* Products of at most three numbers.
LEMMA ShortProducts ==
    ASSUME NEW s \in Seq(Nat)
    PROVE  /\ Len(s) = 0 => Product(s) = 1
           /\ Len(s) = 1 => Product(s) = s[1]
           /\ Len(s) = 2 => Product(s) = s[1] * s[2]
           /\ Len(s) = 3 => Product(s) = s[1] * s[2] * s[3]
<1>1. PICK p : /\ p[0] = 1 /\ \A i \in 1..Len(s) : p[i] = p[i - 1] * s[i]
               /\ \A i \in 0..Len(s) : p[i] \in Nat
               /\ Product(s) = p[Len(s)]
  BY ProductGoes
<1>2. \A i \in 1..Len(s) : s[i] \in Nat
  OBVIOUS
<1>3. CASE Len(s) = 0
  BY <1>1, <1>3
<1>4. CASE Len(s) = 1
  BY <1>1, <1>2, <1>4
<1>5. CASE Len(s) = 2
  <2>1. s[1] \in Nat /\ p[1] = p[0] * s[1] /\ p[2] = p[1] * s[2]
    BY <1>1, <1>2, <1>5
  <2> QED
    BY <1>1, <1>5, <2>1
<1>6. CASE Len(s) = 3
  <2>1. s[1] \in Nat /\ p[1] = p[0] * s[1] /\ p[2] = p[1] * s[2] /\ p[3] = p[2] * s[3]
    BY <1>1, <1>2, <1>6
  <2> QED
    BY <1>1, <1>6, <2>1
<1> QED
  BY <1>3, <1>4, <1>5, <1>6

\* What a product is of depends on the numbers only, and a one in front changes nothing.
LEMMA OneInFront ==
    ASSUME NEW s \in Seq(Nat), NEW t \in Seq(Nat),
           Len(t) = Len(s) + 1, t[1] = 1, \A i \in 1..Len(s) : t[i + 1] = s[i]
    PROVE  Product(t) = Product(s)
<1>1. PICK p : /\ p[0] = 1 /\ \A i \in 1..Len(s) : p[i] = p[i - 1] * s[i]
               /\ \A i \in 0..Len(s) : p[i] \in Nat
               /\ Product(s) = p[Len(s)]
  BY ProductGoes
<1>2. PICK q : /\ q[0] = 1 /\ \A i \in 1..Len(t) : q[i] = q[i - 1] * t[i]
               /\ \A i \in 0..Len(t) : q[i] \in Nat
               /\ Product(t) = q[Len(t)]
  BY ProductGoes
<1> DEFINE Same == {i \in 0..Len(s) : q[i + 1] = p[i]}
<1>3. Len(s) \in Nat
  OBVIOUS
<1>4. 0 \in Same
  <2>1. 1 \in 1..Len(t) /\ 1 - 1 = 0 /\ 0 + 1 = 1 /\ 0 \in 0..Len(s)
    BY <1>3
  <2>2. q[1] = q[0] * t[1]
    BY <1>2, <2>1
  <2> QED
    BY <1>1, <1>2, <2>1, <2>2
<1>5. ASSUME NEW i \in 1..Len(s), i - 1 \in Same
      PROVE  i \in Same
  <2>1. q[i] = p[i - 1]
    BY <1>5
  <2>2. q[i + 1] = q[i] * t[i + 1]
    <3>1. i + 1 \in 1..Len(t) /\ (i + 1) - 1 = i
      BY <1>3
    <3> QED
      BY <1>2, <3>1
  <2>3. p[i] = p[i - 1] * s[i] /\ t[i + 1] = s[i] /\ i \in 0..Len(s)
    BY <1>1
  <2> QED
    BY <2>1, <2>2, <2>3
<1>6. Len(s) \in Same
  <2>1. Len(s) \in 0..Len(s)
    OBVIOUS
  <2> HIDE DEF Same
  <2> QED
    BY <1>3, <1>4, <1>5, <2>1, Induction
<1> QED
  BY <1>1, <1>2, <1>6

\* The product of a beginning, of positive numbers, is no greater.
LEMMA ProductOfPrefix ==
    ASSUME NEW s \in Seq(Nat), NEW m \in 0..Len(s), \A i \in 1..Len(s) : s[i] > 0
    PROVE  /\ Product(SubSeq(s, 1, m)) \in Nat /\ Product(SubSeq(s, 1, m)) <= Product(s)
           /\ m = Len(s) => Product(SubSeq(s, 1, m)) = Product(s)
<1> DEFINE t == SubSeq(s, 1, m)
<1>1. /\ Len(s) \in Nat /\ m \in Nat /\ t \in Seq(Nat) /\ Len(t) = m
      /\ \A i \in 1..m : t[i] = s[i] /\ i \in 1..Len(s)
  OBVIOUS
<1> HIDE DEF t
<1>2. PICK p : /\ p[0] = 1 /\ \A i \in 1..Len(s) : p[i] = p[i - 1] * s[i]
               /\ \A i \in 0..Len(s) : p[i] \in Nat
               /\ Product(s) = p[Len(s)]
  BY ProductGoes
<1>3. PICK q : /\ q[0] = 1 /\ \A i \in 1..Len(t) : q[i] = q[i - 1] * t[i]
               /\ \A i \in 0..Len(t) : q[i] \in Nat
               /\ Product(t) = q[Len(t)]
  BY <1>1, ProductGoes
<1> DEFINE Same == {i \in 0..m : q[i] = p[i]}
           Below == {i \in 0..Len(s) : i >= m => p[m] <= p[i]}
<1>4. \A i \in 0..m : i \in Same
  <2>1. 0 \in Same
    BY <1>1, <1>2, <1>3
  <2>2. ASSUME NEW i \in 1..m, i - 1 \in Same
        PROVE  i \in Same
    <3>1. q[i - 1] = p[i - 1] /\ i \in 0..m
      BY <2>2
    <3>2. q[i] = q[i - 1] * t[i] /\ p[i] = p[i - 1] * s[i] /\ t[i] = s[i]
      BY <1>1, <1>2, <1>3
    <3> QED
      BY <3>1, <3>2
  <2> HIDE DEF Same
  <2> QED
    BY <1>1, <2>1, <2>2, Induction
<1>5. \A i \in 0..Len(s) : i \in Below
  <2>1. 0 \in Below
    BY <1>1, <1>2
  <2>2. ASSUME NEW i \in 1..Len(s), i - 1 \in Below
        PROVE  i \in Below
    <3>1. i \in 0..Len(s) /\ i - 1 \in 0..Len(s) /\ i \in Nat
      BY <1>1
    <3>2. p[i] = p[i - 1] * s[i] /\ s[i] \in Nat /\ s[i] > 0
      BY <1>2
    <3>3. p[i - 1] \in Nat /\ p[i] \in Nat /\ p[m] \in Nat
      BY <1>1, <1>2, <3>1
    <3>4. p[i - 1] <= p[i]
      <4>1. \A a \in Nat : \A b \in Nat : b > 0 => a <= a * b
        OBVIOUS
      <4> QED BY <3>2, <3>3, <4>1
    <3>5. CASE i = m
      BY <3>1, <3>3, <3>5
    <3>6. CASE i # m /\ i >= m
      <4>1. i - 1 >= m
        BY <1>1, <3>1, <3>6
      <4>2. p[m] <= p[i - 1]
        BY <2>2, <4>1
      <4> QED
        BY <3>1, <3>3, <3>4, <4>2
    <3>7. CASE ~ (i >= m)
      BY <3>1, <3>7
    <3> QED
      BY <3>5, <3>6, <3>7
  <2> HIDE DEF Below
  <2> QED
    BY <1>1, <2>1, <2>2, Induction
<1>6. m \in Same /\ Len(s) \in Below
  <2>1. m \in 0..m /\ Len(s) \in 0..Len(s)
    BY <1>1
  <2> HIDE DEF Same, Below
  <2> QED BY <1>4, <1>5, <2>1
<1>7. Product(t) = p[m] /\ p[m] \in Nat /\ p[m] <= p[Len(s)]
  BY <1>1, <1>2, <1>3, <1>6
<1> QED
  BY <1>2, <1>7 DEF t
----------------------------------------------------------------------------
(* The dimensions other than time. *)

Others == DimNames \ {"time_counter"}

\* The dimensions kept go from one dimension to the next.
KeepsBy(k, dims) ==
    /\ k[0] = <<>>
    /\ \A i \in 1..Len(dims) :
          k[i] = IF dims[i] = "time_counter" THEN k[i - 1] ELSE Append(k[i - 1], dims[i])
    /\ \A i \in 0..Len(dims) : k[i] \in Seq(Others)

LEMMA WithoutTimeGoes ==
    ASSUME NEW dims \in Seq(DimNames)
    PROVE  \E k : KeepsBy(k, dims) /\ WithoutTime(dims) = k[Len(dims)]
<1> DEFINE N == Len(dims)
           next(s, i) == IF dims[i] = "time_counter" THEN s ELSE Append(s, dims[i])
           IsKept(f) == f = [i \in 0..N |-> IF i = 0 THEN <<>>
                                            ELSE IF dims[i] = "time_counter" THEN f[i - 1]
                                            ELSE Append(f[i - 1], dims[i])]
           k == CHOOSE f : IsKept(f)
           step == [i \in 1..N |-> [s \in Seq(Others) |-> next(s, i)]]
<1>1. N \in Nat /\ \A i \in 1..N : dims[i] \in DimNames
  OBVIOUS
<1>2. WithoutTime(dims) = k[N]
  BY DEF WithoutTime
<1>3. \A i \in 1..N : \A s \in Seq(Others) : next(s, i) \in Seq(Others)
  <2> SUFFICES ASSUME NEW i \in 1..N, NEW s \in Seq(Others) PROVE next(s, i) \in Seq(Others)
    OBVIOUS
  <2>1. dims[i] # "time_counter" => dims[i] \in Others
    BY <1>1 DEF Others
  <2> QED
    BY <2>1
<1>4. \E f : IsKept(f)
  <2>1. step \in [1..N -> [Seq(Others) -> Seq(Others)]]
    <3> HIDE DEF next, N
    <3> QED BY <1>3
  <2>2. PICK f \in [0..N -> Seq(Others)] : GoesBy(f, N, <<>>, step)
    <3>1. <<>> \in Seq(Others)
      OBVIOUS
    <3> HIDE DEF step, N
    <3> QED BY <1>1, <2>1, <3>1, FunctionExists
  <2>3. \A i \in 1..N : i - 1 \in 0..N
    BY <1>1
  <2>4. \A i \in 1..N : f[i] = next(f[i - 1], i)
    <3> HIDE DEF next, N
    <3> QED BY <2>2, <2>3 DEF GoesBy
  <2>5. f[0] = <<>>
    BY <2>2 DEF GoesBy
  <2>6. \A i \in 0..N : f[i] = IF i = 0 THEN <<>>
                               ELSE IF dims[i] = "time_counter" THEN f[i - 1]
                               ELSE Append(f[i - 1], dims[i])
    <3>1. \A i \in 0..N : i # 0 => i \in 1..N
      BY <1>1
    <3> HIDE DEF N
    <3> QED BY <2>4, <2>5, <3>1
  <2>7. f = [i \in 0..N |-> f[i]]
    BY <2>2
  <2>8. IsKept(f)
    <3> HIDE DEF N
    <3> QED BY <2>6, <2>7
  <2> QED
    BY <2>8
<1>5. IsKept(k)
  <2> HIDE DEF IsKept
  <2> QED BY <1>4
<1>6. k[0] = <<>> /\ \A i \in 1..N : k[i] = next(k[i - 1], i)
  <2>1. 0 \in 0..N /\ \A i \in 1..N : i \in 0..N /\ i # 0
    BY <1>1
  <2> HIDE DEF k, N
  <2> QED
    BY <1>5, <2>1
<1> HIDE DEF k, IsKept
<1> DEFINE Right == {m \in 0..N : k[m] \in Seq(Others)}
<1>7. \A m \in 0..N : m \in Right
  <2>1. 0 \in Right
    <3>1. k[0] \in Seq(Others)
      BY <1>6
    <3> QED BY <1>1, <3>1
  <2>2. ASSUME NEW m \in 1..N, m - 1 \in Right
        PROVE  m \in Right
    <3>1. k[m - 1] \in Seq(Others) /\ m \in 0..N
      BY <1>1, <2>2
    <3> HIDE DEF next
    <3> QED
      BY <1>3, <1>6, <3>1
  <2> HIDE DEF Right, N, next
  <2> QED
    BY <1>1, <2>1, <2>2, Induction
<1>8. KeepsBy(k, dims)
  BY <1>6, <1>7 DEF KeepsBy
<1> QED
  BY <1>2, <1>8

\* At most one of the dimensions is left out.
LEMMA WithoutTimeLength ==
    ASSUME NEW dims \in Seq(DimNames), IsInjective(dims)
    PROVE  WithoutTime(dims) \in Seq(Others) /\ Len(WithoutTime(dims)) >= Len(dims) - 1
<1> DEFINE N == Len(dims)
<1>1. PICK k : KeepsBy(k, dims) /\ WithoutTime(dims) = k[N]
  BY WithoutTimeGoes
<1>2. N \in Nat /\ N \in 0..N
  OBVIOUS
<1>3. \A i, j \in 1..N : dims[i] = dims[j] => i = j
  BY DEF IsInjective
<1> DEFINE Seen(m) == \E i \in 1..m : dims[i] = "time_counter"
           Right == {m \in 0..N : /\ Len(k[m]) >= m - 1
                                  /\ ~ Seen(m) => Len(k[m]) >= m}
<1>4. 0 \in Right
  <2>1. Len(k[0]) = 0
    BY <1>1 DEF KeepsBy
  <2> QED
    BY <1>2, <2>1
<1>5. ASSUME NEW m \in 1..N, m - 1 \in Right
      PROVE  m \in Right
  <2>1. m \in 0..N /\ m - 1 \in 0..N /\ m \in Nat
    BY <1>2
  <2>2. k[m - 1] \in Seq(Others)
    BY <1>1, <2>1 DEF KeepsBy
  <2>3. k[m] = IF dims[m] = "time_counter" THEN k[m - 1] ELSE Append(k[m - 1], dims[m])
    BY <1>1 DEF KeepsBy
  <2>4. /\ Len(k[m - 1]) >= (m - 1) - 1
        /\ ~ Seen(m - 1) => Len(k[m - 1]) >= m - 1
    BY <1>5
  <2>5. Len(k[m - 1]) \in Nat
    BY <2>2
  <2>6. Seen(m - 1) => Seen(m)
    BY <2>1
  <2>7. CASE dims[m] = "time_counter"
    <3>1. ~ Seen(m - 1) /\ Seen(m)
      <4>1. \A i \in 1..m - 1 : i \in 1..N /\ i # m
        BY <1>2, <2>1
      <4>2. m \in 1..m
        BY <2>1
      <4> QED
        BY <1>3, <2>7, <4>1, <4>2
    <3>2. k[m] = k[m - 1]
      BY <2>3, <2>7
    <3> HIDE DEF Seen
    <3> QED
      BY <2>1, <2>4, <2>5, <3>1, <3>2
  <2>8. CASE dims[m] # "time_counter"
    <3>1. k[m] = Append(k[m - 1], dims[m])
      BY <2>3, <2>8
    <3>2. Len(k[m]) = Len(k[m - 1]) + 1
      BY <2>2, <3>1
    <3> HIDE DEF Seen
    <3> QED
      BY <2>1, <2>4, <2>5, <2>6, <3>2
  <2> QED
    BY <2>7, <2>8
<1>6. N \in Right
  <2> HIDE DEF Right, N
  <2> QED
    BY <1>2, <1>4, <1>5, Induction
<1>7. k[N] \in Seq(Others)
  BY <1>1, <1>2 DEF KeepsBy
<1> QED
  BY <1>1, <1>6, <1>7
----------------------------------------------------------------------------
(* The vectors that are read. *)

LEMMA SizesType ==
    ASSUME NEW file \in Files
    PROVE  /\ file.dims \in Seq(DimNames) /\ IsInjective(file.dims)
           /\ \A d \in DimNames : DimSize(file, d) \in Nat
           /\ \A d \in Others : DimSize(file, d) \in Nat /\ DimSize(file, d) > 0
           /\ DimSize(file, "full_levels") = Levels /\ DimSize(file, "nMesh2d_face") = Points
<1>1. file.dims \in Seq(DimNames) /\ file.times \in Seq(Nat) /\ IsInjective(file.dims)
  BY FileAssumption DEF File
<1>2. Len(file.times) \in Nat
  BY <1>1
<1>3. /\ DimSize(file, "time_counter") = Len(file.times)
      /\ DimSize(file, "full_levels") = Levels /\ DimSize(file, "nMesh2d_face") = Points
  BY DEF DimSize
<1> QED
  BY <1>1, <1>2, <1>3, FileAssumption DEF DimNames, Others

SizesNoTime(file) ==
    [i \in 1..Len(WithoutTime(file.dims)) |-> DimSize(file, WithoutTime(file.dims)[i])]

\* The counts are one time, then the sizes of the other dimensions.
LEMMA Counts ==
    ASSUME NEW file \in Files
    PROVE  LET sizes == SizesNoTime(file)
               count == countVec(file)
           IN  /\ sizes \in Seq(Nat) /\ Len(sizes) = Len(WithoutTime(file.dims))
               /\ count \in Seq(Nat) /\ Len(count) = Len(sizes) + 1 /\ count[1] = 1
               /\ \A i \in 1..Len(sizes) : count[i + 1] = sizes[i]
               /\ \A i \in 1..Len(count) : count[i] > 0
               /\ varSizeNoTime(file) = Product(sizes)
               /\ Len(file.dims) \in 0..Len(count)
<1> DEFINE W == WithoutTime(file.dims)
           sizes == SizesNoTime(file)
           count == countVec(file)
<1>1. W \in Seq(Others) /\ Len(W) >= Len(file.dims) - 1 /\ Len(file.dims) \in Nat /\ Len(W) \in Nat
  BY SizesType, WithoutTimeLength
<1>2. \A i \in 1..Len(W) : DimSize(file, W[i]) \in Nat /\ DimSize(file, W[i]) > 0
  <2>1. \A i \in 1..Len(W) : W[i] \in Others
    BY <1>1
  <2> HIDE DEF W
  <2> QED BY <2>1, SizesType
<1>3. sizes = [i \in 1..Len(W) |-> DimSize(file, W[i])]
  BY DEF SizesNoTime
<1>4. count = <<1>> \o sizes
  BY DEF countVec, SizesNoTime
<1>5. varSizeNoTime(file) = Product(sizes)
  BY DEF varSizeNoTime, SizesNoTime
<1> HIDE DEF W, sizes, count
<1>6. /\ sizes \in Seq(Nat) /\ Len(sizes) = Len(W)
      /\ \A i \in 1..Len(sizes) : sizes[i] \in Nat /\ sizes[i] > 0
  BY <1>1, <1>2, <1>3
<1>7. /\ count \in Seq(Nat) /\ Len(count) = Len(sizes) + 1 /\ count[1] = 1
      /\ \A i \in 1..Len(sizes) : count[i + 1] = sizes[i]
  BY <1>4, <1>6
<1>8. \A i \in 1..Len(count) : count[i] > 0
  <2> SUFFICES ASSUME NEW i \in 1..Len(count) PROVE count[i] > 0
    OBVIOUS
  <2>1. CASE i = 1
    BY <1>7, <2>1
  <2>2. CASE i # 1
    <3>1. i - 1 \in 1..Len(sizes) /\ (i - 1) + 1 = i
      BY <1>1, <1>6, <1>7, <2>2
    <3>2. count[i] = sizes[i - 1]
      BY <1>7, <3>1
    <3> QED
      BY <1>6, <3>1, <3>2
  <2> QED
    BY <2>1, <2>2
<1>9. Len(file.dims) \in 0..Len(count)
  BY <1>1, <1>6, <1>7
<1> QED
  BY <1>5, <1>6, <1>7, <1>8, <1>9 DEF W, sizes, count

\* A vector of a date fits its container.
LEMMA DatumFits ==
    ASSUME NEW file \in Files, NEW start
    PROVE  /\ varSizeNoTime(file) \in Nat
           /\ DOMAIN getVar(file, start, countVec(file)) \subseteq 0..varSizeNoTime(file) - 1
<1> DEFINE count == countVec(file)
           n == Len(file.dims)
<1>1. Product(SubSeq(count, 1, n)) \in Nat /\ Product(SubSeq(count, 1, n)) <= Product(count)
  BY Counts, ProductOfPrefix
<1>2. Product(count) = varSizeNoTime(file)
  BY Counts, OneInFront
<1>3. varSizeNoTime(file) \in Nat
  BY Counts, ProductNat
<1>4. DOMAIN getVar(file, start, count) = 0..Product(SubSeq(count, 1, n)) - 1
  BY DEF getVar
<1> HIDE DEF count, n
<1>5. DOMAIN getVar(file, start, count) \subseteq 0..varSizeNoTime(file) - 1
  BY <1>1, <1>2, <1>3, <1>4
<1> QED
  BY <1>3, <1>5 DEF count

\* So does the vector of all times.
LEMMA FullFits ==
    ASSUME NEW file \in Files, NEW start, NEW sizes,
           sizes = [i \in 1..Len(file.dims) |-> DimSize(file, file.dims[i])]
    PROVE  /\ Product(sizes) \in Nat
           /\ DOMAIN getVar(file, start, sizes) \subseteq 0..Product(sizes) - 1
<1> DEFINE n == Len(file.dims)
<1>1. n \in Nat /\ \A i \in 1..n : file.dims[i] \in DimNames
  BY SizesType
<1>2. \A i \in 1..n : DimSize(file, file.dims[i]) \in Nat
  BY <1>1, SizesType
<1>3. sizes \in Seq(Nat) /\ Len(sizes) = n
  BY <1>1, <1>2
<1>4. SubSeq(sizes, 1, n) = sizes
  BY <1>1, <1>3
<1>5. Product(sizes) \in Nat
  BY <1>3, ProductNat
<1>6. DOMAIN getVar(file, start, sizes) = 0..Product(SubSeq(sizes, 1, n)) - 1
  BY DEF getVar
<1> QED
  BY <1>4, <1>5, <1>6
----------------------------------------------------------------------------
(* The invariant. *)

\* No file is not a file: it has no points.
LEMMA NoFileIsNone == NoFile \notin Files
<1>1. 0 \in Point
  BY FileAssumption DEF Point
<1>2. ASSUME NoFile \in Files PROVE FALSE
  <2>1. DOMAIN NoFile.Mesh2d_face_x = Point
    BY <1>2, FileAssumption DEF File
  <2>2. NoFile.Mesh2d_face_x = <<>>
    BY DEF NoFile
  <2> QED
    BY <1>1, <2>1, <2>2
<1> QED
  BY <1>2

LEMMA Initially == Init => IInv
<1> SUFFICES ASSUME Init PROVE IInv
  OBVIOUS
<1>1. TypeOK
  <2>1. vector.size = 0 /\ DOMAIN vector.data = {}
    BY DEF Init, NoVector
  <2>2. dateTimes \in Seq(Nat)
    BY DEF Init
  <2>3. opened \in Files \cup {NoFile} /\ lfricAtlasMap \in [Point -> Point] \cup {<<>>}
    BY DEF Init
  <2>4. asked \in Dates \cup {NoDate} /\ aborted \in BOOLEAN
    BY DEF Init
  <2> QED
    BY <2>1, <2>2, <2>3, <2>4 DEF TypeOK
<1>2. MapOfFile /\ DatesOfFile /\ VectorOfDate
  BY DEF Init, MapOfFile, DatesOfFile, VectorOfDate
<1> QED
  BY <1>1, <1>2 DEF IInv

LEMMA AbortKeeps ==
    ASSUME IInv, Abort
    PROVE  IInv'
<1>1. TypeOK'
  BY DEF IInv, TypeOK, Abort
<1>2. MapOfFile' /\ DatesOfFile'
  BY DEF IInv, MapOfFile, DatesOfFile, Abort
<1>3. VectorOfDate'
  BY DEF IInv, VectorOfDate, Abort, findTimeStep
<1> QED
  BY <1>1, <1>2, <1>3 DEF IInv

LEMMA InitialiseKeeps ==
    ASSUME IInv, NEW file \in Files, NEW dates \in BOOLEAN, initialiseFile(file, dates)
    PROVE  IInv'
<1>1. CASE Abort
  BY <1>1, AbortKeeps
<1>2. CASE ~ Abort
  <2> DEFINE coords == getLfricCoords(file, getCoordData(kLfricCoordVarNames))
  <2>1. /\ opened' = file /\ lfricAtlasMap' = createLfricAtlasMap(coords)
        /\ dateTimes' = IF dates THEN createDateTimes(file) ELSE <<>>
        /\ vector' = NoVector /\ asked' = NoDate /\ aborted' = aborted
    BY <1>2 DEF initialiseFile
  <2>2. createLfricAtlasMap(coords) \in [Point -> Point]
    <3>1. coords \in [Point -> Coord]
      BY CoordsOfFile
    <3> HIDE DEF coords
    <3> QED BY <3>1, MapType
  <2>3. createDateTimes(file) \in Seq(Nat)
    BY DatesType
  <2>4. vector'.size = 0 /\ DOMAIN vector'.data = {}
    BY <2>1 DEF NoVector
  <2>5. TypeOK'
    <3>1. lfricAtlasMap' \in [Point -> Point] /\ dateTimes' \in Seq(Nat)
      BY <2>1, <2>2, <2>3
    <3>2. aborted' \in BOOLEAN
      BY <2>1 DEF IInv, TypeOK
    <3> HIDE DEF coords
    <3> QED BY <2>1, <2>4, <3>1, <3>2 DEF TypeOK
  <2>6. MapOfFile'
    BY <2>1 DEF MapOfFile
  <2>7. DatesOfFile'
    BY <2>1 DEF DatesOfFile
  <2>8. VectorOfDate'
    BY <2>1 DEF VectorOfDate
  <2> QED
    BY <2>5, <2>6, <2>7, <2>8 DEF IInv
<1> QED
  BY <1>1, <1>2

LEMMA DatumKeeps ==
    ASSUME IInv, NEW date \in Dates, readDatumAtTime(date)
    PROVE  IInv'
<1>1. CASE Abort
  BY <1>1, AbortKeeps
<1>2. CASE ~ Abort
  <2> DEFINE data == getVar(opened, startVec(opened, findTimeStep(date)), countVec(opened))
  <2>1. /\ Contains(dateTimes, date) /\ opened # NoFile
        /\ vector' = [size |-> varSizeNoTime(opened), data |-> data]
        /\ asked' = date
        /\ UNCHANGED <<opened, lfricAtlasMap, dateTimes, aborted>>
    BY <1>2 DEF readDatumAtTime
  <2>2. opened \in Files
    BY <2>1 DEF IInv, TypeOK
  <2>3. varSizeNoTime(opened) \in Nat /\ DOMAIN data \subseteq 0..varSizeNoTime(opened) - 1
    BY <2>2, DatumFits
  <2> HIDE DEF data
  <2>4. vector'.size = varSizeNoTime(opened) /\ vector'.data = data
    BY <2>1
  <2>5. TypeOK'
    BY <2>1, <2>3, <2>4 DEF IInv, TypeOK
  <2>6. MapOfFile' /\ DatesOfFile'
    BY <2>1 DEF IInv, MapOfFile, DatesOfFile
  <2>7. VectorOfDate'
    <3>1. findTimeStep(date)' = findTimeStep(date)
      BY <2>1 DEF findTimeStep
    <3> QED
      BY <2>1, <3>1 DEF VectorOfDate, data, findTimeStep
  <2> QED
    BY <2>5, <2>6, <2>7 DEF IInv
<1> QED
  BY <1>1, <1>2

LEMMA FullKeeps ==
    ASSUME IInv, readFullDatum
    PROVE  IInv'
<1> DEFINE n == Len(opened.dims)
           sizes == [i \in 1..n |-> DimSize(opened, opened.dims[i])]
           data == getVar(opened, [i \in 1..n |-> 0], sizes)
<1>1. /\ opened # NoFile
      /\ vector' = [size |-> Product(sizes), data |-> data] /\ asked' = NoDate
      /\ UNCHANGED <<opened, lfricAtlasMap, dateTimes, aborted>>
  BY DEF readFullDatum
<1>2. opened \in Files
  BY <1>1 DEF IInv, TypeOK
<1>3. Product(sizes) \in Nat /\ DOMAIN data \subseteq 0..Product(sizes) - 1
  BY <1>2, FullFits
<1> HIDE DEF data, sizes
<1>4. vector'.size = Product(sizes) /\ vector'.data = data
  BY <1>1
<1>5. TypeOK'
  BY <1>1, <1>3, <1>4 DEF IInv, TypeOK
<1>6. MapOfFile' /\ DatesOfFile' /\ VectorOfDate'
  BY <1>1 DEF IInv, MapOfFile, DatesOfFile, VectorOfDate
<1> QED
  BY <1>5, <1>6 DEF IInv

\* Every state has the invariant: the map and the dates are those of the file that is
\* open, and the vector of a date is what its step gives.
LEMMA Invariance == Spec => []IInv
<1>1. Init => IInv
  BY Initially
<1>2. IInv /\ [Next]_vars => IInv'
  <2> SUFFICES ASSUME IInv, [Next]_vars PROVE IInv'
    OBVIOUS
  <2>1. CASE \E file \in Files, dates \in BOOLEAN : initialiseFile(file, dates)
    BY <2>1, InitialiseKeeps
  <2>2. CASE \E date \in Dates : readDatumAtTime(date)
    BY <2>2, DatumKeeps
  <2>3. CASE readFullDatum
    BY <2>3, FullKeeps
  <2>4. CASE UNCHANGED vars
    <3>1. TypeOK' /\ MapOfFile' /\ DatesOfFile'
      BY <2>4 DEF IInv, TypeOK, MapOfFile, DatesOfFile, vars
    <3>2. VectorOfDate'
      BY <2>4 DEF IInv, VectorOfDate, vars, findTimeStep
    <3> QED
      BY <3>1, <3>2 DEF IInv
  <2> QED
    BY <2>1, <2>2, <2>3, <2>4 DEF Next
<1> QED
  BY <1>1, <1>2, PTL DEF Spec

\* Every variable keeps its type; so a vector has no value beyond what its container is
\* made for, of a date or of all times, in any order of the dimensions.
THEOREM TypeCorrect == Spec => []TypeOK
<1>1. IInv => TypeOK
  BY DEF IInv
<1> QED
  BY <1>1, Invariance, PTL

LEMMA PointsFound == IInv => MapFindsPoints
<1> SUFFICES ASSUME IInv, NEW p \in DOMAIN lfricAtlasMap, NEW i \in Point,
                    NextTo(<<opened.Mesh2d_face_x[p], opened.Mesh2d_face_y[p]>>, i)
             PROVE  lfricAtlasMap[p] = i
  BY DEF MapFindsPoints
<1> DEFINE coords == getLfricCoords(opened, getCoordData(kLfricCoordVarNames))
<1>1. opened \in Files /\ lfricAtlasMap = createLfricAtlasMap(coords)
  <2>1. lfricAtlasMap # <<>>
    OBVIOUS
  <2> QED
    BY <2>1 DEF IInv, MapOfFile
<1>2. /\ coords \in [Point -> Coord]
      /\ \A q \in Point : coords[q] = <<opened.Mesh2d_face_x[q], opened.Mesh2d_face_y[q]>>
  BY <1>1, CoordsOfFile
<1> HIDE DEF coords
<1>3. p \in Point /\ lfricAtlasMap[p] = closestPoint(coords[p])
  BY <1>1 DEF createLfricAtlasMap
<1>4. coords[p] \in Coord /\ NextTo(coords[p], i)
  BY <1>2, <1>3
<1>5. closestPoint(coords[p]) = i
  BY <1>4, ClosestIsNext
<1> QED
  BY <1>3, <1>5

\* However fine the grid, at the poles and at the meridian where longitudes start, and in
\* whatever order a file has the points: the map of createLfricAtlasMap gives a point of the
\* file the Atlas point that it is next to, by the metric of the k-d tree.
THEOREM PointsAreFound == Spec => []MapFindsPoints
BY PointsFound, Invariance, PTL
----------------------------------------------------------------------------
(* The part of a variable that belongs to a date. *)

\* The dimensions of a variable of LFRic, other than time.
LEMMA WithoutTimeOf ==
    ASSUME NEW dims \in Seq(DimNames), Len(dims) \in {2, 3},
           \A i \in 1..Len(dims) : dims[i] = "time_counter" <=> i = 1
    PROVE  /\ Len(WithoutTime(dims)) = Len(dims) - 1
           /\ \A i \in 1..Len(dims) - 1 : WithoutTime(dims)[i] = dims[i + 1]
<1>1. PICK k : KeepsBy(k, dims) /\ WithoutTime(dims) = k[Len(dims)]
  BY WithoutTimeGoes
<1>2. /\ 1 \in 1..Len(dims) /\ 2 \in 1..Len(dims) /\ 1 - 1 = 0 /\ 2 - 1 = 1 /\ 3 - 1 = 2
      /\ Len(dims) = 3 => 3 \in 1..Len(dims)
  OBVIOUS
<1>3. k[0] = <<>> /\ k[1] = k[0] /\ k[2] = Append(k[1], dims[2])
  <2>1. dims[1] = "time_counter" /\ dims[2] # "time_counter"
    BY <1>2
  <2>2. /\ k[1] = IF dims[1] = "time_counter" THEN k[1 - 1] ELSE Append(k[1 - 1], dims[1])
        /\ k[2] = IF dims[2] = "time_counter" THEN k[2 - 1] ELSE Append(k[2 - 1], dims[2])
        /\ k[0] = <<>>
    BY <1>1, <1>2 DEF KeepsBy
  <2> QED
    BY <1>2, <2>1, <2>2
<1>4. k[2] = Append(<<>>, dims[2])
  BY <1>3
<1>5. Len(k[2]) = 1 /\ k[2][1] = dims[2] /\ k[2] \in Seq(DimNames)
  BY <1>2, <1>4
<1>6. CASE Len(dims) = 2
  BY <1>1, <1>5, <1>6
<1>7. CASE Len(dims) = 3
  <2>1. k[3] = Append(k[2], dims[3])
    BY <1>1, <1>2, <1>7 DEF KeepsBy
  <2>2. Len(k[3]) = 2 /\ k[3][1] = dims[2] /\ k[3][2] = dims[3]
    BY <1>2, <1>5, <1>7, <2>1
  <2> QED
    BY <1>1, <1>7, <2>2
<1> QED
  BY <1>6, <1>7

LEMMA Part ==
    ASSUME NEW s \in Seq(Nat), NEW a \in 1..Len(s) + 1, NEW b \in a - 1..Len(s)
    PROVE  /\ SubSeq(s, a, b) \in Seq(Nat) /\ Len(SubSeq(s, a, b)) = b - a + 1
           /\ \A i \in 1..b - a + 1 : SubSeq(s, a, b)[i] = s[a + i - 1]
OBVIOUS

\* Where NetCDF takes each value of a vector of a date from.
Slice(file, step, data) ==
    /\ DOMAIN data = 0..varSizeNoTime(file) - 1
    /\ \A k \in DOMAIN data :
          /\ data[k]["time_counter"] = step
          /\ data[k]["nMesh2d_face"] = k % Points
          /\ "full_levels" \in DOMAIN data[k] => data[k]["full_levels"] = k \div Points

LEMMA SliceWithLevels ==
    ASSUME NEW file \in Files, NEW step \in Nat,
           file.dims = <<"time_counter", "full_levels", "nMesh2d_face">>
    PROVE  Slice(file, step, getVar(file, startVec(file, step), countVec(file)))
<1> DEFINE dims == file.dims
           count == countVec(file)
           start == startVec(file, step)
           data == getVar(file, start, count)
           position == [d \in ToSet(dims) |-> CHOOSE i \in 1..Len(dims) : dims[i] = d]
           stride(i) == Product(SubSeq(count, i + 1, Len(dims)))
<1>1. /\ Len(dims) = 3 /\ dims[1] = "time_counter" /\ dims[2] = "full_levels"
      /\ dims[3] = "nMesh2d_face"
  OBVIOUS
<1> DEFINE W == WithoutTime(dims)
           sizes == SizesNoTime(file)
<1>2. Len(W) = 2 /\ W[1] = "full_levels" /\ W[2] = "nMesh2d_face"
  <2>1. dims \in Seq(DimNames) /\ \A i \in 1..Len(dims) : dims[i] = "time_counter" <=> i = 1
    <3>1. dims \in Seq(DimNames)
      BY SizesType
    <3>2. 1..Len(dims) = {1, 2, 3}
      BY <1>1
    <3> QED
      BY <1>1, <3>1, <3>2
  <2> HIDE DEF dims
  <2>2. Len(W) = Len(dims) - 1 /\ \A i \in 1..Len(dims) - 1 : W[i] = dims[i + 1]
    BY <1>1, <2>1, WithoutTimeOf
  <2>3. 1 \in 1..Len(dims) - 1 /\ 2 \in 1..Len(dims) - 1 /\ 1 + 1 = 2 /\ 2 + 1 = 3
    BY <1>1
  <2> HIDE DEF W
  <2> QED
    BY <1>1, <2>2, <2>3
<1>3. Points \in Nat \ {0} /\ Levels \in Nat \ {0}
  BY FileAssumption
<1>4. /\ count \in Seq(Nat) /\ Len(count) = 3
      /\ count[1] = 1 /\ count[2] = Levels /\ count[3] = Points
  <2>1. sizes = [i \in 1..Len(W) |-> DimSize(file, W[i])]
    BY DEF SizesNoTime
  <2>2. DimSize(file, "full_levels") = Levels /\ DimSize(file, "nMesh2d_face") = Points
    BY SizesType
  <2>3. /\ count \in Seq(Nat) /\ Len(count) = Len(sizes) + 1 /\ count[1] = 1
        /\ \A i \in 1..Len(sizes) : count[i + 1] = sizes[i]
        /\ Len(sizes) = Len(W)
    BY Counts
  <2> HIDE DEF count, W, sizes
  <2>4. sizes[1] = Levels /\ sizes[2] = Points
    BY <1>2, <2>1, <2>2
  <2>5. count[1 + 1] = sizes[1] /\ count[2 + 1] = sizes[2]
    BY <1>2, <2>3
  <2> QED
    BY <1>2, <2>3, <2>4, <2>5
<1>5. start[1] = step /\ start[2] = 0 /\ start[3] = 0
  <2>1. start = <<step>> \o [i \in 1..Len(W) |-> 0]
    BY DEF startVec
  <2> HIDE DEF start, W
  <2> QED
    BY <1>2, <2>1
<1>6. /\ ToSet(dims) = {"time_counter", "full_levels", "nMesh2d_face"}
      /\ position["time_counter"] = 1 /\ position["full_levels"] = 2 /\ position["nMesh2d_face"] = 3
  <2>1. 1..Len(dims) = {1, 2, 3}
    BY <1>1
  <2>2. ToSet(dims) = {"time_counter", "full_levels", "nMesh2d_face"}
    <3>1. ToSet(dims) = {dims[i] : i \in 1..Len(dims)}
      BY DEF ToSet
    <3> QED
      BY <1>1, <2>1, <3>1
  <2>3. /\ (CHOOSE i \in 1..Len(dims) : dims[i] = "time_counter") = 1
        /\ (CHOOSE i \in 1..Len(dims) : dims[i] = "full_levels") = 2
        /\ (CHOOSE i \in 1..Len(dims) : dims[i] = "nMesh2d_face") = 3
    BY <1>1, <2>1
  <2> QED
    BY <2>2, <2>3
<1>7. data = [k \in 0..Product(SubSeq(count, 1, Len(dims))) - 1 |->
                 [d \in ToSet(dims) |->
                    start[position[d]] + ((k \div stride(position[d])) % count[position[d]])]]
  BY DEF getVar
<1>8. varSizeNoTime(file) = Levels * Points
  <2>1. varSizeNoTime(file) = Product(count)
    BY Counts, OneInFront
  <2> HIDE DEF count
  <2>2. Product(count) = 1 * Levels * Points
    BY <1>4, ShortProducts
  <2> QED
    BY <1>3, <2>1, <2>2
<1> HIDE DEF count, start, data, position, dims, W, sizes
<1>9. Product(SubSeq(count, 1, Len(dims))) = Levels * Points
  <2>1. SubSeq(count, 1, 3) = count
    BY <1>4
  <2>2. SubSeq(count, 1, Len(dims)) = count
    BY <1>1, <2>1
  <2>3. Product(count) = 1 * Levels * Points
    BY <1>4, ShortProducts
  <2>4. 1 * Levels * Points = Levels * Points
    BY <1>3
  <2> QED
    BY <2>2, <2>3, <2>4
<1>10. stride(1) = Levels * Points /\ stride(2) = Points /\ stride(3) = 1
  <2> DEFINE two == SubSeq(count, 2, 3)
             one == SubSeq(count, 3, 3)
             none == SubSeq(count, 4, 3)
  <2>1. two \in Seq(Nat) /\ Len(two) = 2 /\ \A i \in 1..2 : two[i] = count[2 + i - 1]
    <3>1. 2 \in 1..Len(count) + 1 /\ 3 \in 2 - 1..Len(count) /\ 3 - 2 + 1 = 2
      BY <1>4
    <3> HIDE DEF two
    <3>2. /\ two \in Seq(Nat) /\ Len(two) = 3 - 2 + 1
          /\ \A i \in 1..3 - 2 + 1 : two[i] = count[2 + i - 1]
      BY <1>4, <3>1, Part DEF two
    <3> QED
      BY <3>1, <3>2
  <2>2. one \in Seq(Nat) /\ Len(one) = 1 /\ \A i \in 1..1 : one[i] = count[3 + i - 1]
    <3>1. 3 \in 1..Len(count) + 1 /\ 3 \in 3 - 1..Len(count) /\ 3 - 3 + 1 = 1
      BY <1>4
    <3> HIDE DEF one
    <3>2. /\ one \in Seq(Nat) /\ Len(one) = 3 - 3 + 1
          /\ \A i \in 1..3 - 3 + 1 : one[i] = count[3 + i - 1]
      BY <1>4, <3>1, Part DEF one
    <3> QED
      BY <3>1, <3>2
  <2>3. none \in Seq(Nat) /\ Len(none) = 0
    BY <1>4, Part
  <2>4. stride(1) = Product(two) /\ stride(2) = Product(one) /\ stride(3) = Product(none)
    BY <1>1
  <2> HIDE DEF two, one, none, stride
  <2>5. two[1] = Levels /\ two[2] = Points /\ one[1] = Points
    BY <1>4, <2>1, <2>2
  <2>6. Product(two) = Levels * Points
    BY <2>1, <2>5, ShortProducts
  <2>7. Product(one) = Points
    BY <2>2, <2>5, ShortProducts
  <2>8. Product(none) = 1
    BY <2>3, ShortProducts
  <2> QED
    BY <2>4, <2>6, <2>7, <2>8
<1>11. DOMAIN data = 0..varSizeNoTime(file) - 1
  BY <1>7, <1>8, <1>9
<1>12. ASSUME NEW k \in DOMAIN data
       PROVE  /\ data[k]["time_counter"] = step
              /\ data[k]["nMesh2d_face"] = k % Points
              /\ data[k]["full_levels"] = k \div Points
  <2>1. k \in 0..Levels * Points - 1 /\ k \in Nat
    <3>1. Levels * Points \in Nat
      BY <1>3
    <3> QED
      BY <1>8, <1>11, <3>1
  <2>2. /\ data[k]["time_counter"] = start[1] + ((k \div stride(1)) % count[1])
        /\ data[k]["full_levels"] = start[2] + ((k \div stride(2)) % count[2])
        /\ data[k]["nMesh2d_face"] = start[3] + ((k \div stride(3)) % count[3])
    BY <1>6, <1>7
  <2>3. /\ data[k]["time_counter"] = step + ((k \div (Levels * Points)) % 1)
        /\ data[k]["full_levels"] = 0 + ((k \div Points) % Levels)
        /\ data[k]["nMesh2d_face"] = 0 + ((k \div 1) % Points)
    <3> HIDE DEF stride
    <3> QED BY <1>4, <1>5, <1>10, <2>2
  <2>4. (k \div (Levels * Points)) % 1 = 0
    <3>1. Levels * Points \in Nat /\ Levels * Points > 0
      BY <1>3
    <3>2. \A a \in Nat, b \in Nat : b > 0 => a \div b \in Nat
      OBVIOUS
    <3>3. k \div (Levels * Points) \in Nat
      BY <2>1, <3>1, <3>2
    <3>4. \A a \in Nat : a % 1 = 0
      OBVIOUS
    <3> QED
      BY <3>3, <3>4
  <2>5. (k \div Points) % Levels = k \div Points
    <3>1. k \div Points \in Nat /\ k \div Points < Levels
      BY <1>3, <2>1
    <3>2. \A a \in Nat, b \in Nat : a < b => a % b = a
      OBVIOUS
    <3> QED
      BY <1>3, <3>1, <3>2
  <2>6. k \div 1 = k
    BY <2>1
  <2> QED
    BY <1>3, <2>1, <2>3, <2>4, <2>5, <2>6
<1>13. Slice(file, step, data)
  BY <1>11, <1>12 DEF Slice
<1> QED
  BY <1>13 DEF data, start, count

LEMMA SliceWithoutLevels ==
    ASSUME NEW file \in Files, NEW step \in Nat,
           file.dims = <<"time_counter", "nMesh2d_face">>
    PROVE  Slice(file, step, getVar(file, startVec(file, step), countVec(file)))
<1> DEFINE dims == file.dims
           count == countVec(file)
           start == startVec(file, step)
           data == getVar(file, start, count)
           position == [d \in ToSet(dims) |-> CHOOSE i \in 1..Len(dims) : dims[i] = d]
           stride(i) == Product(SubSeq(count, i + 1, Len(dims)))
<1>1. Len(dims) = 2 /\ dims[1] = "time_counter" /\ dims[2] = "nMesh2d_face"
  OBVIOUS
<1> DEFINE W == WithoutTime(dims)
           sizes == SizesNoTime(file)
<1>2. Len(W) = 1 /\ W[1] = "nMesh2d_face"
  <2>1. dims \in Seq(DimNames) /\ \A i \in 1..Len(dims) : dims[i] = "time_counter" <=> i = 1
    <3>1. dims \in Seq(DimNames)
      BY SizesType
    <3>2. 1..Len(dims) = {1, 2}
      BY <1>1
    <3> QED
      BY <1>1, <3>1, <3>2
  <2> HIDE DEF dims
  <2>2. Len(W) = Len(dims) - 1 /\ \A i \in 1..Len(dims) - 1 : W[i] = dims[i + 1]
    BY <1>1, <2>1, WithoutTimeOf
  <2>3. 1 \in 1..Len(dims) - 1 /\ 1 + 1 = 2
    BY <1>1
  <2> HIDE DEF W
  <2> QED
    BY <1>1, <2>2, <2>3
<1>3. Points \in Nat \ {0}
  BY FileAssumption
<1>4. count \in Seq(Nat) /\ Len(count) = 2 /\ count[1] = 1 /\ count[2] = Points
  <2>1. sizes = [i \in 1..Len(W) |-> DimSize(file, W[i])]
    BY DEF SizesNoTime
  <2>2. DimSize(file, "nMesh2d_face") = Points
    BY SizesType
  <2>3. /\ count \in Seq(Nat) /\ Len(count) = Len(sizes) + 1 /\ count[1] = 1
        /\ \A i \in 1..Len(sizes) : count[i + 1] = sizes[i]
        /\ Len(sizes) = Len(W)
    BY Counts
  <2> HIDE DEF count, W, sizes
  <2>4. sizes[1] = Points
    BY <1>2, <2>1, <2>2
  <2>5. count[1 + 1] = sizes[1]
    BY <1>2, <2>3
  <2> QED
    BY <1>2, <2>3, <2>4, <2>5
<1>5. start[1] = step /\ start[2] = 0
  <2>1. start = <<step>> \o [i \in 1..Len(W) |-> 0]
    BY DEF startVec
  <2> HIDE DEF start, W
  <2> QED
    BY <1>2, <2>1
<1>6. /\ ToSet(dims) = {"time_counter", "nMesh2d_face"}
      /\ position["time_counter"] = 1 /\ position["nMesh2d_face"] = 2
  <2>1. 1..Len(dims) = {1, 2}
    BY <1>1
  <2>2. ToSet(dims) = {"time_counter", "nMesh2d_face"}
    <3>1. ToSet(dims) = {dims[i] : i \in 1..Len(dims)}
      BY DEF ToSet
    <3> QED
      BY <1>1, <2>1, <3>1
  <2>3. /\ (CHOOSE i \in 1..Len(dims) : dims[i] = "time_counter") = 1
        /\ (CHOOSE i \in 1..Len(dims) : dims[i] = "nMesh2d_face") = 2
    BY <1>1, <2>1
  <2> QED
    BY <2>2, <2>3
<1>7. data = [k \in 0..Product(SubSeq(count, 1, Len(dims))) - 1 |->
                 [d \in ToSet(dims) |->
                    start[position[d]] + ((k \div stride(position[d])) % count[position[d]])]]
  BY DEF getVar
<1>8. varSizeNoTime(file) = Points
  <2>1. varSizeNoTime(file) = Product(count)
    BY Counts, OneInFront
  <2> HIDE DEF count
  <2>2. Product(count) = 1 * Points
    BY <1>4, ShortProducts
  <2> QED
    BY <1>3, <2>1, <2>2
<1> HIDE DEF count, start, data, position, dims, W, sizes
<1>9. Product(SubSeq(count, 1, Len(dims))) = Points
  <2>1. SubSeq(count, 1, 2) = count
    BY <1>4
  <2>2. SubSeq(count, 1, Len(dims)) = count
    BY <1>1, <2>1
  <2>3. Product(count) = 1 * Points
    BY <1>4, ShortProducts
  <2>4. 1 * Points = Points
    BY <1>3
  <2> QED
    BY <2>2, <2>3, <2>4
<1>10. stride(1) = Points /\ stride(2) = 1
  <2> DEFINE one == SubSeq(count, 2, 2)
             none == SubSeq(count, 3, 2)
  <2>1. one \in Seq(Nat) /\ Len(one) = 1 /\ \A i \in 1..1 : one[i] = count[2 + i - 1]
    BY <1>4, Part
  <2>2. none \in Seq(Nat) /\ Len(none) = 0
    BY <1>4, Part
  <2>3. stride(1) = Product(one) /\ stride(2) = Product(none)
    BY <1>1
  <2> HIDE DEF one, none, stride
  <2>4. one[1] = Points
    BY <1>4, <2>1
  <2>5. Product(one) = Points
    BY <2>1, <2>4, ShortProducts
  <2>6. Product(none) = 1
    BY <2>2, ShortProducts
  <2> QED
    BY <2>3, <2>5, <2>6
<1>11. DOMAIN data = 0..varSizeNoTime(file) - 1
  BY <1>7, <1>8, <1>9
<1>12. ASSUME NEW k \in DOMAIN data
       PROVE  /\ data[k]["time_counter"] = step /\ data[k]["nMesh2d_face"] = k % Points
              /\ "full_levels" \notin DOMAIN data[k]
  <2>1. k \in 0..Points - 1 /\ k \in Nat
    BY <1>3, <1>8, <1>11
  <2>2. /\ data[k]["time_counter"] = start[1] + ((k \div stride(1)) % count[1])
        /\ data[k]["nMesh2d_face"] = start[2] + ((k \div stride(2)) % count[2])
        /\ DOMAIN data[k] = ToSet(dims)
    BY <1>6, <1>7
  <2>3. /\ data[k]["time_counter"] = step + ((k \div Points) % 1)
        /\ data[k]["nMesh2d_face"] = 0 + ((k \div 1) % Points)
    <3> HIDE DEF stride
    <3> QED BY <1>4, <1>5, <1>10, <2>2
  <2>4. (k \div Points) % 1 = 0 /\ k \div 1 = k
    <3>1. k \div Points \in Nat
      BY <1>3, <2>1
    <3>2. \A a \in Nat : a % 1 = 0
      OBVIOUS
    <3> QED
      BY <2>1, <3>1, <3>2
  <2>5. "full_levels" \notin DOMAIN data[k]
    BY <1>6, <2>2
  <2> QED
    BY <1>3, <2>1, <2>3, <2>4, <2>5
<1>13. Slice(file, step, data)
  BY <1>11, <1>12 DEF Slice
<1> QED
  BY <1>13 DEF data, start, count

\* A date of the file was rounded from the time at its step.
LEMMA TimeOfDate ==
    ASSUME NEW file \in Files, NEW i \in 1..Len(createDateTimes(file))
    PROVE  Abs(file.times[i] - 2 * createDateTimes(file)[i]) <= 1
<1>1. file.times \in Seq(Nat)
  BY FileAssumption DEF File
<1>2. /\ i \in 1..Len(file.times) /\ createDateTimes(file)[i] = Rounded(file.times[i])
  <2>1. createDateTimes(file) = [j \in 1..Len(file.times) |-> Rounded(file.times[j])]
    BY DEF createDateTimes
  <2>2. Len(createDateTimes(file)) = Len(file.times)
    BY <1>1, <2>1, DatesType
  <2> QED
    BY <2>1, <2>2
<1>3. \A t \in Nat : Abs(t - 2 * Rounded(t)) <= 1
  BY DEF Abs, Rounded
<1>4. file.times[i] \in Nat
  BY <1>1, <1>2
<1> QED
  BY <1>2, <1>3, <1>4

LEMMA SliceIsOfDate == IInv => SliceOfDate
<1> SUFFICES ASSUME IInv, asked # NoDate, opened.dims \in LfricDims PROVE SliceOfDate
  BY DEF SliceOfDate
<1> DEFINE step == findTimeStep(asked)
           data == getVar(opened, startVec(opened, step), countVec(opened))
<1>1. Contains(dateTimes, asked) /\ vector = [size |-> varSizeNoTime(opened), data |-> data]
  BY DEF IInv, VectorOfDate
<1>2. dateTimes \in Seq(Nat)
  BY DEF IInv, TypeOK
<1>3. opened \in Files /\ dateTimes = createDateTimes(opened)
  <2>1. dateTimes # <<>>
    BY <1>1, <1>2 DEF Contains
  <2> QED
    BY <2>1 DEF IInv, DatesOfFile
<1>4. step \in 0..Len(dateTimes) - 1 /\ dateTimes[step + 1] = asked
  BY <1>1, <1>2, StepFound
<1>5. vector.size = varSizeNoTime(opened) /\ vector.data = data
  <2> HIDE DEF data
  <2> QED BY <1>1
<1> HIDE DEF step
<1>6. Slice(opened, step, vector.data)
  <2>1. step \in Nat
    BY <1>2, <1>4
  <2>2. CASE opened.dims = <<"time_counter", "full_levels", "nMesh2d_face">>
    BY <1>3, <1>5, <2>1, <2>2, SliceWithLevels
  <2>3. CASE opened.dims = <<"time_counter", "nMesh2d_face">>
    BY <1>3, <1>5, <2>1, <2>3, SliceWithoutLevels
  <2> QED
    BY <2>2, <2>3 DEF LfricDims
<1>7. Abs(opened.times[step + 1] - 2 * asked) <= 1
  <2>1. step + 1 \in 1..Len(createDateTimes(opened))
    BY <1>2, <1>3, <1>4
  <2> QED
    BY <1>3, <1>4, <2>1, TimeOfDate
<1> HIDE DEF data
<1>8. DOMAIN vector.data = 0..vector.size - 1
  BY <1>5, <1>6 DEF Slice
<1>9. ASSUME NEW k \in DOMAIN vector.data
      PROVE  /\ Abs(opened.times[vector.data[k]["time_counter"] + 1] - 2 * asked) <= 1
             /\ vector.data[k]["nMesh2d_face"] = k % Points
             /\ "full_levels" \in DOMAIN vector.data[k] =>
                   vector.data[k]["full_levels"] = k \div Points
  BY <1>6, <1>7 DEF Slice
<1>10. \A k, j \in DOMAIN vector.data :
          vector.data[k]["time_counter"] = vector.data[j]["time_counter"]
  BY <1>6 DEF Slice
<1> QED
  BY <1>8, <1>9, <1>10 DEF SliceOfDate

\* The vector that readState hands to AtlasReader is filled to its end, and at point p
\* and level l it has the value of that point and level at one time of the file that is
\* within half a second of the date asked for, for any number of levels, points and times
\* and whatever was read before.
THEOREM DatesAreSliced == Spec => []SliceOfDate
BY SliceIsOfDate, Invariance, PTL
=============================================================================
