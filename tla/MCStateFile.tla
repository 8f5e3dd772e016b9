---------------------------- MODULE MCStateFile ----------------------------
(***************************************************************************)
(* Small instances of StateFile: four points less than half a degree from  *)
(* the next, two of them on either side of the meridian where longitudes   *)
(* start and two on either side of a pole; three times of which two are    *)
(* one date; variables with and without time and levels.  Angles are in    *)
(* tenths of a degree, lengths in parts of a radius of 10000.              *)
(***************************************************************************)
EXTENDS StateFile, TLC

MCAtlasCoords == 0 :> <<0, 100>> @@ 1 :> <<3596, 100>> @@ 2 :> <<0, 898>> @@ 3 :> <<1800, 898>>

\* The points in the order given, moved by as many tenths as the file is off, with
\* longitudes from -180 degrees if west.
Moved(c, off, west) ==
    LET lon == (c[1] + off) % 3600
    IN  <<IF west /\ lon > 1800 THEN lon - 3600 ELSE lon, c[2] + off>>

Coords(order, off, west) == [p \in Point |-> Moved(AtlasCoords[order[p]], off, west)]

\* Every position in the files, and the same with longitude and latitude exchanged.
MCCoord ==
    LET inFile == {Moved(MCAtlasCoords[i], off, west) :
                      i \in DOMAIN MCAtlasCoords, off \in {-1, 0, 1}, west \in BOOLEAN}
    IN  inFile \cup {<<c[2], c[1]>> : c \in inFile}

\* Sines of the angles of MCCoord between 0 and 90 degrees.
Sines == 0 :> 0 @@ 1 :> 17 @@ 2 :> 35 @@ 3 :> 52 @@ 4 :> 70 @@ 5 :> 87
            @@ 99 :> 1719 @@ 100 :> 1736 @@ 101 :> 1754 @@ 799 :> 9845 @@ 800 :> 9848
            @@ 801 :> 9851 @@ [a \in 895..900 |-> 10000]

Sin(a) ==
    LET b == a % 1800
        sine == Sines[IF b > 900 THEN 1800 - b ELSE b]
    IN  IF a % 3600 < 1800 THEN sine ELSE -sine
Cos(a) == Sin(a + 900)

\* A position in space.
InSpace(c) ==
    <<(Cos(c[2]) * Cos(c[1])) \div 10000, (Cos(c[2]) * Sin(c[1])) \div 10000, Sin(c[2])>>

\* The square root, rounded up, so that it keeps the triangle inequality.
Root(n) ==
    LET root[k \in 0..15] ==
            IF k = 0 THEN 0
            ELSE LET lower == root[k - 1]
                     higher == lower + 2^(15 - k)
                 IN  IF higher * higher <= n THEN higher ELSE lower
        whole == root[15]
    IN  IF whole * whole = n THEN whole ELSE whole + 1

MCDistance ==
    LET squares(u, v) == (u[1] - v[1])^2 + (u[2] - v[2])^2 + (u[3] - v[3])^2
    IN  [c, d \in MCCoord |-> Root(squares(InSpace(c), InSpace(d)))]

\* However the positions in a file are off, each is next to its Atlas point.
ASSUME AllAreNext ==
    \A i \in Point, off \in {-1, 0, 1}, west \in BOOLEAN : NextTo(Moved(AtlasCoords[i], off, west), i)

AFile(coords, coordType, times, timeType, dims) ==
    [Mesh2d_face_x |-> [p \in Point |-> coords[p][1]],
     Mesh2d_face_y |-> [p \in Point |-> coords[p][2]],
     coordType |-> coordType,
     times |-> times, timeType |-> timeType, dims |-> dims]

MCDims == {<<"time_counter", "full_levels", "nMesh2d_face">>, <<"time_counter", "nMesh2d_face">>,
           <<"full_levels", "nMesh2d_face">>, <<"full_levels", "time_counter", "nMesh2d_face">>}

InOrder == [p \in Point |-> p]

\* Every order of the points, and every kind of times and dimensions.
MCFiles ==
    {AFile(Coords(order, off, west), "float", <<0, 7200>>, "double", <<"time_counter", "nMesh2d_face">>) :
        order \in Permutations(Point), off \in {-1, 1}, west \in BOOLEAN}
      \cup {AFile(Coords(InOrder, 0, TRUE), coordType, times, type, dims) :
        coordType \in {"float", "double"},
        times \in {<<>>, <<0>>, <<0, 7199, 7200>>, <<7200, 0, 7201>>},
        type \in {"float", "double"}, dims \in MCDims}
=============================================================================
