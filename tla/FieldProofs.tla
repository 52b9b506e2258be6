----------------------------- MODULE FieldProofs -----------------------------
(***************************************************************************)
(* For any areas: what the grid shows of a field is what its polygons hold,*)
(* wherever their corners lie and in whatever order they were saved.       *)
(***************************************************************************)
EXTENDS Field, MapServerProofs, FiniteSetTheorems

Point == Int \X Int

\* The coverage server only listens: with it the map server does what it does
\* alone, so that everything proved of MapServer holds of the field.
LEMMA FieldIsAMapServer == FieldSpec => Spec
<1>1. FieldInit => Init
  BY DEF FieldInit
<1>2. [FieldNext]_fieldVars => [Next]_vars
  BY DEF FieldNext, fieldVars, MapCallback
<1>. QED  BY <1>1, <1>2, PTL DEF FieldSpec, Spec

LEMMA FieldTypeOK == FieldSpec => []TypeOK
BY FieldIsAMapServer, TypeCorrect, PTL

LEMMA FieldTypes ==
  ASSUME NEW f \in Fields
  PROVE  /\ f.areas \in Seq(Areas)
         /\ f.lethal = ExclusionsAreLethal(f.areas)
         /\ f.kept = WallIsKept(f.areas)
         /\ f.drivable = PlansAreDrivable(f.areas)
<1> DEFINE Row(s) == [areas |-> s, lethal |-> ExclusionsAreLethal(s),
                      kept |-> WallIsKept(s), drivable |-> PlansAreDrivable(s)]
           n == Cardinality(Ids("areas"))
<1>1. PICK s \in SeqOf(Areas, n) : f = Row(s)
  BY DEF Fields
<1>2. s \in Seq(Areas)
  BY DEF SeqOf
<1>. QED  BY <1>1, <1>2

----------------------------------------------------------------------------
(* The two definitions of the points of a polygon come to the same.        *)

LEMMA EdgeOf ==
  ASSUME NEW polygon \in Seq(Point), NEW i \in DOMAIN polygon
  PROVE  /\ polygon[i] \in Point /\ Corner(polygon, i + 1) \in Point
         /\ Len(polygon) \in Nat /\ i \in 1..Len(polygon)
<1>1. Len(polygon) \in Nat /\ i \in 1..Len(polygon)
  OBVIOUS
<1>2. 1 \in 1..Len(polygon) /\ (~(i + 1 > Len(polygon)) => i + 1 \in 1..Len(polygon))
  BY <1>1
<1>3. \A k \in 1..Len(polygon) : polygon[k] \in Point
  OBVIOUS
<1>. QED  BY <1>1, <1>2, <1>3 DEF Corner

LEMMA TouchesIsOnEdge ==
  ASSUME NEW p \in Point, NEW a \in Point, NEW b \in Point
  PROVE  OnEdge(p, a, b) <=>
           /\ a # b /\ Turn(p, a, b) = 0
           /\ Between(p[1], a[1], b[1]) /\ Between(p[2], a[2], b[2])
<1>1. /\ p[1] \in Int /\ p[2] \in Int /\ a[1] \in Int /\ a[2] \in Int
      /\ b[1] \in Int /\ b[2] \in Int
  BY DEF Point
<1>2. (b[2] - a[2]) * (p[1] - a[1]) = (b[1] - a[1]) * (p[2] - a[2])
        <=> Turn(p, a, b) = 0
  BY <1>1 DEF Turn
<1>. QED  BY <1>2 DEF OnEdge

\* The ray crosses an edge upward with p on its left, or downward with p on
\* its right.
Up(p, a, b) == a[2] <= p[2] /\ p[2] < b[2] /\ Turn(p, a, b) > 0
Down(p, a, b) == b[2] <= p[2] /\ p[2] < a[2] /\ Turn(p, a, b) < 0

LEMMA CrossesIsTurn ==
  ASSUME NEW p \in Point, NEW a \in Point, NEW b \in Point
  PROVE  Crosses(p, a, b) <=> Up(p, a, b) \/ Down(p, a, b)
<1>1. /\ p[1] \in Int /\ p[2] \in Int /\ a[1] \in Int /\ a[2] \in Int
      /\ b[1] \in Int /\ b[2] \in Int
  BY DEF Point
<1> DEFINE left == (p[1] - a[1]) * (b[2] - a[2])
           right == (b[1] - a[1]) * (p[2] - a[2])
<1>2. left \in Int /\ right \in Int /\ Turn(p, a, b) = right - left
  BY <1>1 DEF Turn
<1>3. Crosses(p, a, b) <=> /\ (a[2] > p[2]) # (b[2] > p[2])
                           /\ IF b[2] - a[2] > 0 THEN left < right ELSE left > right
  BY DEF Crosses
<1> HIDE DEF left, right
<1>. QED  BY <1>1, <1>2, <1>3 DEF Up, Down

LEMMA VisitedIsSampled ==
  ASSUME NEW polygon \in Seq(Point)
  PROVE  Visited(polygon) = Samples(polygon)
<1> DEFINE n == Len(polygon)
           b(i) == Corner(polygon, i + 1)
<1>1. n \in Nat /\ DOMAIN polygon = 1..n
  OBVIOUS
<1>2. CASE polygon = <<>>
  <2>1. DOMAIN polygon = {}
    BY <1>2
  <2>2. \A p : ~Touches(p, polygon)
    BY <2>1 DEF Touches
  <2>3. \A p : ~Winds(p, polygon)
    <3> TAKE p
    <3> DEFINE ups == {i \in DOMAIN polygon : /\ polygon[i][2] <= p[2]
                                              /\ p[2] < b(i)[2]
                                              /\ Turn(p, polygon[i], b(i)) > 0}
               downs == {i \in DOMAIN polygon : /\ b(i)[2] <= p[2]
                                                /\ p[2] < polygon[i][2]
                                                /\ Turn(p, polygon[i], b(i)) < 0}
    <3>1. ups = {} /\ downs = {}
      BY <2>1
    <3>2. Winds(p, polygon) <=> (Cardinality(ups) - Cardinality(downs)) % 2 = 1
      BY DEF Winds
    <3> HIDE DEF ups, downs
    <3>3. Cardinality(ups) = 0 /\ Cardinality(downs) = 0
      BY <3>1, FS_EmptySet
    <3>. QED  BY <3>2, <3>3
  <2>. QED  BY <1>2, <2>2, <2>3 DEF Visited, Ground, Samples
<1>3. CASE polygon # <<>>
  <2>1. ASSUME NEW p \in Point
        PROVE  (Winds(p, polygon) \/ Touches(p, polygon))
                 <=> IsPointInsidePolygon(p, polygon)
    <3> DEFINE ups == {i \in DOMAIN polygon : /\ polygon[i][2] <= p[2]
                                              /\ p[2] < b(i)[2]
                                              /\ Turn(p, polygon[i], b(i)) > 0}
               downs == {i \in DOMAIN polygon : /\ b(i)[2] <= p[2]
                                                /\ p[2] < polygon[i][2]
                                                /\ Turn(p, polygon[i], b(i)) < 0}
               crossed == {i \in DOMAIN polygon : Crosses(p, polygon[i], b(i))}
               on == \E i \in DOMAIN polygon : OnEdge(p, polygon[i], b(i))
    <3>1. \A i \in DOMAIN polygon : polygon[i] \in Point /\ b(i) \in Point
      BY EdgeOf
    <3>2. crossed = ups \cup downs
      <4>1. \A i \in DOMAIN polygon :
              Crosses(p, polygon[i], b(i)) <=> Up(p, polygon[i], b(i)) \/ Down(p, polygon[i], b(i))
        BY <3>1, CrossesIsTurn
      <4> HIDE DEF b
      <4>. QED  BY <4>1 DEF Up, Down
    <3>3. ups \cap downs = {}
      <4>1. \A i \in DOMAIN polygon : Turn(p, polygon[i], b(i)) \in Int
        <5>1. ASSUME NEW u \in Point, NEW v \in Point  PROVE Turn(p, u, v) \in Int
          <6>1. /\ p[1] \in Int /\ p[2] \in Int /\ u[1] \in Int /\ u[2] \in Int
                /\ v[1] \in Int /\ v[2] \in Int
            BY DEF Point
          <6>. QED  BY <6>1 DEF Turn
        <5>. QED  BY <3>1, <5>1
      <4> HIDE DEF b
      <4>. QED  BY <4>1
    <3>4. /\ IsFiniteSet(ups) /\ IsFiniteSet(downs)
          /\ Cardinality(ups) \in Nat /\ Cardinality(downs) \in Nat
      <4>1. IsFiniteSet(1..n)
        BY <1>1, FS_Interval
      <4>2. ups \in SUBSET (1..n) /\ downs \in SUBSET (1..n)
        BY <1>1
      <4> HIDE DEF ups, downs, n
      <4>3. IsFiniteSet(ups) /\ IsFiniteSet(downs)
        BY <4>1, <4>2, FS_Subset
      <4>. QED  BY <4>3, FS_CardinalityType
    <3>5. Touches(p, polygon) <=> on
      BY <3>1, TouchesIsOnEdge DEF Touches
    <3>6. Winds(p, polygon) <=> (Cardinality(ups) - Cardinality(downs)) % 2 = 1
      BY DEF Winds
    <3>7. IsPointInsidePolygon(p, polygon) <=> on \/ Cardinality(crossed) % 2 = 1
      BY DEF IsPointInsidePolygon
    <3> HIDE DEF ups, downs, crossed, on
    <3>8. Cardinality(crossed) = Cardinality(ups) + Cardinality(downs)
      <4>1. Cardinality(ups \cap downs) = 0
        BY <3>3, FS_EmptySet
      <4>2. Cardinality(ups \cup downs) =
              Cardinality(ups) + Cardinality(downs) - Cardinality(ups \cap downs)
        BY <3>4, FS_Union
      <4>. QED  BY <3>2, <3>4, <4>1, <4>2
    <3>9. (Cardinality(ups) - Cardinality(downs)) % 2 = 1
            <=> (Cardinality(ups) + Cardinality(downs)) % 2 = 1
      BY <3>4
    <3>. QED  BY <3>5, <3>6, <3>7, <3>8, <3>9
  <2>2. BoundingBox(polygon) \subseteq Point
    BY DEF BoundingBox, Point
  <2>. QED  BY <1>3, <2>1, <2>2 DEF Visited, Ground, Samples
<1>. QED  BY <1>2, <1>3

----------------------------------------------------------------------------
(* Exclusions.                                                             *)

LEMMA Lethal ==
  ASSUME NEW areas \in Seq(Areas)
  PROVE  ExclusionsAreLethal(areas)
<1>1. SUFFICES ASSUME NEW i \in DOMAIN areas, areas[i].type = "exclusion",
                      NEW p \in Visited(areas[i].polygon),
                      p \in MapToOccupancyGrid(areas).free
               PROVE  FALSE
  BY DEF ExclusionsAreLethal, Polygons
<1>2. areas[i].polygon \in Seq(Point)
  <2>1. areas[i] \in Areas
    OBVIOUS
  <2>. QED  BY <2>1, FieldAssumption DEF Point
<1>3. p \in Samples(areas[i].polygon)
  BY <1>1, <1>2, VisitedIsSampled
<1> DEFINE frame == Frame(areas)
<1>4. /\ p \in DilateFreeRegion(frame, Painted(frame, areas, KeepIn))
      /\ p \notin Painted(frame, areas, {"exclusion"})
  BY <1>1 DEF MapToOccupancyGrid
<1> HIDE DEF frame
<1>5. p \in Cells(frame)
  BY <1>4 DEF DilateFreeRegion
<1>. QED  BY <1>1, <1>3, <1>4, <1>5 DEF Painted, FillGridWithPolygon

\* In any order the areas may have been saved, and wherever they overlap: a cell
\* an exclusion holds and the iterator visits is never free, in the fields the
\* run looks at and in any grid the map server has published
\* (map_server_node.cpp:353-389).
THEOREM ExclusionsWin ==
  FieldSpec => []( /\ ExclusionsStayLethal
                   /\ \A areas \in map_grid : ExclusionsAreLethal(areas) )
<1>1. TypeOK => \A areas \in map_grid : ExclusionsAreLethal(areas)
  BY Lethal DEF TypeOK, Lists, Entries
<1>2. ExclusionsStayLethal
  <2>1. \A f \in Fields : f.lethal = ExclusionsAreLethal(f.areas) /\ f.areas \in Seq(Areas)
    BY FieldTypes
  <2>. QED  BY <2>1, Lethal DEF ExclusionsStayLethal, Shown
<1>. QED  BY <1>1, <1>2, FieldTypeOK, PTL

----------------------------------------------------------------------------
(* The wall.                                                               *)

\* A move within the radius is within the square that is searched.
LEMMA Reach ==
  ASSUME NEW x \in Int, NEW y \in Int, x * x + y * y <= RobotRadiusSquared
  PROVE  <<x, y>> \in Disc
<1> DEFINE n == CellRadius + 1
<1>1. RobotRadiusSquared \in Nat /\ CellRadius \in Nat /\ n \in Nat /\ RobotRadiusSquared < n * n
  BY GridAssumption
<1> HIDE DEF n
<1>2. ASSUME NEW u \in Int, NEW v \in Int, u * u + v * v < n * n  PROVE u < n /\ -n < u
  <2>1. v * v >= 0
    OBVIOUS
  <2>2. u >= n => u * u >= n * n
    BY <1>1
  <2>3. -n >= u => u * u >= n * n
    BY <1>1
  <2>. QED  BY <1>1, <1>2, <2>1, <2>2, <2>3
<1>3. x < n /\ -n < x
  <2>1. x * x + y * y < n * n
    BY <1>1
  <2>. QED  BY <1>2, <2>1
<1>4. y < n /\ -n < y
  <2>1. y * y + x * x < n * n
    BY <1>1
  <2>. QED  BY <1>2, <2>1
<1>5. x \in -CellRadius..CellRadius /\ y \in -CellRadius..CellRadius
  BY <1>1, <1>3, <1>4 DEF n
<1>. QED  BY <1>5 DEF Disc

LEMMA PaintedIsSeen ==
  ASSUME NEW areas \in Seq(Areas), NEW types, NEW frame
  PROVE  Painted(frame, areas, types) =
           UNION {Visited(p) \cap Cells(frame) : p \in Polygons(areas, types)}
<1>1. ASSUME NEW i \in DOMAIN areas
      PROVE  FillGridWithPolygon(frame, areas[i].polygon)
               = Visited(areas[i].polygon) \cap Cells(frame)
  <2>1. areas[i] \in Areas
    OBVIOUS
  <2>2. areas[i].polygon \in Seq(Point)
    BY <2>1, FieldAssumption DEF Point
  <2>. QED  BY <2>2, VisitedIsSampled DEF FillGridWithPolygon
<1>. QED  BY <1>1 DEF Painted, Polygons

LEMMA CellsArePoints ==
  ASSUME NEW frame, NEW c \in Cells(frame)
  PROVE  c = <<c[1], c[2]>> /\ c[1] \in Int /\ c[2] \in Int
BY DEF Cells

LEMMA WallKept ==
  ASSUME NEW areas \in Seq(Areas)
  PROVE  WallIsKept(areas)
<1> DEFINE grid == MapToOccupancyGrid(areas)
           frame == Frame(areas)
           held(polygon) == Ground(polygon) \cap Cells(frame)
           seen(polygon) == Visited(polygon) \cap Cells(frame)
           inside   == UNION {held(p) : p \in Polygons(areas, KeepIn)}
           visited  == UNION {seen(p) : p \in Polygons(areas, KeepIn)}
           excluded == UNION {held(p) : p \in Polygons(areas, {"exclusion"})}
           stamped  == UNION {seen(p) : p \in Polygons(areas, {"exclusion"})}
<1>1. /\ grid.frame = frame
      /\ grid.free = DilateFreeRegion(frame, visited) \ stamped
  BY PaintedIsSeen DEF MapToOccupancyGrid
<1>2. visited \subseteq inside /\ stamped \subseteq excluded /\ visited \subseteq Cells(frame)
  BY DEF Visited
<1>3. WallIsKept(areas) <=> /\ grid.free \subseteq Within(frame, inside)
                            /\ Within(frame, visited) \ excluded \subseteq grid.free
  BY <1>1 DEF WallIsKept
<1> HIDE DEF grid, frame, inside, visited, excluded, stamped
<1>4. DilateFreeRegion(frame, visited) = Within(frame, visited)
  <2>1. ASSUME NEW c \in Within(frame, visited)
        PROVE  c \in DilateFreeRegion(frame, visited)
    <3>1. PICK s \in visited :
            (c[1] - s[1]) * (c[1] - s[1]) + (c[2] - s[2]) * (c[2] - s[2])
              <= RobotRadiusSquared
      BY DEF Within
    <3>2. c \in Cells(frame) /\ s \in Cells(frame)
      BY <1>2 DEF Within
    <3>3. /\ c = <<c[1], c[2]>> /\ c[1] \in Int /\ c[2] \in Int
          /\ s[1] \in Int /\ s[2] \in Int
      BY <3>2, CellsArePoints
    <3> DEFINE d == <<c[1] - s[1], c[2] - s[2]>>
    <3>4. d \in Disc
      <4>1. c[1] - s[1] \in Int /\ c[2] - s[2] \in Int
        BY <3>3
      <4>. QED  BY <3>1, <4>1, Reach
    <3>5. c = <<s[1] + d[1], s[2] + d[2]>>
      BY <3>3
    <3>6. c \in Moved(visited, d)
      BY <3>5 DEF Moved
    <3> HIDE DEF d
    <3>. QED  BY <3>2, <3>4, <3>6 DEF DilateFreeRegion
  <2>2. ASSUME NEW c \in DilateFreeRegion(frame, visited)
        PROVE  c \in Within(frame, visited)
    <3>1. c \in Cells(frame) /\ \E d \in Disc : c \in Moved(visited, d)
      BY DEF DilateFreeRegion
    <3>2. PICK d \in Disc : \E s \in visited : c = <<s[1] + d[1], s[2] + d[2]>>
      BY <3>1 DEF Moved
    <3>3. PICK s \in visited : c = <<s[1] + d[1], s[2] + d[2]>>
      BY <3>2
    <3>4. s[1] \in Int /\ s[2] \in Int
      BY <1>2, CellsArePoints
    <3>5. d[1] \in Int /\ d[2] \in Int /\ d[1] * d[1] + d[2] * d[2] <= RobotRadiusSquared
      BY DEF Disc
    <3>6. c[1] - s[1] = d[1] /\ c[2] - s[2] = d[2]
      BY <3>3, <3>4, <3>5
    <3>. QED  BY <3>1, <3>5, <3>6 DEF Within
  <2>. QED  BY <2>1, <2>2
<1>5. Within(frame, visited) \subseteq Within(frame, inside)
  BY <1>2 DEF Within
<1>. QED  BY <1>1, <1>2, <1>3, <1>4, <1>5

\* Whatever areas there are and wherever they lie, as far as the grid holds
\* them: moved outward, the wall is where a robot radius puts it, for any
\* radius and resolution (map_server_node.cpp:549-614).
THEOREM WallIsMovedOut ==
  FieldSpec => []( /\ KeepInWall
                   /\ \A areas \in map_grid : WallIsKept(areas) )
<1>1. TypeOK => \A areas \in map_grid : WallIsKept(areas)
  BY WallKept DEF TypeOK, Lists, Entries
<1>2. KeepInWall
  BY FieldTypes, WallKept DEF KeepInWall, Shown
<1>. QED  BY <1>1, <1>2, FieldTypeOK, PTL

----------------------------------------------------------------------------
(* Plans.  The grid knows a square by its corner.  The corner of a square   *)
(* of the field is a point of what is mown, and a point of an exclusion    *)
(* only if the square is in its verge: not if it has squares of the field  *)
(* all around it.                                                          *)

LEMMA CrossesAlong ==
  ASSUME NEW p \in Point, NEW a \in Point, NEW b \in Point,
         a[1] = b[1] \/ a[2] = b[2]
  PROVE  Crosses(p, a, b) <=> (a[2] > p[2]) # (b[2] > p[2]) /\ p[1] < a[1]
<1> DEFINE rise == b[2] - a[2]
           off == p[1] - a[1]
<1>1. /\ p[1] \in Int /\ p[2] \in Int /\ a[1] \in Int /\ a[2] \in Int
      /\ b[1] \in Int /\ b[2] \in Int
  BY DEF Point
<1>2. CASE a[2] = b[2]
  BY <1>1, <1>2 DEF Crosses
<1>3. CASE a[1] = b[1]
  <2>1. (b[1] - a[1]) * (p[2] - a[2]) = 0
    BY <1>1, <1>3
  <2>2. Crosses(p, a, b) <=> /\ (a[2] > p[2]) # (b[2] > p[2])
                             /\ IF rise > 0 THEN off * rise < 0 ELSE off * rise > 0
    BY <1>1, <2>1 DEF Crosses
  <2>3. rise \in Int /\ off \in Int /\ (off < 0 <=> p[1] < a[1])
    BY <1>1
  <2>4. (a[2] > p[2]) # (b[2] > p[2]) => rise # 0
    BY <1>1
  <2> HIDE DEF rise, off
  <2>5. /\ rise > 0 => (off * rise < 0 <=> off < 0)
        /\ rise < 0 => (off * rise > 0 <=> off < 0)
    BY <2>3
  <2>. QED  BY <2>2, <2>3, <2>4, <2>5
<1>. QED  BY <1>2, <1>3

\* Where edges run along the lattice, the ray from the corner of a square
\* crosses the edges that the ray from its middle crosses.
LEMMA CornerIsMiddle ==
  ASSUME NEW polygon \in Seq(Point), AlongLattice(polygon), NEW p \in Point
  PROVE  StrictlyInside(p, polygon)
           <=> StrictlyInside(<<2 * p[1] + 1, 2 * p[2] + 1>>, Doubled(polygon))
<1> DEFINE q == <<2 * p[1] + 1, 2 * p[2] + 1>>
           twice == Doubled(polygon)
           b(i) == Corner(polygon, i + 1)
<1>1. /\ DOMAIN twice = DOMAIN polygon /\ Len(twice) = Len(polygon)
      /\ \A i \in DOMAIN polygon : twice[i] = <<2 * polygon[i][1], 2 * polygon[i][2]>>
  <2>1. Len(polygon) \in Nat /\ DOMAIN polygon = 1..Len(polygon)
    OBVIOUS
  <2>. QED  BY <2>1 DEF Doubled
<1> HIDE DEF twice
<1>2. ASSUME NEW i \in DOMAIN polygon
      PROVE  Corner(twice, i + 1) = <<2 * b(i)[1], 2 * b(i)[2]>>
  <2>1. Len(polygon) \in Nat /\ i \in 1..Len(polygon) /\ DOMAIN polygon = 1..Len(polygon)
    OBVIOUS
  <2>2. 1 \in DOMAIN polygon /\ (~(i + 1 > Len(polygon)) => i + 1 \in DOMAIN polygon)
    BY <2>1
  <2>. QED  BY <1>1, <2>2 DEF Corner
<1>3. ASSUME NEW i \in DOMAIN polygon
      PROVE  Crosses(p, polygon[i], b(i)) <=> Crosses(q, twice[i], Corner(twice, i + 1))
  <2> DEFINE u == polygon[i]
             v == b(i)
             du == <<2 * u[1], 2 * u[2]>>
             dv == <<2 * v[1], 2 * v[2]>>
  <2>1. u \in Point /\ v \in Point
    BY EdgeOf
  <2>2. u[1] = v[1] \/ u[2] = v[2]
    BY DEF AlongLattice
  <2>3. twice[i] = du /\ Corner(twice, i + 1) = dv
    BY <1>1, <1>2
  <2>4. /\ p[1] \in Int /\ p[2] \in Int /\ u[1] \in Int /\ u[2] \in Int
        /\ v[1] \in Int /\ v[2] \in Int
    BY <2>1 DEF Point
  <2> HIDE DEF u, v
  <2>5. q \in Point /\ du \in Point /\ dv \in Point
    <3>1. /\ 2 * p[1] + 1 \in Int /\ 2 * p[2] + 1 \in Int
          /\ 2 * u[1] \in Int /\ 2 * u[2] \in Int /\ 2 * v[1] \in Int /\ 2 * v[2] \in Int
      <4>1. \A k \in Int : 2 * k \in Int /\ 2 * k + 1 \in Int
        OBVIOUS
      <4>. QED  BY <2>4, <4>1, Zenon
    <3>. QED  BY <3>1, Zenon DEF Point
  <2>6. Crosses(p, u, v) <=> (u[2] > p[2]) # (v[2] > p[2]) /\ p[1] < u[1]
    BY <2>1, <2>2, CrossesAlong
  <2>7. Crosses(q, du, dv) <=> (du[2] > q[2]) # (dv[2] > q[2]) /\ q[1] < du[1]
    <3>1. du[1] = dv[1] \/ du[2] = dv[2]
      BY <2>2
    <3> HIDE DEF q, du, dv
    <3>. QED  BY <2>5, <3>1, CrossesAlong
  <2>8. /\ 2 * u[2] > 2 * p[2] + 1 <=> u[2] > p[2]
        /\ 2 * v[2] > 2 * p[2] + 1 <=> v[2] > p[2]
        /\ 2 * p[1] + 1 < 2 * u[1] <=> p[1] < u[1]
    <3>1. \A j, k \in Int : /\ 2 * j > 2 * k + 1 <=> j > k
                            /\ 2 * k + 1 < 2 * j <=> k < j
      OBVIOUS
    <3>. QED  BY <2>4, <3>1, Zenon
  <2>9. /\ q[1] = 2 * p[1] + 1 /\ q[2] = 2 * p[2] + 1
        /\ du[1] = 2 * u[1] /\ du[2] = 2 * u[2] /\ dv[2] = 2 * v[2]
    OBVIOUS
  <2>10. Crosses(p, u, v) <=> Crosses(q, du, dv)
    <3> HIDE DEF q, du, dv
    <3>. QED  BY <2>6, <2>7, <2>8, <2>9
  <2>. QED  BY <2>3, <2>10 DEF u, v
<1>4. {i \in DOMAIN polygon : Crosses(p, polygon[i], b(i))}
        = {i \in DOMAIN twice : Crosses(q, twice[i], Corner(twice, i + 1))}
  <2> HIDE DEF b, q
  <2>. QED  BY <1>1, <1>3
<1>. QED  BY <1>4 DEF StrictlyInside, twice

LEMMA OneArea ==
  ASSUME NEW areas \in Seq(Areas), NEW id,
         NEW a \in FindAreaById(areas, id), NEW b \in FindAreaById(areas, id)
  PROVE  a = b
<1>1. PICK i \in DOMAIN areas : /\ a = areas[i] /\ areas[i].id = id
                                /\ \A k \in 1..(i - 1) : areas[k].id # id
  BY DEF FindAreaById
<1>2. PICK j \in DOMAIN areas : /\ b = areas[j] /\ areas[j].id = id
                                /\ \A k \in 1..(j - 1) : areas[k].id # id
  BY DEF FindAreaById
<1>3. i \in Nat \ {0} /\ j \in Nat \ {0}
  OBVIOUS
<1>4. ~(i < j) /\ ~(j < i)
  BY <1>1, <1>2, <1>3
<1>. QED  BY <1>1, <1>2, <1>3, <1>4

LEMMA InVerge ==
  ASSUME NEW p, NEW s \in Squares(p), NEW dx \in {0, 1}, NEW dy \in {0, 1},
         NEW c, c = <<s[1] + dx, s[2] + dy>>, c \notin Squares(p)
  PROVE  c \in Verge(p)
BY DEF Verge

LEMMA SquareOfPlan ==
  ASSUME DrawnInSquares, NEW areas \in Seq(Areas), ExclusionsAreValid(areas),
         NEW m \in DOMAIN areas, areas[m].type = "operation",
         IsValid(areas[m].polygon),
         NEW field, field = ToCells(areas, areas[m], TRUE),
         NEW c \in field, c \in Cells(Frame(areas))
  PROVE  /\ \/ c \in MapToOccupancyGrid(areas).free
            \/ c = FirstCorner(areas[m].polygon)
            \/ \E p \in Polygons(areas, {"exclusion"}) : c \in Verge(p)
         /\ Around(c, 1) \subseteq field => c \in MapToOccupancyGrid(areas).free
<1> DEFINE frame == Frame(areas)
           near(dx, dy) == <<c[1] + dx, c[2] + dy>>
<1>1. \A i \in DOMAIN areas : areas[i] \in Areas /\ areas[i].polygon \in Seq(Point)
  BY FieldAssumption DEF Point
<1>2. /\ field \subseteq Squares(areas[m].polygon)
      /\ \A e \in Exclusions(areas) : Squares(e.polygon) \cap field = {}
  BY DEF ToCells
<1>3. c \in Point /\ c = <<c[1], c[2]>> /\ c[1] \in Int /\ c[2] \in Int
  BY CellsArePoints DEF Point
<1>4. \A dx, dy \in {-1, 0} : near(dx, dy) \in Around(c, 1)
  <2>1. \A d \in {-1, 0} : d \in -1..1
    OBVIOUS
  <2>. QED  BY <2>1 DEF Around
<1>5. c = FirstCorner(areas[m].polygon) \/ c \in Samples(areas[m].polygon)
  <2> DEFINE p == areas[m].polygon
  <2>1. p \in Seq(Point) /\ AlongLattice(p)
    BY <1>1 DEF DrawnInSquares
  <2>2. c \in Squares(p)
    BY <1>2
  <2> HIDE DEF p
  <2>3. /\ p # <<>> /\ c \in BoundingBox(p)
        /\ StrictlyInside(<<2 * c[1] + 1, 2 * c[2] + 1>>, Doubled(p))
    BY <2>2 DEF Squares
  <2>4. StrictlyInside(c, p)
    BY <1>3, <2>1, <2>3, CornerIsMiddle
  <2>5. IsPointInsidePolygon(c, p)
    BY <2>4 DEF StrictlyInside, IsPointInsidePolygon
  <2>. QED  BY <2>3, <2>5 DEF Samples, p
<1>6. Around(c, 1) \subseteq field => c # FirstCorner(areas[m].polygon)
  <2> DEFINE p == areas[m].polygon
             least == Min(Coordinates({p}, 1))
             most == Max(Coordinates({p}, 1))
  <2>1. SUFFICES ASSUME Around(c, 1) \subseteq field
                 PROVE  c # FirstCorner(p)
    OBVIOUS
  <2>2. near(-1, 0) \in Squares(p)
    BY <1>2, <1>4, <2>1
  <2> HIDE DEF p
  <2>3. near(-1, 0)[1] \in least..most
    BY <2>2 DEF Squares, BoundingBox
  <2>4. FirstCorner(p)[1] = least
    BY DEF FirstCorner
  <2> HIDE DEF least, most
  <2>5. c[1] # least
    BY <1>3, <2>3
  <2>. QED  BY <2>4, <2>5
<1>7. ASSUME NEW i \in DOMAIN areas, areas[i].type = "exclusion",
             c \in Samples(areas[i].polygon)
      PROVE  c \in Verge(areas[i].polygon) /\ ~(Around(c, 1) \subseteq field)
  <2> DEFINE p == areas[i].polygon
  <2>1. areas[i] \in Exclusions(areas)
    BY <1>7 DEF Exclusions
  <2>2. /\ p \in Seq(Point) /\ AlongLattice(p) /\ HasWidth(p)
        /\ Squares(p) \cap field = {}
    BY <1>1, <1>2, <1>7, <2>1 DEF DrawnInSquares, ExclusionsAreValid
  <2>3. c \in Samples(p)
    BY <1>7
  <2> HIDE DEF p
  <2>4. p # <<>> /\ c \in BoundingBox(p) /\ IsPointInsidePolygon(c, p)
    BY <2>3 DEF Samples
  <2>5. ~StrictlyInside(c, p)
    <3>1. StrictlyInside(c, p) => c \in Squares(p)
      BY <1>3, <2>2, <2>4, CornerIsMiddle DEF Squares
    <3>. QED  BY <2>2, <3>1
  <2>6. PICK k \in DOMAIN p : OnEdge(c, p[k], Corner(p, k + 1))
    BY <2>4, <2>5 DEF StrictlyInside, IsPointInsidePolygon
  <2>7. p[k] \in Point /\ Corner(p, k + 1) \in Point
    BY <2>2, EdgeOf
  <2>8. Touches(c, p)
    BY <1>3, <2>6, <2>7, TouchesIsOnEdge DEF Touches
  <2>9. PICK dx \in {-1, 0}, dy \in {-1, 0} : near(dx, dy) \in Squares(p)
    BY <2>2, <2>4, <2>8 DEF HasWidth
  <2>10. ~(Around(c, 1) \subseteq field)
    BY <1>4, <2>2, <2>9
  <2>11. c \in Verge(p)
    <3>1. -dx \in {0, 1} /\ -dy \in {0, 1}
      OBVIOUS
    <3>2. c = <<near(dx, dy)[1] + (-dx), near(dx, dy)[2] + (-dy)>>
      <4>1. c[1] = c[1] + dx + (-dx) /\ c[2] = c[2] + dy + (-dy)
        BY <1>3
      <4>. QED  BY <1>3, <4>1
    <3> DEFINE s == near(dx, dy)
    <3>3. c = <<s[1] + (-dx), s[2] + (-dy)>> /\ s \in Squares(p)
      BY <2>9, <3>2
    <3>4. c \notin Squares(p)
      BY <2>2
    <3> HIDE DEF s
    <3>. QED  BY <3>1, <3>3, <3>4, InVerge
  <2>. QED  BY <2>10, <2>11 DEF p
<1>8. c \in Samples(areas[m].polygon)
        => c \in DilateFreeRegion(frame, Painted(frame, areas, KeepIn))
  <2> HIDE DEF frame
  <2>1. SUFFICES ASSUME c \in Samples(areas[m].polygon), c \in Cells(frame)
                 PROVE  c \in DilateFreeRegion(frame, Painted(frame, areas, KeepIn))
    BY DEF frame
  <2>2. c \in Painted(frame, areas, KeepIn)
    BY <2>1 DEF Painted, FillGridWithPolygon, KeepIn
  <2>3. <<0, 0>> \in Disc
    BY Reach, GridAssumption
  <2>4. c = <<c[1] + <<0, 0>>[1], c[2] + <<0, 0>>[2]>>
    BY <1>3
  <2>5. c \in Moved(Painted(frame, areas, KeepIn), <<0, 0>>)
    BY <2>2, <2>4 DEF Moved
  <2>. QED  BY <2>1, <2>3, <2>5 DEF DilateFreeRegion
<1>9. c \in Painted(frame, areas, {"exclusion"})
        => \E i \in DOMAIN areas : /\ areas[i].type = "exclusion"
                                   /\ c \in Samples(areas[i].polygon)
  <2> HIDE DEF frame
  <2>. QED  BY DEF Painted, FillGridWithPolygon
<1>10. MapToOccupancyGrid(areas).free =
         DilateFreeRegion(frame, Painted(frame, areas, KeepIn))
           \ Painted(frame, areas, {"exclusion"})
  BY DEF MapToOccupancyGrid
<1> HIDE DEF frame
<1>. QED  BY <1>5, <1>6, <1>7, <1>8, <1>9, <1>10 DEF Polygons

\* The field a request is answered for, and what is known of its path.
LEMMA PathOf ==
  ASSUME NEW areas \in Seq(Areas), NEW r \in Requests(Ids("areas")),
         r.with_exclusions,
         NEW answer, answer = HandleAreaCoverageRequest(areas, r),
         NEW c \in answer.mainland \cup answer.headland
  PROVE  /\ ExclusionsAreValid(areas)
         /\ \E m \in DOMAIN areas : \E field :
              /\ areas[m].type = "operation" /\ IsValid(areas[m].polygon)
              /\ field = ToCells(areas, areas[m], TRUE) /\ c \in field
              /\ answer = Planned(field, r.headland_loops)
<1> DEFINE found == FindAreaById(areas, r.area_id)
           area  == CHOOSE a \in found : TRUE
           field == ToCells(areas, area, r.with_exclusions)
<1>1. /\ MayBeMown(areas, r) /\ ExclusionsAreValid(areas)
      /\ answer = Planned(field, r.headland_loops)
  BY DEF HandleAreaCoverageRequest, Refused
<1>2. area \in found /\ area.type = "operation" /\ IsValid(area.polygon)
  <2>1. PICK a \in found : a.type = "operation" /\ IsValid(a.polygon)
    BY <1>1 DEF MayBeMown
  <2>2. area \in found
    BY <2>1
  <2> HIDE DEF area
  <2>3. area = a
    BY <2>1, <2>2, OneArea
  <2>. QED  BY <2>1, <2>2, <2>3
<1> HIDE DEF area
<1>3. PICK m \in DOMAIN areas : area = areas[m]
  BY <1>2 DEF FindAreaById
<1>4. r.with_exclusions = TRUE
  BY DEF Requests
<1>5. field = ToCells(areas, areas[m], TRUE)
  BY <1>3, <1>4
<1> HIDE DEF field
<1>6. c \in field
  BY <1>1 DEF Planned, Mainland, Headland, Ring, Eroded
<1>. QED  BY <1>1, <1>2, <1>3, <1>5, <1>6

\* Squares with n squares of the field around them have one around them.
LEMMA ErodedOnce ==
  ASSUME NEW field, NEW n \in Nat \ {0}, NEW c \in Eroded(field, n)
  PROVE  Around(c, 1) \subseteq field
<1>1. \A d \in -1..1 : d \in -n..n
  OBVIOUS
<1>2. Around(c, 1) \subseteq Around(c, n)
  BY <1>1 DEF Around
<1>. QED  BY <1>2 DEF Eroded

LEMMA PlanIsDrivable ==
  ASSUME DrawnInSquares, NEW areas \in Seq(Areas)
  PROVE  PlansAreDrivable(areas)
<1>1. SUFFICES ASSUME NEW r \in Requests(Ids("areas")), r.with_exclusions,
                      NEW c \in Forbidden(areas, r)
               PROVE  /\ \/ c \in UNION {Verge(p) : p \in Polygons(areas, {"exclusion"})}
                         \/ c \in {FirstCorner(p) : p \in Polygons(areas, {"operation"})}
                      /\ r.headland_loops > 0 =>
                           c \notin HandleAreaCoverageRequest(areas, r).mainland
  BY DEF PlansAreDrivable
<1> DEFINE answer == HandleAreaCoverageRequest(areas, r)
<1>2. /\ c \in answer.mainland \cup answer.headland
      /\ c \in Cells(Frame(areas)) /\ c \notin MapToOccupancyGrid(areas).free
  BY <1>1 DEF Forbidden, MapToOccupancyGrid
<1> HIDE DEF answer
<1>3. /\ ExclusionsAreValid(areas)
      /\ \E m \in DOMAIN areas : \E field :
              /\ areas[m].type = "operation" /\ IsValid(areas[m].polygon)
              /\ field = ToCells(areas, areas[m], TRUE) /\ c \in field
              /\ answer = Planned(field, r.headland_loops)
  BY <1>1, <1>2, PathOf DEF answer
<1>4. PICK m \in DOMAIN areas : \E field :
              /\ areas[m].type = "operation" /\ IsValid(areas[m].polygon)
              /\ field = ToCells(areas, areas[m], TRUE) /\ c \in field
              /\ answer = Planned(field, r.headland_loops)
  BY <1>3
<1>5. PICK field :
              /\ areas[m].type = "operation" /\ IsValid(areas[m].polygon)
              /\ field = ToCells(areas, areas[m], TRUE) /\ c \in field
              /\ answer = Planned(field, r.headland_loops)
  BY <1>4
<1>6. /\ \/ c = FirstCorner(areas[m].polygon)
         \/ \E p \in Polygons(areas, {"exclusion"}) : c \in Verge(p)
      /\ ~(Around(c, 1) \subseteq field)
  BY <1>2, <1>3, <1>5, SquareOfPlan
<1>7. areas[m].polygon \in Polygons(areas, {"operation"})
  BY <1>5 DEF Polygons
<1>8. r.headland_loops > 0 => c \notin answer.mainland
  <2>1. r.headland_loops > 0 => answer.mainland = Eroded(field, MainlandDepth)
    BY <1>5 DEF Planned, Mainland
  <2>. QED  BY <1>6, <2>1, ErodedOnce, CoverageAssumption
<1>. QED  BY <1>6, <1>7, <1>8 DEF answer

\* As long as the coverage server plans on the map the grid shows, and whatever
\* areas that holds: a path for a mission, swaths and rings, leads through a cell
\* that the grid forbids only along the right or the upper edge of an exclusion,
\* and its mainland never does
\* (coverage_server_node.cpp:53-130, :207-272, map_server_node.cpp:353-389).
THEOREM PlansAreKeptDrivable ==
  ASSUME DrawnInSquares
  PROVE  FieldSpec => []( /\ PlansStayDrivable
                          /\ \A areas \in map_grid : PlansAreDrivable(areas) )
<1>1. TypeOK => \A areas \in map_grid : PlansAreDrivable(areas)
  BY PlanIsDrivable DEF TypeOK, Lists, Entries
<1>2. PlansStayDrivable
  BY FieldTypes, PlanIsDrivable DEF PlansStayDrivable, Shown
<1>. QED  BY <1>1, <1>2, FieldTypeOK, PTL

\* With a wide tool there is nothing to except: if no ring comes as close as a
\* square to the edge of the field (0.3 m in launch/sim.launch.py:158; not the
\* default 0.065 m, coverage_server_node.cpp:17), the whole path of a mission is
\* free in every grid drawn from the map it was planned on.
WholePathIsFree(areas) ==
  \A r \in Requests(Ids("areas")) :
    r.with_exclusions /\ r.headland_loops > 0 => Forbidden(areas, r) = {}

LEMMA WidePathIsFree ==
  ASSUME DrawnInSquares, 0 \notin RingDepths, NEW areas \in Seq(Areas)
  PROVE  WholePathIsFree(areas)
<1>1. SUFFICES ASSUME NEW r \in Requests(Ids("areas")), r.with_exclusions,
                      r.headland_loops > 0, NEW c \in Forbidden(areas, r)
               PROVE  FALSE
  BY DEF WholePathIsFree
<1> DEFINE answer == HandleAreaCoverageRequest(areas, r)
<1>2. /\ c \in answer.mainland \cup answer.headland
      /\ c \in Cells(Frame(areas)) /\ c \notin MapToOccupancyGrid(areas).free
  BY <1>1 DEF Forbidden, MapToOccupancyGrid
<1> HIDE DEF answer
<1>3. /\ ExclusionsAreValid(areas)
      /\ \E m \in DOMAIN areas : \E field :
              /\ areas[m].type = "operation" /\ IsValid(areas[m].polygon)
              /\ field = ToCells(areas, areas[m], TRUE) /\ c \in field
              /\ answer = Planned(field, r.headland_loops)
  BY <1>1, <1>2, PathOf DEF answer
<1>4. PICK m \in DOMAIN areas : \E field :
              /\ areas[m].type = "operation" /\ IsValid(areas[m].polygon)
              /\ field = ToCells(areas, areas[m], TRUE) /\ c \in field
              /\ answer = Planned(field, r.headland_loops)
  BY <1>3
<1>5. PICK field :
              /\ areas[m].type = "operation" /\ IsValid(areas[m].polygon)
              /\ field = ToCells(areas, areas[m], TRUE) /\ c \in field
              /\ answer = Planned(field, r.headland_loops)
  BY <1>4
<1>6. ~(Around(c, 1) \subseteq field)
  BY <1>2, <1>3, <1>5, SquareOfPlan
<1>7. \E n \in RingDepths \cup {MainlandDepth} : c \in Eroded(field, n)
  BY <1>1, <1>2, <1>5 DEF Planned, Mainland, Headland, Ring
<1>. QED  BY <1>6, <1>7, ErodedOnce, CoverageAssumption

THEOREM WidePathsAreFree ==
  ASSUME DrawnInSquares, 0 \notin RingDepths
  PROVE  FieldSpec => [](\A areas \in map_grid : WholePathIsFree(areas))
<1>1. TypeOK => \A areas \in map_grid : WholePathIsFree(areas)
  BY WidePathIsFree DEF TypeOK, Lists, Entries
<1>. QED  BY <1>1, FieldTypeOK, PTL

=============================================================================
