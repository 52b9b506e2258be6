-------------------------------- MODULE Field --------------------------------
(***************************************************************************)
(* The map server with the two pictures of the field that are made from    *)
(* its map: the grid Nav2 drives by, drawn by the map server, and the      *)
(* paths the mission mows, planned by the coverage server from the last    *)
(* map that has reached it.                                                *)
(***************************************************************************)
EXTENDS MapServer, CoverageServer

VARIABLE coverage_map    \* areas of current_map_ of the coverage server

fieldVars == <<vars, coverage_map>>

\* The message may be late; it is kept when the map server has gone.
MapCallback ==
  /\ published # NoMap /\ coverage_map # published["areas"]
  /\ coverage_map' = published["areas"]
  /\ UNCHANGED vars

FieldInit == Init /\ coverage_map = <<>>
FieldNext == (Next /\ UNCHANGED coverage_map) \/ MapCallback
FieldSpec == FieldInit /\ [][FieldNext]_fieldVars

----------------------------------------------------------------------------
(* Another definition of the points of a polygon: those on an edge, and    *)
(* those the polygon winds around, an odd number of times where it crosses *)
(* itself.                                                                 *)

ASSUME FieldAssumption == \A a \in Areas : a.polygon \in Seq(Int \X Int)

Turn(p, a, b) == (b[1] - a[1]) * (p[2] - a[2]) - (p[1] - a[1]) * (b[2] - a[2])

Winds(p, polygon) ==
  LET b(i)  == Corner(polygon, i + 1)
      ups   == {i \in DOMAIN polygon : /\ polygon[i][2] <= p[2]
                                       /\ p[2] < b(i)[2]
                                       /\ Turn(p, polygon[i], b(i)) > 0}
      downs == {i \in DOMAIN polygon : /\ b(i)[2] <= p[2]
                                       /\ p[2] < polygon[i][2]
                                       /\ Turn(p, polygon[i], b(i)) < 0}
  IN  (Cardinality(ups) - Cardinality(downs)) % 2 = 1

Touches(p, polygon) ==
  \E i \in DOMAIN polygon :
    LET a == polygon[i]
        b == Corner(polygon, i + 1)
    IN  /\ a # b /\ Turn(p, a, b) = 0
        /\ Between(p[1], a[1], b[1]) /\ Between(p[2], a[2], b[2])

Ground(polygon) == {p \in BoundingBox(polygon) :
                      Winds(p, polygon) \/ Touches(p, polygon)}

\* What the iterator visits: all of it but one corner.
Visited(polygon) == Ground(polygon) \ {FirstCorner(polygon)}

Polygons(areas, types) ==
  {areas[i].polygon : i \in {j \in DOMAIN areas : areas[j].type \in types}}

\* The cells of the frame within a robot radius of one of these.
Within(frame, cells) ==
  {c \in Cells(frame) : \E d \in cells :
     (c[1] - d[1]) * (c[1] - d[1]) + (c[2] - d[2]) * (c[2] - d[2])
       <= RobotRadiusSquared}

ExclusionsAreLethal(areas) ==
  LET free == MapToOccupancyGrid(areas).free
  IN  \A polygon \in Polygons(areas, {"exclusion"}) :
        Visited(polygon) \cap free = {}

WallIsKept(areas) ==
  LET grid == MapToOccupancyGrid(areas)
      held(polygon) == Ground(polygon) \cap Cells(grid.frame)
      seen(polygon) == Visited(polygon) \cap Cells(grid.frame)
      inside   == UNION {held(p) : p \in Polygons(areas, KeepIn)}
      visited  == UNION {seen(p) : p \in Polygons(areas, KeepIn)}
      excluded == UNION {held(p) : p \in Polygons(areas, {"exclusion"})}
  IN  /\ grid.free \subseteq Within(grid.frame, inside)
      /\ Within(grid.frame, visited) \ excluded \subseteq grid.free

\* What CoverageServer takes for granted of the polygons it works on: edges
\* along the lattice, and exclusions with a square at every point of an edge.
\* (A part without a width is cut out of no field, and yet painted.)
AlongLattice(polygon) ==
  \A i \in DOMAIN polygon : LET a == polygon[i]
                                b == Corner(polygon, i + 1)
                            IN  a[1] = b[1] \/ a[2] = b[2]
HasWidth(polygon) ==
  \A p \in BoundingBox(polygon) : Touches(p, polygon) =>
    \E dx, dy \in {-1, 0} : <<p[1] + dx, p[2] + dy>> \in Squares(polygon)
DrawnInSquares ==
  \A a \in Areas : a.type # "navigation" /\ IsValid(a.polygon) =>
    AlongLattice(a.polygon) /\ (a.type = "exclusion" => HasWidth(a.polygon))

\* The squares right of a polygon and above it: outside, but with the corner
\* that names them on its edge, and the iterator takes an edge for inside.
Verge(polygon) == {<<c[1] + dx, c[2] + dy>> :
                     c \in Squares(polygon), dx, dy \in {0, 1}} \ Squares(polygon)

\* The squares of the path for r that the grid keeps the mower out of.
Forbidden(areas, r) ==
  LET answer == HandleAreaCoverageRequest(areas, r)
      grid == MapToOccupancyGrid(areas)
  IN  (answer.mainland \cup answer.headland)
        \cap (Cells(grid.frame) \ grid.free)

\* With exclusions, as a mission asks for them.
PlansAreDrivable(areas) ==
  \A r \in Requests(Ids("areas")) : r.with_exclusions =>
    /\ Forbidden(areas, r) \subseteq
         (UNION {Verge(p) : p \in Polygons(areas, {"exclusion"})})
           \cup {FirstCorner(p) : p \in Polygons(areas, {"operation"})}
    /\ r.headland_loops > 0 =>
         HandleAreaCoverageRequest(areas, r).mainland
           \cap Forbidden(areas, r) = {}

\* Every field there may be, so that TLC looks at the ground of each once.
Fields == {[areas |-> s, lethal |-> ExclusionsAreLethal(s),
            kept |-> WallIsKept(s), drivable |-> PlansAreDrivable(s)] :
             s \in {l \in SeqOf(Areas, Cardinality(Ids("areas"))) : UniqueIds(l)}}
Shown == {f \in Fields : f.areas \in map_grid}

----------------------------------------------------------------------------
(* Properties.                                                             *)

\* "grid_exclusion_wins ... exclusion cells ==100" (docs/phase2_test_plans.md
\* :166): whatever areas an exclusion overlaps and in whatever order they
\* were saved, none of its cells is free but the one the iterator skips.
ExclusionsStayLethal == \A f \in Shown : f.lethal

\* The wall the mower must stay in is one robot radius outside the areas: what
\* is within a radius of their ground, as far as the grid holds it, is free
\* unless it is excluded, and nothing else is.  (Of the corner the iterator
\* skips it is only said that it may be free.)
KeepInWall == \A f \in Shown : f.kept

\* A path planned from the map that the grid shows leads through cells that
\* the grid forbids only where a ring of the headland runs along the right or
\* the upper edge of an exclusion, as far as the grid reaches; mainland inside
\* headlands never does.  (Nothing is said of the corner the iterator skips.)
PlansStayDrivable == \A f \in Shown : f.areas = coverage_map => f.drivable

=============================================================================
