---------------------------- MODULE OccupancyGrid ----------------------------
(***************************************************************************)
(* The grid that Nav2 drives by: mapToOccupancyGrid of the map server      *)
(* (src/map_server/map_server_node.cpp) and the iterator it paints polygons*)
(* with (src/map_server/polygon_iterator.hpp).                             *)
(*                                                                         *)
(* Lengths are counted in cells of grid_resolution_, and corners of        *)
(* polygons lie on corners of cells: a sample of the iterator is the lower *)
(* left corner of a cell and names it, and none lies within a tenth of a   *)
(* cell of an edge but on it.  What rounding does to a sample on the last  *)
(* row or column of a polygon is left out, and so is the Gaussian blur,    *)
(* which is off unless configured.  A cell holds 0 or 100: the grid is its *)
(* frame and the set of its cells that are free.                           *)
(***************************************************************************)
EXTENDS Integers, Sequences, FiniteSets, FiniteSetsExt

CONSTANTS
  Padding,             \* the metre around all areas
  RobotRadiusSquared,  \* the largest square of a length within robot_radius_
  CellRadius,          \* cell_radius
  MaxGridSize          \* grid_max_size_

\* cell_radius is the radius rounded to cells: no cell further off counts.
ASSUME GridAssumption ==
  /\ Padding \in Nat /\ RobotRadiusSquared \in Nat /\ CellRadius \in Nat
  /\ RobotRadiusSquared < (CellRadius + 1) * (CellRadius + 1)
  /\ MaxGridSize \in Nat

----------------------------------------------------------------------------
(* Polygons: sequences of corners <<x, y>>, closed by an edge from the last *)
(* corner to the first.                                                    *)

Corner(polygon, i) == polygon[IF i > Len(polygon) THEN 1 ELSE i]
Between(v, a, b) == (a <= v /\ v <= b) \/ (b <= v /\ v <= a)

\* An edge without a length has no distance to anything (0/0 in the code).
OnEdge(p, a, b) ==
  /\ a # b
  /\ (b[2] - a[2]) * (p[1] - a[1]) = (b[1] - a[1]) * (p[2] - a[2])
  /\ Between(p[1], a[1], b[1]) /\ Between(p[2], a[2], b[2])

\* The ray from p to the right crosses the edge from a to b.
Crosses(p, a, b) ==
  LET rise == b[2] - a[2]
      left == (p[1] - a[1]) * rise
      right == (b[1] - a[1]) * (p[2] - a[2])
  IN  /\ (a[2] > p[2]) # (b[2] > p[2])
      /\ IF rise > 0 THEN left < right ELSE left > right

IsPointInsidePolygon(p, polygon) ==
  \/ \E i \in DOMAIN polygon : OnEdge(p, polygon[i], Corner(polygon, i + 1))
  \/ Cardinality({i \in DOMAIN polygon :
       Crosses(p, polygon[i], Corner(polygon, i + 1))}) % 2 = 1

Coordinates(polygons, c) ==
  UNION {{polygon[i][c] : i \in DOMAIN polygon} : polygon \in polygons}

\* Faulty: the scan stays off the edges.
StrictlyInside(p, polygon) ==
  Cardinality({i \in DOMAIN polygon :
    Crosses(p, polygon[i], Corner(polygon, i + 1))}) % 2 = 1

BoundingBox(polygon) ==
  LET xs == Coordinates({polygon}, 1)
      ys == Coordinates({polygon}, 2)
  IN  (Min(xs)..Max(xs)) \X (Min(ys)..Max(ys))
FirstCorner(polygon) == <<Min(Coordinates({polygon}, 1)),
                          Min(Coordinates({polygon}, 2))>>

\* next() steps before it looks: the corner it starts from is never sampled.
Samples(polygon) ==
  IF polygon = <<>> THEN {}
  ELSE {p \in BoundingBox(polygon) \ {FirstCorner(polygon)} :
          IsPointInsidePolygon(p, polygon)}

----------------------------------------------------------------------------
(* The grid.                                                               *)

Clamp(size) == LET cut == IF size > MaxGridSize THEN MaxGridSize ELSE size
               IN  IF cut < 10 THEN 10 ELSE cut

\* Without areas the frame is 20 m wide around the origin; nothing in it is
\* free, so the model need not know how many cells that is.
EmptyFrame == [x |-> 0, y |-> 0, width |-> 10, height |-> 10]

Frame(areas) ==
  LET polygons == {areas[i].polygon : i \in DOMAIN areas}
      xs == Coordinates(polygons, 1)
      ys == Coordinates(polygons, 2)
  IN  IF areas = <<>> THEN EmptyFrame
      ELSE [x |-> Min(xs) - Padding, y |-> Min(ys) - Padding,
            width  |-> Clamp(Max(xs) - Min(xs) + 2 * Padding),
            height |-> Clamp(Max(ys) - Min(ys) + 2 * Padding)]

Cells(frame) == (frame.x .. frame.x + frame.width - 1)
                  \X (frame.y .. frame.y + frame.height - 1)

FillGridWithPolygon(frame, polygon) == Samples(polygon) \cap Cells(frame)

Disc == {d \in (-CellRadius..CellRadius) \X (-CellRadius..CellRadius) :
           d[1] * d[1] + d[2] * d[2] <= RobotRadiusSquared}
Moved(cells, d) == {<<c[1] + d[1], c[2] + d[2]>> : c \in cells}

\* From a snapshot: what becomes free does not spread further.
DilateFreeRegion(frame, free) ==
  (UNION {Moved(free, d) : d \in Disc}) \cap Cells(frame)

Painted(frame, areas, types) ==
  UNION {FillGridWithPolygon(frame, areas[i].polygon) :
           i \in {j \in DOMAIN areas : areas[j].type \in types}}

KeepIn == {"operation", "navigation"}

\* Faulty: the wall is moved outward after the exclusions are stamped.
ExclusionsStampedFirst(areas) ==
  LET frame == Frame(areas)
  IN  [frame |-> frame,
       free |-> DilateFreeRegion(frame, Painted(frame, areas, KeepIn)
                                  \ Painted(frame, areas, {"exclusion"}))]
\* Faulty: the wall is not moved.
WallNotMoved(areas) ==
  LET frame == Frame(areas)
  IN  [frame |-> frame, free |-> Painted(frame, areas, KeepIn)
                                  \ Painted(frame, areas, {"exclusion"})]

\* Pass 1 paints what the mower must stay in, pass 2 moves that wall outward,
\* pass 3 stamps the exclusions.
MapToOccupancyGrid(areas) ==
  LET frame == Frame(areas)
  IN  [frame |-> frame,
       free |-> DilateFreeRegion(frame, Painted(frame, areas, KeepIn))
                  \ Painted(frame, areas, {"exclusion"})]

=============================================================================
