--------------------------- MODULE CoverageServer ---------------------------
(***************************************************************************)
(* The coverage server (src/coverage_server/coverage_server_node.cpp and   *)
(* utils.h): it keeps the last map it has seen, and answers a request for  *)
(* the coverage of an area from it.  Answering changes nothing, so it is   *)
(* an operator on the map and the request.                                 *)
(*                                                                         *)
(* The ground of a polygon is the set of unit squares in it, which is exact *)
(* for polygons whose edges run along the lattice.  Fields2Cover, which    *)
(* clips, erodes and lays swaths and rings, is external: the model says how *)
(* many squares they keep away from the edge of the field.                 *)
(***************************************************************************)
EXTENDS OccupancyGrid

\* Whole squares between the edge of the field and what is laid in it, which
\* operation_width_ and the resolution decide: the loops' middles lie half a
\* width, one and a half, two and a half from the edge, the mainland three.
CONSTANTS
  RingDepths,      \* of the squares the rings of the headland lead through
  MainlandDepth    \* of the outermost squares the mainland reaches into

ASSUME CoverageAssumption ==
  RingDepths \subseteq Nat /\ MainlandDepth \in Nat \ {0}

NoId == ""
Requests(ids) == [area_id : ids \cup {NoId}, with_exclusions : BOOLEAN,
                  headland_loops : {0, 3}]

----------------------------------------------------------------------------
(* Ground.                                                                 *)

Doubled(polygon) == [i \in DOMAIN polygon |->
                       <<2 * polygon[i][1], 2 * polygon[i][2]>>]

\* The squares with their middle in the polygon, named by their lower left
\* corner.
Squares(polygon) ==
  IF polygon = <<>> THEN {}
  ELSE {c \in BoundingBox(polygon) :
          StrictlyInside(<<2 * c[1] + 1, 2 * c[2] + 1>>, Doubled(polygon))}

Around(c, n) == {<<c[1] + dx, c[2] + dy>> : dx, dy \in -n..n}
Eroded(field, n) == {c \in field : Around(c, n) \subseteq field}
Ring(field, n) == Eroded(field, n) \ Eroded(field, n + 1)

----------------------------------------------------------------------------
(* The service.                                                            *)

IsValid(polygon) == Len(polygon) >= 3

\* The first area with the id, or none.
FindAreaById(areas, id) ==
  {areas[i] : i \in {j \in DOMAIN areas :
     areas[j].id = id /\ \A k \in 1..(j - 1) : areas[k].id # id}}

Exclusions(areas) == {areas[i] : i \in {j \in DOMAIN areas :
                                          areas[j].type = "exclusion"}}

\* Any broken exclusion refuses the request, wherever it lies; the valid ones
\* that do not touch the field are skipped, which changes nothing.
ExclusionsAreValid(areas) == \A e \in Exclusions(areas) : IsValid(e.polygon)

\* Faulty: exclusions are looked up and not cut out.
UncutCells(areas, area, with_exclusions) == Squares(area.polygon)

\* The area without the exclusions.
ToCells(areas, area, with_exclusions) ==
  Squares(area.polygon)
    \ (IF with_exclusions
         THEN UNION {Squares(e.polygon) : e \in Exclusions(areas)} ELSE {})

\* Swaths are laid somewhere in these squares.
Mainland(field, headland_loops) ==
  IF headland_loops > 0 THEN Eroded(field, MainlandDepth) ELSE field

\* The rings follow the swaths in the path, unless headlands use up the field.
Headland(field, headland_loops) ==
  IF headland_loops > 0 /\ Mainland(field, headland_loops) # {}
    THEN UNION {Ring(field, n) : n \in RingDepths} ELSE {}

\* The squares that the path leads through.
Refused(reason) == [code |-> reason, mainland |-> {}, headland |-> {}]
Planned(field, headland_loops) ==
  [code |-> "success", mainland |-> Mainland(field, headland_loops),
   headland |-> Headland(field, headland_loops)]

\* An area that exists, of the type to mow, with three corners.
MayBeMown(areas, r) ==
  \E area \in FindAreaById(areas, r.area_id) :
    area.type = "operation" /\ IsValid(area.polygon)

HandleAreaCoverageRequest(areas, r) ==
  LET area  == CHOOSE a \in FindAreaById(areas, r.area_id) : TRUE
      field == ToCells(areas, area, r.with_exclusions)
  IN  IF ~MayBeMown(areas, r) THEN Refused("invalid area")
      ELSE IF r.with_exclusions /\ ~ExclusionsAreValid(areas)
        THEN Refused("invalid exclusion")
      ELSE IF field = {} THEN Refused("invalid exclusion")
      ELSE Planned(field, r.headland_loops)

=============================================================================
