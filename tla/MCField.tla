------------------------------- MODULE MCField -------------------------------
(* Small fields for the runs of Field: a lawn with a reentrant corner or a *)
(* three-cornered way with a closed ring; and beside it a pond in the      *)
(* corner of the lawn, a flood over all of it, an exclusion of two points, *)
(* or a way that leaves the lawn.                                          *)
EXTENDS Field

AnArea(id, type, polygon) == [id |-> id, type |-> type, polygon |-> polygon]
Box(x1, y1, x2, y2) == <<<<x1, y1>>, <<x2, y1>>, <<x2, y2>>, <<x1, y2>>>>

MCAreas ==
  {AnArea("a1", "operation", <<<<0, 0>>, <<8, 0>>, <<8, 4>>, <<4, 4>>,
                               <<4, 8>>, <<0, 8>>>>),
   AnArea("a1", "navigation", <<<<0, 0>>, <<6, 0>>, <<0, 6>>, <<0, 0>>>>),
   AnArea("a2", "exclusion", Box(2, 2, 5, 5)),
   AnArea("a2", "exclusion", Box(-1, -1, 9, 9)),
   AnArea("a2", "exclusion", <<<<10, 0>>, <<11, 0>>>>),
   AnArea("a2", "navigation", Box(7, 1, 11, 3))}

ASSUME MCFieldAssumption == DrawnInSquares

MCStations == {[id |-> "d1"]}

=============================================================================
