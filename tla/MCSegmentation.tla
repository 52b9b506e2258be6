--------------------------- MODULE MCSegmentation ---------------------------
(* Plans for TLC: swaths of a single point, which make every path of a few *)
(* poses, and longer ones: a mainland swath each way, a ring that comes    *)
(* back, a short one, a far one, one without a length.                     *)
EXTENDS PathSegmentation

CONSTANTS Positions, MaxPoses, MaxSwaths

Points == {<<p>> : p \in Positions}
LongSwaths == {<<0, 18>>, <<30, 2>>, <<4, 26, 4>>, <<5, 7>>, <<50, 58, 66>>,
               <<16, 16>>, <<20>>}
MCPlans == BoundedSeq(Points, MaxPoses) \cup BoundedSeq(LongSwaths, MaxSwaths)

=============================================================================
