--------------------------- MODULE PathSegmentation ---------------------------
(***************************************************************************)
(* The way of a coverage path from the swaths Fields2Cover has laid to the *)
(* segments that are mown.  The coverage server makes a path of the swaths *)
(* (toMsg, src/coverage_server/utils.h); MissionManager                    *)
(* (src/mission_manager/mission_manager_node.cpp:181-204) cuts it where it *)
(* jumps, deals with the fragments this leaves, removes vertices where it  *)
(* turns back on itself, and gives up if too little is left.               *)
(*                                                                         *)
(* A pose is a position on a line, rounded to decimetres: a turn is then   *)
(* either none or a full reversal.  Orientations are left out.  Nothing    *)
(* runs between two steps of one node: a step is a pass of a loop, so that *)
(* the invariants say what each loop keeps.                                *)
(***************************************************************************)
EXTENDS Integers, Sequences, SequencesExt, FiniteSets, FiniteSetsExt

CONSTANT Plans    \* sequences of swaths, a swath being a sequence of points

ASSUME SegmentationAssumption == Plans \subseteq Seq(Seq(Int))

kPoseSpacing        == 5
kMaxSegmentJump     == 10
kMinSegmentPoses    == 3
kMinSegmentLength   == 3
kSpikeLegMaxLength  == 3

VARIABLES
  swaths,     \* what the coverage server has planned
  path,       \* response->path.poses
  segments,   \* the segments, in the end path_segments_
  merged,     \* those of them that are kept
  split,      \* ghost: the segments as splitting has left them
  next,       \* where the loop is
  stage       \* which loop it is, or how it ended

vars == <<swaths, path, segments, merged, split, next, stage>>

Stages == {"planning", "splitting", "merging", "clearing",
           "ready", "collapsed", "undefined"}

Dist(a, b) == IF a < b THEN b - a ELSE a - b
Gap(s, t) == Dist(Last(s), Head(t))
SegmentLength(s) ==
  LET total[i \in 1..Len(s)] ==
        IF i = 1 THEN 0 ELSE total[i - 1] + Dist(s[i - 1], s[i])
  IN  IF s = <<>> THEN 0 ELSE total[Len(s)]
IsDegenerate(s) == \/ Len(s) < kMinSegmentPoses
                   \/ SegmentLength(s) < kMinSegmentLength

----------------------------------------------------------------------------
(* toMsg.                                                                  *)

\* Faulty: the corners of the swath are its poses.
OneStep(p, q) == 1
\* Poses on the way from p to q are at most kPoseSpacing apart.
Steps(p, q) == IF p = q THEN 1
               ELSE (Dist(p, q) + kPoseSpacing - 1) \div kPoseSpacing

Leg(p, q) == [k \in 1..Steps(p, q) |-> p + ((q - p) * (k - 1)) \div Steps(p, q)]
SwathPoses(swath) ==
  LET legs[j \in 1..Len(swath)] ==
        IF j = 1 THEN <<>> ELSE legs[j - 1] \o Leg(swath[j - 1], swath[j])
  IN  IF swath = <<>> THEN <<>> ELSE Append(legs[Len(swath)], Last(swath))

Enter(loop) == stage' = loop /\ next' = 1

PlanSwath ==
  /\ stage = "planning" /\ next <= Len(swaths)
  /\ path' = path \o SwathPoses(swaths[next]) /\ next' = next + 1
  /\ UNCHANGED <<swaths, segments, merged, split, stage>>

Respond ==
  /\ stage = "planning" /\ next > Len(swaths)
  /\ Enter("splitting")
  /\ UNCHANGED <<swaths, path, segments, merged, split>>

----------------------------------------------------------------------------
(* splitPathIntoSegments.                                                  *)

\* The poses at which a segment begins, besides the first.
Cuts(p) == {i \in 2..Len(p) : Dist(p[i - 1], p[i]) > kMaxSegmentJump}
NextCut(p, from) == Min({i \in Cuts(p) : i > from} \cup {Len(p) + 1})

\* The loop as far as the next segments.push_back(current).
SplitOff ==
  /\ stage = "splitting" /\ next <= Len(path)
  /\ next' = NextCut(path, next)
  /\ segments' = Append(segments, SubSeq(path, next, next' - 1))
  /\ UNCHANGED <<swaths, path, merged, split, stage>>

EndSplit ==
  /\ stage = "splitting" /\ next > Len(path)
  /\ split' = segments /\ Enter("merging")
  /\ UNCHANGED <<swaths, path, segments, merged>>

\* Faulty: fragments are merged whatever the gap.
MayMergeAlways(s, t) == TRUE
MayMerge(s, t) == Gap(s, t) <= kMaxSegmentJump

\* Faulty: a last fragment is dropped even if nothing else is left.
KeepNever(i) == ~IsDegenerate(segments[i])
\* A segment is kept unless it is a fragment that has a neighbour.
Keep(i) == \/ ~IsDegenerate(segments[i])
           \/ i = Len(segments) /\ merged = <<>>

Merging == /\ stage = "merging" /\ next <= Len(segments)
           /\ next' = next + 1
           /\ UNCHANGED <<swaths, path, split, stage>>

KeepSegment == /\ Merging /\ Keep(next)
               /\ merged' = Append(merged, segments[next])
               /\ UNCHANGED segments

\* A fragment goes to the front of the next segment, or is dropped if that
\* would make a jump.
MergeForward ==
  /\ Merging /\ ~Keep(next) /\ next < Len(segments)
  /\ segments' = IF MayMerge(segments[next], segments[next + 1])
                   THEN [segments EXCEPT ![next + 1] = segments[next] \o @]
                   ELSE segments
  /\ UNCHANGED merged

\* The last one goes to the end of the last one kept, or is dropped.
MergeBack ==
  /\ Merging /\ ~Keep(next) /\ next = Len(segments)
  /\ merged' = IF merged # <<>> /\ MayMerge(Last(merged), segments[next])
                 THEN [merged EXCEPT ![Len(merged)] = @ \o segments[next]]
                 ELSE merged
  /\ UNCHANGED segments

EndMerge ==
  /\ stage = "merging" /\ next > Len(segments)
  /\ segments' = merged /\ merged' = <<>> /\ Enter("clearing")
  /\ UNCHANGED <<swaths, path, split>>

----------------------------------------------------------------------------
(* removeReversalSpikes, and what the callback makes of the rest.          *)

Spike(s, i) ==
  LET in  == s[i] - s[i - 1]
      out == s[i + 1] - s[i]
  IN  /\ in * out < 0
      /\ \/ Dist(s[i - 1], s[i]) < kSpikeLegMaxLength
         \/ Dist(s[i], s[i + 1]) < kSpikeLegMaxLength
Spikes(s) == {i \in 2..(Len(s) - 1) : Spike(s, i)}

\* Faulty: the scan is not started again.
ScanOnce(i) == i + 1
\* The segment to scan after a spike of the i-th has been removed.
ScanAgain(i) == i

RemoveSpike ==
  /\ stage = "clearing" /\ next <= Len(segments) /\ Spikes(segments[next]) # {}
  /\ segments' = [segments EXCEPT ![next] = RemoveAt(@, Min(Spikes(@)))]
  /\ next' = ScanAgain(next)
  /\ UNCHANGED <<swaths, path, merged, split, stage>>

NextSegment ==
  /\ stage = "clearing" /\ next <= Len(segments) /\ Spikes(segments[next]) = {}
  /\ next' = next + 1
  /\ UNCHANGED <<swaths, path, segments, merged, split, stage>>

Retained(segs) == FoldLeft(LAMBDA n, s : n + Len(s), 0, segs)

\* The rest is weighed, and path_segments_[0] is copied.
Finish ==
  /\ stage = "clearing" /\ next > Len(segments)
  /\ stage' = IF Retained(segments) < Len(path) \div 2 THEN "collapsed"
              ELSE IF segments = <<>> THEN "undefined" ELSE "ready"
  /\ UNCHANGED <<swaths, path, segments, merged, split, next>>

----------------------------------------------------------------------------
Init == /\ swaths \in Plans /\ stage = "planning" /\ next = 1
        /\ path = <<>> /\ segments = <<>> /\ merged = <<>> /\ split = <<>>
Next == \/ PlanSwath \/ Respond
        \/ SplitOff \/ EndSplit
        \/ KeepSegment \/ MergeForward \/ MergeBack \/ EndMerge
        \/ RemoveSpike \/ NextSegment \/ Finish
Spec == Init /\ [][Next]_vars

----------------------------------------------------------------------------
(* Properties.                                                             *)

Ended == stage \in {"ready", "collapsed", "undefined"}
\* The loop over the segments is done, its result not yet moved.
Merged == stage = "merging" /\ next > Len(segments)

\* No segment jumps: consecutive poses are at most kMaxSegmentJump apart
\* (the local costmap prunes beyond), also where fragments were joined or a
\* spike was taken out.
NoJumpInside ==
  \A list \in {segments, merged} :
    \A j \in 1..Len(list) : Cuts(list[j]) = {}

Occurs(t, s) ==
  \E at \in 0..(Len(s) - Len(t)) : \A k \in 1..Len(t) : s[at + k] = t[k]

\* "densified so downstream segment-splitting (kMaxSegmentJump) only triggers
\* on true discontinuities, not sparse sampling" (utils.h:177): a swath longer
\* than the spacing of poses is neither cut nor taken for a fragment.
SwathsStayWhole ==
  Merged =>
    \A i \in 1..Len(swaths) : SegmentLength(swaths[i]) > kPoseSpacing =>
      \E j \in 1..Len(merged) : Occurs(SwathPoses(swaths[i]), merged[j])

\* The numbers of the segments that are no fragments.
Whole(segs) == {k \in 1..Len(segs) : ~IsDegenerate(segs[k])}
Rank(S, k) == Cardinality({j \in S : j <= k})

\* What the treatment of fragments comes to: no segment that is not a fragment
\* is lost, and every fragment is, except the last segment, which stays if
\* there is nothing else, and which is joined to the last one kept if it is
\* close (the fragments between them are gone by then).
WholeSegmentsStay ==
  Merged /\ split # <<>> =>
    LET whole == Whole(split)
        last  == Last(split)
        Joined(k) == /\ \A j \in whole : j <= k
                     /\ IsDegenerate(last) /\ Gap(split[k], last) <= kMaxSegmentJump
    IN  IF whole = {} THEN merged = <<last>>
        ELSE /\ Len(merged) = Cardinality(whole)
             /\ \A k \in whole :
                  merged[Rank(whole, k)] =
                    IF Joined(k) THEN split[k] \o last ELSE split[k]

\* A path with poses leaves a first segment with poses: neither the index at
\* mission_manager_node.cpp:199 nor path.poses.front() is out of range.
SomethingToMow ==
  /\ stage = "undefined" => path = <<>>
  /\ stage = "ready" => \A j \in 1..Len(segments) : segments[j] # <<>>

\* No spike is left for the controller, and taking one out of the way never
\* creates another.
NoSpikeLeft == Ended => \A j \in 1..Len(segments) : Spikes(segments[j]) = {}

=============================================================================
