-------------------------------- MODULE Mission --------------------------------
(***************************************************************************)
(* What a mission of the mower promises, without goals, timers, retries,   *)
(* flags or a battery: a path is planned; its segments are mown one after  *)
(* the other, each from its own start; the mower goes home when they are   *)
(* all mown or whenever it has to; and a mission that cannot go on has     *)
(* failed until somebody starts the next.  MissionManager implements it.   *)
(***************************************************************************)
EXTENDS Naturals

CONSTANT MaxSegments

VARIABLES
  phase,      \* what the mower is doing
  segments,   \* how many segments the path has
  mown        \* which of them have been mown, counted from 0

mvars == <<phase, segments, mown>>

Phases == {"resting", "planning", "driving", "mowing", "homing", "charging",
           "failed"}
OnPath == {"driving", "mowing"}

NoPath == segments' = 0 /\ mown' = {}
SamePath == UNCHANGED <<segments, mown>>

Begin == /\ phase \in {"resting", "charging", "failed"}
         /\ phase' = "planning" /\ NoPath

Plan == /\ phase = "planning" /\ phase' = "driving"
        /\ segments' \in 1..MaxSegments /\ mown' = {}

Arrive == phase = "driving" /\ phase' = "mowing" /\ SamePath

\* The segment that is next in order, and then the way to the one after it,
\* or home if there is none.
Mow == /\ phase = "mowing"
       /\ \E next \in 0..(segments - 1) :
            /\ mown = 0..(next - 1)
            /\ mown' = 0..next
            /\ phase' = IF next + 1 = segments THEN "homing" ELSE "driving"
       /\ UNCHANGED segments

TurnBack == phase \in OnPath /\ phase' = "homing" /\ SamePath

Dock == phase = "homing" /\ phase' = "charging" /\ SamePath

\* Any leg may fail; so may the last step of one, with the segment mown.
Fail == /\ phase \in OnPath \cup {"planning", "homing"}
        /\ phase' = "failed" /\ NoPath

Init == phase = "resting" /\ segments = 0 /\ mown = {}
Next == Begin \/ Plan \/ Arrive \/ Mow \/ TurnBack \/ Dock \/ Fail
Spec == Init /\ [][Next]_mvars

=============================================================================
