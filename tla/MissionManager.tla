--------------------------- MODULE MissionManager ---------------------------
(***************************************************************************)
(* The mission state machine of the mower                                  *)
(* (src/mission_manager/mission_manager_node.cpp): a single-threaded ROS   *)
(* node that asks the coverage server for a path, drives to the start of   *)
(* each path segment (/navigate_to_pose), mows it (/follow_path), and      *)
(* returns to the dock (/dock_robot_nearest) when the path is finished or  *)
(* the battery is low.                                                     *)
(*                                                                         *)
(* Every callback of the node runs to completion under state_mutex_ on the *)
(* one executor thread, so every callback is one action.  The action       *)
(* servers and the coverage service run on their own: a goal travels to    *)
(* its server, is accepted or rejected, ends, and its answer waits until   *)
(* the executor runs the callback for it.                                  *)
(*                                                                         *)
(* A path is reduced to the number of segments it was split into           *)
(* (PathSegmentation is about the split itself), a goal to the action it   *)
(* was sent to, the segment it carries and how far it has got.             *)
(***************************************************************************)
EXTENDS Integers

CONSTANTS
  GoalIds,            \* slots for goals without an answer yet (bounds TLC)
  MaxSegments,        \* the longest path, in segments (bounds TLC)
  kMaxActionRetries,  \* 5 in the code
  BatteryReadings,    \* values /power may carry
  BatteryLow,         \* battery_low_percent_
  BatteryCharged,     \* battery_charged_percent_
  Autostart,          \* autostart_
  TargetConfigured,   \* target_area_id_ is not empty
  Lossy,              \* servers that may die with the work they hold
  LateResults         \* may a mission start before the last one's goals and
                      \* retry timers have run out?

Actions == {"navigate", "follow", "dock"}

ASSUME ConstantsAssumption ==
  /\ MaxSegments \in Nat \ {0}
  /\ kMaxActionRetries \in Nat
  /\ BatteryReadings \subseteq Int
  /\ BatteryLow \in Nat /\ BatteryCharged \in Nat
  /\ Autostart \in BOOLEAN /\ TargetConfigured \in BOOLEAN
  /\ Lossy \subseteq Actions \cup {"coverage"}
  /\ LateResults \in BOOLEAN

VARIABLES
  state,                   \* state_
  error_reason,            \* the reason setState(ERROR, ...) was given
  battery_percent,         \* battery_percent_
  coverage_in_flight,      \* coverage_in_flight_
  coverage_requests,       \* requests the coverage server still has to answer
  follow_path_goal_active, \* follow_path_goal_active_
  dock_goal_active,        \* dock_goal_active_
  path_segments,           \* path_segments_.size()
  current_segment_index,   \* current_segment_index_, counted from 0
  pending_path,            \* the segment pending_path_ is a copy of
  retry_count,             \* navigate_/follow_path_/dock_retry_count_
  retry_timer,             \* is the one-shot retry timer of the action armed?
  goals,                   \* goals whose answer the node has not handled
  mowed,                   \* ghost: segments of this path mown to their end
  attempts,                \* ghost: goals sent for the leg the robot is on
  lost                     \* ghost: servers that have lost work

missionVars  == <<state, error_reason>>
coverageVars == <<coverage_in_flight, coverage_requests>>
flagVars     == <<follow_path_goal_active, dock_goal_active>>
pathVars     == <<path_segments, current_segment_index, pending_path, mowed>>
retryVars    == <<retry_count, retry_timer>>
goalVars     == <<goals, attempts>>
vars == <<missionVars, battery_percent, coverageVars, flagVars, pathVars,
          retryVars, goalVars, lost>>

----------------------------------------------------------------------------
(* States and goals.                                                       *)

MissionStates == {"IDLE", "REQUESTING_COVERAGE", "NAVIGATING_TO_START",
                  "MOWING", "RETURNING_TO_DOCK", "CHARGING", "ERROR"}

\* The process after the undefined behaviour of mission_manager_node.cpp:199.
Crashed == "CRASHED"

\* The state in which goals of the action are sent, retried and waited for.
HomeState(a) == CASE a = "navigate" -> "NAVIGATING_TO_START"
                  [] a = "follow"   -> "MOWING"
                  [] a = "dock"     -> "RETURNING_TO_DOCK"

ErrorReasons == ({"unavailable", "repeatedly failed"} \X Actions)
                  \cup {<<"collapsed", "none">>, <<"none", "none">>}

Failures   == {"aborted", "canceled"}
GoalStatus == {"requested", "executing"}                 \* at the server
                \cup {"rejected", "succeeded"} \cup Failures  \* on the way back

\* cancel: a cancel request is on its way to the goal or has reached it;
\* stale (ghost): the mission has moved past the leg the goal was sent for.
Goal == [action : Actions, segment : 0..MaxSegments, status : GoalStatus,
         cancel : BOOLEAN, stale : BOOLEAN]
NoGoal == [action |-> "none", segment |-> 0, status |-> "none",
           cancel |-> FALSE, stale |-> FALSE]
NewGoal(a, seg) == [action |-> a, segment |-> seg, status |-> "requested",
                    cancel |-> FALSE, stale |-> FALSE]

GoalMaps == [GoalIds -> Goal \cup {NoGoal}]

AtServer(goal) == goal.status \in {"requested", "executing"}
GoalsOf(a) == {g \in GoalIds : goals[g].action = a}

\* Faulty: the cancel request is forgotten.
CancelNone(gs, a) == gs

\* async_cancel_all_goals: every goal of the action that has not ended, also
\* one not accepted yet, whose request the server takes before the cancel's.
CancelAll(gs, a) ==
  [g \in GoalIds |-> IF gs[g].action = a /\ AtServer(gs[g])
                       THEN [gs[g] EXCEPT !.cancel = TRUE] ELSE gs[g]]

\* The robot starts another leg: what is still out belongs to an earlier one.
StartLeg(gs) ==
  [g \in GoalIds |-> IF gs[g].action \in Actions
                       THEN [gs[g] EXCEPT !.stale = TRUE] ELSE gs[g]]

Answered(g) == [goals EXCEPT ![g] = NoGoal]

\* What the model assumes of time unless LateResults: a cancelled goal ends,
\* and a 3 s retry timer runs out, before the 5 s wait for the dock server is
\* over and an operator restarts the mission, or before the battery is full.
Settled == /\ GoalsOf("navigate") \cup GoalsOf("follow") = {}
           /\ \A a \in Actions : ~retry_timer[a]
MayStartMission == LateResults \/ Settled

----------------------------------------------------------------------------
(* What the handlers are built from.                                       *)

EnterError(reason) == state' = "ERROR" /\ error_reason' = reason

\* The ghost attempts counts no further than one past what RetryCap allows.
OneMore(n) == IF n > kMaxActionRetries + 1 THEN n ELSE n + 1

\* The action server answers within 5 s and the n+1st goal of this leg is
\* sent, or it does not and the mission ends in ERROR.
ServerAvailable(gs, a, seg, n) ==
  /\ \E g \in GoalIds : /\ gs[g].action = "none"
                        /\ goals' = [gs EXCEPT ![g] = NewGoal(a, seg)]
  /\ attempts' = OneMore(n)
  /\ state' = HomeState(a)
  /\ UNCHANGED error_reason
ServerUnavailable(gs, a, n) ==
  /\ goals' = gs
  /\ attempts' = n
  /\ EnterError(<<"unavailable", a>>)

SendNavigateToStartGoal(gs, seg, n) ==
  /\ \/ ServerAvailable(gs, "navigate", seg, n)
     \/ ServerUnavailable(gs, "navigate", n)
  /\ UNCHANGED dock_goal_active

NoteFollowGoal == follow_path_goal_active' = TRUE

SendFollowPathGoal(gs, n) ==
  /\ \/ /\ ServerAvailable(gs, "follow", pending_path, n)
        /\ NoteFollowGoal
     \/ /\ ServerUnavailable(gs, "follow", n)
        /\ UNCHANGED follow_path_goal_active
  /\ UNCHANGED dock_goal_active

SendDockGoal(gs, n) ==
  \/ /\ ServerAvailable(gs, "dock", 0, n)
     /\ dock_goal_active' = TRUE
  \/ /\ ServerUnavailable(gs, "dock", n)
     /\ UNCHANGED dock_goal_active

\* Faulty: a failure is not counted.
CountNoFailure(a) == UNCHANGED retry_count
\* Faulty: the new timer is not kept.
ForgetTimer(a) == UNCHANGED retry_timer
\* Faulty: the count is compared before it is incremented.
GiveUpLate(a) == retry_count[a] > kMaxActionRetries

\* The code's count runs on past kMaxActionRetries + 1, but is only compared
\* with kMaxActionRetries: the model stops it there.
CountFailure(a) == retry_count' = [retry_count EXCEPT ![a] =
                     IF @ > kMaxActionRetries THEN @ ELSE @ + 1]
ArmTimer(a) == retry_timer' = [retry_timer EXCEPT ![a] = TRUE]
GiveUp(a) == retry_count[a] + 1 > kMaxActionRetries

\* A failure outside the action's home state is ignored.
ScheduleRetry(a) ==
  \/ /\ state # HomeState(a)
     /\ UNCHANGED <<missionVars, retryVars>>
  \/ /\ state = HomeState(a) /\ ~GiveUp(a)
     /\ CountFailure(a)
     /\ ArmTimer(a)
     /\ UNCHANGED missionVars
  \/ /\ state = HomeState(a) /\ GiveUp(a)
     /\ CountFailure(a)
     /\ EnterError(<<"repeatedly failed", a>>)
     /\ UNCHANGED retry_timer

ScheduleNavigateRetry   == ScheduleRetry("navigate")
ScheduleFollowPathRetry == ScheduleRetry("follow")
ScheduleDockRetry       == ScheduleRetry("dock")

\* Faulty: a second request while one is out.
AlwaysRequest == TRUE
NoneInFlight == ~coverage_in_flight

\* The first disjunct is also wait_for_service(0s) finding no service.
RequestCoveragePath ==
  \/ UNCHANGED coverageVars
  \/ /\ NoneInFlight
     /\ coverage_in_flight' = TRUE
     /\ coverage_requests' = coverage_requests + 1

----------------------------------------------------------------------------
(* Callbacks of the start service, the subscription and the 1 s timer.     *)

HandleStartService ==
  /\ state \in {"IDLE", "ERROR"}
  /\ MayStartMission
  /\ state' = "REQUESTING_COVERAGE" /\ error_reason' = <<"none", "none">>
  /\ RequestCoveragePath
  /\ UNCHANGED <<battery_percent, flagVars, pathVars, retryVars, goalVars, lost>>

BatteryCallback ==
  /\ battery_percent' \in BatteryReadings
  /\ UNCHANGED <<missionVars, coverageVars, flagVars, pathVars, retryVars,
                 goalVars, lost>>

TickIdle ==
  /\ state = "IDLE"
  /\ Autostart /\ TargetConfigured
  /\ state' = "REQUESTING_COVERAGE"
  /\ UNCHANGED <<error_reason, coverageVars, flagVars, pathVars, retryVars,
                 goalVars>>

TickRequestingCoverage ==
  /\ state = "REQUESTING_COVERAGE"
  /\ RequestCoveragePath
  /\ UNCHANGED <<missionVars, flagVars, pathVars, retryVars, goalVars>>

TurnBack == battery_percent <= BatteryLow /\ ~dock_goal_active

TickNavigatingToStart ==
  /\ state = "NAVIGATING_TO_START" /\ TurnBack
  /\ SendDockGoal(StartLeg(CancelAll(goals, "navigate")), 0)
  /\ UNCHANGED <<coverageVars, follow_path_goal_active, pathVars, retryVars>>

\* The follow_path goal is cancelled only while the flag says there is one.
TickMowing ==
  /\ state = "MOWING" /\ TurnBack
  /\ LET gs == IF follow_path_goal_active THEN CancelAll(goals, "follow")
                                          ELSE goals
     IN  SendDockGoal(StartLeg(gs), 0)
  /\ follow_path_goal_active' = FALSE
  /\ UNCHANGED <<coverageVars, pathVars, retryVars>>

TickCharging ==
  /\ state = "CHARGING"
  /\ battery_percent >= BatteryCharged
  /\ MayStartMission
  /\ state' = "REQUESTING_COVERAGE"
  /\ UNCHANGED <<error_reason, coverageVars, flagVars, pathVars, retryVars,
                 goalVars>>

Tick == /\ \/ TickIdle
           \/ TickRequestingCoverage
           \/ TickNavigatingToStart
           \/ TickMowing
           \/ TickCharging
        /\ UNCHANGED <<battery_percent, lost>>

----------------------------------------------------------------------------
(* The answer of the coverage service.                                     *)

PlanPath(n) ==
  /\ path_segments' = n
  /\ current_segment_index' = 0
  /\ pending_path' = 0
  /\ mowed' = {}
  /\ retry_count' = [retry_count EXCEPT !["navigate"] = 0]
  /\ SendNavigateToStartGoal(StartLeg(goals), 0, 0)
  /\ UNCHANGED <<follow_path_goal_active, retry_timer>>

\* Faulty: an answer leaves the flag set.
LeaveInFlight == UNCHANGED coverage_in_flight
ClearInFlight == coverage_in_flight' = FALSE

\* An error code; or a path so broken up that less than half of it is left;
\* or a path of no poses (a field the headlands use up has no swaths and is a
\* success all the same), where the empty vector is indexed; or a path of n
\* segments.  The callback does not look at state_.
CoverageResponse ==
  /\ coverage_requests > 0
  /\ coverage_requests' = coverage_requests - 1
  /\ ClearInFlight
  /\ \/ UNCHANGED <<missionVars, flagVars, pathVars, retryVars, goalVars>>
     \/ /\ TargetConfigured
        /\ path_segments' \in 1..MaxSegments
        /\ EnterError(<<"collapsed", "none">>)
        /\ UNCHANGED <<flagVars, current_segment_index, pending_path, mowed,
                       retryVars, goalVars>>
     \/ /\ TargetConfigured
        /\ path_segments' = 0 /\ current_segment_index' = 0
        /\ state' = Crashed
        /\ UNCHANGED <<error_reason, flagVars, pending_path, mowed, retryVars,
                       goalVars>>
     \/ /\ TargetConfigured
        /\ \E n \in 1..MaxSegments : PlanPath(n)
  /\ UNCHANGED <<battery_percent, lost>>

----------------------------------------------------------------------------
(* The callbacks of the three actions.                                     *)

\* Faulty: off by one.
PastLastSegmentLate(i) == i > path_segments
PastLastSegment(i) == i >= path_segments

\* Faulty: the path of the segment before is kept.
KeepPending(i) == UNCHANGED pending_path
SetPending(i) == pending_path' = i

AdvanceToNextSegment(gs, counts) ==
  /\ current_segment_index' = current_segment_index + 1
  /\ \/ /\ PastLastSegment(current_segment_index')
        /\ retry_count' = counts
        /\ SendDockGoal(StartLeg(gs), 0)
        /\ UNCHANGED pending_path
     \/ /\ ~PastLastSegment(current_segment_index')
        /\ SetPending(current_segment_index')
        /\ retry_count' = [counts EXCEPT !["navigate"] = 0]
        /\ SendNavigateToStartGoal(StartLeg(gs), pending_path', 0)

Awaits(g, a, statuses) == goals[g].action = a /\ goals[g].status \in statuses
ResultOf(g, a) == Awaits(g, a, {"succeeded"} \cup Failures)
callbackUnchanged == UNCHANGED <<battery_percent, coverageVars, lost>>

\* goal_response_callback with a null handle.
Rejected(g, a) ==
  /\ Awaits(g, a, {"rejected"})
  /\ goals' = Answered(g)
  /\ ScheduleRetry(a)
  /\ UNCHANGED <<pathVars, attempts>> /\ callbackUnchanged

NavigateRejected(g) == Rejected(g, "navigate") /\ UNCHANGED flagVars
FollowPathRejected(g) ==
  /\ Rejected(g, "follow")
  /\ follow_path_goal_active' = FALSE
  /\ UNCHANGED dock_goal_active
DockRejected(g) ==
  /\ Rejected(g, "dock")
  /\ dock_goal_active' = FALSE
  /\ UNCHANGED follow_path_goal_active

\* A result in another state is ignored; whose result it is is not asked.
NavigateResult(g) ==
  /\ ResultOf(g, "navigate")
  /\ \/ /\ state # "NAVIGATING_TO_START"
        /\ goals' = Answered(g)
        /\ UNCHANGED <<missionVars, flagVars, retryVars, attempts>>
     \/ /\ state = "NAVIGATING_TO_START" /\ goals[g].status = "succeeded"
        /\ retry_count' = [retry_count EXCEPT !["navigate"] = 0]
        /\ SendFollowPathGoal(StartLeg(Answered(g)), 0)
        /\ UNCHANGED retry_timer
     \/ /\ state = "NAVIGATING_TO_START" /\ goals[g].status \in Failures
        /\ goals' = Answered(g)
        /\ ScheduleNavigateRetry
        /\ UNCHANGED <<flagVars, attempts>>
  /\ UNCHANGED pathVars /\ callbackUnchanged

\* The flag is cleared before the state is looked at.
FollowPathResult(g) ==
  /\ ResultOf(g, "follow")
  /\ follow_path_goal_active' = FALSE
  /\ \/ /\ state # "MOWING"
        /\ goals' = Answered(g)
        /\ UNCHANGED <<missionVars, dock_goal_active, pathVars, retryVars,
                       attempts>>
     \/ /\ state = "MOWING" /\ goals[g].status = "succeeded"
        /\ AdvanceToNextSegment(Answered(g), [retry_count EXCEPT !["follow"] = 0])
        /\ mowed' = mowed \cup (IF goals[g].stale THEN {}
                                                  ELSE {goals[g].segment})
        /\ UNCHANGED <<path_segments, retry_timer>>
     \/ /\ state = "MOWING" /\ goals[g].status \in Failures
        /\ goals' = Answered(g)
        /\ ScheduleFollowPathRetry
        /\ UNCHANGED <<dock_goal_active, pathVars, attempts>>
  /\ callbackUnchanged

\* Success is not guarded by the state.
DockResult(g) ==
  /\ ResultOf(g, "dock")
  /\ goals' = Answered(g)
  /\ dock_goal_active' = FALSE
  /\ \/ /\ goals[g].status = "succeeded"
        /\ retry_count' = [retry_count EXCEPT !["dock"] = 0]
        /\ state' = "CHARGING"
        /\ UNCHANGED <<error_reason, retry_timer>>
     \/ /\ goals[g].status \in Failures
        /\ ScheduleDockRetry
  /\ UNCHANGED <<follow_path_goal_active, pathVars, attempts>>
  /\ callbackUnchanged

HandleAnswer(g) == \/ NavigateRejected(g)   \/ NavigateResult(g)
                   \/ FollowPathRejected(g) \/ FollowPathResult(g)
                   \/ DockRejected(g)       \/ DockResult(g)

\* Faulty: the timer, which is periodic, goes on firing.
DisarmNever(a) == UNCHANGED retry_timer
Disarm(a) == retry_timer' = [retry_timer EXCEPT ![a] = FALSE]

\* The retry timer of the action fires: it cancels itself, and sends the goal
\* again if the mission is still where the goal belongs.
Fires(a) ==
  /\ retry_timer[a] /\ Disarm(a)
  /\ state # HomeState(a) => UNCHANGED <<missionVars, flagVars, goalVars>>
  /\ UNCHANGED <<pathVars, retry_count>> /\ callbackUnchanged

NavigateRetryTimer ==
  /\ Fires("navigate")
  /\ state = "NAVIGATING_TO_START" =>
       /\ SendNavigateToStartGoal(goals, pending_path, attempts)
       /\ UNCHANGED follow_path_goal_active
FollowPathRetryTimer ==
  /\ Fires("follow")
  /\ state = "MOWING" => SendFollowPathGoal(goals, attempts)
DockRetryTimer ==
  /\ Fires("dock")
  /\ state = "RETURNING_TO_DOCK" => /\ SendDockGoal(goals, attempts)
                                    /\ UNCHANGED follow_path_goal_active

----------------------------------------------------------------------------
(* The servers (Nav2, docking_helper, coverage_server) seen from this node.*)

nodeUnchanged == UNCHANGED <<missionVars, battery_percent, coverage_in_flight,
                             flagVars, pathVars, retryVars, attempts>>

\* Nav2 runs one goal per action: accepting a goal aborts the running one.
Preempts(g, h) == /\ h # g
                  /\ goals[h].action = goals[g].action
                  /\ goals[g].action # "dock"
                  /\ goals[h].status = "executing"
AcceptGoal(g) ==
  /\ goals[g].status = "requested"
  /\ goals' = [h \in GoalIds |->
       IF h = g THEN [goals[h] EXCEPT !.status = "executing"]
       ELSE IF Preempts(g, h) THEN [goals[h] EXCEPT !.status = "aborted"]
       ELSE goals[h]]
  /\ nodeUnchanged /\ UNCHANGED <<coverage_requests, lost>>

RejectGoal(g) ==
  /\ goals[g].status = "requested"
  /\ goals' = [goals EXCEPT ![g].status = "rejected"]
  /\ nodeUnchanged /\ UNCHANGED <<coverage_requests, lost>>

\* A goal under cancellation may still succeed or abort first.
EndGoal(g) ==
  /\ goals[g].status = "executing"
  /\ \E s \in {"succeeded"} \cup Failures :
       /\ s = "canceled" => goals[g].cancel
       /\ goals' = [goals EXCEPT ![g].status = s]
  /\ nodeUnchanged /\ UNCHANGED <<coverage_requests, lost>>

\* A server that dies takes its work with it: no callback is ever run for it.
LoseGoal(g) ==
  /\ AtServer(goals[g]) /\ goals[g].action \in Lossy
  /\ goals' = [goals EXCEPT ![g] = NoGoal]
  /\ lost' = lost \cup {goals[g].action}
  /\ nodeUnchanged /\ UNCHANGED coverage_requests
LoseCoverageRequest ==
  /\ coverage_requests > 0 /\ "coverage" \in Lossy
  /\ coverage_requests' = coverage_requests - 1
  /\ lost' = lost \cup {"coverage"}
  /\ nodeUnchanged /\ UNCHANGED goals

----------------------------------------------------------------------------
Init ==
  /\ state = "IDLE" /\ error_reason = <<"none", "none">>
  /\ battery_percent = 100
  /\ coverage_in_flight = FALSE /\ coverage_requests = 0
  /\ follow_path_goal_active = FALSE /\ dock_goal_active = FALSE
  /\ path_segments = 0 /\ current_segment_index = 0 /\ pending_path = 0
  /\ retry_count = [a \in Actions |-> 0]
  /\ retry_timer = [a \in Actions |-> FALSE]
  /\ goals = [g \in GoalIds |-> NoGoal]
  /\ mowed = {} /\ attempts = 0 /\ lost = {}

Next ==
  /\ state # Crashed
  /\ \/ HandleStartService
     \/ BatteryCallback
     \/ Tick
     \/ CoverageResponse
     \/ NavigateRetryTimer \/ FollowPathRetryTimer \/ DockRetryTimer
     \/ \E g \in GoalIds : \/ HandleAnswer(g) \/ AcceptGoal(g)
                           \/ RejectGoal(g) \/ EndGoal(g) \/ LoseGoal(g)
     \/ LoseCoverageRequest

\* The executor serves every timer and every answer; the servers answer every
\* goal they hold; the coverage service comes up and answers.  Nothing makes
\* an operator press start, a battery drain, or a server die.
Fairness ==
  /\ WF_vars(Tick) /\ WF_vars(CoverageResponse)
  /\ WF_vars(NavigateRetryTimer)
  /\ WF_vars(FollowPathRetryTimer)
  /\ WF_vars(DockRetryTimer)
  /\ \A g \in GoalIds : /\ WF_vars(HandleAnswer(g))
                        /\ WF_vars(AcceptGoal(g) \/ RejectGoal(g))
                        /\ WF_vars(EndGoal(g))

Spec == Init /\ [][Next]_vars
FairSpec == Spec /\ Fairness

----------------------------------------------------------------------------
(* What this node makes of the mission that Mission describes: a path is   *)
(* what is mown and driven along, and forgotten when the mission fails.    *)

Phase == CASE state = "IDLE"                -> "resting"
           [] state = "REQUESTING_COVERAGE" -> "planning"
           [] state = "NAVIGATING_TO_START" -> "driving"
           [] state = "MOWING"              -> "mowing"
           [] state = "RETURNING_TO_DOCK"   -> "homing"
           [] state = "CHARGING"            -> "charging"
           [] state \in {"ERROR", Crashed}  -> "failed"
HasPath == state \in {"NAVIGATING_TO_START", "MOWING", "RETURNING_TO_DOCK",
                      "CHARGING"}

AbstractMission == INSTANCE Mission WITH
  phase    <- Phase,
  segments <- IF HasPath THEN path_segments ELSE 0,
  mown     <- IF HasPath THEN mowed ELSE {}

----------------------------------------------------------------------------
(* Properties.                                                             *)

\* The type of every variable; pending_path_ always names a segment, so no
\* callback indexes path_segments_ past its end.
TypeOK ==
  /\ state \in MissionStates \cup {Crashed}
  /\ error_reason \in ErrorReasons
  /\ battery_percent \in Int
  /\ coverage_in_flight \in BOOLEAN
  /\ coverage_requests \in Nat
  /\ follow_path_goal_active \in BOOLEAN
  /\ dock_goal_active \in BOOLEAN
  /\ path_segments \in 0..MaxSegments
  /\ current_segment_index \in 0..MaxSegments
  /\ pending_path \in 0..(MaxSegments - 1)
  /\ retry_count \in [Actions -> 0..(kMaxActionRetries + 1)]
  /\ retry_timer \in [Actions -> BOOLEAN]
  /\ goals \in GoalMaps
  /\ mowed \subseteq 0..MaxSegments
  /\ attempts \in Nat
  /\ lost \subseteq Lossy

\* A coverage answer can only meet the state that asked for it, although its
\* callback never checks: while a request is out (or was lost), the mission
\* is in REQUESTING_COVERAGE, and there is never a second one.
CoverageOnlyWhileRequesting ==
  /\ coverage_requests <= 1
  /\ coverage_requests = 1 => coverage_in_flight
  /\ coverage_in_flight => state = "REQUESTING_COVERAGE"

\* Docking is never doubled: at most one dock goal is out, the flag says so
\* exactly (unless the server died), only in RETURNING_TO_DOCK, and no retry
\* is armed beside it.  DockResult relies on it to enter CHARGING unchecked.
OneDockGoal ==
  /\ \A g, h \in GoalsOf("dock") : g = h
  /\ GoalsOf("dock") # {} => dock_goal_active
  /\ dock_goal_active => \/ GoalsOf("dock") # {}
                         \/ "dock" \in lost
  /\ dock_goal_active => /\ state = "RETURNING_TO_DOCK"
                         /\ ~retry_timer["dock"]
  /\ retry_timer["dock"] => state = "RETURNING_TO_DOCK"

Driving == {"NAVIGATING_TO_START", "MOWING", "RETURNING_TO_DOCK"}

\* In a driving state something will move the mission on: a goal of the
\* state's action is out or its retry timer is armed, unless a server died.
NeverStalls ==
  \A a \in Actions : state = HomeState(a) =>
    GoalsOf(a) # {} \/ retry_timer[a] \/ a \in lost

\* When missions do not overlap, exactly one thing moves the mission on: one
\* live goal or one armed timer, never both, never two.
OneDriver ==
  \A a \in Actions : state = HomeState(a) =>
    IF retry_timer[a] THEN GoalsOf(a) = {}
    ELSE \E g \in GoalIds : GoalsOf(a) = {g} /\ ~goals[g].stale

\* The segments behind the index, and no others, have been mown by a goal of
\* their own: no segment is skipped, and "coverage complete" means complete.
MowedInOrder ==
  state \in Driving \cup {"CHARGING"} => mowed = 0..(current_segment_index - 1)

\* Once the mission has left a goal behind (low battery), no navigate or
\* follow goal drives the robot without being cancelled: not while it heads
\* for the dock, nor after docking has been given up.
NothingDrivesAgainstTheDock ==
  state \in {"RETURNING_TO_DOCK", "CHARGING", "ERROR"} =>
    \A g \in GoalsOf("navigate") \cup GoalsOf("follow") :
      AtServer(goals[g]) => goals[g].cancel

\* No leg sends more than 1 + kMaxActionRetries goals, and navigation gives
\* up after exactly that many (the retry cap of docs/phase2_test_plans.md).
RetryCap ==
  /\ attempts <= kMaxActionRetries + 1
  /\ error_reason = <<"repeatedly failed", "navigate">> =>
       attempts = kMaxActionRetries + 1

\* The node does what a mission promises (Mission): one path at a time, its
\* segments mown in order, home only from the path and charging only from the
\* way home, whatever becomes of the goals, retries and answers in between.
ImplementsMission == AbstractMission!Spec

\* Every run of driving and mowing comes to an end: back to the dock or ERROR.
MowingEnds ==
  state \in {"NAVIGATING_TO_START", "MOWING"} ~>
    state \in {"RETURNING_TO_DOCK", "ERROR"}

\* Every attempt to dock comes to an end: charging or ERROR.
DockingEnds == state = "RETURNING_TO_DOCK" ~> state \in {"CHARGING", "ERROR"}

\* "no-op if already in flight; retries automatically otherwise": a mission
\* waiting for coverage always has, or again gets, a request at the server.
CoverageIsRequestedAgain ==
  state = "REQUESTING_COVERAGE" ~>
    coverage_requests > 0 \/ state # "REQUESTING_COVERAGE"

=============================================================================
