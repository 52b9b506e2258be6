----------------------------- MODULE MapRecorder -----------------------------
(***************************************************************************)
(* The map_recorder node (src/map_recorder/map_recorder_node.cpp): the     *)
(* actions /record_area_boundary, which collects the points of an area,    *)
(* and /record_docking_station, which drives onto a dock until it charges; *)
(* both end by saving what they recorded with the map server.              *)
(*                                                                         *)
(* Every accepted goal gets a detached thread, which shares plain member   *)
(* variables with the callbacks on the executor.  Each action is what lies *)
(* between two accesses to them; the steps that use the vector of points   *)
(* may overlap with another use of it (Racing), after which anything goes. *)
(***************************************************************************)
EXTENDS Naturals, Sequences

CONSTANTS
  AreaGoals,    \* goals of /record_area_boundary
  DockGoals,    \* goals of /record_docking_station
  NoGoal,       \* a null goal handle
  MaxPoints,    \* the longest boundary (bounds TLC)
  OneAtATime,   \* do clients wait for a result before they send a goal?
  Timeouts      \* may a server take longer than the node waits for it?

Goals == AreaGoals \cup DockGoals

ASSUME RecorderAssumption ==
  /\ AreaGoals \cap DockGoals = {}
  /\ NoGoal \notin Goals
  /\ MaxPoints \in Nat
  /\ OneAtATime \in BOOLEAN /\ Timeouts \in BOOLEAN

VARIABLES
  handle,                     \* state of the goal handle (see GoalLifecycle)
  pc,                         \* where the goal's detached thread is
  is_recording_area, is_charging_detected, auto_recording_mode,
  docking_goal_handle,        \* the last docking goal
  area_boundary_goal_handle,  \* the last area goal
  current_area_name,          \* the goal that set current_area_name_
  current_boundary_points,    \* the goal each point was recorded for
  services,                   \* do the three recording services exist?
  drive, drive_cancel,        \* the drive_on_heading goal; asked to cancel?
  save,                       \* the request to the map server
  saved,                      \* ghost: what the request holds
  seen_charging,              \* ghost: charging was detected for the goal
  undefined                   \* has a data race had its effect?

flagVars   == <<is_recording_area, auto_recording_mode>>
handleVars == <<docking_goal_handle, area_boundary_goal_handle>>
areaVars   == <<flagVars, area_boundary_goal_handle, current_area_name,
                current_boundary_points, services, undefined>>
dockVars   == <<is_charging_detected, docking_goal_handle, drive, drive_cancel,
                seen_charging>>
saveVars   == <<save, saved>>
vars == <<handle, pc, areaVars, dockVars, saveVars>>

Lifecycle == INSTANCE GoalLifecycle

NoArea == [name |-> NoGoal, points |-> <<>>]
Areas == [name : Goals \cup {NoGoal},
          points : UNION {[1..n -> AreaGoals] : n \in 0..MaxPoints}]
VectorSteps == {"push", "size", "build"}
AreaSteps == {"start", "loop", "check", "auto", "leave", "canceled", "failed",
              "quit", "reset"} \cup VectorSteps
DockSteps == {"server", "sent", "wait", "cancel", "stop", "recheck", "pose"}
Steps == {"none", "save", "saving", "done", "gaveup"} \cup AreaSteps \cup DockSteps

At(g, step)   == pc[g] = step
Goto(g, step) == pc' = [pc EXCEPT ![g] = step]
Active(g)     == g # NoGoal /\ handle[g] \in Lifecycle!Running
Finish(g, outcome) ==
  handle' = [handle EXCEPT ![g] =
    IF Lifecycle!MayEnd(@, outcome) THEN outcome ELSE "broken"]
AbortGoal(g) == Finish(g, "aborted") /\ Goto(g, "done")

\* Another thread is in the middle of using the vector of points.
Racing(g) == \E h \in AreaGoals \ {g} : pc[h] \in VectorSteps
UseVector(g) == undefined' \in (IF Racing(g) THEN BOOLEAN ELSE {FALSE})

----------------------------------------------------------------------------
(* Callbacks of the executor.                                              *)

\* A client that waits sends a goal when every earlier one has its result.
MaySend(g) == /\ handle[g] = "unsent"
              /\ OneAtATime => \A h \in Goals : ~Active(h)

\* "Another recording is already in progress".
Busy == Active(docking_goal_handle) \/ is_recording_area

RejectGoal(g) == /\ handle' = [handle EXCEPT ![g] = "rejected"]
                 /\ UNCHANGED <<pc, areaVars, dockVars, saveVars>>

\* An empty name is rejected as well.
HandleDockingGoal(g) ==
  /\ g \in DockGoals /\ MaySend(g)
  /\ \/ RejectGoal(g)
     \/ /\ ~Busy
        /\ handle' = [handle EXCEPT ![g] = "executing"]
        /\ is_charging_detected' = FALSE
        /\ docking_goal_handle' = g
        /\ Goto(g, "server")
        /\ UNCHANGED <<areaVars, drive, drive_cancel, seen_charging, saveVars>>

\* Faulty: the points of the last recording are kept.
KeepPoints == UNCHANGED current_boundary_points
ClearPoints == current_boundary_points' = <<>>

\* So are an empty name and a bad type.
HandleAreaBoundaryGoal(g) ==
  /\ g \in AreaGoals /\ MaySend(g)
  /\ \/ RejectGoal(g)
     \/ /\ ~Busy
        /\ handle' = [handle EXCEPT ![g] = "executing"]
        /\ UseVector(g) /\ ClearPoints
        /\ is_recording_area' = TRUE
        /\ area_boundary_goal_handle' = g
        /\ current_area_name' = g
        /\ auto_recording_mode' \in BOOLEAN
        /\ services' = TRUE
        /\ Goto(g, "start")
        /\ UNCHANGED <<dockVars, saveVars>>

\* Both cancel handlers accept.
HandleCancel(g) ==
  /\ handle[g] = "executing"
  /\ handle' = [handle EXCEPT ![g] = "canceling"]
  /\ UNCHANGED <<pc, areaVars, dockVars, saveVars>>

\* Points beyond MaxPoints are not kept.
Push(thread, g) ==
  /\ UseVector(thread)
  /\ current_boundary_points' =
       IF Len(current_boundary_points) < MaxPoints
         THEN Append(current_boundary_points, g) ELSE current_boundary_points

callbackUnchanged == UNCHANGED <<handle, pc, handleVars, current_area_name,
                                 services, drive, drive_cancel, saveVars>>

HandleSetRecordingMode ==
  /\ services /\ is_recording_area
  /\ auto_recording_mode' \in BOOLEAN
  /\ callbackUnchanged
  /\ UNCHANGED <<is_recording_area, current_boundary_points, undefined,
                 is_charging_detected, seen_charging>>

\* The point is recorded for whoever started the last recording.
HandleAddBoundaryPoint ==
  /\ services /\ is_recording_area /\ ~auto_recording_mode
  /\ Push(NoGoal, area_boundary_goal_handle)
  /\ callbackUnchanged
  /\ UNCHANGED <<flagVars, is_charging_detected, seen_charging>>

HandleFinishAreaRecording ==
  /\ services /\ is_recording_area /\ area_boundary_goal_handle # NoGoal
  /\ is_recording_area' = FALSE
  /\ callbackUnchanged
  /\ UNCHANGED <<auto_recording_mode, current_boundary_points, undefined,
                 is_charging_detected, seen_charging>>

ChargingStatusCallback ==
  /\ is_charging_detected' \in BOOLEAN
  /\ seen_charging' = [g \in DockGoals |-> \/ seen_charging[g]
                         \/ /\ is_charging_detected' /\ Active(g)]
  /\ callbackUnchanged
  /\ UNCHANGED <<flagVars, current_boundary_points, undefined>>

Callback == \/ HandleSetRecordingMode \/ HandleAddBoundaryPoint
            \/ HandleFinishAreaRecording \/ ChargingStatusCallback

----------------------------------------------------------------------------
(* The detached thread of an area goal.                                    *)

areaStepUnchanged == UNCHANGED <<auto_recording_mode, area_boundary_goal_handle,
                                 current_area_name, dockVars, save>>
\* getMowerPose: the transform may be missing.
StartRecording(g) ==
  /\ At(g, "start") /\ areaStepUnchanged
  /\ \/ Push(g, g) /\ Goto(g, "loop")
     \/ Goto(g, "failed") /\ UNCHANGED <<current_boundary_points, undefined>>
  /\ UNCHANGED <<handle, is_recording_area, services, saved>>

TestRecording(g) ==
  /\ At(g, "loop")
  /\ Goto(g, IF is_recording_area THEN "check" ELSE "leave")
  /\ UNCHANGED <<handle, areaVars, dockVars, saveVars>>

\* Faulty: a cancel request is accepted and forgotten.
CanceledNever(g) == FALSE
\* Faulty: is_active() is asked instead of is_canceling().
ActiveIsCanceling(g) == handle[g] \in Lifecycle!Running
IsCanceling(g) == handle[g] = "canceling"

TestCanceling(g) ==
  /\ At(g, "check")
  /\ \/ ~IsCanceling(g) /\ Goto(g, IF g \in AreaGoals THEN "auto" ELSE "wait")
     \/ IsCanceling(g) /\ Goto(g, IF g \in AreaGoals THEN "canceled" ELSE "cancel")
  /\ UNCHANGED <<handle, areaVars, dockVars, saveVars>>

\* In automatic mode the robot has moved, or not, or its pose is not known.
TestAuto(g) ==
  /\ At(g, "auto")
  /\ \/ Goto(g, "loop")
     \/ auto_recording_mode /\ (Goto(g, "push") \/ Goto(g, "failed"))
  /\ UNCHANGED <<handle, areaVars, dockVars, saveVars>>

PushPoint(g) ==
  /\ At(g, "push") /\ areaStepUnchanged
  /\ Push(g, g) /\ Goto(g, "loop")
  /\ UNCHANGED <<handle, is_recording_area, services, saved>>

ReportCanceled(g) ==
  /\ At(g, "canceled")
  /\ Finish(g, "canceled")
  /\ Goto(g, IF g \in AreaGoals THEN "quit" ELSE "done")
  /\ UNCHANGED <<areaVars, dockVars, saveVars>>
ReportFailed(g) ==
  /\ At(g, "failed")
  /\ Finish(g, "aborted")
  /\ Goto(g, "quit")
  /\ UNCHANGED <<areaVars, dockVars, saveVars>>

\* Faulty: the recording is left open.
LeaveRecording == UNCHANGED is_recording_area
EndRecording == is_recording_area' = FALSE

\* After canceled() or abort(): the flag, then the services.
QuitRecording(g) ==
  /\ At(g, "quit") /\ areaStepUnchanged
  /\ EndRecording
  /\ Goto(g, "reset")
  /\ UNCHANGED <<handle, current_boundary_points, services, saved, undefined>>

RemoveServices(g) ==
  /\ At(g, "reset") \/ At(g, "leave")
  /\ areaStepUnchanged
  /\ services' = FALSE
  /\ Goto(g, IF At(g, "reset") THEN "done" ELSE "size")
  /\ UNCHANGED <<handle, is_recording_area, current_boundary_points, saved,
                 undefined>>

CheckPolygon(g) ==
  /\ At(g, "size") /\ UseVector(g)
  /\ IF Len(current_boundary_points) < 3
       THEN AbortGoal(g) ELSE Goto(g, "build") /\ UNCHANGED handle
  /\ UNCHANGED <<flagVars, area_boundary_goal_handle, current_area_name,
                 current_boundary_points, services, dockVars, saveVars>>

BuildArea(g) ==
  /\ At(g, "build") /\ UseVector(g) /\ areaStepUnchanged
  /\ saved' = [saved EXCEPT ![g] = [name   |-> current_area_name,
                                    points |-> current_boundary_points]]
  /\ Goto(g, "save")
  /\ UNCHANGED <<handle, is_recording_area, services, current_boundary_points>>

----------------------------------------------------------------------------
(* The detached thread of a docking goal.                                  *)

dockStepUnchanged == UNCHANGED <<areaVars, is_charging_detected,
                                 docking_goal_handle, seen_charging, saveVars>>

SendDriveGoal(g) ==
  /\ At(g, "server") /\ dockStepUnchanged
  /\ \/ AbortGoal(g) /\ UNCHANGED drive
     \/ /\ drive' = [drive EXCEPT ![g] = "requested"]
        /\ Goto(g, "sent") /\ UNCHANGED handle
  /\ UNCHANGED drive_cancel

\* drive_goal_handle_future.wait_for(5s)
DriveAnswer(g) ==
  /\ At(g, "sent") /\ dockStepUnchanged
  /\ \/ /\ drive[g] = "requested" /\ Timeouts
        /\ Finish(g, "aborted") /\ Goto(g, "gaveup")
     \/ drive[g] = "rejected" /\ AbortGoal(g)
     \/ /\ drive[g] \in {"executing", "ended"}
        /\ Goto(g, "wait") /\ UNCHANGED handle
  /\ UNCHANGED <<drive, drive_cancel>>

\* Faulty: the loop has no time limit.
NoTimeLimit == FALSE
TimeLimit == TRUE

\* The loop waits until charging is detected, or for 60 s, and then looks for
\* a cancel request (TestCanceling).
TestCharging(g) ==
  /\ At(g, "wait")
  /\ Goto(g, IF is_charging_detected THEN "stop" ELSE "check")
  /\ UNCHANGED <<handle, areaVars, dockVars, saveVars>>
RunOutOfTime(g) ==
  /\ At(g, "wait") /\ TimeLimit
  /\ Goto(g, "stop")
  /\ UNCHANGED <<handle, areaVars, dockVars, saveVars>>

\* Faulty: the robot is left driving.
LetDrive(g) == UNCHANGED drive_cancel
StopDriving(g) == drive_cancel' = [drive_cancel EXCEPT ![g] = TRUE]

CancelDrive(g) ==
  /\ At(g, "cancel") \/ At(g, "stop")
  /\ StopDriving(g)
  /\ Goto(g, IF At(g, "stop") THEN "recheck" ELSE "canceled")
  /\ dockStepUnchanged /\ UNCHANGED <<handle, drive>>

\* Faulty: charging is not looked at again after the loop.
DetectedOrNot == TRUE
Detected == is_charging_detected

CheckCharging(g) ==
  /\ At(g, "recheck")
  /\ IF Detected THEN Goto(g, "pose") /\ UNCHANGED handle ELSE AbortGoal(g)
  /\ UNCHANGED <<areaVars, dockVars, saveVars>>

RecordPose(g) ==
  /\ At(g, "pose")
  /\ AbortGoal(g) \/ (Goto(g, "save") /\ UNCHANGED handle)
  /\ UNCHANGED <<areaVars, dockVars, saveVars>>

----------------------------------------------------------------------------
(* Saving, the same for both.                                              *)

\* wait_for_service(10s), async_send_request
RequestSave(g) ==
  /\ At(g, "save")
  /\ \/ AbortGoal(g) /\ UNCHANGED save
     \/ /\ save' = [save EXCEPT ![g] = "requested"]
        /\ Goto(g, "saving") /\ UNCHANGED handle
  /\ UNCHANGED <<areaVars, dockVars, saved>>

\* Faulty: that the service has answered is taken for success.
AnsweredWell(g) == save[g] \in {"saved", "failed"}
SavedWell(g) == save[g] = "saved"

\* future.wait_for(5s)
SaveAnswer(g) ==
  /\ At(g, "saving") /\ Goto(g, "done")
  /\ \/ save[g] = "requested" /\ Timeouts /\ Finish(g, "aborted")
     \/ SavedWell(g) /\ Finish(g, "succeeded")
     \/ save[g] = "failed" /\ ~SavedWell(g) /\ Finish(g, "aborted")
  /\ UNCHANGED <<areaVars, dockVars, saveVars>>

Thread(g) ==
  \/ StartRecording(g) \/ TestRecording(g) \/ TestCanceling(g) \/ TestAuto(g)
  \/ PushPoint(g) \/ ReportCanceled(g) \/ ReportFailed(g) \/ QuitRecording(g)
  \/ RemoveServices(g) \/ CheckPolygon(g) \/ BuildArea(g)
  \/ /\ g \in DockGoals
     /\ \/ SendDriveGoal(g) \/ DriveAnswer(g) \/ TestCharging(g)
        \/ RunOutOfTime(g) \/ CancelDrive(g) \/ CheckCharging(g) \/ RecordPose(g)
  \/ RequestSave(g) \/ SaveAnswer(g)

----------------------------------------------------------------------------
(* The servers: Nav2's drive_on_heading, and map_server.                   *)

MoveDrive(g, from, to) == /\ drive[g] \in from
                          /\ drive' = [drive EXCEPT ![g] = to]
DriveServer(g) ==
  /\ \/ MoveDrive(g, {"requested"}, "executing")
     \/ MoveDrive(g, {"requested"}, "rejected")
     \/ MoveDrive(g, {"executing"}, "ended")
  /\ UNCHANGED <<handle, pc, areaVars, is_charging_detected,
                 docking_goal_handle, drive_cancel, seen_charging, saveVars>>

MapServer(g) ==
  /\ save[g] = "requested"
  /\ \E s \in {"saved", "failed"} : save' = [save EXCEPT ![g] = s]
  /\ UNCHANGED <<handle, pc, areaVars, dockVars, saved>>

----------------------------------------------------------------------------
Init ==
  /\ handle = [g \in Goals |-> "unsent"]
  /\ pc = [g \in Goals |-> "none"]
  /\ is_recording_area = FALSE /\ is_charging_detected = FALSE
  /\ auto_recording_mode = TRUE
  /\ docking_goal_handle = NoGoal /\ area_boundary_goal_handle = NoGoal
  /\ current_area_name = NoGoal /\ current_boundary_points = <<>>
  /\ services = FALSE
  /\ drive = [g \in DockGoals |-> "none"]
  /\ drive_cancel = [g \in DockGoals |-> FALSE]
  /\ save = [g \in Goals |-> "none"] /\ saved = [g \in Goals |-> NoArea]
  /\ seen_charging = [g \in DockGoals |-> FALSE]
  /\ undefined = FALSE

Next == /\ ~undefined
        /\ \/ Callback
           \/ \E g \in Goals :
                \/ HandleAreaBoundaryGoal(g) \/ HandleDockingGoal(g)
                \/ HandleCancel(g) \/ Thread(g) \/ MapServer(g)
           \/ \E g \in DockGoals : DriveServer(g)

Spec == Init /\ [][Next]_vars

\* The operating system schedules every thread, and 60 s pass: from then on the
\* loop ends whenever it is tested.  Nothing is said of the servers, whose
\* silence the timeouts of the node cover.
FairSpec ==
  /\ Spec
  /\ \A g \in Goals : WF_vars(Thread(g))
  /\ \A g \in DockGoals : SF_vars(RunOutOfTime(g))

----------------------------------------------------------------------------
(* Properties.                                                             *)

\* The type of every variable; no terminal call has ever been thrown back.
TypeOK ==
  /\ handle \in [Goals -> Lifecycle!States]
  /\ pc \in [Goals -> Steps]
  /\ {is_recording_area, is_charging_detected, auto_recording_mode, services,
      undefined} \subseteq BOOLEAN
  /\ docking_goal_handle \in DockGoals \cup {NoGoal}
  /\ area_boundary_goal_handle \in AreaGoals \cup {NoGoal}
  /\ current_area_name \in AreaGoals \cup {NoGoal}
  /\ current_boundary_points \in Seq(AreaGoals)
  /\ Len(current_boundary_points) <= MaxPoints
  /\ drive \in [DockGoals -> {"none", "requested", "rejected", "executing",
                              "ended"}]
  /\ drive_cancel \in [DockGoals -> BOOLEAN]
  /\ save \in [Goals -> {"none", "requested", "saved", "failed"}]
  /\ saved \in [Goals -> Areas]
  /\ seen_charging \in [DockGoals -> BOOLEAN]

\* The node keeps the promise of an action server for both actions, however
\* threads, callbacks, cancel requests and recordings interleave.
ImplementsLifecycle == Lifecycle!Spec

\* The area a recording saves holds the points of that recording and no
\* others, at least three of them, under its own name.
SavedAreaIsOwn ==
  \A g \in AreaGoals : saved[g] # NoArea =>
    /\ saved[g].name = g
    /\ Len(saved[g].points) >= 3
    /\ \A i \in 1..Len(saved[g].points) : saved[g].points[i] = g

\* A recording is never left open: when every recording has ended and its
\* thread has returned, the next one is accepted (the permanent block that
\* docs/phase1_audit.md:40 reports as fixed).
NeverBlocked ==
  (\A g \in Goals : pc[g] \in {"none", "done", "gaveup"} /\ ~Active(g)) => ~Busy

\* A client is told of success only when the map server has saved the area or
\* the docking station.
SuccessMeansSaved ==
  \A g \in Goals : handle[g] = "succeeded" => save[g] = "saved"

\* If charging is never detected, the docking station is not recorded.
NoChargeNoDock ==
  \A g \in DockGoals : save[g] # "none" => seen_charging[g]

\* A docking recording that has ended leaves nobody driving: Nav2 has been
\* told to stop, or has stopped; unless Nav2 did not even take the goal in
\* time, when nobody is left to stop it if it takes it later.
EndedMeansStopped ==
  \A g \in DockGoals : handle[g] \in Lifecycle!Outcomes =>
    At(g, "gaveup") \/ drive_cancel[g] \/ drive[g] \notin {"requested", "executing"}

\* A docking recording ends, whether or not the drive server and the map
\* server ever answer.
DockingRecordingEnds ==
  \A g \in DockGoals : Active(g) ~> ~Active(g) \/ undefined

\* A cancelled recording ends, of either kind.
CancelEnds ==
  \A g \in Goals : handle[g] = "canceling" ~> ~Active(g) \/ undefined

=============================================================================
