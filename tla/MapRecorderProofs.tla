-------------------------- MODULE MapRecorderProofs --------------------------
(***************************************************************************)
(* MapRecorder keeps the promise of an action server and what it tells its *)
(* clients is true, for any number of recordings of both kinds that        *)
(* overlap in any way, with servers as late or as silent as they like.     *)
(***************************************************************************)
EXTENDS MapRecorder, TLAPS

\* The steps a thread may take for its kind of goal, those after it has ended
\* its goal, and those that will lower is_recording_area or find it lowered.
AreaPath == {"none", "start", "loop", "check", "auto", "push", "leave",
             "canceled", "failed", "quit", "reset", "size", "build", "save",
             "saving", "done"}
DockPath == {"none", "server", "sent", "wait", "check", "cancel", "canceled",
             "stop", "recheck", "pose", "save", "saving", "done", "gaveup"}
EndedSteps == {"quit", "reset", "done", "gaveup"}
OpenSteps == {"start", "loop", "check", "auto", "push", "canceled", "failed",
              "quit"}

\* What is the case when the thread of a docking goal is at p and its handle
\* in state s: charging has been detected for what is saved, and the robot has
\* been told to stop, or never set out, at every end but "gaveup".
DockFits(g, p, s) ==
  /\ p \in DockPath
  /\ is_charging_detected /\ s \in Lifecycle!Running => seen_charging[g]
  /\ p \in {"pose", "save", "saving"} \/ save[g] # "none" => seen_charging[g]
  /\ p \in {"none", "server"} => drive[g] = "none"
  /\ p \in {"recheck", "pose", "save", "saving", "canceled"} => drive_cancel[g]
  /\ p = "done" => drive_cancel[g] \/ drive[g] \in {"none", "rejected", "ended"}

\* The same for any goal: the handle runs from the moment the thread starts
\* until the thread itself ends it.
Fits(g, p, s) ==
  /\ p = "none" <=> s \in {"unsent", "rejected"}
  /\ p \in EndedSteps => s \in Lifecycle!Outcomes
  /\ p \notin EndedSteps \cup {"none"} => s \in Lifecycle!Running
  /\ p \in {"cancel", "canceled"} => s = "canceling"
  /\ s = "succeeded" => save[g] = "saved"
  /\ g \in AreaGoals => p \in AreaPath
  /\ g \in DockGoals => DockFits(g, p, s)

GoalOK(g) == Fits(g, pc[g], handle[g])

\* Somebody will lower the flag.
FlagOK == is_recording_area => /\ area_boundary_goal_handle # NoGoal
                               /\ \E g \in AreaGoals : pc[g] \in OpenSteps

Inv == TypeOK /\ FlagOK /\ \A g \in Goals : GoalOK(g)

USE DEF Lifecycle!States, Lifecycle!Running, Lifecycle!Outcomes, Steps,
        AreaSteps, DockSteps, VectorSteps, AreaPath, DockPath, EndedSteps,
        OpenSteps

----------------------------------------------------------------------------
(* Steps of a goal's thread.                                               *)

\* What is said of another goal does not change with a step of g.
Untouched(h) ==
  /\ handle'[h] = handle[h] /\ pc'[h] = pc[h] /\ save'[h] = save[h]
  /\ h \in DockGoals =>
       /\ drive'[h] = drive[h] /\ drive_cancel'[h] = drive_cancel[h]
       /\ seen_charging'[h] = seen_charging[h]
       /\ is_charging_detected' => is_charging_detected

LEMMA OneGoal ==
  ASSUME Inv, NEW g \in Goals, TypeOK', FlagOK', GoalOK(g)',
         \A h \in Goals \ {g} : Untouched(h)
  PROVE  Inv'
<1>1. ASSUME NEW h \in Goals \ {g} PROVE GoalOK(h)'
  <2>1. GoalOK(h) /\ Untouched(h)
    BY DEF Inv
  <2>. QED  BY <2>1 DEF GoalOK, Fits, DockFits, Untouched
<1>. QED  BY <1>1 DEF Inv

\* The flag stays up only while a thread is there to lower it.
LEMMA FlagStays ==
  ASSUME Inv, NEW g \in Goals, NEW s, pc' = [pc EXCEPT ![g] = s],
         pc[g] \in OpenSteps /\ g \in AreaGoals =>
           s \in OpenSteps \/ ~is_recording_area \/ ~is_recording_area',
         is_recording_area' => is_recording_area,
         UNCHANGED area_boundary_goal_handle
  PROVE  FlagOK'
<1> SUFFICES ASSUME is_recording_area'
             PROVE  /\ area_boundary_goal_handle # NoGoal
                    /\ \E h \in AreaGoals : pc'[h] \in OpenSteps
  BY DEF FlagOK
<1>1. is_recording_area
  OBVIOUS
<1>2. PICK h \in AreaGoals : pc[h] \in OpenSteps
  BY <1>1 DEF Inv, FlagOK
<1>3. pc'[h] \in OpenSteps
  BY <1>1, <1>2 DEF Inv, TypeOK, Goals
<1>. QED  BY <1>1, <1>2, <1>3 DEF Inv, FlagOK

\* A step that moves the thread, may end the goal, and does nothing else.
LEMMA ThreadMoves ==
  ASSUME Inv, NEW g \in Goals, NEW p \in Steps, NEW s \in Lifecycle!States,
         pc' = [pc EXCEPT ![g] = p], handle' = [handle EXCEPT ![g] = s],
         UNCHANGED <<areaVars, dockVars, saveVars>>, Fits(g, p, s),
         pc[g] \in OpenSteps /\ g \in AreaGoals =>
           p \in OpenSteps \/ ~is_recording_area
  PROVE  Inv'
<1>1. TypeOK'
  BY DEF Inv, TypeOK, areaVars, flagVars, dockVars, saveVars
<1>2. FlagOK'
  BY FlagStays DEF areaVars, flagVars
<1>3. pc'[g] = p /\ handle'[g] = s
  BY DEF Inv, TypeOK
<1>4. GoalOK(g)'
  BY <1>3 DEF GoalOK, Fits, DockFits, dockVars, saveVars
<1>5. \A h \in Goals \ {g} : Untouched(h)
  BY DEF Inv, TypeOK, Untouched, dockVars, saveVars
<1>. QED  BY <1>1, <1>2, <1>4, <1>5, OneGoal

LEMMA ThreadWalks ==
  ASSUME Inv, NEW g \in Goals, NEW p \in Steps, Goto(g, p),
         UNCHANGED <<handle, areaVars, dockVars, saveVars>>,
         Fits(g, p, handle[g]),
         pc[g] \in OpenSteps /\ g \in AreaGoals =>
           p \in OpenSteps \/ ~is_recording_area
  PROVE  Inv'
<1>1. handle[g] \in Lifecycle!States /\ handle' = [handle EXCEPT ![g] = handle[g]]
  BY DEF Inv, TypeOK
<1>. QED  BY <1>1, ThreadMoves DEF Goto

\* A goal ended as it may be ends as the abstract specification says.
LEMMA FinishEnds ==
  ASSUME Inv, NEW g \in Goals, NEW o, Finish(g, o),
         Lifecycle!MayEnd(handle[g], o)
  PROVE  /\ o \in Lifecycle!Outcomes
         /\ handle' = [handle EXCEPT ![g] = o]
         /\ Lifecycle!Next
<1>1. handle' = [handle EXCEPT ![g] = o] /\ o \in Lifecycle!Outcomes
  BY DEF Finish, Lifecycle!MayEnd
<1>2. Lifecycle!End(g)
  BY <1>1 DEF Lifecycle!End, Lifecycle!Move
<1>. QED  BY <1>1, <1>2 DEF Lifecycle!Next

\* The thread ends its goal.
LEMMA ThreadEnds ==
  ASSUME Inv, NEW g \in Goals, NEW p \in Steps, NEW o, Goto(g, p), Finish(g, o),
         Lifecycle!MayEnd(handle[g], o), Fits(g, p, o),
         UNCHANGED <<areaVars, dockVars, saveVars>>,
         pc[g] \in OpenSteps /\ g \in AreaGoals =>
           p \in OpenSteps \/ ~is_recording_area
  PROVE  Inv' /\ Lifecycle!Next
<1>1. /\ o \in Lifecycle!Outcomes /\ handle' = [handle EXCEPT ![g] = o]
      /\ Lifecycle!Next
  BY FinishEnds
<1>. QED  BY <1>1, ThreadMoves DEF Goto

----------------------------------------------------------------------------
(* The steps both kinds of thread share.                                   *)

LEMMA TestCancelingStep ==
  ASSUME Inv, NEW g \in Goals, TestCanceling(g)
  PROVE  Inv' /\ UNCHANGED handle
<1>1. /\ pc[g] = "check" /\ GoalOK(g)
      /\ UNCHANGED <<handle, areaVars, dockVars, saveVars>>
  BY DEF Inv, TestCanceling, At
<1>2. CASE ~IsCanceling(g) /\ Goto(g, IF g \in AreaGoals THEN "auto" ELSE "wait")
  BY <1>1, <1>2, ThreadWalks, RecorderAssumption
  DEF GoalOK, Fits, DockFits, Goals
<1>3. CASE /\ IsCanceling(g)
           /\ Goto(g, IF g \in AreaGoals THEN "canceled" ELSE "cancel")
  BY <1>1, <1>3, ThreadWalks, RecorderAssumption
  DEF GoalOK, Fits, DockFits, Goals, IsCanceling
<1>. QED  BY <1>1, <1>2, <1>3 DEF TestCanceling

LEMMA ReportCanceledStep ==
  ASSUME Inv, NEW g \in Goals, ReportCanceled(g)
  PROVE  Inv' /\ Lifecycle!Next
<1> DEFINE p == IF g \in AreaGoals THEN "quit" ELSE "done"
<1>1. /\ pc[g] = "canceled" /\ GoalOK(g) /\ Goto(g, p) /\ Finish(g, "canceled")
      /\ UNCHANGED <<areaVars, dockVars, saveVars>>
  BY DEF Inv, ReportCanceled, At
<1>2. Fits(g, p, "canceled") /\ Lifecycle!MayEnd(handle[g], "canceled")
  BY <1>1, RecorderAssumption
  DEF GoalOK, Fits, DockFits, Goals, Lifecycle!MayEnd
<1>. QED  BY <1>1, <1>2, ThreadEnds

\* A thread may abort its goal at any step but those of an open recording.
LEMMA ThreadAborts ==
  ASSUME Inv, NEW g \in Goals, AbortGoal(g),
         UNCHANGED <<areaVars, dockVars, saveVars>>,
         pc[g] \in {"size", "save", "saving", "server", "recheck", "pose"}
  PROVE  Inv' /\ Lifecycle!Next
<1>1. GoalOK(g)
  BY DEF Inv
<1>2. Fits(g, "done", "aborted") /\ Lifecycle!MayEnd(handle[g], "aborted")
  BY <1>1 DEF GoalOK, Fits, DockFits, Lifecycle!MayEnd
<1>. QED  BY <1>2, ThreadEnds DEF AbortGoal

LEMMA RequestSaveStep ==
  ASSUME Inv, NEW g \in Goals, RequestSave(g)
  PROVE  Inv' /\ [Lifecycle!Next]_handle
<1>1. /\ pc[g] = "save" /\ TypeOK /\ GoalOK(g)
      /\ UNCHANGED <<areaVars, dockVars, saved>>
  BY DEF Inv, RequestSave, At
<1>2. CASE AbortGoal(g) /\ UNCHANGED save
  BY <1>1, <1>2, ThreadAborts DEF saveVars
<1>3. CASE /\ save' = [save EXCEPT ![g] = "requested"]
           /\ Goto(g, "saving") /\ UNCHANGED handle
  <2>1. pc' = [pc EXCEPT ![g] = "saving"]
    BY <1>3 DEF Goto
  <2>2. TypeOK'
    BY <1>1, <1>3, <2>1 DEF TypeOK, areaVars, flagVars, dockVars
  <2>3. FlagOK'
    BY <1>1, <2>1, FlagStays DEF areaVars, flagVars
  <2>4. pc'[g] = "saving" /\ save'[g] = "requested" /\ handle'[g] = handle[g]
    BY <1>1, <1>3, <2>1 DEF TypeOK
  <2>5. GoalOK(g)'
    BY <1>1, <2>4 DEF GoalOK, Fits, DockFits, dockVars
  <2>6. \A h \in Goals \ {g} : Untouched(h)
    BY <1>1, <1>3, <2>1 DEF TypeOK, Untouched, dockVars
  <2>. QED  BY <1>3, <2>2, <2>3, <2>5, <2>6, OneGoal
<1>. QED  BY <1>2, <1>3 DEF RequestSave

LEMMA SaveAnswerStep ==
  ASSUME Inv, NEW g \in Goals, SaveAnswer(g)
  PROVE  Inv' /\ Lifecycle!Next
<1>1. /\ pc[g] = "saving" /\ GoalOK(g) /\ Goto(g, "done")
      /\ UNCHANGED <<areaVars, dockVars, saveVars>>
  BY DEF Inv, SaveAnswer, At
<1>2. CASE Finish(g, "aborted")
  BY <1>1, <1>2, ThreadAborts DEF AbortGoal
<1>3. CASE SavedWell(g) /\ Finish(g, "succeeded")
  <2>1. /\ Fits(g, "done", "succeeded")
        /\ Lifecycle!MayEnd(handle[g], "succeeded")
    BY <1>1, <1>3 DEF GoalOK, Fits, DockFits, SavedWell, Lifecycle!MayEnd
  <2>. QED  BY <1>1, <1>3, <2>1, ThreadEnds
<1>. QED  BY <1>2, <1>3 DEF SaveAnswer

----------------------------------------------------------------------------
(* The thread of a docking goal.                                           *)

LEMMA DockWalks ==
  ASSUME Inv, NEW g \in DockGoals, TestCharging(g) \/ RunOutOfTime(g)
  PROVE  Inv' /\ UNCHANGED handle
<1>1. /\ pc[g] = "wait" /\ GoalOK(g) /\ g \in Goals /\ g \notin AreaGoals
      /\ UNCHANGED <<handle, areaVars, dockVars, saveVars>>
  BY RecorderAssumption DEF Inv, TestCharging, RunOutOfTime, At, Goals
<1>2. PICK p \in {"stop", "check"} : Goto(g, p)
  BY DEF TestCharging, RunOutOfTime
<1>3. Fits(g, p, handle[g])
  BY <1>1 DEF GoalOK, Fits, DockFits
<1>. QED  BY <1>1, <1>2, <1>3, ThreadWalks

\* A step that also changes what the drive server is asked.
LEMMA DockMoves ==
  ASSUME Inv, NEW g \in DockGoals, NEW p \in Steps, Goto(g, p), dockStepUnchanged,
         NEW d \in {"none", "requested", "rejected", "executing", "ended"},
         NEW c \in BOOLEAN,
         drive' = [drive EXCEPT ![g] = d],
         drive_cancel' = [drive_cancel EXCEPT ![g] = c],
         UNCHANGED handle, Fits(g, p, handle[g])'
  PROVE  Inv'
<1>1. g \in Goals /\ g \notin AreaGoals /\ pc' = [pc EXCEPT ![g] = p]
  BY RecorderAssumption DEF Goals, Goto
<1>2. TypeOK'
  BY <1>1 DEF Inv, TypeOK, dockStepUnchanged, areaVars, flagVars, saveVars
<1>3. FlagOK'
  BY <1>1, FlagStays DEF dockStepUnchanged, areaVars, flagVars
<1>4. GoalOK(g)'
  BY <1>1 DEF Inv, TypeOK, GoalOK
<1>5. \A h \in Goals \ {g} : Untouched(h)
  BY <1>1 DEF Inv, TypeOK, Untouched, dockStepUnchanged, saveVars
<1>. QED  BY <1>1, <1>2, <1>3, <1>4, <1>5, OneGoal

LEMMA SendDriveGoalStep ==
  ASSUME Inv, NEW g \in DockGoals, SendDriveGoal(g)
  PROVE  Inv' /\ [Lifecycle!Next]_handle
<1>1. /\ pc[g] = "server" /\ TypeOK /\ GoalOK(g) /\ g \in Goals
      /\ dockStepUnchanged /\ UNCHANGED drive_cancel
  BY DEF Inv, SendDriveGoal, At, Goals
<1>2. CASE AbortGoal(g) /\ UNCHANGED drive
  BY <1>1, <1>2, ThreadAborts DEF dockStepUnchanged, dockVars
<1>3. CASE /\ drive' = [drive EXCEPT ![g] = "requested"]
           /\ Goto(g, "sent") /\ UNCHANGED handle
  <2>1. /\ drive'[g] = "requested" /\ drive_cancel[g] \in BOOLEAN
        /\ drive_cancel' = [drive_cancel EXCEPT ![g] = drive_cancel[g]]
    BY <1>1, <1>3 DEF TypeOK
  <2>2. Fits(g, "sent", handle[g])'
    BY <1>1, <1>3, <2>1, RecorderAssumption
    DEF GoalOK, Fits, DockFits, dockStepUnchanged, saveVars
  <2>. QED  BY <1>1, <1>3, <2>1, <2>2, DockMoves
<1>. QED  BY <1>2, <1>3 DEF SendDriveGoal

LEMMA DriveAnswerStep ==
  ASSUME Inv, NEW g \in DockGoals, DriveAnswer(g)
  PROVE  Inv' /\ [Lifecycle!Next]_handle
<1>1. /\ pc[g] = "sent" /\ GoalOK(g) /\ g \in Goals /\ g \notin AreaGoals
      /\ UNCHANGED <<areaVars, dockVars, saveVars>>
  BY RecorderAssumption
  DEF Inv, DriveAnswer, At, Goals, dockStepUnchanged, dockVars
<1>2. /\ handle[g] \in Lifecycle!Running
      /\ Lifecycle!MayEnd(handle[g], "aborted")
  BY <1>1 DEF GoalOK, Fits, Lifecycle!MayEnd
<1>3. CASE Finish(g, "aborted") /\ Goto(g, "gaveup")
  <2>1. Fits(g, "gaveup", "aborted")
    BY <1>1 DEF GoalOK, Fits, DockFits
  <2>. QED  BY <1>1, <1>2, <1>3, <2>1, ThreadEnds
<1>4. CASE drive[g] = "rejected" /\ AbortGoal(g)
  <2>1. Fits(g, "done", "aborted")
    BY <1>1, <1>4 DEF GoalOK, Fits, DockFits
  <2>. QED  BY <1>1, <1>2, <1>4, <2>1, ThreadEnds DEF AbortGoal
<1>5. CASE Goto(g, "wait") /\ UNCHANGED handle
  <2>1. Fits(g, "wait", handle[g])
    BY <1>1 DEF GoalOK, Fits, DockFits
  <2>. QED  BY <1>1, <1>5, <2>1, ThreadWalks
<1>. QED  BY <1>3, <1>4, <1>5 DEF DriveAnswer

LEMMA CancelDriveStep ==
  ASSUME Inv, NEW g \in DockGoals, CancelDrive(g)
  PROVE  Inv' /\ UNCHANGED handle
<1>1. /\ pc[g] \in {"cancel", "stop"} /\ TypeOK /\ GoalOK(g)
      /\ drive_cancel' = [drive_cancel EXCEPT ![g] = TRUE]
      /\ dockStepUnchanged /\ UNCHANGED <<handle, drive>>
  BY DEF Inv, CancelDrive, At, StopDriving, Goals
<1>2. PICK p \in {"recheck", "canceled"} :
        Goto(g, p) /\ (p = "canceled" => pc[g] = "cancel")
  BY <1>1 DEF CancelDrive, At
<1>3. /\ drive' = [drive EXCEPT ![g] = drive[g]]
      /\ drive[g] \in {"none", "requested", "rejected", "executing", "ended"}
      /\ drive_cancel'[g] = TRUE
  BY <1>1 DEF TypeOK
<1>4. Fits(g, p, handle[g])'
  BY <1>1, <1>2, <1>3, RecorderAssumption
  DEF GoalOK, Fits, DockFits, dockStepUnchanged, saveVars, Goals
<1>. QED  BY <1>1, <1>2, <1>3, <1>4, DockMoves

LEMMA CheckChargingStep ==
  ASSUME Inv, NEW g \in DockGoals, CheckCharging(g)
  PROVE  Inv' /\ [Lifecycle!Next]_handle
<1>1. /\ pc[g] = "recheck" /\ GoalOK(g) /\ g \in Goals /\ g \notin AreaGoals
      /\ UNCHANGED <<areaVars, dockVars, saveVars>>
  BY RecorderAssumption DEF Inv, CheckCharging, At, Goals
<1>2. CASE is_charging_detected /\ Goto(g, "pose") /\ UNCHANGED handle
  <2>1. Fits(g, "pose", handle[g])
    BY <1>1, <1>2 DEF GoalOK, Fits, DockFits
  <2>. QED  BY <1>1, <1>2, <2>1, ThreadWalks
<1>3. CASE AbortGoal(g)
  BY <1>1, <1>3, ThreadAborts
<1>. QED  BY <1>2, <1>3 DEF CheckCharging, Detected

LEMMA RecordPoseStep ==
  ASSUME Inv, NEW g \in DockGoals, RecordPose(g)
  PROVE  Inv' /\ [Lifecycle!Next]_handle
<1>1. /\ pc[g] = "pose" /\ GoalOK(g) /\ g \in Goals /\ g \notin AreaGoals
      /\ UNCHANGED <<areaVars, dockVars, saveVars>>
  BY RecorderAssumption DEF Inv, RecordPose, At, Goals
<1>2. CASE Goto(g, "save") /\ UNCHANGED handle
  <2>1. Fits(g, "save", handle[g])
    BY <1>1 DEF GoalOK, Fits, DockFits
  <2>. QED  BY <1>1, <1>2, <2>1, ThreadWalks
<1>3. CASE AbortGoal(g)
  BY <1>1, <1>3, ThreadAborts
<1>. QED  BY <1>2, <1>3 DEF RecordPose

----------------------------------------------------------------------------
(* The thread of an area goal.                                             *)

\* A docking goal is never where only the thread of an area goal can be.
LEMMA AreaOnly ==
  ASSUME Inv, NEW g \in Goals,
         pc[g] \in AreaPath \ {"none", "check", "canceled", "save", "saving",
                               "done"}
  PROVE  g \in AreaGoals /\ g \notin DockGoals
  BY RecorderAssumption DEF Inv, GoalOK, Fits, DockFits, Goals

LEMMA AreaWalks ==
  ASSUME Inv, NEW g \in Goals, TestRecording(g) \/ TestAuto(g)
  PROVE  Inv' /\ UNCHANGED handle
<1>1. /\ pc[g] \in {"loop", "auto"} /\ GoalOK(g)
      /\ UNCHANGED <<handle, areaVars, dockVars, saveVars>>
  BY DEF Inv, TestRecording, TestAuto, At
<1>2. PICK p \in {"check", "leave", "loop", "push", "failed"} :
        Goto(g, p) /\ (p = "leave" => ~is_recording_area)
  BY DEF TestRecording, TestAuto
<1>3. Fits(g, p, handle[g])
  BY <1>1, AreaOnly DEF GoalOK, Fits
<1>. QED  BY <1>1, <1>2, <1>3, ThreadWalks

LEMMA ReportFailedStep ==
  ASSUME Inv, NEW g \in Goals, ReportFailed(g)
  PROVE  Inv' /\ Lifecycle!Next
<1>1. /\ pc[g] = "failed" /\ GoalOK(g) /\ Goto(g, "quit") /\ Finish(g, "aborted")
      /\ UNCHANGED <<areaVars, dockVars, saveVars>>
  BY DEF Inv, ReportFailed, At
<1>2. Fits(g, "quit", "aborted") /\ Lifecycle!MayEnd(handle[g], "aborted")
  BY <1>1, AreaOnly DEF GoalOK, Fits, Lifecycle!MayEnd
<1>. QED  BY <1>1, <1>2, ThreadEnds

\* A step that leaves the goal as it is and may change the recording.
LEMMA AreaMoves ==
  ASSUME Inv, NEW g \in AreaGoals, NEW p \in Steps, Goto(g, p), TypeOK',
         UNCHANGED <<handle, dockVars, save, area_boundary_goal_handle>>,
         Fits(g, p, handle[g]),
         is_recording_area' => is_recording_area,
         pc[g] \in OpenSteps => p \in OpenSteps \/ ~is_recording_area'
  PROVE  Inv'
<1>1. g \in Goals /\ pc' = [pc EXCEPT ![g] = p]
  BY DEF Goals, Goto
<1>2. FlagOK'
  BY <1>1, FlagStays
<1>3. pc'[g] = p /\ handle'[g] = handle[g]
  BY <1>1 DEF Inv, TypeOK
<1>4. GoalOK(g)'
  BY <1>3 DEF GoalOK, Fits, DockFits, dockVars
<1>5. \A h \in Goals \ {g} : Untouched(h)
  BY <1>1 DEF Inv, TypeOK, Untouched, dockVars
<1>. QED  BY <1>1, <1>2, <1>4, <1>5, OneGoal

LEMMA UseVectorType ==
  ASSUME NEW t, UseVector(t)
  PROVE  undefined' \in BOOLEAN
  BY DEF UseVector

LEMMA PushType ==
  ASSUME TypeOK, NEW t, NEW g \in AreaGoals, Push(t, g)
  PROVE  /\ current_boundary_points' \in Seq(AreaGoals)
         /\ Len(current_boundary_points') <= MaxPoints
         /\ undefined' \in BOOLEAN
<1>1. CASE Len(current_boundary_points) < MaxPoints
  BY <1>1, UseVectorType, RecorderAssumption DEF TypeOK, Push
<1>2. CASE ~(Len(current_boundary_points) < MaxPoints)
  BY <1>2, UseVectorType DEF TypeOK, Push
<1>. QED  BY <1>1, <1>2

LEMMA StartRecordingStep ==
  ASSUME Inv, NEW g \in Goals, StartRecording(g)
  PROVE  Inv' /\ UNCHANGED handle
<1>1. /\ pc[g] = "start" /\ TypeOK /\ GoalOK(g) /\ g \in AreaGoals
      /\ areaStepUnchanged /\ UNCHANGED <<handle, is_recording_area, services, saved>>
  BY AreaOnly DEF Inv, StartRecording, At
<1>2. PICK p \in {"loop", "failed"} :
        /\ Goto(g, p)
        /\ Push(g, g) \/ UNCHANGED <<current_boundary_points, undefined>>
  BY DEF StartRecording
<1>3. TypeOK'
  BY <1>1, <1>2, PushType
  DEF TypeOK, Goto, areaStepUnchanged, dockVars
<1>4. Fits(g, p, handle[g])
  BY <1>1, <1>2, AreaOnly DEF GoalOK, Fits
<1>. QED  BY <1>1, <1>2, <1>3, <1>4, AreaMoves DEF areaStepUnchanged

LEMMA PushPointStep ==
  ASSUME Inv, NEW g \in Goals, PushPoint(g)
  PROVE  Inv' /\ UNCHANGED handle
<1>1. /\ pc[g] = "push" /\ TypeOK /\ GoalOK(g) /\ g \in AreaGoals
      /\ areaStepUnchanged /\ UNCHANGED <<handle, is_recording_area, services, saved>>
      /\ Goto(g, "loop") /\ Push(g, g)
  BY AreaOnly DEF Inv, PushPoint, At
<1>2. TypeOK'
  BY <1>1, PushType DEF TypeOK, Goto, areaStepUnchanged, dockVars
<1>3. Fits(g, "loop", handle[g])
  BY <1>1, AreaOnly DEF GoalOK, Fits
<1>. QED  BY <1>1, <1>2, <1>3, AreaMoves DEF areaStepUnchanged

LEMMA QuitRecordingStep ==
  ASSUME Inv, NEW g \in Goals, QuitRecording(g)
  PROVE  Inv' /\ UNCHANGED handle
<1>1. /\ pc[g] = "quit" /\ TypeOK /\ GoalOK(g) /\ g \in AreaGoals
      /\ areaStepUnchanged /\ Goto(g, "reset") /\ is_recording_area' = FALSE
      /\ UNCHANGED <<handle, current_boundary_points, services, saved, undefined>>
  BY AreaOnly DEF Inv, QuitRecording, EndRecording, At
<1>2. TypeOK'
  BY <1>1 DEF TypeOK, Goto, areaStepUnchanged, dockVars
<1>3. Fits(g, "reset", handle[g])
  BY <1>1, AreaOnly DEF GoalOK, Fits
<1>. QED  BY <1>1, <1>2, <1>3, AreaMoves DEF areaStepUnchanged

LEMMA RemoveServicesStep ==
  ASSUME Inv, NEW g \in Goals, RemoveServices(g)
  PROVE  Inv' /\ UNCHANGED handle
<1>1. /\ pc[g] \in {"reset", "leave"} /\ TypeOK /\ GoalOK(g) /\ g \in AreaGoals
      /\ areaStepUnchanged /\ services' = FALSE
      /\ UNCHANGED <<handle, is_recording_area, current_boundary_points, saved,
                     undefined>>
  BY AreaOnly DEF Inv, RemoveServices, At
<1>2. PICK p \in {"done", "size"} :
        Goto(g, p) /\ (p = "done" <=> pc[g] = "reset")
  BY <1>1 DEF RemoveServices, At
<1>3. TypeOK'
  BY <1>1, <1>2 DEF TypeOK, Goto, areaStepUnchanged, dockVars
<1>4. Fits(g, p, handle[g])
  BY <1>1, <1>2, AreaOnly DEF GoalOK, Fits
<1>. QED  BY <1>1, <1>2, <1>3, <1>4, AreaMoves DEF areaStepUnchanged

LEMMA BuildAreaStep ==
  ASSUME Inv, NEW g \in Goals, BuildArea(g)
  PROVE  Inv' /\ UNCHANGED handle
<1> DEFINE area == [name   |-> current_area_name,
                    points |-> current_boundary_points]
<1>1. /\ pc[g] = "build" /\ TypeOK /\ GoalOK(g) /\ g \in AreaGoals
      /\ areaStepUnchanged /\ UseVector(g) /\ Goto(g, "save")
      /\ saved' = [saved EXCEPT ![g] = area]
      /\ UNCHANGED <<handle, is_recording_area, services,
                     current_boundary_points>>
  BY AreaOnly DEF Inv, BuildArea, At
<1>2. area \in Areas
  <2>1. /\ Len(current_boundary_points) \in 0..MaxPoints
        /\ current_boundary_points
             \in [1..Len(current_boundary_points) -> AreaGoals]
    BY <1>1, RecorderAssumption DEF TypeOK
  <2>2. current_area_name \in Goals \cup {NoGoal}
    BY <1>1 DEF TypeOK, Goals
  <2>. QED  BY <2>1, <2>2 DEF Areas
<1>3. TypeOK'
  BY <1>1, <1>2, UseVectorType DEF TypeOK, Goto, areaStepUnchanged, dockVars
<1>4. Fits(g, "save", handle[g])
  BY <1>1, AreaOnly DEF GoalOK, Fits
<1>. QED  BY <1>1, <1>3, <1>4, AreaMoves DEF areaStepUnchanged

\* The step may end the goal, or run into a race.
LEMMA CheckPolygonStep ==
  ASSUME Inv, NEW g \in Goals, CheckPolygon(g)
  PROVE  Inv' /\ [Lifecycle!Next]_handle
<1>1. /\ pc[g] = "size" /\ TypeOK /\ GoalOK(g) /\ UseVector(g)
      /\ g \in AreaGoals /\ g \notin DockGoals
      /\ UNCHANGED <<flagVars, area_boundary_goal_handle, current_area_name,
                     current_boundary_points, services, dockVars, saveVars>>
  BY AreaOnly DEF Inv, CheckPolygon, At
<1>2. handle[g] \in Lifecycle!Running
  BY <1>1 DEF GoalOK, Fits
<1>3. PICK p \in {"done", "build"}, s \in Lifecycle!States :
        /\ pc' = [pc EXCEPT ![g] = p]
        /\ handle' = [handle EXCEPT ![g] = s]
        /\ Fits(g, p, s)
        /\ [Lifecycle!Next]_handle
  <2>1. CASE AbortGoal(g)
    <3>1. /\ Lifecycle!MayEnd(handle[g], "aborted")
          /\ Finish(g, "aborted") /\ pc' = [pc EXCEPT ![g] = "done"]
      BY <1>2, <2>1 DEF Lifecycle!MayEnd, AbortGoal, Goto
    <3>2. Fits(g, "done", "aborted")
      BY <1>1 DEF GoalOK, Fits
    <3>. QED  BY <3>1, <3>2, FinishEnds
  <2>2. CASE Goto(g, "build") /\ UNCHANGED handle
    <3>1. Fits(g, "build", handle[g])
      BY <1>1 DEF GoalOK, Fits
    <3>2. /\ handle[g] \in Lifecycle!States
          /\ handle' = [handle EXCEPT ![g] = handle[g]]
      BY <1>1, <2>2 DEF TypeOK
    <3>. QED  BY <2>2, <3>1, <3>2 DEF Goto
  <2>. QED  BY <2>1, <2>2 DEF CheckPolygon
<1>4. TypeOK'
  BY <1>1, <1>3, UseVectorType DEF TypeOK, flagVars, dockVars, saveVars
<1>5. FlagOK'
  BY <1>1, <1>3, FlagStays DEF flagVars
<1>6. pc'[g] = p /\ handle'[g] = s
  BY <1>1, <1>3 DEF TypeOK
<1>7. GoalOK(g)'
  BY <1>1, <1>3, <1>6 DEF GoalOK, Fits, saveVars
<1>8. \A h \in Goals \ {g} : Untouched(h)
  BY <1>1, <1>3 DEF TypeOK, Untouched, dockVars, saveVars
<1>. QED  BY <1>3, <1>4, <1>5, <1>7, <1>8, OneGoal

LEMMA ThreadStep ==
  ASSUME Inv, NEW g \in Goals, Thread(g)
  PROVE  Inv' /\ [Lifecycle!Next]_handle
  BY StartRecordingStep, AreaWalks, TestCancelingStep, PushPointStep,
     ReportCanceledStep, ReportFailedStep, QuitRecordingStep,
     RemoveServicesStep, CheckPolygonStep, BuildAreaStep, SendDriveGoalStep,
     DriveAnswerStep, DockWalks, CancelDriveStep, CheckChargingStep,
     RecordPoseStep, RequestSaveStep, SaveAnswerStep
  DEF Thread

----------------------------------------------------------------------------
(* The callbacks of the executor and the servers.                          *)

\* A callback moves no thread and ends no goal; only the charger's changes
\* anything about a docking goal.
LEMMA CallbackKeeps ==
  ASSUME Inv, callbackUnchanged, TypeOK', is_recording_area' => is_recording_area,
         \A h \in DockGoals :
           /\ seen_charging[h] => seen_charging'[h]
           /\ is_charging_detected' /\ handle[h] \in Lifecycle!Running =>
                seen_charging'[h] \/ (is_charging_detected /\ seen_charging[h])
  PROVE  Inv'
<1>1. FlagOK'
  BY DEF Inv, FlagOK, callbackUnchanged, handleVars
<1>2. ASSUME NEW h \in Goals PROVE GoalOK(h)'
  <2>1. GoalOK(h) /\ UNCHANGED <<handle, pc, drive, drive_cancel, save>>
    BY DEF Inv, callbackUnchanged, saveVars
  <2>. QED  BY <2>1 DEF GoalOK, Fits, DockFits
<1>. QED  BY <1>1, <1>2 DEF Inv

LEMMA CallbackStep ==
  ASSUME Inv, Callback
  PROVE  Inv' /\ UNCHANGED handle
<1>1. TypeOK /\ callbackUnchanged /\ UNCHANGED handle
  BY DEF Inv, Callback, HandleSetRecordingMode, HandleAddBoundaryPoint,
     HandleFinishAreaRecording, ChargingStatusCallback, callbackUnchanged
<1>2. CASE HandleSetRecordingMode \/ HandleFinishAreaRecording
  <2>1. TypeOK'
    BY <1>1, <1>2
    DEF TypeOK, HandleSetRecordingMode, HandleFinishAreaRecording,
        callbackUnchanged, handleVars, saveVars
  <2>2. /\ UNCHANGED <<is_charging_detected, seen_charging>>
        /\ is_recording_area' => is_recording_area
    BY <1>2 DEF HandleSetRecordingMode, HandleFinishAreaRecording
  <2>3. \A h \in DockGoals :
          is_charging_detected /\ handle[h] \in Lifecycle!Running =>
            seen_charging[h]
    BY DEF Inv, GoalOK, Fits, DockFits, Goals
  <2>. QED  BY <1>1, <2>1, <2>2, <2>3, CallbackKeeps
<1>3. CASE HandleAddBoundaryPoint
  <2>1. area_boundary_goal_handle \in AreaGoals
    BY <1>1, <1>3 DEF Inv, FlagOK, HandleAddBoundaryPoint, TypeOK
  <2>2. /\ current_boundary_points' \in Seq(AreaGoals)
        /\ Len(current_boundary_points') <= MaxPoints
        /\ undefined' \in BOOLEAN
    BY <1>1, <1>3, <2>1, PushType DEF HandleAddBoundaryPoint
  <2>3. TypeOK'
    BY <1>1, <1>3, <2>2
    DEF TypeOK, HandleAddBoundaryPoint, callbackUnchanged, handleVars, saveVars,
        flagVars
  <2>4. \A h \in DockGoals :
          is_charging_detected /\ handle[h] \in Lifecycle!Running =>
            seen_charging[h]
    BY DEF Inv, GoalOK, Fits, DockFits, Goals
  <2>. QED  BY <1>1, <1>3, <2>3, <2>4, CallbackKeeps
         DEF HandleAddBoundaryPoint, flagVars
<1>4. CASE ChargingStatusCallback
  <2>1. \A h \in DockGoals :
          seen_charging'[h] = (\/ seen_charging[h]
                               \/ is_charging_detected' /\ Active(h))
    BY <1>4 DEF ChargingStatusCallback
  <2>2. \A h \in DockGoals : h # NoGoal
    BY RecorderAssumption DEF Goals
  <2>3. /\ is_charging_detected' \in BOOLEAN
        /\ seen_charging' \in [DockGoals -> BOOLEAN]
    BY <1>1, <1>4 DEF ChargingStatusCallback, TypeOK
  <2>4. TypeOK'
    BY <1>1, <1>4, <2>3
    DEF TypeOK, ChargingStatusCallback, callbackUnchanged, handleVars, saveVars,
        flagVars
  <2>. QED  BY <1>1, <1>4, <2>1, <2>2, <2>4, CallbackKeeps
         DEF ChargingStatusCallback, flagVars, Active
<1>. QED  BY <1>1, <1>2, <1>3, <1>4 DEF Callback

\* A goal that is decided or asked to cancel: the handle moves, and the thread
\* of an accepted goal starts.
LEMMA HandleCancelStep ==
  ASSUME Inv, NEW g \in Goals, HandleCancel(g)
  PROVE  Inv' /\ Lifecycle!Next
<1>1. /\ handle[g] = "executing" /\ GoalOK(g)
      /\ handle' = [handle EXCEPT ![g] = "canceling"]
      /\ UNCHANGED <<pc, areaVars, dockVars, saveVars>>
      /\ pc[g] \in Steps /\ pc' = [pc EXCEPT ![g] = pc[g]]
  BY DEF Inv, HandleCancel, TypeOK
<1>2. Fits(g, pc[g], "canceling")
  BY <1>1 DEF GoalOK, Fits, DockFits
<1>3. Inv'
  BY <1>1, <1>2, ThreadMoves
<1>4. Lifecycle!RequestCancel(g)
  BY <1>1 DEF Lifecycle!RequestCancel, Lifecycle!Move
<1>. QED  BY <1>3, <1>4 DEF Lifecycle!Next

LEMMA RejectGoalStep ==
  ASSUME Inv, NEW g \in Goals, handle[g] = "unsent", RejectGoal(g)
  PROVE  Inv' /\ Lifecycle!Next
<1>1. /\ GoalOK(g) /\ handle' = [handle EXCEPT ![g] = "rejected"]
      /\ UNCHANGED <<pc, areaVars, dockVars, saveVars>>
      /\ pc[g] \in Steps /\ pc' = [pc EXCEPT ![g] = pc[g]]
  BY DEF Inv, RejectGoal, TypeOK
<1>2. Fits(g, pc[g], "rejected")
  BY <1>1 DEF GoalOK, Fits, DockFits
<1>3. Inv'
  BY <1>1, <1>2, ThreadMoves
<1>4. Lifecycle!Decide(g)
  BY <1>1 DEF Lifecycle!Decide, Lifecycle!Move
<1>. QED  BY <1>3, <1>4 DEF Lifecycle!Next

LEMMA HandleDockingGoalStep ==
  ASSUME Inv, NEW g \in Goals, HandleDockingGoal(g)
  PROVE  Inv' /\ Lifecycle!Next
<1>1. /\ g \in DockGoals /\ g \notin AreaGoals /\ handle[g] = "unsent"
      /\ TypeOK /\ GoalOK(g)
  BY RecorderAssumption DEF Inv, HandleDockingGoal, MaySend
<1>2. CASE RejectGoal(g)
  BY <1>1, <1>2, RejectGoalStep
<1>3. CASE /\ handle' = [handle EXCEPT ![g] = "executing"]
           /\ is_charging_detected' = FALSE
           /\ docking_goal_handle' = g
           /\ Goto(g, "server")
           /\ UNCHANGED <<areaVars, drive, drive_cancel, seen_charging,
                          saveVars>>
  <2>1. pc' = [pc EXCEPT ![g] = "server"]
    BY <1>3 DEF Goto
  <2>2. TypeOK'
    BY <1>1, <1>3, <2>1 DEF TypeOK, areaVars, flagVars, saveVars
  <2>3. FlagOK'
    BY <1>1, <1>3, <2>1, FlagStays DEF areaVars, flagVars
  <2>4. pc'[g] = "server" /\ handle'[g] = "executing"
    BY <1>1, <1>3, <2>1 DEF TypeOK
  <2>5. GoalOK(g)'
    BY <1>1, <1>3, <2>4 DEF GoalOK, Fits, DockFits, saveVars
  <2>6. \A h \in Goals \ {g} : Untouched(h)
    BY <1>1, <1>3, <2>1 DEF TypeOK, Untouched, saveVars
  <2>7. Lifecycle!Decide(g)
    BY <1>1, <1>3 DEF Lifecycle!Decide, Lifecycle!Move
  <2>. QED  BY <2>2, <2>3, <2>5, <2>6, <2>7, OneGoal DEF Lifecycle!Next
<1>. QED  BY <1>2, <1>3 DEF HandleDockingGoal

LEMMA HandleAreaBoundaryGoalStep ==
  ASSUME Inv, NEW g \in Goals, HandleAreaBoundaryGoal(g)
  PROVE  Inv' /\ Lifecycle!Next
<1>1. /\ g \in AreaGoals /\ g \notin DockGoals /\ g # NoGoal
      /\ handle[g] = "unsent" /\ TypeOK /\ GoalOK(g)
  BY RecorderAssumption DEF Inv, HandleAreaBoundaryGoal, MaySend
<1>2. CASE RejectGoal(g)
  BY <1>1, <1>2, RejectGoalStep
<1>3. CASE /\ handle' = [handle EXCEPT ![g] = "executing"]
           /\ UseVector(g) /\ ClearPoints
           /\ is_recording_area' = TRUE
           /\ area_boundary_goal_handle' = g
           /\ current_area_name' = g
           /\ auto_recording_mode' \in BOOLEAN
           /\ services' = TRUE
           /\ Goto(g, "start")
           /\ UNCHANGED <<dockVars, saveVars>>
  <2>1. /\ pc' = [pc EXCEPT ![g] = "start"]
        /\ current_boundary_points' = <<>>
        /\ undefined' \in BOOLEAN
    BY <1>3, UseVectorType DEF Goto, ClearPoints
  <2>2. TypeOK'
    BY <1>1, <1>3, <2>1, RecorderAssumption DEF TypeOK, dockVars, saveVars
  <2>3. pc'[g] = "start" /\ handle'[g] = "executing"
    BY <1>1, <1>3, <2>1 DEF TypeOK
  <2>4. FlagOK'
    BY <1>1, <1>3, <2>3 DEF FlagOK
  <2>5. GoalOK(g)'
    BY <1>1, <1>3, <2>3 DEF GoalOK, Fits, saveVars
  <2>6. \A h \in Goals \ {g} : Untouched(h)
    BY <1>1, <1>3, <2>1 DEF TypeOK, Untouched, dockVars, saveVars
  <2>7. Lifecycle!Decide(g)
    BY <1>1, <1>3 DEF Lifecycle!Decide, Lifecycle!Move
  <2>. QED  BY <2>2, <2>4, <2>5, <2>6, <2>7, OneGoal DEF Lifecycle!Next
<1>. QED  BY <1>2, <1>3 DEF HandleAreaBoundaryGoal

\* The servers do their work whether or not anybody still waits for it.
LEMMA ServerStep ==
  ASSUME Inv, NEW g \in Goals, MapServer(g) \/ (g \in DockGoals /\ DriveServer(g))
  PROVE  Inv' /\ UNCHANGED handle
<1>1. /\ TypeOK /\ GoalOK(g)
      /\ UNCHANGED <<handle, pc, areaVars, is_charging_detected,
                     docking_goal_handle, drive_cancel, seen_charging, saved>>
  BY DEF Inv, MapServer, DriveServer, dockVars, saveVars
<1>2. FlagOK'
  BY <1>1 DEF Inv, FlagOK, areaVars, flagVars
<1>3. CASE MapServer(g)
  <2>1. /\ save[g] = "requested" /\ UNCHANGED drive
        /\ \E s \in {"saved", "failed"} : save' = [save EXCEPT ![g] = s]
    BY <1>3 DEF MapServer, dockVars
  <2>2. TypeOK'
    BY <1>1, <2>1 DEF TypeOK, areaVars, flagVars
  <2>3. ASSUME NEW h \in Goals PROVE GoalOK(h)'
    <3>1. /\ GoalOK(h)
          /\ \/ save'[h] = save[h]
             \/ save[h] = "requested" /\ save'[h] \in {"saved", "failed"}
      BY <1>1, <2>1 DEF Inv, TypeOK
    <3>. QED  BY <1>1, <2>1, <3>1 DEF GoalOK, Fits, DockFits
  <2>. QED  BY <1>1, <1>2, <2>2, <2>3 DEF Inv
<1>4. CASE g \in DockGoals /\ DriveServer(g)
  <2>1. /\ UNCHANGED save
        /\ \/ drive[g] = "requested" /\ drive' = [drive EXCEPT ![g] = "executing"]
           \/ drive[g] = "requested" /\ drive' = [drive EXCEPT ![g] = "rejected"]
           \/ drive[g] = "executing" /\ drive' = [drive EXCEPT ![g] = "ended"]
    BY <1>4 DEF DriveServer, MoveDrive, saveVars
  <2>2. TypeOK'
    BY <1>1, <2>1 DEF TypeOK, areaVars, flagVars
  <2>3. ASSUME NEW h \in Goals PROVE GoalOK(h)'
    <3>1. /\ GoalOK(h)
          /\ h \in DockGoals =>
               \/ drive'[h] = drive[h]
               \/ drive[h] = "requested" /\ drive'[h] \in {"executing", "rejected"}
               \/ drive[h] = "executing" /\ drive'[h] = "ended"
      BY <1>1, <2>1 DEF Inv, TypeOK
    <3>. QED  BY <1>1, <2>1, <3>1 DEF GoalOK, Fits, DockFits
  <2>. QED  BY <1>1, <1>2, <2>2, <2>3 DEF Inv
<1>. QED  BY <1>3, <1>4

----------------------------------------------------------------------------
(* The whole node.                                                         *)

LEMMA InitInv == Init => Inv
<1> SUFFICES ASSUME Init PROVE Inv
  OBVIOUS
<1>1. NoArea \in Areas
  <2>1. <<>> \in [1..0 -> AreaGoals] /\ 0 \in 0..MaxPoints
    BY RecorderAssumption
  <2>. QED  BY <2>1 DEF NoArea, Areas
<1>2. TypeOK
  <2>1. /\ current_boundary_points \in Seq(AreaGoals)
        /\ Len(current_boundary_points) <= MaxPoints
    BY RecorderAssumption DEF Init
  <2>2. saved \in [Goals -> Areas]
    BY <1>1 DEF Init
  <2>. QED  BY <2>1, <2>2 DEF Init, TypeOK
<1>3. FlagOK /\ \A g \in Goals : GoalOK(g)
  BY DEF Init, FlagOK, GoalOK, Fits, DockFits
<1>. QED  BY <1>2, <1>3 DEF Inv

LEMMA NextInv == Inv /\ [Next]_vars => Inv' /\ [Lifecycle!Next]_handle
<1> SUFFICES ASSUME Inv, [Next]_vars PROVE Inv' /\ [Lifecycle!Next]_handle
  OBVIOUS
<1>1. CASE UNCHANGED vars
  BY <1>1 DEF vars, areaVars, flagVars, dockVars, saveVars, Inv, TypeOK, FlagOK,
     GoalOK, Fits, DockFits
<1>2. \A g \in DockGoals : g \in Goals
  BY DEF Goals
<1>. QED
  BY <1>1, <1>2, CallbackStep, HandleAreaBoundaryGoalStep,
     HandleDockingGoalStep, HandleCancelStep, ThreadStep, ServerStep
  DEF Next

LEMMA InvAlways == Spec => []Inv
  BY InitInv, NextInv, PTL DEF Spec

\* Every variable has its type; in particular no terminal call on a goal
\* handle is ever one that rclcpp_action throws back ("broken").
THEOREM TypeCorrect == Spec => []TypeOK
<1>1. Inv => TypeOK
  BY DEF Inv
<1>. QED  BY InvAlways, <1>1, PTL

\* Each goal of either action is decided once and ends once, as canceled only
\* if a client asked, however many recordings overlap.
THEOREM KeepsThePromise == Spec => ImplementsLifecycle
<1>1. Init => Lifecycle!Init
  BY DEF Init, Lifecycle!Init
<1>. QED
  BY <1>1, NextInv, InvAlways, PTL DEF Spec, ImplementsLifecycle, Lifecycle!Spec

\* Whatever way a recording comes to its end, it does not block the next one.
THEOREM NothingBlocks == Spec => []NeverBlocked
<1>1. Inv => NeverBlocked
  <2> SUFFICES ASSUME Inv, \A g \in Goals : /\ pc[g] \in {"none", "done", "gaveup"}
                                            /\ ~Active(g)
               PROVE  ~Busy
    BY DEF NeverBlocked
  <2>1. ~is_recording_area
    BY DEF Inv, FlagOK, Goals
  <2>2. ~Active(docking_goal_handle)
    BY DEF Inv, TypeOK, Active, Goals
  <2>. QED  BY <2>1, <2>2 DEF Busy
<1>. QED  BY InvAlways, <1>1, PTL

\* A client is told of success only on the map server's word.
THEOREM SuccessIsSaved == Spec => []SuccessMeansSaved
<1>1. Inv => SuccessMeansSaved
  BY DEF Inv, GoalOK, Fits, SuccessMeansSaved
<1>. QED  BY InvAlways, <1>1, PTL

\* Only docking stations that charge are recorded, whatever the charger says
\* while the thread looks at it twice.
THEOREM StationsCharge == Spec => []NoChargeNoDock
<1>1. Inv => NoChargeNoDock
  BY DEF Inv, GoalOK, Fits, DockFits, NoChargeNoDock, Goals
<1>. QED  BY InvAlways, <1>1, PTL

\* However a docking recording ends, it has told the robot to stop, unless
\* Nav2 had not taken the goal when it gave up.
THEOREM NobodyIsLeftDriving == Spec => []EndedMeansStopped
<1>1. Inv => EndedMeansStopped
  <2> SUFFICES ASSUME Inv, NEW g \in DockGoals, handle[g] \in Lifecycle!Outcomes,
                      pc[g] # "gaveup"
               PROVE  drive_cancel[g] \/ drive[g] \notin {"requested", "executing"}
    BY DEF EndedMeansStopped, At
  <2>1. Fits(g, pc[g], handle[g]) /\ DockFits(g, pc[g], handle[g])
    BY DEF Inv, GoalOK, Fits, Goals
  <2>2. pc[g] = "done"
    BY <2>1 DEF Fits, DockFits
  <2>. QED  BY <2>1, <2>2 DEF DockFits
<1>. QED  BY InvAlways, <1>1, PTL

----------------------------------------------------------------------------
(* Clients that wait for a result.                                         *)

\* With one recording at a time, the points, the name and the last area goal
\* are those of one recording, which is the running one if there is any.
OwnInv ==
  /\ \A g, h \in Goals : Active(g) /\ Active(h) => g = h
  /\ current_area_name = area_boundary_goal_handle
  /\ \A i \in 1..Len(current_boundary_points) :
       current_boundary_points[i] = area_boundary_goal_handle
  /\ \A g \in AreaGoals : Active(g) => area_boundary_goal_handle = g
  /\ \A g \in AreaGoals : pc[g] = "build" => Len(current_boundary_points) >= 3
  /\ SavedAreaIsOwn

\* A step that accepts no goal and changes nothing of the recording.
LEMMA OwnKept ==
  ASSUME OwnInv,
         UNCHANGED <<current_area_name, area_boundary_goal_handle,
                     current_boundary_points, saved>>,
         \A g \in Goals : Active(g)' => Active(g),
         \A g \in AreaGoals : pc'[g] = "build" => pc[g] = "build"
  PROVE  OwnInv'
  BY DEF OwnInv, SavedAreaIsOwn, Goals

LEMMA FinishStops ==
  ASSUME NEW g \in Goals, NEW o \in Lifecycle!Outcomes, Finish(g, o), TypeOK
  PROVE  \A h \in Goals : Active(h)' => Active(h)
  BY DEF Finish, Active, TypeOK

\* A point more, recorded for the last area goal.
LEMMA OwnPush ==
  ASSUME Inv, OwnInv, NEW t, Push(t, area_boundary_goal_handle),
         UNCHANGED <<handle, current_area_name, area_boundary_goal_handle, saved>>,
         \A g \in AreaGoals : pc'[g] = "build" => pc[g] = "build"
  PROVE  OwnInv'
<1> DEFINE points == current_boundary_points
<1>1. points \in Seq(AreaGoals)
  BY DEF Inv, TypeOK
<1>2. /\ Len(points') >= Len(points)
      /\ \A i \in 1..Len(points') : points'[i] = area_boundary_goal_handle
  <2>1. CASE points' = points
    BY <1>1, <2>1 DEF OwnInv
  <2>2. CASE points' = Append(points, area_boundary_goal_handle)
    BY <1>1, <2>2 DEF OwnInv
  <2>. QED  BY <2>1, <2>2 DEF Push
<1>3. Len(points') \in Nat /\ Len(points) \in Nat
  BY <1>1 DEF Push
<1>4. \A g \in AreaGoals : pc'[g] = "build" => Len(points') >= 3
  BY <1>2, <1>3 DEF OwnInv
<1>5. \A g : Active(g)' <=> Active(g)
  BY DEF Active
<1>6. SavedAreaIsOwn'
  BY DEF OwnInv, SavedAreaIsOwn
<1>. QED  BY <1>2, <1>4, <1>5, <1>6 DEF OwnInv

LEMMA OwnGoal ==
  ASSUME OneAtATime, Inv, OwnInv, NEW g \in Goals,
         HandleAreaBoundaryGoal(g) \/ HandleDockingGoal(g)
  PROVE  OwnInv'
<1>1. /\ TypeOK /\ \A h \in Goals : ~Active(h)
      /\ \A h \in Goals : pc[h] # "build"
  BY RecorderAssumption
  DEF Inv, HandleAreaBoundaryGoal, HandleDockingGoal, MaySend, GoalOK, Fits,
      Active
<1>2. CASE RejectGoal(g)
  <2>1. \A h \in Goals : Active(h)' => Active(h)
    BY <1>1, <1>2 DEF RejectGoal, Active, TypeOK
  <2>. QED  BY <1>2, <2>1, OwnKept DEF RejectGoal, areaVars, saveVars
<1>3. CASE ~RejectGoal(g)
  <2>1. /\ handle' = [handle EXCEPT ![g] = "executing"]
        /\ \E s \in {"start", "server"} : pc' = [pc EXCEPT ![g] = s]
        /\ UNCHANGED saved
    BY <1>3 DEF HandleAreaBoundaryGoal, HandleDockingGoal, Goto, saveVars
  <2>2. /\ \A h \in Goals : Active(h)' => h = g
        /\ \A h \in AreaGoals : pc'[h] # "build"
    BY <1>1, <2>1 DEF TypeOK, Active, Goals
  <2>3. SavedAreaIsOwn'
    BY <2>1 DEF OwnInv, SavedAreaIsOwn
  <2>4. CASE HandleAreaBoundaryGoal(g)
    <3>1. /\ current_boundary_points' = <<>>
          /\ area_boundary_goal_handle' = g /\ current_area_name' = g
      BY <1>3, <2>4 DEF HandleAreaBoundaryGoal, ClearPoints
    <3>. QED  BY <2>2, <2>3, <3>1 DEF OwnInv, Goals
  <2>5. CASE HandleDockingGoal(g)
    <3>1. /\ g \notin AreaGoals
          /\ UNCHANGED <<current_boundary_points, area_boundary_goal_handle,
                         current_area_name>>
      BY <1>3, <2>5, RecorderAssumption DEF HandleDockingGoal, areaVars
    <3>. QED  BY <2>2, <2>3, <3>1 DEF OwnInv, Goals
  <2>. QED  BY <2>4, <2>5
<1>. QED  BY <1>2, <1>3

LEMMA OwnBuild ==
  ASSUME Inv, OwnInv, NEW g \in Goals, BuildArea(g)
  PROVE  OwnInv'
<1>1. /\ g \in AreaGoals /\ TypeOK /\ pc[g] = "build"
      /\ saved' = [saved EXCEPT ![g] = [name   |-> current_area_name,
                                        points |-> current_boundary_points]]
      /\ pc' = [pc EXCEPT ![g] = "save"]
      /\ UNCHANGED <<handle, current_area_name, area_boundary_goal_handle,
                     current_boundary_points>>
  BY AreaOnly DEF Inv, BuildArea, At, Goto, areaStepUnchanged
<1>2. Active(g)
  BY <1>1, RecorderAssumption DEF Inv, GoalOK, Fits, Active
<1>3. /\ area_boundary_goal_handle = g /\ current_area_name = g
      /\ Len(current_boundary_points) >= 3
      /\ \A i \in 1..Len(current_boundary_points) :
           current_boundary_points[i] = g
  BY <1>1, <1>2 DEF OwnInv
<1>4. SavedAreaIsOwn'
  <2> SUFFICES ASSUME NEW h \in AreaGoals, saved'[h] # NoArea
               PROVE  /\ saved'[h].name = h
                      /\ Len(saved'[h].points) >= 3
                      /\ \A i \in 1..Len(saved'[h].points) :
                           saved'[h].points[i] = h
    BY DEF SavedAreaIsOwn
  <2>1. CASE h = g
    <3>1. /\ saved'[g].name = current_area_name
          /\ saved'[g].points = current_boundary_points
      BY <1>1 DEF TypeOK
    <3>. QED  BY <1>3, <2>1, <3>1
  <2>2. CASE h # g
    <3>1. saved'[h] = saved[h]
      BY <1>1, <2>2 DEF TypeOK, Goals
    <3>. QED  BY <3>1 DEF OwnInv, SavedAreaIsOwn
  <2>. QED  BY <2>1, <2>2
<1>5. \A h \in AreaGoals : pc'[h] = "build" => pc[h] = "build"
  BY <1>1 DEF TypeOK, Goals
<1>6. \A h : Active(h)' <=> Active(h)
  BY <1>1 DEF Active
<1>. QED  BY <1>1, <1>4, <1>5, <1>6 DEF OwnInv

LEMMA OwnCheck ==
  ASSUME Inv, OwnInv, NEW g \in Goals, CheckPolygon(g)
  PROVE  OwnInv'
<1>1. /\ TypeOK
      /\ UNCHANGED <<current_area_name, area_boundary_goal_handle,
                     current_boundary_points, saved>>
  BY DEF Inv, CheckPolygon, saveVars
<1>2. CASE AbortGoal(g)
  <2>1. \A h \in Goals : Active(h)' => Active(h)
    BY <1>1, <1>2, FinishStops DEF AbortGoal
  <2>2. \A h \in AreaGoals : pc'[h] = "build" => pc[h] = "build"
    BY <1>1, <1>2 DEF AbortGoal, Goto, TypeOK, Goals
  <2>. QED  BY <1>1, <2>1, <2>2, OwnKept
<1>3. CASE /\ Len(current_boundary_points) >= 3
           /\ Goto(g, "build") /\ UNCHANGED handle
  BY <1>1, <1>3 DEF OwnInv, SavedAreaIsOwn, Active
<1>4. Len(current_boundary_points) \in Nat
  BY <1>1 DEF TypeOK
<1>. QED  BY <1>2, <1>3, <1>4 DEF CheckPolygon

\* The other steps of a thread leave what is recorded alone, and no step makes
\* a goal active.
LEMMA OwnThread ==
  ASSUME Inv, OwnInv, NEW g \in Goals, Thread(g)
  PROVE  OwnInv'
<1> DEFINE same == UNCHANGED <<current_area_name, area_boundary_goal_handle,
                               current_boundary_points, saved>>
           leads(step) == pc' = [pc EXCEPT ![g] = step]
<1>1. TypeOK /\ \A h : UNCHANGED handle => (Active(h)' <=> Active(h))
  BY DEF Inv, Active
<1>2. ASSUME NEW step \in Steps \ {"build"}, leads(step), same,
             \A h \in Goals : Active(h)' => Active(h)
      PROVE  OwnInv'
  <2>1. \A h \in AreaGoals : pc'[h] = "build" => pc[h] = "build"
    BY <1>1, <1>2 DEF TypeOK, Goals
  <2>. QED  BY <1>2, <2>1, OwnKept
<1>3. ASSUME AbortGoal(g), UNCHANGED <<areaVars, saved>>
      PROVE  OwnInv'
  BY <1>1, <1>2, <1>3, FinishStops DEF AbortGoal, Goto, areaVars
<1>4. CASE \/ TestRecording(g) \/ TestAuto(g) \/ TestCanceling(g)
           \/ (g \in DockGoals /\ (TestCharging(g) \/ RunOutOfTime(g)))
  <2>1. same /\ UNCHANGED handle /\ \E step \in Steps \ {"build"} : leads(step)
    BY <1>4
    DEF TestRecording, TestAuto, TestCanceling, TestCharging, RunOutOfTime,
        Goto, areaVars, saveVars
  <2>. QED  BY <1>1, <1>2, <2>1
<1>5. CASE ReportCanceled(g) \/ ReportFailed(g) \/ SaveAnswer(g)
  <2>1. /\ same /\ \E step \in Steps \ {"build"} : leads(step)
        /\ \E o \in Lifecycle!Outcomes : Finish(g, o)
    BY <1>5 DEF ReportCanceled, ReportFailed, SaveAnswer, Goto, areaVars, saveVars
  <2>2. \A h \in Goals : Active(h)' => Active(h)
    BY <1>1, <2>1, FinishStops
  <2>. QED  BY <1>2, <2>1, <2>2
<1>6. CASE QuitRecording(g) \/ RemoveServices(g)
  <2>1. same /\ UNCHANGED handle /\ \E step \in Steps \ {"build"} : leads(step)
    BY <1>6 DEF QuitRecording, RemoveServices, Goto, areaStepUnchanged
  <2>. QED  BY <1>1, <1>2, <2>1
<1>7. CASE RequestSave(g)
  <2>1. CASE AbortGoal(g)
    BY <1>3, <1>7, <2>1 DEF RequestSave
  <2>2. CASE Goto(g, "saving") /\ UNCHANGED handle
    BY <1>1, <1>2, <1>7, <2>2 DEF RequestSave, Goto, areaVars
  <2>. QED  BY <1>7, <2>1, <2>2 DEF RequestSave
<1>8. CASE /\ g \in DockGoals
           /\ \/ SendDriveGoal(g) \/ DriveAnswer(g) \/ CancelDrive(g)
              \/ CheckCharging(g) \/ RecordPose(g)
  <2>1. UNCHANGED <<areaVars, saved>> /\ same
    BY <1>8
    DEF SendDriveGoal, DriveAnswer, CancelDrive, CheckCharging, RecordPose,
        dockStepUnchanged, areaVars, saveVars
  <2>2. \/ AbortGoal(g)
        \/ Finish(g, "aborted") /\ leads("gaveup")
        \/ UNCHANGED handle /\ \E step \in Steps \ {"build"} : leads(step)
    BY <1>8
    DEF SendDriveGoal, DriveAnswer, CancelDrive, CheckCharging, RecordPose, Goto
  <2>3. CASE Finish(g, "aborted") /\ leads("gaveup")
    BY <1>1, <1>2, <2>1, <2>3, FinishStops
  <2>. QED  BY <1>1, <1>2, <1>3, <2>1, <2>2, <2>3
<1>9. CASE StartRecording(g) \/ PushPoint(g)
  <2>1. /\ g \in AreaGoals /\ pc[g] \in {"start", "push"}
        /\ UNCHANGED <<handle, current_area_name, area_boundary_goal_handle, saved>>
        /\ \E step \in {"loop", "failed"} : leads(step)
        /\ Push(g, g) \/ UNCHANGED current_boundary_points
    BY <1>9, AreaOnly
    DEF StartRecording, PushPoint, At, Goto, areaStepUnchanged
  <2>2. area_boundary_goal_handle = g
    BY <2>1, RecorderAssumption DEF Inv, GoalOK, Fits, OwnInv, Active
  <2>3. \A h \in AreaGoals : pc'[h] = "build" => pc[h] = "build"
    BY <1>1, <2>1 DEF TypeOK, Goals
  <2>4. CASE Push(g, g)
    BY <2>1, <2>2, <2>3, <2>4, OwnPush
  <2>5. CASE UNCHANGED current_boundary_points
    BY <1>1, <2>1, <2>3, <2>5, OwnKept
  <2>. QED  BY <2>1, <2>4, <2>5
<1>. QED
  BY <1>4, <1>5, <1>6, <1>7, <1>8, <1>9, OwnCheck, OwnBuild DEF Thread

LEMMA OwnNext ==
  ASSUME OneAtATime, Inv, OwnInv, [Next]_vars
  PROVE  OwnInv'
<1>1. CASE UNCHANGED vars
  BY <1>1, OwnKept DEF vars, areaVars, saveVars, Active
<1>2. CASE Callback
  <2>1. UNCHANGED <<handle, pc, area_boundary_goal_handle, current_area_name,
                    saved>>
    BY <1>2
    DEF Callback, HandleSetRecordingMode, HandleAddBoundaryPoint,
        HandleFinishAreaRecording, ChargingStatusCallback, callbackUnchanged,
        handleVars, saveVars
  <2>2. \/ Push(NoGoal, area_boundary_goal_handle)
        \/ UNCHANGED current_boundary_points
    BY <1>2
    DEF Callback, HandleSetRecordingMode, HandleAddBoundaryPoint,
        HandleFinishAreaRecording, ChargingStatusCallback
  <2>3. CASE UNCHANGED current_boundary_points
    BY <2>1, <2>3, OwnKept DEF Active
  <2>4. CASE Push(NoGoal, area_boundary_goal_handle)
    BY <2>1, <2>4, OwnPush
  <2>. QED  BY <2>2, <2>3, <2>4
<1>3. ASSUME NEW g \in Goals,
             \/ HandleCancel(g) \/ MapServer(g)
             \/ (g \in DockGoals /\ DriveServer(g))
      PROVE  OwnInv'
  <2>1. /\ UNCHANGED <<pc, current_area_name, area_boundary_goal_handle,
                       current_boundary_points, saved>>
        /\ \/ UNCHANGED handle
           \/ /\ handle[g] = "executing"
              /\ handle' = [handle EXCEPT ![g] = "canceling"]
    BY <1>3 DEF HandleCancel, MapServer, DriveServer, areaVars, saveVars
  <2>2. \A h \in Goals : Active(h)' => Active(h)
    BY <2>1 DEF Inv, TypeOK, Active
  <2>. QED  BY <2>1, <2>2, OwnKept
<1>4. \A g \in DockGoals : g \in Goals
  BY DEF Goals
<1>. QED
  BY <1>1, <1>2, <1>3, <1>4, OwnGoal, OwnThread DEF Next

\* Clients that wait for the result of a recording before they start another
\* get what they recorded: the area saved for a goal has its own name and at
\* least three points, all its own.
THEOREM RecordingsDoNotMix ==
  ASSUME OneAtATime
  PROVE  Spec => []SavedAreaIsOwn
<1>1. Init => OwnInv
  BY RecorderAssumption DEF Init, OwnInv, SavedAreaIsOwn, Active, Goals, NoArea
<1>2. Inv /\ OwnInv /\ [Next]_vars => OwnInv'
  BY OwnNext
<1>3. OwnInv => SavedAreaIsOwn
  BY DEF OwnInv
<1>. QED  BY InvAlways, <1>1, <1>2, <1>3, PTL DEF Spec

=============================================================================
