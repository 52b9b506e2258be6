---------------------------- MODULE DockingProofs ----------------------------
(***************************************************************************)
(* DockingHelper keeps the promise of an action server, for any number of  *)
(* goals and stations: the detached thread of a goal and the result        *)
(* callback may both want to end it, and exactly one of them does.         *)
(***************************************************************************)
EXTENDS DockingHelper, TLAPS

Reporting(g) == executor \in {<<"stop", g>>, <<"report", g>>}

\* Before Nav2 has been asked, nothing has happened to the goal but its thread.
Unasked(g) == /\ nav2[g] = "none" /\ answers[g] = {}
              /\ ~finished[g] /\ ~goal_rejected[g] /\ docking_active[g]

\* What is the case where the thread is.  finished goes up once: the one that
\* raises it is the thread on its way to canceled, or the executor, which then
\* reports.  A rejection raises goal_rejected, and no result follows it.
ThreadOK(g) ==
  /\ pc[g] = "none" <=> handle[g] \in {"unsent", "rejected"}
  /\ pc[g] \in {"none", "find", "pose", "server"} => Unasked(g)
  /\ pc[g] \in {"find", "pose", "server"} => handle[g] \in Lifecycle!Running
  /\ pc[g] \in {"loop", "check", "after"} =>
       IF finished[g]
         THEN /\ nav2[g] \in Nav2Ended
              /\ handle[g] \in Lifecycle!Running => Reporting(g)
         ELSE handle[g] \in Lifecycle!Running
  /\ pc[g] \in {"cancel", "canceled"} => finished[g] /\ handle[g] = "canceling"
  /\ pc[g] = "after" => ~docking_active[g]
  /\ pc[g] = "done" => /\ finished[g] \/ nav2[g] \in {"none", "rejected"}
                       /\ handle[g] \in Lifecycle!Running => Reporting(g)

\* What is the case where the executor is.
ExecutorOK(g) ==
  /\ Reporting(g) => /\ handle[g] \in Lifecycle!Running /\ finished[g]
                     /\ nav2[g] \in Nav2Ended
                     /\ pc[g] \notin {"cancel", "canceled"}
  /\ executor = <<"rejected", g>> => goal_rejected[g]
  /\ goal_rejected[g] => nav2[g] = "rejected"
  /\ ~docking_active[g] => goal_rejected[g] \/ finished[g]

VerdictOK(g) ==
  /\ handle[g] = "succeeded" => nav2[g] = "succeeded"
  /\ handle[g] = "aborted" => nav2[g] \notin {"requested", "executing"}

Owner(g) == ThreadOK(g) /\ ExecutorOK(g) /\ VerdictOK(g)

Inv == TypeOK /\ \A g \in Goals : Owner(g)

\* Once async_cancel_goal has thrown, nobody owns anything any more, but what
\* clients have been told stays true.
GoneInv == TypeOK /\ Terminated /\ \A g \in Goals : VerdictOK(g)

----------------------------------------------------------------------------
(* What a step leaves alone.                                               *)

USE DEF Lifecycle!States, Lifecycle!Running, Lifecycle!Outcomes, Nav2States,
        Nav2Ended, ThreadSteps

\* The executor's place is the step of at most one goal.
LEMMA ExecutorPlaces ==
  ASSUME NEW g \in Goals, NEW h \in Goals,
         NEW s \in {"rejected", "stop", "report"}
  PROVE  /\ <<s, g>> # <<"spin">> /\ <<s, g>> # <<"terminated">>
         /\ \A t : <<s, g>> = <<t, h>> <=> s = t /\ g = h
  OBVIOUS

\* Nothing that is said of the goal h has changed, but that Nav2 may have
\* pushed it out.
Untouched(h) ==
  /\ handle'[h] = handle[h] /\ pc'[h] = pc[h]
  /\ docking_active'[h] = docking_active[h]
  /\ goal_rejected'[h] = goal_rejected[h]
  /\ finished'[h] = finished[h]
  /\ answers'[h] = answers[h]
  /\ \/ nav2'[h] = nav2[h]
     \/ nav2[h] = "executing" /\ nav2'[h] = "failed"
  /\ Reporting(h)' <=> Reporting(h)
  /\ (executor = <<"rejected", h>>)' => executor = <<"rejected", h>>

LEMMA OtherGoals ==
  ASSUME NEW h \in Goals, Owner(h), Untouched(h)
  PROVE  Owner(h)'
<1>1. ThreadOK(h)'
  BY DEF Owner, ThreadOK, ExecutorOK, Untouched, Unasked
<1>2. ExecutorOK(h)'
  BY DEF Owner, ExecutorOK, Untouched
<1>3. VerdictOK(h)'
  BY DEF Owner, VerdictOK, Untouched
<1>. QED  BY <1>1, <1>2, <1>3 DEF Owner

\* A step of the goal g leaves the other goals untouched.
LEMMA OneGoal ==
  ASSUME Inv, NEW g \in Goals, TypeOK', Owner(g)',
         \A h \in Goals \ {g} : Untouched(h)
  PROVE  Inv'
  BY OtherGoals DEF Inv

\* A goal ended as it may be ends as the abstract specification says.
LEMMA FinishEnds ==
  ASSUME TypeOK, NEW g \in Goals, NEW o, Finish(g, o),
         Lifecycle!MayEnd(handle[g], o)
  PROVE  /\ handle' \in [Goals -> Lifecycle!States]
         /\ handle' = [handle EXCEPT ![g] = o]
         /\ Lifecycle!Next
<1>1. handle' = [handle EXCEPT ![g] = o] /\ o \in Lifecycle!Outcomes
  BY DEF Finish, Lifecycle!MayEnd
<1>2. Lifecycle!End(g)
  BY <1>1 DEF Lifecycle!End, Lifecycle!Move
<1>. QED  BY <1>1, <1>2 DEF TypeOK, Lifecycle!Next

----------------------------------------------------------------------------
(* The thread.                                                             *)

\* A step of g's thread that ends nothing: to the next step, with the atomics
\* and what Nav2 is asked as they are.
Quietly == UNCHANGED <<docking_stations, goal_rejected, docking_active, holder,
                       executor, answers>>

LEMMA ThreadMoves ==
  ASSUME Inv, NEW g \in Goals, NEW next \in ThreadSteps, Goto(g, next), Quietly,
         station' \in [Goals -> Stations \cup {NoStation}],
         UNCHANGED <<handle, finished, nav2Vars>>, ThreadOK(g)', ExecutorOK(g)'
  PROVE  Inv'
<1>1. pc' = [pc EXCEPT ![g] = next]
  BY DEF Goto
<1>2. TypeOK'
  BY <1>1 DEF Inv, TypeOK, Quietly, nav2Vars
<1>3. VerdictOK(g)'
  BY DEF Inv, Owner, VerdictOK, nav2Vars
<1>4. \A h \in Goals \ {g} : Untouched(h)
  BY <1>1 DEF Inv, TypeOK, Quietly, Untouched, Reporting, nav2Vars
<1>. QED  BY <1>2, <1>3, <1>4, OneGoal DEF Owner

\* The thread aborts its goal, which Nav2 has not been asked about or has
\* rejected.
LEMMA ThreadAborts ==
  ASSUME Inv, NEW g \in Goals, AbortGoal(g), Quietly,
         station' \in [Goals -> Stations \cup {NoStation}],
         UNCHANGED <<finished, nav2Vars>>,
         handle[g] \in Lifecycle!Running, nav2[g] \in {"none", "rejected"}
  PROVE  Inv' /\ Lifecycle!Next
<1>1. TypeOK /\ Owner(g)
  BY DEF Inv
<1>2. Lifecycle!MayEnd(handle[g], "aborted")
  BY DEF Lifecycle!MayEnd
<1>3. /\ handle' \in [Goals -> Lifecycle!States]
      /\ handle' = [handle EXCEPT ![g] = "aborted"]
      /\ Lifecycle!Next
  BY <1>1, <1>2, FinishEnds DEF AbortGoal
<1>4. pc' = [pc EXCEPT ![g] = "done"]
  BY DEF AbortGoal, Goto
<1>5. TypeOK'
  BY <1>1, <1>3, <1>4 DEF TypeOK, Quietly, nav2Vars
<1>6. Owner(g)'
  <2>1. ~Reporting(g)
    BY <1>1 DEF Owner, ExecutorOK
  <2>2. handle'[g] = "aborted" /\ pc'[g] = "done"
    BY <1>1, <1>3, <1>4 DEF TypeOK
  <2>3. UNCHANGED <<nav2, finished, goal_rejected, docking_active, executor>>
    BY DEF Quietly, nav2Vars
  <2>4. ThreadOK(g)'
    BY <2>2, <2>3 DEF ThreadOK
  <2>5. ExecutorOK(g)'
    BY <1>1, <2>1, <2>3 DEF Owner, ExecutorOK, Reporting
  <2>. QED  BY <2>2, <2>3, <2>4, <2>5 DEF Owner, VerdictOK
<1>7. \A h \in Goals \ {g} : Untouched(h)
  BY <1>1, <1>3, <1>4 DEF TypeOK, Quietly, Untouched, Reporting, nav2Vars
<1>. QED  BY <1>3, <1>5, <1>6, <1>7, OneGoal

LEMMA FindStationStep ==
  ASSUME Inv, NEW g \in Goals, FindStation(g)
  PROVE  Inv' /\ [Lifecycle!Next]_handle
<1>1. /\ TypeOK /\ Owner(g) /\ pc[g] = "find" /\ Quietly
      /\ UNCHANGED <<finished, nav2Vars>>
  BY DEF Inv, FindStation, At, Quietly, atomics, nav2Vars
<1>2. Unasked(g) /\ handle[g] \in Lifecycle!Running
  BY <1>1 DEF Owner, ThreadOK
<1>3. station' \in [Goals -> Stations \cup {NoStation}]
  BY <1>1 DEF FindStation, TypeOK
<1>4. CASE Goto(g, "pose") /\ UNCHANGED handle
  <2>1. pc'[g] = "pose"
    BY <1>1, <1>4 DEF Goto, TypeOK
  <2>2. ThreadOK(g)' /\ ExecutorOK(g)'
    BY <1>1, <1>2, <1>4, <2>1
    DEF Owner, ThreadOK, ExecutorOK, Unasked, Quietly, Reporting, nav2Vars
  <2>. QED  BY <1>1, <1>3, <1>4, <2>2, ThreadMoves
<1>5. CASE AbortGoal(g)
  BY <1>1, <1>2, <1>3, <1>5, ThreadAborts DEF Unasked
<1>. QED  BY <1>4, <1>5 DEF FindStation

LEMMA ComputeDockPoseStep ==
  ASSUME Inv, NEW g \in Goals, ComputeDockPose(g)
  PROVE  Inv' /\ [Lifecycle!Next]_handle
<1>1. /\ TypeOK /\ Owner(g) /\ pc[g] = "pose" /\ Quietly
      /\ UNCHANGED <<station, finished, nav2Vars>>
  BY DEF Inv, ComputeDockPose, At, Quietly, atomics, nav2Vars
<1>2. Unasked(g) /\ handle[g] \in Lifecycle!Running
  BY <1>1 DEF Owner, ThreadOK
<1>3. station' \in [Goals -> Stations \cup {NoStation}]
  BY <1>1 DEF TypeOK
<1>4. CASE Goto(g, "server") /\ UNCHANGED handle
  <2>1. pc'[g] = "server"
    BY <1>1, <1>4 DEF Goto, TypeOK
  <2>2. ThreadOK(g)' /\ ExecutorOK(g)'
    BY <1>1, <1>2, <1>4, <2>1
    DEF Owner, ThreadOK, ExecutorOK, Unasked, Quietly, Reporting, nav2Vars
  <2>. QED  BY <1>1, <1>3, <1>4, <2>2, ThreadMoves
<1>5. CASE AbortGoal(g)
  BY <1>1, <1>2, <1>3, <1>5, ThreadAborts DEF Unasked
<1>. QED  BY <1>4, <1>5 DEF ComputeDockPose

LEMMA SendDockGoalStep ==
  ASSUME Inv, NEW g \in Goals, SendDockGoal(g)
  PROVE  Inv' /\ [Lifecycle!Next]_handle
<1>1. /\ TypeOK /\ Owner(g) /\ pc[g] = "server" /\ Quietly
      /\ UNCHANGED <<station, finished, nav2_cancel>>
  BY DEF Inv, SendDockGoal, At, Quietly, atomics
<1>2. Unasked(g) /\ handle[g] \in Lifecycle!Running
  BY <1>1 DEF Owner, ThreadOK
<1>3. CASE /\ nav2' = [nav2 EXCEPT ![g] = "requested"]
           /\ Goto(g, "loop") /\ UNCHANGED handle
  <2>1. pc' = [pc EXCEPT ![g] = "loop"]
    BY <1>3 DEF Goto
  <2>2. TypeOK'
    BY <1>1, <1>3, <2>1 DEF TypeOK, Quietly
  <2>3. Owner(g)'
    <3>1. pc'[g] = "loop" /\ nav2'[g] = "requested"
      BY <1>1, <1>3, <2>1 DEF TypeOK
    <3>. QED
      BY <1>1, <1>2, <1>3, <3>1
      DEF Owner, ThreadOK, ExecutorOK, VerdictOK, Unasked, Quietly, Reporting
  <2>4. \A h \in Goals \ {g} : Untouched(h)
    BY <1>1, <1>3, <2>1 DEF TypeOK, Quietly, Untouched, Reporting
  <2>. QED  BY <1>3, <2>2, <2>3, <2>4, OneGoal
<1>4. CASE AbortGoal(g) /\ UNCHANGED nav2
  BY <1>1, <1>2, <1>4, ThreadAborts DEF Unasked, TypeOK, nav2Vars
<1>. QED  BY <1>3, <1>4 DEF SendDockGoal

LEMMA TestActiveStep ==
  ASSUME Inv, NEW g \in Goals, TestActive(g)
  PROVE  Inv' /\ UNCHANGED handle
<1>1. /\ TypeOK /\ Owner(g) /\ pc[g] = "loop" /\ Quietly
      /\ UNCHANGED <<handle, station, finished, nav2Vars>>
  BY DEF Inv, TestActive, At, Quietly, atomics, nav2Vars
<1>2. PICK next \in {"check", "after"} :
        /\ Goto(g, next)
        /\ next = "after" => ~docking_active[g]
  BY DEF TestActive
<1>3. pc'[g] = next
  BY <1>1, <1>2 DEF Goto, TypeOK
<1>4. ThreadOK(g)' /\ ExecutorOK(g)'
  BY <1>1, <1>2, <1>3
  DEF Owner, ThreadOK, ExecutorOK, Quietly, Reporting, nav2Vars
<1>5. station' \in [Goals -> Stations \cup {NoStation}]
  BY <1>1 DEF TypeOK
<1>. QED  BY <1>1, <1>2, <1>4, <1>5, ThreadMoves

\* Where the thread and the executor meet: whoever raises finished first.
LEMMA CheckCancelingStep ==
  ASSUME Inv, NEW g \in Goals, CheckCanceling(g)
  PROVE  Inv' /\ UNCHANGED handle
<1>1. /\ TypeOK /\ Owner(g) /\ pc[g] = "check" /\ Quietly
      /\ UNCHANGED <<handle, station, nav2Vars>>
  BY DEF Inv, CheckCanceling, TestCanceling, At, Quietly, nav2Vars
<1>2. CASE Goto(g, "loop") /\ UNCHANGED finished
  <2>1. pc'[g] = "loop"
    BY <1>1, <1>2 DEF Goto, TypeOK
  <2>2. ThreadOK(g)' /\ ExecutorOK(g)'
    BY <1>1, <1>2, <2>1
    DEF Owner, ThreadOK, ExecutorOK, Quietly, Reporting, nav2Vars
  <2>3. station' \in [Goals -> Stations \cup {NoStation}]
    BY <1>1 DEF TypeOK
  <2>. QED  BY <1>1, <1>2, <2>2, <2>3, ThreadMoves
<1>3. ASSUME handle[g] = "canceling",
             Goto(g, IF finished[g] THEN "done" ELSE "cancel"),
             finished' = Set(finished, g)
      PROVE  Inv'
  <2>1. PICK next \in {"done", "cancel"} :
          /\ pc' = [pc EXCEPT ![g] = next]
          /\ IF finished[g] THEN next = "done" ELSE next = "cancel"
    BY <1>3 DEF Goto
  <2>2. finished' = [finished EXCEPT ![g] = TRUE]
    BY <1>3 DEF Set
  <2>3. TypeOK'
    BY <1>1, <2>1, <2>2 DEF TypeOK, Quietly, nav2Vars
  <2>4. Owner(g)'
    <3>1. pc'[g] = next /\ finished'[g] /\ finished[g] \in BOOLEAN
      BY <1>1, <2>1, <2>2 DEF TypeOK
    <3>2. ThreadOK(g)'
      BY <1>1, <1>3, <2>1, <3>1
      DEF Owner, ThreadOK, ExecutorOK, Quietly, Reporting, nav2Vars
    <3>3. ExecutorOK(g)' /\ VerdictOK(g)'
      BY <1>1, <1>3, <2>1, <3>1
      DEF Owner, ThreadOK, ExecutorOK, VerdictOK, Quietly, Reporting, nav2Vars
    <3>. QED  BY <3>2, <3>3 DEF Owner
  <2>5. \A h \in Goals \ {g} : Untouched(h)
    BY <1>1, <2>1, <2>2 DEF TypeOK, Quietly, Untouched, Reporting, nav2Vars
  <2>. QED  BY <2>3, <2>4, <2>5, OneGoal
<1>. QED  BY <1>1, <1>2, <1>3 DEF CheckCanceling, TestCanceling

LEMMA CancelNav2GoalStep ==
  ASSUME Inv, NEW g \in Goals, CancelNav2Goal(g)
  PROVE  Inv' /\ UNCHANGED handle
<1>1. /\ TypeOK /\ Owner(g) /\ pc[g] = "cancel" /\ Quietly
      /\ UNCHANGED <<handle, station, finished, nav2>>
      /\ Goto(g, "canceled") /\ TellNav2(g)
  BY DEF Inv, CancelNav2Goal, At, Quietly, atomics
<1>2. /\ pc' = [pc EXCEPT ![g] = "canceled"]
      /\ nav2_cancel' = [nav2_cancel EXCEPT ![g] = holder[g]]
  BY <1>1 DEF Goto, TellNav2
<1>3. TypeOK'
  BY <1>1, <1>2 DEF TypeOK, Quietly
<1>4. Owner(g)'
  <2>1. pc'[g] = "canceled"
    BY <1>1, <1>2 DEF TypeOK
  <2>. QED
    BY <1>1, <2>1
    DEF Owner, ThreadOK, ExecutorOK, VerdictOK, Quietly, Reporting
<1>5. \A h \in Goals \ {g} : Untouched(h)
  BY <1>1, <1>2 DEF TypeOK, Quietly, Untouched, Reporting
<1>. QED  BY <1>1, <1>3, <1>4, <1>5, OneGoal

LEMMA ReportCanceledStep ==
  ASSUME Inv, NEW g \in Goals, ReportCanceled(g)
  PROVE  Inv' /\ Lifecycle!Next
<1>1. /\ TypeOK /\ Owner(g) /\ pc[g] = "canceled" /\ Quietly
      /\ UNCHANGED <<station, finished, nav2Vars>>
      /\ Goto(g, "done") /\ Finish(g, "canceled")
  BY DEF Inv, ReportCanceled, At, Quietly, atomics, nav2Vars
<1>2. finished[g] /\ handle[g] = "canceling"
  BY <1>1 DEF Owner, ThreadOK
<1>3. /\ handle' \in [Goals -> Lifecycle!States]
      /\ handle' = [handle EXCEPT ![g] = "canceled"]
      /\ Lifecycle!Next
  <2>1. Lifecycle!MayEnd(handle[g], "canceled")
    BY <1>2 DEF Lifecycle!MayEnd
  <2>. QED  BY <1>1, <2>1, FinishEnds
<1>4. pc' = [pc EXCEPT ![g] = "done"]
  BY <1>1 DEF Goto
<1>5. TypeOK'
  BY <1>1, <1>3, <1>4 DEF TypeOK, Quietly, nav2Vars
<1>6. Owner(g)'
  <2>1. pc'[g] = "done" /\ handle'[g] = "canceled"
    BY <1>1, <1>3, <1>4 DEF TypeOK
  <2>. QED
    BY <1>1, <1>2, <2>1
    DEF Owner, ThreadOK, ExecutorOK, VerdictOK, Quietly, Reporting, nav2Vars
<1>7. \A h \in Goals \ {g} : Untouched(h)
  BY <1>1, <1>3, <1>4 DEF TypeOK, Quietly, Untouched, Reporting, nav2Vars
<1>. QED  BY <1>3, <1>5, <1>6, <1>7, OneGoal

LEMMA AfterLoopStep ==
  ASSUME Inv, NEW g \in Goals, AfterLoop(g)
  PROVE  Inv' /\ [Lifecycle!Next]_handle
<1>1. /\ TypeOK /\ Owner(g) /\ pc[g] = "after" /\ Quietly
      /\ UNCHANGED <<station, finished, nav2Vars>>
  BY DEF Inv, AfterLoop, At, Quietly, atomics, nav2Vars
<1>2. station' \in [Goals -> Stations \cup {NoStation}]
  BY <1>1 DEF TypeOK
<1>3. CASE goal_rejected[g] /\ AbortGoal(g)
  <2>1. nav2[g] = "rejected" /\ handle[g] \in Lifecycle!Running
    BY <1>1, <1>3 DEF Owner, ThreadOK, ExecutorOK
  <2>. QED  BY <1>1, <1>2, <1>3, <2>1, ThreadAborts
<1>4. CASE ~goal_rejected[g] /\ Goto(g, "done") /\ UNCHANGED handle
  <2>1. finished[g]
    BY <1>1, <1>4 DEF Owner, ThreadOK, ExecutorOK
  <2>2. pc'[g] = "done"
    BY <1>1, <1>4 DEF Goto, TypeOK
  <2>3. ThreadOK(g)' /\ ExecutorOK(g)'
    BY <1>1, <1>4, <2>1, <2>2
    DEF Owner, ThreadOK, ExecutorOK, Quietly, Reporting, nav2Vars
  <2>. QED  BY <1>1, <1>2, <1>4, <2>3, ThreadMoves
<1>. QED  BY <1>3, <1>4 DEF AfterLoop

LEMMA CancelThrowsStep ==
  ASSUME Inv, NEW g \in Goals, CancelThrows(g)
  PROVE  GoneInv' /\ UNCHANGED handle
<1>1. /\ Terminated'
      /\ UNCHANGED <<docking_stations, handle, pc, station, atomics, holder,
                     nav2Vars, answers>>
  BY DEF CancelThrows, Terminated, threadVars
<1>2. TypeOK'
  BY <1>1 DEF Inv, TypeOK, Terminated, atomics, nav2Vars
<1>3. \A h \in Goals : VerdictOK(h)'
  BY <1>1 DEF Inv, Owner, VerdictOK, nav2Vars
<1>. QED  BY <1>1, <1>2, <1>3 DEF GoneInv

LEMMA ThreadStep ==
  ASSUME Inv, NEW g \in Goals, Thread(g)
  PROVE  (Inv \/ GoneInv)' /\ [Lifecycle!Next]_handle
  BY FindStationStep, ComputeDockPoseStep, SendDockGoalStep, TestActiveStep,
     CheckCancelingStep, CancelNav2GoalStep, CancelThrowsStep,
     ReportCanceledStep, AfterLoopStep
  DEF Thread

----------------------------------------------------------------------------
(* The callbacks of the Nav2 client.                                       *)

\* A callback leaves the thread and Nav2 where they are.
Calls == UNCHANGED <<docking_stations, pc, station, nav2Vars>>

\* Nothing of the client runs before Nav2 has decided.
LEMMA NotBeforeAsking ==
  ASSUME NEW g \in Goals, Owner(g), pc[g] \in ThreadSteps, nav2[g] # "none"
  PROVE  pc[g] \notin {"none", "find", "pose", "server"}
  BY DEF Owner, ThreadOK, Unasked

LEMMA BeginsType ==
  ASSUME TypeOK, NEW g \in Goals, NEW c \in {"response", "result"}, Begins(g, c)
  PROVE  /\ answers' \in [Goals -> SUBSET {"response", "result"}]
         /\ \A h \in Goals \ {g} : answers'[h] = answers[h]
         /\ executor = <<"spin">>
  BY DEF TypeOK, Begins, Spinning

LEMMA GoalAcceptedStep ==
  ASSUME Inv, NEW g \in Goals, GoalAccepted(g)
  PROVE  Inv' /\ UNCHANGED handle
<1>1. /\ TypeOK /\ Owner(g) /\ Begins(g, "response") /\ Calls
      /\ UNCHANGED <<handle, atomics, executor>>
      /\ holder' = [holder EXCEPT ![g] = TRUE]
      /\ nav2[g] # "none"
  BY DEF Inv, GoalAccepted, Calls, Set, threadVars
<1>2. TypeOK'
  BY <1>1, BeginsType DEF TypeOK, Calls, atomics, nav2Vars
<1>3. Owner(g)'
  <2>1. pc[g] \notin {"none", "find", "pose", "server"}
    BY <1>1, NotBeforeAsking DEF TypeOK
  <2>. QED
    BY <1>1, <2>1 DEF Owner, ThreadOK, ExecutorOK, VerdictOK, Calls, atomics,
       nav2Vars, Reporting
<1>4. \A h \in Goals \ {g} : Untouched(h)
  BY <1>1, BeginsType DEF Untouched, Calls, atomics, nav2Vars, Reporting
<1>. QED  BY <1>1, <1>2, <1>3, <1>4, OneGoal

LEMMA GoalRejectedStep ==
  ASSUME Inv, NEW g \in Goals, GoalRejected(g)
  PROVE  Inv' /\ UNCHANGED handle
<1>1. /\ TypeOK /\ Owner(g) /\ Begins(g, "response") /\ Calls
      /\ UNCHANGED <<handle, holder, docking_active, finished>>
      /\ goal_rejected' = [goal_rejected EXCEPT ![g] = TRUE]
      /\ executor' = <<"rejected", g>>
      /\ nav2[g] = "rejected"
  BY DEF Inv, GoalRejected, NoteRejection, Calls, Set, threadVars
<1>2. executor = <<"spin">>
  BY <1>1, BeginsType
<1>3. TypeOK'
  <2>1. executor' \in {<<"spin">>, <<"terminated">>}
                     \cup ({"rejected", "stop", "report"} \X Goals)
    BY <1>1
  <2>. QED
    BY <1>1, <2>1, BeginsType DEF TypeOK, Calls, nav2Vars
<1>4. Owner(g)'
  <2>1. pc[g] \notin {"none", "find", "pose", "server"}
    BY <1>1, NotBeforeAsking DEF TypeOK
  <2>2. goal_rejected'[g] = TRUE
    BY <1>1 DEF TypeOK
  <2>3. ~Reporting(g) /\ ~Reporting(g)'
    BY <1>1, <1>2, ExecutorPlaces DEF Reporting
  <2>. QED
    BY <1>1, <2>1, <2>2, <2>3 DEF Owner, ThreadOK, ExecutorOK, VerdictOK, Calls,
       nav2Vars
<1>5. \A h \in Goals \ {g} : Untouched(h)
  <2> SUFFICES ASSUME NEW h \in Goals, h # g PROVE Untouched(h)
    OBVIOUS
  <2>1. /\ ~Reporting(h) /\ ~Reporting(h)'
        /\ executor' # <<"rejected", h>>
    BY <1>1, <1>2, ExecutorPlaces DEF Reporting
  <2>. QED
    BY <1>1, <2>1, BeginsType DEF Untouched, Calls, nav2Vars, TypeOK
<1>. QED  BY <1>1, <1>3, <1>4, <1>5, OneGoal

LEMMA GoalRejectedEndStep ==
  ASSUME Inv, NEW g \in Goals, GoalRejectedEnd(g)
  PROVE  Inv' /\ UNCHANGED handle
<1>1. /\ TypeOK /\ Owner(g) /\ Calls
      /\ UNCHANGED <<handle, holder, goal_rejected, finished, answers>>
      /\ docking_active' = [docking_active EXCEPT ![g] = FALSE]
      /\ executor = <<"rejected", g>> /\ executor' = <<"spin">>
  BY DEF Inv, GoalRejectedEnd, StopLoop, Back, Calls, Clear, threadVars
<1>2. TypeOK'
  BY <1>1 DEF TypeOK, Calls, nav2Vars
<1>3. \A h \in Goals : /\ ~Reporting(h) /\ ~Reporting(h)'
                       /\ executor' # <<"rejected", h>>
  BY <1>1, ExecutorPlaces DEF Reporting
<1>4. Owner(g)'
  <2>1. goal_rejected[g] /\ nav2[g] # "none"
    BY <1>1 DEF Owner, ExecutorOK
  <2>2. pc[g] \notin {"none", "find", "pose", "server"}
    BY <1>1, <2>1, NotBeforeAsking DEF TypeOK
  <2>3. docking_active'[g] = FALSE
    BY <1>1 DEF TypeOK
  <2>. QED
    BY <1>1, <1>3, <2>1, <2>2, <2>3 DEF Owner, ThreadOK, ExecutorOK, VerdictOK,
       Calls, nav2Vars
<1>5. \A h \in Goals \ {g} : Untouched(h)
  BY <1>1, <1>3 DEF Untouched, Calls, nav2Vars, TypeOK
<1>. QED  BY <1>1, <1>2, <1>4, <1>5, OneGoal

LEMMA ResultStep ==
  ASSUME Inv, NEW g \in Goals, Result(g)
  PROVE  Inv' /\ UNCHANGED handle
<1>1. /\ TypeOK /\ Owner(g) /\ Begins(g, "result") /\ Calls
      /\ UNCHANGED <<handle, holder, docking_active, goal_rejected>>
      /\ finished' = [finished EXCEPT ![g] = TRUE]
      /\ executor' = IF finished[g] THEN executor ELSE <<"stop", g>>
      /\ nav2[g] \in Nav2Ended
  BY DEF Inv, Result, Calls, Set, threadVars
<1>2. executor = <<"spin">>
  BY <1>1, BeginsType
<1>3. TypeOK'
  <2>1. executor' \in {<<"spin">>, <<"terminated">>}
                     \cup ({"rejected", "stop", "report"} \X Goals)
    BY <1>1, <1>2
  <2>. QED
    BY <1>1, <2>1, BeginsType DEF TypeOK, Calls, nav2Vars
<1>4. /\ ~Reporting(g)
      /\ \A h \in Goals : executor' # <<"rejected", h>>
      /\ \A h \in Goals \ {g} : ~Reporting(h) /\ ~Reporting(h)'
  BY <1>1, <1>2, ExecutorPlaces DEF Reporting
<1>5. Owner(g)'
  <2>1. pc[g] \notin {"none", "find", "pose", "server"}
    BY <1>1, NotBeforeAsking DEF TypeOK
  <2>2. finished'[g] = TRUE
    BY <1>1 DEF TypeOK
  <2>3. CASE finished[g]
    <3>1. ~Reporting(g)'
      BY <1>1, <1>4, <2>3 DEF Reporting
    <3>. QED
      BY <1>1, <1>4, <2>1, <2>2, <2>3, <3>1
      DEF Owner, ThreadOK, ExecutorOK, VerdictOK, Calls, nav2Vars
  <2>4. CASE ~finished[g]
    <3>1. Reporting(g)'
      BY <1>1, <2>4 DEF Reporting
    <3>2. /\ handle[g] \in Lifecycle!Running
          /\ pc[g] \in {"loop", "check", "after"}
      BY <1>1, <2>1, <2>4 DEF Owner, ThreadOK, TypeOK
    <3>. QED
      BY <1>1, <1>4, <2>2, <3>1, <3>2
      DEF Owner, ThreadOK, ExecutorOK, VerdictOK, Calls, nav2Vars
  <2>. QED  BY <2>3, <2>4
<1>6. \A h \in Goals \ {g} : Untouched(h)
  BY <1>1, <1>4, BeginsType DEF Untouched, Calls, nav2Vars, TypeOK
<1>. QED  BY <1>1, <1>3, <1>5, <1>6, OneGoal

LEMMA ResultStopStep ==
  ASSUME Inv, NEW g \in Goals, ResultStop(g)
  PROVE  Inv' /\ UNCHANGED handle
<1>1. /\ TypeOK /\ Owner(g) /\ Calls
      /\ UNCHANGED <<handle, holder, goal_rejected, finished, answers>>
      /\ docking_active' = [docking_active EXCEPT ![g] = FALSE]
      /\ executor = <<"stop", g>> /\ executor' = <<"report", g>>
  BY DEF Inv, ResultStop, StopLoop, Calls, Clear, threadVars
<1>2. TypeOK'
  <2>1. executor' \in {<<"spin">>, <<"terminated">>}
                     \cup ({"rejected", "stop", "report"} \X Goals)
    BY <1>1
  <2>. QED
    BY <1>1, <2>1 DEF TypeOK, Calls, nav2Vars
<1>3. /\ Reporting(g) /\ Reporting(g)'
      /\ \A h \in Goals : executor' # <<"rejected", h>>
      /\ \A h \in Goals \ {g} : ~Reporting(h) /\ ~Reporting(h)'
  BY <1>1, ExecutorPlaces DEF Reporting
<1>4. Owner(g)'
  <2>1. nav2[g] # "none" /\ finished[g]
    BY <1>1, <1>3 DEF Owner, ExecutorOK
  <2>2. pc[g] \notin {"none", "find", "pose", "server"}
    BY <1>1, <2>1, NotBeforeAsking DEF TypeOK
  <2>3. docking_active'[g] = FALSE
    BY <1>1 DEF TypeOK
  <2>. QED
    BY <1>1, <1>3, <2>1, <2>2, <2>3 DEF Owner, ThreadOK, ExecutorOK, VerdictOK,
       Calls, nav2Vars
<1>5. \A h \in Goals \ {g} : Untouched(h)
  BY <1>1, <1>3 DEF Untouched, Calls, nav2Vars, TypeOK
<1>. QED  BY <1>1, <1>2, <1>4, <1>5, OneGoal

LEMMA ResultReportStep ==
  ASSUME Inv, NEW g \in Goals, ResultReport(g)
  PROVE  Inv' /\ Lifecycle!Next
<1>1. /\ TypeOK /\ Owner(g) /\ Calls
      /\ UNCHANGED <<holder, atomics, answers>>
      /\ executor = <<"report", g>> /\ executor' = <<"spin">>
      /\ Finish(g, Verdict(g))
  BY DEF Inv, ResultReport, Back, Calls, threadVars
<1>2. \A h \in Goals : /\ ~Reporting(h)'
                       /\ executor' # <<"rejected", h>>
                       /\ h # g => ~Reporting(h)
  BY <1>1, ExecutorPlaces DEF Reporting
<1>3. /\ handle[g] \in Lifecycle!Running /\ finished[g]
      /\ nav2[g] \in Nav2Ended
      /\ pc[g] \notin {"cancel", "canceled"}
  BY <1>1 DEF Owner, ExecutorOK, Reporting
<1>4. /\ Verdict(g) \in {"succeeded", "aborted"}
      /\ Verdict(g) = "succeeded" => nav2[g] = "succeeded"
  BY DEF Verdict
<1>5. /\ handle' \in [Goals -> Lifecycle!States]
      /\ handle' = [handle EXCEPT ![g] = Verdict(g)]
      /\ Lifecycle!Next
  <2>1. Lifecycle!MayEnd(handle[g], Verdict(g))
    BY <1>3, <1>4 DEF Lifecycle!MayEnd
  <2>. QED  BY <1>1, <2>1, FinishEnds
<1>6. TypeOK'
  BY <1>1, <1>5 DEF TypeOK, Calls, atomics, nav2Vars
<1>7. Owner(g)'
  <2>1. handle'[g] = Verdict(g)
    BY <1>1, <1>5 DEF TypeOK
  <2>2. pc[g] \notin {"none", "find", "pose", "server"}
    BY <1>1, <1>3, NotBeforeAsking DEF TypeOK
  <2>. QED
    BY <1>1, <1>2, <1>3, <1>4, <2>1, <2>2
    DEF Owner, ThreadOK, ExecutorOK, VerdictOK, Calls, atomics, nav2Vars
<1>8. \A h \in Goals \ {g} : Untouched(h)
  BY <1>1, <1>2, <1>5 DEF Untouched, Calls, atomics, nav2Vars, TypeOK
<1>. QED  BY <1>5, <1>6, <1>7, <1>8, OneGoal

LEMMA ClientCallbackStep ==
  ASSUME Inv, NEW g \in Goals, ClientCallback(g)
  PROVE  Inv' /\ [Lifecycle!Next]_handle
  BY GoalAcceptedStep, GoalRejectedStep, GoalRejectedEndStep, ResultStep,
     ResultStopStep, ResultReportStep
  DEF ClientCallback

----------------------------------------------------------------------------
(* Clients and Nav2.                                                       *)

LEMMA HandleGoalStep ==
  ASSUME Inv, NEW g \in Goals, HandleGoal(g)
  PROVE  Inv' /\ Lifecycle!Next
<1>1. /\ TypeOK /\ Owner(g) /\ handle[g] = "unsent" /\ executor = <<"spin">>
      /\ UNCHANGED <<docking_stations, atomics, holder, executor, nav2Vars,
                     answers>>
  BY DEF Inv, HandleGoal, Spinning
<1>2. pc[g] = "none" /\ Unasked(g)
  BY <1>1 DEF Owner, ThreadOK
<1>3. \A h \in Goals : ~Reporting(h) /\ ~Reporting(h)'
  BY <1>1, ExecutorPlaces DEF Reporting
<1>4. ASSUME NEW s \in Stations \cup {NoStation}, Accept(g, s)
      PROVE  Inv' /\ Lifecycle!Next
  <2>1. /\ handle' = [handle EXCEPT ![g] = "executing"]
        /\ station' = [station EXCEPT ![g] = s]
        /\ pc' = [pc EXCEPT ![g] = "find"]
    BY <1>4 DEF Accept, Goto
  <2>2. TypeOK'
    BY <1>1, <2>1 DEF TypeOK, atomics, nav2Vars
  <2>3. Owner(g)'
    <3>1. pc'[g] = "find" /\ handle'[g] = "executing"
      BY <1>1, <2>1 DEF TypeOK
    <3>. QED
      BY <1>1, <1>2, <1>3, <3>1
      DEF Owner, ThreadOK, ExecutorOK, VerdictOK, Unasked, atomics, nav2Vars
  <2>4. \A h \in Goals \ {g} : Untouched(h)
    BY <1>1, <1>3, <2>1 DEF Untouched, atomics, nav2Vars, TypeOK
  <2>5. Lifecycle!Decide(g)
    BY <1>1, <2>1 DEF Lifecycle!Decide, Lifecycle!Move
  <2>. QED  BY <2>2, <2>3, <2>4, <2>5, OneGoal DEF Lifecycle!Next
<1>5. ASSUME Reject(g)
      PROVE  Inv' /\ Lifecycle!Next
  <2>1. /\ handle' = [handle EXCEPT ![g] = "rejected"]
        /\ UNCHANGED <<pc, station>>
    BY <1>5 DEF Reject, threadVars
  <2>2. TypeOK'
    BY <1>1, <2>1 DEF TypeOK, atomics, nav2Vars
  <2>3. Owner(g)'
    <3>1. handle'[g] = "rejected"
      BY <1>1, <2>1 DEF TypeOK
    <3>. QED
      BY <1>1, <1>2, <1>3, <2>1, <3>1
      DEF Owner, ThreadOK, ExecutorOK, VerdictOK, Unasked, atomics, nav2Vars
  <2>4. \A h \in Goals \ {g} : Untouched(h)
    BY <1>1, <1>3, <2>1 DEF Untouched, atomics, nav2Vars, TypeOK
  <2>5. Lifecycle!Decide(g)
    BY <1>1, <2>1 DEF Lifecycle!Decide, Lifecycle!Move
  <2>. QED  BY <2>2, <2>3, <2>4, <2>5, OneGoal DEF Lifecycle!Next
<1>. QED
  BY <1>4, <1>5 DEF HandleGoal, HandleDockRobotNearestGoal,
     HandleDockRobotToGoal

LEMMA HandleCancelStep ==
  ASSUME Inv, NEW g \in Goals, HandleCancel(g)
  PROVE  Inv' /\ Lifecycle!Next
<1>1. /\ TypeOK /\ Owner(g) /\ handle[g] = "executing"
      /\ handle' = [handle EXCEPT ![g] = "canceling"]
      /\ executor = <<"spin">>
      /\ UNCHANGED <<docking_stations, pc, station, atomics, holder, executor,
                     nav2Vars, answers>>
  BY DEF Inv, HandleCancel, Spinning, threadVars
<1>2. TypeOK'
  BY <1>1 DEF TypeOK, atomics, nav2Vars
<1>3. \A h \in Goals : ~Reporting(h) /\ ~Reporting(h)'
  BY <1>1, ExecutorPlaces DEF Reporting
<1>4. Owner(g)'
  <2>1. handle'[g] = "canceling"
    BY <1>1 DEF TypeOK
  <2>. QED
    BY <1>1, <1>3, <2>1
    DEF Owner, ThreadOK, ExecutorOK, VerdictOK, Unasked, atomics, nav2Vars
<1>5. \A h \in Goals \ {g} : Untouched(h)
  BY <1>1, <1>3 DEF Untouched, atomics, nav2Vars, TypeOK
<1>6. Lifecycle!RequestCancel(g)
  BY <1>1 DEF Lifecycle!RequestCancel, Lifecycle!Move
<1>. QED  BY <1>2, <1>4, <1>5, <1>6, OneGoal DEF Lifecycle!Next

\* Nav2 decides on a goal it has been asked about, and ends those it runs.
Nav2Moves(g) ==
  \/ nav2'[g] = nav2[g]
  \/ nav2[g] = "requested" /\ nav2'[g] \in {"rejected", "executing"}
  \/ nav2[g] = "executing" /\ nav2'[g] \in Nav2Ended

LEMMA Nav2MovesAlone ==
  ASSUME Inv, nodeUnchanged, nav2' \in [Goals -> Nav2States],
         \A h \in Goals : Nav2Moves(h)
  PROVE  Inv'
<1>1. TypeOK'
  BY DEF Inv, TypeOK, nodeUnchanged, threadVars, atomics
<1>2. ASSUME NEW h \in Goals
      PROVE  Owner(h)'
  <2>1. /\ Owner(h) /\ Nav2Moves(h)
        /\ UNCHANGED <<handle, pc, docking_active, goal_rejected, finished,
                       executor, answers>>
    BY DEF Inv, nodeUnchanged, threadVars, atomics
  <2>2. ThreadOK(h)'
    BY <2>1 DEF Owner, ThreadOK, Unasked, Nav2Moves, Reporting
  <2>3. ExecutorOK(h)'
    BY <2>1 DEF Owner, ExecutorOK, Nav2Moves, Reporting
  <2>4. VerdictOK(h)'
    BY <2>1 DEF Owner, VerdictOK, Nav2Moves
  <2>. QED  BY <2>2, <2>3, <2>4 DEF Owner
<1>. QED  BY <1>1, <1>2 DEF Inv

LEMMA Nav2Step ==
  ASSUME Inv, NEW g \in Goals, Nav2Decides(g) \/ Nav2Ends(g)
  PROVE  Inv' /\ UNCHANGED handle
<1>1. TypeOK /\ nodeUnchanged /\ UNCHANGED handle
  BY DEF Inv, Nav2Decides, Nav2Ends, nodeUnchanged
<1>2. nav2' \in [Goals -> Nav2States]
  BY <1>1 DEF TypeOK, Nav2Decides, Nav2Ends
<1>3. \A h \in Goals : Nav2Moves(h)
  BY <1>1 DEF TypeOK, Nav2Decides, Nav2Ends, Nav2Moves
<1>. QED  BY <1>1, <1>2, <1>3, Nav2MovesAlone

----------------------------------------------------------------------------
(* The whole node.                                                         *)

LEMMA InitInv == Init => Inv
<1> SUFFICES ASSUME Init PROVE Inv
  OBVIOUS
<1>1. TypeOK
  BY DEF Init, TypeOK
<1>2. ASSUME NEW g \in Goals
      PROVE  Owner(g)
  <2>1. ~Reporting(g) /\ executor # <<"rejected", g>>
    BY ExecutorPlaces DEF Init, Reporting
  <2>. QED
    BY <2>1 DEF Init, Owner, ThreadOK, ExecutorOK, VerdictOK, Unasked
<1>. QED  BY <1>1, <1>2 DEF Inv

LEMMA NextInv ==
  Inv /\ [Next]_vars => (Inv \/ GoneInv)' /\ [Lifecycle!Next]_handle
<1> SUFFICES ASSUME Inv, [Next]_vars
             PROVE  (Inv \/ GoneInv)' /\ [Lifecycle!Next]_handle
  OBVIOUS
<1>1. CASE UNCHANGED <<handle, pc, station, atomics, holder, executor, nav2Vars,
                       answers>> /\ docking_stations' \subseteq Stations
  <2>1. TypeOK'
    BY <1>1 DEF Inv, TypeOK, atomics, nav2Vars
  <2>2. \A g \in Goals : Untouched(g)
    BY <1>1 DEF Untouched, Reporting, atomics, nav2Vars
  <2>. QED  BY <1>1, <2>1, <2>2, OtherGoals DEF Inv
<1>2. CASE UNCHANGED vars
  BY <1>1, <1>2 DEF vars, threadVars, Inv, TypeOK
<1>3. CASE MapCallback
  BY <1>1, <1>3 DEF MapCallback, threadVars
<1>. QED
  BY <1>2, <1>3, HandleGoalStep, HandleCancelStep, ThreadStep,
     ClientCallbackStep, Nav2Step
  DEF Next

\* With the process gone, only Nav2 still moves.
LEMMA GoneStays ==
  GoneInv /\ [Next]_vars => GoneInv' /\ UNCHANGED handle
<1> SUFFICES ASSUME GoneInv, [Next]_vars
             PROVE  GoneInv' /\ UNCHANGED handle
  OBVIOUS
<1>1. TypeOK /\ executor = <<"terminated">>
  BY DEF GoneInv, Terminated
<1>2. ~MapCallback /\ \A g \in Goals : ~HandleGoal(g) /\ ~HandleCancel(g)
  BY <1>1 DEF MapCallback, HandleGoal, HandleCancel, Spinning
<1>3. ASSUME NEW g \in Goals PROVE ~Thread(g) /\ ~ClientCallback(g)
  <2>1. ~Thread(g)
    BY <1>1 DEF Thread, Terminated
  <2>2. \A c : ~Begins(g, c)
    BY <1>1 DEF Begins, Spinning
  <2>3. \A s \in {"rejected", "stop", "report"} : executor # <<s, g>>
    BY <1>1, ExecutorPlaces
  <2>. QED
    BY <2>1, <2>2, <2>3 DEF ClientCallback, GoalAccepted, GoalRejected,
       GoalRejectedEnd, Result, ResultStop, ResultReport
<1>4. CASE UNCHANGED vars
  BY <1>4 DEF GoneInv, TypeOK, Terminated, VerdictOK, vars, threadVars, atomics,
     nav2Vars
<1>5. ASSUME NEW g \in Goals, Nav2Decides(g) \/ Nav2Ends(g)
      PROVE  GoneInv' /\ UNCHANGED handle
  <2>1. /\ nav2' \in [Goals -> Nav2States] /\ \A h \in Goals : Nav2Moves(h)
    BY <1>1, <1>5 DEF TypeOK, Nav2Decides, Nav2Ends, Nav2Moves
  <2>2. nodeUnchanged
    BY <1>5 DEF Nav2Decides, Nav2Ends, nodeUnchanged
  <2>3. TypeOK' /\ Terminated' /\ UNCHANGED handle
    BY <1>1, <2>1, <2>2 DEF TypeOK, Terminated, nodeUnchanged, threadVars,
       atomics
  <2>4. \A h \in Goals : VerdictOK(h)'
    BY <2>1, <2>3 DEF GoneInv, VerdictOK, Nav2Moves
  <2>. QED  BY <2>3, <2>4 DEF GoneInv
<1>. QED  BY <1>2, <1>3, <1>4, <1>5 DEF Next

LEMMA InvAlways ==
  Spec => /\ [](Inv \/ GoneInv)
          /\ [][Lifecycle!Next]_handle
<1>1. (Inv \/ GoneInv) /\ [Next]_vars =>
        (Inv \/ GoneInv)' /\ [Lifecycle!Next]_handle
  BY NextInv, GoneStays
<1>. QED  BY InitInv, <1>1, PTL DEF Spec

\* Every variable has its type; in particular no handler ever makes the
\* terminal call on a goal handle that would be thrown back ("broken").
THEOREM TypeCorrect == Spec => []TypeOK
<1>1. Inv \/ GoneInv => TypeOK
  BY DEF Inv, GoneInv
<1>. QED  BY InvAlways, <1>1, PTL

\* Each goal is decided once and ends once, as canceled only if a client
\* asked: the node implements the abstract action server, however threads,
\* callbacks, cancel requests and preemption at Nav2 interleave.
THEOREM KeepsThePromise == Spec => ImplementsLifecycle
<1>1. Init => Lifecycle!Init
  BY DEF Init, Lifecycle!Init
<1>. QED
  BY <1>1, InvAlways, PTL DEF Spec, ImplementsLifecycle, Lifecycle!Spec

\* A client is told what Nav2 did: success means docked, and after an aborted
\* goal no docking of it goes on.
THEOREM ResultsAreTrue == Spec => []ResultIsNav2s
<1>1. Inv \/ GoneInv => ResultIsNav2s
  BY DEF Inv, GoneInv, Owner, VerdictOK, ResultIsNav2s
<1>. QED  BY InvAlways, <1>1, PTL

\* A thread returns without having ended its goal only if the result callback
\* is on its way to end it, or the process has been terminated.
THEOREM NoGoalIsLeft == Spec => []NoGoalLeftBehind
<1>1. Inv \/ GoneInv => NoGoalLeftBehind
  BY DEF Inv, GoneInv, Terminated, Owner, ThreadOK, Reporting,
     NoGoalLeftBehind, At
<1>. QED  BY InvAlways, <1>1, PTL

----------------------------------------------------------------------------
(* Where CanceledMeansNav2Canceled can fail, and where it cannot.          *)

\* The goal's handle at Nav2 is there, and whoever has passed the point where
\* Nav2 is told has told it.
ToldIfKnown(g) ==
  /\ holder[g]
  /\ pc[g] = "canceled" \/ handle[g] = "canceled" => nav2_cancel[g]

LEMMA NextTold ==
  ASSUME NEW g \in Goals, Inv \/ GoneInv, ToldIfKnown(g), [Next]_vars
  PROVE  ToldIfKnown(g)'
<1>. TypeOK
  BY DEF Inv, GoneInv
<1>1. ASSUME UNCHANGED <<holder, nav2_cancel, pc, handle>>
      PROVE  ToldIfKnown(g)'
  BY <1>1 DEF ToldIfKnown
<1>2. ASSUME UNCHANGED <<holder, nav2_cancel>>,
             pc'[g] = "canceled" => pc[g] = "canceled",
             handle'[g] = "canceled" => handle[g] = "canceled"
      PROVE  ToldIfKnown(g)'
  BY <1>2 DEF ToldIfKnown
<1>3. CASE UNCHANGED vars
  BY <1>1, <1>3 DEF vars, threadVars, nav2Vars
<1>4. CASE MapCallback
  BY <1>1, <1>4 DEF MapCallback, threadVars, nav2Vars
<1>5. ASSUME NEW h \in Goals, HandleGoal(h) \/ HandleCancel(h)
      PROVE  ToldIfKnown(g)'
  <2>1. UNCHANGED <<holder, nav2_cancel>>
    BY <1>5 DEF HandleGoal, HandleCancel, nav2Vars
  <2>2. /\ pc'[g] = "canceled" => pc[g] = "canceled"
        /\ handle'[g] = "canceled" => handle[g] = "canceled"
    BY <1>5 DEF HandleGoal, HandleCancel, HandleDockRobotNearestGoal,
       HandleDockRobotToGoal, Accept, Reject, Goto, threadVars, TypeOK
  <2>. QED  BY <1>2, <2>1, <2>2
<1>6. ASSUME NEW h \in Goals,
             FindStation(h) \/ ComputeDockPose(h) \/ SendDockGoal(h)
             \/ TestActive(h) \/ CheckCanceling(h) \/ AfterLoop(h)
      PROVE  ToldIfKnown(g)'
  <2>1. UNCHANGED <<holder, nav2_cancel>>
    BY <1>6 DEF FindStation, ComputeDockPose, SendDockGoal, TestActive,
       CheckCanceling, AfterLoop, nav2Vars
  <2>2. pc'[g] = "canceled" => pc[g] = "canceled"
    BY <1>6 DEF FindStation, ComputeDockPose, SendDockGoal, TestActive,
       CheckCanceling, TestCanceling, AfterLoop, AbortGoal, Goto, TypeOK
  <2>3. handle'[g] = "canceled" => handle[g] = "canceled"
    BY <1>6 DEF FindStation, ComputeDockPose, SendDockGoal, TestActive,
       CheckCanceling, AfterLoop, AbortGoal, Finish, TypeOK
  <2>. QED  BY <1>2, <2>1, <2>2, <2>3
<1>7. ASSUME NEW h \in Goals, CancelNav2Goal(h)
      PROVE  ToldIfKnown(g)'
  <2>1. /\ UNCHANGED <<holder, handle>>
        /\ nav2_cancel' = [nav2_cancel EXCEPT ![h] = holder[h]]
        /\ pc' = [pc EXCEPT ![h] = "canceled"]
    BY <1>7 DEF CancelNav2Goal, TellNav2, Goto
  <2>. QED  BY <2>1 DEF ToldIfKnown, TypeOK
<1>8. ASSUME NEW h \in Goals, CancelThrows(h)
      PROVE  ToldIfKnown(g)'
  BY <1>1, <1>8 DEF CancelThrows, threadVars, nav2Vars
<1>9. ASSUME NEW h \in Goals, ReportCanceled(h)
      PROVE  ToldIfKnown(g)'
  <2>1. /\ UNCHANGED <<holder, nav2_cancel>> /\ pc[h] = "canceled"
        /\ handle' = [handle EXCEPT ![h] =
             IF Lifecycle!MayEnd(@, "canceled") THEN "canceled" ELSE "broken"]
        /\ pc' = [pc EXCEPT ![h] = "done"]
    BY <1>9 DEF ReportCanceled, Finish, Goto, At, nav2Vars
  <2>. QED  BY <2>1 DEF ToldIfKnown, TypeOK
<1>10. ASSUME NEW h \in Goals, ClientCallback(h)
       PROVE  ToldIfKnown(g)'
  <2>1. UNCHANGED nav2_cancel /\ UNCHANGED pc /\ holder'[g]
    BY <1>10 DEF ClientCallback, GoalAccepted, GoalRejected, GoalRejectedEnd,
       Result, ResultStop, ResultReport, nav2Vars, threadVars, Set, TypeOK,
       ToldIfKnown
  <2>2. handle'[g] = "canceled" => handle[g] = "canceled"
    BY <1>10 DEF ClientCallback, GoalAccepted, GoalRejected, GoalRejectedEnd,
       Result, ResultStop, ResultReport, Finish, Verdict, TypeOK
  <2>. QED  BY <2>1, <2>2 DEF ToldIfKnown
<1>11. ASSUME NEW h \in Goals, Nav2Decides(h) \/ Nav2Ends(h)
       PROVE  ToldIfKnown(g)'
  BY <1>1, <1>11 DEF Nav2Decides, Nav2Ends, nodeUnchanged, threadVars
<1>. QED
  BY <1>3, <1>4, <1>5, <1>6, <1>7, <1>8, <1>9, <1>10, <1>11 DEF Next, Thread

\* What a cancel that comes too early can break (docking_helper_node.cpp:352,
\* where the handle of the Nav2 goal may not have arrived yet) is all that can
\* be broken: once the handle is there and the goal's thread is not already
\* past that line, the goal is never reported as canceled without Nav2 having
\* been told, whatever the cancel requests, the callbacks and other goals do.
THEOREM CancelAfterAcceptance ==
  ASSUME NEW g \in Goals
  PROVE  Spec => [](holder[g] /\ handle[g] \in Lifecycle!Running
                              /\ pc[g] # "canceled"
                      => [](handle[g] = "canceled" => nav2_cancel[g]))
<1>1. holder[g] /\ handle[g] \in Lifecycle!Running /\ pc[g] # "canceled"
        => ToldIfKnown(g)
  BY DEF ToldIfKnown
<1>2. (Inv \/ GoneInv) /\ ToldIfKnown(g) /\ [Next]_vars => ToldIfKnown(g)'
  BY NextTold
<1>3. ToldIfKnown(g) => (handle[g] = "canceled" => nav2_cancel[g])
  BY DEF ToldIfKnown
<1>. QED  BY InvAlways, <1>1, <1>2, <1>3, PTL DEF Spec

=============================================================================
