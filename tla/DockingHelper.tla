---------------------------- MODULE DockingHelper ----------------------------
(***************************************************************************)
(* The docking_helper node (src/docking_helper/docking_helper_node.cpp):   *)
(* the action servers /dock_robot_nearest and /dock_robot_to, which pick a *)
(* docking station and pass the work to Nav2's /dock_robot.                *)
(*                                                                         *)
(* One executor thread runs the node's callbacks; every accepted goal gets *)
(* a detached thread of its own, and the two talk through atomics and an   *)
(* unprotected shared pointer (nav2_goal_handle_holder).  Whatever lies    *)
(* between two accesses to these is one action.                            *)
(***************************************************************************)
EXTENDS Naturals

CONSTANTS
  NearestGoals,    \* goals of /dock_robot_nearest
  ToGoals,         \* goals of /dock_robot_to
  Stations,        \* docking stations the map may hold
  NoStation        \* a null station pointer

Goals == NearestGoals \cup ToGoals

ASSUME DockingAssumption ==
  /\ NearestGoals \cap ToGoals = {}
  /\ NoStation \notin Stations

VARIABLES
  docking_stations,  \* docking_stations_
  handle,            \* state of the goal handle (see GoalLifecycle)
  station,           \* the station of the goal's thread, or its dock_id
  pc,                \* where the goal's detached thread is
  docking_active, goal_rejected, finished,   \* the atomics of the goal
  holder,            \* is *nav2_goal_handle_holder set?
  executor,          \* the callback the executor is in the middle of
  nav2,              \* the goal at Nav2
  nav2_cancel,       \* has Nav2 been asked to cancel it?
  answers            \* callbacks of the Nav2 client that have begun

atomics    == <<docking_active, goal_rejected, finished>>
nav2Vars   == <<nav2, nav2_cancel>>
threadVars == <<pc, station>>
vars == <<docking_stations, handle, threadVars, atomics, holder, executor,
          nav2Vars, answers>>

Nav2Ended  == {"succeeded", "failed"}
Nav2States == {"none", "requested", "rejected", "executing"} \cup Nav2Ended
ThreadSteps == {"none", "find", "pose", "server", "loop", "check", "cancel",
                "canceled", "after", "done"}

Lifecycle == INSTANCE GoalLifecycle

At(g, step)   == pc[g] = step
Goto(g, step) == pc' = [pc EXCEPT ![g] = step]
Set(f, g)     == [f EXCEPT ![g] = TRUE]
Clear(f, g)   == [f EXCEPT ![g] = FALSE]
Spinning      == executor = <<"spin">>
Back          == executor' = <<"spin">>
Terminated    == executor = <<"terminated">>

\* goal_handle->succeed/abort/canceled: an exception, which nothing catches,
\* if the handle may not come to that end ("broken").
Finish(g, outcome) ==
  handle' = [handle EXCEPT ![g] =
    IF Lifecycle!MayEnd(@, outcome) THEN outcome ELSE "broken"]

----------------------------------------------------------------------------
(* Callbacks of the executor that come from outside.                       *)

MapCallback ==
  /\ Spinning
  /\ docking_stations' \in SUBSET Stations
  /\ UNCHANGED <<handle, threadVars, atomics, holder, executor, nav2Vars,
                 answers>>

\* The goal handler and, on ACCEPT_AND_EXECUTE, the start of the thread.
Accept(g, s) ==
  /\ handle' = [handle EXCEPT ![g] = "executing"]
  /\ station' = [station EXCEPT ![g] = s]
  /\ Goto(g, "find")
Reject(g) ==
  /\ handle' = [handle EXCEPT ![g] = "rejected"]
  /\ UNCHANGED threadVars

HandleDockRobotNearestGoal(g) ==
  /\ g \in NearestGoals
  /\ IF docking_stations = {} THEN Reject(g) ELSE Accept(g, NoStation)

HandleDockRobotToGoal(g) ==
  /\ g \in ToGoals
  /\ \E dock_id \in Stations :
       IF dock_id \in docking_stations THEN Accept(g, dock_id) ELSE Reject(g)

HandleGoal(g) ==
  /\ Spinning /\ handle[g] = "unsent"
  /\ HandleDockRobotNearestGoal(g) \/ HandleDockRobotToGoal(g)
  /\ UNCHANGED <<docking_stations, atomics, holder, executor, nav2Vars,
                 answers>>

\* Both cancel handlers accept; rclcpp then moves the handle to CANCELING.
HandleCancel(g) ==
  /\ Spinning /\ handle[g] = "executing"
  /\ handle' = [handle EXCEPT ![g] = "canceling"]
  /\ UNCHANGED <<docking_stations, threadVars, atomics, holder, executor,
                 nav2Vars, answers>>

----------------------------------------------------------------------------
(* The detached thread: executeDockingAction.                              *)

AbortGoal(g) == /\ Finish(g, "aborted")
                /\ Goto(g, "done")

\* findNearestDockingStation (null without stations, or when the map frame
\* cannot be transformed) and findDockingStationById.
FindStation(g) ==
  /\ At(g, "find")
  /\ \/ \E s \in docking_stations :
          /\ g \in ToGoals => s = station[g]
          /\ station' = [station EXCEPT ![g] = s]
          /\ Goto(g, "pose")
          /\ UNCHANGED handle
     \/ /\ g \in ToGoals => station[g] \notin docking_stations
        /\ station' = [station EXCEPT ![g] = NoStation]
        /\ AbortGoal(g)
  /\ UNCHANGED <<docking_stations, atomics, holder, executor, nav2Vars,
                 answers>>

\* dockPose: null when the transform of the station's frame fails.
ComputeDockPose(g) ==
  /\ At(g, "pose")
  /\ \/ Goto(g, "server") /\ UNCHANGED handle
     \/ AbortGoal(g)
  /\ UNCHANGED <<docking_stations, station, atomics, holder, executor,
                 nav2Vars, answers>>

\* wait_for_action_server(5s) and async_send_goal; nobody asks meanwhile
\* whether the goal is being cancelled.
SendDockGoal(g) ==
  /\ At(g, "server")
  /\ \/ /\ nav2' = [nav2 EXCEPT ![g] = "requested"]
        /\ Goto(g, "loop")
        /\ UNCHANGED handle
     \/ AbortGoal(g) /\ UNCHANGED nav2
  /\ UNCHANGED <<docking_stations, station, atomics, holder, executor,
                 nav2_cancel, answers>>

TestActive(g) ==
  /\ At(g, "loop")
  /\ Goto(g, IF docking_active[g] THEN "check" ELSE "after")
  /\ UNCHANGED <<docking_stations, handle, station, atomics, holder, executor,
                 nav2Vars, answers>>

\* Faulty: the thread does not ask who finishes the goal.
TestCancelingUnasked(g) ==
  /\ At(g, "check")
  /\ Goto(g, IF handle[g] = "canceling" THEN "cancel" ELSE "loop")
  /\ UNCHANGED finished

\* Faulty: the thread waits for the Nav2 handle before it cancels.
TestCancelingWithHandle(g) ==
  /\ At(g, "check")
  /\ IF handle[g] = "canceling" /\ holder[g]
       THEN /\ Goto(g, IF finished[g] THEN "done" ELSE "cancel")
            /\ finished' = Set(finished, g)
       ELSE Goto(g, "loop") /\ UNCHANGED finished

\* is_canceling, and finished->exchange(true): whoever sets it first ends
\* the goal.
TestCanceling(g) ==
  /\ At(g, "check")
  /\ \/ /\ handle[g] # "canceling"
        /\ Goto(g, "loop")
        /\ UNCHANGED finished
     \/ /\ handle[g] = "canceling"
        /\ Goto(g, IF finished[g] THEN "done" ELSE "cancel")
        /\ finished' = Set(finished, g)

CheckCanceling(g) ==
  /\ TestCanceling(g)
  /\ UNCHANGED <<docking_stations, handle, station, docking_active,
                 goal_rejected, holder, executor, nav2Vars, answers>>

\* Faulty: Nav2 is not told.
ForgetNav2(g) == UNCHANGED nav2_cancel

\* async_cancel_goal, if the handle of the Nav2 goal has arrived.
TellNav2(g) == nav2_cancel' = [nav2_cancel EXCEPT ![g] = holder[g]]

CancelNav2Goal(g) ==
  /\ At(g, "cancel")
  /\ TellNav2(g)
  /\ Goto(g, "canceled")
  /\ UNCHANGED <<docking_stations, handle, station, atomics, holder, executor,
                 nav2, answers>>

\* The client forgets a goal when its result callback has returned, and
\* async_cancel_goal throws for a goal it does not know.  Nothing in the
\* thread catches that: std::terminate ends the process.
CancelThrows(g) ==
  /\ At(g, "cancel") /\ holder[g] /\ "result" \in answers[g]
  /\ executor' = <<"terminated">>
  /\ UNCHANGED <<docking_stations, handle, threadVars, atomics, holder,
                 nav2Vars, answers>>

ReportCanceled(g) ==
  /\ At(g, "canceled")
  /\ Finish(g, "canceled")
  /\ Goto(g, "done")
  /\ UNCHANGED <<docking_stations, station, atomics, holder, executor,
                 nav2Vars, answers>>

AfterLoop(g) ==
  /\ At(g, "after")
  /\ IF goal_rejected[g] THEN AbortGoal(g)
                         ELSE Goto(g, "done") /\ UNCHANGED handle
  /\ UNCHANGED <<docking_stations, station, atomics, holder, executor,
                 nav2Vars, answers>>

Thread(g) ==
  /\ ~Terminated
  /\ \/ FindStation(g) \/ ComputeDockPose(g) \/ SendDockGoal(g) \/ TestActive(g)
     \/ CheckCanceling(g) \/ CancelNav2Goal(g) \/ CancelThrows(g)
     \/ ReportCanceled(g) \/ AfterLoop(g)

----------------------------------------------------------------------------
(* Callbacks of the Nav2 client, on the executor.                          *)

Begins(g, callback) ==
  /\ Spinning
  /\ callback \notin answers[g]
  /\ answers' = [answers EXCEPT ![g] = @ \cup {callback}]

GoalAccepted(g) ==
  /\ Begins(g, "response") /\ nav2[g] \in {"executing"} \cup Nav2Ended
  /\ holder' = Set(holder, g)
  /\ UNCHANGED <<docking_stations, handle, threadVars, atomics, executor,
                 nav2Vars>>

\* Faulty: the loop is stopped, the reason never noted.
RejectionUnnoted(g) ==
  /\ docking_active' = Clear(docking_active, g)
  /\ UNCHANGED <<goal_rejected, finished>>

NoteRejection(g) ==
  /\ goal_rejected' = Set(goal_rejected, g)
  /\ UNCHANGED <<docking_active, finished>>

\* *docking_active = false, at the end of both callbacks' first part.
StopLoop(g) ==
  /\ docking_active' = Clear(docking_active, g)
  /\ UNCHANGED <<goal_rejected, finished>>

GoalRejected(g) ==
  /\ Begins(g, "response") /\ nav2[g] = "rejected"
  /\ NoteRejection(g)
  /\ executor' = <<"rejected", g>>
  /\ UNCHANGED <<docking_stations, handle, threadVars, holder, nav2Vars>>
GoalRejectedEnd(g) ==
  /\ executor = <<"rejected", g>> /\ Back
  /\ StopLoop(g)
  /\ UNCHANGED <<docking_stations, handle, threadVars, holder, nav2Vars,
                 answers>>

\* The result callback gives up if the thread has finished the goal.
Result(g) ==
  /\ "response" \in answers[g]
  /\ Begins(g, "result") /\ nav2[g] \in Nav2Ended
  /\ finished' = Set(finished, g)
  /\ executor' = IF finished[g] THEN executor ELSE <<"stop", g>>
  /\ UNCHANGED <<docking_stations, handle, threadVars, docking_active,
                 goal_rejected, holder, nav2Vars>>
ResultStop(g) ==
  /\ executor = <<"stop", g>> /\ executor' = <<"report", g>>
  /\ StopLoop(g)
  /\ UNCHANGED <<docking_stations, handle, threadVars, holder, nav2Vars,
                 answers>>
\* Faulty: that the Nav2 action ended is taken for success.
VerdictEnded(g) == "succeeded"
Verdict(g) == IF nav2[g] = "succeeded" THEN "succeeded" ELSE "aborted"

ResultReport(g) ==
  /\ executor = <<"report", g>> /\ Back
  /\ Finish(g, Verdict(g))
  /\ UNCHANGED <<docking_stations, threadVars, atomics, holder, nav2Vars,
                 answers>>

ClientCallback(g) ==
  \/ GoalAccepted(g) \/ GoalRejected(g) \/ GoalRejectedEnd(g)
  \/ Result(g) \/ ResultStop(g) \/ ResultReport(g)

----------------------------------------------------------------------------
(* Nav2's docking server: one goal at a time, a new one ends the old.      *)

nodeUnchanged == UNCHANGED <<docking_stations, handle, threadVars, atomics,
                             holder, executor, nav2_cancel, answers>>
Nav2Decides(g) ==
  /\ nav2[g] = "requested"
  /\ \/ nav2' = [nav2 EXCEPT ![g] = "rejected"]
     \/ nav2' = [h \in Goals |-> IF h = g THEN "executing"
                   ELSE IF nav2[h] = "executing" THEN "failed" ELSE nav2[h]]
  /\ nodeUnchanged
Nav2Ends(g) ==
  /\ nav2[g] = "executing"
  /\ \E s \in Nav2Ended : nav2' = [nav2 EXCEPT ![g] = s]
  /\ nodeUnchanged

----------------------------------------------------------------------------
Init ==
  /\ docking_stations = {}
  /\ handle = [g \in Goals |-> "unsent"]
  /\ station = [g \in Goals |-> NoStation]
  /\ pc = [g \in Goals |-> "none"]
  /\ docking_active = [g \in Goals |-> TRUE]
  /\ goal_rejected = [g \in Goals |-> FALSE]
  /\ finished = [g \in Goals |-> FALSE]
  /\ holder = [g \in Goals |-> FALSE]
  /\ executor = <<"spin">>
  /\ nav2 = [g \in Goals |-> "none"]
  /\ nav2_cancel = [g \in Goals |-> FALSE]
  /\ answers = [g \in Goals |-> {}]

Next == \/ MapCallback
        \/ \E g \in Goals : \/ HandleGoal(g) \/ HandleCancel(g)
                            \/ Thread(g) \/ ClientCallback(g)
                            \/ Nav2Decides(g) \/ Nav2Ends(g)

\* The operating system schedules every thread, the executor runs every
\* callback that is ready.  Nothing is said of Nav2, which may never answer.
NodeFairness == \A g \in Goals : WF_vars(Thread(g)) /\ WF_vars(ClientCallback(g))

Spec     == Init /\ [][Next]_vars
FairSpec == Spec /\ NodeFairness

----------------------------------------------------------------------------
(* Properties.                                                             *)

\* The type of every variable; no terminal call has ever been thrown back.
TypeOK ==
  /\ docking_stations \subseteq Stations
  /\ handle \in [Goals -> Lifecycle!States]
  /\ station \in [Goals -> Stations \cup {NoStation}]
  /\ pc \in [Goals -> ThreadSteps]
  /\ docking_active \in [Goals -> BOOLEAN]
  /\ goal_rejected \in [Goals -> BOOLEAN]
  /\ finished \in [Goals -> BOOLEAN]
  /\ holder \in [Goals -> BOOLEAN]
  /\ executor \in {<<"spin">>, <<"terminated">>}
                    \cup ({"rejected", "stop", "report"} \X Goals)
  /\ nav2 \in [Goals -> Nav2States]
  /\ nav2_cancel \in [Goals -> BOOLEAN]
  /\ answers \in [Goals -> SUBSET {"response", "result"}]

\* The node keeps the promise of an action server, however the thread, the
\* callbacks and the cancel requests interleave.
ImplementsLifecycle == Lifecycle!Spec

\* A thread that has returned has not left its goal without an end: it is
\* ended, or the result callback is about to end it, or the process is gone.
NoGoalLeftBehind ==
  \A g \in Goals : At(g, "done") /\ handle[g] \in Lifecycle!Running =>
    executor \in {<<"stop", g>>, <<"report", g>>, <<"terminated">>}

\* What a client is told is what Nav2 did: success means docked, and an
\* aborted goal leaves no docking going on.
ResultIsNav2s ==
  \A g \in Goals :
    /\ handle[g] = "succeeded" => nav2[g] = "succeeded"
    /\ handle[g] = "aborted" => nav2[g] \notin {"requested", "executing"}

\* "Nav2 goal cancelled; CANCELED" (dock_cancel in docs/phase2_test_plans.md):
\* a goal reported as canceled leaves no Nav2 docking running uncancelled.
CanceledMeansNav2Canceled ==
  \A g \in Goals : handle[g] = "canceled" =>
    nav2_cancel[g] \/ nav2[g] \notin {"requested", "executing"}

\* A goal that Nav2 is done with (it was rejected, it ended, it was pushed out
\* by a later one) ends, whoever of the thread and the callback comes first.
\* Only CancelThrows can prevent it.
EndsWithNav2 ==
  \A g \in Goals : nav2[g] \in {"rejected"} \cup Nav2Ended ~>
                    handle[g] \in Lifecycle!Outcomes \/ Terminated

\* A cancel request is answered even if Nav2 never answers, and left without
\* an answer only if a result of Nav2 arrived while a goal was being canceled.
CancelIsAnswered ==
  \A g \in Goals : handle[g] = "canceling" ~>
    \/ handle[g] \in Lifecycle!Outcomes
    \/ Terminated /\ \E h \in Goals : At(h, "cancel") /\ nav2[h] \in Nav2Ended

=============================================================================
