-------------------------- MODULE SimMissionProofs --------------------------
(***************************************************************************)
(* That the mission keeps the contact it charges by, for any number of     *)
(* goals, segments and retries, any ports, tolerances and batteries.  The  *)
(* node never looks at the charger: it takes the success of a dock goal    *)
(* for contact, and nothing tells it when the contact is lost.  The        *)
(* argument joins both halves: contact is there when docking succeeds, and *)
(* from then on no goal that could move the robot is left.                 *)
(***************************************************************************)
EXTENDS SimMission, MissionOrderProofs

DockedIn(gs, g) == gs[g].action = "dock" /\ gs[g].status = "succeeded"
Docked == \E g \in GoalIds : DockedIn(goals, g)
Contact == charger_present /\ IsInDockingStation

\* ChargingIsReal, strengthened by the way from the dock's answer to CHARGING
\* and by the pose that charger_present will be computed from again.
ContactInv == Docked \/ state = "CHARGING" => Contact

----------------------------------------------------------------------------
(* Where a success of docking comes from.                                  *)

\* Sending, cancelling and leaving goals behind makes none succeed.
LEMMA SendDocked ==
  ASSUME NEW gs \in GoalMaps, NEW a \in Actions, NEW seg, NEW n,
         ServerAvailable(gs, a, seg, n) \/ ServerUnavailable(gs, a, n),
         NEW g \in GoalIds, DockedIn(goals', g)
  PROVE  DockedIn(gs, g)
<1>1. CASE ServerAvailable(gs, a, seg, n)
  <2>1. PICK h \in GoalIds : goals' = [gs EXCEPT ![h] = NewGoal(a, seg)]
    BY <1>1 DEF ServerAvailable
  <2>. QED  BY <2>1 DEF DockedIn, NewGoal, GoalMaps
<1>2. CASE ServerUnavailable(gs, a, n)
  BY <1>2 DEF ServerUnavailable
<1>. QED  BY <1>1, <1>2

LEMMA StartLegDocked ==
  ASSUME NEW gs \in GoalMaps, NEW a \in Actions, NEW g \in GoalIds
  PROVE  /\ DockedIn(StartLeg(gs), g) => DockedIn(gs, g)
         /\ DockedIn(CancelAll(gs, a), g) => DockedIn(gs, g)
  BY StartLegAction, CancelAllAction DEF DockedIn

LEMMA AnsweredDocked ==
  ASSUME goals \in GoalMaps, NEW h \in GoalIds, NEW g \in GoalIds,
         DockedIn(Answered(h), g)
  PROVE  DockedIn(goals, g)
  BY DEF DockedIn, Answered, NoGoal, GoalMaps

\* In the maps a leg starts from, or an answer leaves.
LEMMA AnswerDocked ==
  ASSUME TypeOK, NEW h \in GoalIds, HandleAnswer(h), NEW g \in GoalIds,
         DockedIn(goals', g)
  PROVE  DockedIn(goals, g)
<1>. /\ Answered(h) \in GoalMaps /\ StartLeg(Answered(h)) \in GoalMaps
     /\ goals \in GoalMaps
  BY AnsweredType, StartLegType DEF TypeOK
<1>1. CASE goals' = Answered(h)
  BY <1>1, AnsweredDocked
<1>2. CASE \E a \in Actions : \E seg, n :
             \/ ServerAvailable(StartLeg(Answered(h)), a, seg, n)
             \/ ServerUnavailable(StartLeg(Answered(h)), a, n)
  BY <1>2, SendDocked, StartLegDocked, AnsweredDocked
<1>. QED
  BY <1>1, <1>2
  DEF HandleAnswer, NavigateRejected, FollowPathRejected, DockRejected, Rejected,
      NavigateResult, FollowPathResult, DockResult, AdvanceToNextSegment,
      SendNavigateToStartGoal, SendFollowPathGoal, SendDockGoal, Actions

LEMMA CallbackDocked ==
  ASSUME TypeOK, Tick \/ CoverageResponse \/ NavigateRetryTimer
                   \/ FollowPathRetryTimer \/ DockRetryTimer,
         NEW g \in GoalIds, DockedIn(goals', g)
  PROVE  DockedIn(goals, g)
<1>. /\ goals \in GoalMaps /\ StartLeg(goals) \in GoalMaps
     /\ \A a \in Actions : /\ CancelAll(goals, a) \in GoalMaps
                           /\ StartLeg(CancelAll(goals, a)) \in GoalMaps
  BY CancelAllType, StartLegType DEF TypeOK
<1>1. CASE UNCHANGED goals
  BY <1>1
<1>2. ASSUME NEW gs \in {goals, StartLeg(goals)}
                 \cup {StartLeg(CancelAll(goals, a)) : a \in Actions},
             NEW a \in Actions, NEW seg, NEW n,
             ServerAvailable(gs, a, seg, n) \/ ServerUnavailable(gs, a, n)
      PROVE  DockedIn(goals, g)
  BY <1>2, SendDocked, StartLegDocked
<1>3. CASE Tick
  <2>1. CASE TickNavigatingToStart \/ TickMowing
    BY <1>2, <2>1 DEF TickNavigatingToStart, TickMowing, SendDockGoal, Actions
  <2>. QED
    BY <1>1, <1>3, <2>1
    DEF Tick, TickIdle, TickRequestingCoverage, TickCharging, goalVars
<1>4. CASE CoverageResponse
  BY <1>1, <1>2, <1>4
  DEF CoverageResponse, PlanPath, SendNavigateToStartGoal, goalVars, Actions
<1>5. CASE NavigateRetryTimer \/ FollowPathRetryTimer \/ DockRetryTimer
  BY <1>1, <1>2, <1>5
  DEF NavigateRetryTimer, FollowPathRetryTimer, DockRetryTimer, Fires,
      SendNavigateToStartGoal, SendFollowPathGoal, SendDockGoal, HomeState,
      goalVars, Actions
<1>. QED  BY <1>3, <1>4, <1>5

LEMMA ServerDocked ==
  ASSUME TypeOK, NEW h \in GoalIds,
         AcceptGoal(h) \/ RejectGoal(h) \/ EndGoal(h) \/ LoseGoal(h),
         NEW g \in GoalIds, DockedIn(goals', g)
  PROVE  DockedIn(goals, g) \/ DockingSucceeds(g)
<1>. goals \in GoalMaps
  BY DEF TypeOK
<1>1. CASE AcceptGoal(h)
  BY <1>1 DEF AcceptGoal, DockedIn, GoalMaps, Goal, NoGoal
<1>2. CASE RejectGoal(h)
  BY <1>2 DEF RejectGoal, DockedIn, GoalMaps, Goal, NoGoal
<1>3. CASE EndGoal(h)
  BY <1>3 DEF EndGoal, DockedIn, DockingSucceeds, GoalMaps, Goal, NoGoal,
              Failures
<1>4. CASE LoseGoal(h)
  BY <1>4 DEF LoseGoal, DockedIn, GoalMaps, NoGoal
<1>. QED  BY <1>1, <1>2, <1>3, <1>4

LEMMA NextDocked ==
  ASSUME TypeOK, Next, Docked'
  PROVE  Docked \/ \E g \in GoalIds : DockingSucceeds(g)
<1>1. PICK g \in GoalIds : DockedIn(goals', g)
  BY DEF Docked
<1>2. CASE HandleStartService \/ BatteryCallback \/ LoseCoverageRequest
  BY <1>1, <1>2 DEF HandleStartService, BatteryCallback, LoseCoverageRequest,
                    nodeUnchanged, goalVars, Docked
<1>. QED
  BY <1>1, <1>2, AnswerDocked, CallbackDocked, ServerDocked DEF Next, Docked

\* Only the success of a dock goal makes the mission charge.
LEMMA NextCharging ==
  ASSUME Next, state' = "CHARGING"
  PROVE  Docked \/ state = "CHARGING"
<1>1. CASE UNCHANGED state
  BY <1>1
<1>2. \A a \in Actions : HomeState(a) # "CHARGING"
  BY DEF HomeState, Actions
<1>3. ASSUME NEW gs, NEW a \in Actions, NEW seg, NEW n,
             ServerAvailable(gs, a, seg, n) \/ ServerUnavailable(gs, a, n)
      PROVE  FALSE
  BY <1>2, <1>3 DEF ServerAvailable, ServerUnavailable, EnterError
<1>4. ASSUME NEW a \in Actions, ScheduleRetry(a)
      PROVE  state = "CHARGING"
  BY <1>4 DEF ScheduleRetry, EnterError, missionVars
<1>5. CASE \/ HandleStartService \/ BatteryCallback \/ LoseCoverageRequest
           \/ \E g \in GoalIds : \/ AcceptGoal(g) \/ RejectGoal(g)
                                 \/ EndGoal(g) \/ LoseGoal(g)
  BY <1>1, <1>5
  DEF HandleStartService, BatteryCallback, LoseCoverageRequest, AcceptGoal,
      RejectGoal, EndGoal, LoseGoal, nodeUnchanged, missionVars
<1>6. CASE Tick
  <2>1. CASE TickNavigatingToStart \/ TickMowing
    BY <1>3, <2>1 DEF TickNavigatingToStart, TickMowing, SendDockGoal, Actions
  <2>. QED
    BY <1>1, <1>6, <2>1
    DEF Tick, TickIdle, TickRequestingCoverage, TickCharging, missionVars
<1>7. CASE CoverageResponse
  BY <1>1, <1>3, <1>7
  DEF CoverageResponse, PlanPath, SendNavigateToStartGoal, EnterError, Crashed,
      missionVars, Actions
<1>8. CASE NavigateRetryTimer \/ FollowPathRetryTimer \/ DockRetryTimer
  BY <1>1, <1>3, <1>8
  DEF NavigateRetryTimer, FollowPathRetryTimer, DockRetryTimer, Fires,
      SendNavigateToStartGoal, SendFollowPathGoal, SendDockGoal, HomeState,
      missionVars, Actions
<1>9. CASE \E g \in GoalIds : HandleAnswer(g)
  <2>1. PICK g \in GoalIds : HandleAnswer(g)
    BY <1>9
  <2>2. CASE DockResult(g)
    BY <1>4, <2>2 DEF DockResult, ResultOf, Awaits, ScheduleDockRetry, Docked,
                      DockedIn, Actions, Failures
  <2>3. CASE NavigateResult(g)
    BY <1>1, <1>3, <1>4, <2>3
    DEF NavigateResult, SendFollowPathGoal, ScheduleNavigateRetry, missionVars,
        Actions
  <2>4. CASE FollowPathResult(g)
    BY <1>1, <1>3, <1>4, <2>4
    DEF FollowPathResult, AdvanceToNextSegment, SendDockGoal,
        SendNavigateToStartGoal, ScheduleFollowPathRetry, missionVars, Actions
  <2>. QED
    BY <1>4, <2>1, <2>2, <2>3, <2>4
    DEF HandleAnswer, NavigateRejected, FollowPathRejected, DockRejected,
        Rejected, Actions
<1>. QED  BY <1>5, <1>6, <1>7, <1>8, <1>9 DEF Next

----------------------------------------------------------------------------
(* The contact.                                                            *)

\* From the success of docking on, no goal moves the robot: of docking there
\* is one goal, and what was left driving has been told to stop.
LEMMA NothingMoves ==
  ASSUME TypeOK, Inv, OrderInv, Docked \/ state = "CHARGING",
         NEW g \in GoalIds
  PROVE  ~Moves(g)
<1>1. state \in {"RETURNING_TO_DOCK", "CHARGING"}
  BY DEF Docked, DockedIn, Inv, OneDockGoal, GoalsOf
<1>2. CASE goals[g].action = "dock"
  <2>1. Docked
    BY <1>2 DEF Inv, OneDockGoal, GoalsOf
  <2>2. PICK h \in GoalIds : DockedIn(goals, h)
    BY <2>1 DEF Docked
  <2>3. g = h
    BY <1>2, <2>2 DEF DockedIn, Inv, OneDockGoal, GoalsOf
  <2>. QED  BY <2>2, <2>3 DEF DockedIn, Moves
<1>3. CASE goals[g].action \in {"navigate", "follow"}
  BY <1>1, <1>3
  DEF OrderInv, LeftOK, LeftBehind, Cancelled, AtServer, Moves
<1>4. CASE goals[g] = NoGoal
  BY <1>4 DEF NoGoal, Moves
<1>5. goals[g] \in Goal \cup {NoGoal}
  BY DEF TypeOK, GoalMaps
<1>. QED  BY <1>2, <1>3, <1>4, <1>5 DEF Goal, Actions

LEMMA NextContact ==
  ASSUME TypeOK, Inv, OrderInv, ContactInv, [SimMissionNext]_allVars
  PROVE  ContactInv'
<1>1. CASE UNCHANGED allVars
  BY <1>1 DEF allVars, vars, simVars, missionVars, goalVars, ContactInv, Docked,
              Contact, IsInDockingStation
<1>2. CASE MissionStep
  <2>. SUFFICES ASSUME Docked' \/ state' = "CHARGING"
                PROVE  Contact'
    BY DEF ContactInv
  <2>1. UNCHANGED <<port, charger_present>> /\ Next
    BY <1>2 DEF MissionStep, simVars
  <2>2. Contact
    <3>1. CASE \E g \in GoalIds : DockingSucceeds(g)
      BY <1>2, <3>1 DEF MissionStep, ContactIsSeen, Contact
    <3>2. CASE Docked \/ state = "CHARGING"
      BY <3>2 DEF ContactInv
    <3>. QED  BY <2>1, <3>1, <3>2, NextDocked, NextCharging
  <2>. QED  BY <2>1, <2>2 DEF Contact, IsInDockingStation
<1>3. CASE MoveRobot
  <2>1. ~(Docked \/ state = "CHARGING")
    BY <1>3, NothingMoves DEF MoveRobot, ContactInv, Contact, IsInDockingStation
  <2>2. UNCHANGED <<goals, state>>
    BY <1>3 DEF MoveRobot, vars, missionVars, goalVars
  <2>. QED  BY <2>1, <2>2 DEF ContactInv, Docked
<1>4. CASE SimNext /\ UNCHANGED vars
  <2>1. UNCHANGED <<goals, state, port>>
    BY <1>4 DEF SimNext, ChargerPresentSimulationCallback,
       ChargerPresenceCallback, BatteryStateSimulationCallback, vars,
       missionVars, goalVars
  <2>2. Contact => Contact'
    BY <1>4, <2>1 DEF SimNext, ChargerPresentSimulationCallback,
       ChargerPresenceCallback, BatteryStateSimulationCallback, Contact,
       IsInDockingStation
  <2>. QED  BY <2>1, <2>2 DEF ContactInv, Docked
<1>. QED  BY <1>1, <1>2, <1>3, <1>4 DEF SimMissionNext

----------------------------------------------------------------------------
(* The theorem.                                                            *)

LEMMA SimNextIsNext == [SimMissionNext]_allVars => [Next]_vars
  BY DEF SimMissionNext, MissionStep, MoveRobot, allVars

\* In simulation the mission does nothing that it would not do on the robot:
\* neither the charger and the battery of SimNode nor the moving robot let it
\* take a step of its own.  What is proved or checked of MissionManager, its
\* liveness included, therefore holds in simulation
\* (mission_manager_node.cpp:26 and sim_node.cpp:19 meet on /power).
LEMMA SimulationIsAMission == SimMissionSpec => Spec
<1>1. SimMissionInit => Init
  BY DEF SimMissionInit
<1>. QED  BY <1>1, SimNextIsNext, PTL DEF SimMissionSpec, Spec

\* When missions do not overlap, a mission that takes itself to be charging is
\* on the charger: the success of docking (mission_manager_node.cpp:566) is
\* not undone by a goal left behind, although nothing checks for that.
THEOREM ContactIsKept ==
  ASSUME ~LateResults
  PROVE  SimMissionSpec => []ChargingIsReal
<1>1. SimMissionInit => Init /\ ContactInv
  BY DEF SimMissionInit, Init, ContactInv, Docked, DockedIn, NoGoal
<1>2. AllInv /\ ContactInv /\ [SimMissionNext]_allVars => ContactInv'
  BY NextContact DEF AllInv, TypeInv
<1>3. ContactInv => ChargingIsReal
  BY DEF ContactInv, Contact, ChargingIsReal
<1>. QED
  BY AllInvAlways, SimulationIsAMission, <1>1, <1>2, <1>3, PTL
     DEF SimMissionSpec

=============================================================================
