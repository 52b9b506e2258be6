------------------------- MODULE MissionOrderProofs -------------------------
(***************************************************************************)
(* A result is taken for the present leg's by the state alone: the node    *)
(* never asks whose it is.  As long as missions do not overlap (the        *)
(* constant LateResults is FALSE) the theorems show that it need not: a    *)
(* driving state has one driver, the segments are mown in order, nothing   *)
(* drives against the dock, and the node implements Mission.               *)
(***************************************************************************)
EXTENDS MissionManagerProofs

----------------------------------------------------------------------------
(* What the argument says of the goals of an action in a map of goals.     *)

NoneOut(gs, a) == \A g \in GoalIds : gs[g].action # a
AtMostOne(gs, a) ==
  \A g, h \in GoalIds : gs[g].action = a /\ gs[h].action = a => g = h
Fresh(gs, a) == \A g \in GoalIds : gs[g].action = a => ~gs[g].stale
ForSegment(gs, a, i) == \A g \in GoalIds : gs[g].action = a => gs[g].segment = i
Cancelled(gs, a) ==
  \A g \in GoalIds : gs[g].action = a /\ AtServer(gs[g]) => gs[g].cancel

LEMMA GoalsOfNone ==
  ASSUME NEW a
  PROVE  (GoalsOf(a) = {} <=> NoneOut(goals, a))
  BY DEF GoalsOf, NoneOut

LEMMA StartLegGoals ==
  ASSUME NEW gs \in GoalMaps, NEW a \in Actions
  PROVE  /\ NoneOut(gs, a) => NoneOut(StartLeg(gs), a)
         /\ Cancelled(gs, a) => Cancelled(StartLeg(gs), a)
<1>1. NoneOut(gs, a) => NoneOut(StartLeg(gs), a)
  BY StartLegAction DEF NoneOut
<1>2. \A g \in GoalIds : StartLeg(gs)[g].cancel = gs[g].cancel
  BY DEF StartLeg, GoalMaps, Goal, NoGoal
<1>3. Cancelled(gs, a) => Cancelled(StartLeg(gs), a)
  BY <1>2, StartLegAction DEF Cancelled, AtServer
<1>. QED  BY <1>1, <1>3

LEMMA CancelAllGoals ==
  ASSUME NEW gs \in GoalMaps, NEW a \in Actions, NEW b \in Actions
  PROVE  /\ NoneOut(gs, b) => NoneOut(CancelAll(gs, a), b)
         /\ Cancelled(CancelAll(gs, a), a)
<1>1. NoneOut(gs, b) => NoneOut(CancelAll(gs, a), b)
  BY CancelAllAction DEF NoneOut
<1>2. \A g \in GoalIds : gs[g].action = a /\ AtServer(gs[g])
                           => CancelAll(gs, a)[g].cancel
  BY DEF CancelAll, GoalMaps, Goal, NoGoal, Actions
<1>3. Cancelled(CancelAll(gs, a), a)
  BY <1>2, CancelAllAction DEF Cancelled, AtServer
<1>. QED  BY <1>1, <1>3

LEMMA AnsweredGoals ==
  ASSUME goals \in GoalMaps, NEW g \in GoalIds, NEW a \in Actions, NEW i
  PROVE  /\ NoneOut(goals, a) => NoneOut(Answered(g), a)
         /\ AtMostOne(goals, a) => AtMostOne(Answered(g), a)
         /\ Fresh(goals, a) => Fresh(Answered(g), a)
         /\ ForSegment(goals, a, i) => ForSegment(Answered(g), a, i)
         /\ Cancelled(goals, a) => Cancelled(Answered(g), a)
         /\ AtMostOne(goals, a) /\ goals[g].action = a
              => NoneOut(Answered(g), a)
<1>1. /\ Answered(g)[g].action \notin Actions
      /\ \A h \in GoalIds \ {g} : Answered(g)[h] = goals[h]
  BY DEF Answered, GoalMaps, NoGoal, Actions
<1>. QED
  BY <1>1 DEF NoneOut, AtMostOne, Fresh, ForSegment, Cancelled

\* Sending a goal for a concerns the goals of a alone, and what it adds is
\* fresh, of the segment sent, and alone if none was out.
LEMMA SendGoals ==
  ASSUME NEW gs \in GoalMaps, NEW a \in Actions, NEW b \in Actions, NEW seg,
         NEW n, ServerAvailable(gs, a, seg, n) \/ ServerUnavailable(gs, a, n)
  PROVE  /\ b # a /\ NoneOut(gs, b) => NoneOut(goals', b)
         /\ b # a /\ Cancelled(gs, b) => Cancelled(goals', b)
         /\ b # a /\ Fresh(gs, b) => Fresh(goals', b)
         /\ NoneOut(gs, a) => /\ AtMostOne(goals', a)
                              /\ Fresh(goals', a)
                              /\ ForSegment(goals', a, seg)
         /\ ServerAvailable(gs, a, seg, n) => ~NoneOut(goals', a)
<1>1. CASE ServerAvailable(gs, a, seg, n)
  <2>1. PICK g \in GoalIds : /\ gs[g].action = "none"
                             /\ goals' = [gs EXCEPT ![g] = NewGoal(a, seg)]
    BY <1>1 DEF ServerAvailable
  <2>2. /\ goals'[g].action = a /\ goals'[g].segment = seg
        /\ goals'[g].stale = FALSE
        /\ \A h \in GoalIds \ {g} : goals'[h] = gs[h]
    BY <2>1 DEF GoalMaps, NewGoal
  <2>. QED
    BY <1>1, <2>2 DEF NoneOut, AtMostOne, Fresh, ForSegment, Cancelled
<1>2. CASE ServerUnavailable(gs, a, n)
  <2>1. goals' = gs
    BY <1>2 DEF ServerUnavailable
  <2>2. /\ NoneOut(gs, a) => /\ AtMostOne(goals', a) /\ Fresh(goals', a)
                             /\ ForSegment(goals', a, seg)
    BY <2>1 DEF NoneOut, AtMostOne, Fresh, ForSegment
  <2>3. ServerAvailable(gs, a, seg, n) => ~NoneOut(goals', a)
    <3>. SUFFICES ASSUME ServerAvailable(gs, a, seg, n)
                  PROVE  ~NoneOut(goals', a)
      OBVIOUS
    <3>1. PICK g \in GoalIds : goals' = [gs EXCEPT ![g] = NewGoal(a, seg)]
      BY DEF ServerAvailable
    <3>. QED  BY <3>1 DEF NoneOut, GoalMaps, NewGoal
  <2>. QED  BY <2>1, <2>2, <2>3
<1>. QED  BY <1>1, <1>2

LEMMA ServerStepGoals ==
  ASSUME goals \in GoalMaps, NEW h \in GoalIds, NEW a \in Actions, NEW i,
         \/ AcceptGoal(h) \/ RejectGoal(h) \/ EndGoal(h) \/ LoseGoal(h)
  PROVE  /\ NoneOut(goals, a) => NoneOut(goals', a)
         /\ AtMostOne(goals, a) => AtMostOne(goals', a)
         /\ Fresh(goals, a) => Fresh(goals', a)
         /\ ForSegment(goals, a, i) => ForSegment(goals', a, i)
         /\ Cancelled(goals, a) => Cancelled(goals', a)
         /\ NoneOut(goals', a) => NoneOut(goals, a) \/ a \in lost'
         /\ lost \subseteq lost'
<1>1. CASE AcceptGoal(h) \/ RejectGoal(h) \/ EndGoal(h)
  <2>1. \A g \in GoalIds : /\ goals'[g].action = goals[g].action
                           /\ goals'[g].segment = goals[g].segment
                           /\ goals'[g].stale = goals[g].stale
                           /\ goals'[g].cancel = goals[g].cancel
                           /\ AtServer(goals'[g]) => AtServer(goals[g])
    BY <1>1 DEF AcceptGoal, RejectGoal, EndGoal, GoalMaps, Goal, NoGoal,
                AtServer, Failures
  <2>2. UNCHANGED lost
    BY <1>1 DEF AcceptGoal, RejectGoal, EndGoal
  <2>. QED
    BY <2>1, <2>2 DEF NoneOut, AtMostOne, Fresh, ForSegment, Cancelled
<1>2. CASE LoseGoal(h)
  <2>1. /\ goals'[h].action \notin Actions
        /\ \A g \in GoalIds \ {h} : goals'[g] = goals[g]
        /\ lost' = lost \cup {goals[h].action}
    BY <1>2 DEF LoseGoal, GoalMaps, NoGoal, Actions
  <2>2. NoneOut(goals', a) => NoneOut(goals, a) \/ a \in lost'
    BY <2>1 DEF NoneOut
  <2>. QED
    BY <2>1, <2>2 DEF NoneOut, AtMostOne, Fresh, ForSegment, Cancelled
<1>. QED  BY <1>1, <1>2

----------------------------------------------------------------------------
(* A driving state is left, or something that will leave it remains: this  *)
(* needs no more than the types, and no assumption on time.                *)

\* The mission enters the home state of a by sending a goal of a.
LEMMA SendMoves ==
  ASSUME NEW gs \in GoalMaps, NEW a \in Actions, NEW seg, NEW n,
         ServerAvailable(gs, a, seg, n) \/ ServerUnavailable(gs, a, n)
  PROVE  \A b \in Actions : state' = HomeState(b) => ~NoneOut(goals', b)
<1>1. CASE ServerAvailable(gs, a, seg, n)
  <2>. SUFFICES ASSUME NEW b \in Actions, state' = HomeState(b)
                PROVE  ~NoneOut(goals', b)
    OBVIOUS
  <2>1. b = a
    BY <1>1 DEF ServerAvailable, HomeState, Actions
  <2>. QED  BY <1>1, <2>1, SendGoals
<1>2. CASE ServerUnavailable(gs, a, n)
  BY <1>2 DEF ServerUnavailable, EnterError, HomeState, Actions
<1>. QED  BY <1>1, <1>2

Driven == \A a \in Actions : state = HomeState(a) =>
            ~NoneOut(goals, a) \/ retry_timer[a] \/ a \in lost

LEMMA DrivenIsNeverStalls == Driven <=> NeverStalls
  BY GoalsOfNone DEF Driven, NeverStalls

LEMMA SentIsDriven ==
  ASSUME NEW gs \in GoalMaps, NEW a \in Actions, NEW seg, NEW n,
         ServerAvailable(gs, a, seg, n) \/ ServerUnavailable(gs, a, n)
  PROVE  Driven'
  BY SendMoves DEF Driven

\* A failed goal leaves the home state or arms the timer.
LEMMA RetryIsDriven ==
  ASSUME TypeOK, Driven, NEW g \in GoalIds, NEW a \in Actions,
         goals[g].action = a, goals' = Answered(g), ScheduleRetry(a),
         UNCHANGED lost
  PROVE  Driven'
<1> SUFFICES ASSUME NEW b \in Actions, state' = HomeState(b)
             PROVE  ~NoneOut(goals', b) \/ retry_timer'[b] \/ b \in lost'
  BY DEF Driven
<1>1. \A c \in Actions : HomeState(c) # "ERROR"
  BY DEF HomeState, Actions
<1>2. /\ state' = state
      /\ retry_timer'[b] \/ (b # a /\ retry_timer'[b] = retry_timer[b])
         \/ state # HomeState(a)
      /\ state # HomeState(a) => UNCHANGED retry_timer
  BY <1>1 DEF ScheduleRetry, EnterError, ArmTimer, missionVars, retryVars,
              TypeOK
<1>3. b # a => (NoneOut(goals', b) => NoneOut(goals, b))
  BY DEF NoneOut, Answered, TypeOK, GoalMaps
<1>. QED  BY <1>2, <1>3 DEF Driven

LEMMA AnswerIsDriven ==
  ASSUME TypeOK, Driven, NEW g \in GoalIds, HandleAnswer(g)
  PROVE  Driven'
<1>. Answered(g) \in GoalMaps /\ StartLeg(Answered(g)) \in GoalMaps
  BY AnsweredType, StartLegType DEF TypeOK
<1>1. ASSUME NEW a \in Actions, goals[g].action = a, state # HomeState(a),
             goals' = Answered(g), UNCHANGED <<missionVars, retryVars, lost>>
      PROVE  Driven'
  <2>1. \A b \in Actions : b # a => (NoneOut(goals', b) => NoneOut(goals, b))
    BY <1>1 DEF NoneOut, Answered, TypeOK, GoalMaps
  <2>. QED  BY <1>1, <2>1 DEF Driven, missionVars, retryVars
<1>2. ASSUME NEW a \in Actions, Rejected(g, a)
      PROVE  Driven'
  BY <1>2, RetryIsDriven DEF Rejected, Awaits, callbackUnchanged
<1>3. CASE NavigateResult(g)
  <2>1. goals[g].action = "navigate" /\ UNCHANGED lost
    BY <1>3 DEF NavigateResult, ResultOf, Awaits, callbackUnchanged
  <2>2. CASE state # "NAVIGATING_TO_START"
    BY <1>1, <1>3, <2>1, <2>2 DEF NavigateResult, HomeState, Actions
  <2>3. CASE SendFollowPathGoal(StartLeg(Answered(g)), 0)
    BY <2>3, SentIsDriven DEF SendFollowPathGoal, Actions
  <2>4. CASE goals' = Answered(g) /\ ScheduleNavigateRetry
    BY <2>1, <2>4, RetryIsDriven DEF ScheduleNavigateRetry, Actions
  <2>. QED  BY <1>3, <2>2, <2>3, <2>4 DEF NavigateResult
<1>4. CASE FollowPathResult(g)
  <2>1. goals[g].action = "follow" /\ UNCHANGED lost
    BY <1>4 DEF FollowPathResult, ResultOf, Awaits, callbackUnchanged
  <2>2. CASE state # "MOWING"
    BY <1>1, <1>4, <2>1, <2>2 DEF FollowPathResult, HomeState, Actions
  <2>3. CASE \E counts : AdvanceToNextSegment(Answered(g), counts)
    BY <2>3, SentIsDriven
    DEF AdvanceToNextSegment, SendDockGoal, SendNavigateToStartGoal, Actions
  <2>4. CASE goals' = Answered(g) /\ ScheduleFollowPathRetry
    BY <2>1, <2>4, RetryIsDriven DEF ScheduleFollowPathRetry, Actions
  <2>. QED  BY <1>4, <2>2, <2>3, <2>4 DEF FollowPathResult
<1>5. CASE DockResult(g)
  <2>1. goals[g].action = "dock" /\ UNCHANGED lost /\ goals' = Answered(g)
    BY <1>5 DEF DockResult, ResultOf, Awaits, callbackUnchanged
  <2>2. CASE state' = "CHARGING"
    BY <2>2 DEF Driven, HomeState, Actions
  <2>3. CASE ScheduleDockRetry
    BY <2>1, <2>3, RetryIsDriven DEF ScheduleDockRetry, Actions
  <2>. QED  BY <1>5, <2>2, <2>3 DEF DockResult
<1>. QED
  BY <1>2, <1>3, <1>4, <1>5
  DEF HandleAnswer, NavigateRejected, FollowPathRejected, DockRejected, Actions

LEMMA TimerIsDriven ==
  ASSUME TypeOK, Driven,
         NavigateRetryTimer \/ FollowPathRetryTimer \/ DockRetryTimer
  PROVE  Driven'
<1>1. ASSUME NEW a \in Actions, Fires(a), state # HomeState(a)
      PROVE  Driven'
  BY <1>1
  DEF Fires, Disarm, Driven, TypeOK, missionVars, goalVars, callbackUnchanged
<1>2. CASE NavigateRetryTimer
  BY <1>1, <1>2, SentIsDriven
  DEF NavigateRetryTimer, SendNavigateToStartGoal, HomeState, Actions, TypeOK
<1>3. CASE FollowPathRetryTimer
  BY <1>1, <1>3, SentIsDriven
  DEF FollowPathRetryTimer, SendFollowPathGoal, HomeState, Actions, TypeOK
<1>4. CASE DockRetryTimer
  BY <1>1, <1>4, SentIsDriven
  DEF DockRetryTimer, SendDockGoal, HomeState, Actions, TypeOK
<1>. QED  BY <1>2, <1>3, <1>4

LEMMA NextDriven == TypeOK /\ Driven /\ [Next]_vars => Driven'
<1> SUFFICES ASSUME TypeOK, Driven, [Next]_vars PROVE Driven'
  OBVIOUS
<1>1. CASE UNCHANGED vars
  BY <1>1 DEF vars, Driven, missionVars, retryVars, goalVars
<1>2. CASE HandleStartService \/ TickIdle \/ TickCharging
  BY <1>2
  DEF HandleStartService, TickIdle, TickCharging, Driven, HomeState, Actions
<1>3. CASE BatteryCallback \/ (TickRequestingCoverage /\ UNCHANGED lost)
  BY <1>3 DEF BatteryCallback, TickRequestingCoverage, Driven, missionVars,
              retryVars, goalVars
<1>4. CASE TickNavigatingToStart
  <2>. StartLeg(CancelAll(goals, "navigate")) \in GoalMaps
    BY CancelAllType, StartLegType DEF TypeOK, Actions
  <2>. QED
    BY <1>4, SentIsDriven DEF TickNavigatingToStart, SendDockGoal, Actions
<1>5. CASE TickMowing
  <2>. DEFINE gs == IF follow_path_goal_active
                      THEN CancelAll(goals, "follow") ELSE goals
  <2>. StartLeg(gs) \in GoalMaps
    BY CancelAllType, StartLegType DEF TypeOK, Actions
  <2>. QED
    BY <1>5, SentIsDriven DEF TickMowing, SendDockGoal, Actions
<1>6. CASE CoverageResponse
  <2>1. CASE UNCHANGED <<missionVars, flagVars, pathVars, retryVars, goalVars>>
    BY <1>6, <2>1 DEF CoverageResponse, Driven, missionVars, retryVars, goalVars
  <2>2. CASE state' \in {"ERROR", Crashed}
    BY <2>2 DEF Driven, HomeState, Crashed, Actions
  <2>3. CASE \E n \in 1..MaxSegments : PlanPath(n)
    <3>. StartLeg(goals) \in GoalMaps
      BY StartLegType DEF TypeOK
    <3>. QED
      BY <2>3, SentIsDriven DEF PlanPath, SendNavigateToStartGoal, Actions
  <2>. QED  BY <1>6, <2>1, <2>2, <2>3 DEF CoverageResponse, EnterError
<1>7. CASE \E g \in GoalIds : \/ AcceptGoal(g) \/ RejectGoal(g)
                              \/ EndGoal(g) \/ LoseGoal(g)
  <2>1. PICK g \in GoalIds : \/ AcceptGoal(g) \/ RejectGoal(g)
                             \/ EndGoal(g) \/ LoseGoal(g)
    BY <1>7
  <2>2. UNCHANGED missionVars /\ UNCHANGED retryVars
    BY <2>1 DEF AcceptGoal, RejectGoal, EndGoal, LoseGoal, nodeUnchanged
  <2>3. \A a \in Actions : NoneOut(goals', a) => NoneOut(goals, a) \/ a \in lost'
    BY <2>1, ServerStepGoals DEF TypeOK
  <2>4. lost \subseteq lost'
    BY <2>1, ServerStepGoals DEF TypeOK, Actions
  <2>. QED  BY <2>2, <2>3, <2>4 DEF Driven, missionVars, retryVars
<1>8. CASE LoseCoverageRequest
  BY <1>8 DEF LoseCoverageRequest, nodeUnchanged, Driven, missionVars, retryVars
<1>9. CASE Tick
  BY <1>2, <1>3, <1>4, <1>5, <1>9 DEF Tick
<1>10. CASE \E g \in GoalIds : HandleAnswer(g)
  BY <1>10, AnswerIsDriven
<1>. QED
  BY <1>1, <1>2, <1>3, <1>6, <1>7, <1>8, <1>9, <1>10, TimerIsDriven DEF Next

\* In a driving state a goal of the state's action is out or its retry timer
\* is armed, or the server has died with the goal: the mission never waits for
\* nothing (mission_manager_node.cpp:134), late answers included.
THEOREM MissionNeverStalls == Spec => []NeverStalls
<1>1. Init => Driven
  BY DEF Init, Driven, HomeState, Actions
<1>2. TypeOK /\ Driven /\ [Next]_vars => Driven'
  BY NextDriven
<1>3. Driven => NeverStalls
  BY DrivenIsNeverStalls
<1>. QED  BY TypeCorrect, <1>1, <1>2, <1>3, PTL DEF Spec

----------------------------------------------------------------------------
(* The inductive invariant: what is out, and for which segment, in every   *)
(* state.  MowedInOrder and NothingDrivesAgainstTheDock are parts of it    *)
(* and not inductive alone: that a result is of the present leg rests on   *)
(* there being one goal or one armed timer, and that on the earlier legs   *)
(* having left nothing behind.                                             *)

NothingOut(gs) == NoneOut(gs, "navigate") /\ NoneOut(gs, "follow")
LeftBehind(gs) == Cancelled(gs, "navigate") /\ Cancelled(gs, "follow")

LegOK(a) == /\ AtMostOne(goals, a) /\ Fresh(goals, a)
            /\ ForSegment(goals, a, current_segment_index)
            /\ retry_timer[a] => NoneOut(goals, a)

RestOK == state \in {"IDLE", "REQUESTING_COVERAGE"} =>
            NothingOut(goals) /\ \A a \in Actions : ~retry_timer[a]
NavigateOK == state = "NAVIGATING_TO_START" =>
                /\ LegOK("navigate")
                /\ NoneOut(goals, "follow") /\ ~retry_timer["follow"]
MowOK == state = "MOWING" =>
           /\ LegOK("follow")
           /\ NoneOut(goals, "navigate") /\ ~retry_timer["navigate"]
           /\ NoneOut(goals, "follow") \/ follow_path_goal_active
DockOK == state = "RETURNING_TO_DOCK" => Fresh(goals, "dock")
LeftOK == state \in {"RETURNING_TO_DOCK", "CHARGING", "ERROR"} =>
            LeftBehind(goals)

OrderInv == /\ RestOK /\ NavigateOK /\ MowOK /\ DockOK /\ LeftOK
            /\ MowedInOrder

LEMMA NothingOutLeft ==
  ASSUME NEW gs, NothingOut(gs)
  PROVE  LeftBehind(gs)
  BY DEF NothingOut, LeftBehind, NoneOut, Cancelled

LEMMA NothingOutLeg ==
  ASSUME NEW gs \in GoalMaps, NothingOut(gs)
  PROVE  NothingOut(StartLeg(gs))
  BY StartLegGoals DEF NothingOut, Actions

LEMMA LeftLeg ==
  ASSUME NEW gs \in GoalMaps, LeftBehind(gs)
  PROVE  LeftBehind(StartLeg(gs))
  BY StartLegGoals DEF LeftBehind, Actions

----------------------------------------------------------------------------
(* The three ways to start a leg.                                          *)

LEMMA EnterNavigate ==
  ASSUME NEW gs \in GoalMaps, NothingOut(gs), NEW n,
         SendNavigateToStartGoal(gs, current_segment_index', n),
         ~retry_timer'["navigate"], ~retry_timer'["follow"],
         mowed' = 0..(current_segment_index' - 1)
  PROVE  OrderInv'
<1>0. \/ ServerAvailable(gs, "navigate", current_segment_index', n)
      \/ ServerUnavailable(gs, "navigate", n)
  BY DEF SendNavigateToStartGoal
<1>1. /\ NoneOut(goals', "follow")
      /\ AtMostOne(goals', "navigate") /\ Fresh(goals', "navigate")
      /\ ForSegment(goals', "navigate", current_segment_index')
  BY <1>0, SendGoals DEF NothingOut, Actions
<1>2. CASE ServerAvailable(gs, "navigate", current_segment_index', n)
  <2>. state' = "NAVIGATING_TO_START"
    BY <1>2 DEF ServerAvailable, HomeState
  <2>. QED
    BY <1>1 DEF OrderInv, RestOK, NavigateOK, MowOK, DockOK, LeftOK, LegOK,
                MowedInOrder
<1>3. CASE ServerUnavailable(gs, "navigate", n)
  <2>. state' = "ERROR" /\ LeftBehind(goals')
    BY <1>3, NothingOutLeft DEF ServerUnavailable, EnterError
  <2>. QED
    BY DEF OrderInv, RestOK, NavigateOK, MowOK, DockOK, LeftOK, MowedInOrder,
           Driving
<1>. QED  BY <1>0, <1>2, <1>3

LEMMA EnterMow ==
  ASSUME NEW gs \in GoalMaps, NothingOut(gs), NEW n,
         SendFollowPathGoal(gs, n), pending_path = current_segment_index',
         ~retry_timer'["navigate"], ~retry_timer'["follow"],
         mowed' = 0..(current_segment_index' - 1)
  PROVE  OrderInv'
<1>0. \/ ServerAvailable(gs, "follow", pending_path, n) /\ NoteFollowGoal
      \/ ServerUnavailable(gs, "follow", n)
  BY DEF SendFollowPathGoal
<1>1. /\ NoneOut(goals', "navigate")
      /\ AtMostOne(goals', "follow") /\ Fresh(goals', "follow")
      /\ ForSegment(goals', "follow", current_segment_index')
  BY <1>0, SendGoals DEF NothingOut, Actions
<1>2. CASE /\ ServerAvailable(gs, "follow", pending_path, n)
           /\ NoteFollowGoal
  <2>. state' = "MOWING" /\ follow_path_goal_active' = TRUE
    BY <1>2 DEF ServerAvailable, HomeState, NoteFollowGoal
  <2>. QED
    BY <1>1 DEF OrderInv, RestOK, NavigateOK, MowOK, DockOK, LeftOK, LegOK,
                MowedInOrder
<1>3. CASE ServerUnavailable(gs, "follow", n)
  <2>. state' = "ERROR" /\ LeftBehind(goals')
    BY <1>3, NothingOutLeft DEF ServerUnavailable, EnterError
  <2>. QED
    BY DEF OrderInv, RestOK, NavigateOK, MowOK, DockOK, LeftOK, MowedInOrder,
           Driving
<1>. QED  BY <1>0, <1>2, <1>3

LEMMA EnterDock ==
  ASSUME NEW gs \in GoalMaps, LeftBehind(gs), NoneOut(gs, "dock"), NEW n,
         SendDockGoal(gs, n), mowed' = 0..(current_segment_index' - 1)
  PROVE  OrderInv'
<1>0. /\ \/ ServerAvailable(gs, "dock", 0, n)
         \/ ServerUnavailable(gs, "dock", n)
      /\ state' \in {"RETURNING_TO_DOCK", "ERROR"}
  BY DEF SendDockGoal, ServerAvailable, ServerUnavailable, EnterError, HomeState
<1>1. Fresh(goals', "dock") /\ LeftBehind(goals')
  BY <1>0, SendGoals DEF LeftBehind, Actions
<1>. QED
  BY <1>0, <1>1 DEF OrderInv, RestOK, NavigateOK, MowOK, DockOK, LeftOK,
                    MowedInOrder

\* In a driving state no dock goal is out, and in the two legs of the path
\* the index and the copy agree.
LEMMA NoDockOnPath ==
  ASSUME Inv, TypeOK, state \in {"NAVIGATING_TO_START", "MOWING"}
  PROVE  /\ NoneOut(goals, "dock") /\ ~dock_goal_active /\ ~retry_timer["dock"]
         /\ state \in Driving
  BY GoalsOfNone DEF Inv, OneDockGoal, Driving

----------------------------------------------------------------------------
(* The actions.                                                            *)

\* A goal of a is answered and nothing else is sent: either nobody looks at
\* the answer, or it is a failure of the leg the mission is on.
LEMMA FailureOrder ==
  ASSUME TypeOK, Inv, OrderInv, NEW g \in GoalIds, NEW a \in Actions,
         goals[g].action = a, goals' = Answered(g), UNCHANGED pathVars,
         IF a = "follow" THEN follow_path_goal_active' = FALSE
                         ELSE UNCHANGED follow_path_goal_active,
         \/ ScheduleRetry(a)
         \/ state # HomeState(a) /\ UNCHANGED <<missionVars, retryVars>>
  PROVE  OrderInv'
<1>1. /\ \A b \in Actions : /\ NoneOut(goals, b) => NoneOut(goals', b)
                            /\ AtMostOne(goals, b) => AtMostOne(goals', b)
                            /\ Fresh(goals, b) => Fresh(goals', b)
                            /\ Cancelled(goals, b) => Cancelled(goals', b)
                            /\ ForSegment(goals, b, current_segment_index)
                                 => ForSegment(goals', b, current_segment_index)
      /\ AtMostOne(goals, a) => NoneOut(goals', a)
      /\ UNCHANGED <<path_segments, current_segment_index, mowed>>
  BY AnsweredGoals DEF TypeOK, pathVars
<1>2. CASE UNCHANGED <<missionVars, retryVars>>
  <2>1. state' = state /\ retry_timer' = retry_timer
    BY <1>2 DEF missionVars, retryVars
  <2>2. RestOK' /\ NavigateOK' /\ DockOK' /\ LeftOK' /\ MowedInOrder'
    BY <1>1, <2>1 DEF OrderInv, RestOK, NavigateOK, DockOK, LeftOK, LegOK,
       NothingOut, LeftBehind, MowedInOrder, Actions
  <2>3. MowOK'
    BY <1>1, <2>1 DEF OrderInv, MowOK, LegOK, NoneOut, Actions
  <2>. QED  BY <2>2, <2>3 DEF OrderInv
<1>3. CASE state = HomeState(a) /\ ArmTimer(a) /\ UNCHANGED missionVars
  <2>1. /\ state' = state
        /\ \A b \in Actions \ {a} : retry_timer'[b] = retry_timer[b]
    BY <1>3 DEF missionVars, ArmTimer, TypeOK
  <2>2. state \in Driving /\ Driving \cap {"IDLE", "REQUESTING_COVERAGE"} = {}
    BY <1>3 DEF HomeState, Driving, Actions
  <2>3. RestOK' /\ DockOK' /\ LeftOK' /\ MowedInOrder'
    BY <1>1, <2>1, <2>2 DEF OrderInv, RestOK, DockOK, LeftOK, LeftBehind,
                            MowedInOrder, Actions
  <2>4. NavigateOK'
    BY <1>1, <1>3, <2>1 DEF OrderInv, NavigateOK, LegOK, HomeState, Actions
  <2>5. MowOK'
    BY <1>1, <1>3, <2>1 DEF OrderInv, MowOK, LegOK, HomeState, Actions
  <2>. QED  BY <2>3, <2>4, <2>5 DEF OrderInv
<1>4. CASE state = HomeState(a) /\ state' = "ERROR"
  <2>1. CASE a \in {"navigate", "follow"}
    <3>1. NothingOut(goals')
      BY <1>1, <1>4, <2>1 DEF OrderInv, NavigateOK, MowOK, LegOK, HomeState,
                              NothingOut, Actions
    <3>2. LeftBehind(goals')
      BY <3>1, NothingOutLeft
    <3>. QED
      BY <1>4, <3>2 DEF OrderInv, RestOK, NavigateOK, MowOK, DockOK, LeftOK,
                        MowedInOrder, Driving
  <2>2. CASE a = "dock"
    <3>1. LeftBehind(goals')
      BY <1>1, <1>4, <2>2 DEF OrderInv, LeftOK, LeftBehind, HomeState, Actions
    <3>. QED
      BY <1>4, <3>1 DEF OrderInv, RestOK, NavigateOK, MowOK, DockOK, LeftOK,
                        MowedInOrder, Driving
  <2>. QED  BY <2>1, <2>2 DEF Actions
<1>. QED  BY <1>2, <1>3, <1>4 DEF ScheduleRetry, EnterError

LEMMA NavigateOrder ==
  ASSUME TypeInv, Inv, OrderInv, NEW g \in GoalIds, NavigateResult(g)
  PROVE  OrderInv'
<1>. TypeOK /\ IndexOK
  BY DEF TypeInv
<1>1. goals[g].action = "navigate" /\ UNCHANGED pathVars
  BY DEF NavigateResult, ResultOf, Awaits
<1>2. CASE /\ state = "NAVIGATING_TO_START" /\ UNCHANGED retry_timer
           /\ SendFollowPathGoal(StartLeg(Answered(g)), 0)
  <2>1. LegOK("navigate") /\ NoneOut(goals, "follow") /\ ~retry_timer["follow"]
    BY <1>2 DEF OrderInv, NavigateOK
  <2>2. ~retry_timer["navigate"]
    BY <1>1, <2>1 DEF LegOK, NoneOut
  <2>3. NothingOut(Answered(g)) /\ Answered(g) \in GoalMaps
    BY <1>1, <2>1, AnsweredGoals, AnsweredType
    DEF LegOK, NothingOut, TypeOK, Actions
  <2>4. StartLeg(Answered(g)) \in GoalMaps /\ NothingOut(StartLeg(Answered(g)))
    BY <2>3, NothingOutLeg, StartLegType
  <2>5. /\ pending_path = current_segment_index'
        /\ mowed' = 0..(current_segment_index' - 1)
    BY <1>1, <1>2 DEF IndexOK, OrderInv, MowedInOrder, Driving, pathVars
  <2>. QED  BY <1>2, <2>1, <2>2, <2>4, <2>5, EnterMow
<1>3. CASE /\ goals' = Answered(g) /\ UNCHANGED follow_path_goal_active
           /\ \/ ScheduleRetry("navigate")
              \/ /\ state # "NAVIGATING_TO_START"
                 /\ UNCHANGED <<missionVars, retryVars>>
  BY <1>1, <1>3, FailureOrder DEF HomeState, Actions
<1>. QED
  BY <1>2, <1>3 DEF NavigateResult, ScheduleNavigateRetry, flagVars

LEMMA FollowPathOrder ==
  ASSUME TypeInv, Inv, OrderInv, NEW g \in GoalIds, FollowPathResult(g)
  PROVE  OrderInv'
<1>. TypeOK /\ IndexOK
  BY DEF TypeInv
<1>1. goals[g].action = "follow" /\ follow_path_goal_active' = FALSE
  BY DEF FollowPathResult, ResultOf, Awaits
<1>2. ASSUME state = "MOWING", NEW counts,
             AdvanceToNextSegment(Answered(g), counts),
             mowed' = mowed \cup (IF goals[g].stale THEN {}
                                                    ELSE {goals[g].segment}),
             UNCHANGED retry_timer
      PROVE  OrderInv'
  <2>1. /\ LegOK("follow") /\ NoneOut(goals, "navigate")
        /\ ~retry_timer["navigate"]
    BY <1>2 DEF OrderInv, MowOK
  <2>2. ~retry_timer["follow"]
    BY <1>1, <2>1 DEF LegOK, NoneOut
  <2>3. /\ NothingOut(Answered(g)) /\ NoneOut(Answered(g), "dock")
        /\ Answered(g) \in GoalMaps
    BY <1>1, <1>2, <2>1, AnsweredGoals, AnsweredType, NoDockOnPath
    DEF LegOK, NothingOut, TypeOK, Actions
  <2>. DEFINE gs == StartLeg(Answered(g))
  <2>4. /\ gs \in GoalMaps /\ NothingOut(gs) /\ NoneOut(gs, "dock")
        /\ LeftBehind(gs)
    BY <2>3, NothingOutLeg, NothingOutLeft, StartLegType, StartLegGoals
    DEF Actions
  <2>5. mowed' = 0..(current_segment_index' - 1)
    <3>1. mowed = 0..(current_segment_index - 1)
      BY <1>2 DEF OrderInv, MowedInOrder, Driving
    <3>2. mowed' = mowed \cup {current_segment_index}
      BY <1>1, <1>2, <2>1 DEF LegOK, Fresh, ForSegment
    <3>3. /\ current_segment_index' = current_segment_index + 1
          /\ current_segment_index \in Nat
      BY <1>2 DEF AdvanceToNextSegment, TypeOK
    <3>. QED  BY <3>1, <3>2, <3>3
  <2>6. CASE SendDockGoal(gs, 0)
    BY <2>4, <2>5, <2>6, EnterDock
  <2>7. CASE /\ pending_path' = current_segment_index'
             /\ SendNavigateToStartGoal(gs, pending_path', 0)
    BY <1>2, <2>1, <2>2, <2>4, <2>5, <2>7, EnterNavigate
  <2>. QED
    BY <1>2, <2>6, <2>7 DEF AdvanceToNextSegment, SetPending
<1>3. CASE /\ goals' = Answered(g) /\ UNCHANGED pathVars
           /\ \/ ScheduleRetry("follow")
              \/ state # "MOWING" /\ UNCHANGED <<missionVars, retryVars>>
  BY <1>1, <1>3, FailureOrder DEF HomeState, Actions
<1>. QED
  BY <1>2, <1>3 DEF FollowPathResult, ScheduleFollowPathRetry

LEMMA DockOrder ==
  ASSUME TypeOK, Inv, OrderInv, NEW g \in GoalIds, DockResult(g)
  PROVE  OrderInv'
<1>1. /\ goals[g].action = "dock" /\ goals' = Answered(g)
      /\ UNCHANGED pathVars /\ UNCHANGED follow_path_goal_active
  BY DEF DockResult, ResultOf, Awaits
<1>2. state = "RETURNING_TO_DOCK"
  BY <1>1 DEF Inv, OneDockGoal, GoalsOf
<1>3. CASE state' = "CHARGING"
  <2>1. LeftBehind(goals')
    BY <1>1, <1>2, AnsweredGoals
    DEF OrderInv, LeftOK, LeftBehind, TypeOK, Actions
  <2>2. mowed' = 0..(current_segment_index' - 1)
    BY <1>1, <1>2 DEF OrderInv, MowedInOrder, Driving, pathVars
  <2>. QED
    BY <1>3, <2>1, <2>2 DEF OrderInv, RestOK, NavigateOK, MowOK, DockOK,
                            LeftOK, MowedInOrder
<1>4. CASE ScheduleRetry("dock")
  BY <1>1, <1>4, FailureOrder DEF Actions
<1>. QED  BY <1>3, <1>4 DEF DockResult, ScheduleDockRetry

LEMMA AnswerOrder ==
  ASSUME TypeInv, Inv, OrderInv, NEW g \in GoalIds, HandleAnswer(g)
  PROVE  OrderInv'
<1>. TypeOK
  BY DEF TypeInv
<1>1. CASE NavigateRejected(g)
  BY <1>1, FailureOrder
  DEF NavigateRejected, Rejected, Awaits, flagVars, Actions
<1>2. CASE FollowPathRejected(g)
  BY <1>2, FailureOrder DEF FollowPathRejected, Rejected, Awaits, Actions
<1>3. CASE DockRejected(g)
  BY <1>3, FailureOrder DEF DockRejected, Rejected, Awaits, Actions
<1>. QED
  BY <1>1, <1>2, <1>3, NavigateOrder, FollowPathOrder, DockOrder
  DEF HandleAnswer

\* A timer that fires after its state was left does nothing; one that fires in
\* it finds no goal of its action out.
LEMMA TimerOrder ==
  ASSUME TypeInv, Inv, OrderInv,
         NavigateRetryTimer \/ FollowPathRetryTimer \/ DockRetryTimer
  PROVE  OrderInv'
<1>. TypeOK /\ IndexOK
  BY DEF TypeInv
<1>1. ASSUME NEW a \in Actions, Fires(a), state # HomeState(a)
      PROVE  OrderInv'
  <2>1. /\ UNCHANGED <<state, follow_path_goal_active, goals, mowed,
                       current_segment_index>>
        /\ \A b \in Actions : retry_timer'[b] => retry_timer[b]
    BY <1>1 DEF Fires, Disarm, missionVars, flagVars, goalVars, pathVars, TypeOK
  <2>. QED
    BY <2>1 DEF OrderInv, RestOK, NavigateOK, MowOK, DockOK, LeftOK, LegOK,
                NothingOut, LeftBehind, MowedInOrder, Actions
<1>2. ASSUME NEW a \in Actions, Fires(a), state = HomeState(a)
      PROVE  /\ retry_timer[a] /\ ~retry_timer'[a]
             /\ \A b \in Actions \ {a} : retry_timer'[b] = retry_timer[b]
             /\ UNCHANGED pathVars
             /\ mowed' = 0..(current_segment_index' - 1)
  <2>1. state \in Driving
    BY <1>2 DEF HomeState, Driving, Actions
  <2>. QED
    BY <1>2, <2>1 DEF Fires, Disarm, TypeOK, OrderInv, MowedInOrder, pathVars
<1>3. CASE NavigateRetryTimer
  <2>1. CASE state # "NAVIGATING_TO_START"
    BY <1>1, <1>3, <2>1 DEF NavigateRetryTimer, HomeState, Actions
  <2>2. CASE state = "NAVIGATING_TO_START"
    <3>1. /\ retry_timer["navigate"] /\ ~retry_timer'["navigate"]
          /\ retry_timer'["follow"] = retry_timer["follow"]
          /\ UNCHANGED pathVars /\ mowed' = 0..(current_segment_index' - 1)
      BY <1>2, <1>3, <2>2 DEF NavigateRetryTimer, HomeState, Actions
    <3>2. NothingOut(goals) /\ ~retry_timer["follow"]
      BY <2>2, <3>1 DEF OrderInv, NavigateOK, LegOK, NothingOut
    <3>3. SendNavigateToStartGoal(goals, current_segment_index', attempts)
      BY <1>3, <2>2, <3>1 DEF NavigateRetryTimer, IndexOK, pathVars
    <3>. QED  BY <3>1, <3>2, <3>3, EnterNavigate DEF TypeOK
  <2>. QED  BY <2>1, <2>2
<1>4. CASE FollowPathRetryTimer
  <2>1. CASE state # "MOWING"
    BY <1>1, <1>4, <2>1 DEF FollowPathRetryTimer, HomeState, Actions
  <2>2. CASE state = "MOWING"
    <3>1. /\ retry_timer["follow"] /\ ~retry_timer'["follow"]
          /\ retry_timer'["navigate"] = retry_timer["navigate"]
          /\ UNCHANGED pathVars /\ mowed' = 0..(current_segment_index' - 1)
      BY <1>2, <1>4, <2>2 DEF FollowPathRetryTimer, HomeState, Actions
    <3>2. NothingOut(goals) /\ ~retry_timer["navigate"]
      BY <2>2, <3>1 DEF OrderInv, MowOK, LegOK, NothingOut
    <3>3. /\ SendFollowPathGoal(goals, attempts)
          /\ pending_path = current_segment_index'
      BY <1>4, <2>2, <3>1 DEF FollowPathRetryTimer, IndexOK, pathVars
    <3>. QED  BY <3>1, <3>2, <3>3, EnterMow DEF TypeOK
  <2>. QED  BY <2>1, <2>2
<1>5. CASE DockRetryTimer
  <2>1. CASE state # "RETURNING_TO_DOCK"
    BY <1>1, <1>5, <2>1 DEF DockRetryTimer, HomeState, Actions
  <2>2. CASE state = "RETURNING_TO_DOCK"
    <3>1. /\ retry_timer["dock"] /\ SendDockGoal(goals, attempts)
          /\ mowed' = 0..(current_segment_index' - 1)
      BY <1>2, <1>5, <2>2 DEF DockRetryTimer, HomeState, Actions
    <3>2. NoneOut(goals, "dock") /\ LeftBehind(goals)
      BY <2>2, <3>1, GoalsOfNone DEF Inv, OneDockGoal, OrderInv, LeftOK
    <3>. QED  BY <3>1, <3>2, EnterDock DEF TypeOK
  <2>. QED  BY <2>1, <2>2
<1>. QED  BY <1>3, <1>4, <1>5

\* A low battery: what the leg has out is cancelled before the dock goal goes
\* out, because the flag is up whenever a follow_path goal is.
LEMMA TurnBackOrder ==
  ASSUME TypeOK, Inv, OrderInv, TickNavigatingToStart \/ TickMowing
  PROVE  OrderInv'
<1>1. /\ state \in {"NAVIGATING_TO_START", "MOWING"} /\ UNCHANGED pathVars
      /\ mowed' = 0..(current_segment_index' - 1)
  BY DEF TickNavigatingToStart, TickMowing, OrderInv, MowedInOrder, Driving,
         pathVars
<1>2. NoneOut(goals, "dock") /\ goals \in GoalMaps
  BY <1>1, NoDockOnPath DEF TypeOK
<1>3. CASE TickNavigatingToStart
  <2>. DEFINE gs == CancelAll(goals, "navigate")
  <2>1. NoneOut(goals, "follow") /\ SendDockGoal(StartLeg(gs), 0)
    BY <1>3 DEF OrderInv, NavigateOK, TickNavigatingToStart
  <2>2. gs \in GoalMaps /\ StartLeg(gs) \in GoalMaps
    BY <1>2, CancelAllType, StartLegType DEF Actions
  <2>3. LeftBehind(gs) /\ NoneOut(gs, "dock")
    BY <1>2, <2>1, CancelAllGoals
    DEF LeftBehind, NoneOut, Cancelled, Actions
  <2>4. LeftBehind(StartLeg(gs)) /\ NoneOut(StartLeg(gs), "dock")
    BY <2>2, <2>3, LeftLeg, StartLegGoals DEF Actions
  <2>. QED  BY <1>1, <2>1, <2>2, <2>4, EnterDock
<1>4. CASE TickMowing
  <2>. DEFINE gs == IF follow_path_goal_active
                      THEN CancelAll(goals, "follow") ELSE goals
  <2>1. /\ NoneOut(goals, "navigate") /\ SendDockGoal(StartLeg(gs), 0)
        /\ NoneOut(goals, "follow") \/ follow_path_goal_active
    BY <1>4 DEF OrderInv, MowOK, TickMowing
  <2>2. gs \in GoalMaps /\ StartLeg(gs) \in GoalMaps
    BY <1>2, CancelAllType, StartLegType DEF Actions
  <2>3. LeftBehind(gs) /\ NoneOut(gs, "dock")
    BY <1>2, <2>1, CancelAllGoals
    DEF LeftBehind, NoneOut, Cancelled, Actions
  <2>4. LeftBehind(StartLeg(gs)) /\ NoneOut(StartLeg(gs), "dock")
    BY <2>2, <2>3, LeftLeg, StartLegGoals DEF Actions
  <2>. QED  BY <1>1, <2>1, <2>2, <2>4, EnterDock
<1>. QED  BY <1>3, <1>4

LEMMA CoverageOrder ==
  ASSUME TypeOK, Inv, OrderInv, CoverageResponse
  PROVE  OrderInv'
<1>1. state = "REQUESTING_COVERAGE"
  BY DEF CoverageResponse, Inv, CoverageOnlyWhileRequesting, TypeOK
<1>2. NothingOut(goals) /\ \A a \in Actions : ~retry_timer[a]
  BY <1>1 DEF OrderInv, RestOK
<1>3. CASE UNCHANGED <<missionVars, flagVars, pathVars, retryVars, goalVars>>
  BY <1>1, <1>3, <1>2
  DEF OrderInv, RestOK, NavigateOK, MowOK, DockOK, LeftOK, MowedInOrder,
      Driving, missionVars, retryVars, goalVars
<1>4. CASE state' \in {"ERROR", Crashed} /\ UNCHANGED goalVars
  <2>. LeftBehind(goals')
    BY <1>2, <1>4, NothingOutLeft DEF goalVars
  <2>. QED
    BY <1>4 DEF OrderInv, RestOK, NavigateOK, MowOK, DockOK, LeftOK,
                MowedInOrder, Driving, Crashed
<1>5. CASE \E n \in 1..MaxSegments : PlanPath(n)
  <2>1. /\ SendNavigateToStartGoal(StartLeg(goals), current_segment_index', 0)
        /\ mowed' = 0..(current_segment_index' - 1)
        /\ UNCHANGED retry_timer
    BY <1>5 DEF PlanPath
  <2>2. NothingOut(StartLeg(goals)) /\ StartLeg(goals) \in GoalMaps
    BY <1>2, NothingOutLeg, StartLegType DEF TypeOK
  <2>. QED  BY <1>2, <2>1, <2>2, EnterNavigate DEF Actions
<1>. QED
  BY <1>3, <1>4, <1>5 DEF CoverageResponse, EnterError

\* Here the assumption on time is used: what an earlier mission had out is
\* gone when the next one starts.
LEMMA StartOrder ==
  ASSUME ~LateResults, TypeOK, OrderInv,
         HandleStartService \/ TickIdle \/ TickCharging
  PROVE  OrderInv'
<1>1. state' = "REQUESTING_COVERAGE" /\ UNCHANGED retryVars /\ UNCHANGED goalVars
  BY DEF HandleStartService, TickIdle, TickCharging
<1>2. NothingOut(goals) /\ \A a \in Actions : ~retry_timer[a]
  <2>1. CASE TickIdle
    BY <2>1 DEF TickIdle, OrderInv, RestOK
  <2>2. CASE MayStartMission
    <3>1. /\ GoalsOf("navigate") = {} /\ GoalsOf("follow") = {}
          /\ \A a \in Actions : ~retry_timer[a]
      BY <2>2 DEF MayStartMission, Settled
    <3>. QED  BY <3>1, GoalsOfNone DEF NothingOut
  <2>. QED  BY <2>1, <2>2 DEF HandleStartService, TickCharging
<1>. QED
  BY <1>1, <1>2 DEF OrderInv, RestOK, NavigateOK, MowOK, DockOK, LeftOK,
                    MowedInOrder, Driving, retryVars, goalVars

LEMMA ServerOrder ==
  ASSUME TypeOK, OrderInv, nodeUnchanged,
         \/ \E g \in GoalIds : \/ AcceptGoal(g) \/ RejectGoal(g)
                                \/ EndGoal(g) \/ LoseGoal(g)
         \/ LoseCoverageRequest
  PROVE  OrderInv'
<1>1. \A a \in Actions :
        /\ NoneOut(goals, a) => NoneOut(goals', a)
        /\ AtMostOne(goals, a) => AtMostOne(goals', a)
        /\ Fresh(goals, a) => Fresh(goals', a)
        /\ ForSegment(goals, a, current_segment_index)
             => ForSegment(goals', a, current_segment_index)
        /\ Cancelled(goals, a) => Cancelled(goals', a)
  BY ServerStepGoals DEF TypeOK, LoseCoverageRequest
<1>2. UNCHANGED <<state, follow_path_goal_active, current_segment_index, mowed,
                  retry_timer>>
  BY DEF nodeUnchanged, missionVars, flagVars, pathVars, retryVars
<1>3. RestOK' /\ NavigateOK'
  BY <1>1, <1>2 DEF OrderInv, RestOK, NavigateOK, LegOK, NothingOut, Actions
<1>4. MowOK' /\ DockOK'
  BY <1>1, <1>2 DEF OrderInv, MowOK, DockOK, LegOK, Actions
<1>5. LeftOK' /\ MowedInOrder'
  BY <1>1, <1>2 DEF OrderInv, LeftOK, LeftBehind, MowedInOrder, Actions
<1>. QED  BY <1>3, <1>4, <1>5 DEF OrderInv

LEMMA InitOrder == Init => OrderInv
  BY DEF Init, OrderInv, RestOK, NavigateOK, MowOK, DockOK, LeftOK,
         MowedInOrder, Driving, NothingOut, NoneOut, NoGoal

LEMMA NextOrder ==
  ASSUME ~LateResults
  PROVE  TypeInv /\ Inv /\ OrderInv /\ [Next]_vars => OrderInv'
<1> SUFFICES ASSUME TypeInv, Inv, OrderInv, [Next]_vars PROVE OrderInv'
  OBVIOUS
<1>. TypeOK
  BY DEF TypeInv
<1>1. CASE UNCHANGED <<state, follow_path_goal_active, pathVars, retryVars,
                       goalVars>>
  BY <1>1 DEF OrderInv, RestOK, NavigateOK, MowOK, DockOK, LeftOK, LegOK,
     NothingOut, LeftBehind, MowedInOrder, pathVars, retryVars, goalVars
<1>2. CASE UNCHANGED vars \/ BatteryCallback \/ TickRequestingCoverage
  BY <1>1, <1>2 DEF vars, BatteryCallback, TickRequestingCoverage, missionVars,
                    flagVars
<1>3. CASE \/ \E g \in GoalIds : \/ AcceptGoal(g) \/ RejectGoal(g)
                                 \/ EndGoal(g) \/ LoseGoal(g)
           \/ LoseCoverageRequest
  BY <1>3, ServerOrder
  DEF AcceptGoal, RejectGoal, EndGoal, LoseGoal, LoseCoverageRequest
<1>4. CASE Tick
  BY <1>2, <1>4, StartOrder, TurnBackOrder DEF Tick
<1>5. CASE \E g \in GoalIds : HandleAnswer(g)
  BY <1>5, AnswerOrder
<1>. QED
  BY <1>2, <1>3, <1>4, <1>5, StartOrder, TimerOrder, CoverageOrder DEF Next

AllInv == TypeInv /\ Inv /\ OrderInv

LEMMA AllInvAlways ==
  ASSUME ~LateResults
  PROVE  Spec => []AllInv
<1>1. Init => AllInv
  BY InitTypeInv, InitInv, InitOrder DEF AllInv
<1>2. AllInv /\ [Next]_vars => AllInv'
  BY NextTypeInv, NextInv, NextOrder DEF AllInv, TypeInv
<1>. QED  BY <1>1, <1>2, PTL DEF Spec

\* When missions do not overlap, the segments behind the index, and no others,
\* have been mown, each by a goal of its own, however goals are rejected,
\* aborted, retried, cancelled and lost (mission_manager_node.cpp:384).
THEOREM SegmentsInOrder ==
  ASSUME ~LateResults
  PROVE  Spec => []MowedInOrder
<1>1. AllInv => MowedInOrder
  BY DEF AllInv, OrderInv
<1>. QED  BY AllInvAlways, <1>1, PTL

\* When missions do not overlap, nothing is left driving without being
\* cancelled once the mower heads for the dock or has given up
\* (mission_manager_node.cpp:125).
THEOREM NothingIsLeftDriving ==
  ASSUME ~LateResults
  PROVE  Spec => []NothingDrivesAgainstTheDock
<1>1. OrderInv => NothingDrivesAgainstTheDock
  BY DEF OrderInv, LeftOK, LeftBehind, Cancelled, NothingDrivesAgainstTheDock,
         GoalsOf
<1>. QED  BY AllInvAlways, <1>1, PTL DEF AllInv

\* When missions do not overlap and no server dies, a driving state has one
\* driver: one goal of its own, or one armed retry timer
\* (mission_manager_node.cpp:464).
THEOREM DriverIsAlone ==
  ASSUME ~LateResults, Lossy = {}
  PROVE  Spec => []OneDriver
<1>1. TypeOK /\ Inv /\ OrderInv /\ Driven => OneDriver
  <2> SUFFICES ASSUME TypeOK, Inv, OrderInv, Driven,
                      NEW a \in Actions, state = HomeState(a)
               PROVE  IF retry_timer[a] THEN GoalsOf(a) = {}
                      ELSE \E g \in GoalIds :
                             GoalsOf(a) = {g} /\ ~goals[g].stale
    BY DEF OneDriver
  <2>1. lost = {}
    BY DEF TypeOK
  <2>2. AtMostOne(goals, a) /\ Fresh(goals, a)
    <3>1. CASE a = "navigate"
      BY <3>1 DEF OrderInv, NavigateOK, LegOK, HomeState
    <3>2. CASE a = "follow"
      BY <3>2 DEF OrderInv, MowOK, LegOK, HomeState
    <3>3. CASE a = "dock"
      BY <3>3 DEF OrderInv, DockOK, HomeState, Inv, OneDockGoal, AtMostOne,
                  GoalsOf
    <3>. QED  BY <3>1, <3>2, <3>3 DEF Actions
  <2>3. retry_timer[a] => GoalsOf(a) = {}
    <3>1. CASE a \in {"navigate", "follow"}
      BY <3>1, GoalsOfNone
      DEF OrderInv, NavigateOK, MowOK, LegOK, HomeState
    <3>2. CASE a = "dock"
      BY <3>2 DEF Inv, OneDockGoal
    <3>. QED  BY <3>1, <3>2 DEF Actions
  <2>4. ASSUME ~retry_timer[a]
        PROVE  \E g \in GoalIds : GoalsOf(a) = {g} /\ ~goals[g].stale
    <3>1. PICK g \in GoalIds : goals[g].action = a
      BY <2>1, <2>4 DEF Driven, NoneOut
    <3>2. GoalsOf(a) = {g} /\ ~goals[g].stale
      BY <2>2, <3>1 DEF AtMostOne, Fresh, GoalsOf
    <3>. QED  BY <3>2
  <2>. QED  BY <2>3, <2>4
<1>2. Spec => []Driven
  <2>1. Init => Driven
    BY DEF Init, Driven, HomeState, Actions
  <2>. QED  BY TypeCorrect, <2>1, NextDriven, PTL DEF Spec
<1>3. AllInv => TypeOK /\ Inv /\ OrderInv
  BY DEF AllInv, TypeInv
<1>. QED  BY AllInvAlways, <1>1, <1>2, <1>3, PTL

----------------------------------------------------------------------------
(* Every step of the node is a step of the mission, or none at all.        *)

AbstractStep == [AbstractMission!Next]_(AbstractMission!mvars)

\* The mapping, state by state.
LEMMA PhaseOfState ==
  /\ state = "IDLE" => Phase = "resting"
  /\ state = "REQUESTING_COVERAGE" => Phase = "planning"
  /\ state = "NAVIGATING_TO_START" => Phase = "driving"
  /\ state = "MOWING" => Phase = "mowing"
  /\ state = "RETURNING_TO_DOCK" => Phase = "homing"
  /\ state = "CHARGING" => Phase = "charging"
  /\ state \in {"ERROR", Crashed} => Phase = "failed"
<1>1. state = "IDLE" => Phase = "resting"
  BY DEF Phase, Crashed
<1>2. state = "REQUESTING_COVERAGE" => Phase = "planning"
  BY DEF Phase, Crashed
<1>3. state = "NAVIGATING_TO_START" => Phase = "driving"
  BY DEF Phase, Crashed
<1>4. state = "MOWING" => Phase = "mowing"
  BY DEF Phase, Crashed
<1>5. state = "RETURNING_TO_DOCK" => Phase = "homing"
  BY DEF Phase, Crashed
<1>6. state = "CHARGING" => Phase = "charging"
  BY DEF Phase, Crashed
<1>7. state \in {"ERROR", Crashed} => Phase = "failed"
  BY DEF Phase, Crashed
<1>. QED  BY <1>1, <1>2, <1>3, <1>4, <1>5, <1>6, <1>7

LEMMA PhaseOfNextState ==
  /\ state' = "REQUESTING_COVERAGE" => Phase' = "planning"
  /\ state' = "NAVIGATING_TO_START" => Phase' = "driving"
  /\ state' = "MOWING" => Phase' = "mowing"
  /\ state' = "RETURNING_TO_DOCK" => Phase' = "homing"
  /\ state' = "CHARGING" => Phase' = "charging"
  /\ state' \in {"ERROR", Crashed} => Phase' = "failed"
<1>1. state' = "REQUESTING_COVERAGE" => Phase' = "planning"
  BY DEF Phase, Crashed
<1>2. state' = "NAVIGATING_TO_START" => Phase' = "driving"
  BY DEF Phase, Crashed
<1>3. state' = "MOWING" => Phase' = "mowing"
  BY DEF Phase, Crashed
<1>4. state' = "RETURNING_TO_DOCK" => Phase' = "homing"
  BY DEF Phase, Crashed
<1>5. state' = "CHARGING" => Phase' = "charging"
  BY DEF Phase, Crashed
<1>6. state' \in {"ERROR", Crashed} => Phase' = "failed"
  BY DEF Phase, Crashed
<1>. QED  BY <1>1, <1>2, <1>3, <1>4, <1>5, <1>6

\* What leaves the state and the path alone leaves the mission alone.
LEMMA StutterStep ==
  ASSUME UNCHANGED <<state, path_segments, mowed>>
  PROVE  AbstractStep
  BY DEF AbstractStep, AbstractMission!mvars, Phase, HasPath

LEMMA BeginStep ==
  ASSUME state \in {"IDLE", "CHARGING", "ERROR"}, state' = "REQUESTING_COVERAGE"
  PROVE  AbstractStep
  BY PhaseOfState, PhaseOfNextState
  DEF AbstractStep, AbstractMission!Next, AbstractMission!Begin,
      AbstractMission!NoPath, HasPath

LEMMA PlanStep ==
  ASSUME state = "REQUESTING_COVERAGE", state' = "NAVIGATING_TO_START",
         path_segments' \in 1..MaxSegments, mowed' = {}
  PROVE  AbstractStep
  BY PhaseOfState, PhaseOfNextState
  DEF AbstractStep, AbstractMission!Next, AbstractMission!Plan, HasPath

LEMMA MoveStep ==
  ASSUME \/ state = "NAVIGATING_TO_START" /\ state' = "MOWING"
         \/ /\ state \in {"NAVIGATING_TO_START", "MOWING"}
            /\ state' = "RETURNING_TO_DOCK"
         \/ state = "RETURNING_TO_DOCK" /\ state' = "CHARGING",
         UNCHANGED <<path_segments, mowed>>
  PROVE  AbstractStep
  BY PhaseOfState, PhaseOfNextState
  DEF AbstractStep, AbstractMission!Next, AbstractMission!Arrive,
      AbstractMission!TurnBack, AbstractMission!Dock,
      AbstractMission!OnPath, AbstractMission!SamePath, HasPath

LEMMA MowStep ==
  ASSUME NEW i \in Nat, state = "MOWING", i < path_segments,
         path_segments \in Nat, UNCHANGED path_segments,
         mowed = 0..(i - 1), mowed' = 0..i,
         state' = IF i + 1 >= path_segments THEN "RETURNING_TO_DOCK"
                                            ELSE "NAVIGATING_TO_START"
  PROVE  AbstractStep
<1>1. i \in 0..(path_segments - 1)
  OBVIOUS
<1>2. (i + 1 >= path_segments) <=> (i + 1 = path_segments)
  OBVIOUS
<1>3. CASE i + 1 = path_segments
  BY <1>1, <1>3, PhaseOfState, PhaseOfNextState
  DEF AbstractStep, AbstractMission!Next, AbstractMission!Mow, HasPath
<1>4. CASE i + 1 # path_segments
  BY <1>1, <1>2, <1>4, PhaseOfState, PhaseOfNextState
  DEF AbstractStep, AbstractMission!Next, AbstractMission!Mow, HasPath
<1>. QED  BY <1>3, <1>4

LEMMA FailStep ==
  ASSUME state \in Driving \cup {"REQUESTING_COVERAGE"},
         state' \in {"ERROR", Crashed}
  PROVE  AbstractStep
  BY PhaseOfState, PhaseOfNextState
  DEF AbstractStep, AbstractMission!Next, AbstractMission!Fail,
      AbstractMission!NoPath, AbstractMission!OnPath, Driving, Crashed,
      HasPath

\* A goal is sent again, or the mission fails.
LEMMA ResendStep ==
  ASSUME NEW a \in Actions, state = HomeState(a), NEW gs, NEW seg, NEW n,
         ServerAvailable(gs, a, seg, n) \/ ServerUnavailable(gs, a, n),
         UNCHANGED pathVars
  PROVE  AbstractStep
<1>1. CASE ServerAvailable(gs, a, seg, n)
  BY <1>1, StutterStep DEF ServerAvailable, pathVars
<1>2. CASE ServerUnavailable(gs, a, n)
  BY <1>2, FailStep
  DEF ServerUnavailable, EnterError, HomeState, Driving, Actions
<1>. QED  BY <1>1, <1>2

LEMMA RetryStep ==
  ASSUME NEW a \in Actions, UNCHANGED pathVars,
         ScheduleRetry(a) \/ UNCHANGED missionVars
  PROVE  AbstractStep
<1>1. CASE UNCHANGED missionVars
  BY <1>1, StutterStep DEF missionVars, pathVars
<1>2. CASE state = HomeState(a) /\ state' = "ERROR"
  BY <1>2, FailStep DEF HomeState, Driving, Actions
<1>. QED  BY <1>1, <1>2 DEF ScheduleRetry, EnterError

LEMMA AnswerSteps ==
  ASSUME TypeInv, Inv, OrderInv, NEW g \in GoalIds, HandleAnswer(g)
  PROVE  AbstractStep
<1>. TypeOK /\ IndexOK
  BY DEF TypeInv
<1>1. ASSUME NEW a \in Actions, Rejected(g, a)
      PROVE  AbstractStep
  BY <1>1, RetryStep DEF Rejected
<1>2. CASE NavigateResult(g)
  <2>1. UNCHANGED pathVars
    BY <1>2 DEF NavigateResult
  <2>2. CASE /\ state = "NAVIGATING_TO_START"
             /\ SendFollowPathGoal(StartLeg(Answered(g)), 0)
    <3>1. CASE state' = "MOWING"
      BY <2>1, <2>2, <3>1, MoveStep DEF pathVars
    <3>2. CASE state' = "ERROR"
      BY <2>2, <3>2, FailStep DEF Driving
    <3>. QED
      BY <2>2, <3>1, <3>2 DEF SendFollowPathGoal, ServerAvailable,
                              ServerUnavailable, EnterError, HomeState
  <2>. QED
    BY <1>2, <2>1, <2>2, RetryStep
    DEF NavigateResult, ScheduleNavigateRetry, Actions
<1>3. CASE FollowPathResult(g)
  <2>1. goals[g].action = "follow"
    BY <1>3 DEF FollowPathResult, ResultOf, Awaits
  <2>2. ASSUME state = "MOWING", NEW counts,
               AdvanceToNextSegment(Answered(g), counts),
               mowed' = mowed \cup (IF goals[g].stale THEN {}
                                                      ELSE {goals[g].segment}),
               UNCHANGED path_segments
        PROVE  AbstractStep
    <3>. DEFINE i == current_segment_index
    <3>1. /\ i \in Nat /\ path_segments \in Nat /\ i < path_segments
          /\ current_segment_index' = i + 1
      BY <2>2 DEF TypeOK, IndexOK, AdvanceToNextSegment
    <3>2. mowed = 0..(i - 1)
      BY <2>2 DEF OrderInv, MowedInOrder, Driving
    <3>3. mowed' = 0..i
      <4>1. mowed' = mowed \cup {i}
        BY <2>1, <2>2 DEF OrderInv, MowOK, LegOK, Fresh, ForSegment
      <4>. QED  BY <3>1, <3>2, <4>1
    <3>4. \/ state' = "ERROR"
          \/ state' = IF i + 1 >= path_segments THEN "RETURNING_TO_DOCK"
                                                ELSE "NAVIGATING_TO_START"
      BY <2>2, <3>1
      DEF AdvanceToNextSegment, PastLastSegment, SendDockGoal,
          SendNavigateToStartGoal, ServerAvailable, ServerUnavailable,
          EnterError, HomeState
    <3>5. CASE state' = "ERROR"
      BY <2>2, <3>5, FailStep DEF Driving
    <3>. QED  BY <2>2, <3>1, <3>2, <3>3, <3>4, <3>5, MowStep
  <2>3. CASE UNCHANGED pathVars /\ (ScheduleRetry("follow")
                                      \/ UNCHANGED missionVars)
    BY <2>3, RetryStep DEF Actions
  <2>. QED
    BY <1>3, <2>2, <2>3 DEF FollowPathResult, ScheduleFollowPathRetry
<1>4. CASE DockResult(g)
  <2>1. UNCHANGED pathVars /\ state = "RETURNING_TO_DOCK"
    BY <1>4 DEF DockResult, ResultOf, Awaits, Inv, OneDockGoal, GoalsOf
  <2>2. CASE state' = "CHARGING"
    BY <2>1, <2>2, MoveStep DEF pathVars
  <2>3. CASE ScheduleRetry("dock")
    BY <2>1, <2>3, RetryStep DEF Actions
  <2>. QED  BY <1>4, <2>2, <2>3 DEF DockResult, ScheduleDockRetry
<1>. QED
  BY <1>1, <1>2, <1>3, <1>4
  DEF HandleAnswer, NavigateRejected, FollowPathRejected, DockRejected, Actions

LEMMA TimerSteps ==
  ASSUME NavigateRetryTimer \/ FollowPathRetryTimer \/ DockRetryTimer
  PROVE  AbstractStep
<1>1. ASSUME NEW a \in Actions, Fires(a), state # HomeState(a)
      PROVE  AbstractStep
  BY <1>1, StutterStep DEF Fires, missionVars, pathVars
<1>2. CASE NavigateRetryTimer
  BY <1>1, <1>2, ResendStep DEF NavigateRetryTimer, Fires, HomeState,
     SendNavigateToStartGoal, Actions
<1>3. CASE FollowPathRetryTimer
  BY <1>1, <1>3, ResendStep DEF FollowPathRetryTimer, Fires, HomeState,
     SendFollowPathGoal, Actions
<1>4. CASE DockRetryTimer
  BY <1>1, <1>4, ResendStep DEF DockRetryTimer, Fires, HomeState,
     SendDockGoal, Actions
<1>. QED  BY <1>2, <1>3, <1>4

LEMMA CallbackSteps ==
  ASSUME TypeOK, Inv, HandleStartService \/ Tick \/ CoverageResponse
  PROVE  AbstractStep
<1>1. CASE HandleStartService \/ TickIdle \/ TickCharging
  BY <1>1, BeginStep DEF HandleStartService, TickIdle, TickCharging
<1>2. CASE TickRequestingCoverage
  BY <1>2, StutterStep DEF TickRequestingCoverage, missionVars, pathVars
<1>3. CASE TickNavigatingToStart \/ TickMowing
  <2>1. /\ state \in {"NAVIGATING_TO_START", "MOWING"} /\ UNCHANGED pathVars
        /\ state' \in {"RETURNING_TO_DOCK", "ERROR"}
    BY <1>3 DEF TickNavigatingToStart, TickMowing, SendDockGoal,
       ServerAvailable, ServerUnavailable, EnterError, HomeState
  <2>. QED  BY <2>1, MoveStep, FailStep DEF pathVars, Driving
<1>4. CASE CoverageResponse
  <2>1. state = "REQUESTING_COVERAGE"
    BY <1>4 DEF CoverageResponse, Inv, CoverageOnlyWhileRequesting, TypeOK
  <2>2. CASE UNCHANGED <<missionVars, flagVars, pathVars, retryVars, goalVars>>
    BY <2>2, StutterStep DEF missionVars, pathVars
  <2>3. CASE state' \in {"ERROR", Crashed}
    BY <2>1, <2>3, FailStep
  <2>4. CASE \E n \in 1..MaxSegments : PlanPath(n)
    <3>1. /\ path_segments' \in 1..MaxSegments /\ mowed' = {}
          /\ state' \in {"NAVIGATING_TO_START", "ERROR"}
      BY <2>4 DEF PlanPath, SendNavigateToStartGoal, ServerAvailable,
                  ServerUnavailable, EnterError, HomeState
    <3>. QED  BY <2>1, <3>1, PlanStep, FailStep
  <2>. QED  BY <1>4, <2>2, <2>3, <2>4 DEF CoverageResponse, EnterError
<1>. QED  BY <1>1, <1>2, <1>3, <1>4 DEF Tick

LEMMA NextRefines == AllInv /\ [Next]_vars => AbstractStep
<1> SUFFICES ASSUME TypeInv, Inv, OrderInv, [Next]_vars PROVE AbstractStep
  BY DEF AllInv
<1>1. CASE UNCHANGED <<state, path_segments, mowed>>
  BY <1>1, StutterStep
<1>2. CASE UNCHANGED vars \/ BatteryCallback
  BY <1>1, <1>2 DEF vars, BatteryCallback, missionVars, pathVars
<1>3. CASE \/ \E g \in GoalIds : \/ AcceptGoal(g) \/ RejectGoal(g)
                                 \/ EndGoal(g) \/ LoseGoal(g)
           \/ LoseCoverageRequest
  BY <1>1, <1>3 DEF AcceptGoal, RejectGoal, EndGoal, LoseGoal,
     LoseCoverageRequest, nodeUnchanged, missionVars, pathVars
<1>. QED
  BY <1>2, <1>3, CallbackSteps, TimerSteps, AnswerSteps DEF Next, TypeInv

\* When missions do not overlap, the node keeps the promise of Mission, for
\* every number of goals, segments and retries, and whatever servers die.
THEOREM MissionIsKept ==
  ASSUME ~LateResults
  PROVE  Spec => ImplementsMission
<1>1. Init => AbstractMission!Init
  BY PhaseOfState DEF Init, AbstractMission!Init, HasPath
<1>2. AllInv /\ [Next]_vars => [AbstractMission!Next]_(AbstractMission!mvars)
  BY NextRefines DEF AbstractStep
<1>. QED
  BY AllInvAlways, <1>1, <1>2, PTL DEF Spec, ImplementsMission,
     AbstractMission!Spec

----------------------------------------------------------------------------
(***************************************************************************)
(* The retry cap: three counters with one limit, reset in different        *)
(* places and never all at once, bound the goals of every leg, as long as  *)
(* missions do not overlap.                                                *)
(***************************************************************************)

(* The inductive invariant.  A leg has been given at most one goal more    *)
(* than its counter shows, and none more while the retry is still to come. *)
(* Only the counter of navigation starts each leg at 0: those of following *)
(* and docking may have been used up by earlier legs.                      *)

NavigateGivenUp == <<"repeatedly failed", "navigate">>

Counted(a) == /\ attempts <= retry_count[a] + 1
              /\ retry_timer[a] => /\ attempts <= retry_count[a]
                                   /\ retry_count[a] <= kMaxActionRetries
NavigateCounted ==
  /\ retry_count["navigate"] <= kMaxActionRetries
  /\ attempts = retry_count["navigate"]
                  + (IF retry_timer["navigate"] THEN 0 ELSE 1)

RetryInv ==
  /\ attempts <= kMaxActionRetries + 1
  /\ \A a \in Actions : state = HomeState(a) => Counted(a)
  /\ state = "NAVIGATING_TO_START" => NavigateCounted
  /\ error_reason = NavigateGivenUp =>
       state = "ERROR" /\ attempts = kMaxActionRetries + 1

LEMMA Homes ==
  /\ Actions = {"navigate", "follow", "dock"}
  /\ HomeState("navigate") = "NAVIGATING_TO_START"
  /\ HomeState("follow") = "MOWING"
  /\ HomeState("dock") = "RETURNING_TO_DOCK"
  BY DEF Actions, HomeState

LEMMA OtherReasons ==
  /\ \A a : <<"unavailable", a>> # NavigateGivenUp
  /\ <<"none", "none">> # NavigateGivenUp
  /\ <<"collapsed", "none">> # NavigateGivenUp
  BY DEF NavigateGivenUp

\* A step that starts a leg counts from 0.
LEMMA EnterLeg ==
  ASSUME TypeOK', NEW a \in Actions, NEW gs, NEW seg,
         ServerAvailable(gs, a, seg, 0) \/ ServerUnavailable(gs, a, 0),
         ~retry_timer'[a], error_reason # NavigateGivenUp,
         a = "navigate" => retry_count'["navigate"] = 0
  PROVE  RetryInv'
<1>1. kMaxActionRetries \in Nat /\ \A b \in Actions : retry_count'[b] \in Nat
  BY ConstantsAssumption DEF TypeOK
<1>2. CASE ServerAvailable(gs, a, seg, 0)
  <2>1. attempts' = 1 /\ state' = HomeState(a) /\ UNCHANGED error_reason
    BY <1>1, <1>2 DEF ServerAvailable, OneMore
  <2>2. \A b \in Actions : state' = HomeState(b) => b = a
    BY <2>1, Homes
  <2>. QED  BY <1>1, <2>1, <2>2, Homes DEF RetryInv, Counted, NavigateCounted
<1>3. CASE ServerUnavailable(gs, a, 0)
  <2>1. attempts' = 0 /\ state' = "ERROR" /\ error_reason' = <<"unavailable", a>>
    BY <1>3 DEF ServerUnavailable, EnterError
  <2>2. error_reason' # NavigateGivenUp
    BY <2>1, OtherReasons
  <2>. QED  BY <1>1, <2>1, <2>2, Homes DEF RetryInv
<1>. QED  BY <1>2, <1>3

\* A retry is sent: one goal more, and the counter has counted it before.
LEMMA Resend ==
  ASSUME TypeOK, RetryInv, NEW a \in Actions, NEW gs, NEW seg,
         retry_timer[a], state = HomeState(a), Disarm(a), UNCHANGED retry_count,
         \/ ServerAvailable(gs, a, seg, attempts)
         \/ ServerUnavailable(gs, a, attempts)
  PROVE  RetryInv'
<1>1. /\ kMaxActionRetries \in Nat /\ attempts \in Nat
      /\ \A b \in Actions : retry_count[b] \in Nat
      /\ error_reason # NavigateGivenUp
      /\ attempts <= retry_count[a] /\ retry_count[a] <= kMaxActionRetries
      /\ a = "navigate" => attempts = retry_count[a]
  BY ConstantsAssumption, Homes
     DEF TypeOK, RetryInv, Counted, NavigateCounted
<1>2. ~retry_timer'[a]
  BY DEF Disarm, TypeOK
<1>3. CASE ServerAvailable(gs, a, seg, attempts)
  <2>1. attempts' = attempts + 1 /\ state' = HomeState(a) /\ UNCHANGED error_reason
    BY <1>1, <1>3 DEF ServerAvailable, OneMore
  <2>2. \A b \in Actions : state' = HomeState(b) => b = a
    BY <2>1, Homes
  <2>. QED  BY <1>1, <1>2, <2>1, <2>2, Homes
         DEF RetryInv, Counted, NavigateCounted
<1>4. CASE ServerUnavailable(gs, a, attempts)
  <2>1. /\ attempts' = attempts /\ state' = "ERROR"
        /\ error_reason' = <<"unavailable", a>>
    BY <1>4 DEF ServerUnavailable, EnterError
  <2>2. error_reason' # NavigateGivenUp
    BY <2>1, OtherReasons
  <2>. QED  BY <1>1, <2>1, <2>2, Homes DEF RetryInv
<1>. QED  BY <1>3, <1>4

\* A failure is counted, and answered by a retry or by giving up.
LEMMA CountStep ==
  ASSUME TypeOK, RetryInv, NEW a \in Actions, ScheduleRetry(a),
         UNCHANGED attempts,
         a = "navigate" /\ state = HomeState(a) => ~retry_timer[a]
  PROVE  RetryInv'
<1>1. /\ kMaxActionRetries \in Nat /\ attempts \in Nat
      /\ \A b \in Actions : retry_count[b] \in Nat
  BY ConstantsAssumption DEF TypeOK
<1>2. CASE state # HomeState(a)
  BY <1>2 DEF ScheduleRetry, missionVars, retryVars, RetryInv, Counted,
              NavigateCounted
<1>3. CASE state = HomeState(a) /\ ~GiveUp(a)
  <2>1. /\ retry_count[a] + 1 <= kMaxActionRetries
        /\ retry_count'[a] = retry_count[a] + 1 /\ retry_timer'[a]
        /\ UNCHANGED <<state, error_reason>>
    <3>1. retry_count \in [Actions -> Nat] /\ retry_timer \in [Actions -> BOOLEAN]
      BY <1>1 DEF TypeOK
    <3>2. retry_count[a] + 1 <= kMaxActionRetries
      BY <1>1, <1>3 DEF GiveUp
    <3>3. UNCHANGED <<state, error_reason>>
      BY <1>3 DEF ScheduleRetry, missionVars
    <3>4. CountFailure(a) /\ ArmTimer(a)
      BY <1>3 DEF ScheduleRetry
    <3>5. retry_count'[a] = retry_count[a] + 1
      BY <1>1, <3>1, <3>2, <3>4 DEF CountFailure
    <3>6. retry_timer'[a]
      BY <3>1, <3>4 DEF ArmTimer
    <3>. QED  BY <3>2, <3>5, <3>6, <3>3
  <2>2. \A b \in Actions : state' = HomeState(b) => b = a
    BY <1>3, <2>1, Homes
  <2>3. attempts <= retry_count'[a]
    BY <1>1, <1>3, <2>1 DEF RetryInv, Counted
  <2>4. a = "navigate" => attempts = retry_count'[a]
    BY <1>1, <1>3, <2>1, Homes DEF RetryInv, NavigateCounted
  <2>. QED  BY <1>1, <1>3, <2>1, <2>2, <2>3, <2>4, Homes
         DEF RetryInv, Counted, NavigateCounted
<1>4. CASE state = HomeState(a) /\ GiveUp(a)
  <2>1. state' = "ERROR" /\ error_reason' = <<"repeatedly failed", a>>
    BY <1>4 DEF ScheduleRetry, EnterError
  <2>2. a = "navigate" => attempts = kMaxActionRetries + 1
    BY <1>1, <1>4, Homes DEF RetryInv, NavigateCounted, GiveUp
  <2>. QED  BY <1>1, <2>1, <2>2, Homes DEF RetryInv, NavigateGivenUp
<1>. QED  BY <1>2, <1>3, <1>4

\* A step into a state that drives nothing.
LEMMA RestStep ==
  ASSUME RetryInv, UNCHANGED attempts,
         state' \in {"REQUESTING_COVERAGE", "CHARGING", "ERROR", Crashed},
         error_reason' # NavigateGivenUp
  PROVE  RetryInv'
  BY Homes DEF RetryInv, Crashed

----------------------------------------------------------------------------
(* The actions.                                                            *)

LEMMA StartRetry ==
  ASSUME RetryInv, HandleStartService \/ TickIdle \/ TickCharging
  PROVE  RetryInv'
<1>1. /\ UNCHANGED attempts /\ state' = "REQUESTING_COVERAGE"
      /\ error_reason' # NavigateGivenUp
  BY OtherReasons
     DEF HandleStartService, TickIdle, TickCharging, goalVars, RetryInv
<1>. QED  BY <1>1, RestStep

LEMMA TurnBackRetry ==
  ASSUME TypeOK, TypeOK', Inv, RetryInv, TickNavigatingToStart \/ TickMowing
  PROVE  RetryInv'
<1>1. PICK gs : SendDockGoal(gs, 0)
  BY DEF TickNavigatingToStart, TickMowing
<1>2. /\ state \in {"NAVIGATING_TO_START", "MOWING"}
      /\ UNCHANGED retry_timer
  BY DEF TickNavigatingToStart, TickMowing, retryVars
<1>3. ~retry_timer["dock"] /\ error_reason # NavigateGivenUp
  BY <1>2, NoDockOnPath DEF RetryInv
<1>. QED  BY <1>1, <1>2, <1>3, EnterLeg, Homes DEF SendDockGoal

LEMMA CoverageRetry ==
  ASSUME TypeOK, TypeOK', Inv, OrderInv, RetryInv, CoverageResponse
  PROVE  RetryInv'
<1>1. state = "REQUESTING_COVERAGE"
  BY DEF CoverageResponse, Inv, CoverageOnlyWhileRequesting, TypeOK
<1>2. ~retry_timer["navigate"] /\ error_reason # NavigateGivenUp
  BY <1>1, Homes DEF OrderInv, RestOK, RetryInv
<1>3. CASE \E n \in 1..MaxSegments : PlanPath(n)
  <2>1. /\ \/ ServerAvailable(StartLeg(goals), "navigate", 0, 0)
           \/ ServerUnavailable(StartLeg(goals), "navigate", 0)
        /\ ~retry_timer'["navigate"] /\ retry_count'["navigate"] = 0
    BY <1>2, <1>3, Homes DEF PlanPath, SendNavigateToStartGoal, TypeOK
  <2>. QED  BY <1>2, <2>1, EnterLeg, Homes
<1>4. CASE /\ UNCHANGED attempts
           /\ state' \in {"REQUESTING_COVERAGE", "ERROR", Crashed}
           /\ error_reason' # NavigateGivenUp
  BY <1>4, RestStep
<1>. QED  BY <1>1, <1>2, <1>3, <1>4, OtherReasons
       DEF CoverageResponse, missionVars, goalVars, EnterError

LEMMA NavigateRetry ==
  ASSUME TypeOK, TypeOK', Inv, OrderInv, RetryInv, NEW g \in GoalIds,
         NavigateRejected(g) \/ NavigateResult(g)
  PROVE  RetryInv'
<1>1. goals[g].action = "navigate"
  BY DEF NavigateRejected, Rejected, NavigateResult, ResultOf, Awaits
<1>2. state = HomeState("navigate") => ~retry_timer["navigate"]
  BY <1>1, Homes DEF OrderInv, NavigateOK, LegOK, NoneOut
<1>3. CASE ScheduleRetry("navigate") /\ UNCHANGED attempts
  BY <1>2, <1>3, CountStep, Homes
<1>4. CASE UNCHANGED <<missionVars, retryVars, attempts>>
  BY <1>4 DEF missionVars, retryVars, RetryInv, Counted, NavigateCounted
<1>5. CASE /\ state = "NAVIGATING_TO_START"
           /\ SendFollowPathGoal(StartLeg(Answered(g)), 0)
           /\ UNCHANGED retry_timer
  <2>1. ~retry_timer["follow"] /\ error_reason # NavigateGivenUp
    BY <1>5 DEF OrderInv, NavigateOK, RetryInv
  <2>. QED  BY <1>5, <2>1, EnterLeg, Homes DEF SendFollowPathGoal
<1>. QED  BY <1>3, <1>4, <1>5
       DEF NavigateRejected, Rejected, NavigateResult, ScheduleNavigateRetry

LEMMA FollowPathRetry ==
  ASSUME TypeOK, TypeOK', Inv, OrderInv, RetryInv, NEW g \in GoalIds,
         FollowPathRejected(g) \/ FollowPathResult(g)
  PROVE  RetryInv'
<1>1. CASE ScheduleRetry("follow") /\ UNCHANGED attempts
  BY <1>1, CountStep, Homes
<1>2. CASE UNCHANGED <<missionVars, retryVars, attempts>>
  BY <1>2 DEF missionVars, retryVars, RetryInv, Counted, NavigateCounted
<1>3. CASE /\ state = "MOWING" /\ UNCHANGED retry_timer
           /\ AdvanceToNextSegment(Answered(g), [retry_count EXCEPT !["follow"] = 0])
  <2>1. /\ ~retry_timer'["navigate"] /\ ~retry_timer'["dock"]
        /\ error_reason # NavigateGivenUp
    BY <1>3, NoDockOnPath DEF OrderInv, MowOK, RetryInv
  <2>2. CASE SendDockGoal(StartLeg(Answered(g)), 0)
    BY <2>1, <2>2, EnterLeg, Homes DEF SendDockGoal
  <2>3. CASE /\ SendNavigateToStartGoal(StartLeg(Answered(g)), pending_path', 0)
             /\ retry_count' = [[retry_count EXCEPT !["follow"] = 0]
                                  EXCEPT !["navigate"] = 0]
    <3>1. retry_count'["navigate"] = 0
      BY <2>3, Homes DEF TypeOK
    <3>. QED  BY <2>1, <2>3, <3>1, EnterLeg, Homes DEF SendNavigateToStartGoal
  <2>. QED  BY <1>3, <2>2, <2>3 DEF AdvanceToNextSegment
<1>. QED  BY <1>1, <1>2, <1>3
       DEF FollowPathRejected, Rejected, FollowPathResult,
           ScheduleFollowPathRetry

LEMMA DockRetry ==
  ASSUME TypeOK, Inv, RetryInv, NEW g \in GoalIds,
         DockRejected(g) \/ DockResult(g)
  PROVE  RetryInv'
<1>1. CASE ScheduleRetry("dock") /\ UNCHANGED attempts
  BY <1>1, CountStep, Homes
<1>2. CASE DockResult(g) /\ state' = "CHARGING" /\ UNCHANGED error_reason
  <2>1. state = "RETURNING_TO_DOCK"
    BY <1>2 DEF DockResult, ResultOf, Awaits, Inv, OneDockGoal, GoalsOf
  <2>. QED  BY <1>2, <2>1, RestStep DEF DockResult, RetryInv
<1>. QED  BY <1>1, <1>2 DEF DockRejected, Rejected, DockResult, ScheduleDockRetry

LEMMA TimerRetry ==
  ASSUME TypeOK, RetryInv,
         NavigateRetryTimer \/ FollowPathRetryTimer \/ DockRetryTimer
  PROVE  RetryInv'
<1>1. PICK a \in Actions :
        /\ Fires(a)
        /\ state = HomeState(a) => \E seg :
             \/ ServerAvailable(goals, a, seg, attempts)
             \/ ServerUnavailable(goals, a, attempts)
  BY Homes DEF NavigateRetryTimer, FollowPathRetryTimer, DockRetryTimer,
               SendNavigateToStartGoal, SendFollowPathGoal, SendDockGoal
<1>2. retry_timer[a] /\ Disarm(a) /\ UNCHANGED retry_count
  BY <1>1 DEF Fires
<1>3. CASE state = HomeState(a)
  BY <1>1, <1>2, <1>3, Resend
<1>4. CASE state # HomeState(a)
  <2>1. UNCHANGED <<state, error_reason, attempts>>
    BY <1>1, <1>4 DEF Fires, missionVars, goalVars
  <2>2. \A b \in Actions \ {a} : retry_timer'[b] = retry_timer[b]
    BY <1>2 DEF Disarm, TypeOK
  <2>. QED  BY <1>2, <1>4, <2>1, <2>2, Homes
         DEF RetryInv, Counted, NavigateCounted
<1>. QED  BY <1>3, <1>4

LEMMA NextRetry ==
  ASSUME TypeInv, TypeOK', Inv, OrderInv, RetryInv, [Next]_vars
  PROVE  RetryInv'
<1>. TypeOK
  BY DEF TypeInv
<1>1. CASE UNCHANGED <<missionVars, retryVars, attempts>>
  BY <1>1 DEF missionVars, retryVars, RetryInv, Counted, NavigateCounted
<1>2. CASE \/ UNCHANGED vars \/ BatteryCallback \/ TickRequestingCoverage
           \/ \E g \in GoalIds : \/ AcceptGoal(g) \/ RejectGoal(g)
                                 \/ EndGoal(g) \/ LoseGoal(g)
           \/ LoseCoverageRequest
  BY <1>1, <1>2
     DEF vars, goalVars, BatteryCallback, TickRequestingCoverage, AcceptGoal,
         RejectGoal, EndGoal, LoseGoal, LoseCoverageRequest, nodeUnchanged
<1>3. CASE HandleStartService \/ Tick
  BY <1>2, <1>3, StartRetry, TurnBackRetry DEF Tick
<1>4. CASE \E g \in GoalIds : HandleAnswer(g)
  BY <1>4, NavigateRetry, FollowPathRetry, DockRetry DEF HandleAnswer
<1>. QED  BY <1>2, <1>3, <1>4, CoverageRetry, TimerRetry DEF Next

----------------------------------------------------------------------------
(* The theorem.                                                            *)

\* When missions do not overlap no leg sends more than 1 + kMaxActionRetries
\* goals, and navigation gives up after exactly that many
\* (mission_manager_node.cpp:455).
THEOREM RetriesAreCapped ==
  ASSUME ~LateResults
  PROVE  Spec => []RetryCap
<1>1. Init => RetryInv
  BY ConstantsAssumption, Homes DEF Init, RetryInv, NavigateGivenUp
<1>2. AllInv /\ AllInv' /\ RetryInv /\ [Next]_vars => RetryInv'
  BY NextRetry DEF AllInv, TypeInv
<1>3. RetryInv => RetryCap
  BY DEF RetryInv, RetryCap, NavigateGivenUp
<1>. QED  BY AllInvAlways, <1>1, <1>2, <1>3, PTL DEF Spec

----------------------------------------------------------------------------
(***************************************************************************)
(* Why a mission comes to an end.  MowingEnds and DockingEnds are liveness *)
(* properties and stay with TLC, on two segments and three retries; what   *)
(* they say beyond fairness is proved here for any number of both: three   *)
(* quantities, compared in this order, fall at every move of the goal or   *)
(* the timer the mission waits for, and no other step raises them.         *)
(***************************************************************************)

\* The legs still to come: two for each segment, driving to it and mowing it.
LegsLeft == IF state = "RETURNING_TO_DOCK" THEN 0
            ELSE 2 * (path_segments - current_segment_index)
                   + (IF state = "NAVIGATING_TO_START" THEN 1 ELSE 0)
\* The failures the leg may still meet.
RetriesLeft(a) == kMaxActionRetries + 1 - retry_count[a]
\* What the present attempt still has before it: the 3 s of the timer, to be
\* accepted, to end, to be answered.
Waits(gs, a, s) == \E g \in GoalIds : gs[g].action = a /\ gs[g].status = s
Stage(gs, a) == IF Waits(gs, a, "requested") THEN 3
                ELSE IF Waits(gs, a, "executing") THEN 2
                ELSE IF NoneOut(gs, a) THEN 0 ELSE 1
StepsLeft(a) == IF retry_timer[a] THEN 4 ELSE Stage(goals, a)

Lowers(a) == \/ LegsLeft' < LegsLeft
             \/ /\ state' = state /\ LegsLeft' = LegsLeft
                /\ \/ RetriesLeft(a)' < RetriesLeft(a)
                   \/ /\ RetriesLeft(a)' = RetriesLeft(a)
                      /\ StepsLeft(a)' < StepsLeft(a)
Keeps(a) == /\ state' = state /\ LegsLeft' = LegsLeft
            /\ RetriesLeft(a)' = RetriesLeft(a)
            /\ StepsLeft(a)' = StepsLeft(a)

\* A move of what the mission waits for in the state of a.
Advances(a) ==
  \/ \E g \in GoalsOf(a) : \/ HandleAnswer(g) \/ AcceptGoal(g) \/ RejectGoal(g)
                           \/ EndGoal(g) \/ LoseGoal(g)
  \/ retry_timer[a] /\ ~retry_timer'[a]

RankIsBounded ==
  \A a \in Actions : state = HomeState(a) =>
    /\ LegsLeft \in 0..(2 * MaxSegments + 1)
    /\ RetriesLeft(a) \in 0..(kMaxActionRetries + 1)
    /\ StepsLeft(a) \in 0..4
RunsDown ==
  \A a \in Actions : state = HomeState(a) /\ state' \in Driving =>
    /\ Advances(a) => Lowers(a)
    /\ Lowers(a) \/ Keeps(a)

LEMMA StageOfNone ==
  ASSUME NEW gs, NEW a, NoneOut(gs, a)
  PROVE  Stage(gs, a) = 0
  BY DEF NoneOut, Stage, Waits

LEMMA StageOfOne ==
  ASSUME NEW gs, NEW a, NEW g \in GoalIds, gs[g].action = a, AtMostOne(gs, a)
  PROVE  Stage(gs, a) = IF gs[g].status = "requested" THEN 3
                        ELSE IF gs[g].status = "executing" THEN 2 ELSE 1
<1>1. \A s : Waits(gs, a, s) <=> gs[g].status = s
  BY DEF Waits, AtMostOne
<1>2. ~NoneOut(gs, a)
  BY DEF NoneOut
<1>. QED  BY <1>1, <1>2 DEF Stage

LEMMA StageKept ==
  ASSUME NEW a, \A g \in GoalIds : /\ goals'[g].action = a <=> goals[g].action = a
                                   /\ goals[g].action = a
                                        => goals'[g].status = goals[g].status
  PROVE  Stage(goals', a) = Stage(goals, a)
<1>1. \A s : Waits(goals', a, s) <=> Waits(goals, a, s)
  BY DEF Waits
<1>2. NoneOut(goals', a) <=> NoneOut(goals, a)
  BY DEF NoneOut
<1>. QED  BY <1>1, <1>2 DEF Stage

\* In the home state of a, one goal of a is out at most, and none beside an
\* armed timer.
LEMMA HomeLeg ==
  ASSUME TypeOK, Inv, OrderInv, NEW a \in Actions, state = HomeState(a)
  PROVE  /\ AtMostOne(goals, a)
         /\ retry_timer[a] => NoneOut(goals, a)
<1>1. CASE a = "navigate"
  BY <1>1, Homes DEF OrderInv, NavigateOK, LegOK
<1>2. CASE a = "follow"
  BY <1>2, Homes DEF OrderInv, MowOK, LegOK
<1>3. CASE a = "dock"
  BY <1>3, GoalsOfNone DEF Inv, OneDockGoal, AtMostOne, GoalsOf, NoneOut
<1>. QED  BY <1>1, <1>2, <1>3, Homes

\* The state and the path decide the legs left.
LEMMA SameLegs ==
  ASSUME UNCHANGED <<state, path_segments, current_segment_index>>
  PROVE  LegsLeft' = LegsLeft
  BY DEF LegsLeft

\* Nothing of a moves.
LEMMA NothingAdvances ==
  ASSUME NEW a \in Actions,
         UNCHANGED <<state, path_segments, current_segment_index>>,
         retry_count'[a] = retry_count[a], retry_timer'[a] = retry_timer[a],
         Stage(goals', a) = Stage(goals, a)
  PROVE  Keeps(a)
  BY SameLegs DEF Keeps, RetriesLeft, StepsLeft

----------------------------------------------------------------------------
(* The moves of the goal the mission waits for.                            *)

LEMMA ServerLowers ==
  ASSUME TypeOK, Inv, OrderInv, NEW a \in Actions, state = HomeState(a),
         NEW g \in GoalIds, goals[g].action = a,
         \/ AcceptGoal(g) \/ RejectGoal(g) \/ EndGoal(g) \/ LoseGoal(g)
  PROVE  Lowers(a)
<1>1. /\ UNCHANGED <<state, path_segments, current_segment_index>>
      /\ UNCHANGED <<retry_count, retry_timer>>
  BY DEF AcceptGoal, RejectGoal, EndGoal, LoseGoal, nodeUnchanged, missionVars,
         pathVars, retryVars
<1>2. AtMostOne(goals, a) /\ ~retry_timer[a]
  BY HomeLeg DEF NoneOut
<1>3. Stage(goals, a) = IF goals[g].status = "requested" THEN 3
                        ELSE IF goals[g].status = "executing" THEN 2 ELSE 1
  BY <1>2, StageOfOne
<1>4. Stage(goals', a) < Stage(goals, a)
  <2>1. CASE AcceptGoal(g) \/ RejectGoal(g) \/ EndGoal(g)
    <3>1. /\ goals'[g].action = a
          /\ \/ /\ goals[g].status = "requested"
                /\ goals'[g].status \in {"executing", "rejected"}
             \/ /\ goals[g].status = "executing"
                /\ goals'[g].status \notin {"requested", "executing"}
      BY <2>1 DEF AcceptGoal, RejectGoal, EndGoal, TypeOK, GoalMaps, Goal,
                  NoGoal, Failures
    <3>2. AtMostOne(goals', a)
      BY <1>2, <2>1, ServerStepGoals DEF TypeOK
    <3>3. Stage(goals', a) = IF goals'[g].status = "requested" THEN 3
                             ELSE IF goals'[g].status = "executing" THEN 2
                                  ELSE 1
      BY <3>1, <3>2, StageOfOne
    <3>. QED  BY <1>3, <3>1, <3>3
  <2>2. CASE LoseGoal(g)
    <3>1. NoneOut(goals', a)
      BY <1>2, <2>2 DEF LoseGoal, NoneOut, AtMostOne, TypeOK, GoalMaps, NoGoal,
                        Actions
    <3>. QED  BY <1>3, <3>1, StageOfNone
  <2>. QED  BY <2>1, <2>2
<1>. QED  BY <1>1, <1>2, <1>4, SameLegs DEF Lowers, RetriesLeft, StepsLeft

\* A failure of the leg uses up one of its retries, or ends the mission.
LEMMA FailureLowers ==
  ASSUME TypeOK, NEW a \in Actions, state = HomeState(a), ScheduleRetry(a),
         UNCHANGED pathVars, state' \in Driving
  PROVE  Lowers(a)
<1>1. CountFailure(a) /\ ~GiveUp(a) /\ UNCHANGED missionVars
  BY DEF ScheduleRetry, EnterError, Driving
<1>2. kMaxActionRetries \in Nat /\ retry_count[a] \in Nat
  BY ConstantsAssumption DEF TypeOK
<1>3. retry_count'[a] = retry_count[a] + 1
  <2>1. ~(retry_count[a] > kMaxActionRetries)
    BY <1>1, <1>2 DEF GiveUp
  <2>. QED  BY <1>1, <2>1 DEF CountFailure, TypeOK
<1>4. LegsLeft' = LegsLeft
  BY <1>1, SameLegs DEF missionVars, pathVars
<1>5. RetriesLeft(a)' < RetriesLeft(a)
  BY <1>2, <1>3 DEF RetriesLeft
<1>. QED  BY <1>1, <1>4, <1>5 DEF Lowers, missionVars

LEMMA AnswerLowers ==
  ASSUME TypeInv, Inv, NEW a \in Actions, state = HomeState(a),
         NEW g \in GoalIds, goals[g].action = a, HandleAnswer(g),
         state' \in Driving
  PROVE  Lowers(a)
<1>. TypeOK /\ IndexOK
  BY DEF TypeInv
<1>1. ASSUME Rejected(g, a)
      PROVE  Lowers(a)
  BY <1>1, FailureLowers DEF Rejected
<1>2. CASE NavigateResult(g)
  <2>1. a = "navigate" /\ state = "NAVIGATING_TO_START" /\ UNCHANGED pathVars
    BY <1>2, Homes DEF NavigateResult, ResultOf, Awaits
  <2>2. CASE SendFollowPathGoal(StartLeg(Answered(g)), 0)
    <3>1. state' = "MOWING"
      BY <2>2, Homes DEF SendFollowPathGoal, ServerAvailable,
                         ServerUnavailable, EnterError, Driving
    <3>2. path_segments \in Nat /\ current_segment_index \in Nat
      BY DEF TypeOK
    <3>. QED  BY <2>1, <3>1, <3>2 DEF Lowers, LegsLeft, pathVars
  <2>3. CASE ScheduleRetry("navigate")
    BY <2>1, <2>3, FailureLowers
  <2>. QED
    BY <1>2, <2>1, <2>2, <2>3 DEF NavigateResult, ScheduleNavigateRetry
<1>3. CASE FollowPathResult(g)
  <2>1. a = "follow" /\ state = "MOWING"
    BY <1>3, Homes DEF FollowPathResult, ResultOf, Awaits
  <2>2. ASSUME NEW counts, AdvanceToNextSegment(Answered(g), counts),
               UNCHANGED path_segments
        PROVE  Lowers(a)
    <3>1. state' \in {"NAVIGATING_TO_START", "RETURNING_TO_DOCK"}
      BY <2>2, Homes
      DEF AdvanceToNextSegment, SendDockGoal, SendNavigateToStartGoal,
          ServerAvailable, ServerUnavailable, EnterError, Driving
    <3>2. /\ path_segments \in Nat /\ current_segment_index \in Nat
          /\ current_segment_index < path_segments
          /\ current_segment_index' = current_segment_index + 1
      BY <2>1, <2>2 DEF TypeOK, IndexOK, AdvanceToNextSegment
    <3>. QED  BY <2>1, <2>2, <3>1, <3>2 DEF Lowers, LegsLeft
  <2>3. CASE UNCHANGED pathVars /\ ScheduleRetry("follow")
    BY <2>1, <2>3, FailureLowers
  <2>. QED
    BY <1>3, <2>1, <2>2, <2>3 DEF FollowPathResult, ScheduleFollowPathRetry
<1>4. CASE DockResult(g)
  <2>1. a = "dock" /\ UNCHANGED pathVars /\ state' # "CHARGING"
    BY <1>4 DEF DockResult, ResultOf, Awaits, Driving
  <2>. QED
    BY <1>4, <2>1, FailureLowers DEF DockResult, ScheduleDockRetry
<1>. QED
  BY <1>1, <1>2, <1>3, <1>4
  DEF HandleAnswer, NavigateRejected, FollowPathRejected, DockRejected,
      Rejected, Awaits

----------------------------------------------------------------------------
(* The steps of everybody else.                                            *)

\* An answer to a goal of another action is not looked at.
LEMMA OtherAnswerKeeps ==
  ASSUME TypeOK, Inv, NEW a \in Actions, state = HomeState(a),
         NEW g \in GoalIds, goals[g].action # a, HandleAnswer(g)
  PROVE  Keeps(a)
<1>1. PICK b \in Actions \ {a} :
        /\ goals[g].action = b
        /\ \/ Rejected(g, b)
           \/ b = "navigate" /\ NavigateResult(g)
           \/ b = "follow" /\ FollowPathResult(g)
           \/ b = "dock" /\ DockResult(g)
  BY DEF HandleAnswer, NavigateRejected, FollowPathRejected, DockRejected,
         NavigateResult, FollowPathResult, DockResult, ResultOf, Rejected,
         Awaits, Actions
<1>2. state # HomeState(b)
  BY <1>1, Homes
<1>3. b # "dock" \/ ~DockResult(g)
  BY <1>1, <1>2, Homes DEF Inv, OneDockGoal, GoalsOf
<1>4. /\ goals' = Answered(g) /\ UNCHANGED <<missionVars, retryVars>>
      /\ UNCHANGED <<path_segments, current_segment_index>>
  BY <1>1, <1>2, <1>3, Homes
  DEF Rejected, ScheduleRetry, NavigateResult, FollowPathResult, pathVars
<1>5. Stage(goals', a) = Stage(goals, a)
  <2>1. \A h \in GoalIds \ {g} : goals'[h] = goals[h]
    BY <1>4 DEF Answered, TypeOK, GoalMaps
  <2>2. goals'[g].action # a
    BY <1>4 DEF Answered, TypeOK, GoalMaps, NoGoal, Actions
  <2>. QED  BY <2>1, <2>2, StageKept
<1>. QED
  BY <1>4, <1>5, NothingAdvances DEF missionVars, retryVars

\* A server touches no goal of an action but its own.
LEMMA OtherServerKeeps ==
  ASSUME TypeOK, NEW a \in Actions, NEW g \in GoalIds, goals[g].action # a,
         \/ AcceptGoal(g) \/ RejectGoal(g) \/ EndGoal(g) \/ LoseGoal(g)
  PROVE  Keeps(a)
<1>1. /\ UNCHANGED <<state, path_segments, current_segment_index>>
      /\ UNCHANGED <<retry_count, retry_timer>>
  BY DEF AcceptGoal, RejectGoal, EndGoal, LoseGoal, nodeUnchanged, missionVars,
         pathVars, retryVars
<1>2. \A h \in GoalIds : /\ goals'[h].action = a <=> goals[h].action = a
                         /\ goals[h].action = a
                              => goals'[h].status = goals[h].status
  <2>1. CASE AcceptGoal(g) \/ RejectGoal(g) \/ EndGoal(g)
    BY <2>1 DEF AcceptGoal, RejectGoal, EndGoal, Preempts, TypeOK, GoalMaps,
                Goal, NoGoal
  <2>2. CASE LoseGoal(g)
    BY <2>2 DEF LoseGoal, TypeOK, GoalMaps, NoGoal, Actions
  <2>. QED  BY <2>1, <2>2
<1>. QED  BY <1>1, <1>2, StageKept, NothingAdvances

\* The timer of a sends the goal of a again; the others do nothing.
LEMMA TimerRuns ==
  ASSUME TypeOK, Inv, OrderInv, NEW a \in Actions, state = HomeState(a),
         NavigateRetryTimer \/ FollowPathRetryTimer \/ DockRetryTimer,
         state' \in Driving
  PROVE  Lowers(a) \/ Keeps(a)
<1>1. ASSUME NEW b \in Actions, b # a, Fires(b)
      PROVE  Keeps(a)
  <2>1. state # HomeState(b)
    BY <1>1, Homes
  <2>2. /\ UNCHANGED <<missionVars, goalVars, pathVars, retry_count>>
        /\ retry_timer'[a] = retry_timer[a]
    BY <1>1, <2>1 DEF Fires, Disarm, TypeOK
  <2>. QED
    BY <2>2, NothingAdvances DEF missionVars, goalVars, pathVars
<1>2. ASSUME Fires(a), NEW seg,
             \/ ServerAvailable(goals, a, seg, attempts)
             \/ ServerUnavailable(goals, a, attempts)
      PROVE  Lowers(a)
  <2>1. ServerAvailable(goals, a, seg, attempts)
    BY <1>2 DEF ServerUnavailable, EnterError, Driving
  <2>2. /\ retry_timer[a] /\ ~retry_timer'[a] /\ state' = state
        /\ UNCHANGED <<path_segments, current_segment_index, retry_count>>
    BY <1>2, <2>1 DEF Fires, Disarm, ServerAvailable, TypeOK, pathVars
  <2>3. Stage(goals', a) \in 0..3
    BY DEF Stage
  <2>. QED
    BY <2>2, <2>3, SameLegs DEF Lowers, RetriesLeft, StepsLeft
<1>3. CASE NavigateRetryTimer
  BY <1>1, <1>2, <1>3, Homes DEF NavigateRetryTimer, SendNavigateToStartGoal
<1>4. CASE FollowPathRetryTimer
  BY <1>1, <1>2, <1>4, Homes DEF FollowPathRetryTimer, SendFollowPathGoal
<1>5. CASE DockRetryTimer
  BY <1>1, <1>2, <1>5, Homes DEF DockRetryTimer, SendDockGoal
<1>. QED  BY <1>3, <1>4, <1>5

\* A low battery cuts the legs of the path short.
LEMMA CallbackRuns ==
  ASSUME TypeInv, Inv, NEW a \in Actions, state = HomeState(a),
         \/ HandleStartService \/ BatteryCallback \/ Tick
         \/ CoverageResponse \/ LoseCoverageRequest,
         state' \in Driving
  PROVE  Lowers(a) \/ Keeps(a)
<1>. TypeOK /\ IndexOK
  BY DEF TypeInv
<1>1. CASE TickNavigatingToStart \/ TickMowing
  <2>1. /\ state \in {"NAVIGATING_TO_START", "MOWING"} /\ UNCHANGED pathVars
        /\ state' = "RETURNING_TO_DOCK"
    BY <1>1, Homes DEF TickNavigatingToStart, TickMowing, SendDockGoal,
       ServerAvailable, ServerUnavailable, EnterError, Driving
  <2>2. /\ path_segments \in Nat /\ current_segment_index \in Nat
        /\ current_segment_index < path_segments
    BY <2>1 DEF TypeOK, IndexOK
  <2>. QED  BY <2>1, <2>2 DEF Lowers, LegsLeft
<1>2. CASE BatteryCallback \/ LoseCoverageRequest
  <2>1. /\ UNCHANGED <<state, path_segments, current_segment_index>>
        /\ UNCHANGED <<retry_count, retry_timer, goals>>
    BY <1>2 DEF BatteryCallback, LoseCoverageRequest, nodeUnchanged,
       missionVars, pathVars, retryVars, goalVars
  <2>. QED  BY <2>1, NothingAdvances
<1>3. CASE \/ HandleStartService \/ CoverageResponse
           \/ TickIdle \/ TickRequestingCoverage \/ TickCharging
  <2>1. state \in {"IDLE", "ERROR", "REQUESTING_COVERAGE", "CHARGING"}
    BY <1>3 DEF HandleStartService, CoverageResponse, TickIdle,
       TickRequestingCoverage, TickCharging, Inv, CoverageOnlyWhileRequesting,
       TypeOK
  <2>. QED  BY <2>1, Homes
<1>. QED  BY <1>1, <1>2, <1>3 DEF Tick

LEMMA NextRunsDown == AllInv /\ [Next]_vars => RunsDown
<1> SUFFICES ASSUME TypeInv, Inv, OrderInv, [Next]_vars,
                    NEW a \in Actions, state = HomeState(a), state' \in Driving
             PROVE  /\ Advances(a) => Lowers(a)
                    /\ Lowers(a) \/ Keeps(a)
  BY DEF AllInv, RunsDown
<1>. TypeOK
  BY DEF TypeInv
<1>1. Lowers(a) \/ Keeps(a)
  <2>1. CASE UNCHANGED vars
    <3>1. /\ UNCHANGED <<state, path_segments, current_segment_index>>
          /\ UNCHANGED <<retry_count, retry_timer, goals>>
      BY <2>1 DEF vars, missionVars, pathVars, retryVars, goalVars
    <3>. QED  BY <3>1, NothingAdvances
  <2>2. ASSUME NEW g \in GoalIds, \/ HandleAnswer(g) \/ AcceptGoal(g)
                                  \/ RejectGoal(g) \/ EndGoal(g) \/ LoseGoal(g)
        PROVE  Lowers(a) \/ Keeps(a)
    BY <2>2, ServerLowers, AnswerLowers, OtherAnswerKeeps, OtherServerKeeps
  <2>. QED  BY <2>1, <2>2, TimerRuns, CallbackRuns DEF Next
<1>2. ASSUME Advances(a) PROVE Lowers(a)
  <2>1. CASE \E g \in GoalsOf(a) : \/ HandleAnswer(g) \/ AcceptGoal(g)
                                   \/ RejectGoal(g) \/ EndGoal(g) \/ LoseGoal(g)
    BY <2>1, ServerLowers, AnswerLowers DEF GoalsOf
  <2>2. CASE retry_timer[a] /\ ~retry_timer'[a]
    <3>1. StepsLeft(a) = 4 /\ StepsLeft(a)' \in 0..3
      BY <2>2 DEF StepsLeft, Stage
    <3>. QED  BY <1>1, <3>1 DEF Keeps
  <2>. QED  BY <1>2, <2>1, <2>2 DEF Advances
<1>. QED  BY <1>1, <1>2

LEMMA RankBounds == AllInv => RankIsBounded
<1> SUFFICES ASSUME TypeInv, NEW a \in Actions, state = HomeState(a)
             PROVE  /\ LegsLeft \in 0..(2 * MaxSegments + 1)
                    /\ RetriesLeft(a) \in 0..(kMaxActionRetries + 1)
                    /\ StepsLeft(a) \in 0..4
  BY DEF AllInv, RankIsBounded
<1>1. /\ path_segments \in 0..MaxSegments /\ current_segment_index \in Nat
      /\ state # "RETURNING_TO_DOCK" => current_segment_index < path_segments
      /\ MaxSegments \in Nat
  BY Homes, ConstantsAssumption DEF TypeInv, TypeOK, IndexOK
<1>2. retry_count[a] \in 0..(kMaxActionRetries + 1) /\ kMaxActionRetries \in Nat
  BY ConstantsAssumption DEF TypeInv, TypeOK
<1>3. LegsLeft \in 0..(2 * MaxSegments + 1)
  BY <1>1 DEF LegsLeft
<1>4. RetriesLeft(a) \in 0..(kMaxActionRetries + 1)
  BY <1>2 DEF RetriesLeft
<1>5. StepsLeft(a) \in 0..4
  BY DEF StepsLeft, Stage
<1>. QED  BY <1>3, <1>4, <1>5

\* Why MowingEnds and DockingEnds hold: between planning and the dock every
\* move of what the mission waits for, server deaths included, brings it
\* nearer to its end, and nothing takes it back: a path of n segments is over
\* after a bounded number of such moves, whatever n and kMaxActionRetries
\* (mission_manager_node.cpp:380 the segments, :455, :520 and :585 the failures).
THEOREM MissionRunsDown ==
  ASSUME ~LateResults
  PROVE  Spec => []RankIsBounded /\ [][RunsDown]_vars
<1>1. AllInv => RankIsBounded
  BY RankBounds
<1>2. AllInv /\ [Next]_vars => [RunsDown]_vars
  BY NextRunsDown
<1>. QED  BY AllInvAlways, <1>1, <1>2, PTL DEF Spec

=============================================================================
