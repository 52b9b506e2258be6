------------------------ MODULE MissionManagerProofs ------------------------
(***************************************************************************)
(* Theorems about MissionManager, for every value of its constants.        *)
(***************************************************************************)
EXTENDS MissionManager, TLAPS

----------------------------------------------------------------------------
(* The operators on goals.                                                 *)

USE DEF Goal, NoGoal, Actions, GoalStatus, Failures

LEMMA CancelAllType ==
  ASSUME NEW gs \in GoalMaps, NEW a \in Actions
  PROVE  CancelAll(gs, a) \in GoalMaps
<1> SUFFICES ASSUME NEW g \in GoalIds
             PROVE  CancelAll(gs, a)[g] \in Goal \cup {NoGoal}
  BY DEF GoalMaps, CancelAll
<1>1. CASE gs[g] \in Goal
  <2>1. [gs[g] EXCEPT !.cancel = TRUE] \in Goal
    BY <1>1
  <2>. QED  BY <1>1, <2>1 DEF CancelAll
<1>2. CASE gs[g] = NoGoal
  BY <1>2 DEF CancelAll
<1>. QED  BY <1>1, <1>2 DEF GoalMaps

LEMMA StartLegType ==
  ASSUME NEW gs \in GoalMaps
  PROVE  StartLeg(gs) \in GoalMaps
<1> SUFFICES ASSUME NEW g \in GoalIds
             PROVE  StartLeg(gs)[g] \in Goal \cup {NoGoal}
  BY DEF GoalMaps, StartLeg
<1>1. CASE gs[g] \in Goal
  BY <1>1 DEF StartLeg
<1>2. CASE gs[g] = NoGoal
  BY <1>2 DEF StartLeg
<1>. QED  BY <1>1, <1>2 DEF GoalMaps

LEMMA AnsweredType ==
  ASSUME goals \in GoalMaps, NEW g \in GoalIds
  PROVE  Answered(g) \in GoalMaps
  BY DEF GoalMaps, Answered

LEMMA NewGoalType ==
  ASSUME NEW gs \in GoalMaps, NEW g \in GoalIds, NEW a \in Actions,
         NEW seg \in 0..MaxSegments
  PROVE  [gs EXCEPT ![g] = NewGoal(a, seg)] \in GoalMaps
  BY DEF GoalMaps, NewGoal

LEMMA CancelAllAction ==
  ASSUME NEW gs \in GoalMaps, NEW a \in Actions, NEW g \in GoalIds
  PROVE  /\ CancelAll(gs, a)[g].action = gs[g].action
         /\ CancelAll(gs, a)[g].segment = gs[g].segment
         /\ CancelAll(gs, a)[g].status = gs[g].status
         /\ CancelAll(gs, a)[g].stale = gs[g].stale
  BY DEF GoalMaps, CancelAll, AtServer

LEMMA StartLegAction ==
  ASSUME NEW gs \in GoalMaps, NEW g \in GoalIds
  PROVE  /\ StartLeg(gs)[g].action = gs[g].action
         /\ StartLeg(gs)[g].segment = gs[g].segment
         /\ StartLeg(gs)[g].status = gs[g].status
  BY DEF GoalMaps, StartLeg

HIDE DEF Goal, NoGoal, GoalStatus, Failures

----------------------------------------------------------------------------
(* What sending and retrying do to the types.                              *)

MissionTypeOK == /\ state \in MissionStates \cup {Crashed}
                 /\ error_reason \in ErrorReasons

LEMMA SendType ==
  ASSUME TypeOK, NEW gs \in GoalMaps, NEW a \in Actions,
         NEW seg \in 0..MaxSegments, NEW n \in Nat,
         ServerAvailable(gs, a, seg, n) \/ ServerUnavailable(gs, a, n)
  PROVE  /\ goals' \in GoalMaps /\ attempts' \in Nat
         /\ MissionTypeOK'
         /\ state' \in {HomeState(a), "ERROR"}
<1>1. CASE ServerAvailable(gs, a, seg, n)
  <2>1. PICK g \in GoalIds : goals' = [gs EXCEPT ![g] = NewGoal(a, seg)]
    BY <1>1 DEF ServerAvailable
  <2>. goals' \in GoalMaps
    BY <2>1, NewGoalType
  <2>2. HomeState(a) \in MissionStates
    BY DEF HomeState, MissionStates
  <2>3. /\ state' = HomeState(a) /\ error_reason' = error_reason
        /\ attempts' \in Nat
    BY <1>1, ConstantsAssumption DEF ServerAvailable, OneMore
  <2>. QED
    BY <2>2, <2>3 DEF TypeOK, MissionTypeOK
<1>2. CASE ServerUnavailable(gs, a, n)
  <2>1. <<"unavailable", a>> \in ErrorReasons
    BY DEF ErrorReasons
  <2>. QED
    BY <1>2, <2>1 DEF ServerUnavailable, EnterError, MissionTypeOK,
                      MissionStates
<1>. QED  BY <1>1, <1>2

LEMMA SendNavigateType ==
  ASSUME TypeOK, NEW gs \in GoalMaps, NEW seg \in 0..MaxSegments, NEW n \in Nat,
         SendNavigateToStartGoal(gs, seg, n)
  PROVE  /\ goals' \in GoalMaps /\ attempts' \in Nat
         /\ MissionTypeOK'
         /\ state' \in {"NAVIGATING_TO_START", "ERROR"}
         /\ dock_goal_active' \in BOOLEAN
  BY SendType, HomeState("navigate") = "NAVIGATING_TO_START"
  DEF SendNavigateToStartGoal, HomeState, TypeOK

LEMMA SendFollowPathType ==
  ASSUME TypeOK, NEW gs \in GoalMaps, NEW n \in Nat, SendFollowPathGoal(gs, n)
  PROVE  /\ goals' \in GoalMaps /\ attempts' \in Nat
         /\ MissionTypeOK'
         /\ state' \in {"MOWING", "ERROR"}
         /\ follow_path_goal_active' \in BOOLEAN
         /\ dock_goal_active' \in BOOLEAN
<1>1. pending_path \in 0..MaxSegments
  BY ConstantsAssumption DEF TypeOK
<1>2. HomeState("follow") = "MOWING"
  BY DEF HomeState
<1>. QED
  BY <1>1, <1>2, SendType DEF SendFollowPathGoal, NoteFollowGoal, TypeOK

LEMMA SendDockType ==
  ASSUME TypeOK, NEW gs \in GoalMaps, NEW n \in Nat, SendDockGoal(gs, n)
  PROVE  /\ goals' \in GoalMaps /\ attempts' \in Nat
         /\ MissionTypeOK'
         /\ state' \in {"RETURNING_TO_DOCK", "ERROR"}
         /\ dock_goal_active' \in BOOLEAN
<1>1. 0 \in 0..MaxSegments
  BY ConstantsAssumption
<1>2. HomeState("dock") = "RETURNING_TO_DOCK"
  BY DEF HomeState
<1>. QED
  BY <1>1, <1>2, SendType DEF SendDockGoal, TypeOK

LEMMA ScheduleRetryType ==
  ASSUME TypeOK, NEW a \in Actions, ScheduleRetry(a)
  PROVE  /\ MissionTypeOK'
         /\ state' \in {state, "ERROR"}
         /\ retry_count' \in [Actions -> 0..(kMaxActionRetries + 1)]
         /\ retry_timer' \in [Actions -> BOOLEAN]
<1>1. CASE UNCHANGED <<missionVars, retryVars>>
  BY <1>1 DEF TypeOK, MissionTypeOK, missionVars, retryVars
<1>2. ASSUME CountFailure(a)
      PROVE  retry_count' \in [Actions -> 0..(kMaxActionRetries + 1)]
  BY <1>2, ConstantsAssumption DEF TypeOK, CountFailure
<1>3. CASE CountFailure(a) /\ ArmTimer(a) /\ UNCHANGED missionVars
  BY <1>2, <1>3 DEF TypeOK, MissionTypeOK, ArmTimer, missionVars
<1>4. CASE /\ CountFailure(a) /\ EnterError(<<"repeatedly failed", a>>)
           /\ UNCHANGED retry_timer
  <2>1. <<"repeatedly failed", a>> \in ErrorReasons
    BY DEF ErrorReasons
  <2>. QED
    BY <1>2, <1>4, <2>1 DEF TypeOK, MissionTypeOK, EnterError, MissionStates
<1>. QED  BY <1>1, <1>3, <1>4 DEF ScheduleRetry

LEMMA RequestCoverageType ==
  ASSUME TypeOK, RequestCoveragePath
  PROVE  coverage_in_flight' \in BOOLEAN /\ coverage_requests' \in Nat
<1>1. CASE UNCHANGED coverageVars
  BY <1>1 DEF TypeOK, coverageVars
<1>2. CASE /\ coverage_in_flight' = TRUE
           /\ coverage_requests' = coverage_requests + 1
  BY <1>2 DEF TypeOK
<1>. QED  BY <1>1, <1>2 DEF RequestCoveragePath

----------------------------------------------------------------------------
(* Type correctness.  TypeOK is not inductive: that the next segment's     *)
(* index stays in range rests on the index being behind the last segment   *)
(* whenever the mission drives along the path, although goals and timers   *)
(* of an earlier mission may still be out.                                 *)

IndexOK ==
  state \in {"NAVIGATING_TO_START", "MOWING"} =>
    /\ current_segment_index < path_segments
    /\ pending_path = current_segment_index

TypeInv == TypeOK /\ IndexOK

LEMMA InitTypeInv == Init => TypeInv
<1> SUFFICES ASSUME Init PROVE TypeInv
  OBVIOUS
<1>1. goals \in GoalMaps
  BY DEF Init, GoalMaps
<1>2. error_reason \in ErrorReasons /\ state \in MissionStates \cup {Crashed}
  BY DEF Init, ErrorReasons, MissionStates
<1>3. /\ retry_count \in [Actions -> 0..(kMaxActionRetries + 1)]
      /\ retry_timer \in [Actions -> BOOLEAN]
  BY ConstantsAssumption DEF Init
<1>4. /\ path_segments \in 0..MaxSegments
      /\ current_segment_index \in 0..MaxSegments
      /\ pending_path \in 0..(MaxSegments - 1)
      /\ battery_percent \in Int /\ coverage_requests \in Nat /\ attempts \in Nat
      /\ mowed \subseteq 0..MaxSegments /\ lost \subseteq Lossy
  BY ConstantsAssumption DEF Init
<1>5. /\ coverage_in_flight \in BOOLEAN
      /\ follow_path_goal_active \in BOOLEAN
      /\ dock_goal_active \in BOOLEAN
  BY DEF Init
<1>6. IndexOK
  BY DEF Init, IndexOK
<1>. QED
  BY <1>1, <1>2, <1>3, <1>4, <1>5, <1>6 DEF TypeInv, TypeOK

\* Callbacks that touch neither the path nor the retries.
LEMMA CallbackTypeInv ==
  ASSUME TypeInv, HandleStartService \/ BatteryCallback \/ Tick
  PROVE  TypeInv'
<1>. TypeOK /\ IndexOK
  BY DEF TypeInv
<1>1. CASE HandleStartService
  <2>1. state' \in MissionStates /\ error_reason' \in ErrorReasons
    BY <1>1 DEF HandleStartService, MissionStates, ErrorReasons
  <2>2. coverage_in_flight' \in BOOLEAN /\ coverage_requests' \in Nat
    BY <1>1, RequestCoverageType DEF HandleStartService
  <2>. QED
    BY <1>1, <2>1, <2>2 DEF TypeInv, TypeOK, IndexOK, HandleStartService,
       flagVars, pathVars, retryVars, goalVars
<1>2. CASE BatteryCallback
  BY <1>2, ConstantsAssumption
  DEF TypeInv, TypeOK, IndexOK, BatteryCallback, missionVars, coverageVars,
      flagVars, pathVars, retryVars, goalVars
<1>3. CASE Tick
  <2>. UNCHANGED <<battery_percent, lost>>
    BY <1>3 DEF Tick
  <2>1. CASE TickIdle \/ TickCharging
    <3>. state' = "REQUESTING_COVERAGE" /\ state' \in MissionStates
      BY <2>1 DEF TickIdle, TickCharging, MissionStates
    <3>. QED
      BY <2>1 DEF TypeInv, TypeOK, IndexOK, TickIdle, TickCharging,
         coverageVars, flagVars, pathVars, retryVars, goalVars
  <2>2. CASE TickRequestingCoverage
    <3>. coverage_in_flight' \in BOOLEAN /\ coverage_requests' \in Nat
      BY <2>2, RequestCoverageType DEF TickRequestingCoverage
    <3>. QED
      BY <2>2 DEF TypeInv, TypeOK, IndexOK, TickRequestingCoverage,
         missionVars, flagVars, pathVars, retryVars, goalVars
  <2>3. CASE TickNavigatingToStart
    <3>1. StartLeg(CancelAll(goals, "navigate")) \in GoalMaps
      BY CancelAllType, StartLegType DEF TypeOK
    <3>2. /\ goals' \in GoalMaps /\ attempts' \in Nat /\ MissionTypeOK'
          /\ state' \in {"RETURNING_TO_DOCK", "ERROR"}
          /\ dock_goal_active' \in BOOLEAN
      BY <2>3, <3>1, SendDockType DEF TickNavigatingToStart
    <3>. QED
      BY <2>3, <3>2 DEF TypeInv, TypeOK, MissionTypeOK, IndexOK,
         TickNavigatingToStart, coverageVars, pathVars, retryVars
  <2>4. CASE TickMowing
    <3>. DEFINE gs == IF follow_path_goal_active
                        THEN CancelAll(goals, "follow") ELSE goals
    <3>1. StartLeg(gs) \in GoalMaps
      BY CancelAllType, StartLegType DEF TypeOK
    <3>2. /\ goals' \in GoalMaps /\ attempts' \in Nat /\ MissionTypeOK'
          /\ state' \in {"RETURNING_TO_DOCK", "ERROR"}
          /\ dock_goal_active' \in BOOLEAN
      BY <2>4, <3>1, SendDockType DEF TickMowing
    <3>. QED
      BY <2>4, <3>2 DEF TypeInv, TypeOK, MissionTypeOK, IndexOK,
         TickMowing, coverageVars, pathVars, retryVars
  <2>. QED  BY <1>3, <2>1, <2>2, <2>3, <2>4 DEF Tick
<1>. QED  BY <1>1, <1>2, <1>3

\* The first segment of a new path.
LEMMA PlanPathTypeInv ==
  ASSUME TypeInv, NEW n \in 1..MaxSegments, PlanPath(n),
         coverage_in_flight' \in BOOLEAN, coverage_requests' \in Nat,
         UNCHANGED <<battery_percent, lost>>
  PROVE  TypeInv'
<1>. TypeOK
  BY DEF TypeInv
<1>1. 0 \in 0..MaxSegments /\ 0 \in 0..(MaxSegments - 1)
  BY ConstantsAssumption
<1>2. StartLeg(goals) \in GoalMaps
  BY StartLegType DEF TypeOK
<1>3. /\ goals' \in GoalMaps /\ attempts' \in Nat /\ MissionTypeOK'
      /\ dock_goal_active' \in BOOLEAN
  BY <1>1, <1>2, SendNavigateType DEF PlanPath
<1>4. retry_count' \in [Actions -> 0..(kMaxActionRetries + 1)]
  BY ConstantsAssumption DEF PlanPath, TypeOK
<1>5. /\ path_segments' = n /\ n \in 0..MaxSegments /\ 0 < n
      /\ current_segment_index' = 0 /\ pending_path' = 0 /\ mowed' = {}
  BY ConstantsAssumption DEF PlanPath
<1>. QED
  BY <1>1, <1>3, <1>4, <1>5
  DEF TypeInv, TypeOK, MissionTypeOK, IndexOK, PlanPath

LEMMA CoverageTypeInv ==
  ASSUME TypeInv, CoverageResponse
  PROVE  TypeInv'
<1>. TypeOK /\ IndexOK
  BY DEF TypeInv
<1>0. /\ coverage_requests > 0 /\ coverage_requests' = coverage_requests - 1
      /\ ClearInFlight
      /\ UNCHANGED <<battery_percent, lost>>
  BY DEF CoverageResponse
<1>a. coverage_in_flight' \in BOOLEAN
  BY <1>0, Zenon DEF ClearInFlight
<1>b. coverage_requests' \in Nat
  BY <1>0 DEF TypeOK
<1>1. /\ coverage_in_flight' \in BOOLEAN /\ coverage_requests' \in Nat
      /\ UNCHANGED <<battery_percent, lost>>
  BY <1>0, <1>a, <1>b
<1>2. CASE UNCHANGED <<missionVars, flagVars, pathVars, retryVars, goalVars>>
  BY <1>1, <1>2 DEF TypeInv, TypeOK, IndexOK, missionVars, flagVars, pathVars,
                    retryVars, goalVars
<1>3. CASE /\ path_segments' \in 1..MaxSegments
           /\ EnterError(<<"collapsed", "none">>)
           /\ UNCHANGED <<flagVars, current_segment_index, pending_path, mowed,
                          retryVars, goalVars>>
  <2>. <<"collapsed", "none">> \in ErrorReasons /\ "ERROR" \in MissionStates
    BY DEF ErrorReasons, MissionStates
  <2>. QED
    BY <1>1, <1>3 DEF TypeInv, TypeOK, IndexOK, EnterError, flagVars,
                      retryVars, goalVars
<1>4. CASE /\ path_segments' = 0 /\ current_segment_index' = 0
           /\ state' = Crashed
           /\ UNCHANGED <<error_reason, flagVars, pending_path, mowed,
                          retryVars, goalVars>>
  BY <1>1, <1>4, ConstantsAssumption
  DEF TypeInv, TypeOK, IndexOK, Crashed, flagVars, retryVars, goalVars
<1>5. CASE \E n \in 1..MaxSegments : PlanPath(n)
  BY <1>1, <1>5, PlanPathTypeInv
<1>. QED  BY <1>2, <1>3, <1>4, <1>5 DEF CoverageResponse

\* A rejected goal; the flags are the callers'.
LEMMA RejectedTypeInv ==
  ASSUME TypeInv, NEW g \in GoalIds, NEW a \in Actions, Rejected(g, a),
         follow_path_goal_active' \in BOOLEAN, dock_goal_active' \in BOOLEAN
  PROVE  TypeInv'
<1>. TypeOK /\ IndexOK
  BY DEF TypeInv
<1>1. goals' \in GoalMaps
  BY AnsweredType DEF Rejected, TypeOK
<1>2. /\ MissionTypeOK' /\ state' \in {state, "ERROR"}
      /\ retry_count' \in [Actions -> 0..(kMaxActionRetries + 1)]
      /\ retry_timer' \in [Actions -> BOOLEAN]
  BY ScheduleRetryType DEF Rejected
<1>. QED
  BY <1>1, <1>2 DEF TypeInv, TypeOK, MissionTypeOK, IndexOK, Rejected,
     callbackUnchanged, pathVars, coverageVars

LEMMA NavigateTypeInv ==
  ASSUME TypeInv, NEW g \in GoalIds, NavigateResult(g)
  PROVE  TypeInv'
<1>. TypeOK /\ IndexOK
  BY DEF TypeInv
<1>0. UNCHANGED pathVars /\ callbackUnchanged /\ Answered(g) \in GoalMaps
  BY AnsweredType DEF NavigateResult, TypeOK
<1>1. CASE /\ goals' = Answered(g)
           /\ UNCHANGED <<missionVars, flagVars, retryVars, attempts>>
  BY <1>0, <1>1 DEF TypeInv, TypeOK, IndexOK, callbackUnchanged, pathVars,
                    coverageVars, missionVars, flagVars, retryVars
<1>2. CASE /\ state = "NAVIGATING_TO_START"
           /\ retry_count' = [retry_count EXCEPT !["navigate"] = 0]
           /\ SendFollowPathGoal(StartLeg(Answered(g)), 0)
           /\ UNCHANGED retry_timer
  <2>1. /\ goals' \in GoalMaps /\ attempts' \in Nat /\ MissionTypeOK'
        /\ follow_path_goal_active' \in BOOLEAN /\ dock_goal_active' \in BOOLEAN
    BY <1>0, <1>2, StartLegType, SendFollowPathType
  <2>2. retry_count' \in [Actions -> 0..(kMaxActionRetries + 1)]
    BY <1>2, ConstantsAssumption DEF TypeOK
  <2>. QED
    BY <1>0, <1>2, <2>1, <2>2 DEF TypeInv, TypeOK, MissionTypeOK, IndexOK,
       callbackUnchanged, pathVars, coverageVars
<1>3. CASE /\ goals' = Answered(g) /\ ScheduleNavigateRetry
           /\ UNCHANGED <<flagVars, attempts>>
  <2>1. /\ MissionTypeOK' /\ state' \in {state, "ERROR"}
        /\ retry_count' \in [Actions -> 0..(kMaxActionRetries + 1)]
        /\ retry_timer' \in [Actions -> BOOLEAN]
    BY <1>3, ScheduleRetryType DEF ScheduleNavigateRetry
  <2>. QED
    BY <1>0, <1>3, <2>1 DEF TypeInv, TypeOK, MissionTypeOK, IndexOK,
       callbackUnchanged, pathVars, coverageVars, flagVars
<1>. QED  BY <1>1, <1>2, <1>3 DEF NavigateResult

\* The next segment is sent for only if there is one: IndexOK again.
LEMMA AdvanceType ==
  ASSUME TypeInv, state = "MOWING", NEW gs \in GoalMaps,
         NEW counts \in [Actions -> 0..(kMaxActionRetries + 1)],
         AdvanceToNextSegment(gs, counts), UNCHANGED path_segments
  PROVE  /\ goals' \in GoalMaps /\ attempts' \in Nat /\ MissionTypeOK'
         /\ dock_goal_active' \in BOOLEAN
         /\ current_segment_index' \in 0..MaxSegments
         /\ pending_path' \in 0..(MaxSegments - 1)
         /\ retry_count' \in [Actions -> 0..(kMaxActionRetries + 1)]
         /\ IndexOK'
<1>. DEFINE next == current_segment_index + 1
<1>. TypeOK /\ IndexOK
  BY DEF TypeInv
<1>1. /\ current_segment_index' = next /\ next \in 0..MaxSegments
      /\ StartLeg(gs) \in GoalMaps
  BY StartLegType, ConstantsAssumption DEF AdvanceToNextSegment, TypeOK, IndexOK
<1>2. CASE /\ retry_count' = counts
           /\ SendDockGoal(StartLeg(gs), 0)
           /\ UNCHANGED pending_path
  <2>1. /\ goals' \in GoalMaps /\ attempts' \in Nat /\ MissionTypeOK'
        /\ state' \in {"RETURNING_TO_DOCK", "ERROR"}
        /\ dock_goal_active' \in BOOLEAN
    BY <1>1, <1>2, SendDockType
  <2>. QED
    BY <1>1, <1>2, <2>1 DEF TypeOK, IndexOK
<1>3. CASE /\ ~PastLastSegment(next)
           /\ SetPending(next)
           /\ retry_count' = [counts EXCEPT !["navigate"] = 0]
           /\ SendNavigateToStartGoal(StartLeg(gs), pending_path', 0)
  <2>1. /\ pending_path' = next /\ next < path_segments
        /\ next \in 0..(MaxSegments - 1)
    BY <1>1, <1>3, ConstantsAssumption DEF PastLastSegment, SetPending, TypeOK
  <2>2. /\ goals' \in GoalMaps /\ attempts' \in Nat /\ MissionTypeOK'
        /\ dock_goal_active' \in BOOLEAN
    BY <1>1, <1>3, <2>1, SendNavigateType
  <2>3. retry_count' \in [Actions -> 0..(kMaxActionRetries + 1)]
    BY <1>3, ConstantsAssumption
  <2>. QED
    BY <1>1, <2>1, <2>2, <2>3 DEF IndexOK
<1>. QED  BY <1>1, <1>2, <1>3 DEF AdvanceToNextSegment

LEMMA FollowPathTypeInv ==
  ASSUME TypeInv, NEW g \in GoalIds, FollowPathResult(g)
  PROVE  TypeInv'
<1>. TypeOK /\ IndexOK
  BY DEF TypeInv
<1>0. /\ follow_path_goal_active' \in BOOLEAN /\ callbackUnchanged
      /\ Answered(g) \in GoalMaps
  BY AnsweredType DEF FollowPathResult, TypeOK
<1>1. CASE /\ goals' = Answered(g)
           /\ UNCHANGED <<missionVars, dock_goal_active, pathVars, retryVars,
                          attempts>>
  BY <1>0, <1>1 DEF TypeInv, TypeOK, IndexOK, callbackUnchanged, pathVars,
                    coverageVars, missionVars, retryVars
<1>2. CASE /\ state = "MOWING" /\ goals[g].status = "succeeded"
           /\ AdvanceToNextSegment(Answered(g),
                                   [retry_count EXCEPT !["follow"] = 0])
           /\ mowed' = mowed \cup (IF goals[g].stale THEN {}
                                                     ELSE {goals[g].segment})
           /\ UNCHANGED <<path_segments, retry_timer>>
  <2>1. [retry_count EXCEPT !["follow"] = 0]
          \in [Actions -> 0..(kMaxActionRetries + 1)]
    BY ConstantsAssumption DEF TypeOK
  <2>2. mowed' \subseteq 0..MaxSegments
    <3>. goals[g].segment \in 0..MaxSegments
      BY ConstantsAssumption DEF TypeOK, GoalMaps, Goal, NoGoal
    <3>. QED  BY <1>2 DEF TypeOK
  <2>3. /\ goals' \in GoalMaps /\ attempts' \in Nat /\ MissionTypeOK'
        /\ dock_goal_active' \in BOOLEAN
        /\ current_segment_index' \in 0..MaxSegments
        /\ pending_path' \in 0..(MaxSegments - 1)
        /\ retry_count' \in [Actions -> 0..(kMaxActionRetries + 1)]
        /\ IndexOK'
    BY <1>0, <1>2, <2>1, AdvanceType
  <2>. QED
    BY <1>0, <1>2, <2>2, <2>3 DEF TypeInv, TypeOK, MissionTypeOK,
       callbackUnchanged, coverageVars
<1>3. CASE /\ goals' = Answered(g) /\ ScheduleFollowPathRetry
           /\ UNCHANGED <<dock_goal_active, pathVars, attempts>>
  <2>1. /\ MissionTypeOK' /\ state' \in {state, "ERROR"}
        /\ retry_count' \in [Actions -> 0..(kMaxActionRetries + 1)]
        /\ retry_timer' \in [Actions -> BOOLEAN]
    BY <1>3, ScheduleRetryType DEF ScheduleFollowPathRetry
  <2>. QED
    BY <1>0, <1>3, <2>1 DEF TypeInv, TypeOK, MissionTypeOK, IndexOK,
       callbackUnchanged, pathVars, coverageVars
<1>. QED  BY <1>1, <1>2, <1>3 DEF FollowPathResult

LEMMA DockTypeInv ==
  ASSUME TypeInv, NEW g \in GoalIds, DockResult(g)
  PROVE  TypeInv'
<1>. TypeOK /\ IndexOK
  BY DEF TypeInv
<1>0. /\ dock_goal_active' \in BOOLEAN /\ callbackUnchanged
      /\ goals' \in GoalMaps
      /\ UNCHANGED <<follow_path_goal_active, pathVars, attempts>>
  BY AnsweredType DEF DockResult, TypeOK
<1>1. CASE /\ retry_count' = [retry_count EXCEPT !["dock"] = 0]
           /\ state' = "CHARGING"
           /\ UNCHANGED <<error_reason, retry_timer>>
  <2>. /\ retry_count' \in [Actions -> 0..(kMaxActionRetries + 1)]
       /\ "CHARGING" \in MissionStates
    BY <1>1, ConstantsAssumption DEF TypeOK, MissionStates
  <2>. QED
    BY <1>0, <1>1 DEF TypeInv, TypeOK, IndexOK, callbackUnchanged, pathVars,
                      coverageVars
<1>2. CASE ScheduleDockRetry
  <2>1. /\ MissionTypeOK' /\ state' \in {state, "ERROR"}
        /\ retry_count' \in [Actions -> 0..(kMaxActionRetries + 1)]
        /\ retry_timer' \in [Actions -> BOOLEAN]
    BY <1>2, ScheduleRetryType DEF ScheduleDockRetry
  <2>. QED
    BY <1>0, <2>1 DEF TypeInv, TypeOK, MissionTypeOK, IndexOK,
       callbackUnchanged, pathVars, coverageVars
<1>. QED  BY <1>1, <1>2 DEF DockResult

\* A retry timer, with the goal it may send.
LEMMA TimerTypeInv ==
  ASSUME TypeInv,
         NavigateRetryTimer \/ FollowPathRetryTimer \/ DockRetryTimer
  PROVE  TypeInv'
<1>. TypeOK /\ IndexOK /\ pending_path \in 0..MaxSegments
  BY ConstantsAssumption DEF TypeInv, TypeOK
<1>0. PICK a \in Actions :
        /\ Fires(a)
        /\ state = HomeState(a) =>
             /\ goals' \in GoalMaps /\ attempts' \in Nat /\ MissionTypeOK'
             /\ state' \in {state, "ERROR"}
             /\ follow_path_goal_active' \in BOOLEAN
             /\ dock_goal_active' \in BOOLEAN
  <2>1. CASE NavigateRetryTimer
    BY <2>1, SendNavigateType, HomeState("navigate") = "NAVIGATING_TO_START"
    DEF NavigateRetryTimer, TypeOK, HomeState
  <2>2. CASE FollowPathRetryTimer
    BY <2>2, SendFollowPathType, HomeState("follow") = "MOWING"
    DEF FollowPathRetryTimer, TypeOK, HomeState
  <2>3. CASE DockRetryTimer
    BY <2>3, SendDockType, HomeState("dock") = "RETURNING_TO_DOCK"
    DEF DockRetryTimer, TypeOK, HomeState
  <2>. QED  BY <2>1, <2>2, <2>3
<1>1. /\ UNCHANGED <<pathVars, retry_count>> /\ callbackUnchanged
      /\ retry_timer' \in [Actions -> BOOLEAN]
  BY <1>0 DEF Fires, Disarm, TypeOK
<1>2. CASE state = HomeState(a)
  BY <1>0, <1>1, <1>2 DEF TypeInv, TypeOK, MissionTypeOK, IndexOK, pathVars,
     callbackUnchanged, coverageVars
<1>3. CASE UNCHANGED <<missionVars, flagVars, goalVars>>
  BY <1>1, <1>3 DEF TypeInv, TypeOK, IndexOK, pathVars, callbackUnchanged,
     coverageVars, missionVars, flagVars, goalVars
<1>. QED  BY <1>0, <1>2, <1>3 DEF Fires

\* Whatever the servers do to a goal, it stays a goal.
LEMMA ServerTypeInv ==
  ASSUME TypeInv,
         \/ \E g \in GoalIds : \/ AcceptGoal(g) \/ RejectGoal(g)
                                \/ EndGoal(g) \/ LoseGoal(g)
         \/ LoseCoverageRequest
  PROVE  TypeInv'
<1>. TypeOK /\ IndexOK /\ goals \in GoalMaps
  BY DEF TypeInv, TypeOK
<1>1. ASSUME nodeUnchanged, goals' \in GoalMaps, coverage_requests' \in Nat,
             lost' \subseteq Lossy
      PROVE  TypeInv'
  BY <1>1 DEF TypeInv, TypeOK, IndexOK, nodeUnchanged, missionVars, flagVars,
              pathVars, retryVars
<1>2. ASSUME NEW g \in GoalIds, NEW s \in GoalStatus, goals[g] # NoGoal
      PROVE  [goals[g] EXCEPT !.status = s] \in Goal
  BY <1>2 DEF GoalMaps, Goal
<1>3. ASSUME NEW g \in GoalIds, goals[g].status \in GoalStatus
      PROVE  goals[g] # NoGoal
  BY <1>3 DEF NoGoal, GoalStatus, Failures
<1>4. ASSUME NEW g \in GoalIds, AcceptGoal(g)
      PROVE  TypeInv'
  <2>1. goals[g] # NoGoal
    BY <1>3, <1>4 DEF AcceptGoal, GoalStatus
  <2>2. ASSUME NEW h \in GoalIds, Preempts(g, h)
        PROVE  goals[h] # NoGoal
    BY <1>3, <2>2 DEF Preempts, GoalStatus
  <2>3. "executing" \in GoalStatus /\ "aborted" \in GoalStatus
    BY DEF GoalStatus, Failures
  <2>4. goals' \in GoalMaps
    BY <1>2, <1>4, <2>1, <2>2, <2>3 DEF AcceptGoal, GoalMaps
  <2>. QED
    BY <1>1, <1>4, <2>4 DEF AcceptGoal, TypeOK
<1>5. ASSUME NEW g \in GoalIds, RejectGoal(g) \/ EndGoal(g)
      PROVE  TypeInv'
  <2>1. goals[g] # NoGoal
    BY <1>3, <1>5 DEF RejectGoal, EndGoal, GoalStatus
  <2>2. PICK s \in GoalStatus : goals' = [goals EXCEPT ![g].status = s]
    BY <1>5 DEF RejectGoal, EndGoal, GoalStatus
  <2>3. goals' \in GoalMaps
    BY <1>2, <2>1, <2>2 DEF GoalMaps
  <2>. QED
    BY <1>1, <1>5, <2>3 DEF RejectGoal, EndGoal, TypeOK
<1>6. ASSUME NEW g \in GoalIds, LoseGoal(g)
      PROVE  TypeInv'
  <2>1. goals' \in GoalMaps /\ lost' \subseteq Lossy
    BY <1>6 DEF LoseGoal, GoalMaps, TypeOK
  <2>. QED
    BY <1>1, <1>6, <2>1 DEF LoseGoal, TypeOK
<1>7. CASE LoseCoverageRequest
  BY <1>1, <1>7 DEF LoseCoverageRequest, TypeOK
<1>. QED  BY <1>4, <1>5, <1>6, <1>7

LEMMA NextTypeInv == TypeInv /\ [Next]_vars => TypeInv'
<1> SUFFICES ASSUME TypeInv, [Next]_vars PROVE TypeInv'
  OBVIOUS
<1>1. CASE UNCHANGED vars
  BY <1>1 DEF vars, TypeInv, TypeOK, IndexOK, missionVars, coverageVars,
     flagVars, pathVars, retryVars, goalVars
<1>2. ASSUME NEW g \in GoalIds, HandleAnswer(g)
      PROVE  TypeInv'
  <2>1. TypeOK
    BY DEF TypeInv
  <2>2. CASE NavigateRejected(g)
    BY <2>1, <2>2, RejectedTypeInv DEF NavigateRejected, flagVars, TypeOK
  <2>3. CASE FollowPathRejected(g)
    BY <2>1, <2>3, RejectedTypeInv DEF FollowPathRejected, TypeOK
  <2>4. CASE DockRejected(g)
    BY <2>1, <2>4, RejectedTypeInv DEF DockRejected, TypeOK
  <2>. QED
    BY <1>2, <2>2, <2>3, <2>4, NavigateTypeInv, FollowPathTypeInv, DockTypeInv
    DEF HandleAnswer
<1>. QED
  BY <1>1, <1>2, CallbackTypeInv, CoverageTypeInv, TimerTypeInv, ServerTypeInv
  DEF Next

\* Every variable has its type in every reachable state; in particular
\* path_segments_ is never indexed past its end when a segment is sent for.
THEOREM TypeCorrect == Spec => []TypeOK
<1>1. TypeInv => TypeOK
  BY DEF TypeInv
<1>. QED
  BY InitTypeInv, NextTypeInv, <1>1, PTL DEF Spec

----------------------------------------------------------------------------
(***************************************************************************)
(* Two callbacks of MissionManager trust the state they find without       *)
(* looking: the coverage answer starts a path, and a docking success       *)
(* enters CHARGING, whatever state_ is.  The theorems show why they may,   *)
(* for every number of goals, segments and retries, lost servers and late  *)
(* answers included.  The two invariants need each other: a docking        *)
(* success in REQUESTING_COVERAGE would leave a coverage request behind,   *)
(* a coverage answer in RETURNING_TO_DOCK a dock goal.                     *)
(***************************************************************************)

HIDE DEF Actions

DockSet(gs) == {g \in GoalIds : gs[g].action = "dock"}

Inv == CoverageOnlyWhileRequesting /\ OneDockGoal

Neutral == {"IDLE", "ERROR", "NAVIGATING_TO_START", "MOWING", "CHARGING"}

----------------------------------------------------------------------------
(* Which goals are dock goals.                                             *)

LEMMA DockSetOfGoals == GoalsOf("dock") = DockSet(goals)
  BY DEF GoalsOf, DockSet

LEMMA DockSetCancel ==
  ASSUME NEW gs \in GoalMaps, NEW a \in Actions
  PROVE  DockSet(CancelAll(gs, a)) = DockSet(gs)
  BY CancelAllAction DEF DockSet

LEMMA DockSetStartLeg ==
  ASSUME NEW gs \in GoalMaps
  PROVE  DockSet(StartLeg(gs)) = DockSet(gs)
  BY StartLegAction DEF DockSet

LEMMA DockSetAnswered ==
  ASSUME goals \in GoalMaps, NEW g \in GoalIds
  PROVE  DockSet(Answered(g)) = DockSet(goals) \ {g}
  BY DEF DockSet, Answered, GoalMaps, NoGoal

LEMMA DockSetSend ==
  ASSUME NEW gs \in GoalMaps, NEW a \in {"navigate", "follow"},
         NEW seg, NEW n,
         ServerAvailable(gs, a, seg, n) \/ ServerUnavailable(gs, a, n)
  PROVE  DockSet(goals') = DockSet(gs)
<1>1. CASE ServerAvailable(gs, a, seg, n)
  <2>1. PICK g \in GoalIds : /\ gs[g].action = "none"
                             /\ goals' = [gs EXCEPT ![g] = NewGoal(a, seg)]
    BY <1>1 DEF ServerAvailable
  <2>. QED
    BY <2>1 DEF DockSet, GoalMaps, NewGoal
<1>2. CASE ServerUnavailable(gs, a, n)
  BY <1>2 DEF ServerUnavailable
<1>. QED  BY <1>1, <1>2

LEMMA DockSetSendDock ==
  ASSUME NEW gs \in GoalMaps, NEW n \in Nat, SendDockGoal(gs, n)
  PROVE  \/ /\ state' = "RETURNING_TO_DOCK" /\ dock_goal_active' = TRUE
            /\ \E g \in GoalIds : DockSet(goals') = DockSet(gs) \cup {g}
         \/ /\ state' = "ERROR" /\ UNCHANGED dock_goal_active
            /\ DockSet(goals') = DockSet(gs)
<1>1. CASE ServerAvailable(gs, "dock", 0, n) /\ dock_goal_active' = TRUE
  <2>1. PICK g \in GoalIds : goals' = [gs EXCEPT ![g] = NewGoal("dock", 0)]
    BY <1>1 DEF ServerAvailable
  <2>2. DockSet(goals') = DockSet(gs) \cup {g}
    BY <2>1 DEF DockSet, GoalMaps, NewGoal
  <2>. QED
    BY <1>1, <2>2 DEF ServerAvailable, HomeState
<1>2. CASE ServerUnavailable(gs, "dock", n) /\ UNCHANGED dock_goal_active
  BY <1>2 DEF ServerUnavailable, EnterError
<1>. QED  BY <1>1, <1>2 DEF SendDockGoal

----------------------------------------------------------------------------
(* The three kinds of step.                                                *)

\* A step that leaves docking and the coverage request alone may change the
\* state only where neither is going on.
LEMMA QuietStep ==
  ASSUME Inv, UNCHANGED coverageVars, UNCHANGED dock_goal_active,
         retry_timer'["dock"] = retry_timer["dock"],
         DockSet(goals') = DockSet(goals), lost \subseteq lost',
         state' = state \/ state \in Neutral
  PROVE  Inv'
<1>1. GoalsOf("dock") = DockSet(goals) /\ GoalsOf("dock")' = DockSet(goals')
  BY DockSetOfGoals DEF GoalsOf, DockSet
<1>2. CASE state' = state
  BY <1>1, <1>2 DEF Inv, CoverageOnlyWhileRequesting, OneDockGoal, coverageVars
<1>3. CASE state \in Neutral
  <2>1. ~coverage_in_flight /\ ~dock_goal_active /\ ~retry_timer["dock"]
    BY <1>3 DEF Inv, CoverageOnlyWhileRequesting, OneDockGoal, Neutral
  <2>. QED
    BY <1>1, <2>1 DEF Inv, CoverageOnlyWhileRequesting, OneDockGoal,
       coverageVars
<1>. QED  BY <1>2, <1>3

\* A dock goal is sent, where none is out.
LEMMA DockStep ==
  ASSUME TypeOK, Inv, NEW gs \in GoalMaps, NEW n \in Nat, SendDockGoal(gs, n),
         DockSet(gs) = DockSet(goals), ~dock_goal_active,
         state \in {"NAVIGATING_TO_START", "MOWING", "RETURNING_TO_DOCK"},
         ~retry_timer'["dock"], UNCHANGED coverageVars, UNCHANGED lost
  PROVE  Inv'
<1>1. /\ GoalsOf("dock") = DockSet(goals) /\ GoalsOf("dock")' = DockSet(goals')
      /\ DockSet(goals) = {}
  BY DockSetOfGoals DEF GoalsOf, DockSet, Inv, OneDockGoal
<1>2. CoverageOnlyWhileRequesting'
  BY DEF Inv, CoverageOnlyWhileRequesting, coverageVars
<1>3. OneDockGoal'
  <2>1. CASE /\ state' = "RETURNING_TO_DOCK" /\ dock_goal_active' = TRUE
             /\ \E g \in GoalIds : DockSet(goals') = DockSet(gs) \cup {g}
    BY <1>1, <2>1 DEF OneDockGoal
  <2>2. CASE /\ state' = "ERROR" /\ UNCHANGED dock_goal_active
             /\ DockSet(goals') = DockSet(gs)
    BY <1>1, <2>2 DEF OneDockGoal
  <2>. QED  BY <2>1, <2>2, DockSetSendDock
<1>. QED  BY <1>2, <1>3 DEF Inv

\* The one dock goal is answered.
LEMMA DockAnswerStep ==
  ASSUME TypeOK, Inv, NEW g \in GoalIds, goals[g].action = "dock",
         goals' = Answered(g), dock_goal_active' = FALSE,
         UNCHANGED coverageVars, UNCHANGED lost,
         \/ state' = "CHARGING" /\ UNCHANGED retry_timer
         \/ ScheduleRetry("dock")
  PROVE  Inv'
<1>1. /\ GoalsOf("dock") = DockSet(goals) /\ GoalsOf("dock")' = DockSet(goals')
      /\ g \in DockSet(goals) /\ DockSet(goals') = DockSet(goals) \ {g}
  BY DockSetOfGoals, DockSetAnswered DEF GoalsOf, DockSet, TypeOK
<1>2. /\ DockSet(goals') = {} /\ state = "RETURNING_TO_DOCK"
      /\ ~retry_timer["dock"]
  BY <1>1 DEF Inv, OneDockGoal
<1>3. retry_timer'["dock"] => state' = "RETURNING_TO_DOCK"
  BY <1>2 DEF ScheduleRetry, HomeState, EnterError, ArmTimer, missionVars,
              retryVars
<1>4. CoverageOnlyWhileRequesting'
  BY <1>2 DEF Inv, CoverageOnlyWhileRequesting, coverageVars
<1>5. OneDockGoal'
  BY <1>1, <1>2, <1>3 DEF OneDockGoal
<1>. QED  BY <1>4, <1>5 DEF Inv

----------------------------------------------------------------------------
(* The actions.                                                            *)

\* A request is sent only in REQUESTING_COVERAGE, or on the way there.
LEMMA RequestStep ==
  ASSUME TypeOK, Inv, RequestCoveragePath, state' = "REQUESTING_COVERAGE",
         state \in {"IDLE", "ERROR", "REQUESTING_COVERAGE"},
         UNCHANGED <<flagVars, retryVars, goalVars, lost>>
  PROVE  Inv'
<1>1. /\ GoalsOf("dock")' = GoalsOf("dock")
      /\ UNCHANGED dock_goal_active /\ UNCHANGED retry_timer /\ UNCHANGED lost
  BY DEF GoalsOf, goalVars, flagVars, retryVars
<1>2. ~dock_goal_active /\ ~retry_timer["dock"]
  BY DEF Inv, OneDockGoal
<1>3. OneDockGoal'
  BY <1>1, <1>2 DEF Inv, OneDockGoal
<1>4. CoverageOnlyWhileRequesting'
  <2>1. CASE UNCHANGED coverageVars
    BY <2>1 DEF Inv, CoverageOnlyWhileRequesting, coverageVars
  <2>2. CASE /\ NoneInFlight /\ coverage_in_flight' = TRUE
             /\ coverage_requests' = coverage_requests + 1
    <3>. coverage_requests = 0
      BY <2>2 DEF Inv, CoverageOnlyWhileRequesting, NoneInFlight, TypeOK
    <3>. QED
      BY <2>2 DEF CoverageOnlyWhileRequesting
  <2>. QED  BY <2>1, <2>2 DEF RequestCoveragePath
<1>. QED  BY <1>3, <1>4 DEF Inv

LEMMA TickStep ==
  ASSUME TypeOK, Inv, Tick
  PROVE  Inv'
<1>0. UNCHANGED lost /\ goals \in GoalMaps
  BY DEF Tick, TypeOK
<1>1. CASE TickIdle \/ TickCharging
  <2>. /\ state \in Neutral /\ UNCHANGED goals /\ UNCHANGED coverageVars
       /\ UNCHANGED dock_goal_active /\ UNCHANGED retry_timer
    BY <1>1 DEF TickIdle, TickCharging, Neutral, goalVars, flagVars, retryVars
  <2>. QED  BY <1>0, QuietStep
<1>2. CASE TickRequestingCoverage
  BY <1>0, <1>2, RequestStep DEF TickRequestingCoverage, missionVars
<1>3. CASE TickNavigatingToStart
  <2>. DEFINE gs == StartLeg(CancelAll(goals, "navigate"))
  <2>1. gs \in GoalMaps /\ DockSet(gs) = DockSet(goals)
    BY <1>0, CancelAllType, StartLegType, DockSetCancel, DockSetStartLeg
    DEF Actions
  <2>2. /\ SendDockGoal(gs, 0) /\ state = "NAVIGATING_TO_START"
        /\ ~dock_goal_active /\ UNCHANGED coverageVars /\ UNCHANGED retry_timer
    BY <1>3 DEF TickNavigatingToStart, TurnBack, retryVars
  <2>3. ~retry_timer["dock"]
    BY <2>2 DEF Inv, OneDockGoal
  <2>. QED  BY <1>0, <2>1, <2>2, <2>3, DockStep
<1>4. CASE TickMowing
  <2>. DEFINE ms == IF follow_path_goal_active
                      THEN CancelAll(goals, "follow") ELSE goals
              gs == StartLeg(ms)
  <2>1. gs \in GoalMaps /\ DockSet(gs) = DockSet(goals)
    BY <1>0, CancelAllType, StartLegType, DockSetCancel, DockSetStartLeg
    DEF Actions
  <2>2. /\ SendDockGoal(gs, 0) /\ state = "MOWING"
        /\ ~dock_goal_active /\ UNCHANGED coverageVars /\ UNCHANGED retry_timer
    BY <1>4 DEF TickMowing, TurnBack, retryVars
  <2>3. ~retry_timer["dock"]
    BY <2>2 DEF Inv, OneDockGoal
  <2>. QED  BY <1>0, <2>1, <2>2, <2>3, DockStep
<1>. QED  BY <1>1, <1>2, <1>3, <1>4 DEF Tick

LEMMA CoverageStep ==
  ASSUME TypeOK, Inv, CoverageResponse
  PROVE  Inv'
<1>0. /\ coverage_requests > 0 /\ coverage_requests' = coverage_requests - 1
      /\ coverage_in_flight' = FALSE /\ UNCHANGED lost
  BY DEF CoverageResponse, ClearInFlight
<1>1. /\ coverage_requests' = 0 /\ state = "REQUESTING_COVERAGE"
  BY <1>0 DEF Inv, CoverageOnlyWhileRequesting, TypeOK
<1>2. CoverageOnlyWhileRequesting'
  BY <1>0, <1>1 DEF CoverageOnlyWhileRequesting
<1>3. ~dock_goal_active /\ ~retry_timer["dock"] /\ DockSet(goals) = {}
  BY <1>1, DockSetOfGoals DEF Inv, OneDockGoal
<1>4. /\ UNCHANGED dock_goal_active /\ UNCHANGED retry_timer
      /\ DockSet(goals') = DockSet(goals)
  <2>1. CASE UNCHANGED flagVars /\ UNCHANGED retryVars /\ UNCHANGED goalVars
    BY <2>1 DEF flagVars, retryVars, goalVars
  <2>2. CASE \E n \in 1..MaxSegments : PlanPath(n)
    <3>1. /\ SendNavigateToStartGoal(StartLeg(goals), 0, 0)
          /\ UNCHANGED retry_timer
      BY <2>2 DEF PlanPath
    <3>2. StartLeg(goals) \in GoalMaps /\ 0 \in 0..MaxSegments
      BY StartLegType, ConstantsAssumption DEF TypeOK
    <3>3. DockSet(goals') = DockSet(StartLeg(goals))
      BY <3>1, <3>2, DockSetSend DEF SendNavigateToStartGoal
    <3>. QED
      BY <3>1, <3>3, DockSetStartLeg DEF SendNavigateToStartGoal, TypeOK
  <2>. QED  BY <2>1, <2>2 DEF CoverageResponse
<1>5. OneDockGoal'
  <2>. GoalsOf("dock")' = DockSet(goals')
    BY DEF GoalsOf, DockSet
  <2>. QED  BY <1>3, <1>4 DEF OneDockGoal
<1>. QED  BY <1>2, <1>5 DEF Inv

\* A navigate or follow_path goal is answered, and nothing else is sent.
LEMMA DriveAnswerStep ==
  ASSUME TypeOK, Inv, NEW g \in GoalIds, NEW a \in {"navigate", "follow"},
         goals[g].action = a, goals' = Answered(g),
         UNCHANGED coverageVars, UNCHANGED dock_goal_active, UNCHANGED lost,
         ScheduleRetry(a) \/ UNCHANGED <<missionVars, retryVars>>
  PROVE  Inv'
<1>1. DockSet(goals') = DockSet(goals)
  BY DockSetAnswered DEF DockSet, TypeOK
<1>2. /\ retry_timer'["dock"] = retry_timer["dock"]
      /\ state' = state \/ state \in Neutral
  BY DEF ScheduleRetry, HomeState, ArmTimer, missionVars, retryVars, TypeOK,
         Actions, Neutral
<1>. QED  BY <1>1, <1>2, QuietStep

LEMMA NavigateStep ==
  ASSUME TypeOK, Inv, NEW g \in GoalIds, NavigateResult(g)
  PROVE  Inv'
<1>0. /\ goals[g].action = "navigate" /\ UNCHANGED coverageVars
      /\ UNCHANGED lost /\ Answered(g) \in GoalMaps
  BY AnsweredType DEF NavigateResult, ResultOf, Awaits, callbackUnchanged,
                      TypeOK
<1>1. CASE /\ goals' = Answered(g)
           /\ UNCHANGED <<missionVars, flagVars, retryVars, attempts>>
  BY <1>0, <1>1, DriveAnswerStep DEF flagVars
<1>2. CASE /\ state = "NAVIGATING_TO_START"
           /\ SendFollowPathGoal(StartLeg(Answered(g)), 0)
           /\ UNCHANGED retry_timer
  <2>1. DockSet(goals') = DockSet(StartLeg(Answered(g)))
    BY <1>0, <1>2, StartLegType, DockSetSend DEF SendFollowPathGoal
  <2>2. DockSet(goals') = DockSet(goals)
    BY <1>0, <2>1, DockSetStartLeg, DockSetAnswered DEF DockSet, TypeOK
  <2>. QED
    BY <1>0, <1>2, <2>2, QuietStep DEF SendFollowPathGoal, Neutral
<1>3. CASE /\ goals' = Answered(g) /\ ScheduleNavigateRetry
           /\ UNCHANGED <<flagVars, attempts>>
  BY <1>0, <1>3, DriveAnswerStep DEF ScheduleNavigateRetry, flagVars
<1>. QED  BY <1>1, <1>2, <1>3 DEF NavigateResult

LEMMA FollowPathStep ==
  ASSUME TypeOK, Inv, NEW g \in GoalIds, FollowPathResult(g)
  PROVE  Inv'
<1>0. /\ goals[g].action = "follow" /\ UNCHANGED coverageVars
      /\ UNCHANGED lost /\ Answered(g) \in GoalMaps
  BY AnsweredType DEF FollowPathResult, ResultOf, Awaits, callbackUnchanged,
                      TypeOK
<1>1. CASE /\ goals' = Answered(g)
           /\ UNCHANGED <<missionVars, dock_goal_active, pathVars, retryVars,
                          attempts>>
  BY <1>0, <1>1, DriveAnswerStep
<1>2. CASE /\ state = "MOWING" /\ UNCHANGED retry_timer
           /\ UNCHANGED path_segments
           /\ AdvanceToNextSegment(Answered(g),
                                   [retry_count EXCEPT !["follow"] = 0])
  <2>. DEFINE gs == StartLeg(Answered(g))
  <2>1. gs \in GoalMaps /\ DockSet(gs) = DockSet(goals)
    BY <1>0, StartLegType, DockSetStartLeg, DockSetAnswered
    DEF DockSet, TypeOK
  <2>2. ~dock_goal_active /\ ~retry_timer["dock"]
    BY <1>2 DEF Inv, OneDockGoal
  <2>3. CASE SendDockGoal(gs, 0)
    BY <1>0, <1>2, <2>1, <2>2, <2>3, DockStep
  <2>4. CASE /\ ~PastLastSegment(current_segment_index')
             /\ SetPending(current_segment_index')
             /\ SendNavigateToStartGoal(gs, pending_path', 0)
    <3>1. DockSet(goals') = DockSet(gs)
      BY <2>1, <2>4, DockSetSend DEF SendNavigateToStartGoal
    <3>. QED
      BY <1>0, <1>2, <2>1, <2>4, <3>1, QuietStep
      DEF SendNavigateToStartGoal, Neutral
  <2>. QED  BY <1>2, <2>3, <2>4 DEF AdvanceToNextSegment
<1>3. CASE /\ goals' = Answered(g) /\ ScheduleFollowPathRetry
           /\ UNCHANGED <<dock_goal_active, pathVars, attempts>>
  BY <1>0, <1>3, DriveAnswerStep DEF ScheduleFollowPathRetry
<1>. QED  BY <1>1, <1>2, <1>3 DEF FollowPathResult

LEMMA AnswerStep ==
  ASSUME TypeOK, Inv, NEW g \in GoalIds, HandleAnswer(g)
  PROVE  Inv'
<1>1. CASE NavigateRejected(g)
  BY <1>1, DriveAnswerStep
  DEF NavigateRejected, Rejected, Awaits, callbackUnchanged, flagVars
<1>2. CASE FollowPathRejected(g)
  BY <1>2, DriveAnswerStep
  DEF FollowPathRejected, Rejected, Awaits, callbackUnchanged
<1>3. CASE DockRejected(g)
  BY <1>3, DockAnswerStep
  DEF DockRejected, Rejected, Awaits, callbackUnchanged
<1>4. CASE DockResult(g)
  BY <1>4, DockAnswerStep
  DEF DockResult, ResultOf, Awaits, callbackUnchanged, ScheduleDockRetry
<1>. QED
  BY <1>1, <1>2, <1>3, <1>4, NavigateStep, FollowPathStep DEF HandleAnswer

LEMMA TimerStep ==
  ASSUME TypeOK, Inv,
         NavigateRetryTimer \/ FollowPathRetryTimer \/ DockRetryTimer
  PROVE  Inv'
<1>1. ASSUME NEW a \in {"navigate", "follow"}, Fires(a),
             state = HomeState(a) =>
               /\ UNCHANGED dock_goal_active
               /\ \E seg, n : \/ ServerAvailable(goals, a, seg, n)
                             \/ ServerUnavailable(goals, a, n)
      PROVE  Inv'
  <2>1. /\ UNCHANGED coverageVars /\ UNCHANGED lost
        /\ retry_timer'["dock"] = retry_timer["dock"]
    BY <1>1 DEF Fires, Disarm, callbackUnchanged, TypeOK, Actions
  <2>2. CASE state = HomeState(a)
    <3>1. DockSet(goals') = DockSet(goals) /\ state \in Neutral
      BY <1>1, <2>2, DockSetSend DEF TypeOK, HomeState, Neutral
    <3>. QED  BY <1>1, <2>1, <2>2, <3>1, QuietStep
  <2>3. CASE state # HomeState(a)
    BY <1>1, <2>1, <2>3, QuietStep DEF Fires, missionVars, flagVars, goalVars
  <2>. QED  BY <2>2, <2>3
<1>2. CASE NavigateRetryTimer
  BY <1>1, <1>2
  DEF NavigateRetryTimer, HomeState, SendNavigateToStartGoal
<1>3. CASE FollowPathRetryTimer
  BY <1>1, <1>3 DEF FollowPathRetryTimer, HomeState, SendFollowPathGoal
<1>4. CASE DockRetryTimer
  <2>1. /\ retry_timer["dock"] /\ ~retry_timer'["dock"]
        /\ UNCHANGED coverageVars /\ UNCHANGED lost
    BY <1>4 DEF DockRetryTimer, Fires, Disarm, callbackUnchanged, TypeOK,
                Actions
  <2>2. ~dock_goal_active /\ state = "RETURNING_TO_DOCK"
    BY <2>1 DEF Inv, OneDockGoal
  <2>. QED
    BY <1>4, <2>1, <2>2, DockStep DEF DockRetryTimer, TypeOK
<1>. QED  BY <1>2, <1>3, <1>4

LEMMA ServerStep ==
  ASSUME TypeOK, Inv, nodeUnchanged,
         \/ \E g \in GoalIds : \/ AcceptGoal(g) \/ RejectGoal(g)
                                \/ EndGoal(g) \/ LoseGoal(g)
         \/ LoseCoverageRequest
  PROVE  Inv'
<1>1. /\ UNCHANGED coverage_in_flight /\ UNCHANGED dock_goal_active
      /\ UNCHANGED retry_timer /\ UNCHANGED state
  BY DEF nodeUnchanged, flagVars, retryVars, missionVars
<1>. DEFINE OnlyLosses ==
       /\ DockSet(goals') \subseteq DockSet(goals)
       /\ DockSet(goals') # DockSet(goals) => "dock" \in lost'
       /\ lost \subseteq lost'
       /\ coverage_requests' \in Nat /\ coverage_requests' <= coverage_requests
<1>2. OnlyLosses
  <2>1. CASE \E g \in GoalIds : AcceptGoal(g) \/ RejectGoal(g) \/ EndGoal(g)
    <3>. /\ DockSet(goals') = DockSet(goals)
         /\ UNCHANGED <<lost, coverage_requests>>
      BY <2>1 DEF AcceptGoal, RejectGoal, EndGoal, DockSet, TypeOK, GoalMaps,
                  Goal, NoGoal
    <3>. QED  BY DEF TypeOK
  <2>2. ASSUME NEW g \in GoalIds, LoseGoal(g)
        PROVE  OnlyLosses
    BY <2>2 DEF LoseGoal, DockSet, TypeOK, GoalMaps, NoGoal
  <2>3. CASE LoseCoverageRequest
    BY <2>3 DEF LoseCoverageRequest, TypeOK
  <2>. QED  BY <2>1, <2>2, <2>3
<1>3. CoverageOnlyWhileRequesting'
  BY <1>1, <1>2 DEF Inv, CoverageOnlyWhileRequesting, TypeOK
<1>4. OneDockGoal'
  <2>. GoalsOf("dock") = DockSet(goals) /\ GoalsOf("dock")' = DockSet(goals')
    BY DEF GoalsOf, DockSet
  <2>. QED  BY <1>1, <1>2 DEF Inv, OneDockGoal
<1>. QED  BY <1>3, <1>4 DEF Inv

----------------------------------------------------------------------------
LEMMA InitInv == Init => Inv
  BY DEF Init, Inv, CoverageOnlyWhileRequesting, OneDockGoal, GoalsOf, NoGoal,
         Actions

LEMMA NextInv == TypeOK /\ Inv /\ [Next]_vars => Inv'
<1> SUFFICES ASSUME TypeOK, Inv, [Next]_vars PROVE Inv'
  OBVIOUS
<1>1. CASE UNCHANGED vars
  BY <1>1 DEF vars, Inv, CoverageOnlyWhileRequesting, OneDockGoal, GoalsOf,
     missionVars, coverageVars, flagVars, retryVars, goalVars
<1>2. CASE HandleStartService
  BY <1>2, RequestStep DEF HandleStartService
<1>3. CASE BatteryCallback
  BY <1>3, QuietStep
  DEF BatteryCallback, missionVars, flagVars, retryVars, goalVars
<1>4. CASE \/ \E g \in GoalIds : \/ AcceptGoal(g) \/ RejectGoal(g)
                                \/ EndGoal(g) \/ LoseGoal(g)
           \/ LoseCoverageRequest
  BY <1>4, ServerStep
  DEF AcceptGoal, RejectGoal, EndGoal, LoseGoal, LoseCoverageRequest
<1>. QED
  BY <1>1, <1>2, <1>3, <1>4, TickStep, CoverageStep, AnswerStep, TimerStep
  DEF Next

LEMMA InvAlways == Spec => []Inv
  BY TypeCorrect, InitInv, NextInv, PTL DEF Spec

\* A coverage answer finds the mission in REQUESTING_COVERAGE, and there is
\* never a second request, although the callback of the response checks
\* nothing (mission_manager_node.cpp:167).
THEOREM CoverageMeetsItsState == Spec => []CoverageOnlyWhileRequesting
<1>1. Inv => CoverageOnlyWhileRequesting
  BY DEF Inv
<1>. QED  BY InvAlways, <1>1, PTL

\* Docking is never doubled and never survives RETURNING_TO_DOCK, so that a
\* docking success may enter CHARGING unchecked
\* (mission_manager_node.cpp:561).
THEOREM DockingIsExclusive == Spec => []OneDockGoal
<1>1. Inv => OneDockGoal
  BY DEF Inv
<1>. QED  BY InvAlways, <1>1, PTL

=============================================================================
