----------------------------- MODULE SimMission -----------------------------
(***************************************************************************)
(* A mission in simulation: the mission manager with the charger and the   *)
(* battery of SimNode in place of any that may be, on a robot that its     *)
(* goals move.                                                             *)
(*                                                                         *)
(* A goal that runs and is not being cancelled may put the charging port   *)
(* anywhere.  Nav2's docking server reports success only if the plugin     *)
(* says that the robot is docked.                                          *)
(***************************************************************************)
EXTENDS MissionManager, SimNode

allVars == <<vars, simVars>>

Moves(g) == goals[g].status = "executing" /\ ~goals[g].cancel

MoveRobot ==
  /\ port = {} \/ \E g \in GoalIds : Moves(g)
  /\ Moved
  /\ UNCHANGED vars

\* An assumption about time: the 15 messages a second reach the plugin before
\* a docking is over.
ContactIsSeen ==
  is_charging = charger_present /\ charger_present = IsInDockingStation

DockingSucceeds(g) ==
  /\ goals[g].action = "dock" /\ goals[g].status = "executing"
  /\ goals'[g].status = "succeeded"

\* A step of the mission; what it hears of the battery is what was sent last.
MissionStep ==
  /\ Next
  /\ battery_percent' \in {battery_percent} \cup power
  /\ \A g \in GoalIds : DockingSucceeds(g) => is_charging /\ ContactIsSeen
  /\ UNCHANGED simVars

HearBattery == BatteryCallback /\ battery_percent' \in power

SimMissionInit == Init /\ SimInit
SimMissionNext == MissionStep \/ MoveRobot \/ (SimNext /\ UNCHANGED vars)

\* The executors of the three nodes serve their timers and subscriptions.
SimFairness ==
  /\ WF_simVars(ChargerPresentSimulationCallback)
  /\ WF_simVars(ChargerPresenceCallback)
  /\ WF_simVars(BatteryStateSimulationCallback)
  /\ WF_vars(HearBattery)

SimMissionSpec == /\ SimMissionInit /\ [][SimMissionNext]_allVars
                  /\ Fairness /\ SimFairness

----------------------------------------------------------------------------
(* Properties.                                                             *)

\* While the mission takes itself to be charging, the charger is there: the
\* contact docking was reported on is not lost to a goal that was left behind.
ChargingIsReal == state = "CHARGING" => charger_present

\* Charging comes to an end: the battery gets as full as the mission wants it
\* and the mission hears of it, on the scale the mission reads it on.
ChargingEnds == state = "CHARGING" ~> state # "CHARGING"

=============================================================================
