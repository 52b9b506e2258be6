------------------------------- MODULE SimNode -------------------------------
(***************************************************************************)
(* What stands for the charger and the battery in simulation: sim_node     *)
(* (src/sim/sim_node.cpp), which finds from the pose of the charging port  *)
(* whether it touches the dock and counts a voltage up and down, and the   *)
(* plugin of Nav2's docking server that hears of the contact               *)
(* (src/docking_helper/charger_presence_charging_dock.cpp).                *)
(*                                                                         *)
(* Lengths are centimetres and voltages decivolts.  The charge voltage,    *)
(* the status and the health of the battery, which nothing in this         *)
(* repository reads, are left out.                                         *)
(***************************************************************************)
EXTENDS Integers

CONSTANTS
  Ports,            \* where the charging port may be, in the frame of the dock
  ToleranceX, ToleranceY,   \* docking_detection_tolerance_x_ and _y_
  MinVoltage, MaxVoltage,   \* battery_state_min_voltage_ and _max_voltage_
  InitialVoltage,   \* initial_battery_voltage
  LowestVoltage,    \* how far the battery may be drained (bounds TLC)
  Drop, Charge,     \* the voltage lost and won in a second
  Elapsed           \* seconds between two ticks of the battery timer, 0 for
                    \* less than one

ASSUME SimAssumption ==
  /\ Ports \subseteq Int \X Int
  /\ {ToleranceX, ToleranceY, MinVoltage, MaxVoltage, InitialVoltage,
      LowestVoltage, Drop, Charge} \subseteq Nat
  /\ MinVoltage < MaxVoltage
  /\ Elapsed \subseteq Nat

VARIABLES
  port,             \* none or one: where the charging port is, once tf knows
  charger_present,  \* charger_present_msg_.data, and the last on the topic
  is_charging,      \* is_charging_ of the plugin
  voltage,          \* battery_state_msg_.voltage
  power             \* none or one: battery_state_msg_.percentage on /power

simVars == <<port, charger_present, is_charging, voltage, power>>

Abs(n) == IF n < 0 THEN -n ELSE n

\* Without a transform the answer is no.
IsInDockingStation ==
  \E p \in port : Abs(p[1]) < ToleranceX /\ Abs(p[2]) < ToleranceY

ChargerPresentSimulationCallback ==
  /\ charger_present' = IsInDockingStation
  /\ UNCHANGED <<port, is_charging, voltage, power>>

\* The subscription of the plugin; isDocked and isCharging return the flag.
ChargerPresenceCallback ==
  /\ is_charging' = charger_present
  /\ UNCHANGED <<port, charger_present, voltage, power>>

\* Discharging waits for a second to be over, and charging does not; the time
\* of the last update moves on in either case.
Discharged(since) == IF since >= 1 THEN voltage - since * Drop ELSE voltage
Charged == IF voltage + Charge > MaxVoltage THEN MaxVoltage ELSE voltage + Charge

\* Faulty: the scale is 0 to 1.
Fraction(v) == (v - MinVoltage) \div (MaxVoltage - MinVoltage)
\* The scale is 0 to 100; a drained battery has less than nothing.
Percentage(v) == ((v - MinVoltage) * 100) \div (MaxVoltage - MinVoltage)

BatteryStateSimulationCallback ==
  /\ \E since \in Elapsed :
       voltage' = IF charger_present THEN Charged ELSE Discharged(since)
  /\ voltage' >= LowestVoltage
  /\ power' = {Percentage(voltage')}
  /\ UNCHANGED <<port, charger_present, is_charging>>

\* The robot has been localised, or has moved.
Moved == /\ \E p \in Ports : port' = {p}
         /\ UNCHANGED <<charger_present, is_charging, voltage, power>>

SimInit ==
  /\ port = {} /\ charger_present = FALSE /\ is_charging = FALSE
  /\ voltage = InitialVoltage /\ power = {}
SimNext == \/ ChargerPresentSimulationCallback \/ ChargerPresenceCallback
           \/ BatteryStateSimulationCallback

=============================================================================
