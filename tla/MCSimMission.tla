---------------------------- MODULE MCSimMission ----------------------------
(* Values for the run of SimMission: the port in the dock, or just outside *)
(* of the tolerance; a battery of four levels.                             *)
EXTENDS SimMission

MCPorts == {<<0, -11>>, <<20, 0>>}
MCReadings == {Percentage(v) : v \in LowestVoltage..MaxVoltage}

=============================================================================
