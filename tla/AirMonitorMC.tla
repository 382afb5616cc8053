---------------------------- MODULE AirMonitorMC ----------------------------
(***************************************************************************)
(* Three configurations for AirMonitor, with different deadlines for       *)
(* different contacts: load-side voltage proof; a precharge contact; and   *)
(* the main contacts alone, with line supervision.                         *)
(***************************************************************************)
EXTENDS AirMonitor

VoltageProof ==
  [aux |-> FALSE, bus |-> TRUE, line |-> FALSE, debounce |-> 1,
   make |-> [k \in Contacts |-> IF k = "pos" THEN 3 ELSE 2],
   release |-> [k \in Contacts |-> IF k = "neg" THEN 3 ELSE 2],
   prechargeMax |-> 3, settle |-> 1, discharge |-> 2]

PrechargeContact ==
  [VoltageProof EXCEPT !.aux = TRUE, !.bus = FALSE]

LineSupervision ==
  [VoltageProof EXCEPT !.bus = FALSE, !.line = TRUE]

MCConfigs == {VoltageProof, PrechargeContact, LineSupervision}
=============================================================================
