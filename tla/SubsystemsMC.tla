---------------------------- MODULE SubsystemsMC ----------------------------
(***************************************************************************)
(* Confirmation times and heartbeat timeouts for a small Subsystems.       *)
(***************************************************************************)
EXTENDS Subsystems

(* In the order of the code's: an extreme current at once, a fast one      *)
(* before a slow one, shorter times for precharge.                         *)
MCConfirm ==
  [f \in {"discharge", "charge", "regen", "precharge"} |->
    [l \in {"trip", "fast", "extreme"} |->
      CASE l = "extreme" -> 0
        [] l = "fast" -> IF f = "precharge" THEN 1 ELSE 2
        [] OTHER -> IF f = "precharge" THEN 2 ELSE 3]]

(* The logger is no safety task.                                           *)
MCTimeout == [current |-> 2, can |-> 3, logger |-> 3]
=============================================================================
