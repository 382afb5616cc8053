------------------------ MODULE ContactorPermission ------------------------
(***************************************************************************)
(* What the contactor monitor promises the supervisor.  Permission is      *)
(* first given in OFF, follows the contactors through PRECHARGE into RUN   *)
(* and nowhere else; once it is lost with the contactors energised, or     *)
(* anything was latched, only a clear with the contacts open brings it     *)
(* back.                                                                   *)
(***************************************************************************)
CONSTANTS Phases, Unknown

VARIABLES phase, permit, latched

vars == <<phase, permit, latched>>

Energized == {"PRECHARGE", "RUN"}

Init == phase = Unknown /\ permit = FALSE /\ latched = FALSE

(* No permission; what had it while energised is latched.                  *)
Withhold ==
  /\ permit' = FALSE
  /\ phase' \in Phases \cup {phase}
  /\ latched' \in BOOLEAN /\ latched => latched'
  /\ permit /\ phase' \in Energized => latched'

Arm ==
  /\ ~latched /\ latched' = FALSE
  /\ phase' = "OFF" /\ permit' = TRUE

(* Permission stays while the contactors stay, or close in their order.    *)
Hold ==
  /\ permit /\ permit' = TRUE /\ latched' = FALSE
  /\ <<phase, phase'>> \in {<<"PRECHARGE", "PRECHARGE">>, <<"RUN", "RUN">>,
                            <<"OFF", "PRECHARGE">>, <<"PRECHARGE", "RUN">>}

Clear ==
  /\ phase' \in {"OFF", "SHUTDOWN"}
  /\ latched' = FALSE /\ permit' = (phase' = "OFF")

Next == Withhold \/ Arm \/ Hold \/ Clear

Spec == Init /\ [][Next]_vars
=============================================================================
