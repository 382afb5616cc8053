-------------------------- MODULE CanTxSchedulerMC --------------------------
(***************************************************************************)
(* A small transmit path: a charger command of one frame, a protected      *)
(* generation of two required frames and an advisory one, two mailboxes.   *)
(***************************************************************************)
EXTENDS CanTxScheduler

MCFrames ==
  [s \in Streams |-> IF s = "protected" THEN 1..3 ELSE {1}]

MCMaxGen == [s \in Streams |-> IF s = "protected" THEN 3 ELSE 2]

(* The same with details in the place of commands, and one required frame: *)
(* details wait behind protected frames, three frames contend for the two  *)
(* mailboxes, and one tuning snapshot may give way to another.             *)
LiveFrames ==
  [s \in Streams |-> IF s = "protected" THEN 1..2 ELSE {1}]

LiveMaxGen == [s \in Streams |-> IF s = "protected" THEN 2 ELSE 3]
=============================================================================
