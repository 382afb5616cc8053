----------------------------- MODULE FrameStream -----------------------------
(***************************************************************************)
(* What one stream of CAN generations promises its receiver.  Generations  *)
(* go out in the order of their publication, newer ones may overtake those *)
(* that were not sent yet, and nothing of an older one follows a newer     *)
(* one.  No frame is sent twice.  A generation is reported as delivered    *)
(* only when each of its required frames was on the wire.                  *)
(***************************************************************************)
EXTENDS Naturals

CONSTANTS Frames,      \* the frames of a generation
          Required     \* those without which it is not delivered

VARIABLES published,   \* the newest generation
          sending,     \* the generation last seen on the wire
          sent,        \* its frames seen so far
          delivered    \* the generation last reported as delivered

vars == <<published, sending, sent, delivered>>

Init == published = 0 /\ sending = 0 /\ sent = {} /\ delivered = 0

Publish ==
  /\ published' = published + 1
  /\ UNCHANGED <<sending, sent, delivered>>

Send(g, f) ==
  /\ sending <= g /\ 0 < g /\ g <= published /\ sending' = g
  /\ g = sending => f \notin sent
  /\ sent' = IF g = sending THEN sent \cup {f} ELSE {f}
  /\ UNCHANGED <<published, delivered>>

Deliver ==
  /\ delivered < sending /\ Required \subseteq sent
  /\ delivered' = sending
  /\ UNCHANGED <<published, sending, sent>>

Next ==
  \/ Publish \/ Deliver
  \/ \E f \in Frames, g \in sending..published : Send(g, f)

Spec == Init /\ [][Next]_vars
=============================================================================
