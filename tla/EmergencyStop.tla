-------------------------- MODULE EmergencyStop --------------------------
(***************************************************************************)
(* What a latched emergency stop promises, without saying how: the         *)
(* abstract specification that SafetyLifecycle implements.                 *)
(*                                                                         *)
(* mode is "enabled" while motion is permitted, "latched" from any stop    *)
(* event until an operator resets it, and "blocked" while motion is not    *)
(* permitted for want of a watched heartbeat.  pressed is the independent  *)
(* physical button.                                                        *)
(***************************************************************************)
VARIABLES mode, pressed

Init == mode = "blocked" /\ pressed = FALSE

\* A stop event, from the button or from anything else, in any mode.
Trip ==
  /\ mode' = "latched"
  /\ pressed' \in {pressed, TRUE}

\* Releasing the button leaves the latch alone.
ReleaseButton ==
  /\ mode = "latched"
  /\ pressed /\ pressed' = FALSE
  /\ UNCHANGED mode

\* The only way out of the latch.
Reset ==
  /\ mode = "latched" /\ ~pressed
  /\ mode' = "enabled"
  /\ UNCHANGED pressed

Block ==
  /\ mode = "enabled" /\ mode' = "blocked"
  /\ UNCHANGED pressed

Enable ==
  /\ mode = "blocked" /\ mode' = "enabled"
  /\ UNCHANGED pressed

Next == Trip \/ ReleaseButton \/ Reset \/ Block \/ Enable

Spec == Init /\ [][Next]_<<mode, pressed>>
===========================================================================
