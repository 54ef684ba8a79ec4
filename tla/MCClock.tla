------------------------------- MODULE MCClock -------------------------------
(* The alarms of Clock for TLC. *)
EXTENDS Clock

mc_first_alarms == << <<0, 1>> >>
=============================================================================
