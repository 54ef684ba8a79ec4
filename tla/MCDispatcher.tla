---------------------------- MODULE MCDispatcher ----------------------------
(* An instance of Dispatcher for TLC. *)
EXTENDS Dispatcher, TLC

CONSTANTS p1, p2, p3, p4
mc_Process == {p1, p2, p3, p4}

\* Two processes meet in one queue, each of the others is alone in its own.
mc_priority == p1 :> "high" @@ p2 :> "medium" @@ p3 :> "low" @@ p4 :> "low"
=============================================================================
