------------------------------ MODULE MC_Calls ------------------------------
(* Small instances of MkCalls for TLC. *)
EXTENDS MkCallsRefinement
MC_WaitTimes == {0, 1}
MC_Ready     == {"READY"}
MC_Asleep    == {"READY", "WAITING"}
=============================================================================
