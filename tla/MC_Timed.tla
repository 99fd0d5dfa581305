------------------------------ MODULE MC_Timed ------------------------------
(* Small instances of MkTimed for TLC. *)
EXTENDS MkTimed
MC_WaitTimes == {0, 3}
=============================================================================
