------------------------------ MODULE MC_Queue ------------------------------
(* Small instances of MkQueue for TLC. *)
EXTENDS MkQueue
MC_Capacities == 1..3
=============================================================================
