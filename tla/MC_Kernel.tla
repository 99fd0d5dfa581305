------------------------------ MODULE MC_Kernel ------------------------------
(* Small instances of MkKernel for TLC. *)
EXTENDS MkKernelRefinement
MC_WaitTimes == {0, 2}
MC_OneWait   == {1}
=============================================================================
