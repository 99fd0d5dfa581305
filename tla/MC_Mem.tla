------------------------------- MODULE MC_Mem -------------------------------
(* Small instances of MkMem for TLC: a 16-bit size_t. *)
EXTENDS MkMem
MC_Sizes    == {65, 71, 72, 73, 256}
MC_MinSizes == {64, 72}
=============================================================================
