----------------------------- MODULE MC_Context -----------------------------
(* Small instances of MkContext for TLC: a 16-bit size_t. *)
EXTENDS MkContext
MC_Sizes  == {65, 71, 73, 160}
MC_Locals == {1, 20}
=============================================================================
