-------------------- MODULE MCFreezeAuthoritySampleManual --------------------
(* Instances of FreezeAuthoritySampleManual for TLC. *)
EXTENDS FreezeAuthoritySampleManual, TLC

Symmetry == Permutations(Ids \ Pdas)
=============================================================================
