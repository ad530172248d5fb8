-------------------- MODULE MCFreezeAuthoritySampleEmbedded --------------------
(* Instances of FreezeAuthoritySampleEmbedded for TLC. *)
EXTENDS FreezeAuthoritySampleEmbedded, TLC

Symmetry == Permutations(Ids \ Pdas)
=============================================================================
