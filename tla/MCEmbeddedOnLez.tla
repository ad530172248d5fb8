--------------------------- MODULE MCEmbeddedOnLez ---------------------------
(* Instances of EmbeddedOnLez for TLC. *)
EXTENDS EmbeddedOnLez, TLC

Symmetry == Permutations(Ids \ Pdas)
=============================================================================
