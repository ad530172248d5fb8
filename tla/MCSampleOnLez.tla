---------------------------- MODULE MCSampleOnLez ----------------------------
(* Instances of SampleOnLez for TLC. *)
EXTENDS SampleOnLez, TLC

Symmetry == Permutations(Ids \ Pdas)
=============================================================================
