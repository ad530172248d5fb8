-------------------- MODULE MCConsumerFixture --------------------
(* Instances of ConsumerFixture for TLC. *)
EXTENDS ConsumerFixture, TLC

Symmetry == Permutations(Ids \ Pdas)
=============================================================================
