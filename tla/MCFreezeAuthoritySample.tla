---------------------- MODULE MCFreezeAuthoritySample ----------------------
(* Instances of FreezeAuthoritySample for TLC, and what is refused in them. *)
EXTENDS FreezeAuthoritySample, FreezeRefusals, TLC

\* Two accounts that are not derived addresses can be swapped everywhere:
\* every constant set holds both or neither.
Symmetry == Permutations(Ids \ Pdas)
=============================================================================
