-------------------------- MODULE MCNominationAudit --------------------------
(* The instance of NominationAudit for TLC. *)
EXTENDS NominationAudit
=============================================================================
