-------------------------- MODULE NominationAudit --------------------------
(***************************************************************************)
(* FreezeAuthoritySample with a history variable: under whose authority    *)
(* the pending nominee was named. The code keeps no such record; what      *)
(* makes an acceptance legitimate is that every change of holder drops the *)
(* nomination.                                                             *)
(***************************************************************************)
EXTENDS FreezeAuthoritySample

VARIABLE mandate  \* of the last nomination: the holder then, and whether
                  \* the admin made it

auditVars == <<vars, mandate>>

NoMandate == [tenure |-> NoId, asAdmin |-> FALSE]

AuditTypeOK == /\ TypeOK
               /\ mandate \in [tenure : AccountId, asAdmin : BOOLEAN]

AuditInit == Init /\ mandate = NoMandate

AuditNext ==
    \/ /\ \E caller \in Ids, next \in AccountId :
             /\ freeze_authority_nominate(caller, next)
             /\ mandate' = [tenure |-> Holder, asAdmin |-> caller = adminConfig]
       /\ UNCHANGED programConfig
    \/ NextExceptNomination /\ UNCHANGED mandate

AuditSpec == AuditInit /\ [][AuditNext]_auditVars

\* The same with people who do their duties, so that liveness can be asked.
DutifulSpec == AuditSpec /\ Duties

\* A pending nomination was made in the tenure that still runs, so no former
\* holder's choice can be accepted later, and on a vacant slot only the
\* admin's choice can be. (ADR-0013; tests/lez_rules.rs
\* a_stale_nominee_cannot_accept_after_a_transfer)
MandateStands ==
    Nominee # NoId => /\ mandate.tenure = Holder
                      /\ Holder = NoId => mandate.asAdmin
=============================================================================
