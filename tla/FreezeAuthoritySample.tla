------------------------ MODULE FreezeAuthoritySample ------------------------
(***************************************************************************)
(* freeze-authority-sample/src/main.rs: a program in auto mode. The        *)
(* framework wraps every instruction that is not exempt, and the library's *)
(* instructions are dispatched next to the program's own. read_value       *)
(* changes nothing and has no step.                                        *)
(***************************************************************************)
EXTENDS FreezeAuthority

CONSTANT Values  \* bound: the values that update_value writes, 0 among them

VARIABLE programConfig  \* the program_config account: NoData or its value

ASSUME SampleAssumption == AutoWrap /\ 0 \in Values /\ NoData \notin Values

vars == <<ledgerVars, adminConfig, freezeVars, programConfig>>

TypeOK == /\ LedgerTypeOK
          /\ AdminTypeOK
          /\ FreezeTypeOK
          /\ programConfig \in {NoData} \cup Values

Init == LedgerInit /\ AdminInit /\ FreezeInit /\ programConfig = NoData

\* Exempt, so that it can run before freeze_initialize.
initialize(caller) ==
    /\ programConfig = NoData
    /\ RequireAdmin(caller) = Ok
    /\ Lands({caller}, {caller})
    /\ programConfig' = 0
    /\ UNCHANGED <<adminConfig, freezeVars>>

\* A bug to look for: the gate is missing.
UngatedUpdateResult(caller) == Check(programConfig # NoData, "DecodingFailed")

update_value_result(caller) ==
    RequireNotFrozen(caller) ?? Check(programConfig # NoData, "DecodingFailed")

update_value(caller, new_value) ==
    /\ update_value_result(caller) = Ok
    /\ Lands({caller}, {caller})
    /\ programConfig' = new_value
    /\ UNCHANGED <<adminConfig, freezeVars>>

Library == AdminInitialization \/ AdminManagement \/ FreezeInitialization
             \/ RoleChange \/ FreezeOrRelease

\* Everything but a nomination (NominationAudit tells the two apart).
NextExceptNomination ==
    \/ (Library \/ Elsewhere) /\ UNCHANGED programConfig
    \/ \E caller \in Ids : \/ initialize(caller)
                           \/ \E v \in Values : update_value(caller, v)

Next == \/ NextExceptNomination
        \/ Nomination /\ UNCHANGED programConfig

Spec == Init /\ [][Next]_vars

----------------------------------------------------------------------------
\* After the first write: what must hold when the value changes.
UnfrozenWrite ==
    programConfig # NoData =>
        /\ Initialized /\ ~ProgramFrozen
        /\ \A a \in authorized' : frozenAccount[a] # [is_frozen |-> TRUE]

\* A frozen program's state stands still, and a frozen account cannot write
\* it, whoever holds the roles and however they changed hands since the
\* freeze. Only the first write, by initialize, is outside the gate.
FrozenStateStands == [][UnfrozenWrite]_programConfig

----------------------------------------------------------------------------
\* The recovery that docs/authority-lifecycle.md describes. These are duties
\* of the people in the roles, not of the code: an admin that finds the slot
\* vacant again and again eventually names itself (any other account may be
\* stranded, and a transfer to itself LEZ refuses), a nominee eventually
\* accepts, a holder of a frozen program eventually releases it. Others may
\* get in between, hence strong fairness.
AdminTakesVacancy ==
    /\ HasAdmin /\ Initialized /\ Holder = NoId /\ Nominee # adminConfig
    /\ freeze_authority_nominate(adminConfig, adminConfig)
    /\ UNCHANGED programConfig

NomineeAccepts ==
    /\ \E caller \in Ids : freeze_authority_accept(caller)
    /\ UNCHANGED programConfig

HolderReleases ==
    /\ ProgramFrozen
    /\ \E caller \in Ids : freeze_program_release(caller)
    /\ UNCHANGED programConfig

Duties == /\ SF_vars(AdminTakesVacancy)
          /\ SF_vars(NomineeAccepts)
          /\ SF_vars(HolderReleases)

\* A frozen program thaws, also through a renounce on top of the freeze, a
\* change of admin, or hand-overs that race the release, unless the admin
\* renounces while nobody holds the freeze role.
FreezeRecovers ==
    ProgramFrozen ~> (~ProgramFrozen \/ (adminConfig = NoId /\ Holder = NoId))
=============================================================================
