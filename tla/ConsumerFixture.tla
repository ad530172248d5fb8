---------------------------- MODULE ConsumerFixture ----------------------------
(***************************************************************************)
(* ci/consumer-fixture/guest/src/bin/consumer_fixture.rs: a downstream     *)
(* program in auto mode, whose own initialiser asks for no admin and whose *)
(* update is the admin's, behind both gates.                               *)
(***************************************************************************)
EXTENDS FreezeAuthority

CONSTANT Values  \* bound: the values that update_value writes, 0 among them

VARIABLE programConfig  \* the program_config account: NoData or its value

ASSUME FixtureAssumption == AutoWrap /\ 0 \in Values /\ NoData \notin Values

vars == <<ledgerVars, adminConfig, freezeVars, programConfig>>

TypeOK == /\ LedgerTypeOK
          /\ AdminTypeOK
          /\ FreezeTypeOK
          /\ programConfig \in {NoData} \cup Values

Init == LedgerInit /\ AdminInit /\ FreezeInit /\ programConfig = NoData

\* Exempt, and anybody's: no role is asked for and none is given.
initialize(owner) ==
    /\ programConfig = NoData
    /\ Lands({owner}, {owner})
    /\ programConfig' = 0
    /\ UNCHANGED <<adminConfig, freezeVars>>

\* Bugs to look for: one of the two gates is missing.
UnwrappedUpdateResult(caller) == RequireAdmin(caller)
AnybodysUpdateResult(caller) == RequireNotFrozen(caller)

\* The automatic gate runs before the program's #[require_admin].
update_value_result(caller) == RequireNotFrozen(caller) ?? RequireAdmin(caller)

\* The state is written without being read. Before initialize nobody owns
\* the account, and LEZ refuses the write (external).
update_value(caller, new_value) ==
    /\ programConfig # NoData
    /\ update_value_result(caller) = Ok
    /\ Lands({caller}, {caller})
    /\ programConfig' = new_value
    /\ UNCHANGED <<adminConfig, freezeVars>>

Library == AdminInitialization \/ AdminManagement \/ FreezeInitialization
             \/ Nomination \/ RoleChange \/ FreezeOrRelease

Next ==
    \/ (Library \/ Elsewhere) /\ UNCHANGED programConfig
    \/ \E caller \in Ids : \/ initialize(caller)
                           \/ \E v \in Values : update_value(caller, v)

Spec == Init /\ [][Next]_vars

----------------------------------------------------------------------------
\* After the first write: what must hold when the value changes.
UnfrozenAdminWrite ==
    programConfig # NoData =>
        /\ adminConfig \in authorized'
        /\ Initialized /\ ~ProgramFrozen
        /\ frozenAccount[adminConfig] # [is_frozen |-> TRUE]

\* Whoever created the account and whenever, before the roles or after: from
\* then on its value is the present admin's to change, and only while the
\* freeze role exists, the program runs and the admin's own marker is not
\* frozen. A renounced admin leaves the value as it is for good.
AdminWritesUnfrozen == [][UnfrozenAdminWrite]_programConfig
=============================================================================
