-------------------- MODULE FreezeAuthoritySampleEmbedded --------------------
(***************************************************************************)
(* freeze-authority-sample-embedded/src/main.rs: the admin slot and the    *)
(* freeze config live in windows of the program's own account, so all      *)
(* three come into being at once and neither extension has an initialiser  *)
(* (ADR-0011). That the windows stay apart inside the account is the       *)
(* subject of EmbeddedOnLez; here each is a variable.                      *)
(***************************************************************************)
EXTENDS FreezeAuthority

CONSTANT Values  \* bound: the values that update_value writes, 0 among them

VARIABLE programConfig  \* the value field of the account, or NoData

ASSUME EmbeddedAssumption == AutoWrap /\ 0 \in Values /\ NoData \notin Values

vars == <<ledgerVars, adminConfig, freezeVars, programConfig>>

TypeOK == /\ LedgerTypeOK
          /\ AdminTypeOK
          /\ FreezeTypeOK
          /\ programConfig \in {NoData} \cup Values

Init == LedgerInit /\ AdminInit /\ FreezeInit /\ programConfig = NoData

\* FreezeConfig::default(): born vacant and running.
BornVacant == [slot |-> [holder |-> NoId, nominee |-> NoId], is_frozen |-> FALSE]

\* #[admin_initialize] seats the signing caller as the admin.
initialize(caller) ==
    /\ programConfig = NoData
    /\ AdminBootstrapResult(caller) = Ok
    /\ Lands({caller}, {caller})
    /\ adminConfig' = caller
    /\ freezeConfig' = BornVacant
    /\ programConfig' = 0
    /\ UNCHANGED frozenAccount

\* A bug to look for: the gate is missing.
UngatedUpdateResult(caller) == RequireAdmin(caller)

\* Auto-wrapped, and for the admin only.
update_value_result(caller) == RequireNotFrozen(caller) ?? RequireAdmin(caller)

update_value(caller, new_value) ==
    /\ update_value_result(caller) = Ok
    /\ Lands({caller}, {caller})
    /\ programConfig' = new_value
    /\ UNCHANGED <<adminConfig, freezeVars>>

\* Exempt: the admin gets the value out of a frozen program.
withdraw(caller) ==
    /\ RequireAdmin(caller) = Ok
    /\ Lands({caller}, {caller})
    /\ programConfig' = 0
    /\ UNCHANGED <<adminConfig, freezeVars>>

Library == AdminManagement \/ Nomination \/ RoleChange \/ FreezeOrRelease

Next ==
    \/ (Library \/ Elsewhere) /\ UNCHANGED programConfig
    \/ \E caller \in Ids : \/ initialize(caller)
                           \/ withdraw(caller)
                           \/ \E v \in Values : update_value(caller, v)

Spec == Init /\ [][Next]_vars

----------------------------------------------------------------------------
\* After the first write: what must hold when the value changes.
DrainOrUnfrozen ==
    programConfig # NoData =>
        /\ adminConfig \in authorized'
        /\ \/ programConfig' = 0
           \/ /\ ~ProgramFrozen
              /\ frozenAccount[adminConfig] # [is_frozen |-> TRUE]

\* A freeze leaves the admin one move on the program's state, to take the
\* value out; an admin whose own marker is frozen is in the same position.
FrozenOnlyDrains == [][DrainOrUnfrozen]_programConfig
=============================================================================
