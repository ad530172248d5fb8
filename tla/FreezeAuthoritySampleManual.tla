--------------------- MODULE FreezeAuthoritySampleManual ---------------------
(***************************************************************************)
(* freeze-authority-sample-manual/src/main.rs: #[freeze_authority(manual)] *)
(* wraps nothing, the program gates what it annotates, and one instruction *)
(* sets up all three accounts. The library's own initialisers are          *)
(* dispatched all the same.                                                *)
(***************************************************************************)
EXTENDS FreezeAuthority

CONSTANT Values  \* bound: the values that update_value writes, 0 among them

VARIABLE programConfig  \* the program_config account: NoData or its value

ASSUME ManualAssumption == ~AutoWrap /\ 0 \in Values /\ NoData \notin Values

vars == <<ledgerVars, adminConfig, freezeVars, programConfig>>

TypeOK == /\ LedgerTypeOK
          /\ AdminTypeOK
          /\ FreezeTypeOK
          /\ programConfig \in {NoData} \cup Values

Init == LedgerInit /\ AdminInit /\ FreezeInit /\ programConfig = NoData

\* A bug to look for: admin_config is not marked init.
InitializeOverAdmin(signer) ==
    /\ freezeConfig = NoData /\ programConfig = NoData
    /\ AdminBootstrapResult(signer) ?? BootstrapResult(ByCaller, Caller(signer))
         = Ok
    /\ Lands({signer}, {signer})
    /\ adminConfig' = signer
    /\ freezeConfig' = Bootstrap(signer)
    /\ programConfig' = 0
    /\ UNCHANGED frozenAccount

\* Another: the bootstrap of freeze_config is left to freeze_initialize, as in
\* auto mode.
InitializeWithoutFreeze(signer) ==
    /\ adminConfig = NoData /\ programConfig = NoData
    /\ AdminBootstrapResult(signer) = Ok
    /\ Lands({signer}, {signer})
    /\ adminConfig' = signer
    /\ programConfig' = 0
    /\ UNCHANGED freezeVars

\* Whoever comes first gets both roles. All three accounts are init.
initialize(signer) ==
    /\ adminConfig = NoData /\ freezeConfig = NoData /\ programConfig = NoData
    /\ AdminBootstrapResult(signer) ?? BootstrapResult(ByCaller, Caller(signer))
         = Ok
    /\ Lands({signer}, {signer})
    /\ adminConfig' = signer
    /\ freezeConfig' = Bootstrap(signer)
    /\ programConfig' = 0
    /\ UNCHANGED frozenAccount

\* A bug to look for: the gate is missing.
UngatedUpdateResult(caller) == Check(programConfig # NoData, "DecodingFailed")

\* Gated by its own #[require_not_frozen].
update_value_result(caller) ==
    RequireNotFrozen(caller) ?? Check(programConfig # NoData, "DecodingFailed")

update_value(caller, new_value) ==
    /\ update_value_result(caller) = Ok
    /\ Lands({caller}, {caller})
    /\ programConfig' = new_value
    /\ UNCHANGED <<adminConfig, freezeVars>>

Library == AdminInitialization \/ AdminManagement \/ FreezeInitialization
             \/ Nomination \/ RoleChange \/ FreezeOrRelease

Next ==
    \/ (Library \/ Elsewhere) /\ UNCHANGED programConfig
    \/ \E caller \in Ids : \/ initialize(caller)
                           \/ \E v \in Values : update_value(caller, v)

Spec == Init /\ [][Next]_vars

----------------------------------------------------------------------------
\* In manual mode nothing stands between a holder and the brake, its own
\* frozen marker included: freezing and releasing always go through.
BrakeUngated ==
    Holder # NoId => /\ Holder \notin spent
                     /\ freeze_program_result(Holder) = Ok
                     /\ freeze_program_release_result(Holder) = Ok

\* After the first write: what must hold when the value changes.
UnfrozenWrite ==
    programConfig # NoData =>
        /\ Initialized /\ ~ProgramFrozen
        /\ \A a \in authorized' : frozenAccount[a] # [is_frozen |-> TRUE]

\* The explicit gate does what the automatic one does: a frozen program's
\* state stands still and a frozen account cannot write it.
FrozenStateStands == [][UnfrozenWrite]_programConfig

\* The set-up in one transaction is complete: a program that has its account
\* can be written by whomever no freeze stops, whatever the roles have gone
\* through since, and a freeze that does stop a writer can be lifted by the
\* holder, if there is one. The gate, which refuses where it finds no
\* freeze_config, never bars a program for good.
OnlyFreezesStopWrites ==
    programConfig # NoData =>
        \A a \in Ids :
            \/ update_value_result(a) = Ok
            \/ ProgramFrozen /\ (Holder # NoId =>
                   /\ Holder \notin spent
                   /\ freeze_program_release_result(Holder) = Ok)
            \/ frozenAccount[a] = [is_frozen |-> TRUE] /\ (Holder # NoId =>
                   /\ Holder \notin spent
                   /\ freeze_account_release_result(Holder, a) = Ok)
=============================================================================
