----------------------------- MODULE SampleOnLez -----------------------------
(***************************************************************************)
(* FreezeAuthoritySample one level down: a dedicated account for each      *)
(* config, offset 0, and every transaction through LEZ's checks.           *)
(***************************************************************************)
EXTENDS FreezeAuthorityOnLez

CONSTANT Values  \* bound: the values that update_value writes

ASSUME DedicatedAssumption ==
    /\ AutoWrap
    /\ AdminAccount # ConfigAccount
    /\ ProgramAccount \notin {AdminAccount, ConfigAccount}
    /\ AdminOffset = 0 /\ FreezeOffset = 0
    /\ 0 \in Values /\ Values \subseteq Cells

vars == <<account, authorized>>

Init == ChainInit

----------------------------------------------------------------------------
ProgramData == account[ProgramAccount].data

\* ProgramConfig::from_account and write_to: one value, and nothing else.
FromAccountResult == Check(Len(ProgramData) = 1, "SerializationError")

WriteTo(value) == PostState(ProgramAccount, <<value>>)

initialize(caller) ==
    Call(<<AdminAccount, caller, ProgramAccount>>,
         {caller},
         Check(account[ProgramAccount] = Default, "AccountAlreadyInitialized")
           ?? RequireAdmin(caller),
         <<Unchanged(AdminAccount), Unchanged(caller),
           Claimed(ProgramAccount, <<0>>)>>)

update_value(caller, new_value) ==
    Call(<<ConfigAccount, Marker(caller), caller, ProgramAccount>>,
         {caller},
         RequireNotFrozen(caller)
           ?? FromAccountResult,
         <<Unchanged(ConfigAccount), Unchanged(Marker(caller)),
           Unchanged(caller), WriteTo(new_value)>>)

\* Exempt, and signed by nobody. It lands without a trace, so it is no step.
read_value ==
    Call(<<ProgramAccount>>, {}, FromAccountResult, <<Unchanged(ProgramAccount)>>)

SetUpCalls == {admin_initialize(c) : c \in Ids}
                \cup {freeze_initialize(c) : c \in Ids}
                \cup {initialize(c) : c \in Ids}

UpdateCalls == {update_value(c, v) : c \in Ids, v \in Values}

LookAlike == Encode([slot |-> [holder |-> NoId, nominee |-> NoId],
                     is_frozen |-> FALSE])

\* The derived address belongs to another program with a config of its own.
Next == \/ \E call \in RoleCalls : Lands(call)
        \/ \E call \in BrakeCalls : Lands(call)
        \/ \E call \in AdminCalls : Lands(call)
        \/ \E call \in SetUpCalls : Lands(call)
        \/ \E call \in UpdateCalls : Lands(call)
        \/ \E a \in Ids : AccountInit(a, IF a \in Pdas THEN LookAlike ELSE <<>>)
                        \/ OtherTransaction(a)

Spec == Init /\ [][Next]_vars

----------------------------------------------------------------------------
\* What the library accepts LEZ accepts too, with an account for each role:
\* both come back, in their positions, and each is claimed by the one
\* instruction that makes it.
LezAccepts ==
    \A call \in RoleCalls \cup BrakeCalls \cup AdminCalls \cup SetUpCalls
                  \cup UpdateCalls \cup {read_value} : LezAgrees(call)

\* The same program over decoded records. Its admin has no nominee.
AdminRecord == IF AdminData = <<>> THEN NoData ELSE AdminSlot.holder
ConfigRecord == IF ConfigData = <<>> THEN NoData ELSE LoadedConfig
ValueRecord == IF ProgramData = <<>> THEN NoData ELSE ProgramData[1]

Records == INSTANCE FreezeAuthoritySample WITH
    owned <- OwnedKeys, spent <- SpentKeys, adminConfig <- AdminRecord,
    freezeConfig <- ConfigRecord, frozenAccount <- MarkerRecords,
    programConfig <- ValueRecord

\* Accounts, copies and post-states implement the decoded program, so that
\* what is proved of FreezeAuthoritySample holds of the bytes.
ImplementsRecords == Records!Spec
=============================================================================
