------------------------ MODULE FreezeAuthorityOnLez ------------------------
(***************************************************************************)
(* freeze-authority/src/lib.rs, as FreezeAuthority models it, one level    *)
(* down: the handlers load records from windows of accounts, splice them   *)
(* back, and answer with post-states that LEZ checks. The two config roles *)
(* may be played by one account of the program (embedded mode); a handler  *)
(* then gets two copies of it, and must return one.                        *)
(***************************************************************************)
EXTENDS Lez

CONSTANTS
    AutoWrap,       \* #[freeze_authority], or FALSE for #[freeze_authority(manual)]
    Targets,        \* bound: the accounts that freeze_account is called for
    Admins,         \* bound: the accounts that admin_nominate names
    AdminAccount,   \* the account of the admin_config role
    ConfigAccount,  \* the account of the freeze_config role
    ProgramAccount, \* the program's own account
    AdminOffset,    \* the offsets the framework binds (0 in dedicated mode)
    FreezeOffset

ASSUME LayoutAssumption ==
    /\ AutoWrap \in BOOLEAN
    /\ AdminOffset \in Nat /\ FreezeOffset \in Nat
    /\ Targets \subseteq Ids /\ Admins \subseteq Ids
    /\ {AdminAccount, ConfigAccount, ProgramAccount} \cap Ids = {}
    /\ AdminAccount = ConfigAccount =>
           Window(AdminOffset, ENCODED_LEN) \cap Window(FreezeOffset, SIZE) = {}

\* Derived addresses: markers are accounts of their own. Empty data is neither
\* a cell nor a record.
ASSUME NamesAssumption ==
    /\ \A a \in Ids : Marker(a) \notin Ids \cup {AdminAccount, ConfigAccount,
                                                ProgramAccount}
    /\ NoData \notin Cells \cup FreezeConfigs \cup FrozenAccountStates

Names == Ids \cup {AdminAccount, ConfigAccount, ProgramAccount}
             \cup {Marker(a) : a \in Ids}

ChainInit == account = [a \in Names |-> Default] /\ authorized = {}

----------------------------------------------------------------------------
(* Loads and writes. *)

ConfigData == account[ConfigAccount].data
AdminData == account[AdminAccount].data

FreezeConfigResult == DecodeAtResult(ConfigData, FreezeOffset)
LoadedConfig == DecodeAt(ConfigData, FreezeOffset)

Written(config) ==
    PostState(ConfigAccount, WriteToAt(ConfigData, config, FreezeOffset))

AdminConfigResult ==
    Check(AdminData # <<>>, "AdminError::NotInitialized")
      ?? SlotFits(AdminData, AdminOffset)

AdminSlot == SlotReadAt(AdminData, AdminOffset)

\* .ok() of the dual paths.
AdminOrNone == IF AdminConfigResult = Ok THEN AdminSlot.holder ELSE NoData

RequireAdmin(caller) ==
    AdminConfigResult ?? AssertAdmin(AdminSlot.holder, Caller(caller))

\* A bug to look for: the gate forgets the caller's marker.
RequireProgramNotFrozen(caller) ==
    FreezeConfigResult ?? Check(~LoadedConfig.is_frozen, "Frozen")

\* The prologue of require_not_frozen, with the offset the framework stamps.
RequireNotFrozen(caller) ==
    FreezeConfigResult
      ?? Check(~LoadedConfig.is_frozen, "Frozen")
      ?? MarkerResult(account[Marker(caller)].data)
      ?? Check(~FromDataOrDefault(MarkerState(account[Marker(caller)].data)).is_frozen,
               "AccountFrozen")

\* A bug to look for: a shared account is returned twice.
PostStateBoth(read, written) == <<read, written>>

\* A bug to look for: of a shared account the copy that was read is returned.
PostStateRead(read, written) ==
    IF AdminAccount = ConfigAccount THEN <<read>> ELSE <<read, written>>

\* post_state_pair, and the accounts it answers for.
PostStatePair(read, written) ==
    IF AdminAccount = ConfigAccount THEN <<written>> ELSE <<read, written>>

ConfigPair == IF AdminAccount = ConfigAccount
              THEN <<ConfigAccount>> ELSE <<AdminAccount, ConfigAccount>>

\* The frame of the perform_X_at functions: load, check, write back.
Perform(check) ==
    FreezeConfigResult ?? check ?? WriteToAtResult(ConfigData, FreezeOffset)

----------------------------------------------------------------------------
(* The nine instructions. *)

\* Dedicated mode only: the whole account is written.
freeze_initialize(caller) ==
    Call(<<AdminAccount, caller, ConfigAccount>>,
         {caller},
         Check(account[ConfigAccount] = Default, "AccountAlreadyInitialized")
           ?? RequireAdmin(caller)
           ?? BootstrapResult([kind |-> "Signer", derived |-> NoId], Caller(caller)),
         <<Unchanged(AdminAccount), Unchanged(caller),
           Claimed(ConfigAccount, Encode(Bootstrap(caller)))>>)

freeze_authority_transfer(caller, new, candidate, cosigns) ==
    Call(ConfigPair \o <<caller, new>>,
         IF cosigns THEN {caller, new} ELSE {caller},
         RequireAdmin(caller)
           ?? Perform(TransferResult(candidate, AccountOf(new, cosigns))),
         PostStatePair(Unchanged(AdminAccount), Written(Transfer(LoadedConfig, new)))
           \o <<Unchanged(caller), Unchanged(new)>>)

freeze_authority_renounce(caller) ==
    Call(ConfigPair \o <<caller>>,
         {caller},
         Perform(DualPath(AdminOrNone, LoadedConfig, Caller(caller))),
         PostStatePair(Unchanged(AdminAccount), Written(Renounce(LoadedConfig)))
           \o <<Unchanged(caller)>>)

freeze_authority_nominate(caller, next) ==
    Call(ConfigPair \o <<caller>>,
         {caller},
         Perform(DualPath(AdminOrNone, LoadedConfig, Caller(caller))),
         PostStatePair(Unchanged(AdminAccount), Written(Nominate(LoadedConfig, next)))
           \o <<Unchanged(caller)>>)

freeze_authority_accept(caller) ==
    Call(<<ConfigAccount, caller>>,
         {caller},
         Perform(AcceptResult(LoadedConfig, Caller(caller))),
         <<Written(Accept(LoadedConfig)), Unchanged(caller)>>)

\* Wrapped in auto mode. The gate's marker is an account of its own that the
\* function declares in either mode and passes through.
freeze_program(caller) ==
    Call(<<ConfigAccount, Marker(caller), caller>>,
         {caller},
         (IF AutoWrap THEN RequireNotFrozen(caller) ELSE Ok)
           ?? Perform(AssertHolder(LoadedConfig, Caller(caller))),
         <<Written(SetIsFrozen(LoadedConfig, TRUE)),
           Unchanged(Marker(caller)), Unchanged(caller)>>)

freeze_program_release(caller) ==
    Call(<<ConfigAccount, caller>>,
         {caller},
         Perform(AssertHolder(LoadedConfig, Caller(caller))),
         <<Written(SetIsFrozen(LoadedConfig, FALSE)), Unchanged(caller)>>)

\* A bug to look for: a marker that exists is claimed again.
MarkerClaimedAgain(target, data) == Claimed(Marker(target), data)

\* The first touch claims the marker, later ones do not.
MarkerPostState(target, data) ==
    IF account[Marker(target)].data = <<>>
    THEN Claimed(Marker(target), data) ELSE PostState(Marker(target), data)

freeze_account(caller, target) ==
    Call(<<ConfigAccount, Marker(target), caller>>,
         {caller},
         FreezeConfigResult
           ?? MarkerResult(account[Marker(target)].data)
           ?? PerformFreezeResult(LoadedConfig, Caller(caller)),
         <<Unchanged(ConfigAccount), MarkerPostState(target, MarkerBytes(TRUE)),
           Unchanged(caller)>>)

freeze_account_release(caller, target) ==
    Call(<<ConfigAccount, Marker(target), caller>>,
         {caller},
         FreezeConfigResult
           ?? AssertHolder(LoadedConfig, Caller(caller))
           ?? MarkerResult(account[Marker(target)].data)
           ?? PerformReleaseResult(LoadedConfig,
                                   MarkerState(account[Marker(target)].data),
                                   Caller(caller)),
         <<Unchanged(ConfigAccount), PostState(Marker(target), MarkerBytes(FALSE)),
           Unchanged(caller)>>)

----------------------------------------------------------------------------
(* The admin extension's instructions (external), in its window. *)

AdminWritten(slot) ==
    PostState(AdminAccount, SlotWriteAt(AdminData, slot, AdminOffset))

\* Dedicated mode only.
admin_initialize(caller) ==
    Call(<<AdminAccount, caller>>,
         {caller},
         Check(account[AdminAccount] = Default, "AccountAlreadyInitialized")
           ?? Validate([kind |-> "Signer", derived |-> NoId], Caller(caller))
           ?? SlotInitializeResult(caller),
         <<Claimed(AdminAccount, SlotBytes(SlotInitialize(caller))),
           Unchanged(caller)>>)

admin_transfer(caller, new, candidate, cosigns) ==
    Call(<<AdminAccount, caller, new>>,
         IF cosigns THEN {caller, new} ELSE {caller},
         RequireAdmin(caller) ?? Validate(candidate, AccountOf(new, cosigns)),
         <<AdminWritten(SlotTransfer(AdminSlot, new)),
           Unchanged(caller), Unchanged(new)>>)

admin_nominate(caller, next) ==
    Call(<<AdminAccount, caller>>,
         {caller},
         RequireAdmin(caller),
         <<AdminWritten(SlotNominate(AdminSlot, next)), Unchanged(caller)>>)

admin_accept(caller) ==
    Call(<<AdminAccount, caller>>,
         {caller},
         AdminConfigResult ?? SlotAcceptResult(AdminSlot, Caller(caller)),
         <<AdminWritten(SlotAccept(AdminSlot)), Unchanged(caller)>>)

admin_renounce(caller) ==
    Call(<<AdminAccount, caller>>,
         {caller},
         RequireAdmin(caller),
         <<AdminWritten(SlotRenounce(AdminSlot)), Unchanged(caller)>>)

----------------------------------------------------------------------------
Transfers ==
    {freeze_authority_transfer(c, n, cand, s) :
        c \in Ids, n \in Ids, cand \in Candidates, s \in BOOLEAN}

RoleCalls ==
    Transfers
      \cup {freeze_authority_renounce(c) : c \in Ids}
      \cup {freeze_authority_nominate(c, n) : c \in Ids, n \in AccountId}
      \cup {freeze_authority_accept(c) : c \in Ids}

BrakeCalls ==
    {freeze_program(c) : c \in Ids}
      \cup {freeze_program_release(c) : c \in Ids}
      \cup {freeze_account(c, t) : c \in Ids, t \in Targets}
      \cup {freeze_account_release(c, t) : c \in Ids, t \in Targets}

AdminCalls ==
    {admin_transfer(c, n, cand, s) :
        c \in Ids, n \in Ids, cand \in Candidates, s \in BOOLEAN}
      \cup {admin_nominate(c, n) : c \in Ids, n \in Admins \cup {NoId}}
      \cup {admin_accept(c) : c \in Ids}
      \cup {admin_renounce(c) : c \in Ids}

----------------------------------------------------------------------------
ChainTypeOK ==
    /\ account \in [Names -> [owner : Owners, nonce : BOOLEAN,
                              data : Seq(Cells)]]
    /\ authorized \subseteq Ids

\* A call that the library accepts is accepted by LEZ, unless it names an
\* account twice or a stranded key.
LezAgrees(call) ==
    /\ call.result = Ok
    /\ Distinct(call.accounts)
    /\ \A i \in 1 .. Len(call.accounts) : ~Stranded(call.accounts[i])
    => ValidateExecution(call.accounts, call.posts) = Ok

\* A reader that asks for the program's own config gets no other account
\* for it: not the look-alike of another program, and not a marker, which
\* the program does own. (docs of from_owned_account_at)
OnlyOwnConfigRead ==
    \A a \in Names :
        FromOwnedAccountAtResult(account[a], FreezeOffset, "self") = Ok
            => a = ConfigAccount

----------------------------------------------------------------------------
\* What a ledger of records sees of the keys: which are owned, and which are
\* stranded. A marker is a record of its own.
OwnedKeys == {a \in Ids : account[a].owner # "default"}
SpentKeys == {a \in Ids : Stranded(a)}
MarkerRecords == [a \in Ids |-> MarkerState(account[Marker(a)].data)]
=============================================================================
