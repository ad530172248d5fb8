------------------------ MODULE FreezeAuthority_proofs ------------------------
(***************************************************************************)
(* What the library's instructions preserve, whatever program they are     *)
(* dispatched from. The proof modules of the sample programs build on it.  *)
(***************************************************************************)
EXTENDS FreezeAuthority, TLAPS

----------------------------------------------------------------------------
(* What it takes for a result to be Ok. *)

\* The ? operator yields Ok exactly when both of its parts do.
LEMMA ThenOk ==
    ASSUME NEW a, NEW b
    PROVE  ((a ?? b) = Ok) <=> (a = Ok /\ b = Ok)
  BY DEF ??, Ok

\* The conversion of errors keeps success and failure apart.
LEMMA FromErrorOk ==
    ASSUME NEW e
    PROVE  (FromAuthorityError(e) = Ok) <=> (e = Ok)
  BY DEF FromAuthorityError, Ok

\* A load succeeds exactly on an initialised account.
LEMMA FromAccountOk ==
    ASSUME NEW d
    PROVE  (FromAccount(d) = Ok) <=> (d # NoData)
  BY DEF FromAccount, Check, Ok

\* A signed account passes the holder check exactly when it is the holder.
LEMMA SlotAssertOk ==
    ASSUME NEW config \in FreezeConfigs, NEW a \in Ids
    PROVE  (SlotAssert(config.slot, Caller(a)) = Ok) <=> (config.slot.holder = a)
  <1>1. Caller(a).account_id = a /\ Caller(a).is_authorized
    BY DEF Caller, AccountOf
  <1>2. a # NoId
    BY IdsAssumption
  <1>3. /\ (Check(config.slot.holder # NoId, "Renounced") = Ok)
             <=> (config.slot.holder # NoId)
        /\ (Check(Caller(a).account_id = config.slot.holder, "NotHolder") = Ok)
             <=> (a = config.slot.holder)
        /\ Check(Caller(a).is_authorized, "MissingSignature") = Ok
    BY <1>1 DEF Check, Ok
  <1> QED
    BY <1>2, <1>3, ThenOk DEF SlotAssert

\* The same for the library's own check, which renames one error.
LEMMA AssertHolderOk ==
    ASSUME NEW config \in FreezeConfigs, NEW a \in Ids
    PROVE  (AssertHolder(config, Caller(a)) = Ok) <=> (config.slot.holder = a)
  BY SlotAssertOk, FromErrorOk DEF AssertHolder

\* A signed account passes the admin gate exactly when it is the admin.
LEMMA RequireAdminOk ==
    ASSUME NEW a \in Ids
    PROVE  (RequireAdmin(a) = Ok) <=> (adminConfig = a)
  <1>1. Caller(a).account_id = a /\ Caller(a).is_authorized
    BY DEF Caller, AccountOf
  <1>2. a # NoId /\ a # NoData
    BY IdsAssumption, FreezeAuthorityAssumption DEF AccountId
  <1>3. /\ (AdminFromAccount(adminConfig) = Ok) <=> (adminConfig # NoData)
        /\ (Check(adminConfig # NoId, "AdminError::Renounced") = Ok)
             <=> (adminConfig # NoId)
        /\ (Check(Caller(a).account_id = adminConfig, "AdminError::NotAdmin")
              = Ok) <=> (a = adminConfig)
        /\ Check(Caller(a).is_authorized, "AdminError::MissingSignature") = Ok
    BY <1>1 DEF AdminFromAccount, Check, Ok
  <1> QED
    BY <1>2, <1>3, ThenOk DEF RequireAdmin, AssertAdmin

\* A candidate that validates is owned, and has signed unless it is a
\* derived address.
LEMMA ValidateOk ==
    ASSUME NEW c \in Candidates, NEW a \in Ids, NEW s \in BOOLEAN,
           Validate(c, AccountOf(a, s)) = Ok
    PROVE  a \in owned /\ (s \/ a \in Pdas)
  <1>1. AccountOf(a, s).account_id = a /\ AccountOf(a, s).is_authorized = s
           /\ AccountOf(a, s).owned = (a \in owned)
    BY DEF AccountOf
  <1>2. CASE c.kind = "Signer"
    <2>1. Check(AccountOf(a, s).account_id # NoId
                  /\ AccountOf(a, s).is_authorized, "InvalidCandidate") = Ok
             /\ Check(AccountOf(a, s).owned, "UnownedSigner") = Ok
      BY <1>2, ThenOk DEF Validate
    <2> QED
      BY <1>1, <2>1 DEF Check, Ok
  <1>3. CASE c.kind # "Signer"
    <2>1. Check(c.derived = AccountOf(a, s).account_id, "CandidateMismatch") = Ok
             /\ Check(AccountOf(a, s).owned, "UndeployedPda") = Ok
      BY <1>3, ThenOk DEF Validate
    <2>2. c.derived = a /\ a \in owned
      BY <1>1, <2>1 DEF Check, Ok
    <2>3. c.derived \in Pdas
      BY <1>3 DEF Candidates
    <2> QED
      BY <2>2, <2>3
  <1> QED
    BY <1>2, <1>3

----------------------------------------------------------------------------
(* The inductive invariant, as far as the library's variables go. *)

AuthorityInv == LedgerTypeOK /\ AdminTypeOK /\ FreezeTypeOK /\ RolesCanSign

USE DEF LedgerTypeOK, AdminTypeOK, FreezeTypeOK

\* What a transaction that lands does to the accounts.
LEMMA LandsKeepsAccounts ==
    ASSUME LedgerTypeOK, spent \cap owned = {},
           NEW A, NEW S \in SUBSET Ids, Lands(A, S)
    PROVE  LedgerTypeOK' /\ spent' \cap owned' = {} /\ owned' = owned
  BY DEF Lands

\* A config that was loaded is a proper one.
LEMMA ConfigType ==
    ASSUME FreezeTypeOK, FromAccount(freezeConfig) = Ok
    PROVE  freezeConfig \in FreezeConfigs /\ Holder = freezeConfig.slot.holder
             /\ Nominee = freezeConfig.slot.nominee
             /\ freezeConfig.slot \in Slots /\ freezeConfig.is_frozen \in BOOLEAN
  BY FromAccountOk DEF FreezeConfigs, Holder, Nominee, Initialized

\* The holder after a step that writes a config.
LEMMA NextHolder ==
    ASSUME freezeConfig' \in FreezeConfigs
    PROVE  Holder' = freezeConfig'.slot.holder
             /\ Nominee' = freezeConfig'.slot.nominee
             /\ Initialized'
  BY FreezeAuthorityAssumption DEF Holder, Nominee, Initialized

\* A config written by a step keeps the invariant when its holder is owned.
LEMMA WriteConfig ==
    ASSUME AuthorityInv, UNCHANGED <<adminConfig, frozenAccount>>,
           NEW A, NEW S \in SUBSET Ids, Lands(A, S),
           freezeConfig' \in FreezeConfigs,
           freezeConfig'.slot.holder \in owned \cup {NoId}
    PROVE  AuthorityInv'
  <1>1. LedgerTypeOK' /\ spent' \cap owned' = {} /\ owned' = owned
    BY LandsKeepsAccounts DEF AuthorityInv, RolesCanSign
  <1> QED
    BY <1>1, NextHolder DEF AuthorityInv, RolesCanSign

\* freeze_initialize seats its caller, which it has found to be owned.
LEMMA InitializeKeeps ==
    ASSUME AuthorityInv, NEW caller \in Ids, freeze_initialize(caller)
    PROVE  AuthorityInv'
  <1>1. BootstrapResult(ByCaller, Caller(caller)) = Ok
    BY ThenOk DEF freeze_initialize, freeze_initialize_result
  <1>2. Validate(ByCaller, AccountOf(caller, TRUE)) = Ok
    BY <1>1, ThenOk, FromErrorOk DEF BootstrapResult, Caller
  <1>3. ByCaller \in Candidates
    BY DEF ByCaller, Candidates
  <1>4. caller \in owned
    BY <1>2, <1>3, ValidateOk
  <1>5. freezeConfig' \in FreezeConfigs /\ freezeConfig'.slot.holder = caller
    BY DEF freeze_initialize, Bootstrap, SlotInitialize, FreezeConfigs, Slots,
           AccountId
  <1> QED
    BY <1>4, <1>5, WriteConfig DEF freeze_initialize

\* freeze_authority_transfer seats a candidate that validates.
LEMMA TransferKeeps ==
    ASSUME AuthorityInv, NEW caller \in Ids, NEW new \in Ids,
           NEW candidate \in Candidates, NEW cosigns \in BOOLEAN,
           freeze_authority_transfer(caller, new, candidate, cosigns)
    PROVE  AuthorityInv'
  <1>1. /\ FromAccount(freezeConfig) = Ok
        /\ TransferResult(candidate, AccountOf(new, cosigns)) = Ok
    BY ThenOk DEF freeze_authority_transfer, freeze_authority_transfer_result
  <1>2. Validate(candidate, AccountOf(new, cosigns)) = Ok
    BY <1>1, ThenOk, FromErrorOk DEF TransferResult
  <1>3. new \in owned
    BY <1>2, ValidateOk
  <1>4. freezeConfig \in FreezeConfigs
    BY <1>1, ConfigType DEF AuthorityInv
  <1>5. freezeConfig' \in FreezeConfigs /\ freezeConfig'.slot.holder = new
    BY <1>4 DEF freeze_authority_transfer, Transfer, SlotTransfer,
                FreezeConfigs, Slots, AccountId
  <1>6. PICK S \in SUBSET Ids : Lands({caller, new}, S)
    BY DEF freeze_authority_transfer
  <1> QED
    BY <1>3, <1>5, <1>6, WriteConfig DEF freeze_authority_transfer

\* freeze_authority_renounce vacates the slot.
LEMMA RenounceKeeps ==
    ASSUME AuthorityInv, NEW caller \in Ids, freeze_authority_renounce(caller)
    PROVE  AuthorityInv'
  <1>1. FromAccount(freezeConfig) = Ok
    BY ThenOk DEF freeze_authority_renounce, freeze_authority_renounce_result
  <1>2. freezeConfig \in FreezeConfigs
    BY <1>1, ConfigType DEF AuthorityInv
  <1>3. freezeConfig' \in FreezeConfigs /\ freezeConfig'.slot.holder = NoId
    BY <1>2 DEF freeze_authority_renounce, Renounce, SlotRenounce,
                FreezeConfigs, Slots, AccountId
  <1> QED
    BY <1>3, WriteConfig DEF freeze_authority_renounce

\* freeze_authority_nominate leaves the holder alone.
LEMMA NominateKeeps ==
    ASSUME AuthorityInv, NEW caller \in Ids, NEW next \in AccountId,
           freeze_authority_nominate(caller, next)
    PROVE  AuthorityInv'
  <1>1. FromAccount(freezeConfig) = Ok
    BY ThenOk DEF freeze_authority_nominate, freeze_authority_nominate_result
  <1>2. freezeConfig \in FreezeConfigs /\ Holder = freezeConfig.slot.holder
    BY <1>1, ConfigType DEF AuthorityInv
  <1>3. freezeConfig' \in FreezeConfigs
          /\ freezeConfig'.slot.holder = freezeConfig.slot.holder
    BY <1>2 DEF freeze_authority_nominate, Nominate, SlotNominate,
                FreezeConfigs, Slots
  <1> QED
    BY <1>2, <1>3, WriteConfig
       DEF freeze_authority_nominate, AuthorityInv, RolesCanSign

\* freeze_authority_accept seats its caller, the nominee, which is owned.
LEMMA AcceptKeeps ==
    ASSUME AuthorityInv, NEW caller \in Ids, freeze_authority_accept(caller)
    PROVE  AuthorityInv'
  <1>1. /\ FromAccount(freezeConfig) = Ok
        /\ SlotAcceptResult(freezeConfig.slot, Caller(caller)) = Ok
    BY ThenOk, FromErrorOk DEF freeze_authority_accept,
       freeze_authority_accept_result, AcceptResult
  <1>2. freezeConfig \in FreezeConfigs
    BY <1>1, ConfigType DEF AuthorityInv
  <1>3. /\ Check(Caller(caller).account_id = freezeConfig.slot.nominee,
                 "NotNominee") = Ok
        /\ Check(Caller(caller).owned, "UnownedSigner") = Ok
    BY <1>1, ThenOk DEF SlotAcceptResult
  <1>4. caller = freezeConfig.slot.nominee /\ caller \in owned
    BY <1>3 DEF Check, Ok, Caller, AccountOf
  <1>5. freezeConfig' \in FreezeConfigs /\ freezeConfig'.slot.holder = caller
    BY <1>2, <1>4 DEF freeze_authority_accept, Accept, SlotAccept,
                      FreezeConfigs, Slots, AccountId
  <1> QED
    BY <1>4, <1>5, WriteConfig DEF freeze_authority_accept

\* Freezing and releasing leave the slot alone.
LEMMA FreezeOrReleaseKeeps ==
    ASSUME AuthorityInv, FreezeOrRelease
    PROVE  AuthorityInv'
  <1>1. PICK caller \in Ids :
          \/ freeze_program(caller)
          \/ freeze_program_release(caller)
          \/ \E target \in Targets : \/ freeze_account(caller, target)
                                    \/ freeze_account_release(caller, target)
    BY DEF FreezeOrRelease
  <1>2. CASE freeze_program(caller) \/ freeze_program_release(caller)
    <2>1. FromAccount(freezeConfig) = Ok
      <3>1. CASE freeze_program(caller)
        BY <3>1, ThenOk DEF freeze_program, freeze_program_result
      <3>2. CASE freeze_program_release(caller)
        BY <3>2, ThenOk
           DEF freeze_program_release, freeze_program_release_result
      <3> QED
        BY <1>2, <3>1, <3>2
    <2>2. freezeConfig \in FreezeConfigs /\ Holder = freezeConfig.slot.holder
      BY <2>1, ConfigType DEF AuthorityInv
    <2>3. freezeConfig' \in FreezeConfigs
            /\ freezeConfig'.slot.holder = freezeConfig.slot.holder
      BY <1>2, <2>2 DEF freeze_program, freeze_program_release, SetIsFrozen,
                        FreezeConfigs
    <2>4. freezeConfig'.slot.holder \in owned \cup {NoId}
      BY <2>2, <2>3 DEF AuthorityInv, RolesCanSign
    <2>5. UNCHANGED <<adminConfig, frozenAccount>> /\ Lands({caller}, {caller})
      BY <1>2 DEF freeze_program, freeze_program_release
    <2> QED
      BY <2>3, <2>4, <2>5, WriteConfig
  <1>3. CASE \E target \in Targets : \/ freeze_account(caller, target)
                                    \/ freeze_account_release(caller, target)
    <2>1. PICK target \in Targets : \/ freeze_account(caller, target)
                                   \/ freeze_account_release(caller, target)
      BY <1>3
    <2>2. frozenAccount' \in [Ids -> {NoData} \cup FrozenAccountStates]
      <3>1. PICK flag \in BOOLEAN :
              frozenAccount' = [frozenAccount EXCEPT
                                  ![target] = [is_frozen |-> flag]]
        BY <2>1 DEF freeze_account, freeze_account_release
      <3>2. [is_frozen |-> flag] \in FrozenAccountStates
        BY DEF FrozenAccountStates
      <3> QED
        BY <3>1, <3>2 DEF AuthorityInv
    <2>3. UNCHANGED <<adminConfig, freezeConfig>> /\ Lands({caller}, {caller})
      BY <2>1 DEF freeze_account, freeze_account_release
    <2>4. LedgerTypeOK' /\ spent' \cap owned' = {} /\ owned' = owned
      BY <2>3, LandsKeepsAccounts DEF AuthorityInv, RolesCanSign
    <2>5. Holder' = Holder
      BY <2>3 DEF Holder, Initialized
    <2> QED
      BY <2>2, <2>3, <2>4, <2>5 DEF AuthorityInv, RolesCanSign
  <1> QED
    BY <1>1, <1>2, <1>3

\* The admin extension seats owned accounts only, and nothing of freeze.
LEMMA AdminKeeps ==
    ASSUME AuthorityInv, AdminInitialization \/ AdminManagement
    PROVE  AuthorityInv'
  <1>1. UNCHANGED freezeVars
    BY DEF AdminInitialization, AdminManagement
  <1>2. PICK caller \in Ids :
          \/ admin_initialize(caller)
          \/ \E new \in Ids, candidate \in Candidates, cosigns \in BOOLEAN :
                 admin_transfer(caller, new, candidate, cosigns)
          \/ admin_accept(caller)
          \/ admin_renounce(caller)
    BY DEF AdminInitialization, AdminManagement
  <1>3. adminConfig' \in owned \cup {NoId}
          /\ \E A, S \in SUBSET Ids : Lands(A, S)
    <2>1. CASE admin_initialize(caller)
      <3>1. Validate(ByCaller, AccountOf(caller, TRUE)) = Ok
        BY <2>1, ThenOk DEF admin_initialize, AdminBootstrapResult, ByCaller,
                            Caller
      <3>2. ByCaller \in Candidates
        BY DEF ByCaller, Candidates
      <3> QED
        BY <2>1, <3>1, <3>2, ValidateOk DEF admin_initialize
    <2>2. ASSUME NEW new \in Ids, NEW candidate \in Candidates,
                 NEW cosigns \in BOOLEAN,
                 admin_transfer(caller, new, candidate, cosigns)
          PROVE  adminConfig' \in owned \cup {NoId}
                   /\ \E A, S \in SUBSET Ids : Lands(A, S)
      BY <2>2, ValidateOk DEF admin_transfer
    <2>3. CASE admin_accept(caller)
      BY <2>3 DEF admin_accept
    <2>4. CASE admin_renounce(caller)
      BY <2>4 DEF admin_renounce
    <2> QED
      BY <1>2, <2>1, <2>2, <2>3, <2>4
  <1>4. LedgerTypeOK' /\ spent' \cap owned' = {} /\ owned' = owned
    BY <1>3, LandsKeepsAccounts DEF AuthorityInv, RolesCanSign
  <1> QED
    BY <1>1, <1>3, <1>4
       DEF AuthorityInv, RolesCanSign, Holder, Initialized, freezeVars, AccountId

\* Outside the program an account can only gain an owner or be stranded, and
\* only an account without an owner can be.
LEMMA ElsewhereKeeps ==
    ASSUME AuthorityInv, Elsewhere
    PROVE  AuthorityInv'
  <1>1. LedgerTypeOK' /\ spent' \cap owned' = {} /\ owned \subseteq owned'
    BY LandsKeepsAccounts
       DEF Elsewhere, AccountInit, OtherTransaction, AuthorityInv, RolesCanSign
  <1>2. UNCHANGED <<adminConfig, freezeVars>>
    BY DEF Elsewhere
  <1> QED
    BY <1>1, <1>2
       DEF AuthorityInv, RolesCanSign, Holder, Initialized, freezeVars

----------------------------------------------------------------------------
(* What the invariant gives the people in the roles. *)

\* Every instruction that the auto-wrap exempts starts in its handler.
LEMMA GateOk ==
    ASSUME NEW i \in FreezeExempt, NEW a
    PROVE  Gate(i, a) = Ok
  BY DEF Gate

\* The dual path of renounce and nominate, for a signed caller.
LEMMA DualPathOk ==
    ASSUME freezeConfig \in FreezeConfigs, NEW a \in Ids
    PROVE  (DualPath(adminConfig, freezeConfig, Caller(a)) = Ok)
             <=> (a = adminConfig \/ a = freezeConfig.slot.holder)
  <1>1. (adminConfig # NoData /\ AssertAdmin(adminConfig, Caller(a)) = Ok)
          <=> (RequireAdmin(a) = Ok)
    BY ThenOk DEF RequireAdmin, AdminFromAccount, Check, Ok
  <1>2. (DualPath(adminConfig, freezeConfig, Caller(a)) = Ok)
          <=> \/ adminConfig # NoData
                   /\ AssertAdmin(adminConfig, Caller(a)) = Ok
              \/ SlotAssert(freezeConfig.slot, Caller(a)) = Ok
    BY DEF DualPath, Check, Ok
  <1> QED
    BY <1>1, <1>2, RequireAdminOk, SlotAssertOk

\* In every state of the invariant the holder can work the brake.
LEMMA BrakeWorks ==
    ASSUME AuthorityInv
    PROVE  HolderKeepsBrake
  <1> SUFFICES ASSUME Holder # NoId
               PROVE  /\ Holder \notin spent
                      /\ IF ProgramFrozen
                         THEN freeze_program_release_result(Holder) = Ok
                         ELSE \/ freeze_program_result(Holder) = Ok
                              \/ freeze_account_release_result(Holder, Holder)
                                   = Ok
    BY DEF HolderKeepsBrake
  <1>1. Holder \in owned /\ Holder \notin spent /\ Holder \in Ids
    BY DEF AuthorityInv, RolesCanSign
  <1>2. FromAccount(freezeConfig) = Ok
    BY FromAccountOk DEF Holder, Initialized
  <1>3. freezeConfig \in FreezeConfigs /\ freezeConfig.slot.holder = Holder
    BY <1>2, ConfigType DEF AuthorityInv
  <1>4. AssertHolder(freezeConfig, Caller(Holder)) = Ok
    BY <1>1, <1>3, AssertHolderOk
  <1>5. CASE ProgramFrozen
    <2>1. Gate("freeze_program_release", Holder) = Ok
      BY GateOk DEF FreezeExempt, MarkedExempt
    <2> QED
      BY <1>1, <1>2, <1>4, <1>5, <2>1, ThenOk DEF freeze_program_release_result
  <1>6. CASE ~ProgramFrozen
    <2>1. ~freezeConfig.is_frozen
      BY <1>2, <1>6, FromAccountOk DEF ProgramFrozen, Initialized
    <2>2. CASE FromDataOrDefault(frozenAccount[Holder]).is_frozen
      <3>1. Check(FromDataOrDefault(frozenAccount[Holder]).is_frozen,
                  "AccountNotFrozen") = Ok
        BY <2>2 DEF Check
      <3>2. PerformReleaseResult(freezeConfig, frozenAccount[Holder],
                                 Caller(Holder)) = Ok
        BY <1>4, <3>1, ThenOk DEF PerformReleaseResult
      <3>3. Gate("freeze_account_release", Holder) = Ok
        BY GateOk DEF FreezeExempt, MarkedExempt
      <3> QED
        BY <1>1, <1>2, <1>6, <3>2, <3>3, ThenOk
           DEF freeze_account_release_result
    <2>3. CASE ~FromDataOrDefault(frozenAccount[Holder]).is_frozen
      <3>1. /\ Check(~freezeConfig.is_frozen, "Frozen") = Ok
            /\ Check(~FromDataOrDefault(frozenAccount[Holder]).is_frozen,
                     "AccountFrozen") = Ok
        BY <2>1, <2>3 DEF Check
      <3>2. Gate("freeze_program", Holder) = Ok
        BY <1>2, <3>1, ThenOk DEF Gate, RequireNotFrozen
      <3> QED
        BY <1>1, <1>2, <1>4, <1>6, <3>2, ThenOk DEF freeze_program_result
    <2> QED
      BY <2>2, <2>3
  <1> QED
    BY <1>5, <1>6

\* In every state of the invariant the admin can take the role.
LEMMA RecoveryWorks ==
    ASSUME AuthorityInv
    PROVE  AdminCanRecover
  <1> SUFFICES ASSUME HasAdmin, Initialized
               PROVE  /\ adminConfig \notin spent
                      /\ freeze_authority_nominate_result(adminConfig) = Ok
                      /\ Nominee = adminConfig =>
                             freeze_authority_accept_result(adminConfig) = Ok
    BY DEF AdminCanRecover
  <1>1. adminConfig \in Ids /\ adminConfig \in owned /\ adminConfig \notin spent
    BY IdsAssumption, FreezeAuthorityAssumption
       DEF HasAdmin, AuthorityInv, RolesCanSign, AccountId
  <1>2. FromAccount(freezeConfig) = Ok
    BY FromAccountOk DEF Initialized
  <1>3. freezeConfig \in FreezeConfigs /\ Nominee = freezeConfig.slot.nominee
    BY <1>2, ConfigType DEF AuthorityInv
  <1>4. Gate("freeze_authority_nominate", adminConfig) = Ok
          /\ Gate("freeze_authority_accept", adminConfig) = Ok
    BY GateOk DEF FreezeExempt, MarkedExempt
  <1>5. freeze_authority_nominate_result(adminConfig) = Ok
    BY <1>1, <1>2, <1>3, <1>4, DualPathOk, ThenOk
       DEF freeze_authority_nominate_result
  <1>6. ASSUME Nominee = adminConfig
        PROVE  freeze_authority_accept_result(adminConfig) = Ok
    <2>1. Caller(adminConfig).account_id = adminConfig
            /\ Caller(adminConfig).is_authorized /\ Caller(adminConfig).owned
      BY <1>1 DEF Caller, AccountOf
    <2>2. /\ Check(freezeConfig.slot.nominee # NoId, "NoNomination") = Ok
          /\ Check(Caller(adminConfig).is_authorized, "MissingSignature") = Ok
          /\ Check(Caller(adminConfig).account_id = freezeConfig.slot.nominee,
                   "NotNominee") = Ok
          /\ Check(Caller(adminConfig).owned, "UnownedSigner") = Ok
      BY <1>1, <1>3, <1>6, <2>1, IdsAssumption DEF Check
    <2>3. SlotAcceptResult(freezeConfig.slot, Caller(adminConfig)) = Ok
      BY <2>2, ThenOk DEF SlotAcceptResult
    <2>4. AcceptResult(freezeConfig, Caller(adminConfig)) = Ok
      BY <2>3, FromErrorOk DEF AcceptResult
    <2> QED
      BY <1>2, <1>4, <2>4, ThenOk DEF freeze_authority_accept_result
  <1> QED
    BY <1>1, <1>5, <1>6

----------------------------------------------------------------------------
(* Who can move what. *)

LibraryStep == AdminInitialization \/ AdminManagement \/ FreezeInitialization
                 \/ Nomination \/ RoleChange \/ FreezeOrRelease

\* The transfer is the admin's.
LEMMA TransferByAdmin ==
    ASSUME NEW caller \in Ids, NEW new, NEW candidate, NEW cosigns,
           freeze_authority_transfer_result(caller, new, candidate, cosigns) = Ok
    PROVE  adminConfig = caller /\ FromAccount(freezeConfig) = Ok
  <1>1. /\ AdminFromAccount(adminConfig) = Ok
        /\ AssertAdmin(adminConfig, Caller(caller)) = Ok
        /\ FromAccount(freezeConfig) = Ok
    BY ThenOk DEF freeze_authority_transfer_result
  <1>2. RequireAdmin(caller) = Ok
    BY <1>1, ThenOk DEF RequireAdmin
  <1> QED
    BY <1>1, <1>2, RequireAdminOk

\* The four freeze and release instructions are the holder's.
LEMMA FreezeByHolder ==
    ASSUME AuthorityInv, NEW caller \in Ids, NEW target,
           \/ freeze_program_result(caller) = Ok
           \/ freeze_program_release_result(caller) = Ok
           \/ freeze_account_result(caller) = Ok
           \/ freeze_account_release_result(caller, target) = Ok
    PROVE  Holder = caller /\ freezeConfig \in FreezeConfigs
  <1>1. FromAccount(freezeConfig) = Ok
          /\ AssertHolder(freezeConfig, Caller(caller)) = Ok
    <2>1. CASE freeze_program_result(caller) = Ok
      BY <2>1, ThenOk DEF freeze_program_result
    <2>2. CASE freeze_program_release_result(caller) = Ok
      BY <2>2, ThenOk DEF freeze_program_release_result
    <2>3. CASE freeze_account_result(caller) = Ok
      BY <2>3, ThenOk DEF freeze_account_result, PerformFreezeResult
    <2>4. CASE freeze_account_release_result(caller, target) = Ok
      BY <2>4, ThenOk DEF freeze_account_release_result, PerformReleaseResult
    <2> QED
      BY <2>1, <2>2, <2>3, <2>4
  <1>2. freezeConfig \in FreezeConfigs /\ Holder = freezeConfig.slot.holder
    BY <1>1, ConfigType DEF AuthorityInv
  <1> QED
    BY <1>1, <1>2, AssertHolderOk

\* With the admin renounced and the slot vacant, nobody passes a check.
LEMMA AbandonedStops ==
    ASSUME AuthorityInv, Abandoned, LibraryStep \/ Elsewhere
    PROVE  UNCHANGED <<adminConfig, freezeVars>>
  <1>1. /\ \A caller \in Ids : RequireAdmin(caller) # Ok /\ caller # Holder
        /\ adminConfig # NoData
    BY RequireAdminOk, IdsAssumption, FreezeAuthorityAssumption
       DEF Abandoned, AccountId
  <1>2. ~AdminInitialization
    BY <1>1 DEF AdminInitialization, admin_initialize
  <1>3. ~AdminManagement
    BY <1>1, IdsAssumption
       DEF AdminManagement, admin_transfer, admin_accept, admin_renounce,
           HasAdmin, Abandoned
  <1>4. ~FreezeInitialization
    <2>1. ASSUME NEW caller \in Ids, freeze_initialize_result(caller) = Ok
          PROVE  RequireAdmin(caller) = Ok
      BY <2>1, ThenOk DEF freeze_initialize_result
    <2> QED
      BY <1>1, <2>1 DEF FreezeInitialization, freeze_initialize
  <1>5. ASSUME NEW caller \in Ids, FromAccount(freezeConfig) = Ok
        PROVE  DualPath(adminConfig, freezeConfig, Caller(caller)) # Ok
    <2>1. freezeConfig \in FreezeConfigs /\ Holder = freezeConfig.slot.holder
      BY <1>5, ConfigType DEF AuthorityInv
    <2> QED
      BY <2>1, DualPathOk, IdsAssumption DEF Abandoned
  <1>6. ~Nomination
    BY <1>5, ThenOk DEF Nomination, freeze_authority_nominate,
                        freeze_authority_nominate_result
  <1>7. ~RoleChange
    <2>1. ASSUME NEW caller \in Ids, NEW new \in Ids,
                 NEW candidate \in Candidates, NEW cosigns \in BOOLEAN
          PROVE  ~freeze_authority_transfer(caller, new, candidate, cosigns)
      BY TransferByAdmin, IdsAssumption DEF freeze_authority_transfer, Abandoned
    <2>2. ASSUME NEW caller \in Ids
          PROVE  ~freeze_authority_renounce(caller)
      BY <1>5, ThenOk DEF freeze_authority_renounce,
                          freeze_authority_renounce_result
    <2>3. ASSUME NEW caller \in Ids, freeze_authority_accept(caller)
          PROVE  FALSE
      <3>1. /\ FromAccount(freezeConfig) = Ok
            /\ SlotAcceptResult(freezeConfig.slot, Caller(caller)) = Ok
        BY <2>3, ThenOk, FromErrorOk DEF freeze_authority_accept,
           freeze_authority_accept_result, AcceptResult
      <3>2. Nominee = freezeConfig.slot.nominee
        BY <3>1, ConfigType DEF AuthorityInv
      <3>3. Check(freezeConfig.slot.nominee # NoId, "NoNomination") = Ok
        BY <3>1, ThenOk DEF SlotAcceptResult
      <3> QED
        BY <3>2, <3>3 DEF Check, Ok, Abandoned
    <2> QED
      BY <2>1, <2>2, <2>3 DEF RoleChange
  <1>8. ~FreezeOrRelease
    BY <1>1, FreezeByHolder
       DEF FreezeOrRelease, freeze_program, freeze_program_release,
           freeze_account, freeze_account_release
  <1>9. Elsewhere
    BY <1>2, <1>3, <1>4, <1>6, <1>7, <1>8 DEF LibraryStep
  <1> QED
    BY <1>9 DEF Elsewhere

\* The role changes hands without touching a freeze, and a freeze changes
\* without touching the role.
LEMMA FreezesAreTheHolders ==
    ASSUME AuthorityInv, Initialized, LibraryStep \/ Elsewhere
    PROVE  FreezeStep
  <1>1. freezeConfig \in FreezeConfigs
    BY DEF AuthorityInv, Initialized
  <1>2. CASE AdminInitialization \/ AdminManagement \/ Elsewhere
    BY <1>2 DEF AdminInitialization, AdminManagement, Elsewhere, freezeVars,
                FreezeStep
  <1>3. CASE FreezeInitialization
    <2>1. PICK caller \in Ids : freeze_initialize(caller)
      BY <1>3 DEF FreezeInitialization
    <2>2. Check(freezeConfig = NoData, "AccountAlreadyInitialized") = Ok
      BY <2>1, ThenOk DEF freeze_initialize, freeze_initialize_result
    <2> QED
      BY <2>2 DEF Check, Ok, Initialized
  <1>4. CASE Nomination
    <2>1. PICK caller \in Ids, next \in AccountId :
            freeze_authority_nominate(caller, next)
      BY <1>4 DEF Nomination
    <2> QED
      BY <1>1, <2>1 DEF freeze_authority_nominate, Nominate, FreezeConfigs,
                        FreezeStep
  <1>5. CASE RoleChange
    <2>1. UNCHANGED frozenAccount
            /\ freezeConfig' \in {[freezeConfig EXCEPT !.slot = s] :
                                    s \in {SlotTransfer(freezeConfig.slot, new) :
                                             new \in Ids}
                                        \cup {SlotRenounce(freezeConfig.slot),
                                              SlotAccept(freezeConfig.slot)}}
      BY <1>5 DEF RoleChange, freeze_authority_transfer,
                  freeze_authority_renounce, freeze_authority_accept,
                  Transfer, Renounce, Accept
    <2> QED
      BY <1>1, <2>1 DEF FreezeConfigs, FreezeStep
  <1>6. CASE FreezeOrRelease
    <2>1. PICK caller \in Ids :
            \/ freeze_program(caller)
            \/ freeze_program_release(caller)
            \/ \E target \in Targets : \/ freeze_account(caller, target)
                                      \/ freeze_account_release(caller, target)
      BY <1>6 DEF FreezeOrRelease
    <2>2. Holder = caller
      BY <2>1, FreezeByHolder
         DEF freeze_program, freeze_program_release, freeze_account,
             freeze_account_release
    <2>3. Lands({caller}, {caller})
      BY <2>1 DEF freeze_program, freeze_program_release, freeze_account,
                  freeze_account_release
    <2>4. freezeConfig'.slot = freezeConfig.slot
      BY <1>1, <2>1
         DEF freeze_program, freeze_program_release, freeze_account,
             freeze_account_release, SetIsFrozen, FreezeConfigs
    <2> QED
      BY <2>2, <2>3, <2>4 DEF Lands, FreezeStep
  <1> QED
    BY <1>2, <1>3, <1>4, <1>5, <1>6 DEF LibraryStep

\* Every step of the library and of the accounts keeps the invariant.
LEMMA LibraryKeeps ==
    ASSUME AuthorityInv, LibraryStep \/ Elsewhere
    PROVE  AuthorityInv'
  <1>1. CASE AdminInitialization \/ AdminManagement
    BY <1>1, AdminKeeps
  <1>2. CASE FreezeInitialization
    BY <1>2, InitializeKeeps DEF FreezeInitialization
  <1>3. CASE Nomination
    BY <1>3, NominateKeeps DEF Nomination
  <1>4. CASE RoleChange
    BY <1>4, TransferKeeps, RenounceKeeps, AcceptKeeps DEF RoleChange
  <1>5. CASE FreezeOrRelease
    BY <1>5, FreezeOrReleaseKeeps
  <1>6. CASE Elsewhere
    BY <1>6, ElsewhereKeeps
  <1> QED
    BY <1>1, <1>2, <1>3, <1>4, <1>5, <1>6 DEF LibraryStep

\* A transaction that lands and leaves both extensions alone keeps it too.
LEMMA OwnStepKeeps ==
    ASSUME AuthorityInv, UNCHANGED <<adminConfig, freezeVars>>,
           NEW A, NEW S \in SUBSET Ids, Lands(A, S)
    PROVE  AuthorityInv'
  <1>1. LedgerTypeOK' /\ spent' \cap owned' = {} /\ owned' = owned
    BY LandsKeepsAccounts DEF AuthorityInv, RolesCanSign
  <1>2. Holder' = Holder
    BY DEF Holder, Initialized, freezeVars
  <1> QED
    BY <1>1, <1>2 DEF AuthorityInv, RolesCanSign, freezeVars

\* So does a step that does nothing.
LEMMA StutterKeeps ==
    ASSUME AuthorityInv, UNCHANGED <<ledgerVars, adminConfig, freezeVars>>
    PROVE  AuthorityInv'
  BY DEF AuthorityInv, RolesCanSign, Holder, Initialized, ledgerVars, freezeVars

\* In every state of the invariant whoever is in charge can withdraw the
\* nomination.
LEMMA RevocationWorks ==
    ASSUME AuthorityInv
    PROVE  NominationRevocable
  <1> SUFFICES ASSUME Nominee # NoId, NEW a \in {adminConfig, Holder} \cap Ids
               PROVE  /\ a \notin spent
                      /\ freeze_authority_nominate_result(a) = Ok
    BY DEF NominationRevocable
  <1>1. a \in owned /\ a \notin spent
    BY IdsAssumption, FreezeAuthorityAssumption
       DEF AuthorityInv, RolesCanSign, AccountId
  <1>2. FromAccount(freezeConfig) = Ok
    BY FromAccountOk DEF Nominee, Initialized
  <1>3. freezeConfig \in FreezeConfigs /\ Holder = freezeConfig.slot.holder
    BY <1>2, ConfigType DEF AuthorityInv
  <1>4. Gate("freeze_authority_nominate", a) = Ok
    BY GateOk DEF FreezeExempt, MarkedExempt
  <1>5. DualPath(adminConfig, freezeConfig, Caller(a)) = Ok
    BY <1>3, DualPathOk
  <1> QED
    BY <1>1, <1>2, <1>4, <1>5, ThenOk DEF freeze_authority_nominate_result

\* A frozen marker is not an empty one.
LEMMA FrozenIsData == NoData # [is_frozen |-> TRUE]
  <1>1. [is_frozen |-> TRUE] \in FrozenAccountStates
    BY DEF FrozenAccountStates
  <1> QED
    BY <1>1, FreezeAuthorityAssumption

\* Whom the gate lets through.
LEMMA GatePasses ==
    ASSUME AuthorityInv, NEW caller \in Ids, RequireNotFrozen(caller) = Ok
    PROVE  /\ Initialized /\ ~ProgramFrozen
           /\ frozenAccount[caller] # [is_frozen |-> TRUE]
  <1>1. /\ FromAccount(freezeConfig) = Ok
        /\ Check(~freezeConfig.is_frozen, "Frozen") = Ok
        /\ Check(~FromDataOrDefault(frozenAccount[caller]).is_frozen,
                 "AccountFrozen") = Ok
    BY ThenOk DEF RequireNotFrozen
  <1>2. /\ freezeConfig # NoData /\ ~freezeConfig.is_frozen
        /\ ~FromDataOrDefault(frozenAccount[caller]).is_frozen
    BY <1>1, FromAccountOk DEF Check, Ok
  <1>3. ASSUME frozenAccount[caller] = [is_frozen |-> TRUE]
        PROVE  FALSE
    <2>1. frozenAccount[caller] # NoData
      BY <1>3, FrozenIsData
    <2>2. FromDataOrDefault(frozenAccount[caller]).is_frozen
      BY <1>3, <2>1 DEF FromDataOrDefault
    <2> QED
      BY <1>2, <2>2
  <1> QED
    BY <1>2, <1>3 DEF Initialized, ProgramFrozen

----------------------------------------------------------------------------
(* Every step is one that AuthorityLifecycle allows. *)

\* A write of the slot alone, as the lifecycle sees it.
LEMMA SlotWrite ==
    ASSUME freezeConfig \in FreezeConfigs, freezeConfig' \in FreezeConfigs,
           freezeConfig'.is_frozen = freezeConfig.is_frozen,
           UNCHANGED <<adminConfig, frozenAccount>>
    PROVE  /\ SlotHolder = freezeConfig.slot.holder /\ SlotHolder # NoData
           /\ Nominee = freezeConfig.slot.nominee
           /\ SlotHolder' = freezeConfig'.slot.holder
           /\ Nominee' = freezeConfig'.slot.nominee
           /\ adminConfig' = adminConfig
           /\ ProgramFrozen' = ProgramFrozen /\ FrozenAccounts' = FrozenAccounts
  BY FreezeAuthorityAssumption
     DEF SlotHolder, Holder, Nominee, Initialized, ProgramFrozen,
         FrozenAccounts, FreezeConfigs, Slots

\* The signatures of a landed transaction.
LEMMA LandsSigned ==
    ASSUME NEW A, NEW S, Lands(A, S)
    PROVE  authorized' = S
  BY DEF Lands

\* A transfer is an appointment by the admin.
LEMMA TransferAppoints ==
    ASSUME AuthorityInv, NEW caller \in Ids, NEW new \in Ids,
           NEW candidate \in Candidates, NEW cosigns \in BOOLEAN,
           freeze_authority_transfer(caller, new, candidate, cosigns)
    PROVE  Lifecycle!Appoint(new)
  <1>1. adminConfig = caller /\ FromAccount(freezeConfig) = Ok
    BY TransferByAdmin DEF freeze_authority_transfer
  <1>2. freezeConfig \in FreezeConfigs
    BY <1>1, ConfigType DEF AuthorityInv
  <1>3. /\ freezeConfig' \in FreezeConfigs
        /\ freezeConfig'.slot.holder = new /\ freezeConfig'.slot.nominee = NoId
        /\ freezeConfig'.is_frozen = freezeConfig.is_frozen
    BY <1>2 DEF freeze_authority_transfer, Transfer, SlotTransfer,
                FreezeConfigs, Slots, AccountId
  <1>4. caller \in authorized' /\ (cosigns => new \in authorized')
    BY DEF freeze_authority_transfer, Lands
  <1>5. cosigns \/ new \in Pdas
    <2>1. TransferResult(candidate, AccountOf(new, cosigns)) = Ok
      BY ThenOk DEF freeze_authority_transfer, freeze_authority_transfer_result
    <2>2. Validate(candidate, AccountOf(new, cosigns)) = Ok
      BY <2>1, ThenOk, FromErrorOk DEF TransferResult
    <2> QED
      BY <2>2, ValidateOk
  <1>6. UNCHANGED <<adminConfig, frozenAccount>>
    BY DEF freeze_authority_transfer
  <1> QED
    BY <1>1, <1>2, <1>3, <1>4, <1>5, <1>6, SlotWrite
       DEF Lifecycle!Appoint, Lifecycle!Agrees, Lifecycle!freezes

\* A renounce is the admin's or the holder's.
LEMMA RenounceVacates ==
    ASSUME AuthorityInv, NEW caller \in Ids, freeze_authority_renounce(caller)
    PROVE  Lifecycle!Vacate
  <1>1. /\ FromAccount(freezeConfig) = Ok
        /\ DualPath(adminConfig, freezeConfig, Caller(caller)) = Ok
    BY ThenOk DEF freeze_authority_renounce, freeze_authority_renounce_result
  <1>2. freezeConfig \in FreezeConfigs
    BY <1>1, ConfigType DEF AuthorityInv
  <1>3. caller \in {adminConfig, freezeConfig.slot.holder}
    BY <1>1, <1>2, DualPathOk
  <1>4. /\ freezeConfig' \in FreezeConfigs
        /\ freezeConfig'.slot.holder = NoId /\ freezeConfig'.slot.nominee = NoId
        /\ freezeConfig'.is_frozen = freezeConfig.is_frozen
    BY <1>2 DEF freeze_authority_renounce, Renounce, SlotRenounce,
                FreezeConfigs, Slots, AccountId
  <1>5. caller \in authorized' /\ UNCHANGED <<adminConfig, frozenAccount>>
    BY DEF freeze_authority_renounce, Lands
  <1> QED
    BY <1>2, <1>3, <1>4, <1>5, SlotWrite DEF Lifecycle!Vacate, Lifecycle!freezes

\* A nomination is an offer by the admin or the holder.
LEMMA NominationOffers ==
    ASSUME AuthorityInv, NEW caller \in Ids, NEW next \in AccountId,
           freeze_authority_nominate(caller, next)
    PROVE  Lifecycle!Offer
  <1>1. /\ FromAccount(freezeConfig) = Ok
        /\ DualPath(adminConfig, freezeConfig, Caller(caller)) = Ok
    BY ThenOk DEF freeze_authority_nominate, freeze_authority_nominate_result
  <1>2. freezeConfig \in FreezeConfigs
    BY <1>1, ConfigType DEF AuthorityInv
  <1>3. caller \in {adminConfig, freezeConfig.slot.holder}
    BY <1>1, <1>2, DualPathOk
  <1>4. /\ freezeConfig' \in FreezeConfigs
        /\ freezeConfig'.slot.holder = freezeConfig.slot.holder
        /\ freezeConfig'.slot.nominee = next
        /\ freezeConfig'.is_frozen = freezeConfig.is_frozen
    BY <1>2 DEF freeze_authority_nominate, Nominate, SlotNominate,
                FreezeConfigs, Slots
  <1>5. caller \in authorized' /\ UNCHANGED <<adminConfig, frozenAccount>>
    BY DEF freeze_authority_nominate, Lands
  <1> QED
    BY <1>2, <1>3, <1>4, <1>5, SlotWrite
       DEF Lifecycle!Offer, Lifecycle!freezes, AccountId

\* An accept is the nominee's own.
LEMMA AcceptTakesUp ==
    ASSUME AuthorityInv, NEW caller \in Ids, freeze_authority_accept(caller)
    PROVE  Lifecycle!TakeUp
  <1>1. /\ FromAccount(freezeConfig) = Ok
        /\ SlotAcceptResult(freezeConfig.slot, Caller(caller)) = Ok
    BY ThenOk, FromErrorOk
       DEF freeze_authority_accept, freeze_authority_accept_result, AcceptResult
  <1>2. freezeConfig \in FreezeConfigs
    BY <1>1, ConfigType DEF AuthorityInv
  <1>3. caller = freezeConfig.slot.nominee /\ caller # NoId
    <2>1. /\ Check(freezeConfig.slot.nominee # NoId, "NoNomination") = Ok
          /\ Check(Caller(caller).account_id = freezeConfig.slot.nominee,
                   "NotNominee") = Ok
      BY <1>1, ThenOk DEF SlotAcceptResult
    <2>2. Caller(caller).account_id = caller
      BY DEF Caller, AccountOf
    <2> QED
      BY <2>1, <2>2 DEF Check, Ok
  <1>4. /\ freezeConfig' \in FreezeConfigs
        /\ freezeConfig'.slot.holder = freezeConfig.slot.nominee
        /\ freezeConfig'.slot.nominee = NoId
        /\ freezeConfig'.is_frozen = freezeConfig.is_frozen
    BY <1>2 DEF freeze_authority_accept, Accept, SlotAccept, FreezeConfigs,
                Slots, AccountId
  <1>5. caller \in authorized' /\ UNCHANGED <<adminConfig, frozenAccount>>
    BY DEF freeze_authority_accept, Lands
  <1> QED
    BY <1>2, <1>3, <1>4, <1>5, SlotWrite DEF Lifecycle!TakeUp, Lifecycle!freezes

\* The four freezes and releases are the holder's brake.
LEMMA FreezeBrakes ==
    ASSUME AuthorityInv, FreezeOrRelease
    PROVE  Lifecycle!Brake
  <1>1. PICK caller \in Ids :
          \/ freeze_program(caller)
          \/ freeze_program_release(caller)
          \/ \E target \in Targets : \/ freeze_account(caller, target)
                                    \/ freeze_account_release(caller, target)
    BY DEF FreezeOrRelease
  <1>2. Holder = caller /\ freezeConfig \in FreezeConfigs
    BY <1>1, FreezeByHolder
       DEF freeze_program, freeze_program_release, freeze_account,
           freeze_account_release
  <1>3. caller \in authorized' /\ adminConfig' = adminConfig
    BY <1>1 DEF freeze_program, freeze_program_release, freeze_account,
                freeze_account_release, Lands
  <1>4. SlotHolder = caller /\ Initialized
    BY <1>2, FreezeAuthorityAssumption DEF SlotHolder, Initialized
  <1>5. CASE freeze_program(caller) \/ freeze_program_release(caller)
    <2>1. /\ freezeConfig' \in FreezeConfigs
          /\ freezeConfig'.slot = freezeConfig.slot
          /\ frozenAccount' = frozenAccount
      BY <1>2, <1>5 DEF freeze_program, freeze_program_release, SetIsFrozen,
                        FreezeConfigs
    <2>2. SlotHolder' = SlotHolder /\ Nominee' = Nominee
      BY <1>2, <2>1, FreezeAuthorityAssumption
         DEF SlotHolder, Holder, Nominee, Initialized
    <2>3. ProgramFrozen' \in BOOLEAN /\ FrozenAccounts' = FrozenAccounts
      BY <2>1, FreezeAuthorityAssumption
         DEF ProgramFrozen, Initialized, FrozenAccounts, FreezeConfigs
    <2> QED
      BY <1>3, <1>4, <2>2, <2>3 DEF Lifecycle!Brake, Lifecycle!slot
  <1>6. ASSUME NEW target \in Targets,
               \/ freeze_account(caller, target)
               \/ freeze_account_release(caller, target)
        PROVE  Lifecycle!Brake
    <2>1. freezeConfig' = freezeConfig /\ target \in Ids
          /\ \E flag \in BOOLEAN :
                frozenAccount' = [frozenAccount EXCEPT
                                    ![target] = [is_frozen |-> flag]]
      BY <1>6, FreezeAuthorityAssumption
         DEF freeze_account, freeze_account_release
    <2>2. SlotHolder' = SlotHolder /\ Nominee' = Nominee
          /\ ProgramFrozen' = ProgramFrozen
      BY <2>1 DEF SlotHolder, Holder, Nominee, Initialized, ProgramFrozen
    <2>3. PICK flag \in BOOLEAN :
            frozenAccount' = [frozenAccount EXCEPT
                                ![target] = [is_frozen |-> flag]]
      BY <2>1
    <2>4. \A a \in Ids : frozenAccount'[a] =
            IF a = target THEN [is_frozen |-> flag] ELSE frozenAccount[a]
      BY <2>1, <2>3 DEF AuthorityInv
    <2>5. [is_frozen |-> TRUE] # [is_frozen |-> FALSE]
      <3>1. [is_frozen |-> TRUE].is_frozen # [is_frozen |-> FALSE].is_frozen
        OBVIOUS
      <3> QED
        BY <3>1
    <2>6. FrozenAccounts' \in {FrozenAccounts \cup {target},
                               FrozenAccounts \ {target}}
      <3>1. CASE flag = TRUE
        BY <2>1, <2>4, <3>1 DEF FrozenAccounts
      <3>2. CASE flag = FALSE
        BY <2>1, <2>4, <2>5, <3>2 DEF FrozenAccounts
      <3> QED
        BY <3>1, <3>2
    <2> QED
      BY <1>3, <1>4, <2>1, <2>2, <2>6 DEF Lifecycle!Brake, Lifecycle!slot
  <1> QED
    BY <1>1, <1>5, <1>6

\* The views of the freeze extension stand still with its variables.
LEMMA ViewsStandStill ==
    ASSUME UNCHANGED freezeVars
    PROVE  UNCHANGED <<SlotHolder, Nominee, ProgramFrozen, FrozenAccounts>>
  BY DEF freezeVars, SlotHolder, Holder, Nominee, Initialized, ProgramFrozen,
         FrozenAccounts

\* The steps of the library are steps of the lifecycle.
LEMMA LibraryImplements ==
    ASSUME AuthorityInv, LibraryStep \/ Elsewhere
    PROVE  Lifecycle!Next
  <1>1. authorized' \subseteq Ids
    BY LibraryKeeps DEF AuthorityInv
  <1>2. CASE AdminInitialization
    <2>1. PICK caller \in Ids : admin_initialize(caller)
      BY <1>2 DEF AdminInitialization
    <2>2. adminConfig = NoData /\ adminConfig' = caller /\ caller \in authorized'
      BY <2>1 DEF admin_initialize, Lands
    <2>3. UNCHANGED <<SlotHolder, Nominee, ProgramFrozen, FrozenAccounts>>
      BY <1>2, ViewsStandStill DEF AdminInitialization
    <2>4. Lifecycle!SetUp(caller)
      BY <2>2, <2>3 DEF Lifecycle!SetUp, Lifecycle!slot, Lifecycle!freezes
    <2> QED
      BY <1>1, <2>4 DEF Lifecycle!Next
  <1>3. CASE AdminManagement
    <2>1. PICK caller \in Ids :
            \/ \E new \in Ids, candidate \in Candidates, cosigns \in BOOLEAN :
                  admin_transfer(caller, new, candidate, cosigns)
            \/ admin_accept(caller)
            \/ admin_renounce(caller)
      BY <1>3 DEF AdminManagement
    <2>2. adminConfig \in Ids /\ adminConfig' \in Ids \cup {NoId}
      BY <2>1, RequireAdminOk
         DEF admin_transfer, admin_accept, admin_renounce, HasAdmin
    <2>3. UNCHANGED <<SlotHolder, Nominee, ProgramFrozen, FrozenAccounts>>
      BY <1>3, ViewsStandStill DEF AdminManagement
    <2>4. Lifecycle!AdminMoves
      BY <2>2, <2>3 DEF Lifecycle!AdminMoves, Lifecycle!slot, Lifecycle!freezes
    <2> QED
      BY <1>1, <2>4 DEF Lifecycle!Next
  <1>4. CASE FreezeInitialization
    <2>1. PICK caller \in Ids : freeze_initialize(caller)
      BY <1>4 DEF FreezeInitialization
    <2>2. /\ Check(freezeConfig = NoData, "AccountAlreadyInitialized") = Ok
          /\ RequireAdmin(caller) = Ok
      BY <2>1, ThenOk DEF freeze_initialize, freeze_initialize_result
    <2>3. freezeConfig = NoData /\ adminConfig = caller
      BY <2>2, RequireAdminOk DEF Check, Ok
    <2>4. /\ freezeConfig' = [slot |-> [holder |-> caller, nominee |-> NoId],
                              is_frozen |-> FALSE]
          /\ UNCHANGED <<adminConfig, frozenAccount>> /\ caller \in authorized'
      BY <2>1 DEF freeze_initialize, Bootstrap, SlotInitialize, Lands
    <2>5. freezeConfig' \in FreezeConfigs
      BY <2>4 DEF FreezeConfigs, Slots, AccountId
    <2>6. /\ SlotHolder = NoData /\ SlotHolder' = caller
          /\ Nominee' = Nominee /\ ProgramFrozen' = ProgramFrozen
          /\ FrozenAccounts' = FrozenAccounts
      BY <2>3, <2>4, <2>5, FreezeAuthorityAssumption
         DEF SlotHolder, Holder, Nominee, Initialized, ProgramFrozen,
             FrozenAccounts
    <2>7. Lifecycle!Seat
      BY <2>3, <2>4, <2>6 DEF Lifecycle!Seat, Lifecycle!freezes
    <2> QED
      BY <1>1, <2>7 DEF Lifecycle!Next
  <1>5. CASE Nomination
    BY <1>1, <1>5, NominationOffers DEF Nomination, Lifecycle!Next
  <1>6. CASE RoleChange
    BY <1>1, <1>6, TransferAppoints, RenounceVacates, AcceptTakesUp
       DEF RoleChange, Lifecycle!Next
  <1>7. CASE FreezeOrRelease
    BY <1>1, <1>7, FreezeBrakes DEF Lifecycle!Next
  <1>8. CASE Elsewhere
    <2>1. UNCHANGED <<adminConfig, SlotHolder, Nominee, ProgramFrozen,
                      FrozenAccounts>>
      BY <1>8, ViewsStandStill DEF Elsewhere
    <2> QED
      BY <1>1, <2>1 DEF Lifecycle!Next, Lifecycle!Elsewhere, Lifecycle!slot,
                        Lifecycle!freezes
  <1> QED
    BY <1>2, <1>3, <1>4, <1>5, <1>6, <1>7, <1>8 DEF LibraryStep

\* And so is whatever leaves both extensions alone.
LEMMA OwnStepImplements ==
    ASSUME UNCHANGED <<adminConfig, freezeVars>>, authorized' \subseteq Ids
    PROVE  Lifecycle!Next
  <1>1. UNCHANGED <<adminConfig, SlotHolder, Nominee, ProgramFrozen,
                    FrozenAccounts>>
    BY ViewsStandStill
  <1> QED
    BY <1>1 DEF Lifecycle!Next, Lifecycle!Elsewhere, Lifecycle!slot,
                Lifecycle!freezes

\* Every step of the lifecycle that fills the slot has the consent.
LEMMA LifecycleConsents ==
    ASSUME AuthorityInv, AuthorityInv', Lifecycle!Next
    PROVE  ConsentStep
  <1> SUFFICES ASSUME Holder' \notin {Holder, NoId}
               PROVE  /\ Holder' \in authorized' \cup Pdas
                      /\ \/ adminConfig' \in authorized'
                         \/ Nominee = Holder' /\ Holder' \in authorized'
    BY DEF ConsentStep
  <1>1. /\ Holder = IF SlotHolder = NoData THEN NoId ELSE SlotHolder
        /\ Holder' = IF SlotHolder' = NoData THEN NoId ELSE SlotHolder'
    BY FreezeAuthorityAssumption
       DEF AuthorityInv, SlotHolder, Holder, Initialized, FreezeConfigs, Slots
  <1>2. SlotHolder' # SlotHolder /\ SlotHolder' = Holder' /\ Holder' # NoId
    BY <1>1
  <1>3. ASSUME NEW a \in Ids, Lifecycle!SetUp(a)
        PROVE  Holder' = a /\ adminConfig' = a /\ a \in authorized'
    BY <1>2, <1>3 DEF Lifecycle!SetUp, Lifecycle!slot
  <1>4. ASSUME NEW a \in Ids, Lifecycle!Appoint(a)
        PROVE  Holder' \in authorized' \cup Pdas /\ adminConfig' \in authorized'
    BY <1>2, <1>4 DEF Lifecycle!Appoint, Lifecycle!Agrees
  <1>5. CASE Lifecycle!Seat
    BY <1>2, <1>5 DEF Lifecycle!Seat
  <1>6. CASE Lifecycle!TakeUp
    BY <1>2, <1>6 DEF Lifecycle!TakeUp
  <1>7. ~(Lifecycle!AdminMoves \/ Lifecycle!Vacate \/ Lifecycle!Offer
            \/ Lifecycle!Brake \/ Lifecycle!Elsewhere)
    BY <1>2 DEF Lifecycle!AdminMoves, Lifecycle!Vacate, Lifecycle!Offer,
                Lifecycle!Brake, Lifecycle!Elsewhere, Lifecycle!slot
  <1> QED
    BY <1>3, <1>4, <1>5, <1>6, <1>7 DEF Lifecycle!Next

\* The initial states of the extensions, as the invariant and the lifecycle
\* see them.
LEMMA InitKeeps ==
    ASSUME LedgerInit, AdminInit, FreezeInit
    PROVE  AuthorityInv /\ Lifecycle!Init
  <1>1. AuthorityInv
    BY DEF LedgerInit, AdminInit, FreezeInit, AuthorityInv, RolesCanSign, Holder,
           Initialized
  <1>2. \A a \in Ids : frozenAccount[a] # [is_frozen |-> TRUE]
    BY FrozenIsData DEF FreezeInit
  <1>3. SlotHolder = NoData /\ Nominee = NoId /\ ~ProgramFrozen
    BY DEF FreezeInit, SlotHolder, Nominee, ProgramFrozen, Initialized
  <1> QED
    BY <1>1, <1>2, <1>3
       DEF LedgerInit, AdminInit, Lifecycle!Init, FrozenAccounts

\* A step that does nothing, as the lifecycle sees it.
LEMMA StutterImplements ==
    ASSUME UNCHANGED <<ledgerVars, adminConfig, freezeVars>>
    PROVE  UNCHANGED Lifecycle!vars
  BY ViewsStandStill DEF Lifecycle!vars, ledgerVars
=============================================================================
