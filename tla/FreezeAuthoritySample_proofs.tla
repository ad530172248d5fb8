--------------------- MODULE FreezeAuthoritySample_proofs ---------------------
(***************************************************************************)
(* The theorems about the program in auto mode, for any number of keys,    *)
(* derived addresses, markers and values: with its roles and its value,    *)
(* with the history of its nominations, and with what it answers.          *)
(***************************************************************************)
EXTENDS NominationAudit, FreezeRefusals, FreezeAuthority_proofs

\* The inductive invariant.
IInv == AuthorityInv /\ programConfig \in {NoData} \cup Values

\* A step of the program is one of the library, one of the accounts, or one
\* of the program's own instructions, which leave both extensions alone.
LEMMA StepKinds ==
    ASSUME Next
    PROVE  \/ (LibraryStep \/ Elsewhere) /\ UNCHANGED programConfig
           \/ /\ UNCHANGED <<adminConfig, freezeVars>>
              /\ \E A, S \in SUBSET Ids : Lands(A, S)
              /\ programConfig' \in Values
  <1>1. ASSUME NEW caller \in Ids, initialize(caller)
        PROVE  /\ UNCHANGED <<adminConfig, freezeVars>>
               /\ Lands({caller}, {caller})
               /\ programConfig' \in Values
    BY <1>1, SampleAssumption DEF initialize
  <1>2. ASSUME NEW caller \in Ids, NEW v \in Values, update_value(caller, v)
        PROVE  /\ UNCHANGED <<adminConfig, freezeVars>>
               /\ Lands({caller}, {caller})
               /\ programConfig' \in Values
    BY <1>2 DEF update_value
  <1>3. ASSUME NEW caller \in Ids, Lands({caller}, {caller})
        PROVE  \E A, S \in SUBSET Ids : Lands(A, S)
    <2>1. {caller} \in SUBSET Ids
      OBVIOUS
    <2> QED
      BY <1>3, <2>1
  <1> QED
    BY <1>1, <1>2, <1>3
       DEF Next, NextExceptNomination, Library, LibraryStep

\* Nothing exists yet, nobody has signed.
LEMMA InitInv == Init => IInv /\ Lifecycle!Init
  BY InitKeeps DEF Init, IInv

\* Every step keeps the invariant.
LEMMA StepInv == IInv /\ [Next]_vars => IInv'
  <1> SUFFICES ASSUME IInv, [Next]_vars PROVE IInv'
    OBVIOUS
  <1>1. CASE (LibraryStep \/ Elsewhere) /\ UNCHANGED programConfig
    BY <1>1, LibraryKeeps DEF IInv
  <1>2. CASE /\ UNCHANGED <<adminConfig, freezeVars>>
             /\ \E A, S \in SUBSET Ids : Lands(A, S)
             /\ programConfig' \in Values
    BY <1>2, OwnStepKeeps DEF IInv
  <1>3. CASE UNCHANGED vars
    BY <1>3, StutterKeeps DEF vars, IInv
  <1> QED
    BY <1>1, <1>2, <1>3, StepKinds

\* The invariant holds of every reachable state.
THEOREM Invariance == Spec => []IInv
  <1>1. Init => IInv
    BY InitInv
  <1> QED
    BY <1>1, StepInv, PTL DEF Spec

\* Type correctness of every variable.
THEOREM TypeCorrect == Spec => []TypeOK
  <1>1. IInv => TypeOK
    BY DEF IInv, AuthorityInv, TypeOK
  <1> QED
    BY <1>1, Invariance, PTL

\* Neither role is ever in the hands of an account that LEZ strands.
THEOREM RolesAlwaysSign == Spec => []RolesCanSign
  <1>1. IInv => RolesCanSign
    BY DEF IInv, AuthorityInv
  <1> QED
    BY <1>1, Invariance, PTL

\* The holder can always work the brake.
THEOREM BrakeAlwaysThere == Spec => []HolderKeepsBrake
  <1>1. IInv => HolderKeepsBrake
    BY BrakeWorks DEF IInv
  <1> QED
    BY <1>1, Invariance, PTL

\* The admin can always take the role into its own hands.
THEOREM RecoveryAlwaysThere == Spec => []AdminCanRecover
  <1>1. IInv => AdminCanRecover
    BY RecoveryWorks DEF IInv
  <1> QED
    BY <1>1, Invariance, PTL

\* A freeze changes by the holder's signature only, never as a side effect.
THEOREM FreezesOnlyByHolder == Spec => OnlyHolderFreezes
  <1>1. IInv /\ [Next]_vars => [FreezeStep]_freezeVars
    <2> SUFFICES ASSUME IInv, [Next]_vars, ~UNCHANGED freezeVars
                 PROVE  FreezeStep
      OBVIOUS
    <2>1. LibraryStep \/ Elsewhere
      BY StepKinds DEF vars, freezeVars
    <2> QED
      BY <2>1, FreezesAreTheHolders DEF IInv, FreezeStep
  <1> QED
    BY <1>1, Invariance, PTL DEF Spec, OnlyHolderFreezes

\* The terminal state is terminal.
THEOREM TerminalState == Spec => AbandonedForever
  <1>1. IInv /\ [Next]_vars =>
          [Abandoned => UNCHANGED <<adminConfig, freezeVars>>]_<<adminConfig,
                                                                freezeVars>>
    <2> SUFFICES ASSUME IInv, [Next]_vars, Abandoned
                 PROVE  UNCHANGED <<adminConfig, freezeVars>>
      OBVIOUS
    <2>1. CASE LibraryStep \/ Elsewhere
      BY <2>1, AbandonedStops DEF IInv
    <2>2. CASE UNCHANGED vars
      BY <2>2 DEF vars
    <2> QED
      BY <2>1, <2>2, StepKinds
  <1> QED
    BY <1>1, Invariance, PTL DEF Spec, AbandonedForever

\* Whoever is in charge can withdraw a pending nomination.
THEOREM NominationsRevocable == Spec => []NominationRevocable
  <1>1. IInv => NominationRevocable
    BY RevocationWorks DEF IInv
  <1> QED
    BY <1>1, Invariance, PTL

\* Every step is one of the lifecycle, or one it does not see.
LEMMA StepImplements == IInv /\ [Next]_vars => [Lifecycle!Next]_Lifecycle!vars
  <1> SUFFICES ASSUME IInv, [Next]_vars
               PROVE  Lifecycle!Next \/ UNCHANGED Lifecycle!vars
    OBVIOUS
  <1>1. CASE LibraryStep \/ Elsewhere
    BY <1>1, LibraryImplements DEF IInv
  <1>2. CASE /\ UNCHANGED <<adminConfig, freezeVars>>
             /\ \E A, S \in SUBSET Ids : Lands(A, S)
    <2>1. authorized' \subseteq Ids
      BY <1>2, LandsSigned
    <2> QED
      BY <1>2, <2>1, OwnStepImplements
  <1>3. CASE UNCHANGED vars
    BY <1>3, StutterImplements DEF vars
  <1> QED
    BY <1>1, <1>2, <1>3, StepKinds

\* The program implements the lifecycle: every change of a role, an offer or
\* a freeze is one it allows, on the signature it asks for.
THEOREM LifecycleRefined == Spec => ImplementsLifecycle
  <1>1. Init => Lifecycle!Init
    BY InitInv
  <1> QED
    BY <1>1, StepImplements, Invariance, PTL
       DEF Spec, ImplementsLifecycle, Lifecycle!Spec

\* Nobody gets the role without agreeing, and nobody past the admin: what
\* fills the slot is one of three steps of the lifecycle.
THEOREM ConsentAlwaysGiven == Spec => RoleTakenWithConsent
  <1>1. IInv /\ IInv' /\ [Next]_vars => [ConsentStep]_freezeVars
    <2> SUFFICES ASSUME IInv, IInv', [Next]_vars, ~UNCHANGED freezeVars
                 PROVE  ConsentStep
      OBVIOUS
    <2>1. Lifecycle!Next
      BY StepKinds, LibraryImplements DEF IInv, vars, freezeVars
    <2> QED
      BY <2>1, LifecycleConsents DEF IInv
  <1> QED
    BY <1>1, Invariance, PTL DEF Spec, RoleTakenWithConsent

\* A frozen program's state stands still, and so it does for a caller whose
\* marker is frozen.
THEOREM FreezeStopsWrites == Spec => FrozenStateStands
  <1>1. IInv /\ [Next]_vars => [UnfrozenWrite]_programConfig
    <2> SUFFICES ASSUME IInv, [Next]_vars, ~UNCHANGED programConfig,
                        programConfig # NoData
                 PROVE  /\ Initialized /\ ~ProgramFrozen
                        /\ \A a \in authorized' :
                              frozenAccount[a] # [is_frozen |-> TRUE]
      BY DEF UnfrozenWrite
    <2>1. PICK caller \in Ids, v \in Values : update_value(caller, v)
      BY DEF Next, NextExceptNomination, vars, initialize
    <2>2. RequireNotFrozen(caller) = Ok
      BY <2>1, ThenOk DEF update_value, update_value_result
    <2>3. authorized' = {caller}
      BY <2>1 DEF update_value, Lands
    <2> QED
      BY <2>2, <2>3, GatePasses DEF IInv
  <1> QED
    BY <1>1, Invariance, PTL DEF Spec, FrozenStateStands

----------------------------------------------------------------------------
(* A nomination never outlives the tenure it was made in. *)

\* The inductive invariant of the audited program.
AuditInv == IInv /\ AuditTypeOK /\ MandateStands

\* A step of the audited program is a step of the program.
LEMMA AuditNextIsNext == AuditNext => Next
  BY DEF AuditNext, Next, Nomination

\* Everything but a nomination leaves the holder and the nominee alone, or
\* drops the nominee.
LEMMA OthersDropOrKeep ==
    ASSUME IInv, NextExceptNomination
    PROVE  Nominee' = NoId \/ (Nominee' = Nominee /\ Holder' = Holder)
  <1>1. CASE UNCHANGED freezeVars
    BY <1>1 DEF freezeVars, Nominee, Holder, Initialized
  <1>2. CASE FreezeInitialization
    <2>1. PICK caller \in Ids : freezeConfig' = Bootstrap(caller)
      BY <1>2 DEF FreezeInitialization, freeze_initialize
    <2>2. freezeConfig' \in FreezeConfigs /\ freezeConfig'.slot.nominee = NoId
      BY <2>1 DEF Bootstrap, SlotInitialize, FreezeConfigs, Slots, AccountId
    <2> QED
      BY <2>2, NextHolder
  <1>3. CASE RoleChange
    <2>1. PICK caller \in Ids, new \in Ids, candidate \in Candidates,
               cosigns \in BOOLEAN :
            \/ freeze_authority_transfer(caller, new, candidate, cosigns)
            \/ freeze_authority_renounce(caller)
            \/ freeze_authority_accept(caller)
      <3>1. [kind |-> "Signer", derived |-> NoId] \in Candidates /\ TRUE \in BOOLEAN
        BY DEF Candidates
      <3> QED
        BY <1>3, <3>1 DEF RoleChange
    <2>2. CASE freeze_authority_transfer(caller, new, candidate, cosigns)
      <3>1. Lifecycle!Appoint(new)
        BY <2>2, TransferAppoints DEF IInv
      <3> QED
        BY <3>1 DEF Lifecycle!Appoint
    <2>3. CASE freeze_authority_renounce(caller)
      <3>1. Lifecycle!Vacate
        BY <2>3, RenounceVacates DEF IInv
      <3> QED
        BY <3>1 DEF Lifecycle!Vacate
    <2>4. CASE freeze_authority_accept(caller)
      <3>1. Lifecycle!TakeUp
        BY <2>4, AcceptTakesUp DEF IInv
      <3> QED
        BY <3>1 DEF Lifecycle!TakeUp
    <2> QED
      BY <2>1, <2>2, <2>3, <2>4
  <1>4. CASE FreezeOrRelease
    <2>1. Lifecycle!Brake /\ authorized' \subseteq Ids
      BY <1>4, FreezeBrakes, LibraryKeeps DEF IInv, LibraryStep, AuthorityInv,
         LedgerTypeOK
    <2>2. /\ SlotHolder \in Ids /\ SlotHolder' = SlotHolder
          /\ Nominee' = Nominee
      BY <2>1 DEF Lifecycle!Brake, Lifecycle!slot
    <2>3. SlotHolder # NoData
      BY <2>2, FreezeAuthorityAssumption DEF AccountId
    <2> QED
      BY <2>2, <2>3 DEF SlotHolder, Holder
  <1> QED
    BY <1>1, <1>2, <1>3, <1>4
       DEF NextExceptNomination, Library, Elsewhere, AdminInitialization,
           AdminManagement, initialize, update_value

\* A nomination is made by the holder, or by the admin, who alone is left when
\* the slot is vacant.
LEMMA NominatorInCharge ==
    ASSUME IInv, NEW caller \in Ids, NEW next \in AccountId,
           freeze_authority_nominate(caller, next)
    PROVE  /\ Holder' = Holder /\ Holder \in AccountId
           /\ Holder = NoId => caller = adminConfig
  <1>1. /\ FromAccount(freezeConfig) = Ok
        /\ DualPath(adminConfig, freezeConfig, Caller(caller)) = Ok
    BY ThenOk DEF freeze_authority_nominate, freeze_authority_nominate_result
  <1>2. freezeConfig \in FreezeConfigs /\ Holder = freezeConfig.slot.holder
    BY <1>1, ConfigType DEF IInv, AuthorityInv
  <1>3. caller = adminConfig \/ caller = Holder
    BY <1>1, <1>2, DualPathOk
  <1>4. /\ freezeConfig' \in FreezeConfigs
        /\ freezeConfig'.slot.holder = freezeConfig.slot.holder
    BY <1>2 DEF freeze_authority_nominate, Nominate, SlotNominate, FreezeConfigs,
                Slots
  <1>5. Holder' = Holder
    BY <1>2, <1>4, NextHolder
  <1> QED
    BY <1>2, <1>3, <1>5, IdsAssumption DEF FreezeConfigs, Slots

\* At first there is no nominee, hence nothing to account for.
LEMMA AuditInitInv == AuditInit => AuditInv
  <1> SUFFICES ASSUME AuditInit PROVE AuditInv
    OBVIOUS
  <1>1. IInv /\ TypeOK
    BY InitInv DEF AuditInit, IInv, AuthorityInv, TypeOK
  <1>2. Nominee = NoId
    BY DEF AuditInit, Init, FreezeInit, Nominee, Initialized
  <1> QED
    BY <1>1, <1>2
       DEF AuditInit, NoMandate, AuditInv, AuditTypeOK, MandateStands, AccountId

\* A nomination records the tenure, and every other step keeps or drops it.
LEMMA AuditStepInv == AuditInv /\ [AuditNext]_auditVars => AuditInv'
  <1> SUFFICES ASSUME AuditInv, [AuditNext]_auditVars PROVE AuditInv'
    OBVIOUS
  <1>1. IInv' /\ TypeOK'
    <2>1. [Next]_vars
      BY AuditNextIsNext DEF auditVars
    <2>2. IInv'
      BY <2>1, StepInv DEF AuditInv
    <2> QED
      BY <2>2 DEF IInv, AuthorityInv, TypeOK
  <1>2. ASSUME NEW caller \in Ids, NEW next \in AccountId,
               freeze_authority_nominate(caller, next),
               mandate' = [tenure |-> Holder, asAdmin |-> caller = adminConfig]
        PROVE  AuditInv'
    <2>1. /\ Holder' = Holder /\ Holder \in AccountId
          /\ Holder = NoId => caller = adminConfig
      BY <1>2, NominatorInCharge DEF AuditInv
    <2>2. (caller = adminConfig) \in BOOLEAN
      OBVIOUS
    <2>3. mandate' \in [tenure : AccountId, asAdmin : BOOLEAN]
      BY <1>2, <2>1, <2>2
    <2>4. mandate'.tenure = Holder' /\ (Holder' = NoId => mandate'.asAdmin)
      BY <1>2, <2>1
    <2> QED
      BY <1>1, <2>3, <2>4 DEF AuditInv, AuditTypeOK, MandateStands
  <1>3. CASE NextExceptNomination /\ UNCHANGED mandate
    <2>1. Nominee' = NoId \/ (Nominee' = Nominee /\ Holder' = Holder)
      BY <1>3, OthersDropOrKeep DEF AuditInv
    <2> QED
      BY <1>1, <1>3, <2>1 DEF AuditInv, AuditTypeOK, MandateStands
  <1>4. CASE UNCHANGED auditVars
    <2>1. Nominee' = Nominee /\ Holder' = Holder /\ mandate' = mandate
      BY <1>4 DEF auditVars, vars, freezeVars, Nominee, Holder, Initialized
    <2> QED
      BY <1>1, <2>1 DEF AuditInv, AuditTypeOK, MandateStands
  <1> QED
    BY <1>2, <1>3, <1>4 DEF AuditNext

\* The history variable has its type throughout.
THEOREM AuditTypeCorrect == AuditSpec => []AuditTypeOK
  <1>1. AuditInv => AuditTypeOK
    BY DEF AuditInv
  <1> QED
    BY <1>1, AuditInitInv, AuditStepInv, PTL DEF AuditSpec

\* No former holder's choice can be accepted, and on a vacant slot only the
\* admin's: a nomination never outlives the tenure it was made in.
THEOREM MandatesStand == AuditSpec => []MandateStands
  <1>1. AuditInv => MandateStands
    BY DEF AuditInv
  <1> QED
    BY <1>1, AuditInitInv, AuditStepInv, PTL DEF AuditSpec

----------------------------------------------------------------------------
(* What a refused client is told is true. *)

\* An error has one place in the enum, and so one code.
LEMMA CodeOf ==
    ASSUME NEW i \in 1 .. 24
    PROVE  code(FreezeError[i]) = 200 + i
  <1>1. DOMAIN FreezeError = 1 .. 24
    BY DEF FreezeError
  <1>2. ASSUME NEW j \in 1 .. 24, FreezeError[j] = FreezeError[i]
        PROVE  j = i
    BY <1>2 DEF FreezeError
  <1>3. (CHOOSE j \in DOMAIN FreezeError : FreezeError[j] = FreezeError[i]) = i
    BY <1>1, <1>2
  <1> QED
    BY <1>3 DEF code

\* The codes of the refusals that the instructions know.
LEMMA Codes ==
    /\ Reported("AccountAlreadyInitialized") = InitRefused
    /\ Reported("AdminError::NotInitialized") = 6101
    /\ Reported("AdminError::Renounced") = 6102
    /\ Reported("AdminError::NotAdmin") = 6103
    /\ Reported("NotInitialized") = 6201
    /\ Reported("InvalidCandidate") = 6203
    /\ Reported("UndeployedPda") = 6204
    /\ Reported("CandidateMismatch") = 6205
    /\ Reported("NotFreezeAuthority") = 6206
    /\ Reported("NotAdminOrFreezeAuthority") = 6208
    /\ Reported("Renounced") = 6210
    /\ Reported("AccountNotFrozen") = 6214
    /\ Reported("Frozen") = 6217
    /\ Reported("AccountFrozen") = 6218
    /\ Reported("UnownedSigner") = 6221
    /\ Reported("NoNomination") = 6222
    /\ Reported("NotNominee") = 6223
  <1>1. DOMAIN AdminCode = {"AdminError::NotInitialized", "AdminError::Renounced",
                            "AdminError::NotAdmin"}
    BY DEF AdminCode
  <1>2. /\ AdminCode["AdminError::NotInitialized"] = 101
        /\ AdminCode["AdminError::Renounced"] = 102
        /\ AdminCode["AdminError::NotAdmin"] = 103
    BY DEF AdminCode
  <1>3. /\ Reported("AccountAlreadyInitialized") = InitRefused
        /\ Reported("AdminError::NotInitialized") = 6101
        /\ Reported("AdminError::Renounced") = 6102
        /\ Reported("AdminError::NotAdmin") = 6103
    BY <1>1, <1>2 DEF Reported
  <1>4. /\ FreezeError[1] = "NotInitialized" /\ FreezeError[3] = "InvalidCandidate"
        /\ FreezeError[4] = "UndeployedPda" /\ FreezeError[5] = "CandidateMismatch"
        /\ FreezeError[6] = "NotFreezeAuthority"
        /\ FreezeError[8] = "NotAdminOrFreezeAuthority"
        /\ FreezeError[10] = "Renounced" /\ FreezeError[14] = "AccountNotFrozen"
        /\ FreezeError[17] = "Frozen" /\ FreezeError[18] = "AccountFrozen"
        /\ FreezeError[21] = "UnownedSigner" /\ FreezeError[22] = "NoNomination"
        /\ FreezeError[23] = "NotNominee"
    BY DEF FreezeError
  <1>5. ASSUME NEW i \in 1 .. 24,
               FreezeError[i] \notin DOMAIN AdminCode,
               FreezeError[i] # "AccountAlreadyInitialized"
        PROVE  Reported(FreezeError[i]) = 6200 + i
    BY <1>5, CodeOf DEF Reported
  <1>6. /\ Reported("NotInitialized") = 6201 /\ Reported("InvalidCandidate") = 6203
        /\ Reported("UndeployedPda") = 6204
        /\ Reported("CandidateMismatch") = 6205
        /\ Reported("NotFreezeAuthority") = 6206
        /\ Reported("NotAdminOrFreezeAuthority") = 6208
        /\ Reported("Renounced") = 6210
    BY <1>1, <1>4, <1>5
  <1>7. /\ Reported("AccountNotFrozen") = 6214 /\ Reported("Frozen") = 6217
        /\ Reported("AccountFrozen") = 6218 /\ Reported("UnownedSigner") = 6221
        /\ Reported("NoNomination") = 6222 /\ Reported("NotNominee") = 6223
    BY <1>1, <1>4, <1>5
  <1> QED
    BY <1>3, <1>6, <1>7

\* A chain of checks that fails fails with the first that does.
LEMMA ThenFails ==
    ASSUME NEW first, NEW next, (first ?? next) # Ok
    PROVE  \/ first # Ok /\ (first ?? next) = first
           \/ first = Ok /\ next # Ok /\ (first ?? next) = next
  BY DEF ??

\* Check by check: the error that it fails with has the cause that the table
\* of errors gives for it. First the load of the config.
LEMMA LoadTells ==
    ASSUME NEW a, a.result = FromAccount(freezeConfig), a.result # Ok
    PROVE  CauseOf(a) /\ Reported(a.result) = 6201
  <1>1. a.result = "NotInitialized" /\ ~Initialized
    BY DEF FromAccount, Check, Initialized
  <1> QED
    BY <1>1, Codes DEF CauseOf, InitRefused

\* The check of the admin.
LEMMA AdminTells ==
    ASSUME AuthorityInv, NEW a, a.caller \in Ids,
           a.result = RequireAdmin(a.caller), a.result # Ok
    PROVE  CauseOf(a) /\ Reported(a.result) \in {6101, 6102, 6103}
  <1>1. Caller(a.caller).account_id = a.caller /\ Caller(a.caller).is_authorized
    BY DEF Caller, AccountOf
  <1>2. \/ a.result = "AdminError::NotInitialized" /\ adminConfig = NoData
        \/ a.result = "AdminError::Renounced" /\ adminConfig = NoId
        \/ /\ a.result = "AdminError::NotAdmin"
           /\ adminConfig \notin {NoData, NoId} /\ a.caller # adminConfig
    BY <1>1 DEF RequireAdmin, AdminFromAccount, AssertAdmin, Check, ??, Ok
  <1>3. adminConfig \notin {NoData, NoId} => HasAdmin
    BY DEF AuthorityInv, AdminTypeOK, AccountId, HasAdmin
  <1>4. CASE a.result = "AdminError::NotInitialized" /\ adminConfig = NoData
    BY <1>4, Codes DEF CauseOf, InitRefused
  <1>5. CASE a.result = "AdminError::Renounced" /\ adminConfig = NoId
    BY <1>5, Codes DEF CauseOf, InitRefused
  <1>6. CASE /\ a.result = "AdminError::NotAdmin" /\ HasAdmin
             /\ a.caller # adminConfig
    BY <1>6, Codes DEF CauseOf, InitRefused
  <1> QED
    BY <1>2, <1>3, <1>4, <1>5, <1>6

\* The check of the holder.
LEMMA HolderTells ==
    ASSUME AuthorityInv, Initialized, NEW a,
           a.result = AssertHolder(freezeConfig, Caller(a.caller)), a.result # Ok
    PROVE  CauseOf(a) /\ Reported(a.result) \in {6206, 6210}
  <1>1. Caller(a.caller).account_id = a.caller /\ Caller(a.caller).is_authorized
    BY DEF Caller, AccountOf
  <1>2. Holder = freezeConfig.slot.holder
    BY DEF Holder
  <1>3. \/ a.result = "Renounced" /\ Holder = NoId
        \/ a.result = "NotFreezeAuthority" /\ Holder \notin {NoId, a.caller}
    BY <1>1, <1>2
       DEF AssertHolder, FromAuthorityError, SlotAssert, Check, ??, Ok
  <1>4. CASE a.result = "Renounced" /\ Holder = NoId
    BY <1>4, Codes DEF CauseOf, InitRefused
  <1>5. CASE a.result = "NotFreezeAuthority" /\ Holder \notin {NoId, a.caller}
    BY <1>5, Codes DEF CauseOf, InitRefused
  <1> QED
    BY <1>3, <1>4, <1>5

\* The check of a candidate for a transfer.
LEMMA CandidateTells ==
    ASSUME NEW a, a.other \in Ids, a.signed \in BOOLEAN,
           NEW candidate \in Candidates, a.claim = candidate.derived,
           a.result = TransferResult(candidate, AccountOf(a.other, a.signed)),
           a.result # Ok
    PROVE  CauseOf(a) /\ Reported(a.result) \in {6203, 6204, 6205, 6221}
  <1> DEFINE account == AccountOf(a.other, a.signed)
  <1>1. /\ account.account_id = a.other /\ account.is_authorized = a.signed
        /\ account.owned = (a.other \in owned) /\ a.other # NoId
    BY IdsAssumption DEF AccountOf
  <1>2. \/ candidate.kind = "Signer" /\ a.claim = NoId
        \/ candidate.kind = "Pda" /\ a.claim \in Pdas
    BY DEF Candidates
  <1> HIDE DEF account
  <1>3. SlotInitializeResult(account.account_id) = Ok
    BY <1>1 DEF SlotInitializeResult, Check
  <1>4. Validate(candidate, account) # Ok
        /\ a.result = FromAuthorityError(Validate(candidate, account))
    BY <1>3 DEF TransferResult, ??, account, FromAuthorityError, Ok
  <1>5. \/ a.result = "InvalidCandidate" /\ a.claim = NoId /\ ~a.signed
        \/ a.result = "UnownedSigner" /\ a.other \notin owned
        \/ a.result = "CandidateMismatch" /\ a.claim \in Pdas \ {a.other}
        \/ /\ a.result = "UndeployedPda"
           /\ a.claim = a.other /\ a.other \notin owned
    BY <1>1, <1>2, <1>4 DEF Validate, FromAuthorityError, Check, ??, Ok
  <1>6. CASE a.result = "InvalidCandidate" /\ a.claim = NoId /\ ~a.signed
    BY <1>6, Codes DEF CauseOf, InitRefused
  <1>7. CASE a.result = "UnownedSigner" /\ a.other \notin owned
    BY <1>7, Codes DEF CauseOf, InitRefused
  <1>8. CASE a.result = "CandidateMismatch" /\ a.claim \in Pdas \ {a.other}
    BY <1>8, Codes DEF CauseOf, InitRefused
  <1>9. CASE a.result = "UndeployedPda" /\ a.claim = a.other
               /\ a.other \notin owned
    BY <1>9, Codes DEF CauseOf, InitRefused
  <1> QED
    BY <1>5, <1>6, <1>7, <1>8, <1>9

\* The dual path of admin and holder.
LEMMA DualPathTells ==
    ASSUME AuthorityInv, Initialized, NEW a, a.caller \in Ids,
           a.result = DualPath(adminConfig, freezeConfig, Caller(a.caller)),
           a.result # Ok
    PROVE  CauseOf(a) /\ Reported(a.result) = 6208
  <1>1. freezeConfig \in FreezeConfigs /\ Holder = freezeConfig.slot.holder
    BY DEF AuthorityInv, FreezeTypeOK, Initialized, Holder
  <1>2. a.result = "NotAdminOrFreezeAuthority"
    BY DEF DualPath, Check
  <1>3. a.caller # adminConfig /\ a.caller # Holder
    BY <1>1, DualPathOk DEF AuthorityInv
  <1> QED
    BY <1>2, <1>3, Codes DEF CauseOf, InitRefused

\* The check of a nominee.
LEMMA NomineeTells ==
    ASSUME Initialized, NEW a, a.caller \in Ids, a.other = a.caller,
           a.result = AcceptResult(freezeConfig, Caller(a.caller)), a.result # Ok
    PROVE  CauseOf(a) /\ Reported(a.result) \in {6221, 6222, 6223}
  <1>1. /\ Caller(a.caller).account_id = a.caller /\ Caller(a.caller).is_authorized
        /\ Caller(a.caller).owned = (a.caller \in owned)
    BY DEF Caller, AccountOf
  <1>2. Nominee = freezeConfig.slot.nominee
    BY DEF Nominee
  <1>3. \/ a.result = "NoNomination" /\ Nominee = NoId
        \/ a.result = "NotNominee" /\ Nominee \notin {NoId, a.caller}
        \/ a.result = "UnownedSigner" /\ a.other \notin owned
    BY <1>1, <1>2
       DEF AcceptResult, FromAuthorityError, SlotAcceptResult, Check, ??, Ok
  <1>4. CASE a.result = "NoNomination" /\ Nominee = NoId
    BY <1>4, Codes DEF CauseOf, InitRefused
  <1>5. CASE a.result = "NotNominee" /\ Nominee \notin {NoId, a.caller}
    BY <1>5, Codes DEF CauseOf, InitRefused
  <1>6. CASE a.result = "UnownedSigner" /\ a.other \notin owned
    BY <1>6, Codes DEF CauseOf, InitRefused
  <1> QED
    BY <1>3, <1>4, <1>5, <1>6

\* The gate.
LEMMA GateTells ==
    ASSUME AuthorityInv, NEW a, a.caller \in Ids,
           a.result = RequireNotFrozen(a.caller), a.result # Ok
    PROVE  CauseOf(a) /\ Reported(a.result) \in {6201, 6217, 6218}
  <1>1. \/ a.result = "NotInitialized" /\ ~Initialized
        \/ a.result = "Frozen" /\ Initialized /\ freezeConfig.is_frozen
        \/ /\ a.result = "AccountFrozen"
           /\ FromDataOrDefault(frozenAccount[a.caller]).is_frozen
    BY DEF RequireNotFrozen, FromAccount, Check, ??, Ok, Initialized
  <1>2. FromDataOrDefault(frozenAccount[a.caller]).is_frozen
          => frozenAccount[a.caller] = [is_frozen |-> TRUE]
    <2>1. frozenAccount[a.caller] \in {NoData} \cup FrozenAccountStates
      BY DEF AuthorityInv, FreezeTypeOK
    <2> QED
      BY <2>1 DEF FromDataOrDefault, FrozenAccountStates
  <1>3. CASE a.result = "NotInitialized" /\ ~Initialized
    BY <1>3, Codes DEF CauseOf, InitRefused
  <1>4. CASE a.result = "Frozen" /\ Initialized /\ freezeConfig.is_frozen
    BY <1>4, Codes DEF CauseOf, InitRefused, ProgramFrozen
  <1>5. CASE a.result = "AccountFrozen"
               /\ frozenAccount[a.caller] = [is_frozen |-> TRUE]
    BY <1>5, Codes DEF CauseOf, InitRefused
  <1> QED
    BY <1>1, <1>2, <1>3, <1>4, <1>5

\* What is reported is true, and among what is listed for the instruction
\* where the list is complete.
Told(a) ==
    /\ CauseOf(a)
    /\ a.instruction \notin {"freeze_program", "freeze_account_release"}
         => Reported(a.result) \in FailureModes[a.instruction]

\* What is listed for whom.
LEMMA Listed ==
    ASSUME NEW i
    PROVE  LET modes == FailureModes[i]
           IN  /\ i = "freeze_initialize"
                    => modes = {InitRefused, 6101, 6102, 6103}
               /\ i = "freeze_authority_transfer"
                    => modes = {6101, 6102, 6103, 6201, 6203, 6204, 6205, 6221}
               /\ i \in {"freeze_authority_renounce", "freeze_authority_nominate"}
                    => modes = {6201, 6208}
               /\ i = "freeze_authority_accept"
                    => modes = {6201, 6222, 6209, 6223, 6221}
               /\ i \in {"freeze_program_release", "freeze_account"}
                    => modes = {6201, 6206, 6210}
  BY DEF FailureModes

\* The set-up is refused for what stands in its way; the admin that passes
\* has an owner.
LEMMA InitializeTold ==
    ASSUME AuthorityInv, NEW a, a.caller \in Ids,
           a.instruction = "freeze_initialize",
           a.result = freeze_initialize_result(a.caller), a.result # Ok
    PROVE  Told(a)
  <1> DEFINE born == Check(freezeConfig = NoData, "AccountAlreadyInitialized")
             boot == BootstrapResult(ByCaller, Caller(a.caller))
  <1>1. a.result = (born ?? RequireAdmin(a.caller) ?? boot)
    BY DEF freeze_initialize_result, Gate, FreezeExempt, MarkedExempt, ??, Ok
  <1>2. ASSUME RequireAdmin(a.caller) = Ok PROVE boot = Ok
    <2>1. a.caller \in owned /\ a.caller # NoId
      BY <1>2, RequireAdminOk, IdsAssumption, FreezeAuthorityAssumption
         DEF AuthorityInv, RolesCanSign, AccountId
    <2> QED
      BY <2>1 DEF BootstrapResult, FromAuthorityError, Validate, ByCaller, Caller,
                  AccountOf, SlotInitializeResult, Check, ??, Ok
  <1>3. \/ a.result = "AccountAlreadyInitialized" /\ Initialized
        \/ a.result = RequireAdmin(a.caller)
    <2> HIDE DEF boot
    <2> QED
      BY <1>1, <1>2 DEF ??, Check, Initialized
  <1>4. CASE a.result = "AccountAlreadyInitialized" /\ Initialized
    <2>1. CauseOf(a) /\ Reported(a.result) = InitRefused
      BY <1>4, Codes DEF CauseOf, InitRefused
    <2> QED
      BY <2>1, Listed DEF Told
  <1>5. CASE a.result = RequireAdmin(a.caller)
    BY <1>5, AdminTells, Listed DEF Told
  <1> QED
    BY <1>3, <1>4, <1>5

\* A transfer.
LEMMA TransferTold ==
    ASSUME AuthorityInv, NEW a, a.caller \in Ids, a.other \in Ids,
           a.signed \in BOOLEAN, NEW candidate \in Candidates,
           a.claim = candidate.derived,
           a.instruction = "freeze_authority_transfer",
           a.result = freeze_authority_transfer_result(a.caller, a.other,
                                                       candidate, a.signed),
           a.result # Ok
    PROVE  Told(a)
  <1> DEFINE load == FromAccount(freezeConfig)
             check == TransferResult(candidate, AccountOf(a.other, a.signed))
  <1>1. a.result = (RequireAdmin(a.caller) ?? load ?? check)
    BY DEF freeze_authority_transfer_result, Gate, FreezeExempt, MarkedExempt,
           RequireAdmin, ??, Ok
  <1>2. a.result \in {RequireAdmin(a.caller), load, check}
    <2> HIDE DEF load, check
    <2> QED
      BY <1>1 DEF ??
  <1>3. CASE a.result = RequireAdmin(a.caller)
    BY <1>3, AdminTells, Listed DEF Told
  <1>4. CASE a.result = load
    BY <1>4, LoadTells, Listed DEF Told
  <1>5. CASE a.result = check
    BY <1>5, CandidateTells, Listed DEF Told
  <1> QED
    BY <1>2, <1>3, <1>4, <1>5

\* The two instructions of the dual path.
LEMMA DualTold ==
    ASSUME AuthorityInv, NEW a, a.caller \in Ids,
           \/ /\ a.instruction = "freeze_authority_renounce"
              /\ a.result = freeze_authority_renounce_result(a.caller)
           \/ /\ a.instruction = "freeze_authority_nominate"
              /\ a.result = freeze_authority_nominate_result(a.caller),
           a.result # Ok
    PROVE  Told(a)
  <1> DEFINE load == FromAccount(freezeConfig)
             check == DualPath(adminConfig, freezeConfig, Caller(a.caller))
  <1>1. a.result = (load ?? check)
    BY DEF freeze_authority_renounce_result, freeze_authority_nominate_result,
           Gate, FreezeExempt, MarkedExempt, ??, Ok
  <1>2. \/ a.result = load
        \/ a.result = check /\ Initialized
    <2> HIDE DEF check
    <2> QED
      BY <1>1, ThenFails, FromAccountOk DEF Initialized
  <1>3. CASE a.result = load
    BY <1>3, LoadTells, Listed DEF Told
  <1>4. CASE a.result = check /\ Initialized
    BY <1>4, DualPathTells, Listed DEF Told
  <1> QED
    BY <1>2, <1>3, <1>4

\* An acceptance.
LEMMA AcceptTold ==
    ASSUME NEW a, a.caller \in Ids, a.other = a.caller,
           a.instruction = "freeze_authority_accept",
           a.result = freeze_authority_accept_result(a.caller), a.result # Ok
    PROVE  Told(a)
  <1> DEFINE load == FromAccount(freezeConfig)
             check == AcceptResult(freezeConfig, Caller(a.caller))
  <1>1. a.result = (load ?? check)
    BY DEF freeze_authority_accept_result, Gate, FreezeExempt, MarkedExempt,
           ??, Ok
  <1>2. \/ a.result = load
        \/ a.result = check /\ Initialized
    <2> HIDE DEF check
    <2> QED
      BY <1>1, ThenFails, FromAccountOk DEF Initialized
  <1>3. CASE a.result = load
    BY <1>3, LoadTells, Listed DEF Told
  <1>4. CASE a.result = check /\ Initialized
    BY <1>4, NomineeTells, Listed DEF Told
  <1> QED
    BY <1>2, <1>3, <1>4

\* The holder's instructions that run ungated.
LEMMA HolderTold ==
    ASSUME AuthorityInv, NEW a, a.caller \in Ids,
           \/ /\ a.instruction = "freeze_program_release"
              /\ a.result = freeze_program_release_result(a.caller)
           \/ /\ a.instruction = "freeze_account"
              /\ a.result = freeze_account_result(a.caller),
           a.result # Ok
    PROVE  Told(a)
  <1> DEFINE load == FromAccount(freezeConfig)
             check == AssertHolder(freezeConfig, Caller(a.caller))
  <1>1. a.result = (load ?? check)
    BY DEF freeze_program_release_result, freeze_account_result,
           PerformFreezeResult, Gate, FreezeExempt, MarkedExempt, ??, Ok
  <1>2. \/ a.result = load
        \/ a.result = check /\ Initialized
    <2> HIDE DEF check
    <2> QED
      BY <1>1, ThenFails, FromAccountOk DEF Initialized
  <1>3. CASE a.result = load
    BY <1>3, LoadTells, Listed DEF Told
  <1>4. CASE a.result = check /\ Initialized
    BY <1>4, HolderTells, Listed DEF Told
  <1> QED
    BY <1>2, <1>3, <1>4

\* A freeze of the program, behind the gate.
LEMMA FreezeProgramTold ==
    ASSUME AuthorityInv, NEW a, a.caller \in Ids,
           a.instruction = "freeze_program",
           a.result = freeze_program_result(a.caller), a.result # Ok
    PROVE  Told(a)
  <1> DEFINE gate == Gate("freeze_program", a.caller)
             load == FromAccount(freezeConfig)
             check == AssertHolder(freezeConfig, Caller(a.caller))
  <1>1. a.result = (gate ?? load ?? check)
    BY DEF freeze_program_result
  <1>2. gate \in {RequireNotFrozen(a.caller), Ok}
    BY DEF Gate
  <1>3. \/ a.result = RequireNotFrozen(a.caller)
        \/ a.result = load
        \/ a.result = check /\ Initialized
    <2> HIDE DEF check, gate
    <2>1. \/ (gate ?? load) # Ok /\ a.result = (gate ?? load)
          \/ (gate ?? load) = Ok /\ a.result = check
      BY <1>1, ThenFails
    <2>2. (gate ?? load) # Ok => (gate ?? load) \in {gate, load} \ {Ok}
      BY ThenFails
    <2>3. (gate ?? load) = Ok => load = Ok
      BY ThenOk
    <2> QED
      BY <1>2, <2>1, <2>2, <2>3, FromAccountOk DEF Initialized
  <1>4. CASE a.result = RequireNotFrozen(a.caller)
    BY <1>4, GateTells DEF Told
  <1>5. CASE a.result = load
    BY <1>5, LoadTells DEF Told
  <1>6. CASE a.result = check /\ Initialized
    BY <1>6, HolderTells DEF Told
  <1> QED
    BY <1>3, <1>4, <1>5, <1>6

\* A release of an account: the holder is checked before the marker.
LEMMA ReleaseAccountTold ==
    ASSUME AuthorityInv, NEW a, a.caller \in Ids, a.other \in Ids,
           a.instruction = "freeze_account_release",
           a.result = freeze_account_release_result(a.caller, a.other),
           a.result # Ok
    PROVE  Told(a)
  <1> DEFINE load == FromAccount(freezeConfig)
             check == AssertHolder(freezeConfig, Caller(a.caller))
             flag == FromDataOrDefault(frozenAccount[a.other]).is_frozen
             last == Check(flag, "AccountNotFrozen")
  <1>1. a.result = (load ?? check ?? last)
    BY DEF freeze_account_release_result, PerformReleaseResult, Gate,
           FreezeExempt, MarkedExempt, ??, Ok
  <1>2. \/ a.result = load
        \/ a.result = check /\ Initialized
        \/ a.result = "AccountNotFrozen" /\ ~flag
    <2>1. last # Ok => last = "AccountNotFrozen" /\ ~flag
      BY DEF Check
    <2> HIDE DEF check, last, flag
    <2>2. \/ (load ?? check) # Ok /\ a.result = (load ?? check)
          \/ last # Ok /\ a.result = last
      BY <1>1, ThenFails
    <2>3. (load ?? check) # Ok
            => \/ (load ?? check) = load
               \/ (load ?? check) = check /\ load = Ok
      BY ThenFails
    <2> QED
      BY <2>1, <2>2, <2>3, FromAccountOk DEF Initialized
  <1>3. CASE a.result = load
    BY <1>3, LoadTells DEF Told
  <1>4. CASE a.result = check /\ Initialized
    BY <1>4, HolderTells DEF Told
  <1>5. CASE a.result = "AccountNotFrozen" /\ ~flag
    <2>1. frozenAccount[a.other] # [is_frozen |-> TRUE]
      BY <1>5, FrozenIsData DEF FromDataOrDefault
    <2>2. CauseOf(a) /\ Reported(a.result) = 6214
      BY <1>5, <2>1, Codes DEF CauseOf, InitRefused
    <2> QED
      BY <2>2 DEF Told
  <1> QED
    BY <1>2, <1>3, <1>4, <1>5

\* Whatever instruction it was, whoever tried it, whoever else it named.
LEMMA RefusalsTold ==
    ASSUME AuthorityInv, NEW a \in Refusals
    PROVE  Told(a)
  <1> DEFINE ByResult(c) == {Attempt(i, c, c, NoId, TRUE, ResultsFor(c)[i]) :
                                 i \in DOMAIN ResultsFor(c)}
             Releases(c) == {Attempt("freeze_account_release", c, t, NoId, TRUE,
                                     freeze_account_release_result(c, t)) :
                                 t \in Targets}
             Transfers(c) == {Attempt("freeze_authority_transfer", c, n,
                                      cand.derived, s,
                                      freeze_authority_transfer_result(
                                          c, n, cand, s)) :
                                  n \in Ids \ {c}, cand \in Candidates,
                                  s \in BOOLEAN}
  <1>1. PICK c \in Ids : a \in AttemptsOf(c)
    BY DEF Refusals
  <1>2. a.result # Ok
    BY DEF Refusals
  <1>3. CASE \E i \in DOMAIN ResultsFor(c) :
                 a = Attempt(i, c, c, NoId, TRUE, ResultsFor(c)[i])
    <2>1. PICK i \in DOMAIN ResultsFor(c) :
              a = Attempt(i, c, c, NoId, TRUE, ResultsFor(c)[i])
      BY <1>3
    <2>2. /\ a.instruction = i /\ a.caller = c /\ a.other = c
          /\ a.result = ResultsFor(c)[i]
      BY <2>1 DEF Attempt
    <2>3. \/ i = "freeze_initialize" /\ a.result = freeze_initialize_result(c)
          \/ /\ i = "freeze_authority_renounce"
             /\ a.result = freeze_authority_renounce_result(c)
          \/ /\ i = "freeze_authority_nominate"
             /\ a.result = freeze_authority_nominate_result(c)
          \/ /\ i = "freeze_authority_accept"
             /\ a.result = freeze_authority_accept_result(c)
          \/ i = "freeze_program" /\ a.result = freeze_program_result(c)
          \/ /\ i = "freeze_program_release"
             /\ a.result = freeze_program_release_result(c)
          \/ i = "freeze_account" /\ a.result = freeze_account_result(c)
      BY <2>2 DEF ResultsFor
    <2> QED
      BY <1>2, <2>2, <2>3, InitializeTold, DualTold, AcceptTold,
         FreezeProgramTold, HolderTold
  <1>4. CASE \E t \in Targets :
                 a = Attempt("freeze_account_release", c, t, NoId, TRUE,
                             freeze_account_release_result(c, t))
    <2>1. PICK t \in Targets :
              a = Attempt("freeze_account_release", c, t, NoId, TRUE,
                          freeze_account_release_result(c, t))
      BY <1>4
    <2>2. /\ a.instruction = "freeze_account_release" /\ a.caller = c
          /\ a.other = t /\ a.result = freeze_account_release_result(c, t)
      BY <2>1 DEF Attempt
    <2>3. t \in Ids
      BY FreezeAuthorityAssumption
    <2> QED
      BY <1>2, <2>2, <2>3, ReleaseAccountTold
  <1>5. CASE \E n \in Ids \ {c}, cand \in Candidates, s \in BOOLEAN :
                 a = Attempt("freeze_authority_transfer", c, n, cand.derived, s,
                             freeze_authority_transfer_result(c, n, cand, s))
    <2>1. PICK n \in Ids \ {c}, cand \in Candidates, s \in BOOLEAN :
              a = Attempt("freeze_authority_transfer", c, n, cand.derived, s,
                          freeze_authority_transfer_result(c, n, cand, s))
      BY <1>5
    <2>2. /\ a.instruction = "freeze_authority_transfer" /\ a.caller = c
          /\ a.other = n /\ a.claim = cand.derived /\ a.signed = s
          /\ a.result = freeze_authority_transfer_result(c, n, cand, s)
      BY <2>1 DEF Attempt
    <2>3. /\ a.caller \in Ids /\ a.other \in Ids /\ a.signed \in BOOLEAN
          /\ cand \in Candidates
      BY <2>1, <2>2
    <2>4. a.result = freeze_authority_transfer_result(a.caller, a.other, cand,
                                                      a.signed)
      BY <2>2
    <2> QED
      BY <1>2, <2>2, <2>3, <2>4, TransferTold
  <1>6. CASE a \in ByResult(c)
    BY <1>3, <1>6
  <1>7. CASE a \in Releases(c)
    BY <1>4, <1>7
  <1>8. CASE a \in Transfers(c)
    <2> DEFINE T(n, cand, s) ==
                   Attempt("freeze_authority_transfer", c, n, cand.derived, s,
                           freeze_authority_transfer_result(c, n, cand, s))
    <2>1. a \in {T(n, cand, s) : n \in Ids \ {c}, cand \in Candidates, s \in BOOLEAN}
      BY <1>8
    <2> HIDE DEF T
    <2>2. \E n \in Ids \ {c}, cand \in Candidates, s \in BOOLEAN : a = T(n, cand, s)
      BY <2>1
    <2> QED
      BY <2>2, <1>5 DEF T
  <1>9. AttemptsOf(c) = ByResult(c) \cup Releases(c) \cup Transfers(c)
    BY DEF AttemptsOf
  <1> HIDE DEF ByResult, Releases, Transfers
  <1> QED
    BY <1>1, <1>6, <1>7, <1>8, <1>9

\* The code of a refusal is never one whose documented cause is not there.
THEOREM CodesAlwaysTell == Spec => []CodesTellTheCause
  <1>1. IInv => CodesTellTheCause
    BY RefusalsTold DEF IInv, CodesTellTheCause, Told
  <1> QED
    BY <1>1, Invariance, PTL

\* Nor, of the seven instructions whose list is complete, one that the list
\* of the instruction does not have.
THEOREM RefusesOnlyAsListed == Spec => []RefusesAsListed
  <1>1. IInv => RefusesAsListed
    BY RefusalsTold DEF IInv, RefusesAsListed, Told
  <1> QED
    BY <1>1, Invariance, PTL
=============================================================================
