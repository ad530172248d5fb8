------------------ MODULE FreezeAuthoritySampleManual_proofs ------------------
(***************************************************************************)
(* The theorems about the program in manual mode, for any number of keys,  *)
(* derived addresses, markers and values. Its initialize is a step of its  *)
(* own kind: it seats both roles at once.                                  *)
(***************************************************************************)
EXTENDS FreezeAuthoritySampleManual, FreezeAuthority_proofs

\* The inductive invariant. The program's account and freeze_config come
\* into being together.
IInv == /\ AuthorityInv
        /\ programConfig \in {NoData} \cup Values
        /\ programConfig # NoData => Initialized

\* A freeze_config that is there stays there: each write replaces one config
\* by another.
LEMMA StaysInitialized ==
    ASSUME AuthorityInv, Initialized, LibraryStep \/ Elsewhere
    PROVE  Initialized'
  <1>1. freezeConfig \in FreezeConfigs
    BY DEF AuthorityInv, FreezeTypeOK, Initialized
  <1>2. CASE UNCHANGED freezeConfig
    BY <1>2 DEF Initialized
  <1>3. ASSUME NEW caller \in Ids, freeze_initialize(caller)
        PROVE  freezeConfig' \in FreezeConfigs
    BY <1>3 DEF freeze_initialize, Bootstrap, SlotInitialize, FreezeConfigs,
                Slots, AccountId
  <1>4. ASSUME NEW caller \in Ids, NEW next \in AccountId,
               freeze_authority_nominate(caller, next)
        PROVE  freezeConfig' \in FreezeConfigs
    BY <1>1, <1>4 DEF freeze_authority_nominate, Nominate, SlotNominate,
                      FreezeConfigs, Slots
  <1>5. ASSUME NEW caller \in Ids, NEW new \in Ids, NEW candidate, NEW cosigns,
               freeze_authority_transfer(caller, new, candidate, cosigns)
        PROVE  freezeConfig' \in FreezeConfigs
    BY <1>1, <1>5 DEF freeze_authority_transfer, Transfer, SlotTransfer,
                      FreezeConfigs, Slots, AccountId
  <1>6. ASSUME NEW caller \in Ids,
               \/ freeze_authority_renounce(caller)
               \/ freeze_authority_accept(caller)
        PROVE  freezeConfig' \in FreezeConfigs
    <2>1. CASE freeze_authority_renounce(caller)
      BY <1>1, <2>1 DEF freeze_authority_renounce, Renounce, SlotRenounce,
                        FreezeConfigs, Slots, AccountId
    <2>2. CASE freeze_authority_accept(caller)
      BY <1>1, <2>2 DEF freeze_authority_accept, Accept, SlotAccept,
                        FreezeConfigs, Slots, AccountId
    <2> QED
      BY <1>6, <2>1, <2>2
  <1>7. ASSUME NEW caller \in Ids,
               freeze_program(caller) \/ freeze_program_release(caller)
        PROVE  freezeConfig' \in FreezeConfigs
    BY <1>1, <1>7 DEF freeze_program, freeze_program_release, SetIsFrozen,
                      FreezeConfigs
  <1>8. UNCHANGED freezeConfig \/ freezeConfig' \in FreezeConfigs
    <2>1. CASE AdminInitialization \/ AdminManagement \/ Elsewhere
      BY <2>1 DEF AdminInitialization, AdminManagement, Elsewhere, freezeVars
    <2>2. CASE FreezeInitialization
      BY <2>2, <1>3 DEF FreezeInitialization
    <2>3. CASE Nomination
      BY <2>3, <1>4 DEF Nomination
    <2>4. CASE RoleChange
      BY <2>4, <1>5, <1>6 DEF RoleChange
    <2>5. CASE FreezeOrRelease
      BY <2>5, <1>7 DEF FreezeOrRelease, freeze_account, freeze_account_release
    <2> QED
      BY <2>1, <2>2, <2>3, <2>4, <2>5 DEF LibraryStep
  <1> QED
    BY <1>2, <1>8, FreezeAuthorityAssumption DEF Initialized

\* The combined initialiser leaves its caller, which it has found to be
\* owned, in both roles.
LEMMA InitializeSeats ==
    ASSUME NEW signer \in Ids, initialize(signer)
    PROVE  /\ signer \in owned /\ authorized' = {signer}
           /\ Lands({signer}, {signer})
           /\ adminConfig = NoData /\ adminConfig' = signer
           /\ freezeConfig = NoData /\ freezeConfig' \in FreezeConfigs
           /\ freezeConfig'.slot = [holder |-> signer, nominee |-> NoId]
           /\ ~freezeConfig'.is_frozen /\ UNCHANGED frozenAccount
           /\ programConfig = NoData /\ programConfig' = 0
  <1>1. Validate(ByCaller, AccountOf(signer, TRUE)) = Ok
    BY ThenOk DEF initialize, AdminBootstrapResult, ByCaller, Caller
  <1>2. ByCaller \in Candidates
    BY DEF ByCaller, Candidates
  <1>3. signer \in owned
    BY <1>1, <1>2, ValidateOk
  <1>4. /\ freezeConfig' \in FreezeConfigs
        /\ freezeConfig'.slot = [holder |-> signer, nominee |-> NoId]
        /\ ~freezeConfig'.is_frozen
    BY DEF initialize, Bootstrap, SlotInitialize, FreezeConfigs, Slots, AccountId
  <1> QED
    BY <1>3, <1>4 DEF initialize, Lands

\* The rest of the program's own instructions leaves both extensions alone.
LEMMA UpdateLeaves ==
    ASSUME NEW caller \in Ids, NEW v \in Values, update_value(caller, v)
    PROVE  /\ UNCHANGED <<adminConfig, freezeVars>>
           /\ Lands({caller}, {caller}) /\ authorized' = {caller}
           /\ programConfig # NoData /\ programConfig' = v
           /\ Initialized' = Initialized
           /\ RequireNotFrozen(caller) = Ok
  <1>1. /\ RequireNotFrozen(caller) = Ok
        /\ Check(programConfig # NoData, "DecodingFailed") = Ok
    BY ThenOk DEF update_value, update_value_result
  <1> QED
    BY <1>1 DEF update_value, Lands, Check, Ok, Initialized, freezeVars

\* A step is the library's, the accounts', or one of the program's own.
LEMMA StepKinds ==
    ASSUME Next
    PROVE  \/ (LibraryStep \/ Elsewhere) /\ UNCHANGED programConfig
           \/ \E signer \in Ids : initialize(signer)
           \/ \E caller \in Ids, v \in Values : update_value(caller, v)
  BY DEF Next, Library, LibraryStep

\* The invariant holds at first, and the lifecycle starts as it should.
LEMMA InitInv == Init => IInv /\ Lifecycle!Init
  BY InitKeeps DEF Init, IInv

\* Every step of the program keeps the invariant.
LEMMA StepInv == IInv /\ [Next]_vars => IInv'
  <1> SUFFICES ASSUME IInv, [Next]_vars PROVE IInv'
    OBVIOUS
  <1>1. CASE (LibraryStep \/ Elsewhere) /\ UNCHANGED programConfig
    BY <1>1, LibraryKeeps, StaysInitialized DEF IInv
  <1>2. ASSUME NEW signer \in Ids, initialize(signer)
        PROVE  IInv'
    <2>1. /\ signer \in owned /\ Lands({signer}, {signer})
          /\ adminConfig' = signer /\ freezeConfig' \in FreezeConfigs
          /\ freezeConfig'.slot = [holder |-> signer, nominee |-> NoId]
          /\ UNCHANGED frozenAccount /\ programConfig' = 0
      BY <1>2, InitializeSeats
    <2>2. LedgerTypeOK' /\ spent' \cap owned' = {} /\ owned' = owned
      BY <2>1, LandsKeepsAccounts DEF IInv, AuthorityInv, RolesCanSign
    <2>3. Holder' = signer /\ Initialized'
      BY <2>1, NextHolder
    <2> QED
      BY <2>1, <2>2, <2>3, ManualAssumption
         DEF IInv, AuthorityInv, RolesCanSign, AdminTypeOK, FreezeTypeOK,
             AccountId
  <1>3. ASSUME NEW caller \in Ids, NEW v \in Values, update_value(caller, v)
        PROVE  IInv'
    <2>1. {caller} \in SUBSET Ids
      OBVIOUS
    <2> QED
      BY <1>3, <2>1, UpdateLeaves, OwnStepKeeps DEF IInv
  <1>4. CASE UNCHANGED vars
    BY <1>4, StutterKeeps DEF vars, IInv, freezeVars, Initialized
  <1> QED
    BY <1>1, <1>2, <1>3, <1>4, StepKinds

\* The invariant holds of every reachable state.
THEOREM Invariance == Spec => []IInv
  <1>1. Init => IInv
    BY InitInv
  <1> QED
    BY <1>1, StepInv, PTL DEF Spec

\* Type correctness of every variable.
THEOREM TypeCorrect == Spec => []TypeOK
  <1>1. IInv => TypeOK
    BY DEF IInv, AuthorityInv, TypeOK
  <1> QED
    BY <1>1, Invariance, PTL

\* Without the wrap the holder's brake never fails, its own frozen marker
\* notwithstanding.
THEOREM BrakeNeverGated == Spec => []BrakeUngated
  <1>1. IInv => BrakeUngated
    <2> SUFFICES ASSUME IInv, Holder # NoId
                 PROVE  /\ Holder \notin spent
                        /\ freeze_program_result(Holder) = Ok
                        /\ freeze_program_release_result(Holder) = Ok
      BY DEF BrakeUngated
    <2>1. Holder \in owned /\ Holder \notin spent /\ Holder \in Ids
      BY DEF IInv, AuthorityInv, RolesCanSign, LedgerTypeOK
    <2>2. FromAccount(freezeConfig) = Ok
      BY FromAccountOk DEF Holder, Initialized
    <2>3. freezeConfig \in FreezeConfigs /\ freezeConfig.slot.holder = Holder
      BY <2>2, ConfigType DEF IInv, AuthorityInv
    <2>4. AssertHolder(freezeConfig, Caller(Holder)) = Ok
      BY <2>1, <2>3, AssertHolderOk
    <2>5. \A i : Gate(i, Holder) = Ok
      BY ManualAssumption DEF Gate
    <2> QED
      BY <2>1, <2>2, <2>4, <2>5, ThenOk
         DEF freeze_program_result, freeze_program_release_result
  <1> QED
    BY <1>1, Invariance, PTL

\* A freeze changes by the holder's signature only, never as a side effect.
THEOREM FreezesOnlyByHolder == Spec => OnlyHolderFreezes
  <1>1. IInv /\ [Next]_vars => [FreezeStep]_freezeVars
    <2> SUFFICES ASSUME IInv, [Next]_vars, ~UNCHANGED freezeVars
                 PROVE  FreezeStep
      OBVIOUS
    <2>1. CASE LibraryStep \/ Elsewhere
      BY <2>1, FreezesAreTheHolders DEF IInv, FreezeStep
    <2>2. ASSUME NEW signer \in Ids, initialize(signer)
          PROVE  FreezeStep
      BY <2>2, InitializeSeats DEF FreezeStep, Initialized
    <2>3. ~\E caller \in Ids, v \in Values : update_value(caller, v)
      BY UpdateLeaves
    <2>4. ~UNCHANGED vars
      BY DEF vars, freezeVars
    <2> QED
      BY <2>1, <2>2, <2>3, <2>4, StepKinds
  <1> QED
    BY <1>1, Invariance, PTL DEF Spec, OnlyHolderFreezes

\* The terminal state is terminal: the admin account stays, renounced, and
\* bars the combined initialiser too.
THEOREM TerminalState == Spec => AbandonedForever
  <1>1. IInv /\ [Next]_vars =>
          [Abandoned => UNCHANGED <<adminConfig, freezeVars>>]_<<adminConfig,
                                                                freezeVars>>
    <2> SUFFICES ASSUME IInv, [Next]_vars, Abandoned
                 PROVE  UNCHANGED <<adminConfig, freezeVars>>
      OBVIOUS
    <2>1. CASE LibraryStep \/ Elsewhere
      BY <2>1, AbandonedStops DEF IInv
    <2>2. ~\E signer \in Ids : initialize(signer)
      BY InitializeSeats, FreezeAuthorityAssumption DEF Abandoned, AccountId
    <2>3. CASE \E caller \in Ids, v \in Values : update_value(caller, v)
      BY <2>3, UpdateLeaves
    <2>4. CASE UNCHANGED vars
      BY <2>4 DEF vars
    <2> QED
      BY <2>1, <2>2, <2>3, <2>4, StepKinds
  <1> QED
    BY <1>1, Invariance, PTL DEF Spec, AbandonedForever

\* The explicit gate: a frozen program's state stands still.
THEOREM FreezeStopsWrites == Spec => FrozenStateStands
  <1>1. IInv /\ [Next]_vars => [UnfrozenWrite]_programConfig
    <2> SUFFICES ASSUME IInv, [Next]_vars, ~UNCHANGED programConfig,
                        programConfig # NoData
                 PROVE  /\ Initialized /\ ~ProgramFrozen
                        /\ \A a \in authorized' :
                              frozenAccount[a] # [is_frozen |-> TRUE]
      BY DEF UnfrozenWrite
    <2>1. PICK caller \in Ids, v \in Values : update_value(caller, v)
      BY StepKinds, InitializeSeats DEF vars
    <2>2. RequireNotFrozen(caller) = Ok /\ authorized' = {caller}
      BY <2>1, UpdateLeaves
    <2> QED
      BY <2>2, GatePasses DEF IInv
  <1> QED
    BY <1>1, Invariance, PTL DEF Spec, FrozenStateStands

\* Once set up, nothing but a freeze stops a write, and where there is a
\* holder it can lift the freeze.
THEOREM WritesStopByFreezeOnly == Spec => []OnlyFreezesStopWrites
  <1>1. IInv => OnlyFreezesStopWrites
    <2> SUFFICES ASSUME IInv, programConfig # NoData, NEW a \in Ids
                 PROVE  \/ update_value_result(a) = Ok
                        \/ ProgramFrozen /\ (Holder # NoId =>
                             /\ Holder \notin spent
                             /\ freeze_program_release_result(Holder) = Ok)
                        \/ /\ frozenAccount[a] = [is_frozen |-> TRUE]
                           /\ Holder # NoId =>
                                /\ Holder \notin spent
                                /\ freeze_account_release_result(Holder, a) = Ok
      BY DEF OnlyFreezesStopWrites
    <2>1. /\ FromAccount(freezeConfig) = Ok
          /\ Initialized
      BY FromAccountOk DEF IInv, Initialized
    <2>2. freezeConfig \in FreezeConfigs /\ freezeConfig.slot.holder = Holder
      BY <2>1, ConfigType DEF IInv, AuthorityInv
    <2>3. \A i : Gate(i, Holder) = Ok
      BY ManualAssumption DEF Gate
    <2>4. Holder # NoId => /\ Holder \in Ids /\ Holder \notin spent
                           /\ AssertHolder(freezeConfig, Caller(Holder)) = Ok
      <3> SUFFICES ASSUME Holder # NoId
                   PROVE  /\ Holder \in Ids /\ Holder \notin spent
                          /\ AssertHolder(freezeConfig, Caller(Holder)) = Ok
        OBVIOUS
      <3>1. Holder \in Ids /\ Holder \notin spent
        BY DEF IInv, AuthorityInv, RolesCanSign, LedgerTypeOK
      <3> QED
        BY <2>2, <3>1, AssertHolderOk
    <2>5. CASE ProgramFrozen
      BY <2>1, <2>3, <2>4, <2>5, ThenOk DEF freeze_program_release_result
    <2>6. CASE FromDataOrDefault(frozenAccount[a]).is_frozen
      <3>1. frozenAccount[a] = [is_frozen |-> TRUE]
        BY <2>6 DEF IInv, AuthorityInv, FreezeTypeOK, FromDataOrDefault,
                    FrozenAccountStates
      <3>2. Check(FromDataOrDefault(frozenAccount[a]).is_frozen,
                  "AccountNotFrozen") = Ok
        BY <2>6 DEF Check
      <3>3. Holder # NoId
              => PerformReleaseResult(freezeConfig, frozenAccount[a],
                                      Caller(Holder)) = Ok
        BY <2>4, <3>2, ThenOk DEF PerformReleaseResult
      <3> QED
        BY <2>1, <2>3, <2>4, <3>1, <3>3, ThenOk
           DEF freeze_account_release_result
    <2>7. CASE /\ ~ProgramFrozen
               /\ ~FromDataOrDefault(frozenAccount[a]).is_frozen
      <3>1. /\ Check(~freezeConfig.is_frozen, "Frozen") = Ok
            /\ Check(~FromDataOrDefault(frozenAccount[a]).is_frozen,
                     "AccountFrozen") = Ok
            /\ Check(programConfig # NoData, "DecodingFailed") = Ok
        BY <2>1, <2>7 DEF Check, ProgramFrozen
      <3>2. RequireNotFrozen(a) = Ok
        BY <2>1, <3>1, ThenOk DEF RequireNotFrozen
      <3> QED
        BY <3>1, <3>2, ThenOk DEF update_value_result
    <2> QED
      BY <2>5, <2>6, <2>7
  <1> QED
    BY <1>1, Invariance, PTL

\* Every step is one of the lifecycle, the combined initialiser a set-up.
LEMMA StepImplements == IInv /\ [Next]_vars => [Lifecycle!Next]_Lifecycle!vars
  <1> SUFFICES ASSUME IInv, [Next]_vars
               PROVE  Lifecycle!Next \/ UNCHANGED Lifecycle!vars
    OBVIOUS
  <1>1. CASE LibraryStep \/ Elsewhere
    BY <1>1, LibraryImplements DEF IInv
  <1>2. ASSUME NEW signer \in Ids, initialize(signer)
        PROVE  Lifecycle!Next
    <2>1. /\ authorized' = {signer} /\ adminConfig = NoData
          /\ adminConfig' = signer /\ freezeConfig = NoData
          /\ freezeConfig' \in FreezeConfigs
          /\ freezeConfig'.slot = [holder |-> signer, nominee |-> NoId]
          /\ ~freezeConfig'.is_frozen /\ UNCHANGED frozenAccount
      BY <1>2, InitializeSeats
    <2>2. SlotHolder = NoData /\ Nominee = NoId /\ ~ProgramFrozen
      BY <2>1 DEF SlotHolder, Nominee, ProgramFrozen, Initialized
    <2>3. SlotHolder' = signer /\ Nominee' = NoId /\ ~ProgramFrozen'
             /\ FrozenAccounts' = FrozenAccounts
      BY <2>1, NextHolder
         DEF SlotHolder, ProgramFrozen, FrozenAccounts
    <2>4. ProgramFrozen' = ProgramFrozen
      BY <2>2, <2>3 DEF ProgramFrozen, Initialized
    <2>5. Lifecycle!SetUp(signer)
      BY <2>1, <2>2, <2>3, <2>4 DEF Lifecycle!SetUp, Lifecycle!freezes
    <2> QED
      BY <2>1, <2>5 DEF Lifecycle!Next
  <1>3. ASSUME NEW caller \in Ids, NEW v \in Values, update_value(caller, v)
        PROVE  Lifecycle!Next
    <2>1. authorized' \subseteq Ids
      BY <1>3, UpdateLeaves
    <2> QED
      BY <1>3, <2>1, UpdateLeaves, OwnStepImplements
  <1>4. CASE UNCHANGED vars
    BY <1>4, StutterImplements DEF vars
  <1> QED
    BY <1>1, <1>2, <1>3, <1>4, StepKinds

\* The program implements the lifecycle of the roles and the freezes.
THEOREM LifecycleRefined == Spec => ImplementsLifecycle
  <1>1. Init => Lifecycle!Init
    BY InitInv
  <1> QED
    BY <1>1, StepImplements, Invariance, PTL
       DEF Spec, ImplementsLifecycle, Lifecycle!Spec
=============================================================================
