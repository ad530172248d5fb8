----------------- MODULE FreezeAuthoritySampleEmbedded_proofs -----------------
(***************************************************************************)
(* The theorems about the program in embedded mode, for any number of      *)
(* keys, derived addresses, markers and values. Its initialize makes all   *)
(* three records at once, the freeze slot vacant.                          *)
(***************************************************************************)
EXTENDS FreezeAuthoritySampleEmbedded, FreezeAuthority_proofs

\* The inductive invariant. A freeze config is never without the program's
\* own record, and so initialize never overwrites one.
IInv == /\ AuthorityInv /\ programConfig \in {NoData} \cup Values
        /\ programConfig = NoData => freezeConfig = NoData /\ adminConfig = NoData

\* The set-up seats its caller as the admin, and nobody in the freeze slot.
LEMMA InitializeSeats ==
    ASSUME NEW caller \in Ids, initialize(caller)
    PROVE  /\ caller \in owned /\ authorized' = {caller}
           /\ Lands({caller}, {caller})
           /\ programConfig = NoData /\ programConfig' = 0
           /\ adminConfig' = caller /\ freezeConfig' \in FreezeConfigs
           /\ freezeConfig'.slot = [holder |-> NoId, nominee |-> NoId]
           /\ ~freezeConfig'.is_frozen /\ UNCHANGED frozenAccount
  <1>1. Validate(ByCaller, AccountOf(caller, TRUE)) = Ok
    BY ThenOk DEF initialize, AdminBootstrapResult, ByCaller, Caller
  <1>2. ByCaller \in Candidates
    BY DEF ByCaller, Candidates
  <1>3. caller \in owned
    BY <1>1, <1>2, ValidateOk
  <1>4. /\ freezeConfig' \in FreezeConfigs
        /\ freezeConfig'.slot = [holder |-> NoId, nominee |-> NoId]
        /\ ~freezeConfig'.is_frozen
    BY DEF initialize, BornVacant, FreezeConfigs, Slots, AccountId
  <1> QED
    BY <1>3, <1>4 DEF initialize, Lands

\* The rest of the program's own instructions is the admin's, and leaves both
\* extensions alone.
OwnStep(caller) == withdraw(caller) \/ \E v \in Values : update_value(caller, v)

\* They are the admin's, and all but the withdrawal are behind the gate.
LEMMA OwnStepOfAdmin ==
    ASSUME NEW caller \in Ids, OwnStep(caller)
    PROVE  /\ UNCHANGED <<adminConfig, freezeVars>>
           /\ Lands({caller}, {caller}) /\ authorized' = {caller}
           /\ programConfig' \in Values
           /\ adminConfig = caller
           /\ programConfig' = 0 \/ RequireNotFrozen(caller) = Ok
  <1>1. RequireAdmin(caller) = Ok
          /\ (withdraw(caller) \/ RequireNotFrozen(caller) = Ok)
    BY ThenOk DEF OwnStep, withdraw, update_value, update_value_result
  <1>2. adminConfig = caller
    BY <1>1, RequireAdminOk
  <1> QED
    BY <1>1, <1>2, EmbeddedAssumption
       DEF OwnStep, withdraw, update_value, Lands

\* A step is the library's, the accounts', or one of the program's own.
LEMMA StepKinds ==
    ASSUME Next
    PROVE  \/ (LibraryStep \/ Elsewhere) /\ UNCHANGED programConfig
           \/ \E caller \in Ids : initialize(caller)
           \/ \E caller \in Ids : OwnStep(caller)
  BY DEF Next, Library, LibraryStep, OwnStep

\* The invariant holds at first, and the lifecycle starts as it should.
LEMMA InitInv == Init => IInv /\ Lifecycle!Init
  BY InitKeeps DEF Init, IInv, AdminInit, FreezeInit

\* Before the set-up no instruction of the library goes through.
LEMMA NothingBefore ==
    ASSUME IInv, programConfig = NoData,
           AdminManagement \/ Nomination \/ RoleChange \/ FreezeOrRelease
    PROVE  FALSE
  <1>1. /\ \A caller \in Ids : RequireAdmin(caller) # Ok
        /\ ~HasAdmin
        /\ FromAccount(freezeConfig) # Ok
    BY RequireAdminOk, FromAccountOk, IdsAssumption, FreezeAuthorityAssumption
       DEF IInv, HasAdmin, AccountId
  <1>2. ~AdminManagement
    BY <1>1 DEF AdminManagement, admin_transfer, admin_accept, admin_renounce
  <1>3. ~Nomination
    BY <1>1, ThenOk DEF Nomination, freeze_authority_nominate,
                        freeze_authority_nominate_result
  <1>4. ~RoleChange
    <2>1. ASSUME NEW caller \in Ids, NEW new \in Ids,
                 NEW candidate \in Candidates, NEW cosigns \in BOOLEAN
          PROVE  ~freeze_authority_transfer(caller, new, candidate, cosigns)
      BY <1>1, TransferByAdmin DEF freeze_authority_transfer
    <2>2. ASSUME NEW caller \in Ids
          PROVE  ~freeze_authority_renounce(caller)
                   /\ ~freeze_authority_accept(caller)
      BY <1>1, ThenOk
         DEF freeze_authority_renounce, freeze_authority_renounce_result,
             freeze_authority_accept, freeze_authority_accept_result
    <2> QED
      BY <2>1, <2>2 DEF RoleChange
  <1>5. ~FreezeOrRelease
    BY <1>1, FreezeByHolder, FromAccountOk, FreezeAuthorityAssumption
       DEF IInv, FreezeOrRelease, freeze_program, freeze_program_release,
           freeze_account, freeze_account_release
  <1> QED
    BY <1>2, <1>3, <1>4, <1>5

\* Every step of the program keeps the invariant.
LEMMA StepInv == IInv /\ [Next]_vars => IInv'
  <1> SUFFICES ASSUME IInv, [Next]_vars PROVE IInv'
    OBVIOUS
  <1>1. CASE Library /\ UNCHANGED programConfig
    <2>1. AuthorityInv'
      BY <1>1, LibraryKeeps DEF IInv, Library, LibraryStep
    <2>2. programConfig # NoData
      BY <1>1, NothingBefore DEF Library
    <2> QED
      BY <1>1, <2>1, <2>2 DEF IInv
  <1>2. CASE Elsewhere /\ UNCHANGED programConfig
    <2>1. AuthorityInv' /\ UNCHANGED <<adminConfig, freezeConfig>>
      BY <1>2, LibraryKeeps DEF IInv, Elsewhere, freezeVars
    <2> QED
      BY <1>2, <2>1 DEF IInv
  <1>3. ASSUME NEW caller \in Ids, initialize(caller)
        PROVE  IInv'
    <2>1. /\ caller \in owned /\ Lands({caller}, {caller})
          /\ adminConfig' = caller /\ freezeConfig' \in FreezeConfigs
          /\ freezeConfig'.slot = [holder |-> NoId, nominee |-> NoId]
          /\ UNCHANGED frozenAccount /\ programConfig' = 0
      BY <1>3, InitializeSeats
    <2>2. LedgerTypeOK' /\ spent' \cap owned' = {} /\ owned' = owned
      BY <2>1, LandsKeepsAccounts DEF IInv, AuthorityInv, RolesCanSign
    <2>3. Holder' = NoId
      BY <2>1, NextHolder
    <2> QED
      BY <2>1, <2>2, <2>3, EmbeddedAssumption
         DEF IInv, AuthorityInv, RolesCanSign, AdminTypeOK, FreezeTypeOK,
             AccountId
  <1>4. ASSUME NEW caller \in Ids, OwnStep(caller)
        PROVE  IInv'
    <2>1. /\ UNCHANGED <<adminConfig, freezeVars>>
          /\ Lands({caller}, {caller}) /\ programConfig' \in Values
      BY <1>4, OwnStepOfAdmin
    <2>2. AuthorityInv'
      <3>1. {caller} \in SUBSET Ids
        OBVIOUS
      <3> QED
        BY <2>1, <3>1, OwnStepKeeps DEF IInv
    <2> QED
      BY <2>1, <2>2, EmbeddedAssumption DEF IInv
  <1>5. CASE UNCHANGED vars
    <2>1. AuthorityInv'
      BY <1>5, StutterKeeps DEF vars, IInv
    <2> QED
      BY <1>5, <2>1 DEF vars, freezeVars, IInv
  <1> QED
    BY <1>1, <1>2, <1>3, <1>4, <1>5 DEF Next, OwnStep

\* The invariant holds of every reachable state.
THEOREM Invariance == Spec => []IInv
  <1>1. Init => IInv
    BY InitInv
  <1> QED
    BY <1>1, StepInv, PTL DEF Spec

\* Type correctness of every variable.
THEOREM TypeCorrect == Spec => []TypeOK
  <1>1. IInv => TypeOK
    BY DEF IInv, AuthorityInv, TypeOK
  <1> QED
    BY <1>1, Invariance, PTL

\* The holder can always work the brake.
THEOREM BrakeAlwaysThere == Spec => []HolderKeepsBrake
  <1>1. IInv => HolderKeepsBrake
    BY BrakeWorks DEF IInv
  <1> QED
    BY <1>1, Invariance, PTL

\* The admin can always take the role, which is born vacant here.
THEOREM RecoveryAlwaysThere == Spec => []AdminCanRecover
  <1>1. IInv => AdminCanRecover
    BY RecoveryWorks DEF IInv
  <1> QED
    BY <1>1, Invariance, PTL

\* Whoever is in charge can withdraw a pending nomination.
THEOREM NominationsRevocable == Spec => []NominationRevocable
  <1>1. IInv => NominationRevocable
    BY RevocationWorks DEF IInv
  <1> QED
    BY <1>1, Invariance, PTL

\* Every step is one of the lifecycle, initialize a set-up.
LEMMA NextImplements ==
    ASSUME IInv, Next
    PROVE  Lifecycle!Next
  <1>1. CASE LibraryStep \/ Elsewhere
    BY <1>1, LibraryImplements DEF IInv
  <1>2. ASSUME NEW caller \in Ids, initialize(caller)
        PROVE  Lifecycle!Next
    <2>1. /\ authorized' = {caller} /\ adminConfig = NoData
          /\ adminConfig' = caller /\ freezeConfig = NoData
          /\ freezeConfig' \in FreezeConfigs
          /\ freezeConfig'.slot = [holder |-> NoId, nominee |-> NoId]
          /\ ~freezeConfig'.is_frozen /\ UNCHANGED frozenAccount
      BY <1>2, InitializeSeats DEF IInv
    <2>2. SlotHolder = NoData /\ Nominee = NoId /\ ~ProgramFrozen
      BY <2>1 DEF SlotHolder, Nominee, ProgramFrozen, Initialized
    <2>3. SlotHolder' = NoId /\ Nominee' = NoId /\ ~ProgramFrozen'
             /\ FrozenAccounts' = FrozenAccounts
      BY <2>1, NextHolder
         DEF SlotHolder, ProgramFrozen, FrozenAccounts
    <2>4. ProgramFrozen' = ProgramFrozen
      BY <2>2, <2>3 DEF ProgramFrozen, Initialized
    <2>5. Lifecycle!SetUp(caller)
      BY <2>1, <2>2, <2>3, <2>4 DEF Lifecycle!SetUp, Lifecycle!freezes
    <2> QED
      BY <2>1, <2>5 DEF Lifecycle!Next
  <1>3. ASSUME NEW caller \in Ids, OwnStep(caller)
        PROVE  Lifecycle!Next
    <2>1. authorized' \subseteq Ids
      BY <1>3, OwnStepOfAdmin
    <2> QED
      BY <1>3, <2>1, OwnStepOfAdmin, OwnStepImplements
  <1> QED
    BY <1>1, <1>2, <1>3, StepKinds

\* The program implements the lifecycle of the roles and the freezes.
THEOREM LifecycleRefined == Spec => ImplementsLifecycle
  <1>1. Init => Lifecycle!Init
    BY InitInv
  <1>2. IInv /\ [Next]_vars => [Lifecycle!Next]_Lifecycle!vars
    BY NextImplements, StutterImplements DEF vars
  <1> QED
    BY <1>1, <1>2, Invariance, PTL
       DEF Spec, ImplementsLifecycle, Lifecycle!Spec

\* Nobody gets the role without agreeing, and nobody past the admin.
THEOREM ConsentAlwaysGiven == Spec => RoleTakenWithConsent
  <1>1. IInv /\ IInv' /\ [Next]_vars => [ConsentStep]_freezeVars
    <2> SUFFICES ASSUME IInv, IInv', [Next]_vars, ~UNCHANGED freezeVars
                 PROVE  ConsentStep
      OBVIOUS
    <2>1. Lifecycle!Next
      BY NextImplements DEF vars, freezeVars
    <2> QED
      BY <2>1, LifecycleConsents DEF IInv
  <1> QED
    BY <1>1, Invariance, PTL DEF Spec, RoleTakenWithConsent

\* A freeze leaves the admin one move, to take the value out.
THEOREM FreezeLeavesTheDrain == Spec => FrozenOnlyDrains
  <1>1. IInv /\ [Next]_vars => [DrainOrUnfrozen]_programConfig
    <2> SUFFICES ASSUME IInv, [Next]_vars, ~UNCHANGED programConfig,
                        programConfig # NoData
                 PROVE  /\ adminConfig \in authorized'
                        /\ \/ programConfig' = 0
                           \/ /\ ~ProgramFrozen
                              /\ frozenAccount[adminConfig] # [is_frozen |-> TRUE]
      BY DEF DrainOrUnfrozen
    <2>1. PICK caller \in Ids : OwnStep(caller)
      BY StepKinds, InitializeSeats DEF vars
    <2> QED
      BY <2>1, OwnStepOfAdmin, GatePasses DEF IInv
  <1> QED
    BY <1>1, Invariance, PTL DEF Spec, FrozenOnlyDrains
=============================================================================
