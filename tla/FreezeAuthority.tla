--------------------------- MODULE FreezeAuthority ---------------------------
(***************************************************************************)
(* freeze-authority/src/lib.rs: the nine management instructions, and the  *)
(* require_not_frozen gate of freeze-authority-macros. For every           *)
(* instruction there is its result (Ok, or the error that refuses it) and  *)
(* the action of the transaction that lands. Caller parameters are signed: *)
(* #[account(signer)] refuses the others before the handler runs.          *)
(***************************************************************************)
EXTENDS AdminAuthority

CONSTANTS
    AutoWrap,  \* #[freeze_authority], or FALSE for #[freeze_authority(manual)]
    Targets    \* bound: the accounts that freeze_account is called for

VARIABLES
    freezeConfig,  \* the freeze_config account: NoData or a FreezeConfig
    frozenAccount  \* for every account its marker: NoData or its state

ASSUME FreezeAuthorityAssumption ==
    /\ AutoWrap \in BOOLEAN
    /\ Targets \subseteq Ids
    /\ NoData \notin AccountId \cup FreezeConfigs \cup FrozenAccountStates

freezeVars == <<freezeConfig, frozenAccount>>

FreezeTypeOK ==
    /\ freezeConfig \in {NoData} \cup FreezeConfigs
    /\ frozenAccount \in [Ids -> {NoData} \cup FrozenAccountStates]

FreezeInit == /\ freezeConfig = NoData
              /\ frozenAccount = [a \in Ids |-> NoData]

----------------------------------------------------------------------------
\* The prologue of require_not_frozen, for the marker of the caller.
RequireNotFrozen(caller) ==
    FromAccount(freezeConfig)
      ?? Check(~freezeConfig.is_frozen, "Frozen")
      ?? Check(~FromDataOrDefault(frozenAccount[caller]).is_frozen,
               "AccountFrozen")

\* The exempt list of the package's metadata: the admin instructions.
ExemptList == {"admin_initialize", "admin_transfer", "admin_nominate",
               "admin_accept", "admin_renounce"}

\* A bug to look for: the releases are not marked.
MarkedRolesOnly == {"freeze_initialize", "freeze_authority_transfer",
                    "freeze_authority_renounce", "freeze_authority_nominate",
                    "freeze_authority_accept"}

\* The library instructions marked #[freeze_exempt]: all but freeze_program.
MarkedExempt == {"freeze_initialize", "freeze_authority_transfer",
                 "freeze_authority_renounce", "freeze_program_release",
                 "freeze_account", "freeze_account_release",
                 "freeze_authority_nominate", "freeze_authority_accept"}

FreezeExempt == ExemptList \cup MarkedExempt

\* A bug to look for: skip = "manual" is not honoured.
GateIgnoringMode(instruction, caller) ==
    IF instruction \notin FreezeExempt THEN RequireNotFrozen(caller) ELSE Ok

\* What the framework runs in front of a library instruction.
Gate(instruction, caller) ==
    IF AutoWrap /\ instruction \notin FreezeExempt
    THEN RequireNotFrozen(caller) ELSE Ok

----------------------------------------------------------------------------
ByCaller == [kind |-> "Signer", derived |-> NoId]

\* A bug to look for: #[require_admin] is missing.
UngatedInitializeResult(caller) ==
    Gate("freeze_initialize", caller)
      ?? Check(freezeConfig = NoData, "AccountAlreadyInitialized")
      ?? BootstrapResult(ByCaller, Caller(caller))

\* The framework checks #[account(init)], then the admin gate runs.
freeze_initialize_result(caller) ==
    Gate("freeze_initialize", caller)
      ?? Check(freezeConfig = NoData, "AccountAlreadyInitialized")
      ?? RequireAdmin(caller)
      ?? BootstrapResult(ByCaller, Caller(caller))

freeze_initialize(caller) ==
    /\ freeze_initialize_result(caller) = Ok
    /\ Lands({caller}, {caller})
    /\ freezeConfig' = Bootstrap(caller)
    /\ UNCHANGED <<adminConfig, frozenAccount>>

\* A bug to look for: the admin is not checked.
TransferByAnyoneResult(caller, new, candidate, cosigns) ==
    Gate("freeze_authority_transfer", caller)
      ?? FromAccount(freezeConfig)
      ?? TransferResult(candidate, AccountOf(new, cosigns))

freeze_authority_transfer_result(caller, new, candidate, cosigns) ==
    Gate("freeze_authority_transfer", caller)
      ?? AdminFromAccount(adminConfig)
      ?? AssertAdmin(adminConfig, Caller(caller))
      ?? FromAccount(freezeConfig)
      ?? TransferResult(candidate, AccountOf(new, cosigns))

\* LEZ takes an account only once per transaction, so new # caller: an admin
\* that wants the role itself must be nominated.
freeze_authority_transfer(caller, new, candidate, cosigns) ==
    /\ new # caller
    /\ freeze_authority_transfer_result(caller, new, candidate, cosigns) = Ok
    /\ Lands({caller, new}, IF cosigns THEN {caller, new} ELSE {caller})
    /\ freezeConfig' = Transfer(freezeConfig, new)
    /\ UNCHANGED <<adminConfig, frozenAccount>>

freeze_authority_renounce_result(caller) ==
    Gate("freeze_authority_renounce", caller)
      ?? FromAccount(freezeConfig)
      ?? DualPath(adminConfig, freezeConfig, Caller(caller))

freeze_authority_renounce(caller) ==
    /\ freeze_authority_renounce_result(caller) = Ok
    /\ Lands({caller}, {caller})
    /\ freezeConfig' = Renounce(freezeConfig)
    /\ UNCHANGED <<adminConfig, frozenAccount>>

freeze_authority_nominate_result(caller) ==
    Gate("freeze_authority_nominate", caller)
      ?? FromAccount(freezeConfig)
      ?? DualPath(adminConfig, freezeConfig, Caller(caller))

freeze_authority_nominate(caller, next) ==
    /\ freeze_authority_nominate_result(caller) = Ok
    /\ Lands({caller}, {caller})
    /\ freezeConfig' = Nominate(freezeConfig, next)
    /\ UNCHANGED <<adminConfig, frozenAccount>>

freeze_authority_accept_result(caller) ==
    Gate("freeze_authority_accept", caller)
      ?? FromAccount(freezeConfig)
      ?? AcceptResult(freezeConfig, Caller(caller))

freeze_authority_accept(caller) ==
    /\ freeze_authority_accept_result(caller) = Ok
    /\ Lands({caller}, {caller})
    /\ freezeConfig' = Accept(freezeConfig)
    /\ UNCHANGED <<adminConfig, frozenAccount>>

----------------------------------------------------------------------------
\* The one management instruction that is not exempt.
freeze_program_result(caller) ==
    Gate("freeze_program", caller)
      ?? FromAccount(freezeConfig)
      ?? AssertHolder(freezeConfig, Caller(caller))

freeze_program(caller) ==
    /\ freeze_program_result(caller) = Ok
    /\ Lands({caller}, {caller})
    /\ freezeConfig' = SetIsFrozen(freezeConfig, TRUE)
    /\ UNCHANGED <<adminConfig, frozenAccount>>

freeze_program_release_result(caller) ==
    Gate("freeze_program_release", caller)
      ?? FromAccount(freezeConfig)
      ?? AssertHolder(freezeConfig, Caller(caller))

freeze_program_release(caller) ==
    /\ freeze_program_release_result(caller) = Ok
    /\ Lands({caller}, {caller})
    /\ freezeConfig' = SetIsFrozen(freezeConfig, FALSE)
    /\ UNCHANGED <<adminConfig, frozenAccount>>

freeze_account_result(caller) ==
    Gate("freeze_account", caller)
      ?? FromAccount(freezeConfig)
      ?? PerformFreezeResult(freezeConfig, Caller(caller))

\* The first touch of a target claims its marker, which then persists.
freeze_account(caller, target) ==
    /\ freeze_account_result(caller) = Ok
    /\ Lands({caller}, {caller})
    /\ frozenAccount' = [frozenAccount EXCEPT ![target] = [is_frozen |-> TRUE]]
    /\ UNCHANGED <<adminConfig, freezeConfig>>

freeze_account_release_result(caller, target) ==
    Gate("freeze_account_release", caller)
      ?? FromAccount(freezeConfig)
      ?? PerformReleaseResult(freezeConfig, frozenAccount[target],
                              Caller(caller))

freeze_account_release(caller, target) ==
    /\ freeze_account_release_result(caller, target) = Ok
    /\ Lands({caller}, {caller})
    /\ frozenAccount' = [frozenAccount EXCEPT ![target] = [is_frozen |-> FALSE]]
    /\ UNCHANGED <<adminConfig, freezeConfig>>

----------------------------------------------------------------------------
(* The transactions, over all their inputs. *)

FreezeInitialization == \E caller \in Ids : freeze_initialize(caller)

Nomination == \E caller \in Ids, next \in AccountId :
                  freeze_authority_nominate(caller, next)

RoleChange ==
    \/ \E caller, new \in Ids, candidate \in Candidates, cosigns \in BOOLEAN :
           freeze_authority_transfer(caller, new, candidate, cosigns)
    \/ \E caller \in Ids : \/ freeze_authority_renounce(caller)
                           \/ freeze_authority_accept(caller)

FreezeOrRelease ==
    \E caller \in Ids :
        \/ freeze_program(caller)
        \/ freeze_program_release(caller)
        \/ \E target \in Targets : \/ freeze_account(caller, target)
                                  \/ freeze_account_release(caller, target)

\* The admin extension's own instructions, wrapped like every other one.
AdminInitialization ==
    /\ \E caller \in Ids : /\ Gate("admin_initialize", caller) = Ok
                           /\ admin_initialize(caller)
    /\ UNCHANGED freezeVars

AdminManagement ==
    /\ \E caller \in Ids :
          \/ /\ Gate("admin_transfer", caller) = Ok
             /\ \E new \in Ids, candidate \in Candidates, cosigns \in BOOLEAN :
                    admin_transfer(caller, new, candidate, cosigns)
          \/ Gate("admin_accept", caller) = Ok /\ admin_accept(caller)
          \/ Gate("admin_renounce", caller) = Ok /\ admin_renounce(caller)
    /\ UNCHANGED freezeVars

\* What the accounts do outside the program.
Elsewhere ==
    /\ \E a \in Ids : AccountInit(a) \/ OtherTransaction(a)
    /\ UNCHANGED <<adminConfig, freezeVars>>

----------------------------------------------------------------------------
(* What the library promises to every program that embeds it. *)

Initialized == freezeConfig # NoData

Holder == IF Initialized THEN freezeConfig.slot.holder ELSE NoId

Nominee == IF Initialized THEN freezeConfig.slot.nominee ELSE NoId

ProgramFrozen == Initialized /\ freezeConfig.is_frozen

\* Whoever holds a role keeps the means to sign for it: a key with no owner
\* is never let in, on any path that fills a slot, so neither role is ever in
\* the hands of an account that LEZ will strand. The inductive invariant
\* behind HolderKeepsBrake and AdminCanRecover.
RolesCanSign == /\ Holder \in owned \cup {NoId}
                /\ adminConfig \in owned \cup {NoId, NoData}
                /\ spent \cap owned = {}

\* A holder is never locked out of the brake. On a frozen program it can
\* release; on a running one it can freeze, or, when its own marker is
\* frozen (the gate of freeze_program reads it), release that marker first.
\* Neither a refusal of the library nor a stranded key stands in the way.
\* (F3 carve-outs of ADR-0003, UnownedSigner of errors.rs, ADR-0013)
HolderKeepsBrake ==
    Holder # NoId =>
        /\ Holder \notin spent
        /\ IF ProgramFrozen
           THEN freeze_program_release_result(Holder) = Ok
           ELSE \/ freeze_program_result(Holder) = Ok
                \/ freeze_account_release_result(Holder, Holder) = Ok

\* As long as there is an admin it can put the role into its own hands, be
\* the program frozen, the slot vacant or held by a lost key, or the admin's
\* own marker frozen: it may name itself, its key is not stranded, and once
\* named it may accept. (ADR-0007, ADR-0013: the admin governs the slot)
AdminCanRecover ==
    HasAdmin /\ Initialized =>
        /\ adminConfig \notin spent
        /\ freeze_authority_nominate_result(adminConfig) = Ok
        /\ Nominee = adminConfig =>
               freeze_authority_accept_result(adminConfig) = Ok

\* A nomination outlives the tenure of the admin who made it. Whoever is in
\* charge now can always withdraw or replace it, frozen as the program or
\* their own account may be, and no matter whether they came into their role
\* before the nomination or after.
\* (ADR-0013: "The admin keeps the last word", "replaces an earlier one, from
\* either side")
NominationRevocable ==
    Nominee # NoId =>
        \A a \in {adminConfig, Holder} \cap Ids :
            a \notin spent /\ freeze_authority_nominate_result(a) = Ok

\* A step that changes a freeze is its holder's, and leaves the slot alone.
FreezeStep ==
    \/ ~Initialized
    \/ freezeConfig'.is_frozen = freezeConfig.is_frozen /\ UNCHANGED frozenAccount
    \/ Holder \in authorized' /\ freezeConfig'.slot = freezeConfig.slot

\* No freeze is lifted or set except on the signature of the account that
\* holds the role at that moment, and never as a side effect of the role
\* changing hands: a transfer, renounce or accept over a frozen program
\* leaves it frozen and leaves every marker as it was.
\* (docs/authority-lifecycle.md "is_frozen and per-account PDAs are not
\* modified")
OnlyHolderFreezes == [][FreezeStep]_freezeVars

\* A step that fills the slot has the new holder's consent and the authority
\* of the admin (adminConfig', since a combined initialiser may seat the admin
\* in the same transaction) or of an earlier nomination.
ConsentStep ==
    Holder' \notin {Holder, NoId} =>
        /\ Holder' \in authorized' \cup Pdas
        /\ \/ adminConfig' \in authorized'
           \/ Nominee = Holder' /\ Holder' \in authorized'

\* Nobody gets the role without agreeing to it (a signature, or the claim of
\* a deployed derived address), and nobody gets it past the people in charge:
\* the admin signs, or the account had been nominated.
RoleTakenWithConsent == [][ConsentStep]_freezeVars

\* Nobody is left who could act: the admin has renounced, and the freeze
\* slot was never made or is vacant with no nominee. The document calls this
\* the terminal state.
Abandoned == adminConfig = NoId /\ Holder = NoId /\ Nominee = NoId

\* The terminal state is terminal: no transaction of anybody revives the
\* role, lifts a freeze or imposes one.
\* (docs/authority-lifecycle.md "Edge case - admin renounced first")
AbandonedForever ==
    [][Abandoned => UNCHANGED <<adminConfig, freezeVars>>]_<<adminConfig, freezeVars>>

----------------------------------------------------------------------------
SlotHolder == IF Initialized THEN Holder ELSE NoData

FrozenAccounts == {a \in Ids : frozenAccount[a] = [is_frozen |-> TRUE]}

Lifecycle == INSTANCE AuthorityLifecycle WITH
    admin <- adminConfig,
    holder <- SlotHolder,
    offer <- Nominee,
    frozen <- ProgramFrozen,
    frozenAccounts <- FrozenAccounts,
    signed <- authorized

\* Every change of a role, an offer or a freeze, by any instruction of any of
\* the programs, is one of the few that AuthorityLifecycle allows, on the
\* signature it asks for; and nothing moves along with something else.
ImplementsLifecycle == Lifecycle!Spec

----------------------------------------------------------------------------
(* What the documents say and the code does not do. *)

\* ADR-0003: wrapping freeze_program "is semantically equivalent to the
\* handler's own AlreadyFrozen idempotency check", so on a running program
\* the wrap refuses no holder.
WrapOnlyRefusesFrozen ==
    Holder # NoId /\ ~ProgramFrozen => freeze_program_result(Holder) = Ok

\* docs/authority-lifecycle.md, "State detection": "any call against an
\* Uninitialized state returns NotInitialized cleanly".
UninitializedSaysSo ==
    HasAdmin /\ ~Initialized =>
        \A caller, new \in Ids, candidate \in Candidates :
            freeze_authority_transfer_result(caller, new, candidate, TRUE)
                = "NotInitialized"

\* ADR-0007: "if admin is renounced first, the Renounced freeze slot is
\* permanently unrecoverable".
VacancyIsPermanent ==
    [][ adminConfig = NoId /\ Initialized /\ Holder = NoId
          => Holder' = NoId ]_freezeVars
=============================================================================
