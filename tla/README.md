# TLA+ models of the freeze-authority extension

This directory holds the TLA+ specification of the repository's freeze
authority: a library extension that gives an on-chain program an emergency
brake. One account, the *freeze authority* (the holder), may freeze and release
the whole program or single accounts; the program's *admin* governs who the
holder is.

Nothing here runs concurrently in the usual sense: each instruction is a
transaction that happens as a whole or not at all. What is hard is the
protocol: two roles with their own life cycles, a nomination that stays pending
while roles move, a gate that is put in front of some instructions and not of
others, and a ledger that silently makes some accounts unusable. Any account
may send any instruction at any time, so the interleaving of those transactions
is the state space.

## 1. The system

| Component | State | Operations | Talks to |
|---|---|---|---|
| `freeze-authority/src/config.rs` | the `freeze_config` record: slot (holder, nominee) and `is_frozen`, in a byte window of some account | load strict (`from_account_at`), probe (`is_initialized_at`), owner-checked load, `bootstrap`, `assert`, `transfer`, `renounce`, `nominate`, `accept`, `set_is_frozen`, the `perform_*` compositions | the slot of `spel-authority`; `AdminConfig::assert_admin` for the dual paths |
| `freeze-authority/src/frozen_account.rs` | one marker account (a PDA) per frozen account | lenient load, `perform_freeze`, `perform_release` | `FreezeConfig::assert` |
| `freeze-authority/src/errors.rs` | none | the errors and their stable codes, conversions to what a client sees and from the admin's errors | everything above |
| `freeze-authority/src/lib.rs` | none of its own | nine instructions: initialize, transfer, renounce, nominate, accept, freeze/release the program, freeze/release an account | both records, the admin record, LEZ's post-states and claims |
| `freeze-authority-macros`, `[package.metadata.spel.wrap_instructions]` | none | the `require_not_frozen` prologue, and the rule which instructions the framework puts it in front of | both records, on behalf of the wrapped instruction |
| the macros when a program is compiled | the module's attributes, the gate's arguments | the marker `#[freeze_authority]` and its placement check; the parser of the gate's arguments | the compiler, and the framework's `#[lez_program]`, which must see the marker |
| `freeze-authority-sample` | `program_config` (a value) | `initialize`, `update_value`, `read_value`; everything wrapped unless exempt | both extensions |
| `freeze-authority-sample-manual` | the same | one initialiser for three accounts; gates only what it annotates | both extensions |
| `freeze-authority-sample-embedded` | one account that holds the value, the admin slot and the freeze config | `initialize`, `update_value`, `withdraw` | both extensions at an offset |
| `ci/consumer-fixture` | `program_config` (a value) | `initialize` (anybody's), `update_value`, in auto mode | both extensions |
| `spel-authority`, `admin-authority` (other repositories) | slots | `AuthoritySlot`, `AuthorityCandidate`, the admin's instructions | modelled from their uses here, marked external |
| LEZ, the ledger (another repository) | owners, nonces | refuses some transactions after the program has run | modelled from `tests/lez_rules.rs` and the docs, marked external |

What makes each correct, and what is hard about it:

* **Slot and config.** A nominee only ever accepts what somebody now in charge
  offered; a change of role never touches the freeze; a vacant slot is
  recoverable exactly as long as there is an admin. Hard: nominations outlive
  the step that made them; `renounce` and `nominate` have two callers with
  different lifetimes; the admin is decoded leniently on these two paths.
* **Gate.** A frozen program or account does not write, and still the brake can
  be released. Hard: these two pull against each other, and which instructions
  are exempt is a list in a manifest and attributes on handlers.
* **Macros.** A marker that expands before the program attribute is gone when
  that one looks for it, and the program would compile without its gate; an
  argument of the gate that is lost would make it read an account that nobody
  freezes.
* **Errors.** Clients branch on codes, and the errors of two roles share names.
* **Ledger.** An account no program owns signs once and is then refused for
  good ("stranded"). A role in such hands would be a freeze nobody can lift, so
  every path that fills a slot must keep such accounts out.
* **Samples.** Two different ways to set up (two initialisers, or one), which
  may be attempted both; an embedded slot that exists without ever having been
  bootstrapped.
* **Bytes.** Slot and flag are spliced into windows of shared accounts; a
  splice must fit and must leave its neighbours alone.

`PROJECT.json` lists each hazard at its line under `hazards`.

## 2. The modules

```
AuthoritySlot        the slot and candidate checks                (external)
  Ledger             owners, stranded keys, signatures            (external)
  FreezeConfig       the two records: checks and updates
    AdminAuthority   who the admin is                             (external)
      FreezeAuthority          nine instructions and the gate; instantiates
                               AuthorityLifecycle, which it implements
        FreezeAuthoritySample           auto mode
          NominationAudit               ... with a history variable
        FreezeAuthoritySampleManual     manual mode
        FreezeAuthoritySampleEmbedded   embedded mode
        ConsumerFixture                 the CI fixture, auto mode
        FreezeRefusals                  what the nine instructions answer
                                        (with FreezeErrors: the codes)

  FreezeConfig
    ConfigWindow       the records in windows of an account's data
      Lez              accounts, post-states, claims, nonces        (external)
        FreezeAuthorityOnLez   nine instructions over bytes, and their answers
          EmbeddedOnLez        one account for both roles; implements
                               FreezeAuthoritySampleEmbedded
          SampleOnLez          an account for each role; implements
                               FreezeAuthoritySample

AuthorityLifecycle   what the extension promises, without records or gates

MarkerPlacement      a module's attributes expand, the marker among them
GateExpansion        the gate's arguments are parsed
  MacroExpansion     one after the other, when a program is compiled

MC*                  instances for TLC
*_proofs             theorems, one module per program at each level, and one for
                     each of the two levels of the library:
                     FreezeAuthority_proofs over records,
                     FreezeAuthorityOnLez_proofs over bytes. What the macros do
                     to a program is with the CI fixture, the one that is built
                     from outside: ConsumerFixture_proofs
```

**How code becomes actions.** A handler returns `Result`, so each instruction
has two definitions. `X_result(...)` is the outcome: `Ok` or the name of the
error; its checks are chained with `??`, which is Rust's `?`, in the order in
which the code makes them, the gate first. `X(...)` is the transaction that
lands: it requires `X_result = Ok`, lets the ledger have its say (`Lands`) and
makes the writes. A refused transaction changes nothing and is no step. Error
names are kept because properties distinguish *refused* from *accepted*, and
one (`UninitializedSaysSo`) which refusal.

**State.** `freezeConfig` is the account of that name: `NoData`, or a record of
slot and flag. `frozenAccount[a]` is the marker of account `a`: `NoData`, or
its flag (a released marker stays; it is not the same as none). `adminConfig`
is `NoData`, the admin, or `NoId` after its renounce. `owned`, `spent` and
`authorized` are the ledger's: accounts some program owns, keys that are
stranded, and who signed the last transaction that landed (what action
properties say about authority, they say about `authorized'`). `programConfig`
is the sample's value. In the embedded sample `adminConfig`,
`freezeConfig` and `programConfig` live in one account and are born in one step.

**The lifecycle.** `AuthorityLifecycle` is the extension seen from outside: an
admin, a holder, an offer, freezes, and who signed; an action per way in which
one of them may change, and on whose signature. Records, gates, refusals, owners
and the ways of setting up are not in it. `FreezeAuthority` maps its variables
to it (`Lifecycle`), and each of the four programs has `ImplementsLifecycle`
as a property: whatever a program adds, every step that touches a role or a
freeze is one of these.

**Refusals.** `FreezeRefusals` tries every instruction by every caller in every
state and looks at what is reported. `CauseOf` is the table of errors in
`docs/account-model.md`; `FailureModes` lists the reasons of each instruction
from `docs/authority-lifecycle.md`. That no other reason occurs
(`RefusesAsListed`) holds of seven instructions. Of the other two the list is not
complete, and a run each shows what it leaves out: `freeze_program` is also refused for
the caller's frozen marker (`wrap_is_not_idempotency`), and
`freeze_account_release` asserts the holder, like its siblings, though line 213
lists `NotInitialized` and `AccountNotFrozen` only (`release_refusals`).

**The gate.** `Gate(instruction, caller)` runs `RequireNotFrozen` unless the
instruction is exempt, by the manifest (`ExemptList`) or by its mark
(`MarkedExempt`); `AutoWrap = FALSE` is the manual mode, in which library
instructions are not wrapped at all. Of the nine only `freeze_program` is not
exempt. The gate reads the *caller's* marker.

**The ledger.** A transaction is refused when it carries a stranded key. A key
that signs while nobody owns it is stranded from then on. Derived addresses
(`Pdas`) sign by their program's seeds, which leaves no nonce. An account
appears once per transaction, hence `new # caller` in the transfers.

**Two levels.** The modules up to the samples work on decoded records. The
`OnLez` modules work on what is stored: a handler loads a record from a window
of an account's data, checks it with the same operators of `FreezeConfig`,
splices it back, and answers with a list of post-states; `Lands` matches them
with the accounts by position, runs LEZ's checks, applies claims and bumps
nonces. A call is a record (accounts, signers, result, post-states), so that
properties can speak of the calls that *would* be made. The record level's
ledger is derived here: a key is stranded when it has a nonce and no owner, and
that LEZ refuses it is a consequence of `ValidateExecution`.

A cell of `ConfigWindow` is a field: the 32 bytes of an id or the byte of a
flag. The all-zero id and a zero byte are the same cell, and a cell does not
say what it was written as, so a window read or written at the wrong offset
does go wrong in the model. Misalignment inside a field is not represented in
the programs: offsets are bound by the framework from the declared struct, never
by a caller. What guards against it when a program is built, the layout probe,
is therefore told in bytes (`ProbeBytes`, `ProbedStruct`), and so is what is
proved of it.

**The macros.** `MarkerPlacement` lets the compiler expand a module's attributes
from the top down. Each sees only those below it: a marker looks for
`lez_program` there and errs, `lez_program` merges the extensions whose markers
it finds there. On an item that is no module the marker passes unchecked, and
`lez_program` errs. `GateExpansion` is the loop over the arguments of
`require_not_frozen`, one action per arm of its `match` and one for each way to
fail and to end; a value is a name, an integer that fits or does not, or some
other expression. The attribute may also hold something else than `name = value`
pairs, and the item below it may be no function: errors too, the first before
any argument is looked at, the second after all of them. `MacroExpansion` runs one after the other, as the compiler does.
The program attribute is written by its bare name: the placement check
recognises no other spelling (`is_ident("lez_program")`), so above
`#[spel_framework::lez_program]` a marker would not be refused. No program of the
repository writes it so.

**Abstractions.** `admin_accept` lets any owned account become admin: the
admin's own nominee is not kept, which allows more than the code does, so what
holds here holds there (the `OnLez` modules keep it, and their refinement shows
that the free choice covers it). `From<AdminError>` is translated whole
(`FromAdminError`), though no instruction of the library goes through it. An
instruction's account addresses are taken as
checked: the framework derives them. `read_value` changes nothing and is no step;
over bytes it is one of the calls that LEZ must accept.

Bug operators ("A bug to look for") stand before the definition they would
spoil; each property is shown to notice one of them (`mutants`).

## 3. What is checked

| Run | Module | What it asks | Distinct states |
|---|---|---|---|
| `sample_safety` | `FreezeAuthoritySample` | roles can sign, the holder keeps the brake, the admin can recover the role, pending offers can be withdrawn, freezes change by the holder only, the terminal state is terminal, a frozen program stands still, refusals tell their cause, implements the lifecycle | 32k |
| `role_handover` | `NominationAudit`, `DutifulSpec` | no stale nominations, no role without consent and authority, a frozen program thaws | 85k |
| `manual_safety` | `FreezeAuthoritySampleManual` | the brake is ungated, the explicit gate is as good, once it is set up only a freeze stops a write, implements the lifecycle | 32k |
| `embedded_safety` | `FreezeAuthoritySampleEmbedded` | a slot that was never bootstrapped can be taken by the admin, a freeze leaves only the withdrawal, implements the lifecycle | 21k |
| `fixture_safety` | `ConsumerFixture` | an initialiser that anybody may call gives nothing lasting away, implements the lifecycle | 32k |
| `embedded_on_lez` | `EmbeddedOnLez` | windows readable, neighbours kept, LEZ accepts what the library accepts, landed calls take effect, implements the embedded program | 11k |
| `sample_on_lez` | `SampleOnLez` | LEZ accepts what the library accepts, only the own config is read as one, implements the sample program | 17k |
| `macro_expansion` | `MacroExpansion` | a module with the marker compiles with the gate or not at all, the gate reads what it is told to, errors exactly on what is malformed | 1.8M |

A property that is proved of several programs is run for one of them, the one
where it says most; section 4 lists the others.

The properties, each explained where it is defined:

* `RolesCanSign`, `HolderKeepsBrake`, `AdminCanRecover`: no reachable state,
  after any sequence of hand-overs, strands a role or locks it out. These are
  stated with the `_result` operators: *were the holder to call, the answer
  would be Ok*.
* `OnlyHolderFreezes`, `FrozenStateStands`, `FrozenOnlyDrains`,
  `AdminWritesUnfrozen`: what a step may
  never do to a freeze, or in spite of one.
* `ImplementsLifecycle`: as above. `OnlyHolderFreezes` is about the markers
  themselves, which the lifecycle shows as one set, and names the one caller.
* `NominationRevocable`: a nomination is bound to the holder's tenure, not to the
  admin's who made it, so one by a former admin stays valid. What keeps that
  harmless is that whoever is in charge now, admin or holder, can withdraw it
  in any reachable state, frozen or not.
* `CodesTellTheCause`, `RefusesAsListed`: refusals, as above.
* `RoleTakenWithConsent`, `MandateStands`: how the role changes hands. The
  second needs to know under whom a nomination was made; the code keeps no such
  record, so `NominationAudit` adds `mandate`, written by nominations only and
  read by the invariant only.
* `AbandonedForever`: what stays impossible afterwards.
* `OnlyFreezesStopWrites`: the gate refuses where it finds no `freeze_config`.
  The combined initialiser makes all three accounts at once, so that this never
  bars a program for good: somebody who cannot write is stopped by a freeze, and
  a holder can lift it. An initialiser that left one of the three out would pass
  every test that calls the extension's own one first.
* `WindowsReadable`, `NeighboursKept`, `OnlyOwnConfigRead`: the bytes. Three
  writers (the program, which writes its whole struct, and two extensions,
  which splice) share one account; nothing but the offsets keeps them apart.
* `LezAccepts`: no answer of the library is one that LEZ refuses, whatever has
  been claimed, written and handed over before.
* `NoLostWrite`: per instruction, a landed call did to the records what the
  instruction does. `ImplementsRecords` alone would not notice a handler that
  returns the stale copy of a shared account, since to the records that looks
  like an unrelated transaction.
* `NeverSilentlySkipped`, `GateReadsWhatIsNamed`, `ErrsExactlyOnMalformed`: a
  gate that is missing or reads the wrong account is invisible to every test of a
  program that is not frozen. What is well-formed is said by the table of
  documented arguments (`Documented`) and by the module as written, and not by the
  macros' own conditions.
* `FreezeRecovers`: liveness, below.

**Deadlock** is checked in every run but `macro_expansion`, whose expansions end:
any owned or not yet stranded account can always sign something.

**Bounds.** Three accounts (two keys and a derived address) are the least with
which holder and somebody else are keys and a derived address can take the role
by claim; runs about markers use them, with a marker for each key. Runs about
hand-overs have four, so that admin, holder, nominee and an outsider can all
differ, and leave markers out (`Targets = {}`): nothing about hand-overs reads
one except the gate of `freeze_program`, which the other runs cover. The
`OnLez` runs have the three accounts, one marker (first touch, toggles, its
owner as caller of gated instructions) and one account that `admin_nominate`
names, since the admin's nominee is there to fill its cell. The derived address
is deployed by another program with data that looks like a config. A program
has one slot with one nominee, so a longer chain of hand-overs passes through
the same states. Values are 0 (what `initialize` and `withdraw` leave) and 1,
or 0 alone where they play no part. `macro_expansion` has one attribute besides
the two that matter, which can be above, between or below them, and three
arguments: one that is overridden, the one that does it, and one between. There are no counters, hence no cut-offs:
the state spaces are complete. Keys are symmetric in the runs that check
safety only (every constant set holds all of them or none); `role_handover`, which
has a liveness property, uses no symmetry.

**Fairness.** The library itself schedules nothing; nothing happens unless
somebody sends a transaction. `DutifulSpec` therefore assumes (`Duties`) what
`docs/authority-lifecycle.md` asks of the people in the roles in its recovery
procedure: an admin that finds the slot vacant again and again names itself
(`AdminTakesVacancy`), a nominee accepts (`NomineeAccepts`), a holder of a
frozen program releases it (`HolderReleases`). The fairness is strong because
others may get in between and disable a step (a renounce, another nomination)
infinitely often. No fairness is assumed of freezing, of the set-up or of
anything the other accounts do. The admin names *itself* since it cannot
transfer to itself (LEZ takes an account only once) and any other account might
never answer. `FreezeRecovers` would not hold without the exemption of the
releases, which is its mutant. A holder that has lost its key is assumed away by
`HolderReleases`: on-chain it is a holder that never calls. `MacroExpansion` assumes weak fairness of its only
process: the compiler goes on as long as it can.

**Where a document and the code differ** (`findings`; one run each, which TLC
refutes):

* `wrap_is_not_idempotency`: ADR-0003 calls the wrap of `freeze_program`
  equivalent to an `AlreadyFrozen` check. It also refuses a holder whose own
  marker is frozen, on a running program. `HolderKeepsBrake` shows the way out:
  the holder can release its own marker first.
* `release_refusals`: the lifecycle document lists two failure modes of
  `freeze_account_release`. It is also refused, with `NotFreezeAuthority` or
  `Renounced`, to whoever is not the holder.
* `uninitialized_transfer`: the lifecycle document says any call before
  `freeze_initialize` returns `NotInitialized`; a transfer by somebody who is
  not the admin returns the admin check's error, which comes first.
* `vacancy_filled_by_nominee`: ADR-0007 says a vacant slot is unrecoverable
  once the admin has renounced. A nominee named earlier by the admin can still
  accept (the lifecycle document says so elsewhere). `Abandoned` is therefore
  stated with *no nominee*, and so stated it is terminal.

## 4. What is proved

For any set of keys and derived addresses, any targets and any values; the
assumptions are `IdsAssumption` (derived addresses are among the ids, the zero
id is not), `FreezeAuthorityAssumption` (sets are typed, `NoData` is no record),
over bytes `CellsAssumption` (ids and flags are cells, the zero id is the zero
cell) and `NamesAssumption` (a derived marker address is none of the other
accounts' and absent data is no cell), and each program's own about its mode (`SampleAssumption` and so on). TLC
evaluates them in the runs.

* **The library** (`FreezeAuthority_proofs`, lemmas only, one library step at a
  time, without a program). `AuthorityInv` is the type invariant of the
  library's and the ledger's variables with `RolesCanSign`. For each group of
  instructions a lemma says it keeps `AuthorityInv`. The lemma for the transfers
  is where the candidate checks matter (`Validate` = Ok implies owned), the one
  for accept where the owner check on the nominee does. From `AuthorityInv`
  alone follow `HolderKeepsBrake` (`BrakeWorks`), `AdminCanRecover`
  (`RecoveryWorks`) and `NominationRevocable` (`RevocationWorks`): these ask
  whether a call *would* succeed, and the only obstacles are a stranded key,
  excluded because `RolesCanSign` says a role is owned and no stranded key is,
  and the gate, from which the calls in question are exempt. None is inductive
  by itself: none says anything about ownership.
* **The lifecycle.** A second series of lemmas says which action of
  `AuthorityLifecycle` each instruction is (`TransferAppoints`,
  `RenounceVacates`, `NominationOffers`, `AcceptTakesUp`, `FreezeBrakes`), up to
  `LibraryImplements`: every library step from `AuthorityInv` is a lifecycle step
  or a stutter. `LifecycleConsents` derives consent from the lifecycle alone, so
  that `RoleTakenWithConsent` comes with the refinement.
* **The programs.** Each has its `IInv`, a lemma `StepKinds` that tells the
  library's steps from its own, and `LifecycleRefined`:
  * `FreezeAuthoritySample_proofs`: `TypeCorrect`, `RolesAlwaysSign`,
    `BrakeAlwaysThere`, `RecoveryAlwaysThere`, `NominationsRevocable`,
    `FreezesOnlyByHolder`, `TerminalState`, `ConsentAlwaysGiven`,
    `FreezeStopsWrites`. `IInv` is `AuthorityInv` with the type of the value.
    With the history variable, `AuditTypeCorrect` and `MandatesStand`:
    `AuditInv` adds `MandateStands` itself, which is inductive once it is known
    that every step but a nomination keeps holder and nominee or drops the
    latter (`OthersDropOrKeep`, from the lifecycle lemmas). The refusals,
    `CodesAlwaysTell` and `RefusesOnlyAsListed`: a lemma per check says which
    errors it fails with and that their documented cause is then there
    (`LoadTells`, `AdminTells`, `HolderTells`, `CandidateTells`,
    `DualPathTells`, `NomineeTells`, `GateTells`), a lemma per instruction puts
    its checks in a row. `AuthorityInv` is needed for both: the bootstrap
    of `freeze_initialize` has errors of its own, none of them listed, and they
    do not arise because whoever got past the admin check is owned.
    `RefusesOnlyAsListed` is about the seven instructions of which it holds.
  * `FreezeAuthoritySampleManual_proofs`: `TypeCorrect`, `BrakeNeverGated`,
    `FreezesOnlyByHolder`, `TerminalState`, `FreezeStopsWrites`,
    `WritesStopByFreezeOnly`. Its initialiser seats both roles: a step of its own
    kind. `IInv` adds that `freeze_config` exists once the program's account does,
    which lasts because no step deletes it (`StaysInitialized`): without it the gate's
    `NotInitialized` could not be ruled out.
  * `FreezeAuthoritySampleEmbedded_proofs`: `TypeCorrect`, `BrakeAlwaysThere`,
    `RecoveryAlwaysThere`, `NominationsRevocable`, `ConsentAlwaysGiven`,
    `FreezeLeavesTheDrain`. One account holds everything, so `IInv` adds that
    without the program's record there is neither config; else `initialize`
    could unseat somebody.
  * `ConsumerFixture_proofs`: `TypeCorrect`, `BrakeAlwaysThere`,
    `AdminWritesOnly`.
* **Windows** (`FreezeAuthorityOnLez_proofs`), for data of any length and any
  offset: a
  write keeps the length and every cell outside the window
  (`WriteKeepsNeighbours`), a load gives back what was written (`ReadBack`), a
  slot in another window reads the same (`NeighbourSlotUnmoved`), the strict
  load of a dedicated account takes nothing that the window at 0 refuses
  (`DedicatedIsWindowAtZero`), a bootstrap into a window that fits can be
  loaded again and keeps its neighbours (`BornInitialized`), and a layout probe
  that is encoded at one byte offset and read at another, overlapping or not,
  never reads as itself (`MisplacedProbeShows`). Its lemmas about LEZ say what a transaction leaves in
  each account it names (`LandsAccounts`), and that post-states in the position
  of their accounts, each of them `Acceptable`, pass every check
  (`TakenOne` to `TakenFour`). Of a call that writes one account and passes the
  others by, wherever in the list that account is and whether or not it names an
  account that need not sign, `CallRewrites` with `WritesFirst`, `WritesSecond`,
  ... say which account changes and to what, and `RewriteTypes` that it stays
  well-formed; `KeyLedger` and `KeyBorn` say what the transaction does to owners
  and stranded keys, seen as the record level sees them. Both programs over bytes
  are built from these.
* **The embedded program over bytes** (`EmbeddedOnLez_proofs`), every safety
  property of `embedded_on_lez` for any keys, markers and values:
  * The inductive invariant is `ChainInv` (`ChainInvariant`): types; keys are
    never owned by the program and hold nothing while nobody owns them
    (`KeysInv`); a marker is untouched or the program's with one flag
    (`MarkersInv`); the account is untouched or the program's `Struct`, of full
    length, each window well-typed, and no nominee in a renounced admin slot. The last part is no property of the run and
    is what the refinement needs: over records, an acceptance of the admin role
    requires that there is an admin, and over bytes only the nominee's cell is
    asked for.
  * `NextEffect` says of each step, once and for all, that it keeps `ChainInv`,
    that it changes one window at most (`OneWindow`), and that the mapped
    variables make a step of the record level. It rests on a lemma per
    instruction (`TransferLands`, ..., `WithdrawLands`), those on what a spliced
    struct reads as afterwards (`FreezeWindowWritten`, `AdminWindowWritten`,
    `ValueWritten`), on what lands of a call of that shape (`ConfigCall`,
    `MarkerCall`) and on the checks and updates being the same
    at both levels (`SameChecks`, `SameUpdates`, `SameAccount`, `SameGate`).
  * From it `ChainTypesHold`, `WindowsStayReadable`, `NeighboursStay`,
    `NoWriteIsLost`, `OnlyOwnIsRead` and `BytesImplementRecords`. As the latter is
    `Spec => Records!Spec`, what `FreezeAuthoritySampleEmbedded_proofs` proves of
    every behaviour of the record level holds of the mapped bytes: that is what
    the refinement says, and not stated again as theorems, since the prover does
    not let a theorem be cited through an instance.
  * `LezAcceptsAll`: with an accepted result, each post-state of each
    call is taken (`RoleTaken`, `BrakeTaken`, `AdminTaken`, `OwnTaken`,
    `ReadTaken`): what is written is the program's, what is claimed was nobody's,
    and what is neither is passed on unchanged.
* **The sample program over bytes** (`SampleOnLez_proofs`), in which each role has
  an account that one instruction claims; every property of `sample_on_lez`, for
  any keys, markers and values:
  * `ChainInv` (`ChainInvariant`) has the types, `KeysInv` and `MarkersInv` as
    above, and one part per account (`AdminInv`, `ConfigInv`, `ProgramInv`):
    untouched, or the program's and in the shape of what it stores. Ownership is
    needed for LEZ, which takes a write only from the owner; that *untouched* is
    all of `Default` is needed for the claims, which LEZ takes of such accounts
    only; and the shape keeps a load from failing where the record level has
    none that could. As above, a renounced admin slot names no nominee.
  * A lemma per account says what a write of it leaves of the others
    (`AdminRewritten`, `ConfigRewritten`, `ProgramRewritten`,
    `MarkerRewritten`, `PassedBy`), one per instruction what lands
    (`TransferLands`, ..., `FreezeInitializeLands`, `AdminInitializeLands`,
    `InitializeLands`, `UpdateLands`), and `NextEffect` that each step keeps
    `ChainInv` and is one of the record level.
  * From it `OnlyOwnIsRead`: the lengths tell the program's accounts apart, and
    no key is its own. `BytesImplementRecords` is `Spec => Records!Spec`, so that
    what `FreezeAuthoritySample_proofs` proves of every behaviour over records is
    true of the mapped bytes; that is again what the refinement says, without
    being stated as theorems of its own. `LezAcceptsAll` covers every call:
    that an instruction which claims an account is let through by the
    library's checks only while that account is untouched (`BirthTaken`,
    `SetUpTaken`) is the part which `EmbeddedOnLez` has in one place only.
* **Macros** (in `ConsumerFixture_proofs`), for any number of attributes and of
  arguments: `MarkerNeverSkipped`, `GateReads`, and `ErrsOnMalformedOnly`, which is
  the safety half of `ErrsExactlyOnMalformed`: wherever an expansion ends, it is
  with an error on what is malformed and without one on what is not.
  `PlacementInv` follows the positions of the two attributes and of the one
  that expands: in a module, once the marker has expanded without an error, `lez_program` is
  above it, and once that has expanded it has seen the marker. `GateInv` says
  that what was read so far is well-formed and the last word of the arguments so far
  (`Says`); another key keeps it (`OtherKeyKeeps`), the same key has the last
  word (`SameKeySays`), and at the end of the arguments it is what they mean
  (`SaidIsMeant`).

Only model-checked: `FreezeRecovers`, and of `ErrsExactlyOnMalformed` that every
expansion ends. Both are liveness under fairness, which is out of the proof
system's reach.
Every other property of every passing run is stated by a theorem, for the program
it is run for.

## 5. What is not modelled

* Data never outgrows an account here, so `AccountDataTooLarge` and
  `EncodingFailed` do not arise; texts of errors are left out.
* `bootstrap_at` and the layout probe are operators of `ConfigWindow` with
  theorems, but no action: no program of the repository calls the first at run
  time (the embedded sample is born vacant), and the framework evaluates the
  second when a program is built.
* Balances, private accounts and chained calls of LEZ.
* The marker's check of where it is written recognises a bare name only (see
  the macros above); programs that write a path are outside the model.
* The generated IDL and the scripts, which have no state of their own.

## 6. The plan

Done: the modules of section 2. What is left, in this order:

1. The manual sample on LEZ, whose initialiser claims three accounts at once,
   next to the extensions' own claims of two of them. Over records,
   `ImplementsLifecycle` and `OnlyFreezesStopWrites` have the half of it that is
   about what a set-up leaves behind.
2. Liveness of the embedded program, where the slot is born vacant.
