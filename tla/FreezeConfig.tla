---------------------------- MODULE FreezeConfig ----------------------------
(***************************************************************************)
(* freeze-authority/src/config.rs and frozen_account.rs: the two on-chain  *)
(* records and the checks and updates the library makes on them. Where the *)
(* bytes of a record lie (the offset) is the subject of ConfigWindow; here *)
(* a record is either NoData or decoded.                                   *)
(***************************************************************************)
EXTENDS AuthoritySlot

FreezeConfigs == [slot : Slots, is_frozen : BOOLEAN]

FrozenAccountStates == [is_frozen : BOOLEAN]

\* impl From<AuthorityError> for FreezeError: only one name changes.
FromAuthorityError(e) == IF e = "NotHolder" THEN "NotFreezeAuthority" ELSE e

\* AdminConfig::assert_admin (external). admin is the admin's id, or NoId
\* once the admin role is renounced.
AssertAdmin(admin, signer) ==
    Check(admin # NoId, "AdminError::Renounced")
      ?? Check(signer.account_id = admin, "AdminError::NotAdmin")
      ?? Check(signer.is_authorized, "AdminError::MissingSignature")

----------------------------------------------------------------------------
\* Strict load of the config: empty data is an error.
FromAccount(data) == Check(data # NoData, "NotInitialized")

AssertHolder(config, signer) == FromAuthorityError(SlotAssert(config.slot, signer))

BootstrapResult(candidate, account) ==
    FromAuthorityError(Validate(candidate, account)
                         ?? SlotInitializeResult(account.account_id))

Bootstrap(id) == [slot |-> SlotInitialize(id), is_frozen |-> FALSE]

SetIsFrozen(config, state) == [config EXCEPT !.is_frozen = state]

TransferResult(candidate, account) ==
    FromAuthorityError(Validate(candidate, account)
                         ?? SlotInitializeResult(account.account_id))

\* A bug to look for: a transfer starts over with a fresh config.
TransferUnfreezing(config, id) ==
    [slot |-> SlotTransfer(config.slot, id), is_frozen |-> FALSE]

Transfer(config, id) == [config EXCEPT !.slot = SlotTransfer(@, id)]

\* A bug to look for: a frozen program listens to its holder only.
HolderOnlyWhenFrozen(admin, config, signer) ==
    Check(\/ admin # NoData /\ ~config.is_frozen
                            /\ AssertAdmin(admin, signer) = Ok
          \/ SlotAssert(config.slot, signer) = Ok,
          "NotAdminOrFreezeAuthority")

\* The dual path of renounce and nominate: the admin, if one could be
\* decoded, or the holder. admin = NoData is the None of the code.
DualPath(admin, config, signer) ==
    Check(\/ admin # NoData /\ AssertAdmin(admin, signer) = Ok
          \/ SlotAssert(config.slot, signer) = Ok,
          "NotAdminOrFreezeAuthority")

Renounce(config) == [config EXCEPT !.slot = SlotRenounce(@)]

\* A bug to look for: cancelling stores no id at all.
NominateNone(config, id) ==
    [config EXCEPT !.slot = SlotNominate(@, IF id = NoId THEN NoData ELSE id)]

Nominate(config, id) == [config EXCEPT !.slot = SlotNominate(@, id)]

\* A bug to look for: the owner of the nominee is not checked.
AcceptResultUnowned(config, nominee) ==
    Check(config.slot.nominee # NoId, "NoNomination")
      ?? Check(nominee.account_id = config.slot.nominee, "NotNominee")

\* A bug to look for: the signer is not compared with the nominee.
AcceptResultAnyone(config, nominee) ==
    Check(config.slot.nominee # NoId, "NoNomination")
      ?? Check(nominee.owned, "UnownedSigner")

AcceptResult(config, nominee) ==
    FromAuthorityError(SlotAcceptResult(config.slot, nominee))

Accept(config) == [config EXCEPT !.slot = SlotAccept(@)]

----------------------------------------------------------------------------
\* Lenient load of a per-account flag: empty data is "never frozen".
FromDataOrDefault(data) ==
    IF data = NoData THEN [is_frozen |-> FALSE] ELSE data

PerformFreezeResult(config, signer) == AssertHolder(config, signer)

\* A bug to look for: the marker is released without the holder check.
PerformReleaseUnchecked(config, data, signer) ==
    Check(FromDataOrDefault(data).is_frozen, "AccountNotFrozen")

\* The holder check comes first, so that others do not learn the flag.
PerformReleaseResult(config, data, signer) ==
    AssertHolder(config, signer)
      ?? Check(FromDataOrDefault(data).is_frozen, "AccountNotFrozen")
=============================================================================
