--------------------------- MODULE AuthoritySlot ---------------------------
(***************************************************************************)
(* External: the single-holder slot of the spel-authority crate, as        *)
(* freeze-authority uses it (config.rs, errors.rs and their tests). A slot *)
(* stores the holder and its nominee; the all-zero id means "nobody" in    *)
(* both places. A fallible function is an operator that yields Ok or the   *)
(* name of its error, and a second operator for the value it leaves.       *)
(***************************************************************************)
CONSTANTS
    Ids,    \* the account ids in play: keys and program-derived addresses
    Pdas,   \* those of Ids that are program-derived addresses
    NoId,   \* AccountId::default(), the all-zero id
    NoData  \* the data of an account nobody has written yet (empty bytes)

ASSUME IdsAssumption == Pdas \subseteq Ids /\ NoId \notin Ids

AccountId == Ids \cup {NoId}

Slots == [holder : AccountId, nominee : AccountId]

\* AccountWithMetadata, reduced to what the checks look at. An account some
\* program owns is never Account::default(), so owned also means "deployed".
Accounts == [account_id : AccountId, is_authorized : BOOLEAN, owned : BOOLEAN]

\* AuthorityCandidate. A Pda claim is its derived address.
Candidates == [kind : {"Signer"}, derived : {NoId}]
                \cup [kind : {"Pda"}, derived : Pdas]

----------------------------------------------------------------------------
Ok == "Ok"

\* Rust's ? operator: go on only after Ok.
first ?? next == IF first = Ok THEN next ELSE first

Check(holds, error) == IF holds THEN Ok ELSE error

----------------------------------------------------------------------------
\* AuthorityCandidate::validate. It resolves to account.account_id.
Validate(candidate, account) ==
    IF candidate.kind = "Signer"
    THEN Check(account.account_id # NoId /\ account.is_authorized,
               "InvalidCandidate")
           ?? Check(account.owned, "UnownedSigner")
    ELSE Check(candidate.derived = account.account_id, "CandidateMismatch")
           ?? Check(account.owned, "UndeployedPda")

SlotInitializeResult(id) == Check(id # NoId, "InvalidCandidate")

SlotInitialize(id) == [holder |-> id, nominee |-> NoId]

SlotAssert(slot, signer) ==
    Check(slot.holder # NoId, "Renounced")
      ?? Check(signer.account_id = slot.holder, "NotHolder")
      ?? Check(signer.is_authorized, "MissingSignature")

\* Renouncing an empty slot only drops the nominee.
SlotRenounce(slot) == [slot EXCEPT !.holder = NoId, !.nominee = NoId]

\* A bare id: nothing is checked, and NoId cancels.
SlotNominate(slot, id) == [slot EXCEPT !.nominee = id]

\* A bug to look for: a transfer leaves the nomination pending.
SlotTransferKeepingNominee(slot, id) == [slot EXCEPT !.holder = id]

\* A transfer also drops the nominee.
SlotTransfer(slot, id) == [slot EXCEPT !.holder = id, !.nominee = NoId]

SlotAcceptResult(slot, signer) ==
    Check(slot.nominee # NoId, "NoNomination")
      ?? Check(signer.is_authorized, "MissingSignature")
      ?? Check(signer.account_id = slot.nominee, "NotNominee")
      ?? Check(signer.owned, "UnownedSigner")

SlotAccept(slot) == [holder |-> slot.nominee, nominee |-> NoId]
=============================================================================
