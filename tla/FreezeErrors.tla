----------------------------- MODULE FreezeErrors -----------------------------
(***************************************************************************)
(* freeze-authority/src/errors.rs: the errors and the codes that clients   *)
(* branch on. A refusal of the admin's checks (AdminError, external) keeps *)
(* its own code; texts are left out.                                       *)
(***************************************************************************)
EXTENDS Naturals, Sequences

\* The variants, in the order of the enum.
FreezeError ==
    <<"NotInitialized", "AlreadyInitialized", "InvalidCandidate",
      "UndeployedPda", "CandidateMismatch", "NotFreezeAuthority", "NotAdmin",
      "NotAdminOrFreezeAuthority", "MissingSignature", "Renounced",
      "AlreadyFrozen", "NotFrozen", "AccountAlreadyFrozen",
      "AccountNotFrozen", "EncodingFailed", "DecodingFailed", "Frozen",
      "AccountFrozen", "AccountDataTooLarge", "SlotOutOfBounds",
      "UnownedSigner", "NoNomination", "NotNominee", "ConfigNotOwned">>

\* The stable codes happen to follow that order, from 201 on.
code(e) == 200 + CHOOSE i \in DOMAIN FreezeError : FreezeError[i] = e

\* External: the codes of AdminError that the lifecycle document names.
AdminCode == [e \in {"AdminError::NotInitialized", "AdminError::Renounced",
                     "AdminError::NotAdmin"} |->
                CASE e = "AdminError::NotInitialized" -> 101
                  [] e = "AdminError::Renounced" -> 102
                  [] e = "AdminError::NotAdmin" -> 103]

\* From<AdminError> for FreezeError, arm by arm: what each variant becomes.
\* All but NotGenesisAdmin keep their name.
FromAdminErrorArms ==
    {<<"AdminError::NotInitialized", "NotInitialized">>,
     <<"AdminError::Renounced", "Renounced">>,
     <<"AdminError::NotAdmin", "NotAdmin">>,
     <<"AdminError::MissingSignature", "MissingSignature">>,
     <<"AdminError::InvalidCandidate", "InvalidCandidate">>,
     <<"AdminError::UndeployedPda", "UndeployedPda">>,
     <<"AdminError::CandidateMismatch", "CandidateMismatch">>,
     <<"AdminError::EncodingFailed", "EncodingFailed">>,
     <<"AdminError::DecodingFailed", "DecodingFailed">>,
     <<"AdminError::AccountDataTooLarge", "AccountDataTooLarge">>,
     <<"AdminError::SlotOutOfBounds", "SlotOutOfBounds">>,
     <<"AdminError::UnownedSigner", "UnownedSigner">>,
     <<"AdminError::NoNomination", "NoNomination">>,
     <<"AdminError::NotNominee", "NotNominee">>,
     <<"AdminError::NotGenesisAdmin", "NotAdmin">>,
     <<"AdminError::ConfigNotOwned", "ConfigNotOwned">>}

\* What is none of these is a FreezeError already. Offered to programs; no
\* instruction of the library goes this way (ADR-0014).
FromAdminError(e) ==
    IF \E arm \in FromAdminErrorArms : arm[1] = e
    THEN (CHOOSE arm \in FromAdminErrorArms : arm[1] = e)[2]
    ELSE e

\* External: stands for the code with which #[account(init)] refuses an
\* account that exists; the framework's codes lie below 6000.
InitRefused == 1000

\* A bug to look for: an admin error passes through FreezeError on its way.
ReportedAsFreezeError(e) ==
    IF e = "AccountAlreadyInitialized" THEN InitRefused
    ELSE 6000 + code(FromAdminError(e))

\* What the client of a refused instruction gets: LEZ reports 6000 + code.
Reported(e) ==
    IF e = "AccountAlreadyInitialized" THEN InitRefused
    ELSE 6000 + IF e \in DOMAIN AdminCode THEN AdminCode[e] ELSE code(e)
=============================================================================
