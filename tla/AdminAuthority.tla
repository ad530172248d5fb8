--------------------------- MODULE AdminAuthority ---------------------------
(***************************************************************************)
(* External: the admin-authority extension that freeze-authority depends   *)
(* on (ADR-0001), as far as freeze-authority and the sample programs see   *)
(* it: who the admin is. The admin slot's own nominee is abstracted: any   *)
(* owned account may turn out to be one.                                   *)
(***************************************************************************)
EXTENDS Ledger, FreezeConfig

VARIABLE adminConfig  \* NoData, or the admin; NoId once renounced

AdminTypeOK == adminConfig \in {NoData} \cup AccountId

AdminInit == adminConfig = NoData

AdminFromAccount(data) == Check(data # NoData, "AdminError::NotInitialized")

\* The #[require_admin] gate.
RequireAdmin(caller) ==
    AdminFromAccount(adminConfig) ?? AssertAdmin(adminConfig, Caller(caller))

HasAdmin == adminConfig \in Ids

\* AdminConfig::bootstrap with AdminCandidate::Signer.
AdminBootstrapResult(caller) ==
    Validate([kind |-> "Signer", derived |-> NoId], Caller(caller))
      ?? SlotInitializeResult(caller)

\* The first caller becomes the admin.
admin_initialize(caller) ==
    /\ adminConfig = NoData
    /\ AdminBootstrapResult(caller) = Ok
    /\ adminConfig' = caller
    /\ Lands({caller}, {caller})

admin_transfer(caller, new, candidate, cosigns) ==
    /\ new # caller
    /\ RequireAdmin(caller) = Ok
    /\ Validate(candidate, AccountOf(new, cosigns)) = Ok
    /\ adminConfig' = new
    /\ Lands({caller, new}, IF cosigns THEN {caller, new} ELSE {caller})

admin_accept(nominee) ==
    /\ HasAdmin /\ nominee \in owned
    /\ adminConfig' = nominee
    /\ Lands({nominee}, {nominee})

\* Terminal: every later admin check fails.
admin_renounce(caller) ==
    /\ RequireAdmin(caller) = Ok
    /\ adminConfig' = NoId
    /\ Lands({caller}, {caller})
=============================================================================
