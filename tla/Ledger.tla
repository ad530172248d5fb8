------------------------------- MODULE Ledger -------------------------------
(***************************************************************************)
(* External: the part of LEZ that decides whether a signer can be used     *)
(* (docs/authority-lifecycle.md "Signer validation" and the rules that     *)
(* freeze-authority/tests/lez_rules.rs replays). A transaction that is     *)
(* refused changes nothing, so only those that land are steps.             *)
(***************************************************************************)
EXTENDS AuthoritySlot

VARIABLES
    owned,      \* accounts that some program owns; LEZ never takes it back
    spent,      \* keys that signed while nobody owned them
    authorized  \* the accounts the last landed transaction carried as signed

ledgerVars == <<owned, spent, authorized>>

LedgerTypeOK == /\ owned \subseteq Ids
                /\ spent \subseteq Ids
                /\ authorized \subseteq Ids

LedgerInit == owned = {} /\ spent = {} /\ authorized = {}

\* How a handler sees account a, signed or not.
AccountOf(a, signed) ==
    [account_id |-> a, is_authorized |-> signed, owned |-> a \in owned]

\* The framework's #[account(signer)] check lets only signed callers through.
Caller(a) == AccountOf(a, TRUE)

\* A transaction over some user accounts, signed by some of them, lands. An
\* unowned key that has signed before has a nonce and no owner: LEZ refuses
\* every transaction it appears in. A derived address signs by its program's
\* seeds, which bumps no nonce.
Lands(accounts, signers) ==
    /\ accounts \cap spent = {}
    /\ authorized' = signers
    /\ spent' = spent \cup (signers \ (owned \cup Pdas))
    /\ UNCHANGED owned

\* "wallet auth-transfer init", or the deployment of a derived address.
AccountInit(a) ==
    /\ a \notin owned \cup spent
    /\ owned' = owned \cup {a}
    /\ authorized' = {a}
    /\ UNCHANGED spent

\* The account signs a transaction of a program that is not modelled.
OtherTransaction(a) == Lands({a}, {a})
=============================================================================
