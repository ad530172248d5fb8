---------------------------- MODULE FreezeRefusals ----------------------------
(***************************************************************************)
(* What the nine instructions answer when they refuse, as a client sees    *)
(* it: every instruction is tried by every account in every state.         *)
(***************************************************************************)
EXTENDS FreezeAuthority, FreezeErrors

\* Instructions whose answer depends on nothing but their caller.
ResultsFor(caller) ==
    [freeze_initialize         |-> freeze_initialize_result(caller),
     freeze_authority_renounce |-> freeze_authority_renounce_result(caller),
     freeze_authority_nominate |-> freeze_authority_nominate_result(caller),
     freeze_authority_accept   |-> freeze_authority_accept_result(caller),
     freeze_program            |-> freeze_program_result(caller),
     freeze_program_release    |-> freeze_program_release_result(caller),
     freeze_account            |-> freeze_account_result(caller)]

\* other is the account the attempt is about besides its caller, claim the
\* derived address it claims, and signed whether other has signed.
Attempt(name, caller, other, claim, signed, result) ==
    [instruction |-> name, caller |-> caller, other |-> other, claim |-> claim,
     signed |-> signed, result |-> result]

AttemptsOf(c) ==
    {Attempt(i, c, c, NoId, TRUE, ResultsFor(c)[i]) : i \in DOMAIN ResultsFor(c)}
      \cup {Attempt("freeze_account_release", c, t, NoId, TRUE,
                    freeze_account_release_result(c, t)) : t \in Targets}
      \cup {Attempt("freeze_authority_transfer", c, n, cand.derived, s,
                    freeze_authority_transfer_result(c, n, cand, s)) :
              n \in Ids \ {c}, cand \in Candidates, s \in BOOLEAN}

Refusals == {a \in UNION {AttemptsOf(c) : c \in Ids} : a.result # Ok}

----------------------------------------------------------------------------
\* The table of errors of docs/account-model.md. What is reserved there, or
\* about bytes and unsigned callers, is never reported.
CauseOf(a) ==
    LET reported == Reported(a.result)
    IN CASE reported = InitRefused -> Initialized
         [] reported = 6101 -> adminConfig = NoData
         [] reported = 6102 -> adminConfig = NoId
         [] reported = 6103 -> HasAdmin /\ a.caller # adminConfig
         [] reported = 6201 -> ~Initialized
         [] reported = 6203 -> a.claim = NoId /\ ~a.signed
         [] reported = 6204 -> a.claim = a.other /\ a.other \notin owned
         [] reported = 6205 -> a.claim \in Pdas \ {a.other}
         [] reported = 6206 -> Initialized /\ Holder \notin {NoId, a.caller}
         [] reported = 6208 -> a.caller \notin {adminConfig, Holder}
         [] reported = 6210 -> Initialized /\ Holder = NoId
         [] reported = 6214 -> frozenAccount[a.other] # [is_frozen |-> TRUE]
         [] reported = 6217 -> ProgramFrozen
         [] reported = 6218 -> frozenAccount[a.caller] = [is_frozen |-> TRUE]
         [] reported = 6221 -> a.other \notin owned
         [] reported = 6222 -> Initialized /\ Nominee = NoId
         [] reported = 6223 -> Nominee \notin {NoId, a.caller}
         [] OTHER -> FALSE

\* Whatever the roles and the freezes have gone through, a refused client
\* that reads the code learns what stood in its way, and of which of the two
\* roles: a code whose documented cause is not there is never reported.
\* (docs/account-model.md "Errors", ADR-0014)
CodesTellTheCause == \A a \in Refusals : CauseOf(a)

\* "Failure modes" of docs/authority-lifecycle.md, instruction by instruction.
FailureModes ==
    [freeze_initialize         |-> {InitRefused, 6101, 6102, 6103},
     freeze_authority_transfer |-> {6101, 6102, 6103, 6201, 6203, 6204, 6205, 6221},
     freeze_authority_renounce |-> {6201, 6208},
     freeze_authority_nominate |-> {6201, 6208},
     freeze_authority_accept   |-> {6201, 6222, 6209, 6223, 6221},
     freeze_program            |-> {6201, 6206, 6210, 6217},
     freeze_program_release    |-> {6201, 6206, 6210},
     freeze_account            |-> {6201, 6206, 6210},
     freeze_account_release    |-> {6201, 6214}]

\* No instruction fails for another reason than the ones listed for it, but
\* for the two below that do. That freeze_initialize never meets
\* UnownedSigner rests on the admin's tenure: nobody without an owner ever
\* becomes admin.
RefusesAsListed ==
    \A a \in Refusals :
        a.instruction \notin {"freeze_program", "freeze_account_release"}
            => Reported(a.result) \in FailureModes[a.instruction]

\* Contradicted (release_refusals): docs/authority-lifecycle.md:213 lists
\* NotInitialized and AccountNotFrozen for freeze_account_release, which
\* checks the holder like the other three. What freeze_program is refused
\* with is WrapOnlyRefusesFrozen's matter.
ReleaseRefusedAsListed ==
    \A a \in Refusals :
        a.instruction = "freeze_account_release"
            => Reported(a.result) \in FailureModes[a.instruction]
=============================================================================
