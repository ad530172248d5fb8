-------------------------------- MODULE Lez --------------------------------
(***************************************************************************)
(* External: what LEZ does with the post-states of a program, as           *)
(* freeze-authority/tests/lez_rules.rs replays it: validate_execution,     *)
(* then the claims, then the nonce of every signer. Post-states carry no   *)
(* id; they are matched with the accounts by position.                     *)
(***************************************************************************)
EXTENDS ConfigWindow

VARIABLES
    account,    \* for every name its program_owner, nonce and data
    authorized  \* the accounts the last landed transaction carried as signed

\* nobody, the program itself, some other program
Owners == {"default", "self", "other"}

\* Account::default()
Default == [owner |-> "default", nonce |-> FALSE, data |-> <<>>]

\* The marker of an account is a derived address of its own.
Marker(a) == [frozen |-> a]

\* AccountWithMetadata, as the checks see it.
AccountOf(a, signed) == [account_id |-> a, is_authorized |-> signed,
                         owned |-> account[a].owner # "default"]

Caller(a) == AccountOf(a, TRUE)

\* AccountPostState::new, and new_claimed.
PostState(a, data) ==
    [account |-> [account[a] EXCEPT !.data = data], claim |-> FALSE]

Unchanged(a) == PostState(a, account[a].data)

Claimed(a, data) == [PostState(a, data) EXCEPT !.claim = TRUE]

\* A call of an instruction: the accounts it is given, those among them that
\* are signed, and what it answers. A refusal has no post-states.
Call(accounts, signers, result, posts) ==
    [accounts |-> accounts, signers |-> signers, result |-> result,
     posts |-> IF result = Ok THEN posts ELSE <<>>]

----------------------------------------------------------------------------
Distinct(names) == \A i, j \in 1 .. Len(names) : names[i] = names[j] => i = j

\* Only the owner writes, and a write to an account of nobody claims it. An
\* account that is no longer default and has no owner is refused.
ValidateExecution(accounts, posts) ==
    Check(Len(posts) = Len(accounts), "MismatchedPreStatePostStateLength")
      ?? Check(\A i \in 1 .. Len(posts) :
                  LET pre == account[accounts[i]]
                  IN  \/ posts[i].account = pre
                      \/ pre.owner = "self"
                         /\ posts[i].account = [pre EXCEPT !.data = posts[i].account.data]
                      \/ pre = Default,
               "UnauthorizedDataModification")
      ?? Check(\A i \in 1 .. Len(posts) :
                  posts[i].claim => account[accounts[i]].owner = "default",
               "ClaimedNonDefaultAccount")
      ?? Check(\A i \in 1 .. Len(posts) :
                  \/ posts[i].claim
                  \/ posts[i].account.owner # "default"
                  \/ posts[i].account = Default,
               "NonDefaultAccountWithDefaultOwner")

\* The account at position i after the transaction. A derived address signs
\* by its program's seeds, and no nonce is bumped.
Landed(call, i) ==
    LET post == call.posts[i]
    IN  [owner |-> IF post.claim THEN "self" ELSE post.account.owner,
         nonce |-> \/ post.account.nonce
                   \/ call.accounts[i] \in call.signers \ Pdas,
         data  |-> post.account.data]

Lands(call) ==
    /\ call.result = Ok
    /\ Distinct(call.accounts)
    /\ ValidateExecution(call.accounts, call.posts) = Ok
    /\ account' = [a \in DOMAIN account |->
                      IF \E i \in 1 .. Len(call.accounts) : call.accounts[i] = a
                      THEN Landed(call, CHOOSE i \in 1 .. Len(call.accounts) :
                                            call.accounts[i] = a)
                      ELSE account[a]]
    /\ authorized' = call.signers

----------------------------------------------------------------------------
\* "wallet auth-transfer init", or the deployment of a derived address, with
\* the data its program gives it.
AccountInit(a, data) ==
    /\ account[a] = Default
    /\ account' = [account EXCEPT ![a] = [owner |-> "other",
                                         nonce |-> a \notin Pdas,
                                         data |-> data]]
    /\ authorized' = {a}

\* A transaction of another program that leaves the account as it is.
OtherTransaction(a) == Lands(Call(<<a>>, {a}, Ok, <<Unchanged(a)>>))

\* An account that LEZ refuses in every transaction from now on.
Stranded(a) == account[a].owner = "default" /\ account[a] # Default
=============================================================================
