-------------------------- MODULE AuthorityLifecycle --------------------------
(***************************************************************************)
(* What the extension promises about its two roles and the freezes, seen   *)
(* from outside: who may change what, on whose signature. Records, gates,  *)
(* refusals, owners and the ways a program is set up are left out. Each    *)
(* program implements it (ImplementsLifecycle in FreezeAuthority).         *)
(***************************************************************************)
CONSTANTS Ids, Pdas, NoId, NoData

VARIABLES
    admin,    \* NoData before the set-up, NoId once renounced
    holder,   \* NoData before the set-up, NoId while the slot is vacant
    offer,    \* the account the role is offered to, or NoId
    frozen,   \* the program is frozen
    frozenAccounts,
    signed    \* who signed the last transaction

vars == <<admin, holder, offer, frozen, frozenAccounts, signed>>
freezes == <<frozen, frozenAccounts>>
slot == <<holder, offer>>

Init == /\ admin = NoData /\ holder = NoData /\ offer = NoId
        /\ ~frozen /\ frozenAccounts = {}
        /\ signed = {}

\* The account agrees: it signs, or is a derived address that is claimed.
Agrees(a) == a \in signed' \cup Pdas

\* The first admin seats itself. A program may set up the freeze slot in the
\* same transaction, vacant or in the same hands.
SetUp(a) ==
    /\ admin = NoData /\ admin' = a /\ a \in signed'
    /\ \/ UNCHANGED slot
       \/ holder = NoData /\ holder' \in {a, NoId} /\ UNCHANGED offer
    /\ UNCHANGED freezes

\* The admin sets the freeze slot up and takes it.
Seat == /\ holder = NoData
        /\ admin \in signed' /\ holder' = admin
        /\ UNCHANGED <<admin, offer, freezes>>

\* The admin role goes on, or ends. How is the admin extension's affair.
AdminMoves ==
    /\ admin \in Ids /\ admin' \in Ids \cup {NoId}
    /\ UNCHANGED <<slot, freezes>>

\* The admin gives the role to somebody who agrees. Offers lapse.
Appoint(a) ==
    /\ holder # NoData /\ holder' = a /\ offer' = NoId
    /\ admin \in signed' /\ Agrees(a)
    /\ UNCHANGED <<admin, freezes>>

\* The admin or the holder vacates the slot. Offers lapse.
Vacate ==
    /\ holder # NoData /\ holder' = NoId /\ offer' = NoId
    /\ {admin, holder} \cap signed' # {}
    /\ UNCHANGED <<admin, freezes>>

\* The admin or the holder offers the role, or withdraws an offer.
Offer ==
    /\ holder # NoData /\ offer' \in Ids \cup {NoId}
    /\ {admin, holder} \cap signed' # {}
    /\ UNCHANGED <<admin, holder, freezes>>

TakeUp == /\ offer # NoId /\ holder' = offer /\ offer' = NoId
          /\ offer \in signed'
          /\ UNCHANGED <<admin, freezes>>

\* The holder works the brake, the program's or that of one account.
Brake ==
    /\ holder \in signed'
    /\ \/ frozen' \in BOOLEAN /\ UNCHANGED frozenAccounts
       \/ /\ \E a \in Ids : frozenAccounts' \in {frozenAccounts \cup {a},
                                                frozenAccounts \ {a}}
          /\ UNCHANGED frozen
    /\ UNCHANGED <<admin, slot>>

\* Transactions about something else.
Elsewhere == UNCHANGED <<admin, slot, freezes>>

Next == /\ signed' \subseteq Ids
        /\ \/ \E a \in Ids : SetUp(a) \/ Appoint(a)
           \/ Seat \/ AdminMoves \/ Vacate \/ Offer \/ TakeUp \/ Brake
           \/ Elsewhere

Spec == Init /\ [][Next]_vars
=============================================================================
