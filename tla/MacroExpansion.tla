----------------------------- MODULE MacroExpansion -----------------------------
(***************************************************************************)
(* freeze-authority-macros/src/lib.rs: both attribute macros, as the       *)
(* compiler runs them. First the attributes of the program's module        *)
(* expand, the marker among them, then those of an instruction inside, the *)
(* gate that the framework wrote in front of it, or the program by hand.   *)
(***************************************************************************)
EXTENDS MarkerPlacement, GateExpansion

expansionVars == <<placementVars, gateVars>>

ExpansionInit == PlacementInit /\ GateInit

ExpansionNext ==
    \/ PlacementNext /\ UNCHANGED gateVars
    \/ module = "expanded" /\ GateNext /\ UNCHANGED placementVars

\* The expansion runs on its own: as long as it can go on it does.
ExpansionSpec ==
    /\ ExpansionInit
    /\ [][ExpansionNext]_expansionVars
    /\ WF_expansionVars(ExpansionNext)

----------------------------------------------------------------------------
\* The arguments that the comment of require_not_frozen lists.
Documented == [freeze_config  |-> "name", freeze_account |-> "name",
               caller |-> "name", offset |-> "int"]

WellFormed(arg) ==
    arg.key \in DOMAIN Documented /\ arg.is.kind = Documented[arg.key]

WellFormedGate == pairs /\ is_fn /\ \A i \in DOMAIN args : WellFormed(args[i])

WellFormedModule ==
    /\ is_module
    /\ \A i, j \in DOMAIN attrs :
          attrs[i] = "lez_program" /\ attrs[j] = "freeze_authority" => i < j

\* Every expansion ends, and exactly where it should: with an error of the
\* compiler when the marker is misplaced or its item is no module, and else
\* with the gate in front of a function all of whose arguments are as
\* documented, or with an error. Nothing malformed is skipped in silence,
\* nothing well-formed is refused.
\* (ADR-0010: "Wrapper macros hard-error on unknown keys")
ErrsExactlyOnMalformed ==
    <>[] IF WellFormedModule
         THEN outcome = IF WellFormedGate THEN "gated" ELSE "error"
         ELSE module = "error"
=============================================================================
