---------------------------- MODULE MarkerPlacement ----------------------------
(***************************************************************************)
(* freeze-authority-macros/src/lib.rs, the marker #[freeze_authority]: the *)
(* attributes of a module expand from the top down, each seeing those      *)
(* below it. #[lez_program] (external) merges the extensions whose markers *)
(* it sees; a marker above it has gone by then, and with it the gate.      *)
(***************************************************************************)
EXTENDS Naturals, Sequences, SequencesExt

CONSTANT Others  \* bound: the attributes that mean nothing here

VARIABLES
    is_module,  \* the item below the attributes is a module
    attrs,      \* the attributes as written, top first
    at,         \* the position of the one that expands next
    merged,     \* lez_program has seen the marker
    module      \* "expanding", "expanded" or "error"

placementVars == <<is_module, attrs, at, merged, module>>

ASSUME PlacementAssumption ==
    /\ IsFiniteSet(Others)
    /\ Others \cap {"lez_program", "freeze_authority"} = {}

\* One program attribute by its bare name, one marker, and any of the others.
PlacementInit ==
    /\ is_module \in BOOLEAN
    /\ attrs \in BoundedSeq({"lez_program", "freeze_authority"} \cup Others,
                            Cardinality(Others) + 2)
    /\ IsInjective(attrs)
    /\ {"lez_program", "freeze_authority"} \subseteq ToSet(attrs)
    /\ at = 1
    /\ merged = FALSE
    /\ module = "expanding"

Below == {attrs[i] : i \in at + 1 .. Len(attrs)}

Expands(attribute) ==
    /\ module = "expanding" /\ at <= Len(attrs)
    /\ attrs[at] = attribute
    /\ at' = at + 1
    /\ UNCHANGED <<is_module, attrs>>

\* A bug to look for: nothing is checked.
misplaced_never == FALSE

misplaced_above_lez_program == "lez_program" \in Below

\* What does not parse as a module passes unchecked.
freeze_authority ==
    /\ Expands("freeze_authority")
    /\ module' = IF is_module /\ misplaced_above_lez_program
                 THEN "error" ELSE module
    /\ UNCHANGED merged

\* External: a program is a module; anything else is an error there.
lez_program ==
    /\ Expands("lez_program")
    /\ IF is_module
       THEN merged' = ("freeze_authority" \in Below) /\ UNCHANGED module
       ELSE module' = "error" /\ UNCHANGED merged

OtherAttribute ==
    /\ \E other \in Others : Expands(other)
    /\ UNCHANGED <<merged, module>>

\* What is left is the module's inside.
ModuleExpanded ==
    /\ module = "expanding" /\ at > Len(attrs)
    /\ module' = "expanded"
    /\ UNCHANGED <<is_module, attrs, at, merged>>

PlacementNext ==
    freeze_authority \/ lez_program \/ OtherAttribute \/ ModuleExpanded

----------------------------------------------------------------------------
\* A program that carries the marker, wherever among its attributes, never
\* gets past them without the freeze instructions and their gate. (comment of
\* freeze_authority: "silently skipping discovery, so that placement is a
\* hard error")
NeverSilentlySkipped == module = "expanded" => merged
=============================================================================
