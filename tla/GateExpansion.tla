----------------------------- MODULE GateExpansion -----------------------------
(***************************************************************************)
(* freeze-authority-macros/src/lib.rs, require_not_frozen: which accounts  *)
(* and which window the gate of an instruction reads is decided when the   *)
(* attribute's arguments are parsed, one after the other. The framework's  *)
(* auto-wrap writes all of them, a program by hand any of them (ADR-0010). *)
(***************************************************************************)
EXTENDS Naturals, Sequences, SequencesExt

CONSTANTS
    Params,   \* bound: the parameter names that are written as values
    Offsets,  \* bound: the integer literals
    MaxArgs   \* bound: how many arguments an attribute has

VARIABLES
    pairs,              \* the attribute holds name = value pairs, if anything
    is_fn,              \* it stands in front of a function
    args,               \* the arguments as written
    next,               \* the position of the one that is read next
    config_ident, per_account_ident, offset,  \* what the gate will read
    outcome             \* "parsing", "gated" or "error"

written == <<pairs, is_fn, args>>

gateVars == <<written, next, config_ident, per_account_ident, offset, outcome>>

ASSUME ExpansionAssumption ==
    /\ Params \subseteq STRING /\ Offsets \subseteq Nat /\ MaxArgs \in Nat

Keys == {"freeze_config", "freeze_account", "caller", "offset", "unknown"}

\* A bare name, an integer literal that fits a usize, one that does not, and
\* any other expression.
ArgValues == [kind : {"name"}, value : Params] \cup [kind : {"int"}, value : Offsets]
            \cup [kind : {"overflow", "expression"}, value : {0}]

Args == [key : Keys, is : ArgValues]

GateInit == /\ pairs \in BOOLEAN /\ is_fn \in BOOLEAN
            /\ args \in IF pairs THEN BoundedSeq(Args, MaxArgs) ELSE {<<>>}
            /\ next = 1
            /\ config_ident = "freeze_config"
            /\ per_account_ident = "freeze_account"
            /\ offset = 0
            /\ outcome = "parsing"

\* parse_terminated fails before any argument is looked at.
RefuseAttribute ==
    /\ outcome = "parsing" /\ ~pairs
    /\ outcome' = "error"
    /\ UNCHANGED <<written, next, config_ident, per_account_ident, offset>>

\* The argument the loop is at, when it is key = <a value of this kind>.
Reads(key, kind) ==
    /\ outcome = "parsing" /\ next <= Len(args)
    /\ args[next].key = key /\ args[next].is.kind = kind
    /\ next' = next + 1
    /\ UNCHANGED <<written, outcome>>

ReadOffset == /\ Reads("offset", "int")
              /\ offset' = args[next].is.value
              /\ UNCHANGED <<config_ident, per_account_ident>>

ReadConfig == /\ Reads("freeze_config", "name")
              /\ config_ident' = args[next].is.value
              /\ UNCHANGED <<per_account_ident, offset>>

\* A bug to look for: the gate reads the marker that caller names.
ReadCallerAsMarker == /\ Reads("caller", "name")
                      /\ per_account_ident' = args[next].is.value
                      /\ UNCHANGED <<config_ident, offset>>

ReadAccount == /\ Reads("freeze_account", "name")
               /\ per_account_ident' = args[next].is.value
               /\ UNCHANGED <<config_ident, offset>>

\* Accepted and unused.
ReadCaller == /\ Reads("caller", "name")
              /\ UNCHANGED <<config_ident, per_account_ident, offset>>

\* A bug to look for: the keys are not looked at.
RefusesValuesOnly(arg) == arg.is.kind # IF arg.key = "offset" THEN "int" ELSE "name"

Refuses(arg) ==
    \/ arg.key = "offset" /\ arg.is.kind # "int"
    \/ arg.key # "offset" /\ arg.is.kind # "name"
    \/ arg.key = "unknown"

Refuse == /\ outcome = "parsing" /\ next <= Len(args)
          /\ Refuses(args[next])
          /\ outcome' = "error"
          /\ UNCHANGED <<written, next, config_ident, per_account_ident, offset>>

\* The prologue goes in front of the body, if there is one.
Expand == /\ outcome = "parsing" /\ pairs /\ next > Len(args)
          /\ outcome' = IF is_fn THEN "gated" ELSE "error"
          /\ UNCHANGED <<written, next, config_ident, per_account_ident, offset>>

GateNext ==
    \/ RefuseAttribute
    \/ ReadOffset \/ ReadConfig \/ ReadAccount \/ ReadCaller
    \/ Refuse
    \/ Expand

----------------------------------------------------------------------------
\* What the arguments say about a key: the last one that has it, if any.
Meant(key, default) ==
    LET places == {i \in DOMAIN args : args[i].key = key}
    IN  IF places = {} THEN default
        ELSE args[CHOOSE i \in places : \A j \in places : j <= i].is.value

\* A gate reads the accounts and the window that were named for it, and the
\* usual ones where none were; no argument is lost and none has an effect on
\* another. (ADR-0010: else the gate "silently no-ops")
GateReadsWhatIsNamed ==
    outcome = "gated" =>
        /\ config_ident = Meant("freeze_config", "freeze_config")
        /\ per_account_ident = Meant("freeze_account", "freeze_account")
        /\ offset = Meant("offset", 0)
=============================================================================
