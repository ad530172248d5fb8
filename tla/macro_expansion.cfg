\* Three arguments: one that is overridden, the one that does, one between.
SPECIFICATION ExpansionSpec
CONSTANTS
    Others = {"admin_authority"}
    Params = {"my_config", "my_marker"}
    Offsets = {32}
    MaxArgs = 3
INVARIANTS
    NeverSilentlySkipped
    GateReadsWhatIsNamed
PROPERTIES
    ErrsExactlyOnMalformed
\* An expansion ends.
CHECK_DEADLOCK FALSE
