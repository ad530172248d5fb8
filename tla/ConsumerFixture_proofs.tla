------------------------ MODULE ConsumerFixture_proofs ------------------------
(***************************************************************************)
(* The theorems about a program outside the library's workspace, such as   *)
(* the fixture of the repository's CI: what the macros make of its module  *)
(* and of its gates' arguments when it is built, and what it promises when *)
(* it runs.                                                                *)
(***************************************************************************)
EXTENDS ConsumerFixture, MacroExpansion, FreezeAuthority_proofs

\* Where the two attributes are that matter, one position each.
Written(f, l) ==
    /\ f \in DOMAIN attrs /\ l \in DOMAIN attrs /\ f # l
    /\ \A i \in DOMAIN attrs : /\ attrs[i] = "freeze_authority" <=> i = f
                               /\ attrs[i] = "lez_program" <=> i = l

\* On a module, a marker above lez_program is refused as soon as it expands,
\* and one below is merged as soon as lez_program does, which refuses any
\* other item.
PlacementInv ==
    /\ \E n \in Nat : DOMAIN attrs = 1 .. n /\ Len(attrs) = n
    /\ at \in 1 .. Len(attrs) + 1
    /\ module = "expanded" => at = Len(attrs) + 1
    /\ \E f, l \in DOMAIN attrs :
          /\ Written(f, l)
          /\ module = "error" => ~is_module \/ f < l
          /\ module # "error" /\ is_module /\ f < at => l < f
          /\ module # "error" /\ l < at => is_module /\ (l < f => merged)

\* One module with its marker and its program attribute, nothing expanded.
LEMMA PlacementInitInv == PlacementInit => PlacementInv
  <1> SUFFICES ASSUME PlacementInit PROVE PlacementInv
    OBVIOUS
  <1> DEFINE All == {"lez_program", "freeze_authority"} \cup Others
  <1>1. PICK n \in 0 .. Cardinality(Others) + 2 : attrs \in [1 .. n -> All]
    BY DEF PlacementInit, BoundedSeq, SeqOf
  <1>2. n \in Nat /\ DOMAIN attrs = 1 .. n /\ Len(attrs) = n
    BY <1>1
  <1>3. PICK f \in DOMAIN attrs : attrs[f] = "freeze_authority"
    BY DEF PlacementInit, ToSet
  <1>4. PICK l \in DOMAIN attrs : attrs[l] = "lez_program"
    BY DEF PlacementInit, ToSet
  <1>5. \A i, j \in DOMAIN attrs : attrs[i] = attrs[j] => i = j
    BY DEF PlacementInit, IsInjective
  <1>6. Written(f, l)
    BY <1>3, <1>4, <1>5 DEF Written
  <1>7. at = 1 /\ module = "expanding"
    BY DEF PlacementInit
  <1> QED
    BY <1>2, <1>6, <1>7 DEF PlacementInv

\* An attribute expands once, and what it sees is what is below it.
LEMMA PlacementStepInv ==
    PlacementInv /\ [PlacementNext]_placementVars => PlacementInv'
  <1> SUFFICES ASSUME PlacementInv, [PlacementNext]_placementVars
               PROVE  PlacementInv'
    OBVIOUS
  <1>1. PICK n \in Nat : DOMAIN attrs = 1 .. n /\ Len(attrs) = n
    BY DEF PlacementInv
  <1>2. PICK f, l \in 1 .. n :
            /\ Written(f, l)
            /\ module = "error" => ~is_module \/ f < l
            /\ module # "error" /\ is_module /\ f < at => l < f
            /\ module # "error" /\ l < at => is_module /\ (l < f => merged)
    BY <1>1 DEF PlacementInv
  <1>3. at \in 1 .. n + 1 /\ (module = "expanded" => at = n + 1)
    BY <1>1 DEF PlacementInv
  <1>4. attrs' = attrs /\ is_module' = is_module
    BY DEF PlacementNext, placementVars, freeze_authority, lez_program,
           OtherAttribute, ModuleExpanded, Expands
  <1>5. Written(f, l)'
    BY <1>1, <1>2, <1>4 DEF Written
  <1> SUFFICES /\ at' \in 1 .. n + 1
               /\ module' = "expanded" => at' = n + 1
               /\ module' = "error" => ~is_module \/ f < l
               /\ module' # "error" /\ is_module /\ f < at' => l < f
               /\ module' # "error" /\ l < at'
                    => is_module /\ (l < f => merged')
    BY <1>1, <1>4, <1>5 DEF PlacementInv
  <1>6. ASSUME NEW attribute, Expands(attribute)
        PROVE  /\ module = "expanding" /\ at \in 1 .. n /\ at' = at + 1
               /\ attrs[at] = attribute
               /\ attribute = "freeze_authority" <=> at = f
               /\ attribute = "lez_program" <=> at = l
    BY <1>1, <1>2, <1>3, <1>6 DEF Expands, Written
  <1>7. "lez_program" \in Below <=> at < l
    BY <1>1, <1>2, <1>3 DEF Below, Written
  <1>8. "freeze_authority" \in Below <=> at < f
    BY <1>1, <1>2, <1>3 DEF Below, Written
  <1>9. CASE freeze_authority
    <2>1. /\ at = f /\ at # l /\ at' = at + 1 /\ module = "expanding"
          /\ module' = IF is_module /\ at < l THEN "error" ELSE module
          /\ merged' = merged
      BY <1>2, <1>6, <1>7, <1>9
         DEF freeze_authority, misplaced_above_lez_program, Written
    <2> QED
      BY <1>2, <1>3, <2>1
  <1>10. CASE lez_program
    <2>1. /\ at = l /\ at # f /\ at' = at + 1 /\ module = "expanding"
          /\ is_module => module' = module
          /\ ~is_module => module' = "error"
      BY <1>2, <1>6, <1>10 DEF lez_program, Written
    <2>2. is_module /\ l < f => merged'
      BY <1>8, <1>10, <2>1 DEF lez_program
    <2> QED
      BY <1>2, <1>3, <2>1, <2>2
  <1>11. CASE OtherAttribute
    <2>1. PICK other \in Others : Expands(other)
      BY <1>11 DEF OtherAttribute
    <2>2. other # "freeze_authority" /\ other # "lez_program"
      BY <2>1, PlacementAssumption
    <2>3. at # f /\ at # l /\ at \in 1 .. n /\ at' = at + 1
      BY <1>6, <2>1, <2>2
    <2>4. merged' = merged /\ module' = module /\ module = "expanding"
      BY <1>6, <1>11, <2>1 DEF OtherAttribute
    <2> QED
      BY <1>2, <1>3, <2>3, <2>4
  <1>12. CASE ModuleExpanded
    BY <1>1, <1>2, <1>3, <1>12 DEF ModuleExpanded
  <1>13. CASE UNCHANGED placementVars
    BY <1>2, <1>3, <1>13 DEF placementVars
  <1> QED
    BY <1>9, <1>10, <1>11, <1>12, <1>13 DEF PlacementNext

----------------------------------------------------------------------------
\* What the arguments in front of position n say about a key: the last one
\* that has it, or the default if none has.
Says(as, n, key, default, value) ==
    \/ /\ \A i \in 1 .. n - 1 : as[i].key # key
       /\ value = default
    \/ \E i \in 1 .. n - 1 :
          /\ as[i].key = key /\ as[i].is.value = value
          /\ \A j \in i + 1 .. n - 1 : as[j].key # key

\* What has been read was well-formed, and says what the gate will read.
GateInv ==
    /\ args \in Seq(Args)
    /\ next \in 1 .. Len(args) + 1
    /\ \A i \in 1 .. next - 1 : WellFormed(args[i])
    /\ outcome = "gated" => pairs /\ is_fn /\ next = Len(args) + 1
    /\ outcome = "error" => ~WellFormedGate
    /\ Says(args, next, "freeze_config", "freeze_config", config_ident)
    /\ Says(args, next, "freeze_account", "freeze_account", per_account_ident)
    /\ Says(args, next, "offset", 0, offset)

\* An argument with another key changes nothing that was said.
LEMMA OtherKeyKeeps ==
    ASSUME args \in Seq(Args), next \in 1 .. Len(args),
           NEW key, NEW default, NEW value,
           Says(args, next, key, default, value), args[next].key # key
    PROVE  Says(args, next + 1, key, default, value)
  <1>1. next \in Nat /\ Len(args) \in Nat
    OBVIOUS
  <1>2. CASE /\ \A i \in 1 .. next - 1 : args[i].key # key
             /\ value = default
    BY <1>1, <1>2 DEF Says
  <1>3. ASSUME NEW i \in 1 .. next - 1,
               args[i].key = key, args[i].is.value = value,
               \A j \in i + 1 .. next - 1 : args[j].key # key
        PROVE  Says(args, next + 1, key, default, value)
    <2>1. i \in 1 .. (next + 1) - 1
      BY <1>1
    <2>2. \A j \in i + 1 .. (next + 1) - 1 : args[j].key # key
      BY <1>1, <1>3
    <2> QED
      BY <1>3, <2>1, <2>2 DEF Says
  <1> QED
    BY <1>2, <1>3 DEF Says

\* An argument with this key has the last word on it.
LEMMA SameKeySays ==
    ASSUME args \in Seq(Args), next \in 1 .. Len(args),
           NEW key, NEW default, args[next].key = key
    PROVE  Says(args, next + 1, key, default, args[next].is.value)
  <1>1. /\ next \in 1 .. (next + 1) - 1
        /\ \A j \in next + 1 .. (next + 1) - 1 : args[j].key # key
    OBVIOUS
  <1> QED
    BY <1>1 DEF Says

\* Nothing is said before the first argument.
LEMMA GateInitInv == GateInit => GateInv
  <1> SUFFICES ASSUME GateInit PROVE GateInv
    OBVIOUS
  <1>1. PICK n \in 0 .. MaxArgs : args \in [1 .. n -> Args]
    <2>1. CASE pairs
      BY <2>1 DEF GateInit, BoundedSeq, SeqOf
    <2>2. CASE ~pairs
      <3>1. args = <<>> /\ <<>> \in [1 .. 0 -> Args]
        BY <2>2 DEF GateInit
      <3> QED
        BY <3>1, ExpansionAssumption
    <2> QED
      BY <2>1, <2>2
  <1>2. args \in Seq(Args) /\ Len(args) = n
    BY <1>1, ExpansionAssumption
  <1>3. next = 1 /\ next \in 1 .. Len(args) + 1
    BY <1>2, ExpansionAssumption DEF GateInit
  <1> QED
    BY <1>2, <1>3 DEF GateInit, GateInv, Says

\* The documented arguments are the ones the parser does not refuse.
LEMMA RefusesMalformed ==
    ASSUME NEW arg, arg.key \in Keys
    PROVE  WellFormed(arg) <=> ~Refuses(arg)
  <1>1. /\ DOMAIN Documented = Keys \ {"unknown"}
        /\ Documented["offset"] = "int"
        /\ \A k \in Keys \ {"unknown", "offset"} : Documented[k] = "name"
    BY DEF Documented, Keys
  <1> QED
    BY <1>1 DEF WellFormed, Refuses, Keys

\* Reading an argument leaves the others in place.
LEMMA ReadsOne ==
    ASSUME GateInv, NEW key, NEW kind, Reads(key, kind),
           \/ key = "offset" /\ kind = "int"
           \/ key \in {"freeze_config", "freeze_account", "caller"} /\ kind = "name"
    PROVE  /\ next \in 1 .. Len(args) /\ args[next].key = key
           /\ args' = args /\ next' = next + 1
           /\ args' \in Seq(Args) /\ next' \in 1 .. Len(args') + 1
           /\ \A i \in 1 .. next' - 1 : WellFormed(args'[i])
           /\ outcome' = "parsing"
  <1>1. /\ next \in 1 .. Len(args) /\ args[next].key = key
        /\ args' = args /\ next' = next + 1 /\ outcome' = "parsing"
    BY DEF GateInv, Reads, written
  <1>2. WellFormed(args[next])
    BY <1>1 DEF Reads, WellFormed, Documented
  <1>3. \A i \in 1 .. next' - 1 : i \in 1 .. next - 1 \/ i = next
    BY <1>1 DEF GateInv
  <1> QED
    BY <1>1, <1>2, <1>3 DEF GateInv

\* Each argument is read for its own key, or not at all.
LEMMA GateStepInv == GateInv /\ [GateNext]_gateVars => GateInv'
  <1> SUFFICES ASSUME GateInv, [GateNext]_gateVars PROVE GateInv'
    OBVIOUS
  <1>1. CASE ReadOffset
    <2>1. /\ Says(args, next + 1, "freeze_config", "freeze_config", config_ident)
          /\ Says(args, next + 1, "freeze_account", "freeze_account",
                        per_account_ident)
          /\ Says(args, next + 1, "offset", 0, args[next].is.value)
      BY <1>1, ReadsOne, OtherKeyKeeps, SameKeySays DEF ReadOffset, GateInv
    <2> QED
      BY <1>1, <2>1, ReadsOne DEF ReadOffset, GateInv
  <1>2. CASE ReadConfig
    <2>1. /\ Says(args, next + 1, "freeze_config", "freeze_config",
                        args[next].is.value)
          /\ Says(args, next + 1, "freeze_account", "freeze_account",
                        per_account_ident)
          /\ Says(args, next + 1, "offset", 0, offset)
      BY <1>2, ReadsOne, OtherKeyKeeps, SameKeySays DEF ReadConfig, GateInv
    <2> QED
      BY <1>2, <2>1, ReadsOne DEF ReadConfig, GateInv
  <1>3. CASE ReadAccount
    <2>1. /\ Says(args, next + 1, "freeze_config", "freeze_config", config_ident)
          /\ Says(args, next + 1, "freeze_account", "freeze_account",
                        args[next].is.value)
          /\ Says(args, next + 1, "offset", 0, offset)
      BY <1>3, ReadsOne, OtherKeyKeeps, SameKeySays DEF ReadAccount, GateInv
    <2> QED
      BY <1>3, <2>1, ReadsOne DEF ReadAccount, GateInv
  <1>4. CASE ReadCaller
    <2>1. /\ Says(args, next + 1, "freeze_config", "freeze_config", config_ident)
          /\ Says(args, next + 1, "freeze_account", "freeze_account",
                        per_account_ident)
          /\ Says(args, next + 1, "offset", 0, offset)
      BY <1>4, ReadsOne, OtherKeyKeeps DEF ReadCaller, GateInv
    <2> QED
      BY <1>4, <2>1, ReadsOne DEF ReadCaller, GateInv
  <1>5. CASE Refuse
    <2>1. next \in DOMAIN args /\ args[next].key \in Keys
      <3>1. next \in DOMAIN args /\ args[next] \in Args
        BY <1>5 DEF Refuse, GateInv
      <3> QED
        BY <3>1 DEF Args
    <2>2. ~WellFormedGate'
      BY <1>5, <2>1, RefusesMalformed DEF Refuse, written, WellFormedGate
    <2> QED
      BY <1>5, <2>2 DEF Refuse, written, GateInv
  <1>6. CASE RefuseAttribute
    <2>1. ~WellFormedGate'
      BY <1>6 DEF RefuseAttribute, written, WellFormedGate
    <2> QED
      BY <1>6, <2>1 DEF RefuseAttribute, written, GateInv
  <1>7. CASE Expand
    <2>1. next = Len(args) + 1
      BY <1>7 DEF Expand, GateInv
    <2>2. ~is_fn => ~WellFormedGate'
      BY <1>7 DEF Expand, written, WellFormedGate
    <2> QED
      BY <1>7, <2>1, <2>2 DEF Expand, written, GateInv
  <1>8. CASE UNCHANGED gateVars
    BY <1>8 DEF gateVars, written, GateInv, WellFormedGate
  <1> QED
    BY <1>1, <1>2, <1>3, <1>4, <1>5, <1>6, <1>7, <1>8 DEF GateNext

\* What was said before the end of the arguments is what they mean.
LEMMA SaidIsMeant ==
    ASSUME args \in Seq(Args), NEW key, NEW default, NEW value,
           Says(args, Len(args) + 1, key, default, value)
    PROVE  value = Meant(key, default)
  <1> DEFINE places == {i \in DOMAIN args : args[i].key = key}
  <1>1. DOMAIN args = 1 .. (Len(args) + 1) - 1 /\ Len(args) \in Nat
    OBVIOUS
  <1>2. CASE /\ \A i \in 1 .. (Len(args) + 1) - 1 : args[i].key # key
             /\ value = default
    <2>1. places = {}
      BY <1>1, <1>2
    <2> QED
      BY <1>2, <2>1 DEF Meant
  <1>3. ASSUME NEW i \in 1 .. (Len(args) + 1) - 1,
               args[i].key = key, args[i].is.value = value,
               \A j \in i + 1 .. (Len(args) + 1) - 1 : args[j].key # key
        PROVE  value = Meant(key, default)
    <2> DEFINE last == CHOOSE k \in places : \A j \in places : j <= k
    <2>1. i \in places /\ \A j \in places : j <= i
      BY <1>1, <1>3
    <2>2. last \in places /\ \A j \in places : j <= last
      BY <2>1
    <2>3. last = i
      BY <2>1, <2>2, <1>1
    <2> QED
      BY <1>3, <2>1, <2>3 DEF Meant
  <1> QED
    BY <1>2, <1>3 DEF Says

----------------------------------------------------------------------------
ExpansionInv == PlacementInv /\ GateInv

\* The compiler works on the module's attributes or on an instruction's.
THEOREM ExpansionInvariance == ExpansionSpec => []ExpansionInv
  <1>1. ExpansionInit => ExpansionInv
    BY PlacementInitInv, GateInitInv DEF ExpansionInit, ExpansionInv
  <1>2. [ExpansionNext]_expansionVars =>
            [PlacementNext]_placementVars /\ [GateNext]_gateVars
    BY DEF ExpansionNext, expansionVars
  <1>3. ExpansionInv /\ [ExpansionNext]_expansionVars => ExpansionInv'
    BY <1>2, PlacementStepInv, GateStepInv DEF ExpansionInv
  <1> QED
    BY <1>1, <1>3, PTL DEF ExpansionSpec

\* A module with the marker never compiles without its gate, however many
\* other attributes it has and wherever they are.
THEOREM MarkerNeverSkipped == ExpansionSpec => []NeverSilentlySkipped
  <1>1. ExpansionInv => NeverSilentlySkipped
    BY DEF ExpansionInv, PlacementInv, NeverSilentlySkipped
  <1> QED
    BY <1>1, ExpansionInvariance, PTL

\* Where both expansions end, for any number of attributes and arguments:
\* neither errs on what is well-formed, nor passes what is not. (That they
\* end is ErrsExactlyOnMalformed's matter.)
THEOREM ErrsOnMalformedOnly ==
    ExpansionSpec => [](/\ module = "error" => ~WellFormedModule
                        /\ module = "expanded" => WellFormedModule
                        /\ outcome = "error" => ~WellFormedGate
                        /\ outcome = "gated" => WellFormedGate)
  <1>1. ASSUME PlacementInv
        PROVE  /\ module = "error" => ~WellFormedModule
               /\ module = "expanded" => WellFormedModule
    <2>1. PICK f, l \in DOMAIN attrs :
              /\ Written(f, l)
              /\ module = "error" => ~is_module \/ f < l
              /\ module # "error" /\ is_module /\ f < at => l < f
              /\ module # "error" /\ l < at => is_module /\ (l < f => merged)
      BY <1>1 DEF PlacementInv
    <2>2. f \in Int /\ l \in Int
      BY <1>1 DEF PlacementInv
    <2>3. WellFormedModule <=> is_module /\ l < f
      BY <2>1 DEF WellFormedModule, Written
    <2>4. module = "expanded" => f < at /\ l < at
      BY <1>1 DEF PlacementInv
    <2> QED
      BY <2>1, <2>2, <2>3, <2>4
  <1>2. ASSUME GateInv
        PROVE  /\ outcome = "error" => ~WellFormedGate
               /\ outcome = "gated" => WellFormedGate
    BY <1>2 DEF GateInv, WellFormedGate
  <1> QED
    BY <1>1, <1>2, ExpansionInvariance, PTL DEF ExpansionInv

\* The gate reads the accounts and the window that its arguments name, in
\* whatever order and however often, and the usual ones where they name none.
THEOREM GateReads == ExpansionSpec => []GateReadsWhatIsNamed
  <1>1. ExpansionInv => GateReadsWhatIsNamed
    BY SaidIsMeant DEF ExpansionInv, GateInv, GateReadsWhatIsNamed
  <1> QED
    BY <1>1, ExpansionInvariance, PTL

----------------------------------------------------------------------------
\* The inductive invariant.
IInv == AuthorityInv /\ programConfig \in {NoData} \cup Values

\* The program's own instructions leave both extensions alone.
LEMMA StepKinds ==
    ASSUME Next
    PROVE  \/ (LibraryStep \/ Elsewhere) /\ UNCHANGED programConfig
           \/ /\ UNCHANGED <<adminConfig, freezeVars>>
              /\ \E A, S \in SUBSET Ids : Lands(A, S)
              /\ programConfig' \in Values
  <1>1. ASSUME NEW caller \in Ids,
               \/ initialize(caller)
               \/ \E v \in Values : update_value(caller, v)
        PROVE  /\ UNCHANGED <<adminConfig, freezeVars>>
               /\ \E A, S \in SUBSET Ids : Lands(A, S)
               /\ programConfig' \in Values
    <2>1. /\ UNCHANGED <<adminConfig, freezeVars>>
          /\ Lands({caller}, {caller})
          /\ programConfig' \in Values
      BY <1>1, FixtureAssumption DEF initialize, update_value
    <2>2. {caller} \in SUBSET Ids
      OBVIOUS
    <2> QED
      BY <2>1, <2>2
  <1> QED
    BY <1>1 DEF Next, Library, LibraryStep

\* The invariant holds at first, and the lifecycle starts as it should.
LEMMA InitInv == Init => IInv /\ Lifecycle!Init
  BY InitKeeps DEF Init, IInv

\* Every step of the program keeps the invariant.
LEMMA StepInv == IInv /\ [Next]_vars => IInv'
  <1> SUFFICES ASSUME IInv, [Next]_vars PROVE IInv'
    OBVIOUS
  <1>1. CASE (LibraryStep \/ Elsewhere) /\ UNCHANGED programConfig
    BY <1>1, LibraryKeeps DEF IInv
  <1>2. CASE /\ UNCHANGED <<adminConfig, freezeVars>>
             /\ \E A, S \in SUBSET Ids : Lands(A, S)
             /\ programConfig' \in Values
    BY <1>2, OwnStepKeeps DEF IInv
  <1>3. CASE UNCHANGED vars
    BY <1>3, StutterKeeps DEF vars, IInv
  <1> QED
    BY <1>1, <1>2, <1>3, StepKinds

\* The invariant holds of every reachable state.
THEOREM Invariance == Spec => []IInv
  <1>1. Init => IInv
    BY InitInv
  <1> QED
    BY <1>1, StepInv, PTL DEF Spec

\* Type correctness of every variable.
THEOREM TypeCorrect == Spec => []TypeOK
  <1>1. IInv => TypeOK
    BY DEF IInv, AuthorityInv, TypeOK
  <1> QED
    BY <1>1, Invariance, PTL

\* The holder can always work the brake.
THEOREM BrakeAlwaysThere == Spec => []HolderKeepsBrake
  <1>1. IInv => HolderKeepsBrake
    BY BrakeWorks DEF IInv
  <1> QED
    BY <1>1, Invariance, PTL

\* Every step is one of the lifecycle, the program's own happen elsewhere.
LEMMA StepImplements == IInv /\ [Next]_vars => [Lifecycle!Next]_Lifecycle!vars
  <1> SUFFICES ASSUME IInv, [Next]_vars
               PROVE  Lifecycle!Next \/ UNCHANGED Lifecycle!vars
    OBVIOUS
  <1>1. CASE LibraryStep \/ Elsewhere
    BY <1>1, LibraryImplements DEF IInv
  <1>2. CASE /\ UNCHANGED <<adminConfig, freezeVars>>
             /\ \E A, S \in SUBSET Ids : Lands(A, S)
    <2>1. authorized' \subseteq Ids
      BY <1>2, LandsSigned
    <2> QED
      BY <1>2, <2>1, OwnStepImplements
  <1>3. CASE UNCHANGED vars
    BY <1>3, StutterImplements DEF vars
  <1> QED
    BY <1>1, <1>2, <1>3, StepKinds

\* The program implements the lifecycle of the roles and the freezes.
THEOREM LifecycleRefined == Spec => ImplementsLifecycle
  <1>1. Init => Lifecycle!Init
    BY InitInv
  <1> QED
    BY <1>1, StepImplements, Invariance, PTL
       DEF Spec, ImplementsLifecycle, Lifecycle!Spec

\* Once the account exists, its value is the admin's to change, on an
\* unfrozen program and with an unfrozen marker.
THEOREM AdminWritesOnly == Spec => AdminWritesUnfrozen
  <1>1. IInv /\ [Next]_vars => [UnfrozenAdminWrite]_programConfig
    <2> SUFFICES ASSUME IInv, [Next]_vars, ~UNCHANGED programConfig,
                        programConfig # NoData
                 PROVE  /\ adminConfig \in authorized'
                        /\ Initialized /\ ~ProgramFrozen
                        /\ frozenAccount[adminConfig] # [is_frozen |-> TRUE]
      BY DEF UnfrozenAdminWrite
    <2>1. PICK caller \in Ids, v \in Values : update_value(caller, v)
      BY DEF Next, vars, initialize
    <2>2. RequireNotFrozen(caller) = Ok /\ RequireAdmin(caller) = Ok
      BY <2>1, ThenOk DEF update_value, update_value_result
    <2>3. adminConfig = caller /\ authorized' = {caller}
      BY <2>1, <2>2, RequireAdminOk DEF update_value, Lands
    <2> QED
      BY <2>2, <2>3, GatePasses DEF IInv
  <1> QED
    BY <1>1, Invariance, PTL DEF Spec, AdminWritesUnfrozen
=============================================================================
