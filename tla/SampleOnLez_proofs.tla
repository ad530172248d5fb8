-------------------------- MODULE SampleOnLez_proofs --------------------------
(***************************************************************************)
(* The auto-mode program on LEZ: its three accounts and its markers stay   *)
(* well-formed, LEZ takes what it answers, and what it does to the bytes   *)
(* is what FreezeAuthoritySample says it does to the records.              *)
(***************************************************************************)
EXTENDS SampleOnLez, FreezeAuthorityOnLez_proofs

A == AdminAccount
C == ConfigAccount
P == ProgramAccount

\* The data of the admin's account. A slot that was renounced has no nominee:
\* the admin of the records comes back from nowhere else.
SlotShape(data) ==
    /\ data \in Seq(Cells) /\ Len(data) = 2
    /\ data[1] \in AccountId /\ data[2] \in AccountId
    /\ data[1] = NoId => data[2] = NoId

\* The data of the config's account.
ConfigShape(data) ==
    /\ data \in Seq(Cells) /\ Len(data) = 3
    /\ data[1] \in AccountId /\ data[2] \in AccountId /\ data[3] \in {0, 1}

\* And of the program's own.
ValueShape(data) == \E v \in Values : data = <<v>>

AdminInv == \/ account[A] = Default
            \/ account[A].owner = "self" /\ SlotShape(AdminData)

ConfigInv == \/ account[C] = Default
             \/ account[C].owner = "self" /\ ConfigShape(ConfigData)

ProgramInv == \/ account[P] = Default
              \/ account[P].owner = "self" /\ ValueShape(ProgramData)

ChainInv == ChainTypeOK /\ KeysInv /\ MarkersInv
              /\ AdminInv /\ ConfigInv /\ ProgramInv

----------------------------------------------------------------------------
(* The layout of the three accounts. *)

\* Where the windows lie.
LEMMA Layout ==
    /\ AutoWrap /\ A # C /\ P # A /\ P # C
    /\ AdminOffset = 0 /\ FreezeOffset = 0 /\ ENCODED_LEN = 2 /\ SIZE = 3
    /\ 0 \in Values /\ Values \subseteq Cells /\ NoId = 0 /\ 1 \in Cells
    /\ AccountId \subseteq Cells /\ NoId \in AccountId
    /\ Ids \subseteq AccountId /\ NoId \notin Ids
    /\ NoData \notin Cells \cup FreezeConfigs \cup FrozenAccountStates
  BY DedicatedAssumption, CellsAssumption, IdsAssumption, NamesAssumption
     DEF ENCODED_LEN, SIZE, AccountId, A, C, P

\* The accounts that have no key, each apart from the others.
LEMMA Places ==
    /\ A \in Names \ Ids /\ C \in Names \ Ids /\ P \in Names \ Ids
    /\ \A a \in Ids : /\ Marker(a) \in Names \ Ids
                      /\ Marker(a) # A /\ Marker(a) # C /\ Marker(a) # P
                      /\ \A b \in Ids : Marker(a) = Marker(b) => a = b
    /\ \A a \in Names : a \in Ids \/ a = A \/ a = C \/ a = P
                          \/ \E b \in Ids : a = Marker(b)
  <1>1. A \in Names \ Ids /\ C \in Names \ Ids /\ P \in Names \ Ids
    BY LayoutAssumption DEF Names, A, C, P
  <1>2. ASSUME NEW a \in Ids
        PROVE  /\ Marker(a) \in Names \ Ids
               /\ Marker(a) # A /\ Marker(a) # C /\ Marker(a) # P
    BY NamesAssumption DEF Names, A, C, P
  <1>3. \A a, b \in Ids : Marker(a) = Marker(b) => a = b
    BY DEF Marker
  <1>4. \A a \in Names : a \in Ids \/ a = A \/ a = C \/ a = P
                           \/ \E b \in Ids : a = Marker(b)
    BY DEF Names, A, C, P
  <1> QED
    BY <1>1, <1>2, <1>3, <1>4

\* Data of such a length is not the data of an account that does not exist.
LEMMA ShapesWritten ==
    \A data : SlotShape(data) \/ ConfigShape(data) \/ ValueShape(data)
                => data # <<>> /\ data \in Seq(Cells)
  <1> SUFFICES ASSUME NEW data,
                      SlotShape(data) \/ ConfigShape(data) \/ ValueShape(data)
               PROVE  data # <<>> /\ data \in Seq(Cells)
    OBVIOUS
  <1>1. CASE SlotShape(data) \/ ConfigShape(data)
    <2>1. data \in Seq(Cells) /\ Len(data) # 0 /\ Len(<<>>) = 0
      BY <1>1 DEF SlotShape, ConfigShape
    <2> QED
      BY <2>1
  <1>2. CASE ValueShape(data)
    BY <1>2, Layout DEF ValueShape
  <1> QED
    BY <1>1, <1>2

\* What the admin's account holds can be read.
LEMMA SlotReads ==
    ASSUME NEW data, SlotShape(data)
    PROVE  /\ SlotFits(data, AdminOffset) = Ok
           /\ SlotReadAt(data, AdminOffset)
                = [holder |-> data[1], nominee |-> data[2]]
           /\ SlotReadAt(data, AdminOffset) \in Slots
  BY Layout DEF SlotShape, SlotFits, SlotReadAt, Slots, Check, Ok

\* And what the config's account does.
LEMMA ConfigReads ==
    ASSUME NEW data, ConfigShape(data)
    PROVE  /\ DecodeAtResult(data, FreezeOffset) = Ok
           /\ WriteToAtResult(data, FreezeOffset) = Ok
           /\ DecodeAt(data, FreezeOffset) \in FreezeConfigs
  <1>1. data # <<>>
    BY ShapesWritten
  <1>2. Len(data) = 3 /\ data[3] \in {0, 1}
        /\ data[1] \in AccountId /\ data[2] \in AccountId
    BY DEF ConfigShape
  <1>3. DecodeAtResult(data, FreezeOffset) = Ok
        /\ WriteToAtResult(data, FreezeOffset) = Ok
    BY <1>1, <1>2, Layout
       DEF DecodeAtResult, WriteToAtResult, SlotFits, Check, ??, Ok
  <1>4. SlotReadAt(data, FreezeOffset) = [holder |-> data[1], nominee |-> data[2]]
    BY Layout DEF SlotReadAt
  <1>5. SlotReadAt(data, FreezeOffset) \in Slots
    BY <1>2, <1>4 DEF Slots
  <1>6. DecodeAt(data, FreezeOffset) \in FreezeConfigs
    BY <1>5 DEF DecodeAt, FreezeConfigs
  <1> QED
    BY <1>3, <1>6

\* A slot written over a slot.
LEMMA SlotWritten ==
    ASSUME NEW data, SlotShape(data), NEW slot \in Slots,
           slot.holder = NoId => slot.nominee = NoId
    PROVE  /\ SlotShape(SlotWriteAt(data, slot, AdminOffset))
           /\ SlotWriteAt(data, slot, AdminOffset)[1] = slot.holder
  <1> DEFINE new == SlotWriteAt(data, slot, AdminOffset)
             part == SlotBytes(slot)
  <1>1. data \in Seq(Cells) /\ Len(data) = 2 /\ AdminOffset \in Nat
        /\ AdminOffset = 0
    BY Layout DEF SlotShape
  <1>2. slot.holder \in AccountId /\ slot.nominee \in AccountId
        /\ slot.holder \in Cells /\ slot.nominee \in Cells
    BY Layout DEF Slots
  <1>3. /\ part \in Seq(Cells) /\ Len(part) = 2
        /\ part[1] = slot.holder /\ part[2] = slot.nominee
    BY <1>2 DEF SlotBytes
  <1>4. new = Splice(data, part, AdminOffset)
    BY DEF SlotWriteAt
  <1>5. AdminOffset + Len(part) <= Len(data)
    BY <1>1, <1>3
  <1> HIDE DEF new, part
  <1>6. /\ new \in Seq(Cells) /\ Len(new) = Len(data)
        /\ \A i \in 1 .. Len(part) : new[AdminOffset + i] = part[i]
    <2>1. /\ Splice(data, part, AdminOffset) \in Seq(Cells)
          /\ Len(Splice(data, part, AdminOffset)) = Len(data)
          /\ \A i \in 1 .. Len(part) :
                Splice(data, part, AdminOffset)[AdminOffset + i] = part[i]
      BY <1>1, <1>3, <1>5, SpliceCells
    <2> QED
      BY <1>4, <2>1
  <1>7. new[1] = slot.holder /\ new[2] = slot.nominee
    <2>1. new[AdminOffset + 1] = part[1] /\ new[AdminOffset + 2] = part[2]
      BY <1>3, <1>6
    <2> QED
      BY <1>1, <1>3, <2>1
  <1>8. SlotShape(new)
    BY <1>1, <1>2, <1>6, <1>7 DEF SlotShape
  <1> QED
    BY <1>7, <1>8 DEF new

\* A config written over a config.
LEMMA ConfigWritten ==
    ASSUME NEW data, ConfigShape(data), NEW config \in FreezeConfigs
    PROVE  /\ ConfigShape(WriteToAt(data, config, FreezeOffset))
           /\ DecodeAt(WriteToAt(data, config, FreezeOffset), FreezeOffset) = config
  <1> DEFINE new == WriteToAt(data, config, FreezeOffset)
  <1>1. data \in Seq(Cells) /\ Len(data) = 3 /\ FreezeOffset \in Nat
        /\ WriteToAtResult(data, FreezeOffset) = Ok
    BY ConfigReads, Layout DEF ConfigShape
  <1>2. new \in Seq(Cells) /\ Len(new) = 3
    BY <1>1, WriteKeepsNeighbours
  <1>3. new[1] = config.slot.holder /\ new[2] = config.slot.nominee
        /\ new[3] = FlagByte(config.is_frozen)
    BY <1>1, WrittenCells, Layout
  <1>4. DecodeAt(new, FreezeOffset) = config
    BY <1>1, ReadBack
  <1> HIDE DEF new
  <1>5. config.slot.holder \in AccountId /\ config.slot.nominee \in AccountId
        /\ FlagByte(config.is_frozen) \in {0, 1}
    BY DEF FreezeConfigs, Slots, FlagByte
  <1>6. ConfigShape(new)
    BY <1>2, <1>3, <1>5 DEF ConfigShape
  <1> QED
    BY <1>4, <1>6 DEF new

\* The accounts as the initialisers make them.
LEMMA Born ==
    ASSUME NEW caller \in Ids
    PROVE  /\ SlotShape(SlotBytes(SlotInitialize(caller)))
           /\ SlotBytes(SlotInitialize(caller))[1] = caller
           /\ ConfigShape(Encode(Bootstrap(caller)))
           /\ DecodeAt(Encode(Bootstrap(caller)), FreezeOffset) = Bootstrap(caller)
           /\ ValueShape(<<0>>)
  <1>1. caller \in AccountId /\ caller \in Cells /\ caller # NoId
        /\ NoId \in AccountId /\ NoId \in Cells /\ 0 \in Cells /\ 0 \in Values
    BY Layout
  <1>2. SlotBytes(SlotInitialize(caller)) = <<caller, NoId>>
    BY DEF SlotBytes, SlotInitialize
  <1>3. Encode(Bootstrap(caller)) = <<caller, NoId, 0>>
    <2>1. Bootstrap(caller).slot = SlotInitialize(caller)
          /\ FlagByte(Bootstrap(caller).is_frozen) = 0
      BY DEF Bootstrap, FlagByte
    <2>2. Encode(Bootstrap(caller)) = Append(<<caller, NoId>>, 0)
      BY <1>2, <2>1 DEF Encode
    <2> DEFINE s == Append(<<caller, NoId>>, 0)
               t == <<caller, NoId, 0>>
    <2>3. s \in Seq(Cells) /\ t \in Seq(Cells) /\ Len(s) = Len(t)
          /\ \A i \in 1 .. Len(s) : s[i] = t[i]
      BY <1>1
    <2> HIDE DEF s, t
    <2>4. s = t
      BY <2>3, SeqEqual
    <2> QED
      BY <2>2, <2>4 DEF s, t
  <1>4. SlotShape(<<caller, NoId>>) /\ <<caller, NoId>>[1] = caller
    BY <1>1 DEF SlotShape
  <1>5. ConfigShape(<<caller, NoId, 0>>)
    BY <1>1 DEF ConfigShape
  <1>6. DecodeAt(<<caller, NoId, 0>>, FreezeOffset) = Bootstrap(caller)
    <2> DEFINE data == <<caller, NoId, 0>>
    <2>1. data[1] = caller /\ data[2] = NoId /\ (data[3] = 1) = FALSE
      OBVIOUS
    <2> HIDE DEF data
    <2>2. SlotReadAt(data, FreezeOffset) = [holder |-> caller, nominee |-> NoId]
      BY <2>1, Layout DEF SlotReadAt
    <2>3. FreezeOffset + SIZE = 3
      BY Layout
    <2>4. DecodeAt(data, FreezeOffset) = Bootstrap(caller)
      BY <2>1, <2>2, <2>3 DEF DecodeAt, Bootstrap, SlotInitialize
    <2> QED
      BY <2>4 DEF data
  <1>7. ValueShape(<<0>>)
    BY <1>1 DEF ValueShape
  <1> QED
    BY <1>2, <1>3, <1>4, <1>5, <1>6, <1>7

----------------------------------------------------------------------------
(* The accounts and the records that they hold, before and after a step. *)

\* The admin's account, once it exists.
LEMMA AdminView ==
    ASSUME ChainInv, AdminData # <<>>
    PROVE  /\ account[A].owner = "self" /\ SlotShape(AdminData)
           /\ AdminConfigResult = Ok /\ AdminSlot \in Slots
           /\ AdminSlot = [holder |-> AdminData[1], nominee |-> AdminData[2]]
           /\ AdminRecord = AdminSlot.holder /\ AdminRecord # NoData
           /\ AdminOrNone = AdminRecord
           /\ AdminSlot.holder = NoId => AdminSlot.nominee = NoId
  <1>1. account[A].owner = "self" /\ SlotShape(AdminData)
    BY DEF ChainInv, AdminInv, AdminData, Default, A
  <1>2. /\ SlotFits(AdminData, AdminOffset) = Ok /\ AdminSlot \in Slots
        /\ AdminSlot = [holder |-> AdminData[1], nominee |-> AdminData[2]]
    BY <1>1, SlotReads DEF AdminSlot
  <1>3. AdminConfigResult = Ok
    BY <1>2 DEF AdminConfigResult, Check, ??, Ok
  <1>4. AdminRecord = AdminSlot.holder /\ AdminOrNone = AdminSlot.holder
    BY <1>3 DEF AdminRecord, AdminOrNone
  <1>5. AdminSlot.holder = AdminData[1] /\ AdminSlot.nominee = AdminData[2]
        /\ AdminData[1] \in AccountId
    BY <1>1, <1>2 DEF SlotShape
  <1> QED
    BY <1>1, <1>2, <1>3, <1>4, <1>5, Layout DEF SlotShape

\* The admin of the records is the one that the dual paths see.
LEMMA AdminSeen ==
    ASSUME ChainInv
    PROVE  /\ AdminOrNone = AdminRecord
           /\ AdminConfigResult = Ok => AdminData # <<>>
  <1>1. AdminConfigResult = Ok => AdminData # <<>>
    BY ThenOk DEF AdminConfigResult, Check, Ok
  <1>2. CASE AdminData = <<>>
    BY <1>1, <1>2 DEF AdminOrNone, AdminRecord
  <1> QED
    BY <1>1, <1>2, AdminView

\* The config's account, where a load gets through.
LEMMA ConfigView ==
    ASSUME ChainInv, ConfigData # <<>> \/ FreezeConfigResult = Ok
    PROVE  /\ account[C].owner = "self" /\ ConfigShape(ConfigData)
           /\ FreezeConfigResult = Ok
           /\ WriteToAtResult(ConfigData, FreezeOffset) = Ok
           /\ LoadedConfig \in FreezeConfigs
           /\ LoadedConfig = ConfigRecord /\ ConfigRecord # NoData
  <1>1. ConfigData # <<>>
    BY ThenOk DEF FreezeConfigResult, DecodeAtResult, Check, Ok
  <1>2. account[C].owner = "self" /\ ConfigShape(ConfigData)
    BY <1>1 DEF ChainInv, ConfigInv, ConfigData, Default, C
  <1>3. /\ FreezeConfigResult = Ok /\ LoadedConfig \in FreezeConfigs
        /\ WriteToAtResult(ConfigData, FreezeOffset) = Ok
    BY <1>2, ConfigReads DEF FreezeConfigResult, LoadedConfig
  <1>4. LoadedConfig = ConfigRecord
    BY <1>1 DEF ConfigRecord
  <1> QED
    BY <1>2, <1>3, <1>4, Layout

\* The program's account, where its load gets through.
LEMMA ProgramView ==
    ASSUME ChainInv, ProgramData # <<>> \/ FromAccountResult = Ok
    PROVE  /\ account[P].owner = "self" /\ ValueShape(ProgramData)
           /\ ValueRecord # NoData
  <1>1. ProgramData # <<>>
    <2>1. FromAccountResult = Ok => Len(ProgramData) = 1
      BY DEF FromAccountResult, Check, Ok
    <2>2. Len(<<>>) # 1
      OBVIOUS
    <2> QED
      BY <2>1, <2>2
  <1>2. account[P].owner = "self" /\ ValueShape(ProgramData)
    BY <1>1 DEF ChainInv, ProgramInv, ProgramData, Default, P
  <1>3. ProgramData[1] \in Values
    BY <1>2 DEF ValueShape
  <1> QED
    BY <1>1, <1>2, <1>3, Layout DEF ValueRecord

\* Accounts that do not exist have no record.
LEMMA NoView ==
    /\ account[A] = Default => AdminRecord = NoData
    /\ account[C] = Default => ConfigRecord = NoData
    /\ account[P] = Default => ValueRecord = NoData
  BY DEF AdminRecord, AdminData, ConfigRecord, ConfigData, ValueRecord,
         ProgramData, Default, A, C, P

\* A marker and its record.
LEMMA MarkerView ==
    ASSUME ChainInv, NEW a \in Ids
    PROVE  /\ MarkerRecords[a] = MarkerState(account[Marker(a)].data)
           /\ MarkerResult(account[Marker(a)].data) = Ok
  BY DEF ChainInv, MarkersInv, MarkerResult, Check, Ok, Default, MarkerRecords

\* An account that stays as it is keeps its record.
LEMMA Kept ==
    /\ account'[A] = account[A] => UNCHANGED AdminRecord /\ (AdminInv => AdminInv')
    /\ account'[C] = account[C] => UNCHANGED ConfigRecord
                                   /\ (ConfigInv => ConfigInv')
    /\ account'[P] = account[P] => UNCHANGED ValueRecord
                                   /\ (ProgramInv => ProgramInv')
    /\ (\A a \in Ids : account'[Marker(a)] = account[Marker(a)])
         => UNCHANGED MarkerRecords /\ (MarkersInv => MarkersInv')
  <1>1. ASSUME account'[A] = account[A]
        PROVE  UNCHANGED AdminRecord /\ (AdminInv => AdminInv')
    <2>1. AdminData' = AdminData
      BY <1>1 DEF AdminData, A
    <2>2. AdminSlot' = AdminSlot
      BY <2>1 DEF AdminSlot
    <2> QED
      BY <1>1, <2>1, <2>2 DEF AdminRecord, AdminInv, A
  <1>2. ASSUME account'[C] = account[C]
        PROVE  UNCHANGED ConfigRecord /\ (ConfigInv => ConfigInv')
    <2>1. ConfigData' = ConfigData
      BY <1>2 DEF ConfigData, C
    <2>2. LoadedConfig' = LoadedConfig
      BY <2>1 DEF LoadedConfig
    <2> QED
      BY <1>2, <2>1, <2>2 DEF ConfigRecord, ConfigInv, C
  <1>3. ASSUME account'[P] = account[P]
        PROVE  UNCHANGED ValueRecord /\ (ProgramInv => ProgramInv')
    <2>1. ProgramData' = ProgramData
      BY <1>3 DEF ProgramData, P
    <2> QED
      BY <1>3, <2>1 DEF ValueRecord, ProgramInv, P
  <1>4. ASSUME \A a \in Ids : account'[Marker(a)] = account[Marker(a)]
        PROVE  UNCHANGED MarkerRecords /\ (MarkersInv => MarkersInv')
    BY <1>4 DEF MarkerRecords, MarkersInv
  <1> QED
    BY <1>1, <1>2, <1>3, <1>4

\* The accounts around a rewrite: types and keys hold, and what the records'
\* ledger sees is a transaction of the touched keys.
LEMMA Around ==
    ASSUME ChainInv, NEW touched \in SUBSET Ids, NEW signers \in SUBSET touched,
           NEW x \in Names \ Ids, NEW data \in Seq(Cells),
           Rewrites(touched, signers, x, data)
    PROVE  /\ ChainTypeOK' /\ KeysInv' /\ Records!Lands(touched, signers)
           /\ account'[x].owner = "self" /\ account'[x].data = data
           /\ \A y \in {A, C, P} \ {x} : account'[y] = account[y]
           /\ \A a \in Ids : Marker(a) # x
                               => account'[Marker(a)] = account[Marker(a)]
  <1>1. KeyStep(touched, signers) /\ account' = [a \in Names |-> account'[a]]
    BY DEF Rewrites
  <1>2. /\ account'[x] = [owner |-> "self", nonce |-> account[x].nonce,
                          data |-> data]
        /\ \A a \in Names \ Ids : a # x => account'[a] = account[a]
    BY DEF Rewrites
  <1>3. ChainTypeOK' /\ KeysInv'
    <2>1. KeptOrRewritten
      BY <1>2 DEF KeptOrRewritten
    <2>2. ChainTypeOK /\ KeysInv
      BY DEF ChainInv
    <2> QED
      BY <1>1, <2>1, <2>2, RewriteTypes
  <1>4. Records!Lands(touched, signers)
    BY <1>1, KeyLedger DEF ChainInv, Records!Lands
  <1>5. \A y \in {A, C, P} \ {x} : account'[y] = account[y]
    BY <1>2, Places
  <1>6. \A a \in Ids : Marker(a) # x => account'[Marker(a)] = account[Marker(a)]
    BY <1>2, Places
  <1> QED
    BY <1>2, <1>3, <1>4, <1>5, <1>6

\* After a rewrite of the admin's account.
LEMMA AdminRewritten ==
    ASSUME ChainInv, NEW touched \in SUBSET Ids, NEW signers \in SUBSET touched,
           NEW data, SlotShape(data), Rewrites(touched, signers, A, data)
    PROVE  /\ ChainInv' /\ Records!Lands(touched, signers)
           /\ AdminRecord' = data[1]
           /\ UNCHANGED <<ConfigRecord, ValueRecord, MarkerRecords>>
  <1>1. data \in Seq(Cells) /\ data # <<>> /\ A \in Names \ Ids
    BY ShapesWritten, Places
  <1>2. /\ ChainTypeOK' /\ KeysInv' /\ Records!Lands(touched, signers)
        /\ account'[A].owner = "self" /\ account'[A].data = data
        /\ account'[C] = account[C] /\ account'[P] = account[P]
        /\ \A a \in Ids : account'[Marker(a)] = account[Marker(a)]
    <2>1. A # C /\ A # P /\ \A a \in Ids : Marker(a) # A
      BY Layout, Places
    <2>2. /\ ChainTypeOK' /\ KeysInv' /\ Records!Lands(touched, signers)
          /\ account'[A].owner = "self" /\ account'[A].data = data
          /\ \A y \in {A, C, P} \ {A} : account'[y] = account[y]
          /\ \A a \in Ids : Marker(a) # A
                              => account'[Marker(a)] = account[Marker(a)]
      BY <1>1, Around
    <2> QED
      BY <2>1, <2>2
  <1>3. AdminData' = data
    BY <1>2 DEF AdminData, A
  <1>4. AdminInv'
    BY <1>2, <1>3 DEF AdminInv, A
  <1>5. AdminRecord' = data[1]
    BY <1>1, <1>3, SlotReads DEF AdminRecord, AdminSlot
  <1> QED
    BY <1>2, <1>4, <1>5, Kept DEF ChainInv

\* After a rewrite of the config's.
LEMMA ConfigRewritten ==
    ASSUME ChainInv, NEW touched \in SUBSET Ids, NEW signers \in SUBSET touched,
           NEW data, ConfigShape(data), Rewrites(touched, signers, C, data)
    PROVE  /\ ChainInv' /\ Records!Lands(touched, signers)
           /\ ConfigRecord' = DecodeAt(data, FreezeOffset)
           /\ UNCHANGED <<AdminRecord, ValueRecord, MarkerRecords>>
  <1>1. data \in Seq(Cells) /\ data # <<>> /\ C \in Names \ Ids
    BY ShapesWritten, Places
  <1>2. /\ ChainTypeOK' /\ KeysInv' /\ Records!Lands(touched, signers)
        /\ account'[C].owner = "self" /\ account'[C].data = data
        /\ account'[A] = account[A] /\ account'[P] = account[P]
        /\ \A a \in Ids : account'[Marker(a)] = account[Marker(a)]
    <2>1. C # A /\ C # P /\ \A a \in Ids : Marker(a) # C
      BY Layout, Places
    <2>2. /\ ChainTypeOK' /\ KeysInv' /\ Records!Lands(touched, signers)
          /\ account'[C].owner = "self" /\ account'[C].data = data
          /\ \A y \in {A, C, P} \ {C} : account'[y] = account[y]
          /\ \A a \in Ids : Marker(a) # C
                              => account'[Marker(a)] = account[Marker(a)]
      BY <1>1, Around
    <2> QED
      BY <2>1, <2>2
  <1>3. ConfigData' = data
    BY <1>2 DEF ConfigData, C
  <1>4. ConfigInv'
    BY <1>2, <1>3 DEF ConfigInv, C
  <1>5. ConfigRecord' = DecodeAt(data, FreezeOffset)
    BY <1>1, <1>3 DEF ConfigRecord, LoadedConfig
  <1> QED
    BY <1>2, <1>4, <1>5, Kept DEF ChainInv

\* After a rewrite of the program's own.
LEMMA ProgramRewritten ==
    ASSUME ChainInv, NEW touched \in SUBSET Ids, NEW signers \in SUBSET touched,
           NEW v \in Values, Rewrites(touched, signers, P, <<v>>)
    PROVE  /\ ChainInv' /\ Records!Lands(touched, signers)
           /\ ValueRecord' = v
           /\ UNCHANGED <<AdminRecord, ConfigRecord, MarkerRecords>>
  <1> DEFINE data == <<v>>
  <1>1. ValueShape(data) /\ data[1] = v
    BY DEF ValueShape
  <1>2. Rewrites(touched, signers, P, data)
    OBVIOUS
  <1> HIDE DEF data
  <1>3. data \in Seq(Cells) /\ data # <<>> /\ P \in Names \ Ids
    BY <1>1, ShapesWritten, Places
  <1>4. /\ ChainTypeOK' /\ KeysInv' /\ Records!Lands(touched, signers)
        /\ account'[P].owner = "self" /\ account'[P].data = data
        /\ account'[A] = account[A] /\ account'[C] = account[C]
        /\ \A a \in Ids : account'[Marker(a)] = account[Marker(a)]
    <2>1. P # A /\ P # C /\ \A a \in Ids : Marker(a) # P
      BY Layout, Places
    <2>2. /\ ChainTypeOK' /\ KeysInv' /\ Records!Lands(touched, signers)
          /\ account'[P].owner = "self" /\ account'[P].data = data
          /\ \A y \in {A, C, P} \ {P} : account'[y] = account[y]
          /\ \A a \in Ids : Marker(a) # P
                              => account'[Marker(a)] = account[Marker(a)]
      BY <1>2, <1>3, Around
    <2> QED
      BY <2>1, <2>2
  <1>5. ProgramData' = data
    BY <1>4 DEF ProgramData, P
  <1>6. ProgramInv'
    BY <1>1, <1>4, <1>5 DEF ProgramInv, P
  <1>7. ValueRecord' = v
    BY <1>1, <1>3, <1>5 DEF ValueRecord
  <1> QED
    BY <1>4, <1>6, <1>7, Kept DEF ChainInv

\* After a flag is written into a marker.
LEMMA MarkerRewritten ==
    ASSUME ChainInv, NEW touched \in SUBSET Ids, NEW signers \in SUBSET touched,
           NEW target \in Ids, NEW state \in BOOLEAN,
           Rewrites(touched, signers, Marker(target), MarkerBytes(state))
    PROVE  /\ ChainInv' /\ Records!Lands(touched, signers)
           /\ UNCHANGED <<AdminRecord, ConfigRecord, ValueRecord>>
           /\ MarkerRecords'
                = [MarkerRecords EXCEPT ![target] = [is_frozen |-> state]]
  <1> DEFINE M == Marker(target)
             bytes == MarkerBytes(state)
  <1>1. bytes \in Seq(Cells) /\ bytes \in {<<0>>, <<1>>} /\ M \in Names \ Ids
        /\ MarkerState(bytes) = [is_frozen |-> state]
    BY FlagData, FlagBytes, Places
  <1>2. /\ M # A /\ M # C /\ M # P
        /\ \A a \in Ids \ {target} : Marker(a) # M
    BY Places
  <1>3. /\ ChainTypeOK' /\ KeysInv' /\ Records!Lands(touched, signers)
        /\ account'[M].owner = "self" /\ account'[M].data = bytes
        /\ account'[A] = account[A] /\ account'[C] = account[C]
        /\ account'[P] = account[P]
        /\ \A a \in Ids \ {target} : account'[Marker(a)] = account[Marker(a)]
    <2> HIDE DEF M, bytes
    <2>1. Rewrites(touched, signers, M, bytes)
      BY DEF M, bytes
    <2>2. /\ ChainTypeOK' /\ KeysInv' /\ Records!Lands(touched, signers)
          /\ account'[M].owner = "self" /\ account'[M].data = bytes
          /\ \A y \in {A, C, P} \ {M} : account'[y] = account[y]
          /\ \A a \in Ids : Marker(a) # M
                              => account'[Marker(a)] = account[Marker(a)]
      BY <1>1, <2>1, Around
    <2> QED
      BY <1>2, <2>2
  <1>4. MarkersInv'
    BY <1>1, <1>3 DEF ChainInv, MarkersInv
  <1>5. MarkerRecords' = [MarkerRecords EXCEPT ![target] = [is_frozen |-> state]]
    BY <1>1, <1>3 DEF MarkerRecords
  <1> QED
    BY <1>3, <1>4, <1>5, Kept DEF ChainInv

\* After a transaction of another program.
LEMMA PassedBy ==
    ASSUME ChainInv, NEW touched \in SUBSET Ids, NEW signers \in SUBSET touched,
           PassesBy(touched, signers)
    PROVE  /\ ChainInv' /\ Records!Lands(touched, signers)
           /\ UNCHANGED <<AdminRecord, ConfigRecord, ValueRecord, MarkerRecords>>
  <1>1. /\ KeyStep(touched, signers) /\ account' = [a \in Names |-> account'[a]]
        /\ \A a \in Names \ Ids : account'[a] = account[a]
    BY DEF PassesBy
  <1>2. ChainTypeOK' /\ KeysInv'
    <2>1. ChainTypeOK /\ KeysInv /\ KeptOrRewritten
      BY <1>1 DEF ChainInv, KeptOrRewritten
    <2> QED
      BY <1>1, <2>1, RewriteTypes
  <1>3. Records!Lands(touched, signers)
    BY <1>1, KeyLedger DEF ChainInv, Records!Lands
  <1>4. account'[A] = account[A] /\ account'[C] = account[C]
        /\ account'[P] = account[P]
        /\ \A a \in Ids : account'[Marker(a)] = account[Marker(a)]
    BY <1>1, Places
  <1> QED
    BY <1>2, <1>3, <1>4, Kept DEF ChainInv

----------------------------------------------------------------------------
(* The checks and updates of the bytes are those of the records. *)

\* The checks and updates of the records are the library's own.
LEMMA SameChecks ==
    /\ Records!Ok = Ok
    /\ \A first, next : Records!??(first, next) = (first ?? next)
    /\ \A admin, signer : Records!AssertAdmin(admin, signer)
                            = AssertAdmin(admin, signer)
    /\ \A config, signer : Records!AssertHolder(config, signer)
                             = AssertHolder(config, signer)
    /\ \A candidate, new : Records!Validate(candidate, new)
                             = Validate(candidate, new)
    /\ \A candidate, new : Records!TransferResult(candidate, new)
                             = TransferResult(candidate, new)
    /\ \A id : Records!SlotInitializeResult(id) = SlotInitializeResult(id)
    /\ \A admin, config, signer : Records!DualPath(admin, config, signer)
                                    = DualPath(admin, config, signer)
    /\ \A config, nominee : Records!AcceptResult(config, nominee)
                              = AcceptResult(config, nominee)
  <1>1. Records!Ok = Ok /\ \A first, next : Records!??(first, next) = (first ?? next)
    BY DEF Records!??, ??, Records!Ok, Ok
  <1>2. \A admin, signer : Records!AssertAdmin(admin, signer)
                             = AssertAdmin(admin, signer)
    BY DEF Records!AssertAdmin, AssertAdmin, Records!??, ??, Records!Check, Check,
           Records!Ok, Ok
  <1>3. \A slot, signer : Records!SlotAssert(slot, signer)
                            = SlotAssert(slot, signer)
    BY DEF Records!SlotAssert, SlotAssert, Records!??, ??, Records!Check, Check,
           Records!Ok, Ok
  <1>4. \A e : Records!FromAuthorityError(e) = FromAuthorityError(e)
    BY DEF Records!FromAuthorityError, FromAuthorityError
  <1>5. \A config, signer : Records!AssertHolder(config, signer)
                              = AssertHolder(config, signer)
    BY <1>3, <1>4 DEF Records!AssertHolder, AssertHolder
  <1>6. \A candidate, new : Records!Validate(candidate, new)
                              = Validate(candidate, new)
    BY DEF Records!Validate, Validate, Records!??, ??, Records!Check, Check,
           Records!Ok, Ok
  <1>7. \A id : Records!SlotInitializeResult(id) = SlotInitializeResult(id)
    BY DEF Records!SlotInitializeResult, SlotInitializeResult, Records!Check,
           Check, Records!Ok, Ok
  <1>8. \A candidate, new : Records!TransferResult(candidate, new)
                              = TransferResult(candidate, new)
    BY <1>1, <1>4, <1>6, <1>7 DEF Records!TransferResult, TransferResult
  <1>9. \A admin, config, signer : Records!DualPath(admin, config, signer)
                                     = DualPath(admin, config, signer)
    BY <1>1, <1>2, <1>3 DEF Records!DualPath, DualPath, Records!Check, Check
  <1>10. \A slot, signer : Records!SlotAcceptResult(slot, signer)
                             = SlotAcceptResult(slot, signer)
    BY DEF Records!SlotAcceptResult, SlotAcceptResult, Records!??, ??,
           Records!Check, Check, Records!Ok, Ok
  <1>11. \A config, nominee : Records!AcceptResult(config, nominee)
                                = AcceptResult(config, nominee)
    BY <1>4, <1>10 DEF Records!AcceptResult, AcceptResult
  <1> QED
    BY <1>1, <1>2, <1>5, <1>6, <1>7, <1>8, <1>9, <1>11

\* So are the updates.
LEMMA SameUpdates ==
    /\ \A config, id : Records!Transfer(config, id) = Transfer(config, id)
    /\ \A config : Records!Renounce(config) = Renounce(config)
    /\ \A config, id : Records!Nominate(config, id) = Nominate(config, id)
    /\ \A config : Records!Accept(config) = Accept(config)
    /\ \A config, state : Records!SetIsFrozen(config, state)
                            = SetIsFrozen(config, state)
    /\ \A data : Records!FromDataOrDefault(data) = FromDataOrDefault(data)
  <1>1. \A config, id : Records!Transfer(config, id) = Transfer(config, id)
    BY DEF Records!Transfer, Transfer, Records!SlotTransfer, SlotTransfer
  <1>2. \A config : Records!Renounce(config) = Renounce(config)
    BY DEF Records!Renounce, Renounce, Records!SlotRenounce, SlotRenounce
  <1>3. \A config, id : Records!Nominate(config, id) = Nominate(config, id)
    BY DEF Records!Nominate, Nominate, Records!SlotNominate, SlotNominate
  <1>4. \A config : Records!Accept(config) = Accept(config)
    BY DEF Records!Accept, Accept, Records!SlotAccept, SlotAccept
  <1>5. \A config, state : Records!SetIsFrozen(config, state)
                             = SetIsFrozen(config, state)
    BY DEF Records!SetIsFrozen, SetIsFrozen
  <1>6. \A data : Records!FromDataOrDefault(data) = FromDataOrDefault(data)
    BY DEF Records!FromDataOrDefault, FromDataOrDefault
  <1> QED
    BY <1>1, <1>2, <1>3, <1>4, <1>5, <1>6

\* A handler sees the accounts as the records' ledger does.
LEMMA SameAccount ==
    ASSUME NEW a \in Ids, NEW signed
    PROVE  /\ Records!AccountOf(a, signed) = AccountOf(a, signed)
           /\ Records!Caller(a) = Caller(a)
  <1>1. (a \in OwnedKeys) = (account[a].owner # "default")
    BY DEF OwnedKeys
  <1>2. \A s : Records!AccountOf(a, s) = AccountOf(a, s)
    BY <1>1 DEF Records!AccountOf, AccountOf
  <1> QED
    BY <1>2 DEF Records!Caller, Caller

\* The library's role instructions run ungated.
LEMMA RecordsUngated ==
    ASSUME NEW instruction \in Records!FreezeExempt, NEW caller
    PROVE  Records!Gate(instruction, caller) = Ok
  BY DEF Records!Gate, Records!Ok, Ok

\* The admin's instructions are exempt in the records too.
LEMMA AdminUngated ==
    ASSUME NEW instruction \in {"admin_initialize", "admin_transfer", "admin_accept",
                               "admin_renounce"},
           NEW caller
    PROVE  Records!Gate(instruction, caller) = Ok
  BY RecordsUngated DEF Records!FreezeExempt, Records!ExemptList

\* The gate reads the same.
LEMMA SameGate ==
    ASSUME ChainInv, NEW caller \in Ids, RequireNotFrozen(caller) = Ok
    PROVE  /\ FreezeConfigResult = Ok
           /\ Records!RequireNotFrozen(caller) = Ok
           /\ \A instruction : Records!Gate(instruction, caller) = Ok
  <1> DEFINE state == MarkerState(account[Marker(caller)].data)
  <1>1. /\ FreezeConfigResult = Ok /\ ~LoadedConfig.is_frozen
        /\ ~FromDataOrDefault(state).is_frozen
    BY ThenOk DEF RequireNotFrozen, Check, Ok
  <1>3. ConfigRecord = LoadedConfig /\ ConfigRecord # NoData
        /\ MarkerRecords[caller] = state
    BY <1>1, ConfigView, MarkerView
  <1> HIDE DEF state
  <1>4. Records!FromAccount(ConfigRecord) = Ok
    BY <1>3 DEF Records!FromAccount, Records!Check, Records!Ok, Ok
  <1>5. Records!Check(~ConfigRecord.is_frozen, "Frozen") = Ok
    BY <1>1, <1>3 DEF Records!Check, Records!Ok, Ok
  <1>6. Records!Check(~Records!FromDataOrDefault(MarkerRecords[caller]).is_frozen,
                      "AccountFrozen") = Ok
    BY <1>1, <1>3, SameUpdates DEF Records!Check, Records!Ok, Ok
  <1>7. Records!RequireNotFrozen(caller) = Ok
    BY <1>4, <1>5, <1>6, SameChecks, ThenOk DEF Records!RequireNotFrozen
  <1>8. \A instruction : Records!Gate(instruction, caller) = Ok
    BY <1>7 DEF Records!Gate, Records!Ok, Ok
  <1> QED
    BY <1>1, <1>7, <1>8

\* The admin's check reads the same, and whoever passes it is the admin.
LEMMA SameAdmin ==
    ASSUME ChainInv, NEW caller \in Ids, RequireAdmin(caller) = Ok
    PROVE  /\ AdminData # <<>>
           /\ AdminSlot \in Slots /\ AdminSlot.holder = caller
           /\ Records!RequireAdmin(caller) = Ok
  <1>1. AdminConfigResult = Ok /\ AssertAdmin(AdminSlot.holder, Caller(caller)) = Ok
    BY ThenOk DEF RequireAdmin
  <1>2. AdminData # <<>>
    BY <1>1, AdminSeen
  <1>3. AdminRecord = AdminSlot.holder /\ AdminRecord # NoData
        /\ AdminSlot \in Slots
    BY <1>2, AdminView
  <1>4. AdminSlot.holder = caller
    BY <1>1, ThenOk DEF AssertAdmin, Check, Ok, Caller, AccountOf
  <1>5. Records!AdminFromAccount(AdminRecord) = Ok
    BY <1>3 DEF Records!AdminFromAccount, Records!Check, Records!Ok, Ok
  <1>6. Records!AssertAdmin(AdminRecord, Records!Caller(caller)) = Ok
    BY <1>1, <1>3, SameChecks, SameAccount
  <1> QED
    BY <1>1, <1>2, <1>3, <1>4, <1>5, <1>6, SameChecks, ThenOk
       DEF Records!RequireAdmin

-----------------------------------------------------------------------
(* What lands on the bytes has landed on the records. *)

\* A config lands over the config: the records change in that one place.
LEMMA FreezeWrite ==
    ASSUME ChainInv, FreezeConfigResult = Ok, NEW config \in FreezeConfigs,
           NEW touched \in SUBSET Ids, NEW signers \in SUBSET touched,
           Rewrites(touched, signers, C, WriteToAt(ConfigData, config, FreezeOffset))
    PROVE  /\ ChainInv' /\ Records!Lands(touched, signers)
           /\ ConfigRecord' = config
           /\ UNCHANGED <<AdminRecord, ValueRecord, MarkerRecords>>
  <1> DEFINE new == WriteToAt(ConfigData, config, FreezeOffset)
  <1>1. ConfigShape(new) /\ DecodeAt(new, FreezeOffset) = config
    BY ConfigView, ConfigWritten
  <1>2. Rewrites(touched, signers, C, new)
    OBVIOUS
  <1> HIDE DEF new
  <1> QED
    BY <1>1, <1>2, ConfigRewritten

\* What a handler answers with is such a config.
LEMMA FreezeAnswer ==
    ASSUME ChainInv, FreezeConfigResult = Ok, NEW config \in FreezeConfigs
    PROVE  /\ WriteToAt(ConfigData, config, FreezeOffset) \in Seq(Cells)
           /\ NewData(C, Written(config),
                      WriteToAt(ConfigData, config, FreezeOffset))
  <1>1. account[C].owner = "self" /\ ConfigShape(ConfigData)
    BY ConfigView
  <1>2. ConfigShape(WriteToAt(ConfigData, config, FreezeOffset))
    BY <1>1, ConfigWritten
  <1>3. Written(config) = PostState(C, WriteToAt(ConfigData, config, FreezeOffset))
    BY DEF Written, C
  <1> QED
    BY <1>1, <1>2, <1>3 DEF ConfigShape, NewData

\* A slot lands over the admin's.
LEMMA AdminWrite ==
    ASSUME ChainInv, AdminData # <<>>, NEW slot \in Slots,
           slot.holder = NoId => slot.nominee = NoId,
           NEW touched \in SUBSET Ids, NEW signers \in SUBSET touched,
           Rewrites(touched, signers, A, SlotWriteAt(AdminData, slot, AdminOffset))
    PROVE  /\ ChainInv' /\ Records!Lands(touched, signers)
           /\ AdminRecord' = slot.holder
           /\ UNCHANGED <<ConfigRecord, ValueRecord, MarkerRecords>>
  <1> DEFINE new == SlotWriteAt(AdminData, slot, AdminOffset)
  <1>1. SlotShape(new) /\ new[1] = slot.holder
    BY AdminView, SlotWritten
  <1>2. Rewrites(touched, signers, A, new)
    OBVIOUS
  <1> HIDE DEF new
  <1> QED
    BY <1>1, <1>2, AdminRewritten

\* What the admin's instructions answer with is such a slot.
LEMMA AdminAnswer ==
    ASSUME ChainInv, AdminData # <<>>, NEW slot \in Slots,
           slot.holder = NoId => slot.nominee = NoId
    PROVE  /\ SlotWriteAt(AdminData, slot, AdminOffset) \in Seq(Cells)
           /\ NewData(A, AdminWritten(slot),
                      SlotWriteAt(AdminData, slot, AdminOffset))
  <1>1. account[A].owner = "self" /\ SlotShape(AdminData)
    BY AdminView
  <1>2. SlotShape(SlotWriteAt(AdminData, slot, AdminOffset))
    BY <1>1, SlotWritten
  <1>3. AdminWritten(slot)
          = PostState(A, SlotWriteAt(AdminData, slot, AdminOffset))
    BY DEF AdminWritten, A
  <1> QED
    BY <1>1, <1>2, <1>3 DEF SlotShape, NewData

\* A nomination, by the holder or by the admin.
LEMMA NominateLands ==
    ASSUME ChainInv, NEW caller \in Ids, NEW next \in AccountId,
           Lands(freeze_authority_nominate(caller, next))
    PROVE  /\ ChainInv' /\ UNCHANGED ValueRecord
           /\ Records!freeze_authority_nominate(caller, next)
  <1> DEFINE result == Perform(DualPath(AdminOrNone, LoadedConfig, Caller(caller)))
             new == Nominate(LoadedConfig, next)
             data == WriteToAt(ConfigData, new, FreezeOffset)
             post == Written(new)
  <1>1. freeze_authority_nominate(caller, next)
          = Call(<<A, C, caller>>, {caller}, result,
                 <<Unchanged(A), post, Unchanged(caller)>>)
    BY Layout, LongerTuples DEF freeze_authority_nominate, ConfigPair, PostStatePair, A, C
  <1>2. result = Ok
    BY <1>1, LandsOk
  <1>3. FreezeConfigResult = Ok
        /\ DualPath(AdminOrNone, LoadedConfig, Caller(caller)) = Ok
    BY <1>2, ThenOk DEF Perform
  <1>5. LoadedConfig = ConfigRecord /\ new \in FreezeConfigs /\ ConfigRecord # NoData
    BY <1>3, ConfigView, UpdatesKeepRecords, Layout
  <1> HIDE DEF result, new
  <1>6. data \in Seq(Cells) /\ NewData(C, post, data)
    BY <1>3, <1>5, FreezeAnswer
  <1> HIDE DEF data, post
  <1>7. Rewrites({caller}, {caller}, C, data)
    <2>1. ChainTypeOK /\ C \in Names \ Ids /\ A \in Names \ Ids
      BY Places DEF ChainInv
    <2> QED
      BY <1>1, <1>6, <2>1, WritesSecond
  <1>8. /\ ChainInv' /\ Records!Lands({caller}, {caller})
        /\ ConfigRecord' = new
        /\ UNCHANGED <<AdminRecord, ValueRecord, MarkerRecords>>
    BY <1>3, <1>5, <1>7, FreezeWrite DEF data
  <1>9. Records!freeze_authority_nominate_result(caller) = Ok
    <2>1. Records!Gate("freeze_authority_nominate", caller) = Ok
      BY RecordsUngated DEF Records!FreezeExempt, Records!MarkedExempt
    <2>2. Records!FromAccount(ConfigRecord) = Ok
      BY <1>5 DEF Records!FromAccount, Records!Check, Records!Ok, Ok
    <2>3. Records!DualPath(AdminRecord, ConfigRecord, Records!Caller(caller)) = Ok
      BY <1>3, <1>5, SameChecks, SameAccount, AdminSeen
    <2> QED
      BY <2>1, <2>2, <2>3, SameChecks, ThenOk
         DEF Records!freeze_authority_nominate_result
  <1>10. new = Records!Nominate(ConfigRecord, next)
    BY <1>5, SameUpdates DEF new
  <1> QED
    BY <1>8, <1>9, <1>10, SameChecks
       DEF Records!freeze_authority_nominate, Records!freezeVars

\* A renunciation.
LEMMA RenounceLands ==
    ASSUME ChainInv, NEW caller \in Ids,
           Lands(freeze_authority_renounce(caller))
    PROVE  /\ ChainInv' /\ UNCHANGED ValueRecord
           /\ Records!freeze_authority_renounce(caller)
  <1> DEFINE result == Perform(DualPath(AdminOrNone, LoadedConfig, Caller(caller)))
             new == Renounce(LoadedConfig)
             data == WriteToAt(ConfigData, new, FreezeOffset)
             post == Written(new)
  <1>1. freeze_authority_renounce(caller)
          = Call(<<A, C, caller>>, {caller}, result,
                 <<Unchanged(A), post, Unchanged(caller)>>)
    BY Layout, LongerTuples DEF freeze_authority_renounce, ConfigPair, PostStatePair, A, C
  <1>2. result = Ok
    BY <1>1, LandsOk
  <1>3. FreezeConfigResult = Ok
        /\ DualPath(AdminOrNone, LoadedConfig, Caller(caller)) = Ok
    BY <1>2, ThenOk DEF Perform
  <1>5. LoadedConfig = ConfigRecord /\ new \in FreezeConfigs /\ ConfigRecord # NoData
    BY <1>3, ConfigView, UpdatesKeepRecords, Layout
  <1> HIDE DEF result, new
  <1>6. data \in Seq(Cells) /\ NewData(C, post, data)
    BY <1>3, <1>5, FreezeAnswer
  <1> HIDE DEF data, post
  <1>7. Rewrites({caller}, {caller}, C, data)
    <2>1. ChainTypeOK /\ C \in Names \ Ids /\ A \in Names \ Ids
      BY Places DEF ChainInv
    <2> QED
      BY <1>1, <1>6, <2>1, WritesSecond
  <1>8. /\ ChainInv' /\ Records!Lands({caller}, {caller})
        /\ ConfigRecord' = new
        /\ UNCHANGED <<AdminRecord, ValueRecord, MarkerRecords>>
    BY <1>3, <1>5, <1>7, FreezeWrite DEF data
  <1>9. Records!freeze_authority_renounce_result(caller) = Ok
    <2>1. Records!Gate("freeze_authority_renounce", caller) = Ok
      BY RecordsUngated DEF Records!FreezeExempt, Records!MarkedExempt
    <2>2. Records!FromAccount(ConfigRecord) = Ok
      BY <1>5 DEF Records!FromAccount, Records!Check, Records!Ok, Ok
    <2>3. Records!DualPath(AdminRecord, ConfigRecord, Records!Caller(caller)) = Ok
      BY <1>3, <1>5, SameChecks, SameAccount, AdminSeen
    <2> QED
      BY <2>1, <2>2, <2>3, SameChecks, ThenOk
         DEF Records!freeze_authority_renounce_result
  <1>10. new = Records!Renounce(ConfigRecord)
    BY <1>5, SameUpdates DEF new
  <1> QED
    BY <1>8, <1>9, <1>10, SameChecks
       DEF Records!freeze_authority_renounce, Records!freezeVars

\* An acceptance: the admin has no say in it.
LEMMA AcceptLands ==
    ASSUME ChainInv, NEW caller \in Ids,
           Lands(freeze_authority_accept(caller))
    PROVE  /\ ChainInv' /\ UNCHANGED ValueRecord
           /\ Records!freeze_authority_accept(caller)
  <1> DEFINE result == Perform(AcceptResult(LoadedConfig, Caller(caller)))
             new == Accept(LoadedConfig)
             data == WriteToAt(ConfigData, new, FreezeOffset)
             post == Written(new)
  <1>1. freeze_authority_accept(caller)
          = Call(<<C, caller>>, {caller}, result,
                 <<post, Unchanged(caller)>>)
    BY DEF freeze_authority_accept, C
  <1>2. result = Ok
    BY <1>1, LandsOk
  <1>3. FreezeConfigResult = Ok /\ AcceptResult(LoadedConfig, Caller(caller)) = Ok
    BY <1>2, ThenOk DEF Perform
  <1>5. LoadedConfig = ConfigRecord /\ new \in FreezeConfigs /\ ConfigRecord # NoData
    BY <1>3, ConfigView, UpdatesKeepRecords, Layout
  <1> HIDE DEF result, new
  <1>6. data \in Seq(Cells) /\ NewData(C, post, data)
    BY <1>3, <1>5, FreezeAnswer
  <1> HIDE DEF data, post
  <1>7. Rewrites({caller}, {caller}, C, data)
    <2>1. ChainTypeOK /\ C \in Names \ Ids /\ A \in Names \ Ids
      BY Places DEF ChainInv
    <2> QED
      BY <1>1, <1>6, <2>1, WritesFirst
  <1>8. /\ ChainInv' /\ Records!Lands({caller}, {caller})
        /\ ConfigRecord' = new
        /\ UNCHANGED <<AdminRecord, ValueRecord, MarkerRecords>>
    BY <1>3, <1>5, <1>7, FreezeWrite DEF data
  <1>9. Records!freeze_authority_accept_result(caller) = Ok
    <2>1. Records!Gate("freeze_authority_accept", caller) = Ok
      BY RecordsUngated DEF Records!FreezeExempt, Records!MarkedExempt
    <2>2. Records!FromAccount(ConfigRecord) = Ok
      BY <1>5 DEF Records!FromAccount, Records!Check, Records!Ok, Ok
    <2>3. Records!AcceptResult(ConfigRecord, Records!Caller(caller)) = Ok
      BY <1>3, <1>5, SameChecks, SameAccount
    <2> QED
      BY <2>1, <2>2, <2>3, SameChecks, ThenOk
         DEF Records!freeze_authority_accept_result
  <1>10. new = Records!Accept(ConfigRecord)
    BY <1>5, SameUpdates DEF new
  <1> QED
    BY <1>8, <1>9, <1>10, SameChecks
       DEF Records!freeze_authority_accept, Records!freezeVars

\* A freeze of the program, past the gate.
LEMMA FreezeProgramLands ==
    ASSUME ChainInv, NEW caller \in Ids,
           Lands(freeze_program(caller))
    PROVE  /\ ChainInv' /\ UNCHANGED ValueRecord
           /\ Records!freeze_program(caller)
  <1> DEFINE result == RequireNotFrozen(caller)
                         ?? Perform(AssertHolder(LoadedConfig, Caller(caller)))
             new == SetIsFrozen(LoadedConfig, TRUE)
             data == WriteToAt(ConfigData, new, FreezeOffset)
             post == Written(new)
  <1>1. freeze_program(caller)
          = Call(<<C, Marker(caller), caller>>, {caller}, result,
                 <<post, Unchanged(Marker(caller)), Unchanged(caller)>>)
    BY Layout DEF freeze_program, C
  <1>2. result = Ok
    BY <1>1, LandsOk
  <1>3. RequireNotFrozen(caller) = Ok /\ FreezeConfigResult = Ok
        /\ AssertHolder(LoadedConfig, Caller(caller)) = Ok
    BY <1>2, ThenOk DEF Perform
  <1>5. LoadedConfig = ConfigRecord /\ new \in FreezeConfigs /\ ConfigRecord # NoData
    BY <1>3, ConfigView, UpdatesKeepRecords, Layout
  <1> HIDE DEF result, new
  <1>6. data \in Seq(Cells) /\ NewData(C, post, data)
    BY <1>3, <1>5, FreezeAnswer
  <1> HIDE DEF data, post
  <1>7. Rewrites({caller}, {caller}, C, data)
    <2>1. ChainTypeOK /\ C \in Names \ Ids /\ Marker(caller) \in Names \ Ids
      BY Places DEF ChainInv
    <2> QED
      BY <1>1, <1>6, <2>1, WritesFirstOfMarked
  <1>8. /\ ChainInv' /\ Records!Lands({caller}, {caller})
        /\ ConfigRecord' = new
        /\ UNCHANGED <<AdminRecord, ValueRecord, MarkerRecords>>
    BY <1>3, <1>5, <1>7, FreezeWrite DEF data
  <1>9. Records!freeze_program_result(caller) = Ok
    <2>1. Records!Gate("freeze_program", caller) = Ok
      BY <1>3, SameGate
    <2>2. Records!FromAccount(ConfigRecord) = Ok
      BY <1>5 DEF Records!FromAccount, Records!Check, Records!Ok, Ok
    <2>3. Records!AssertHolder(ConfigRecord, Records!Caller(caller)) = Ok
      BY <1>3, <1>5, SameChecks, SameAccount
    <2> QED
      BY <2>1, <2>2, <2>3, SameChecks, ThenOk
         DEF Records!freeze_program_result
  <1>10. new = Records!SetIsFrozen(ConfigRecord, TRUE)
    BY <1>5, SameUpdates DEF new
  <1> QED
    BY <1>8, <1>9, <1>10, SameChecks
       DEF Records!freeze_program, Records!freezeVars

\* Its release, past no gate.
LEMMA ReleaseProgramLands ==
    ASSUME ChainInv, NEW caller \in Ids,
           Lands(freeze_program_release(caller))
    PROVE  /\ ChainInv' /\ UNCHANGED ValueRecord
           /\ Records!freeze_program_release(caller)
  <1> DEFINE result == Perform(AssertHolder(LoadedConfig, Caller(caller)))
             new == SetIsFrozen(LoadedConfig, FALSE)
             data == WriteToAt(ConfigData, new, FreezeOffset)
             post == Written(new)
  <1>1. freeze_program_release(caller)
          = Call(<<C, caller>>, {caller}, result,
                 <<post, Unchanged(caller)>>)
    BY DEF freeze_program_release, C
  <1>2. result = Ok
    BY <1>1, LandsOk
  <1>3. FreezeConfigResult = Ok /\ AssertHolder(LoadedConfig, Caller(caller)) = Ok
    BY <1>2, ThenOk DEF Perform
  <1>5. LoadedConfig = ConfigRecord /\ new \in FreezeConfigs /\ ConfigRecord # NoData
    BY <1>3, ConfigView, UpdatesKeepRecords, Layout
  <1> HIDE DEF result, new
  <1>6. data \in Seq(Cells) /\ NewData(C, post, data)
    BY <1>3, <1>5, FreezeAnswer
  <1> HIDE DEF data, post
  <1>7. Rewrites({caller}, {caller}, C, data)
    <2>1. ChainTypeOK /\ C \in Names \ Ids /\ A \in Names \ Ids
      BY Places DEF ChainInv
    <2> QED
      BY <1>1, <1>6, <2>1, WritesFirst
  <1>8. /\ ChainInv' /\ Records!Lands({caller}, {caller})
        /\ ConfigRecord' = new
        /\ UNCHANGED <<AdminRecord, ValueRecord, MarkerRecords>>
    BY <1>3, <1>5, <1>7, FreezeWrite DEF data
  <1>9. Records!freeze_program_release_result(caller) = Ok
    <2>1. Records!Gate("freeze_program_release", caller) = Ok
      BY RecordsUngated DEF Records!FreezeExempt, Records!MarkedExempt
    <2>2. Records!FromAccount(ConfigRecord) = Ok
      BY <1>5 DEF Records!FromAccount, Records!Check, Records!Ok, Ok
    <2>3. Records!AssertHolder(ConfigRecord, Records!Caller(caller)) = Ok
      BY <1>3, <1>5, SameChecks, SameAccount
    <2> QED
      BY <2>1, <2>2, <2>3, SameChecks, ThenOk
         DEF Records!freeze_program_release_result
  <1>10. new = Records!SetIsFrozen(ConfigRecord, FALSE)
    BY <1>5, SameUpdates DEF new
  <1> QED
    BY <1>8, <1>9, <1>10, SameChecks
       DEF Records!freeze_program_release, Records!freezeVars

\* A transfer, to an account that comes along.
LEMMA TransferLands ==
    ASSUME ChainInv, NEW caller \in Ids, NEW to \in Ids,
           NEW candidate \in Candidates, NEW cosigns \in BOOLEAN,
           Lands(freeze_authority_transfer(caller, to, candidate, cosigns))
    PROVE  /\ ChainInv' /\ UNCHANGED ValueRecord
           /\ Records!freeze_authority_transfer(caller, to, candidate, cosigns)
  <1> DEFINE result == RequireAdmin(caller)
                         ?? Perform(TransferResult(candidate, AccountOf(to, cosigns)))
             new == Transfer(LoadedConfig, to)
             data == WriteToAt(ConfigData, new, FreezeOffset)
             post == Written(new)
             signers == IF cosigns THEN {caller, to} ELSE {caller}
  <1>1. freeze_authority_transfer(caller, to, candidate, cosigns)
          = Call(<<A, C, caller, to>>, signers, result,
                 <<Unchanged(A), post, Unchanged(caller), Unchanged(to)>>)
    BY Layout, LongerTuples
       DEF freeze_authority_transfer, ConfigPair, PostStatePair, A, C
  <1>2. result = Ok
    BY <1>1, LandsOk
  <1>3. RequireAdmin(caller) = Ok /\ FreezeConfigResult = Ok
        /\ TransferResult(candidate, AccountOf(to, cosigns)) = Ok
    BY <1>2, ThenOk DEF Perform
  <1>4. Records!RequireAdmin(caller) = Ok
    BY <1>3, SameAdmin
  <1>5. LoadedConfig = ConfigRecord /\ new \in FreezeConfigs /\ ConfigRecord # NoData
    BY <1>3, ConfigView, UpdatesKeepRecords, Layout
  <1>6. signers \in SUBSET {caller, to}
    OBVIOUS
  <1> HIDE DEF result, new
  <1>7. data \in Seq(Cells) /\ NewData(C, post, data)
    BY <1>3, <1>5, FreezeAnswer
  <1> HIDE DEF data, post
  <1>8. to # caller /\ Rewrites({caller, to}, signers, C, data)
    <2>1. ChainTypeOK /\ A \in Names \ Ids /\ C \in Names \ Ids
      BY Places DEF ChainInv
    <2>2. Lands(Call(<<A, C, caller, to>>,
                     IF cosigns THEN {caller, to} ELSE {caller}, result,
                     <<Unchanged(A), post, Unchanged(caller), Unchanged(to)>>))
      BY <1>1
    <2>3. /\ to # caller
          /\ Rewrites({caller, to},
                      IF cosigns THEN {caller, to} ELSE {caller}, C, data)
      <3> HIDE DEF signers
      <3> QED
        BY <1>7, <2>1, <2>2, WritesSecondWithNew
    <2> QED
      BY <2>3
  <1> HIDE DEF signers
  <1>9. /\ ChainInv' /\ Records!Lands({caller, to}, signers)
        /\ ConfigRecord' = new
        /\ UNCHANGED <<AdminRecord, ValueRecord, MarkerRecords>>
    BY <1>3, <1>5, <1>6, <1>8, FreezeWrite DEF data
  <1>10. Records!freeze_authority_transfer_result(caller, to, candidate, cosigns)
           = Ok
    <2>1. Records!Gate("freeze_authority_transfer", caller) = Ok
      BY RecordsUngated DEF Records!FreezeExempt, Records!MarkedExempt
    <2>2. Records!FromAccount(ConfigRecord) = Ok
      BY <1>5 DEF Records!FromAccount, Records!Check, Records!Ok, Ok
    <2>3. Records!AdminFromAccount(AdminRecord) = Ok
          /\ Records!AssertAdmin(AdminRecord, Records!Caller(caller)) = Ok
      BY <1>4, SameChecks, ThenOk DEF Records!RequireAdmin
    <2>4. Records!TransferResult(candidate, Records!AccountOf(to, cosigns)) = Ok
      BY <1>3, SameChecks, SameAccount
    <2> QED
      BY <2>1, <2>2, <2>3, <2>4, SameChecks, ThenOk
         DEF Records!freeze_authority_transfer_result
  <1>11. new = Records!Transfer(ConfigRecord, to)
    BY <1>5, SameUpdates DEF new
  <1> QED
    BY <1>8, <1>9, <1>10, <1>11, SameChecks
       DEF Records!freeze_authority_transfer, Records!freezeVars, signers

\* A freeze of an account, whose marker may not exist yet.
LEMMA FreezeAccountLands ==
    ASSUME ChainInv, NEW caller \in Ids, NEW target \in Ids,
           Lands(freeze_account(caller, target))
    PROVE  /\ ChainInv' /\ UNCHANGED ValueRecord
           /\ Records!freeze_account(caller, target)
  <1> DEFINE result == FreezeConfigResult
                         ?? MarkerResult(account[Marker(target)].data)
                         ?? PerformFreezeResult(LoadedConfig, Caller(caller))
             bytes == MarkerBytes(TRUE)
             post == MarkerPostState(target, bytes)
             M == Marker(target)
  <1>1. freeze_account(caller, target)
          = Call(<<C, M, caller>>, {caller}, result,
                 <<Unchanged(C), post, Unchanged(caller)>>)
    BY DEF freeze_account, C
  <1>2. result = Ok
    BY <1>1, LandsOk
  <1>3. FreezeConfigResult = Ok /\ AssertHolder(LoadedConfig, Caller(caller)) = Ok
    BY <1>2, ThenOk DEF PerformFreezeResult
  <1>4. LoadedConfig = ConfigRecord /\ ConfigRecord # NoData
    BY <1>3, ConfigView
  <1>5. NewData(M, post, bytes)
    <2>1. account[M].data # <<>> => account[M].owner = "self"
      BY DEF ChainInv, MarkersInv, Default
    <2> HIDE DEF bytes
    <2> QED
      BY <2>1 DEF MarkerPostState, NewData
  <1>6. bytes \in Seq(Cells)
    BY FlagData
  <1> HIDE DEF result, post, bytes
  <1>7. Rewrites({caller}, {caller}, M, bytes)
    <2>1. ChainTypeOK /\ C \in Names \ Ids /\ M \in Names \ Ids
      BY Places DEF ChainInv
    <2> HIDE DEF M
    <2> QED
      BY <1>1, <1>5, <1>6, <2>1, WritesSecond
  <1>8. /\ ChainInv' /\ Records!Lands({caller}, {caller})
        /\ UNCHANGED <<AdminRecord, ConfigRecord, ValueRecord>>
        /\ MarkerRecords'
             = [MarkerRecords EXCEPT ![target] = [is_frozen |-> TRUE]]
    BY <1>7, MarkerRewritten DEF bytes
  <1>9. Records!freeze_account_result(caller) = Ok
    <2>1. Records!Gate("freeze_account", caller) = Ok
      BY RecordsUngated DEF Records!FreezeExempt, Records!MarkedExempt
    <2>2. Records!FromAccount(ConfigRecord) = Ok
      BY <1>4 DEF Records!FromAccount, Records!Check, Records!Ok, Ok
    <2>3. Records!PerformFreezeResult(ConfigRecord, Records!Caller(caller)) = Ok
      BY <1>3, <1>4, SameChecks, SameAccount DEF Records!PerformFreezeResult
    <2> QED
      BY <2>1, <2>2, <2>3, SameChecks, ThenOk DEF Records!freeze_account_result
  <1> QED
    BY <1>8, <1>9, SameChecks DEF Records!freeze_account

\* A release of an account, whose marker is the program's.
LEMMA ReleaseAccountLands ==
    ASSUME ChainInv, NEW caller \in Ids, NEW target \in Ids,
           Lands(freeze_account_release(caller, target))
    PROVE  /\ ChainInv' /\ UNCHANGED ValueRecord
           /\ Records!freeze_account_release(caller, target)
  <1> DEFINE state == MarkerState(account[Marker(target)].data)
             result == FreezeConfigResult
                         ?? AssertHolder(LoadedConfig, Caller(caller))
                         ?? MarkerResult(account[Marker(target)].data)
                         ?? PerformReleaseResult(LoadedConfig, state, Caller(caller))
             bytes == MarkerBytes(FALSE)
             M == Marker(target)
             post == PostState(M, bytes)
  <1>1. freeze_account_release(caller, target)
          = Call(<<C, M, caller>>, {caller}, result,
                 <<Unchanged(C), post, Unchanged(caller)>>)
    BY DEF freeze_account_release, C
  <1>2. result = Ok
    BY <1>1, LandsOk
  <1>3. /\ FreezeConfigResult = Ok
        /\ AssertHolder(LoadedConfig, Caller(caller)) = Ok
        /\ FromDataOrDefault(state).is_frozen
    BY <1>2, ThenOk DEF PerformReleaseResult, Check, Ok
  <1>4. LoadedConfig = ConfigRecord /\ ConfigRecord # NoData
        /\ MarkerRecords[target] = state
    BY <1>3, ConfigView, MarkerView
  <1>5. NewData(M, post, bytes)
    <2>1. account[M].data # <<>>
      BY <1>3 DEF FromDataOrDefault, MarkerState
    <2>2. account[M].owner = "self"
      BY <2>1 DEF ChainInv, MarkersInv, Default
    <2> QED
      BY <2>2 DEF NewData
  <1>6. bytes \in Seq(Cells)
    BY FlagData
  <1> HIDE DEF result, post, bytes, state
  <1>7. Rewrites({caller}, {caller}, M, bytes)
    <2>1. ChainTypeOK /\ C \in Names \ Ids /\ M \in Names \ Ids
      BY Places DEF ChainInv
    <2> HIDE DEF M
    <2> QED
      BY <1>1, <1>5, <1>6, <2>1, WritesSecond
  <1>8. /\ ChainInv' /\ Records!Lands({caller}, {caller})
        /\ UNCHANGED <<AdminRecord, ConfigRecord, ValueRecord>>
        /\ MarkerRecords'
             = [MarkerRecords EXCEPT ![target] = [is_frozen |-> FALSE]]
    BY <1>7, MarkerRewritten DEF bytes
  <1>9. Records!freeze_account_release_result(caller, target) = Ok
    <2>1. Records!Gate("freeze_account_release", caller) = Ok
      BY RecordsUngated DEF Records!FreezeExempt, Records!MarkedExempt
    <2>2. Records!FromAccount(ConfigRecord) = Ok
      BY <1>4 DEF Records!FromAccount, Records!Check, Records!Ok, Ok
    <2>3. Records!AssertHolder(ConfigRecord, Records!Caller(caller)) = Ok
      BY <1>3, <1>4, SameChecks, SameAccount
    <2>4. Records!Check(Records!FromDataOrDefault(MarkerRecords[target]).is_frozen,
                        "AccountNotFrozen") = Ok
      BY <1>3, <1>4, SameUpdates DEF Records!Check, Records!Ok, Ok
    <2> QED
      BY <2>1, <2>2, <2>3, <2>4, SameChecks, ThenOk
         DEF Records!freeze_account_release_result, Records!PerformReleaseResult
  <1> QED
    BY <1>8, <1>9, SameChecks DEF Records!freeze_account_release

\* The config comes into being, on the admin's signature.
LEMMA FreezeInitializeLands ==
    ASSUME ChainInv, NEW caller \in Ids, Lands(freeze_initialize(caller))
    PROVE  /\ ChainInv' /\ UNCHANGED ValueRecord
           /\ Records!freeze_initialize(caller)
  <1> DEFINE by == [kind |-> "Signer", derived |-> NoId]
             result == Check(account[ConfigAccount] = Default,
                             "AccountAlreadyInitialized")
                         ?? RequireAdmin(caller)
                         ?? BootstrapResult(by, Caller(caller))
             data == Encode(Bootstrap(caller))
             post == Claimed(C, data)
  <1>1. freeze_initialize(caller)
          = Call(<<A, caller, C>>, {caller}, result,
                 <<Unchanged(A), Unchanged(caller), post>>)
    BY DEF freeze_initialize, A, C
  <1>2. result = Ok
    BY <1>1, LandsOk
  <1>3. /\ account[C] = Default /\ RequireAdmin(caller) = Ok
        /\ TransferResult(by, Caller(caller)) = Ok
    BY <1>2, ThenOk DEF Check, Ok, C, BootstrapResult, TransferResult
  <1>4. Records!RequireAdmin(caller) = Ok
    BY <1>3, SameAdmin
  <1>5. /\ ConfigShape(data) /\ data \in Seq(Cells)
        /\ DecodeAt(data, FreezeOffset) = Bootstrap(caller)
    BY Born DEF ConfigShape
  <1> HIDE DEF result, data, by
  <1>6. NewData(C, post, data)
    BY DEF NewData
  <1> HIDE DEF post
  <1>7. Rewrites({caller}, {caller}, C, data)
    <2>1. ChainTypeOK /\ A \in Names \ Ids /\ C \in Names \ Ids
      BY Places DEF ChainInv
    <2> QED
      BY <1>1, <1>5, <1>6, <2>1, WritesThird
  <1>8. /\ ChainInv' /\ Records!Lands({caller}, {caller})
        /\ ConfigRecord' = Bootstrap(caller)
        /\ UNCHANGED <<AdminRecord, ValueRecord, MarkerRecords>>
    BY <1>5, <1>7, ConfigRewritten
  <1>9. Records!freeze_initialize_result(caller) = Ok
    <2>1. Records!Gate("freeze_initialize", caller) = Ok
      BY RecordsUngated DEF Records!FreezeExempt, Records!MarkedExempt
    <2>2. Records!Check(ConfigRecord = NoData, "AccountAlreadyInitialized") = Ok
      BY <1>3, NoView DEF Records!Check, Records!Ok, Ok
    <2>3. Records!BootstrapResult(Records!ByCaller, Records!Caller(caller)) = Ok
      <3>1. Records!TransferResult(by, Records!Caller(caller)) = Ok
        BY <1>3, SameChecks, SameAccount
      <3>2. Records!ByCaller = by
        BY DEF Records!ByCaller, by
      <3> QED
        BY <3>1, <3>2 DEF Records!BootstrapResult, Records!TransferResult
    <2> QED
      BY <1>4, <2>1, <2>2, <2>3, SameChecks, ThenOk
         DEF Records!freeze_initialize_result
  <1>10. Bootstrap(caller) = Records!Bootstrap(caller)
    BY DEF Bootstrap, Records!Bootstrap, SlotInitialize, Records!SlotInitialize
  <1> QED
    BY <1>8, <1>9, <1>10, SameChecks DEF Records!freeze_initialize

\* The admin's account comes into being, on anybody's.
LEMMA AdminInitializeLands ==
    ASSUME ChainInv, NEW caller \in Ids, Lands(admin_initialize(caller))
    PROVE  /\ ChainInv' /\ UNCHANGED ValueRecord
           /\ Records!AdminInitialization
  <1> DEFINE by == [kind |-> "Signer", derived |-> NoId]
             result == Check(account[AdminAccount] = Default,
                             "AccountAlreadyInitialized")
                         ?? Validate(by, Caller(caller))
                         ?? SlotInitializeResult(caller)
             data == SlotBytes(SlotInitialize(caller))
             post == Claimed(A, data)
  <1>1. admin_initialize(caller)
          = Call(<<A, caller>>, {caller}, result, <<post, Unchanged(caller)>>)
    BY DEF admin_initialize, A
  <1>2. result = Ok
    BY <1>1, LandsOk
  <1>3. /\ account[A] = Default /\ Validate(by, Caller(caller)) = Ok
        /\ SlotInitializeResult(caller) = Ok
    BY <1>2, ThenOk DEF Check, Ok, A
  <1>4. SlotShape(data) /\ data \in Seq(Cells) /\ data[1] = caller
    BY Born DEF SlotShape
  <1> HIDE DEF result, data
  <1>5. NewData(A, post, data)
    BY DEF NewData
  <1> HIDE DEF post
  <1>6. Rewrites({caller}, {caller}, A, data)
    <2>1. ChainTypeOK /\ A \in Names \ Ids
      BY Places DEF ChainInv
    <2> QED
      BY <1>1, <1>4, <1>5, <2>1, WritesFirst
  <1>7. /\ ChainInv' /\ Records!Lands({caller}, {caller})
        /\ AdminRecord' = caller
        /\ UNCHANGED <<ConfigRecord, ValueRecord, MarkerRecords>>
    BY <1>4, <1>6, AdminRewritten
  <1>8. Records!AdminBootstrapResult(caller) = Ok
    <2>1. /\ Records!Validate(by, Records!Caller(caller)) = Ok
          /\ Records!SlotInitializeResult(caller) = Ok
      BY <1>3, SameChecks, SameAccount
    <2> QED
      BY <2>1, SameChecks, ThenOk DEF Records!AdminBootstrapResult
  <1>9. Records!admin_initialize(caller)
    BY <1>3, <1>7, <1>8, NoView, SameChecks DEF Records!admin_initialize
  <1>10. Records!Gate("admin_initialize", caller) = Records!Ok
    BY AdminUngated, SameChecks
  <1> QED
    BY <1>7, <1>9, <1>10 DEF Records!AdminInitialization, Records!freezeVars

\* A transfer of the admin role.
LEMMA AdminTransferLands ==
    ASSUME ChainInv, NEW caller \in Ids, NEW to \in Ids,
           NEW candidate \in Candidates, NEW cosigns \in BOOLEAN,
           Lands(admin_transfer(caller, to, candidate, cosigns))
    PROVE  /\ ChainInv' /\ UNCHANGED ValueRecord
           /\ Records!AdminManagement
  <1> DEFINE result == RequireAdmin(caller)
                         ?? Validate(candidate, AccountOf(to, cosigns))
             slot == SlotTransfer(AdminSlot, to)
             data == SlotWriteAt(AdminData, slot, AdminOffset)
             post == AdminWritten(slot)
             signers == IF cosigns THEN {caller, to} ELSE {caller}
  <1>1. admin_transfer(caller, to, candidate, cosigns)
          = Call(<<A, caller, to>>, signers, result,
                 <<post, Unchanged(caller), Unchanged(to)>>)
    BY DEF admin_transfer, A
  <1>2. result = Ok
    BY <1>1, LandsOk
  <1>3. RequireAdmin(caller) = Ok /\ Validate(candidate, AccountOf(to, cosigns)) = Ok
    BY <1>2, ThenOk
  <1>4. AdminData # <<>> /\ AdminSlot \in Slots /\ Records!RequireAdmin(caller) = Ok
    BY <1>3, SameAdmin
  <1>5. slot \in Slots /\ slot.holder = to /\ to # NoId
    BY <1>4, AdminSlots, Layout
  <1>6. signers \in SUBSET {caller, to}
    OBVIOUS
  <1> HIDE DEF result, slot
  <1>7. data \in Seq(Cells) /\ NewData(A, post, data)
    BY <1>4, <1>5, AdminAnswer
  <1> HIDE DEF data, post
  <1>8. to # caller /\ Rewrites({caller, to}, signers, A, data)
    <2>1. ChainTypeOK /\ A \in Names \ Ids
      BY Places DEF ChainInv
    <2>2. Lands(Call(<<A, caller, to>>,
                     IF cosigns THEN {caller, to} ELSE {caller}, result,
                     <<post, Unchanged(caller), Unchanged(to)>>))
      BY <1>1
    <2>3. /\ to # caller
          /\ Rewrites({caller, to},
                      IF cosigns THEN {caller, to} ELSE {caller}, A, data)
      <3> HIDE DEF signers
      <3> QED
        BY <1>7, <2>1, <2>2, WritesFirstWithNew
    <2> QED
      BY <2>3
  <1> HIDE DEF signers
  <1>9. /\ ChainInv' /\ Records!Lands({caller, to}, signers)
        /\ AdminRecord' = to
        /\ UNCHANGED <<ConfigRecord, ValueRecord, MarkerRecords>>
    BY <1>4, <1>5, <1>6, <1>8, AdminWrite DEF data
  <1>10. Records!admin_transfer(caller, to, candidate, cosigns)
    BY <1>3, <1>4, <1>8, <1>9, SameChecks, SameAccount
       DEF Records!admin_transfer, signers
  <1>11. Records!Gate("admin_transfer", caller) = Records!Ok
    BY AdminUngated, SameChecks
  <1>12. candidate \in Records!Candidates
    BY DEF Records!Candidates, Candidates
  <1> QED
    BY <1>9, <1>10, <1>11, <1>12 DEF Records!AdminManagement, Records!freezeVars

\* A nomination for the admin role: the records do not show it.
LEMMA AdminNominateLands ==
    ASSUME ChainInv, NEW caller \in Ids, NEW next \in AccountId,
           Lands(admin_nominate(caller, next))
    PROVE  /\ ChainInv' /\ UNCHANGED ValueRecord
           /\ Records!Elsewhere
  <1> DEFINE slot == SlotNominate(AdminSlot, next)
             data == SlotWriteAt(AdminData, slot, AdminOffset)
             post == AdminWritten(slot)
  <1>1. admin_nominate(caller, next)
          = Call(<<A, caller>>, {caller}, RequireAdmin(caller),
                 <<post, Unchanged(caller)>>)
    BY DEF admin_nominate, A
  <1>2. RequireAdmin(caller) = Ok
    BY <1>1, LandsOk
  <1>3. AdminData # <<>> /\ AdminSlot \in Slots /\ AdminSlot.holder = caller
    BY <1>2, SameAdmin
  <1>4. slot \in Slots /\ slot.holder = caller /\ caller # NoId
    BY <1>3, AdminSlots, Layout
  <1> HIDE DEF slot
  <1>5. data \in Seq(Cells) /\ NewData(A, post, data)
    BY <1>3, <1>4, AdminAnswer
  <1> HIDE DEF data, post
  <1>6. Rewrites({caller}, {caller}, A, data)
    <2>1. ChainTypeOK /\ A \in Names \ Ids
      BY Places DEF ChainInv
    <2> QED
      BY <1>1, <1>5, <2>1, WritesFirst
  <1>7. /\ ChainInv' /\ Records!Lands({caller}, {caller})
        /\ AdminRecord' = caller
        /\ UNCHANGED <<ConfigRecord, ValueRecord, MarkerRecords>>
    BY <1>3, <1>4, <1>6, AdminWrite DEF data
  <1>8. AdminRecord = caller
    BY <1>3, AdminView
  <1> QED
    BY <1>7, <1>8
       DEF Records!Elsewhere, Records!OtherTransaction, Records!freezeVars

\* An acceptance of the admin role. There is an admin then: a renounced slot
\* has no nominee.
LEMMA AdminAcceptLands ==
    ASSUME ChainInv, NEW caller \in Ids, Lands(admin_accept(caller))
    PROVE  /\ ChainInv' /\ UNCHANGED ValueRecord
           /\ Records!AdminManagement
  <1> DEFINE result == AdminConfigResult
                         ?? SlotAcceptResult(AdminSlot, Caller(caller))
             slot == SlotAccept(AdminSlot)
             data == SlotWriteAt(AdminData, slot, AdminOffset)
             post == AdminWritten(slot)
  <1>1. admin_accept(caller)
          = Call(<<A, caller>>, {caller}, result, <<post, Unchanged(caller)>>)
    BY DEF admin_accept, A
  <1>2. result = Ok
    BY <1>1, LandsOk
  <1>3. /\ AdminConfigResult = Ok
        /\ AdminSlot.nominee # NoId /\ AdminSlot.nominee = caller
        /\ account[caller].owner # "default"
    <2> DEFINE signer == Caller(caller)
    <2>1. AdminConfigResult = Ok /\ SlotAcceptResult(AdminSlot, signer) = Ok
      BY <1>2, ThenOk
    <2>2. signer.account_id = caller
          /\ (signer.owned => account[caller].owner # "default")
      BY DEF Caller, AccountOf
    <2> HIDE DEF signer
    <2>3. /\ AdminSlot.nominee # NoId
          /\ signer.account_id = AdminSlot.nominee /\ signer.owned
      BY <2>1, ThenOk DEF SlotAcceptResult, Check, Ok
    <2> QED
      BY <2>1, <2>2, <2>3
  <1>4. AdminData # <<>>
    BY <1>3, AdminSeen
  <1>5. /\ AdminSlot \in Slots /\ AdminRecord = AdminSlot.holder
        /\ AdminSlot.holder # NoId
    BY <1>3, <1>4, AdminView
  <1>6. slot \in Slots /\ slot.holder = caller /\ caller # NoId
    BY <1>3, <1>5, AdminSlots, Layout DEF Slots
  <1>7. AdminRecord \in Ids /\ caller \in OwnedKeys
    BY <1>3, <1>5 DEF Slots, AccountId, OwnedKeys
  <1> HIDE DEF result, slot
  <1>8. data \in Seq(Cells) /\ NewData(A, post, data)
    BY <1>4, <1>6, AdminAnswer
  <1> HIDE DEF data, post
  <1>9. Rewrites({caller}, {caller}, A, data)
    <2>1. ChainTypeOK /\ A \in Names \ Ids
      BY Places DEF ChainInv
    <2> QED
      BY <1>1, <1>8, <2>1, WritesFirst
  <1>10. /\ ChainInv' /\ Records!Lands({caller}, {caller})
         /\ AdminRecord' = caller
         /\ UNCHANGED <<ConfigRecord, ValueRecord, MarkerRecords>>
    BY <1>4, <1>6, <1>9, AdminWrite DEF data
  <1>11. Records!admin_accept(caller)
    BY <1>7, <1>10 DEF Records!admin_accept, Records!HasAdmin
  <1>12. Records!Gate("admin_accept", caller) = Records!Ok
    BY AdminUngated, SameChecks
  <1> QED
    BY <1>10, <1>11, <1>12 DEF Records!AdminManagement, Records!freezeVars

\* A renunciation of the admin role.
LEMMA AdminRenounceLands ==
    ASSUME ChainInv, NEW caller \in Ids, Lands(admin_renounce(caller))
    PROVE  /\ ChainInv' /\ UNCHANGED ValueRecord
           /\ Records!AdminManagement
  <1> DEFINE slot == SlotRenounce(AdminSlot)
             data == SlotWriteAt(AdminData, slot, AdminOffset)
             post == AdminWritten(slot)
  <1>1. admin_renounce(caller)
          = Call(<<A, caller>>, {caller}, RequireAdmin(caller),
                 <<post, Unchanged(caller)>>)
    BY DEF admin_renounce, A
  <1>2. RequireAdmin(caller) = Ok
    BY <1>1, LandsOk
  <1>3. AdminData # <<>> /\ AdminSlot \in Slots /\ Records!RequireAdmin(caller) = Ok
    BY <1>2, SameAdmin
  <1>4. slot \in Slots /\ slot.holder = NoId /\ slot.nominee = NoId
    BY <1>3, AdminSlots, Layout
  <1> HIDE DEF slot
  <1>5. data \in Seq(Cells) /\ NewData(A, post, data)
    BY <1>3, <1>4, AdminAnswer
  <1> HIDE DEF data, post
  <1>6. Rewrites({caller}, {caller}, A, data)
    <2>1. ChainTypeOK /\ A \in Names \ Ids
      BY Places DEF ChainInv
    <2> QED
      BY <1>1, <1>5, <2>1, WritesFirst
  <1>7. /\ ChainInv' /\ Records!Lands({caller}, {caller})
        /\ AdminRecord' = NoId
        /\ UNCHANGED <<ConfigRecord, ValueRecord, MarkerRecords>>
    BY <1>3, <1>4, <1>6, AdminWrite DEF data
  <1>8. Records!admin_renounce(caller)
    BY <1>3, <1>7, SameChecks DEF Records!admin_renounce
  <1>9. Records!Gate("admin_renounce", caller) = Records!Ok
    BY AdminUngated, SameChecks
  <1> QED
    BY <1>7, <1>8, <1>9 DEF Records!AdminManagement, Records!freezeVars

\* The program's own account comes into being, on the admin's signature.
LEMMA InitializeLands ==
    ASSUME ChainInv, NEW caller \in Ids, Lands(initialize(caller))
    PROVE  ChainInv' /\ Records!initialize(caller)
  <1> DEFINE result == Check(account[ProgramAccount] = Default,
                             "AccountAlreadyInitialized")
                         ?? RequireAdmin(caller)
             data == <<0>>
             post == Claimed(P, data)
  <1>1. initialize(caller)
          = Call(<<A, caller, P>>, {caller}, result,
                 <<Unchanged(A), Unchanged(caller), post>>)
    BY DEF initialize, A, P
  <1>2. result = Ok
    BY <1>1, LandsOk
  <1>3. account[P] = Default /\ Records!RequireAdmin(caller) = Ok
    BY <1>2, ThenOk, SameAdmin DEF Check, Ok, P
  <1>4. data \in Seq(Cells) /\ 0 \in Values
    BY Layout
  <1>5. NewData(P, post, data)
    BY DEF NewData
  <1> HIDE DEF result, data, post
  <1>6. Rewrites({caller}, {caller}, P, data)
    <2>1. ChainTypeOK /\ A \in Names \ Ids /\ P \in Names \ Ids
      BY Places DEF ChainInv
    <2> QED
      BY <1>1, <1>4, <1>5, <2>1, WritesThird
  <1>7. /\ ChainInv' /\ Records!Lands({caller}, {caller})
        /\ ValueRecord' = 0
        /\ UNCHANGED <<AdminRecord, ConfigRecord, MarkerRecords>>
    BY <1>4, <1>6, ProgramRewritten DEF data
  <1> QED
    BY <1>3, <1>7, NoView, SameChecks DEF Records!initialize, Records!freezeVars

\* A new value, past the gate.
LEMMA UpdateLands ==
    ASSUME ChainInv, NEW caller \in Ids, NEW value \in Values,
           Lands(update_value(caller, value))
    PROVE  ChainInv' /\ Records!update_value(caller, value)
  <1> DEFINE result == RequireNotFrozen(caller) ?? FromAccountResult
             data == <<value>>
             post == PostState(P, data)
             M == Marker(caller)
  <1>1. update_value(caller, value)
          = Call(<<C, M, caller, P>>, {caller}, result,
                 <<Unchanged(C), Unchanged(M), Unchanged(caller), post>>)
    BY DEF update_value, WriteTo, C, P
  <1>2. result = Ok
    BY <1>1, LandsOk
  <1>3. RequireNotFrozen(caller) = Ok /\ FromAccountResult = Ok
    BY <1>2, ThenOk
  <1>4. Records!RequireNotFrozen(caller) = Ok
    BY <1>3, SameGate
  <1>5. account[P].owner = "self" /\ ValueRecord # NoData
    BY <1>3, ProgramView
  <1>6. data \in Seq(Cells)
    BY Layout
  <1>7. NewData(P, post, data)
    BY <1>5 DEF NewData
  <1> HIDE DEF result, data, post
  <1>8. Rewrites({caller}, {caller}, P, data)
    <2>1. ChainTypeOK /\ C \in Names \ Ids /\ P \in Names \ Ids
          /\ M \in Names \ Ids
      BY Places DEF ChainInv
    <2> HIDE DEF M
    <2> QED
      BY <1>1, <1>6, <1>7, <2>1, WritesFourth
  <1>9. /\ ChainInv' /\ Records!Lands({caller}, {caller})
        /\ ValueRecord' = value
        /\ UNCHANGED <<AdminRecord, ConfigRecord, MarkerRecords>>
    BY <1>8, ProgramRewritten DEF data
  <1>10. Records!update_value_result(caller) = Ok
    <2>1. Records!Check(ValueRecord # NoData, "DecodingFailed") = Ok
      BY <1>5 DEF Records!Check, Records!Ok, Ok
    <2> QED
      BY <1>4, <2>1, SameChecks, ThenOk DEF Records!update_value_result
  <1> QED
    BY <1>9, <1>10, SameChecks DEF Records!update_value, Records!freezeVars

\* A transaction of another program.
LEMMA ElsewhereLands ==
    ASSUME ChainInv, NEW a \in Ids, OtherTransaction(a)
    PROVE  ChainInv' /\ UNCHANGED ValueRecord /\ Records!Elsewhere
  <1>1. PassesBy({a}, {a})
    BY OtherPassesBy DEF ChainInv
  <1>2. /\ ChainInv' /\ Records!Lands({a}, {a})
        /\ UNCHANGED <<AdminRecord, ConfigRecord, ValueRecord, MarkerRecords>>
    BY <1>1, PassedBy
  <1> QED
    BY <1>2 DEF Records!Elsewhere, Records!OtherTransaction, Records!freezeVars

\* An account of another program comes into being, maybe one that holds a
\* config of its own.
LEMMA AccountInitLands ==
    ASSUME ChainInv, NEW a \in Ids,
           AccountInit(a, IF a \in Pdas THEN LookAlike ELSE <<>>)
    PROVE  ChainInv' /\ UNCHANGED ValueRecord /\ Records!Elsewhere
  <1>1. (IF a \in Pdas THEN LookAlike ELSE <<>>) \in Seq(Cells)
    BY Layout DEF LookAlike, SlotBytes, Encode, FlagByte
  <1>2. /\ ChainTypeOK' /\ KeysInv'
        /\ \A b \in Names \ Ids : account'[b] = account[b]
        /\ a \notin OwnedKeys \cup SpentKeys /\ authorized' = {a}
        /\ OwnedKeys' = OwnedKeys \cup {a} /\ SpentKeys' = SpentKeys
    BY <1>1, KeyBorn DEF ChainInv
  <1>3. account'[A] = account[A] /\ account'[C] = account[C]
        /\ account'[P] = account[P]
        /\ \A b \in Ids : account'[Marker(b)] = account[Marker(b)]
    BY <1>2, Places
  <1>4. ChainInv'
        /\ UNCHANGED <<AdminRecord, ConfigRecord, ValueRecord, MarkerRecords>>
    BY <1>2, <1>3, Kept DEF ChainInv
  <1>5. Records!AccountInit(a)
    BY <1>2 DEF Records!AccountInit
  <1> QED
    BY <1>4, <1>5 DEF Records!Elsewhere, Records!freezeVars

----------------------------------------------------------------------------
(* Every step together. *)

\* Every step keeps the accounts well-formed, and is a step of the records.
LEMMA NextEffect ==
    ASSUME ChainInv, Next
    PROVE  ChainInv' /\ Records!Next
  <1>1. ASSUME NEW call \in RoleCalls, Lands(call)
        PROVE  ChainInv' /\ Records!Next
    <2>1. CASE call \in Transfers
      <3>1. PICK c \in Ids, n \in Ids, cand \in Candidates, s \in BOOLEAN :
                call = freeze_authority_transfer(c, n, cand, s)
        BY <2>1 DEF Transfers
      <3>2. /\ ChainInv' /\ UNCHANGED ValueRecord
            /\ Records!freeze_authority_transfer(c, n, cand, s)
        BY <1>1, <3>1, TransferLands
      <3>3. cand \in Records!Candidates
        BY DEF Records!Candidates, Candidates
      <3> QED
        BY <3>2, <3>3 DEF Records!Next, Records!NextExceptNomination,
                         Records!Library, Records!RoleChange
    <2>2. CASE \E c \in Ids : call = freeze_authority_renounce(c)
      <3>1. PICK c \in Ids : call = freeze_authority_renounce(c)
        BY <2>2
      <3>2. /\ ChainInv' /\ UNCHANGED ValueRecord
            /\ Records!freeze_authority_renounce(c)
        BY <1>1, <3>1, RenounceLands
      <3> QED
        BY <3>2 DEF Records!Next, Records!NextExceptNomination,
                         Records!Library, Records!RoleChange
    <2>3. CASE \E c \in Ids, n \in AccountId : call = freeze_authority_nominate(c, n)
      <3>1. PICK c \in Ids, n \in AccountId :
                call = freeze_authority_nominate(c, n)
        BY <2>3
      <3>2. /\ ChainInv' /\ UNCHANGED ValueRecord
            /\ Records!freeze_authority_nominate(c, n)
        BY <1>1, <3>1, NominateLands
      <3>3. n \in Records!AccountId
        BY DEF Records!AccountId, AccountId
      <3> QED
        BY <3>2, <3>3 DEF Records!Next, Records!Nomination
    <2>4. CASE \E c \in Ids : call = freeze_authority_accept(c)
      <3>1. PICK c \in Ids : call = freeze_authority_accept(c)
        BY <2>4
      <3>2. /\ ChainInv' /\ UNCHANGED ValueRecord
            /\ Records!freeze_authority_accept(c)
        BY <1>1, <3>1, AcceptLands
      <3> QED
        BY <3>2 DEF Records!Next, Records!NextExceptNomination,
                         Records!Library, Records!RoleChange
    <2> QED
      BY <2>1, <2>2, <2>3, <2>4 DEF RoleCalls
  <1>2. ASSUME NEW call \in BrakeCalls, Lands(call)
        PROVE  ChainInv' /\ Records!Next
    <2>1. CASE \E c \in Ids : call = freeze_program(c)
      <3>1. PICK c \in Ids : call = freeze_program(c)
        BY <2>1
      <3>2. /\ ChainInv' /\ UNCHANGED ValueRecord
            /\ Records!freeze_program(c)
        BY <1>2, <3>1, FreezeProgramLands
      <3> QED
        BY <3>2 DEF Records!Next, Records!NextExceptNomination,
                         Records!Library, Records!FreezeOrRelease
    <2>2. CASE \E c \in Ids : call = freeze_program_release(c)
      <3>1. PICK c \in Ids : call = freeze_program_release(c)
        BY <2>2
      <3>2. /\ ChainInv' /\ UNCHANGED ValueRecord
            /\ Records!freeze_program_release(c)
        BY <1>2, <3>1, ReleaseProgramLands
      <3> QED
        BY <3>2 DEF Records!Next, Records!NextExceptNomination,
                         Records!Library, Records!FreezeOrRelease
    <2>3. CASE \E c \in Ids, t \in Targets : call = freeze_account(c, t)
      <3>1. PICK c \in Ids, t \in Targets : call = freeze_account(c, t)
        BY <2>3
      <3>2. /\ ChainInv' /\ UNCHANGED ValueRecord
            /\ Records!freeze_account(c, t)
        BY <1>2, <3>1, FreezeAccountLands, LayoutAssumption
      <3> QED
        BY <3>2 DEF Records!Next, Records!NextExceptNomination,
                         Records!Library, Records!FreezeOrRelease
    <2>4. CASE \E c \in Ids, t \in Targets : call = freeze_account_release(c, t)
      <3>1. PICK c \in Ids, t \in Targets : call = freeze_account_release(c, t)
        BY <2>4
      <3>2. /\ ChainInv' /\ UNCHANGED ValueRecord
            /\ Records!freeze_account_release(c, t)
        BY <1>2, <3>1, ReleaseAccountLands, LayoutAssumption
      <3> QED
        BY <3>2 DEF Records!Next, Records!NextExceptNomination,
                         Records!Library, Records!FreezeOrRelease
    <2> QED
      BY <2>1, <2>2, <2>3, <2>4 DEF BrakeCalls
  <1>3. ASSUME NEW call \in AdminCalls, Lands(call)
        PROVE  ChainInv' /\ Records!Next
    <2>1. CASE \E c \in Ids, n \in Ids, cand \in Candidates, s \in BOOLEAN :
                   call = admin_transfer(c, n, cand, s)
      <3>1. PICK c \in Ids, n \in Ids, cand \in Candidates, s \in BOOLEAN :
                call = admin_transfer(c, n, cand, s)
        BY <2>1
      <3> QED
        BY <1>3, <3>1, AdminTransferLands
           DEF Records!Next, Records!NextExceptNomination, Records!Library
    <2>2. CASE \E c \in Ids, n \in Admins \cup {NoId} : call = admin_nominate(c, n)
      <3>1. PICK c \in Ids, n \in Admins \cup {NoId} : call = admin_nominate(c, n)
        BY <2>2
      <3>2. n \in AccountId
        BY LayoutAssumption DEF AccountId
      <3> QED
        BY <1>3, <3>1, <3>2, AdminNominateLands
           DEF Records!Next, Records!NextExceptNomination
    <2>3. CASE \E c \in Ids : call = admin_accept(c)
      <3>1. PICK c \in Ids : call = admin_accept(c)
        BY <2>3
      <3> QED
        BY <1>3, <3>1, AdminAcceptLands
           DEF Records!Next, Records!NextExceptNomination, Records!Library
    <2>4. CASE \E c \in Ids : call = admin_renounce(c)
      <3>1. PICK c \in Ids : call = admin_renounce(c)
        BY <2>4
      <3> QED
        BY <1>3, <3>1, AdminRenounceLands
           DEF Records!Next, Records!NextExceptNomination, Records!Library
    <2> QED
      BY <2>1, <2>2, <2>3, <2>4 DEF AdminCalls
  <1>4. ASSUME NEW call \in SetUpCalls, Lands(call)
        PROVE  ChainInv' /\ Records!Next
    <2>1. CASE \E c \in Ids : call = admin_initialize(c)
      BY <1>4, <2>1, AdminInitializeLands
         DEF Records!Next, Records!NextExceptNomination, Records!Library
    <2>2. CASE \E c \in Ids : call = freeze_initialize(c)
      <3>1. PICK c \in Ids : call = freeze_initialize(c)
        BY <2>2
      <3>2. /\ ChainInv' /\ UNCHANGED ValueRecord
            /\ Records!freeze_initialize(c)
        BY <1>4, <3>1, FreezeInitializeLands
      <3> QED
        BY <3>2 DEF Records!Next, Records!NextExceptNomination,
                    Records!Library, Records!FreezeInitialization
    <2>3. CASE \E c \in Ids : call = initialize(c)
      BY <1>4, <2>3, InitializeLands DEF Records!Next, Records!NextExceptNomination
    <2> QED
      BY <2>1, <2>2, <2>3 DEF SetUpCalls
  <1>5. ASSUME NEW call \in UpdateCalls, Lands(call)
        PROVE  ChainInv' /\ Records!Next
    BY <1>5, UpdateLands
       DEF UpdateCalls, Records!Next, Records!NextExceptNomination
  <1>6. ASSUME NEW a \in Ids,
               \/ AccountInit(a, IF a \in Pdas THEN LookAlike ELSE <<>>)
               \/ OtherTransaction(a)
        PROVE  ChainInv' /\ Records!Next
    BY <1>6, AccountInitLands, ElsewhereLands
       DEF Records!Next, Records!NextExceptNomination
  <1> QED
    BY <1>1, <1>2, <1>3, <1>4, <1>5, <1>6 DEF Next

\* Nothing happens, nothing changes.
LEMMA StutterEffect ==
    ASSUME UNCHANGED vars
    PROVE  /\ ChainInv => ChainInv'
           /\ UNCHANGED Records!vars
  <1>1. account' = account /\ authorized' = authorized
    BY DEF vars
  <1>2. \A a \in Ids : Stranded(a)' <=> Stranded(a)
    BY <1>1 DEF Stranded
  <1>3. OwnedKeys' = OwnedKeys /\ SpentKeys' = SpentKeys
        /\ MarkerRecords' = MarkerRecords
    BY <1>1, <1>2 DEF OwnedKeys, SpentKeys, MarkerRecords
  <1>4. /\ UNCHANGED <<AdminRecord, ConfigRecord, ValueRecord>>
        /\ AdminInv => AdminInv'
        /\ ConfigInv => ConfigInv'
        /\ ProgramInv => ProgramInv'
    BY <1>1, Kept
  <1>5. ChainInv => ChainInv'
    BY <1>1, <1>4 DEF ChainInv, ChainTypeOK, KeysInv, MarkersInv
  <1> QED
    BY <1>1, <1>3, <1>4, <1>5
       DEF Records!vars, Records!ledgerVars, Records!freezeVars

\* At the start nothing is there.
LEMMA InitEffect ==
    Init => ChainInv /\ Records!Init
  <1> SUFFICES ASSUME Init PROVE ChainInv /\ Records!Init
    OBVIOUS
  <1>1. account = [a \in Names |-> Default] /\ authorized = {}
    BY DEF Init, ChainInit
  <1>2. Default \in [owner : Owners, nonce : BOOLEAN, data : Seq(Cells)]
    BY DEF Default, Owners
  <1>3. \A a \in Ids : a \in Names /\ Marker(a) \in Names
    BY DEF Names
  <1>4. A \in Names /\ C \in Names /\ P \in Names
    BY Places
  <1>5. ChainTypeOK
    BY <1>1, <1>2 DEF ChainTypeOK
  <1>6. KeysInv /\ MarkersInv
    BY <1>1, <1>3 DEF KeysInv, MarkersInv, Default
  <1>7. account[A] = Default /\ account[C] = Default /\ account[P] = Default
    BY <1>1, <1>4
  <1>8. ChainInv
    BY <1>5, <1>6, <1>7 DEF ChainInv, AdminInv, ConfigInv, ProgramInv
  <1>9. AdminRecord = NoData /\ ConfigRecord = NoData /\ ValueRecord = NoData
    BY <1>7, NoView
  <1>10. OwnedKeys = {} /\ SpentKeys = {}
    BY <1>1, <1>3 DEF OwnedKeys, SpentKeys, Stranded, Default
  <1>11. MarkerRecords = [a \in Ids |-> NoData]
    BY <1>1, <1>3 DEF MarkerRecords, MarkerState, Default
  <1> QED
    BY <1>1, <1>8, <1>9, <1>10, <1>11
       DEF Records!Init, Records!LedgerInit, Records!AdminInit,
           Records!FreezeInit

----------------------------------------------------------------------------
\* The inductive invariant.
THEOREM ChainInvariant == Spec => []ChainInv
  <1>1. Init => ChainInv
    BY InitEffect
  <1>2. ChainInv /\ [Next]_vars => ChainInv'
    BY NextEffect, StutterEffect
  <1> QED
    BY <1>1, <1>2, PTL DEF Spec

\* Accounts stay well-formed.
THEOREM ChainTypesHold == Spec => []ChainTypeOK
  <1>1. ChainInv => ChainTypeOK
    BY DEF ChainInv
  <1> QED
    BY <1>1, ChainInvariant, PTL

\* No other account passes for the config, though the program owns three more
\* kinds of accounts: the admin's, its own and the markers are all too short,
\* and what is not the program's is not asked for its data. (the docs of
\* from_owned_account_at)
THEOREM OnlyOwnIsRead == Spec => []OnlyOwnConfigRead
  <1>1. ChainInv => OnlyOwnConfigRead
    <2> SUFFICES ASSUME ChainInv, NEW a \in Names,
                        FromOwnedAccountAtResult(account[a], FreezeOffset, "self")
                          = Ok
                 PROVE  a = ConfigAccount
      BY DEF OnlyOwnConfigRead
    <2> DEFINE data == account[a].data
    <2>1. account[a].owner = "self" /\ DecodeAtResult(data, FreezeOffset) = Ok
      BY ThenOk DEF FromOwnedAccountAtResult, Check, Ok
    <2>2. 3 <= Len(data)
      BY <2>1, ThenOk, Layout DEF DecodeAtResult, Check, Ok
    <2>3. a \notin Ids
      BY <2>1 DEF ChainInv, KeysInv
    <2>4. ASSUME NEW v, data = <<v>> PROVE FALSE
      <3>1. Len(<<v>>) = 1
        OBVIOUS
      <3> QED
        BY <2>2, <2>4, <3>1
    <2>5. data # <<>>
      <3>1. Len(<<>>) = 0
        OBVIOUS
      <3> QED
        BY <2>2, <3>1
    <2>6. ASSUME NEW b \in Ids, a = Marker(b) PROVE FALSE
      <3>1. data \in {<<>>, <<0>>, <<1>>}
        BY <2>6 DEF ChainInv, MarkersInv, Default
      <3> QED
        BY <2>4, <2>5, <3>1
    <2>7. ASSUME a = A PROVE FALSE
      <3>1. data = AdminData
        BY <2>7 DEF AdminData, A
      <3>2. AdminData # <<>>
        BY <2>5, <3>1
      <3>3. Len(AdminData) = 2
        BY <3>2, AdminView DEF SlotShape
      <3>4. Len(data) = 2
        BY <3>1, <3>3
      <3> QED
        BY <2>2, <3>4
    <2>8. a # P
      <3>1. a = P => \E v \in Values : data = <<v>>
        BY <2>5 DEF ChainInv, ProgramInv, ValueShape, ProgramData, Default, P
      <3> QED
        BY <2>4, <3>1
    <2> QED
      BY <2>3, <2>6, <2>7, <2>8, Places DEF C
  <1> QED
    BY <1>1, ChainInvariant, PTL

\* The bytes implement the records: whatever is proved of the program over
\* records holds of accounts, copies and post-states.
THEOREM BytesImplementRecords == Spec => ImplementsRecords
  <1>1. Init => Records!Init
    BY InitEffect
  <1>2. ChainInv /\ [Next]_vars => [Records!Next]_Records!vars
    BY NextEffect, StutterEffect
  <1> QED
    BY <1>1, <1>2, ChainInvariant, PTL DEF Spec, ImplementsRecords, Records!Spec

----------------------------------------------------------------------------
(* What the program answers is acceptable to LEZ. *)

\* The accounts that calls are given.
LEMMA CallAccounts ==
    ASSUME ChainInv
    PROVE  /\ ChainTypeOK /\ A \in Names /\ C \in Names /\ P \in Names
           /\ \A a \in Ids : a \in Names /\ Marker(a) \in Names
  BY Places DEF ChainInv, Names

\* A config that was loaded is there to be written.
LEMMA ConfigTaken ==
    ASSUME ChainInv, NEW check, Perform(check) = Ok, NEW new,
           LoadedConfig \in FreezeConfigs => new \in FreezeConfigs
    PROVE  Taken(C, Written(new))
  <1>1. FreezeConfigResult = Ok
    BY ThenOk DEF Perform
  <1>2. new \in FreezeConfigs /\ account[C].owner = "self"
    BY <1>1, ConfigView
  <1> DEFINE data == WriteToAt(ConfigData, new, FreezeOffset)
  <1>3. data \in Seq(Cells)
    BY <1>1, <1>2, FreezeAnswer
  <1>4. Written(new) = PostState(C, data)
    BY DEF Written, C
  <1> HIDE DEF data
  <1> QED
    BY <1>2, <1>3, <1>4 DEF Taken, Acceptable

\* So is an admin's slot.
LEMMA SlotTaken ==
    ASSUME ChainInv, AdminConfigResult = Ok, NEW slot \in Slots,
           slot.holder = NoId => slot.nominee = NoId
    PROVE  Taken(A, AdminWritten(slot))
  <1> DEFINE data == SlotWriteAt(AdminData, slot, AdminOffset)
  <1>1. AdminData # <<>>
    BY AdminSeen
  <1>2. data \in Seq(Cells) /\ account[A].owner = "self"
    BY <1>1, AdminAnswer, AdminView
  <1>3. AdminWritten(slot) = PostState(A, data)
    BY DEF AdminWritten, A
  <1> HIDE DEF data
  <1> QED
    BY <1>2, <1>3 DEF Taken, Acceptable

\* What is written to a marker is taken; it is claimed when it is made.
LEMMA MarkerTaken ==
    ASSUME ChainInv, NEW target \in Ids, NEW data \in Seq(Cells)
    PROVE  /\ Taken(Marker(target), MarkerPostState(target, data))
           /\ account[Marker(target)].data # <<>>
                => Taken(Marker(target), PostState(Marker(target), data))
  <1>1. \/ account[Marker(target)] = Default
        \/ /\ account[Marker(target)].owner = "self"
           /\ account[Marker(target)].data # <<>>
    <2>1. <<0>> # <<>> /\ <<1>> # <<>>
      <3>1. Len(<<>>) = 0 /\ Len(<<0>>) = 1 /\ Len(<<1>>) = 1
        OBVIOUS
      <3> QED
        BY <3>1
    <2> QED
      BY <2>1 DEF ChainInv, MarkersInv
  <1>2. Default.data = <<>>
    BY DEF Default
  <1> QED
    BY <1>1, <1>2 DEF Taken, Acceptable, MarkerPostState

\* An account that is made is taken, if it is not there yet.
LEMMA BirthTaken ==
    ASSUME NEW a, account[a] = Default, NEW data \in Seq(Cells)
    PROVE  Taken(a, Claimed(a, data))
  BY DEF Taken, Acceptable

\* The role's instructions.
LEMMA RoleTaken ==
    ASSUME ChainInv, NEW caller \in Ids
    PROVE  /\ \A to \in Ids, candidate \in Candidates, cosigns \in BOOLEAN :
                 LezAgrees(freeze_authority_transfer(caller, to, candidate, cosigns))
           /\ LezAgrees(freeze_authority_renounce(caller))
           /\ \A next \in AccountId :
                 LezAgrees(freeze_authority_nominate(caller, next))
           /\ LezAgrees(freeze_authority_accept(caller))
  <1>1. ASSUME NEW to \in Ids, NEW candidate \in Candidates,
               NEW cosigns \in BOOLEAN
        PROVE  LezAgrees(freeze_authority_transfer(caller, to, candidate, cosigns))
    <2> DEFINE check == TransferResult(candidate, AccountOf(to, cosigns))
               result == RequireAdmin(caller) ?? Perform(check)
               new == Transfer(LoadedConfig, to)
               post == Written(new)
               signers == IF cosigns THEN {caller, to} ELSE {caller}
    <2>1. freeze_authority_transfer(caller, to, candidate, cosigns)
            = Call(<<A, C, caller, to>>, signers, result,
                   <<Unchanged(A), post, Unchanged(caller), Unchanged(to)>>)
      BY Layout, LongerTuples
         DEF freeze_authority_transfer, ConfigPair, PostStatePair, A, C
    <2>2. LoadedConfig \in FreezeConfigs => new \in FreezeConfigs
      BY UpdatesKeepRecords, Layout
    <2>3. result = Ok => Perform(check) = Ok
      BY ThenOk
    <2> HIDE DEF check, result, new, signers
    <2>4. result = Ok => Taken(C, post)
      BY <2>2, <2>3, ConfigTaken
    <2> HIDE DEF post
    <2> QED
      BY <2>1, <2>4, CallAccounts, UnchangedTaken, TakenFour
  <1>2. LezAgrees(freeze_authority_renounce(caller))
    <2> DEFINE check == DualPath(AdminOrNone, LoadedConfig, Caller(caller))
               new == Renounce(LoadedConfig)
               post == Written(new)
    <2>1. freeze_authority_renounce(caller)
            = Call(<<A, C, caller>>, {caller}, Perform(check),
                   <<Unchanged(A), post, Unchanged(caller)>>)
      BY Layout, LongerTuples
         DEF freeze_authority_renounce, ConfigPair, PostStatePair, A, C
    <2>2. LoadedConfig \in FreezeConfigs => new \in FreezeConfigs
      BY UpdatesKeepRecords, Layout
    <2> HIDE DEF check, new
    <2>3. Perform(check) = Ok => Taken(C, post)
      BY <2>2, ConfigTaken
    <2> HIDE DEF post
    <2> QED
      BY <2>1, <2>3, CallAccounts, UnchangedTaken, TakenThree
  <1>3. ASSUME NEW next \in AccountId
        PROVE  LezAgrees(freeze_authority_nominate(caller, next))
    <2> DEFINE check == DualPath(AdminOrNone, LoadedConfig, Caller(caller))
               new == Nominate(LoadedConfig, next)
               post == Written(new)
    <2>1. freeze_authority_nominate(caller, next)
            = Call(<<A, C, caller>>, {caller}, Perform(check),
                   <<Unchanged(A), post, Unchanged(caller)>>)
      BY Layout, LongerTuples
         DEF freeze_authority_nominate, ConfigPair, PostStatePair, A, C
    <2>2. LoadedConfig \in FreezeConfigs => new \in FreezeConfigs
      BY UpdatesKeepRecords
    <2> HIDE DEF check, new
    <2>3. Perform(check) = Ok => Taken(C, post)
      BY <2>2, ConfigTaken
    <2> HIDE DEF post
    <2> QED
      BY <2>1, <2>3, CallAccounts, UnchangedTaken, TakenThree
  <1>4. LezAgrees(freeze_authority_accept(caller))
    <2> DEFINE check == AcceptResult(LoadedConfig, Caller(caller))
               new == Accept(LoadedConfig)
               post == Written(new)
    <2>1. freeze_authority_accept(caller)
            = Call(<<C, caller>>, {caller}, Perform(check),
                   <<post, Unchanged(caller)>>)
      BY DEF freeze_authority_accept, C
    <2>2. LoadedConfig \in FreezeConfigs => new \in FreezeConfigs
      BY UpdatesKeepRecords, Layout
    <2> HIDE DEF check, new
    <2>3. Perform(check) = Ok => Taken(C, post)
      BY <2>2, ConfigTaken
    <2> HIDE DEF post
    <2> QED
      BY <2>1, <2>3, CallAccounts, UnchangedTaken, TakenTwo
  <1> QED
    BY <1>1, <1>2, <1>3, <1>4

\* The brake's instructions.
LEMMA BrakeTaken ==
    ASSUME ChainInv, NEW caller \in Ids, NEW target \in Ids
    PROVE  /\ LezAgrees(freeze_program(caller))
           /\ LezAgrees(freeze_program_release(caller))
           /\ LezAgrees(freeze_account(caller, target))
           /\ LezAgrees(freeze_account_release(caller, target))
  <1>1. LezAgrees(freeze_program(caller))
    <2> DEFINE check == AssertHolder(LoadedConfig, Caller(caller))
               result == (IF AutoWrap THEN RequireNotFrozen(caller) ELSE Ok)
                           ?? Perform(check)
               new == SetIsFrozen(LoadedConfig, TRUE)
               post == Written(new)
    <2>1. freeze_program(caller)
            = Call(<<C, Marker(caller), caller>>, {caller}, result,
                   <<post, Unchanged(Marker(caller)), Unchanged(caller)>>)
      BY DEF freeze_program, C
    <2>2. result = Ok => Perform(check) = Ok
      BY ThenOk
    <2>3. LoadedConfig \in FreezeConfigs => new \in FreezeConfigs
      BY UpdatesKeepRecords, Layout
    <2> HIDE DEF check, result, new
    <2>4. result = Ok => Taken(C, post)
      BY <2>2, <2>3, ConfigTaken
    <2> HIDE DEF post
    <2> QED
      BY <2>1, <2>4, CallAccounts, UnchangedTaken, TakenThree
  <1>2. LezAgrees(freeze_program_release(caller))
    <2> DEFINE check == AssertHolder(LoadedConfig, Caller(caller))
               new == SetIsFrozen(LoadedConfig, FALSE)
               post == Written(new)
    <2>1. freeze_program_release(caller)
            = Call(<<C, caller>>, {caller}, Perform(check),
                   <<post, Unchanged(caller)>>)
      BY DEF freeze_program_release, C
    <2>2. LoadedConfig \in FreezeConfigs => new \in FreezeConfigs
      BY UpdatesKeepRecords, Layout
    <2> HIDE DEF check, new
    <2>3. Perform(check) = Ok => Taken(C, post)
      BY <2>2, ConfigTaken
    <2> HIDE DEF post
    <2> QED
      BY <2>1, <2>3, CallAccounts, UnchangedTaken, TakenTwo
  <1>3. LezAgrees(freeze_account(caller, target))
    <2> DEFINE result == FreezeConfigResult
                           ?? MarkerResult(account[Marker(target)].data)
                           ?? PerformFreezeResult(LoadedConfig, Caller(caller))
               bytes == MarkerBytes(TRUE)
    <2>1. freeze_account(caller, target)
            = Call(<<C, Marker(target), caller>>, {caller}, result,
                   <<Unchanged(C), MarkerPostState(target, bytes),
                     Unchanged(caller)>>)
      BY DEF freeze_account, C
    <2>2. bytes \in Seq(Cells)
      BY FlagData
    <2> HIDE DEF result, bytes
    <2> QED
      BY <2>1, <2>2, MarkerTaken, CallAccounts, UnchangedTaken, TakenThree
  <1>4. LezAgrees(freeze_account_release(caller, target))
    <2> DEFINE state == MarkerState(account[Marker(target)].data)
               result == FreezeConfigResult
                           ?? AssertHolder(LoadedConfig, Caller(caller))
                           ?? MarkerResult(account[Marker(target)].data)
                           ?? PerformReleaseResult(LoadedConfig, state,
                                                   Caller(caller))
               bytes == MarkerBytes(FALSE)
    <2>1. freeze_account_release(caller, target)
            = Call(<<C, Marker(target), caller>>, {caller}, result,
                   <<Unchanged(C), PostState(Marker(target), bytes),
                     Unchanged(caller)>>)
      BY DEF freeze_account_release, C
    <2>2. result = Ok => FromDataOrDefault(state).is_frozen
      BY ThenOk DEF PerformReleaseResult, Check, Ok
    <2>3. result = Ok => account[Marker(target)].data # <<>>
      <3> HIDE DEF result
      <3> QED
        BY <2>2 DEF FromDataOrDefault, MarkerState
    <2>4. bytes \in Seq(Cells)
      BY FlagData
    <2> HIDE DEF result, bytes
    <2> QED
      BY <2>1, <2>3, <2>4, MarkerTaken, CallAccounts, UnchangedTaken, TakenThree
  <1> QED
    BY <1>1, <1>2, <1>3, <1>4

\* The admin's instructions.
LEMMA AdminTaken ==
    ASSUME ChainInv, NEW caller \in Ids
    PROVE  /\ \A to \in Ids, candidate \in Candidates, cosigns \in BOOLEAN :
                 LezAgrees(admin_transfer(caller, to, candidate, cosigns))
           /\ \A next \in AccountId : LezAgrees(admin_nominate(caller, next))
           /\ LezAgrees(admin_accept(caller))
           /\ LezAgrees(admin_renounce(caller))
  <1>1. ASSUME RequireAdmin(caller) = Ok
        PROVE  /\ AdminConfigResult = Ok /\ AdminSlot \in Slots
               /\ AdminSlot.holder # NoId
    <2>1. AdminConfigResult = Ok
      BY <1>1, ThenOk DEF RequireAdmin
    <2> QED
      BY <1>1, <2>1, SameAdmin, Layout
  <1>2. ASSUME NEW to \in Ids, NEW candidate \in Candidates,
               NEW cosigns \in BOOLEAN
        PROVE  LezAgrees(admin_transfer(caller, to, candidate, cosigns))
    <2> DEFINE result == RequireAdmin(caller)
                           ?? Validate(candidate, AccountOf(to, cosigns))
               slot == SlotTransfer(AdminSlot, to)
               post == AdminWritten(slot)
               signers == IF cosigns THEN {caller, to} ELSE {caller}
    <2>1. admin_transfer(caller, to, candidate, cosigns)
            = Call(<<A, caller, to>>, signers, result,
                   <<post, Unchanged(caller), Unchanged(to)>>)
      BY DEF admin_transfer, A
    <2>2. result = Ok => RequireAdmin(caller) = Ok
      BY ThenOk
    <2>3. AdminSlot \in Slots => slot \in Slots /\ slot.nominee = NoId
      BY AdminSlots, Layout
    <2> HIDE DEF result, slot, signers
    <2>4. result = Ok => Taken(A, post)
      BY <1>1, <2>2, <2>3, SlotTaken
    <2> HIDE DEF post
    <2> QED
      BY <2>1, <2>4, CallAccounts, UnchangedTaken, TakenThree
  <1>3. ASSUME NEW next \in AccountId
        PROVE  LezAgrees(admin_nominate(caller, next))
    <2> DEFINE slot == SlotNominate(AdminSlot, next)
               post == AdminWritten(slot)
    <2>1. admin_nominate(caller, next)
            = Call(<<A, caller>>, {caller}, RequireAdmin(caller),
                   <<post, Unchanged(caller)>>)
      BY DEF admin_nominate, A
    <2>2. ASSUME AdminSlot \in Slots
          PROVE  slot \in Slots /\ slot.holder = AdminSlot.holder
      <3>1. slot = [holder |-> AdminSlot.holder, nominee |-> next]
            /\ slot \in Slots
        BY <2>2, AdminSlots
      <3> QED
        BY <3>1
    <2> HIDE DEF slot
    <2>3. RequireAdmin(caller) = Ok => Taken(A, post)
      BY <1>1, <2>2, SlotTaken
    <2> HIDE DEF post
    <2> QED
      BY <2>1, <2>3, CallAccounts, UnchangedTaken, TakenTwo
  <1>4. LezAgrees(admin_accept(caller))
    <2> DEFINE result == AdminConfigResult
                           ?? SlotAcceptResult(AdminSlot, Caller(caller))
               slot == SlotAccept(AdminSlot)
               post == AdminWritten(slot)
    <2>1. admin_accept(caller)
            = Call(<<A, caller>>, {caller}, result, <<post, Unchanged(caller)>>)
      BY DEF admin_accept, A
    <2>2. result = Ok => AdminConfigResult = Ok
      BY ThenOk
    <2>3. AdminConfigResult = Ok => AdminSlot \in Slots
      BY AdminSeen, AdminView
    <2>4. AdminSlot \in Slots => slot \in Slots /\ slot.nominee = NoId
      BY AdminSlots, Layout
    <2> HIDE DEF result, slot
    <2>5. result = Ok => Taken(A, post)
      BY <2>2, <2>3, <2>4, SlotTaken
    <2> HIDE DEF post
    <2> QED
      BY <2>1, <2>5, CallAccounts, UnchangedTaken, TakenTwo
  <1>5. LezAgrees(admin_renounce(caller))
    <2> DEFINE slot == SlotRenounce(AdminSlot)
               post == AdminWritten(slot)
    <2>1. admin_renounce(caller)
            = Call(<<A, caller>>, {caller}, RequireAdmin(caller),
                   <<post, Unchanged(caller)>>)
      BY DEF admin_renounce, A
    <2>2. AdminSlot \in Slots => slot \in Slots /\ slot.nominee = NoId
      BY AdminSlots, Layout
    <2> HIDE DEF slot
    <2>3. RequireAdmin(caller) = Ok => Taken(A, post)
      BY <1>1, <2>2, SlotTaken
    <2> HIDE DEF post
    <2> QED
      BY <2>1, <2>3, CallAccounts, UnchangedTaken, TakenTwo
  <1> QED
    BY <1>2, <1>3, <1>4, <1>5

\* The instructions that make the three accounts.
LEMMA SetUpTaken ==
    ASSUME ChainInv, NEW caller \in Ids
    PROVE  /\ LezAgrees(admin_initialize(caller))
           /\ LezAgrees(freeze_initialize(caller))
           /\ LezAgrees(initialize(caller))
  <1>1. LezAgrees(admin_initialize(caller))
    <2> DEFINE result == Check(account[A] = Default, "AccountAlreadyInitialized")
                           ?? Validate([kind |-> "Signer", derived |-> NoId],
                                       Caller(caller))
                           ?? SlotInitializeResult(caller)
               data == SlotBytes(SlotInitialize(caller))
               post == Claimed(A, data)
    <2>1. admin_initialize(caller)
            = Call(<<A, caller>>, {caller}, result, <<post, Unchanged(caller)>>)
      BY DEF admin_initialize, A
    <2>2. result = Ok => account[A] = Default
      BY ThenOk DEF Check, Ok
    <2>3. data \in Seq(Cells)
      BY Born DEF SlotShape
    <2> HIDE DEF result, data
    <2>4. result = Ok => Taken(A, post)
      BY <2>2, <2>3, BirthTaken
    <2> HIDE DEF post
    <2> QED
      BY <2>1, <2>4, CallAccounts, UnchangedTaken, TakenTwo
  <1>2. LezAgrees(freeze_initialize(caller))
    <2> DEFINE result == Check(account[C] = Default, "AccountAlreadyInitialized")
                           ?? RequireAdmin(caller)
                           ?? BootstrapResult([kind |-> "Signer", derived |-> NoId],
                                              Caller(caller))
               data == Encode(Bootstrap(caller))
               post == Claimed(C, data)
    <2>1. freeze_initialize(caller)
            = Call(<<A, caller, C>>, {caller}, result,
                   <<Unchanged(A), Unchanged(caller), post>>)
      BY DEF freeze_initialize, A, C
    <2>2. result = Ok => account[C] = Default
      BY ThenOk DEF Check, Ok
    <2>3. data \in Seq(Cells)
      BY Born DEF ConfigShape
    <2> HIDE DEF result, data
    <2>4. result = Ok => Taken(C, post)
      BY <2>2, <2>3, BirthTaken
    <2> HIDE DEF post
    <2> QED
      BY <2>1, <2>4, CallAccounts, UnchangedTaken, TakenThree
  <1>3. LezAgrees(initialize(caller))
    <2> DEFINE result == Check(account[P] = Default, "AccountAlreadyInitialized")
                           ?? RequireAdmin(caller)
               data == <<0>>
               post == Claimed(P, data)
    <2>1. initialize(caller)
            = Call(<<A, caller, P>>, {caller}, result,
                   <<Unchanged(A), Unchanged(caller), post>>)
      BY DEF initialize, A, P
    <2>2. result = Ok => account[P] = Default
      BY ThenOk DEF Check, Ok
    <2>3. data \in Seq(Cells)
      BY Layout
    <2> HIDE DEF result, data
    <2>4. result = Ok => Taken(P, post)
      BY <2>2, <2>3, BirthTaken
    <2> HIDE DEF post
    <2> QED
      BY <2>1, <2>4, CallAccounts, UnchangedTaken, TakenThree
  <1> QED
    BY <1>1, <1>2, <1>3

\* The program's own two.
LEMMA OwnTaken ==
    ASSUME ChainInv
    PROVE  /\ \A caller \in Ids, value \in Values :
                 LezAgrees(update_value(caller, value))
           /\ LezAgrees(read_value)
  <1>1. ASSUME NEW caller \in Ids, NEW value \in Values
        PROVE  LezAgrees(update_value(caller, value))
    <2> DEFINE result == RequireNotFrozen(caller) ?? FromAccountResult
               data == <<value>>
               post == PostState(P, data)
               M == Marker(caller)
    <2>1. update_value(caller, value)
            = Call(<<C, M, caller, P>>, {caller}, result,
                   <<Unchanged(C), Unchanged(M), Unchanged(caller), post>>)
      BY DEF update_value, WriteTo, C, P
    <2>2. result = Ok => account[P].owner = "self"
      BY ThenOk, ProgramView
    <2>3. data \in Seq(Cells)
      BY Layout
    <2> HIDE DEF result, data
    <2>4. result = Ok => Taken(P, post)
      BY <2>2, <2>3 DEF Taken, Acceptable
    <2>5. M \in Names
      BY CallAccounts
    <2> HIDE DEF post, M
    <2> QED
      BY <2>1, <2>4, <2>5, CallAccounts, UnchangedTaken, TakenFour
  <1>2. LezAgrees(read_value)
    <2>1. read_value = Call(<<P>>, {}, FromAccountResult, <<Unchanged(P)>>)
      BY DEF read_value, P
    <2> QED
      BY <2>1, CallAccounts, UnchangedTaken, TakenOne
  <1> QED
    BY <1>1, <1>2

\* LEZ accepts what the program answers: nothing that the program lets through
\* is lost to a rule about post-states, in any state it can reach.
THEOREM LezAcceptsAll == Spec => []LezAccepts
  <1>1. ChainInv => LezAccepts
    <2> SUFFICES ASSUME ChainInv,
                        NEW call \in RoleCalls \cup BrakeCalls \cup AdminCalls
                                       \cup SetUpCalls \cup UpdateCalls
                                       \cup {read_value}
                 PROVE  LezAgrees(call)
      BY DEF LezAccepts
    <2>1. CASE call \in RoleCalls
      BY <2>1, RoleTaken DEF RoleCalls, Transfers
    <2>2. CASE call \in BrakeCalls
      <3>1. \A t \in Targets : t \in Ids
        BY LayoutAssumption
      <3> QED
        BY <2>2, <3>1, BrakeTaken DEF BrakeCalls
    <2>3. CASE call \in AdminCalls
      <3>1. \A next \in Admins \cup {NoId} : next \in AccountId
        BY LayoutAssumption, Layout
      <3> QED
        BY <2>3, <3>1, AdminTaken DEF AdminCalls
    <2>4. CASE call \in SetUpCalls
      BY <2>4, SetUpTaken DEF SetUpCalls
    <2>5. CASE call \in UpdateCalls \cup {read_value}
      BY <2>5, OwnTaken DEF UpdateCalls
    <2> QED
      BY <2>1, <2>2, <2>3, <2>4, <2>5
  <1> QED
    BY <1>1, ChainInvariant, PTL
=============================================================================
