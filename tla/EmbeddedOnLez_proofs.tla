------------------------- MODULE EmbeddedOnLez_proofs -------------------------
(***************************************************************************)
(* The embedded program on LEZ keeps its one account well-formed, LEZ      *)
(* takes what it answers, and what it does to the bytes is what            *)
(* FreezeAuthoritySampleEmbedded says it does to the records.              *)
(***************************************************************************)
EXTENDS EmbeddedOnLez, FreezeAuthorityOnLez_proofs

\* The data of the account once it exists. An admin slot that was renounced
\* has no nominee: the admin of the records comes back from nowhere else.
Struct(data) ==
    /\ data \in Seq(Cells) /\ Len(data) = 7
    /\ data[1] \in Values
    /\ \A i \in 3 .. 6 : data[i] \in AccountId
    /\ data[3] = NoId => data[4] = NoId
    /\ data[7] \in {0, 1}

ConfigInv == \/ account[ConfigAccount] = Default
             \/ account[ConfigAccount].owner = "self" /\ Struct(ConfigData)

ChainInv == ChainTypeOK /\ KeysInv /\ MarkersInv /\ ConfigInv

----------------------------------------------------------------------------
(* The layout of the account. *)

\* Where the windows lie.
LEMMA Layout ==
    /\ AdminAccount = ConfigAccount /\ AutoWrap
    /\ AdminOffset = 2 /\ FreezeOffset = 4 /\ ENCODED_LEN = 2 /\ SIZE = 3
    /\ 0 \in Values /\ Values \subseteq Cells /\ NoId = 0 /\ 1 \in Cells
    /\ AccountId \subseteq Cells /\ NoId \in AccountId
    /\ Ids \subseteq AccountId /\ NoId \notin Ids
    /\ NoData \notin Cells \cup FreezeConfigs \cup FrozenAccountStates
  BY EmbeddedAssumption, CellsAssumption, IdsAssumption, NamesAssumption
     DEF ENCODED_LEN, SIZE, AccountId

\* The three parts of the account can be read, and what is read is a record.
LEMMA StructReads ==
    ASSUME NEW data, Struct(data)
    PROVE  /\ data # <<>>
           /\ DecodeAtResult(data, FreezeOffset) = Ok
           /\ SlotFits(data, AdminOffset) = Ok
           /\ DecodeAt(data, FreezeOffset) \in FreezeConfigs
           /\ SlotReadAt(data, AdminOffset)
                = [holder |-> data[3], nominee |-> data[4]]
           /\ SlotReadAt(data, AdminOffset) \in Slots
           /\ WriteToAtResult(data, FreezeOffset) = Ok
           /\ Len(data) = Len(Zeros)
  <1>1. data # <<>>
    <2>1. Len(data) = 7 /\ Len(<<>>) = 0
      BY DEF Struct
    <2> QED
      BY <2>1
  <1>2. FreezeOffset + ENCODED_LEN <= Len(data)
        /\ FreezeOffset + SIZE <= Len(data)
        /\ AdminOffset + ENCODED_LEN <= Len(data)
        /\ FreezeOffset + SIZE = 7
    BY Layout DEF Struct
  <1>3. DecodeAtResult(data, FreezeOffset) = Ok
        /\ SlotFits(data, AdminOffset) = Ok
        /\ WriteToAtResult(data, FreezeOffset) = Ok
    BY <1>1, <1>2 DEF Struct, DecodeAtResult, SlotFits, WriteToAtResult, Check,
                      ??, Ok
  <1>4. SlotReadAt(data, AdminOffset) = [holder |-> data[3], nominee |-> data[4]]
        /\ SlotReadAt(data, FreezeOffset)
             = [holder |-> data[5], nominee |-> data[6]]
    BY Layout DEF SlotReadAt
  <1>5. data[3] \in AccountId /\ data[4] \in AccountId
        /\ data[5] \in AccountId /\ data[6] \in AccountId
    BY DEF Struct
  <1>6. SlotReadAt(data, AdminOffset) \in Slots
        /\ SlotReadAt(data, FreezeOffset) \in Slots
    BY <1>4, <1>5 DEF Slots
  <1>7. DecodeAt(data, FreezeOffset) \in FreezeConfigs
    BY <1>6 DEF DecodeAt, FreezeConfigs
  <1>8. Len(Zeros) = 7
    BY DEF Zeros, SlotBytes, Encode
  <1> QED
    BY <1>1, <1>3, <1>4, <1>6, <1>7, <1>8 DEF Struct

\* One window changes, and the account keeps its length.
OneWindowOf(data, new) ==
    \E w \in {Window(0, 1), Window(AdminOffset, ENCODED_LEN),
              Window(FreezeOffset, SIZE)} :
        /\ Len(new) = Len(data)
        /\ \A i \in 1 .. Len(data) \ w : new[i] = data[i]

\* A config written into its window: the admin slot and the value stay.
LEMMA FreezeWindowWritten ==
    ASSUME NEW data, Struct(data), NEW config \in FreezeConfigs
    PROVE  LET new == WriteToAt(data, config, FreezeOffset)
           IN  /\ Struct(new)
               /\ new[1] = data[1]
               /\ SlotReadAt(new, AdminOffset) = SlotReadAt(data, AdminOffset)
               /\ DecodeAt(new, FreezeOffset) = config
               /\ OneWindowOf(data, new)
  <1> DEFINE new == WriteToAt(data, config, FreezeOffset)
  <1>1. data \in Seq(Cells) /\ Len(data) = 7 /\ FreezeOffset \in Nat
        /\ WriteToAtResult(data, FreezeOffset) = Ok
    BY StructReads, Layout DEF Struct
  <1>2. /\ new \in Seq(Cells) /\ Len(new) = 7
        /\ \A i \in 1 .. 7 \ Window(FreezeOffset, SIZE) : new[i] = data[i]
    BY <1>1, WriteKeepsNeighbours
  <1>3. new[5] = config.slot.holder /\ new[6] = config.slot.nominee
        /\ new[7] = FlagByte(config.is_frozen)
    BY <1>1, WrittenCells, Layout
  <1>4. DecodeAt(new, FreezeOffset) = config
    BY <1>1, ReadBack
  <1> HIDE DEF new
  <1>5. new[1] = data[1] /\ new[3] = data[3] /\ new[4] = data[4]
    BY <1>2, Layout DEF Window
  <1>6. config.slot.holder \in AccountId /\ config.slot.nominee \in AccountId
        /\ FlagByte(config.is_frozen) \in {0, 1}
    BY DEF FreezeConfigs, Slots, FlagByte
  <1>7. \A i \in 3 .. 6 : i = 3 \/ i = 4 \/ i = 5 \/ i = 6
    OBVIOUS
  <1>8. Struct(new)
    BY <1>2, <1>3, <1>5, <1>6, <1>7 DEF Struct
  <1>9. SlotReadAt(new, AdminOffset) = SlotReadAt(data, AdminOffset)
    BY <1>5, Layout DEF SlotReadAt
  <1>10. OneWindowOf(data, new)
    BY <1>1, <1>2 DEF OneWindowOf
  <1> QED
    BY <1>4, <1>5, <1>8, <1>9, <1>10 DEF new

\* A slot written into the admin's window: the config and the value stay.
LEMMA AdminWindowWritten ==
    ASSUME NEW data, Struct(data), NEW slot \in Slots,
           slot.holder = NoId => slot.nominee = NoId
    PROVE  LET new == SlotWriteAt(data, slot, AdminOffset)
           IN  /\ Struct(new)
               /\ new[1] = data[1]
               /\ SlotReadAt(new, AdminOffset) = slot
               /\ DecodeAt(new, FreezeOffset) = DecodeAt(data, FreezeOffset)
               /\ OneWindowOf(data, new)
  <1> DEFINE new == SlotWriteAt(data, slot, AdminOffset)
             part == SlotBytes(slot)
  <1>1. data \in Seq(Cells) /\ Len(data) = 7 /\ AdminOffset \in Nat
    BY Layout DEF Struct
  <1>2. /\ part \in Seq(Cells) /\ Len(part) = 2
        /\ part[1] = slot.holder /\ part[2] = slot.nominee
        /\ slot.holder \in AccountId /\ slot.nominee \in AccountId
        /\ slot = [holder |-> slot.holder, nominee |-> slot.nominee]
    <2>1. slot.holder \in AccountId /\ slot.nominee \in AccountId
          /\ slot = [holder |-> slot.holder, nominee |-> slot.nominee]
      BY DEF Slots
    <2>2. slot.holder \in Cells /\ slot.nominee \in Cells
      BY <2>1, Layout
    <2> QED
      BY <2>1, <2>2 DEF SlotBytes
  <1>3. new = Splice(data, part, AdminOffset)
    BY DEF SlotWriteAt
  <1>4. AdminOffset + Len(part) <= Len(data)
    BY <1>1, <1>2, Layout
  <1> HIDE DEF new, part
  <1>5. /\ new \in Seq(Cells) /\ Len(new) = Len(data)
        /\ \A i \in 1 .. Len(part) : new[AdminOffset + i] = part[i]
        /\ \A i \in 1 .. Len(data) \ Window(AdminOffset, Len(part)) :
              new[i] = data[i]
    <2>1. /\ Splice(data, part, AdminOffset) \in Seq(Cells)
          /\ Len(Splice(data, part, AdminOffset)) = Len(data)
          /\ \A i \in 1 .. Len(part) :
                Splice(data, part, AdminOffset)[AdminOffset + i] = part[i]
          /\ \A i \in 1 .. Len(data) \ Window(AdminOffset, Len(part)) :
                Splice(data, part, AdminOffset)[i] = data[i]
      BY <1>1, <1>2, <1>4, SpliceCells
    <2> QED
      BY <1>3, <2>1
  <1>6. new[3] = slot.holder /\ new[4] = slot.nominee
    BY <1>2, <1>5, Layout
  <1>7. new[1] = data[1] /\ new[5] = data[5] /\ new[6] = data[6]
        /\ new[7] = data[7]
    <2>1. Window(AdminOffset, Len(part)) = 3 .. 4 /\ Len(data) = 7
      BY <1>1, <1>2, Layout DEF Window
    <2>2. \A i \in 1 .. 7 \ 3 .. 4 : new[i] = data[i]
      BY <1>5, <2>1
    <2> QED
      BY <2>2
  <1>8. \A i \in 3 .. 6 : i = 3 \/ i = 4 \/ i = 5 \/ i = 6
    OBVIOUS
  <1>9. Struct(new)
    BY <1>1, <1>2, <1>5, <1>6, <1>7, <1>8 DEF Struct
  <1>10. SlotReadAt(new, AdminOffset) = slot
    BY <1>2, <1>6, Layout DEF SlotReadAt
  <1>11. DecodeAt(new, FreezeOffset) = DecodeAt(data, FreezeOffset)
    BY <1>7, Layout DEF DecodeAt, SlotReadAt
  <1>12. OneWindowOf(data, new)
    BY <1>2, <1>5, Layout DEF OneWindowOf
  <1> QED
    BY <1>7, <1>9, <1>10, <1>11, <1>12 DEF new

\* Another value: both windows stay.
LEMMA ValueWritten ==
    ASSUME NEW data, Struct(data), NEW value \in Values
    PROVE  LET new == <<value>> \o Tail(data)
           IN  /\ Struct(new)
               /\ new[1] = value
               /\ SlotReadAt(new, AdminOffset) = SlotReadAt(data, AdminOffset)
               /\ DecodeAt(new, FreezeOffset) = DecodeAt(data, FreezeOffset)
               /\ OneWindowOf(data, new)
  <1> DEFINE new == <<value>> \o Tail(data)
  <1>1. data \in Seq(Cells) /\ Len(data) = 7 /\ value \in Cells
    BY Layout DEF Struct
  <1>2. /\ Tail(data) \in Seq(Cells) /\ Len(Tail(data)) = 6
        /\ \A i \in 1 .. 6 : Tail(data)[i] = data[i + 1]
    <2>1. data # <<>>
      BY StructReads
    <2> DEFINE rest == Tail(data)
    <2>2. /\ rest \in Seq(Cells) /\ Len(rest) = Len(data) - 1
          /\ \A i \in 1 .. Len(rest) : rest[i] = data[i + 1]
      BY <1>1, <2>1, HeadTailProperties, Zenon
    <2> HIDE DEF rest
    <2>3. Len(rest) = 6
      BY <1>1, <2>2
    <2>4. \A i \in 1 .. 6 : rest[i] = data[i + 1]
      BY <2>2, <2>3
    <2> QED
      BY <2>2, <2>3, <2>4 DEF rest
  <1>3. /\ new \in Seq(Cells) /\ Len(new) = 7 /\ new[1] = value
        /\ \A i \in 2 .. 7 : new[i] = Tail(data)[i - 1]
    <2>1. <<value>> \in Seq(Cells) /\ Len(<<value>>) = 1
          /\ <<value>>[1] = value
      BY <1>1
    <2> DEFINE first == <<value>>
               rest == Tail(data)
    <2>2. rest \in Seq(Cells) /\ Len(rest) = 6
      BY <1>2
    <2>3. new = first \o rest
      OBVIOUS
    <2> HIDE DEF first, rest, new
    <2>4. /\ new \in Seq(Cells) /\ Len(new) = Len(first) + Len(rest)
          /\ \A i \in 1 .. Len(first) + Len(rest) :
                new[i] = IF i <= Len(first) THEN first[i]
                         ELSE rest[i - Len(first)]
      BY <2>1, <2>2, <2>3, ConcatProperties DEF first
    <2>5. Len(first) = 1 /\ first[1] = value
      BY <2>1 DEF first
    <2>6. Len(new) = 7 /\ new[1] = value
      BY <2>2, <2>4, <2>5
    <2>7. \A i \in 2 .. 7 : new[i] = rest[i - 1]
      BY <2>2, <2>4, <2>5
    <2> QED
      BY <2>4, <2>6, <2>7 DEF rest
  <1> HIDE DEF new
  <1>4. \A i \in 2 .. 7 : new[i] = data[i]
    <2> TAKE i \in 2 .. 7
    <2>1. i - 1 \in 1 .. 6 /\ (i - 1) + 1 = i
      OBVIOUS
    <2> QED
      BY <1>2, <1>3, <2>1
  <1>5. Struct(new)
    BY <1>3, <1>4 DEF Struct
  <1>6. SlotReadAt(new, AdminOffset) = SlotReadAt(data, AdminOffset)
        /\ DecodeAt(new, FreezeOffset) = DecodeAt(data, FreezeOffset)
    BY <1>4, Layout DEF SlotReadAt, DecodeAt
  <1>7. OneWindowOf(data, new)
    BY <1>1, <1>3, <1>4 DEF OneWindowOf, Window
  <1> QED
    BY <1>3, <1>5, <1>6, <1>7 DEF new

\* FreezeConfig::default().
BornVacant == [slot |-> [holder |-> NoId, nominee |-> NoId], is_frozen |-> FALSE]

\* The account as initialize makes it.
LEMMA StructBorn ==
    ASSUME NEW caller \in Ids
    PROVE  LET new == SlotWriteAt(Zeros, SlotInitialize(caller), AdminOffset)
           IN  /\ Struct(new)
               /\ new[1] = 0
               /\ SlotReadAt(new, AdminOffset).holder = caller
               /\ DecodeAt(new, FreezeOffset) = BornVacant
  <1> DEFINE new == SlotWriteAt(Zeros, SlotInitialize(caller), AdminOffset)
  <1>1. Zeros \in Seq(Cells) /\ Len(Zeros) = 7 /\ \A i \in 1 .. 7 : Zeros[i] = 0
    BY Layout DEF Zeros, SlotBytes, Encode, FlagByte
  <1> HIDE DEF Zeros
  <1>2. Struct(Zeros)
    BY <1>1, Layout DEF Struct
  <1>3. SlotInitialize(caller) \in Slots /\ SlotInitialize(caller).holder = caller
        /\ caller # NoId
    BY Layout DEF SlotInitialize, Slots
  <1>4. DecodeAt(Zeros, FreezeOffset) = BornVacant
    <2>1. Zeros[5] = NoId /\ Zeros[6] = NoId /\ (Zeros[7] = 1) = FALSE
      BY <1>1, Layout
    <2>2. SlotReadAt(Zeros, FreezeOffset) = [holder |-> NoId, nominee |-> NoId]
      BY <2>1, Layout DEF SlotReadAt
    <2>3. FreezeOffset + SIZE = 7
      BY Layout
    <2> QED
      BY <2>1, <2>2, <2>3 DEF DecodeAt, BornVacant
  <1> QED
    BY <1>1, <1>2, <1>3, <1>4, AdminWindowWritten

----------------------------------------------------------------------------
(* The account and the records that it holds, before and after a step. *)

C == ConfigAccount

\* What the records are once the account exists.
LEMMA View ==
    ASSUME ChainInv, Born
    PROVE  /\ account[C].owner = "self" /\ Struct(ConfigData)
           /\ AdminRecord = AdminSlot.holder /\ ConfigRecord = LoadedConfig
           /\ ValueRecord = ConfigData[1]
           /\ AdminSlot = SlotReadAt(ConfigData, AdminOffset)
           /\ LoadedConfig = DecodeAt(ConfigData, FreezeOffset)
           /\ AdminSlot \in Slots /\ LoadedConfig \in FreezeConfigs
           /\ AdminSlot.holder = NoId => AdminSlot.nominee = NoId
           /\ AdminRecord # NoData /\ ConfigRecord # NoData
           /\ ValueRecord # NoData
  <1>1. account[C].owner = "self" /\ Struct(ConfigData)
    BY DEF ChainInv, ConfigInv, Born, ConfigData, Default, C
  <1>2. AdminSlot = SlotReadAt(ConfigData, AdminOffset)
    BY Layout DEF AdminSlot, AdminData, ConfigData
  <1>3. AdminSlot \in Slots /\ LoadedConfig \in FreezeConfigs
        /\ AdminSlot = [holder |-> ConfigData[3], nominee |-> ConfigData[4]]
    BY <1>1, <1>2, StructReads DEF LoadedConfig
  <1>4. AdminSlot.holder \in AccountId /\ ConfigData[1] \in Cells
    BY <1>1, <1>3, Layout DEF Slots, Struct
  <1> QED
    BY <1>1, <1>2, <1>3, <1>4, Layout
       DEF AdminRecord, ConfigRecord, ValueRecord, LoadedConfig, Struct

\* Before, there is nothing.
LEMMA NoView ==
    ASSUME ChainInv, ~Born
    PROVE  /\ account[C] = Default
           /\ AdminRecord = NoData /\ ConfigRecord = NoData
           /\ ValueRecord = NoData
  <1>1. \A data : Struct(data) => data # <<>>
    BY StructReads
  <1> QED
    BY <1>1 DEF ChainInv, ConfigInv, Born, ConfigData, C, AdminRecord,
                ConfigRecord, ValueRecord

\* A marker and its record.
LEMMA MarkerView ==
    ASSUME ChainInv, NEW a \in Ids
    PROVE  /\ MarkerRecords[a] = MarkerState(account[Marker(a)].data)
           /\ MarkerResult(account[Marker(a)].data) = Ok
           /\ ~Stranded(Marker(a)) /\ Marker(a) \in Names \ Ids
           /\ Marker(a) # C /\ C \in Names \ Ids
  <1>1. Marker(a) \in Names \ Ids /\ Marker(a) # C /\ C \in Names \ Ids
    BY NamesAssumption, LayoutAssumption DEF Names, C
  <1>2. MarkerResult(account[Marker(a)].data) = Ok /\ ~Stranded(Marker(a))
    BY DEF ChainInv, MarkersInv, MarkerResult, Check, Ok, Stranded, Default
  <1> QED
    BY <1>1, <1>2 DEF MarkerRecords

\* A step that leaves new data in the account.
ConfigStep(touched, signers, new) ==
    /\ KeyStep(touched, signers)
    /\ account'[C] = [owner |-> "self", nonce |-> account[C].nonce, data |-> new]
    /\ \A a \in Ids : account'[Marker(a)] = account[Marker(a)]
    /\ account' = [a \in Names |-> account'[a]]

\* A step that leaves a flag in a marker.
MarkerStep(touched, signers, target, new) ==
    /\ KeyStep(touched, signers)
    /\ account'[C] = account[C]
    /\ account'[Marker(target)]
         = [owner |-> "self", nonce |-> account[Marker(target)].nonce,
            data |-> new]
    /\ \A a \in Ids \ {target} : account'[Marker(a)] = account[Marker(a)]
    /\ account' = [a \in Names |-> account'[a]]

\* A step that is none of the program's.
PassStep(touched, signers) ==
    /\ KeyStep(touched, signers)
    /\ account'[C] = account[C]
    /\ \A a \in Ids : account'[Marker(a)] = account[Marker(a)]
    /\ account' = [a \in Names |-> account'[a]]

\* The accounts of a chain, by kind.
LEMMA NamesByKind ==
    \A a \in Names : a \in Ids \/ a = C \/ \E b \in Ids : a = Marker(b)
  BY EmbeddedAssumption DEF Names, C

\* The types after a step are those of its keys, its account and its markers.
LEMMA TypesByKind ==
    ASSUME NEW touched \in SUBSET Ids, NEW signers \in SUBSET touched,
           ChainInv, KeyStep(touched, signers), account' = [a \in Names |-> account'[a]],
           account'[C] \in [owner : Owners, nonce : BOOLEAN, data : Seq(Cells)],
           \A a \in Ids : account'[Marker(a)] \in
               [owner : Owners, nonce : BOOLEAN, data : Seq(Cells)]
    PROVE  ChainTypeOK'
  <1>1. \A a \in Ids : account'[a] \in
            [owner : Owners, nonce : BOOLEAN, data : Seq(Cells)]
    BY KeyLedger DEF ChainInv
  <1>2. \A a \in Names : account'[a] \in
            [owner : Owners, nonce : BOOLEAN, data : Seq(Cells)]
    BY <1>1, NamesByKind
  <1>3. authorized' \subseteq Ids
    BY DEF KeyStep
  <1>4. account' \in [Names -> [owner : Owners, nonce : BOOLEAN,
                                data : Seq(Cells)]]
    BY <1>2
  <1> QED
    BY <1>3, <1>4 DEF ChainTypeOK

\* What the records see of the keys in a step.
LEMMA LedgerStep ==
    ASSUME ChainInv, NEW touched \in SUBSET Ids, NEW signers \in SUBSET touched,
           KeyStep(touched, signers)
    PROVE  Records!Lands(touched, signers)
  BY KeyLedger DEF ChainInv, Records!Lands

\* After new data the invariant holds and the records are what the data says.
LEMMA ConfigStepEffect ==
    ASSUME ChainInv, NEW touched \in SUBSET Ids, NEW signers \in SUBSET touched,
           NEW new, Struct(new), ConfigStep(touched, signers, new)
    PROVE  /\ ChainInv' /\ Born' /\ ConfigData' = new
           /\ Records!Lands(touched, signers)
           /\ AdminRecord' = SlotReadAt(new, AdminOffset).holder
           /\ ConfigRecord' = DecodeAt(new, FreezeOffset)
           /\ ValueRecord' = new[1]
           /\ MarkerRecords' = MarkerRecords
  <1>1. KeyStep(touched, signers)
    BY DEF ConfigStep
  <1>2. account'[C] = [owner |-> "self", nonce |-> account[C].nonce, data |-> new]
        /\ \A a \in Ids : account'[Marker(a)] = account[Marker(a)]
    BY DEF ConfigStep
  <1>3. new \in Seq(Cells) /\ new # <<>>
    BY StructReads DEF Struct
  <1>4. \A a \in Names :
            account[a] \in [owner : Owners, nonce : BOOLEAN, data : Seq(Cells)]
    BY DEF ChainInv, ChainTypeOK
  <1>5. ChainTypeOK'
    <2>1. account'[C] \in [owner : Owners, nonce : BOOLEAN, data : Seq(Cells)]
      <3>1. account[C].nonce \in BOOLEAN
        BY <1>4, MarkerView DEF Names, C
      <3> QED
        BY <1>2, <1>3, <3>1 DEF Owners
    <2>2. \A a \in Ids : account'[Marker(a)] \in
              [owner : Owners, nonce : BOOLEAN, data : Seq(Cells)]
      BY <1>2, <1>4, MarkerView
    <2> QED
      BY <1>1, <2>1, <2>2, TypesByKind DEF ConfigStep
  <1>6. ConfigData' = new /\ account'[C].owner = "self"
    BY <1>2 DEF ConfigData, C
  <1>7. KeysInv' /\ Records!Lands(touched, signers)
    BY <1>1, KeyLedger, LedgerStep DEF ChainInv
  <1>8. MarkersInv'
    BY <1>2 DEF ChainInv, MarkersInv
  <1>9. ConfigInv' /\ ChainInv'
    BY <1>5, <1>6, <1>7, <1>8 DEF ChainInv, ConfigInv, C
  <1>10. Born'
    BY <1>3, <1>6 DEF Born
  <1>11. /\ AdminRecord' = SlotReadAt(new, AdminOffset).holder
         /\ ConfigRecord' = DecodeAt(new, FreezeOffset)
         /\ ValueRecord' = new[1]
    <2>1. AdminData' = new
      BY <1>6, Layout DEF AdminData, ConfigData
    <2> QED
      BY <1>6, <1>10, <2>1
         DEF AdminRecord, ConfigRecord, ValueRecord, AdminSlot, LoadedConfig
  <1>12. MarkerRecords' = MarkerRecords
    BY <1>2 DEF MarkerRecords
  <1> QED
    BY <1>6, <1>7, <1>9, <1>10, <1>11, <1>12

\* The records of the account while it stays as it is.
LEMMA ConfigKept ==
    ASSUME account'[C] = account[C]
    PROVE  /\ ConfigData' = ConfigData /\ (Born' <=> Born)
           /\ UNCHANGED <<AdminRecord, ConfigRecord, ValueRecord>>
           /\ ConfigInv => ConfigInv'
  <1>1. ConfigData' = ConfigData
    BY DEF ConfigData, C
  <1>2. AdminData' = AdminData
    BY <1>1, Layout DEF AdminData, ConfigData
  <1>3. AdminSlot' = AdminSlot /\ LoadedConfig' = LoadedConfig /\ (Born' <=> Born)
    BY <1>1, <1>2 DEF AdminSlot, LoadedConfig, Born
  <1>4. UNCHANGED <<AdminRecord, ConfigRecord, ValueRecord>>
    BY <1>1, <1>3 DEF AdminRecord, ConfigRecord, ValueRecord
  <1>5. ConfigInv => ConfigInv'
    BY <1>1 DEF ConfigInv, C
  <1> QED
    BY <1>1, <1>3, <1>4, <1>5

\* After a flag is written the marker's record is that flag.
LEMMA MarkerStepEffect ==
    ASSUME ChainInv, NEW touched \in SUBSET Ids, NEW signers \in SUBSET touched,
           NEW target \in Ids, NEW state \in BOOLEAN,
           MarkerStep(touched, signers, target, MarkerBytes(state))
    PROVE  /\ ChainInv' /\ ConfigData' = ConfigData
           /\ Records!Lands(touched, signers)
           /\ UNCHANGED <<AdminRecord, ConfigRecord, ValueRecord>>
           /\ MarkerRecords'
                = [MarkerRecords EXCEPT ![target] = [is_frozen |-> state]]
  <1> DEFINE bytes == MarkerBytes(state)
  <1>1. KeyStep(touched, signers) /\ account'[C] = account[C]
    BY DEF MarkerStep
  <1>2. bytes \in {<<0>>, <<1>>} /\ bytes \in Seq(Cells)
    BY FlagBytes, FlagData
  <1> HIDE DEF bytes
  <1>3. /\ account'[Marker(target)].owner = "self"
        /\ account'[Marker(target)].data = bytes
        /\ account'[Marker(target)].nonce = account[Marker(target)].nonce
        /\ \A a \in Ids \ {target} : account'[Marker(a)] = account[Marker(a)]
    BY DEF MarkerStep, bytes
  <1>4. \A a \in Names :
            account[a] \in [owner : Owners, nonce : BOOLEAN, data : Seq(Cells)]
    BY DEF ChainInv, ChainTypeOK
  <1>5. ChainTypeOK'
    <2>1. account'[Marker(target)]
            \in [owner : Owners, nonce : BOOLEAN, data : Seq(Cells)]
      <3>1. account[Marker(target)].nonce \in BOOLEAN
        BY <1>4, MarkerView
      <3> QED
        BY <1>2, <3>1 DEF Owners, MarkerStep, bytes
    <2>2. \A a \in Ids : account'[Marker(a)] \in
              [owner : Owners, nonce : BOOLEAN, data : Seq(Cells)]
      BY <1>3, <1>4, <2>1, MarkerView
    <2>3. account'[C] \in [owner : Owners, nonce : BOOLEAN, data : Seq(Cells)]
      BY <1>1, <1>4, MarkerView
    <2> QED
      BY <1>1, <2>2, <2>3, TypesByKind DEF MarkerStep
  <1>6. MarkersInv'
    BY <1>2, <1>3 DEF ChainInv, MarkersInv
  <1>7. KeysInv' /\ Records!Lands(touched, signers)
    BY <1>1, KeyLedger, LedgerStep DEF ChainInv
  <1>8. ChainInv'
    BY <1>1, <1>5, <1>6, <1>7, ConfigKept DEF ChainInv
  <1>9. MarkerRecords' = [MarkerRecords EXCEPT ![target] = [is_frozen |-> state]]
    <2>1. MarkerState(bytes) = [is_frozen |-> state]
      BY FlagBytes DEF bytes
    <2> QED
      BY <1>3, <2>1 DEF MarkerRecords
  <1> QED
    BY <1>1, <1>7, <1>8, <1>9, ConfigKept

\* A step elsewhere leaves every record as it is.
LEMMA PassStepEffect ==
    ASSUME ChainInv, NEW touched \in SUBSET Ids, NEW signers \in SUBSET touched,
           PassStep(touched, signers)
    PROVE  /\ ChainInv' /\ ConfigData' = ConfigData
           /\ Records!Lands(touched, signers)
           /\ UNCHANGED <<AdminRecord, ConfigRecord, ValueRecord, MarkerRecords>>
  <1>1. KeyStep(touched, signers) /\ account'[C] = account[C]
        /\ \A a \in Ids : account'[Marker(a)] = account[Marker(a)]
    BY DEF PassStep
  <1>2. \A a \in Names :
            account[a] \in [owner : Owners, nonce : BOOLEAN, data : Seq(Cells)]
    BY DEF ChainInv, ChainTypeOK
  <1>3. ChainTypeOK'
    <2>1. account'[C] \in [owner : Owners, nonce : BOOLEAN, data : Seq(Cells)]
      BY <1>1, <1>2, MarkerView DEF Names, C
    <2>2. \A a \in Ids : account'[Marker(a)] \in
              [owner : Owners, nonce : BOOLEAN, data : Seq(Cells)]
      BY <1>1, <1>2, MarkerView
    <2> QED
      BY <1>1, <2>1, <2>2, TypesByKind DEF PassStep
  <1>4. KeysInv' /\ Records!Lands(touched, signers)
    BY <1>1, KeyLedger, LedgerStep DEF ChainInv
  <1>5. MarkersInv'
    BY <1>1 DEF ChainInv, MarkersInv
  <1>6. ChainInv'
    BY <1>1, <1>3, <1>4, <1>5, ConfigKept DEF ChainInv
  <1>7. MarkerRecords' = MarkerRecords
    BY <1>1 DEF MarkerRecords
  <1> QED
    BY <1>1, <1>4, <1>6, <1>7, ConfigKept

----------------------------------------------------------------------------
(* The shapes of the program's calls. *)

\* A write to the account, in the company of accounts that are passed through.
LEMMA ConfigCall ==
    ASSUME ChainInv, NEW call, Lands(call), NEW touched,
           NEW k \in 1 .. Len(call.accounts), call.accounts[k] = C,
           PassesThrough(call, touched, k), NEW data \in Seq(Cells),
           \/ call.posts[k] = PostState(C, data) /\ Born
           \/ call.posts[k] = Claimed(C, data)
    PROVE  ConfigStep(touched, call.signers, data)
  <1>1. ChainTypeOK /\ call.accounts[k] \notin Ids /\ C \in Names
        /\ call.accounts \in Seq(Names) /\ call.signers \subseteq Ids
    BY LayoutAssumption DEF ChainInv, C, Names, PassesThrough
  <1>2. /\ KeyStep(touched, call.signers)
        /\ account' = [a \in Names |-> account'[a]]
        /\ \A a \in Names \ Ids : a # C => account'[a] = account[a]
    BY <1>1, RestPasses
  <1>3. \A a \in Ids : account'[Marker(a)] = account[Marker(a)]
    BY <1>2, MarkerView
  <1>4. account[C] \in [owner : Owners, nonce : BOOLEAN, data : Seq(Cells)]
    BY <1>1 DEF ChainTypeOK
  <1>5. account'[C] = [owner |-> "self", nonce |-> account[C].nonce, data |-> data]
    <2>1. CASE call.posts[k] = PostState(C, data) /\ Born
      <3>1. account'[C] = [account[C] EXCEPT !.data = data]
        BY <1>1, <2>1, DataWritten
      <3>2. account[C].owner = "self"
        BY <2>1, View
      <3> QED
        BY <1>4, <3>1, <3>2
    <2>2. CASE call.posts[k] = Claimed(C, data)
      BY <1>1, <2>2, DataClaimed
    <2> QED
      BY <2>1, <2>2
  <1> QED
    BY <1>2, <1>3, <1>5 DEF ConfigStep

\* Likewise to a marker.
LEMMA MarkerCall ==
    ASSUME ChainInv, NEW call, Lands(call), NEW touched, NEW target \in Ids,
           NEW k \in 1 .. Len(call.accounts), call.accounts[k] = Marker(target),
           PassesThrough(call, touched, k), NEW data \in Seq(Cells),
           \/ /\ call.posts[k] = PostState(Marker(target), data)
              /\ account[Marker(target)].owner = "self"
           \/ call.posts[k] = Claimed(Marker(target), data)
    PROVE  MarkerStep(touched, call.signers, target, data)
  <1> DEFINE M == Marker(target)
  <1>1. ChainTypeOK /\ call.accounts[k] \notin Ids /\ M \in Names
        /\ call.accounts \in Seq(Names) /\ call.signers \subseteq Ids
    BY MarkerView DEF ChainInv, PassesThrough
  <1>2. /\ KeyStep(touched, call.signers)
        /\ account' = [a \in Names |-> account'[a]]
        /\ \A a \in Names \ Ids : a # M => account'[a] = account[a]
    BY <1>1, RestPasses
  <1>3. account'[C] = account[C]
    BY <1>2, MarkerView
  <1>4. \A a \in Ids \ {target} : account'[Marker(a)] = account[Marker(a)]
    <2>1. \A a \in Ids \ {target} : Marker(a) # M
      BY DEF Marker
    <2> QED
      BY <1>2, <2>1, MarkerView
  <1>5. account[M] \in [owner : Owners, nonce : BOOLEAN, data : Seq(Cells)]
    BY <1>1 DEF ChainTypeOK
  <1>6. account'[M] = [owner |-> "self", nonce |-> account[M].nonce, data |-> data]
    <2>1. CASE call.posts[k] = PostState(M, data) /\ account[M].owner = "self"
      <3>1. account'[M] = [account[M] EXCEPT !.data = data]
        BY <1>1, <2>1, DataWritten
      <3> QED
        BY <1>5, <2>1, <3>1
    <2>2. CASE call.posts[k] = Claimed(M, data)
      <3>1. call.posts[k] = Claimed(call.accounts[k], data)
        BY <2>2
      <3>2. account'[call.accounts[k]]
              = [owner |-> "self", nonce |-> account[call.accounts[k]].nonce,
                 data |-> data]
        BY <1>1, <3>1, DataClaimed
      <3> QED
        BY <3>2
    <2> QED
      BY <2>1, <2>2
  <1> QED
    BY <1>2, <1>3, <1>4, <1>6 DEF MarkerStep

\* The shapes that the program's calls have.
LEMMA CallOnConfig ==
    ASSUME ChainInv, Born, NEW caller \in Ids, NEW data \in Seq(Cells),
           NEW result,
           Lands(Call(<<C, caller>>, {caller}, result,
                      <<PostState(C, data), Unchanged(caller)>>))
    PROVE  result = Ok /\ ConfigStep({caller}, {caller}, data)
  <1> DEFINE call == Call(<<C, caller>>, {caller}, result,
                          <<PostState(C, data), Unchanged(caller)>>)
  <1>1. result = Ok
    BY DEF Lands, Call
  <1>2. /\ call.accounts = <<C, caller>> /\ call.signers = {caller}
        /\ call.posts = <<PostState(C, data), Unchanged(caller)>>
    BY <1>1 DEF Call
  <1>3. C \in Names /\ caller \in Names
    BY DEF C, Names
  <1>4. Lands(call)
    OBVIOUS
  <1> HIDE DEF call
  <1>5. 1 \in 1 .. Len(call.accounts) /\ call.accounts[1] = C
        /\ call.posts[1] = PostState(C, data)
    BY <1>2
  <1>6. PassesThrough(call, {caller}, 1)
    BY <1>2, <1>3 DEF PassesThrough
  <1>7. ConfigStep({caller}, call.signers, data)
    BY <1>4, <1>5, <1>6, ConfigCall
  <1> QED
    BY <1>1, <1>2, <1>7

\* The gate's marker comes along.
LEMMA CallPastGate ==
    ASSUME ChainInv, Born, NEW caller \in Ids, NEW data \in Seq(Cells),
           NEW result,
           Lands(Call(<<C, Marker(caller), caller>>, {caller}, result,
                      <<PostState(C, data), Unchanged(Marker(caller)),
                        Unchanged(caller)>>))
    PROVE  result = Ok /\ ConfigStep({caller}, {caller}, data)
  <1> DEFINE M == Marker(caller)
             call == Call(<<C, M, caller>>, {caller}, result,
                          <<PostState(C, data), Unchanged(M), Unchanged(caller)>>)
  <1>1. result = Ok
    BY DEF Lands, Call
  <1>2. /\ call.accounts = <<C, M, caller>> /\ call.signers = {caller}
        /\ call.posts = <<PostState(C, data), Unchanged(M), Unchanged(caller)>>
    BY <1>1 DEF Call
  <1>3. C \in Names /\ M \in Names \ Ids /\ caller \in Names
    BY MarkerView DEF C, Names
  <1>4. Lands(call)
    OBVIOUS
  <1> HIDE DEF call, M
  <1>5. 1 \in 1 .. Len(call.accounts) /\ call.accounts[1] = C
        /\ call.posts[1] = PostState(C, data)
    BY <1>2
  <1>6. PassesThrough(call, {caller}, 1)
    BY <1>2, <1>3 DEF PassesThrough
  <1>7. ConfigStep({caller}, call.signers, data)
    BY <1>4, <1>5, <1>6, ConfigCall
  <1> QED
    BY <1>1, <1>2, <1>7

\* The account that gets a role comes along.
LEMMA CallWithNew ==
    ASSUME ChainInv, Born, NEW caller \in Ids, NEW new \in Ids,
           NEW data \in Seq(Cells), NEW cosigns \in BOOLEAN, NEW result,
           Lands(Call(<<C, caller, new>>,
                      IF cosigns THEN {caller, new} ELSE {caller}, result,
                      <<PostState(C, data), Unchanged(caller), Unchanged(new)>>))
    PROVE  /\ result = Ok /\ new # caller
           /\ ConfigStep({caller, new},
                         IF cosigns THEN {caller, new} ELSE {caller}, data)
  <1> DEFINE signers == IF cosigns THEN {caller, new} ELSE {caller}
             call == Call(<<C, caller, new>>, signers, result,
                          <<PostState(C, data), Unchanged(caller), Unchanged(new)>>)
  <1>1. result = Ok
    BY DEF Lands, Call
  <1>2. /\ call.accounts = <<C, caller, new>> /\ call.signers = signers
        /\ call.posts = <<PostState(C, data), Unchanged(caller), Unchanged(new)>>
    BY <1>1 DEF Call
  <1>3. C \in Names /\ new \in Names /\ caller \in Names
    BY DEF C, Names
  <1>4. Lands(call) /\ signers \subseteq {caller, new}
    OBVIOUS
  <1> HIDE DEF call, signers
  <1>5. 1 \in 1 .. Len(call.accounts) /\ call.accounts[1] = C
        /\ call.posts[1] = PostState(C, data)
    BY <1>2
  <1>6. PassesThrough(call, {caller, new}, 1)
    BY <1>2, <1>3, <1>4 DEF PassesThrough
  <1>7. ConfigStep({caller, new}, call.signers, data)
    BY <1>4, <1>5, <1>6, ConfigCall
  <1>8. new # caller
    <2>1. Distinct(call.accounts)
      BY <1>4 DEF Lands
    <2> QED
      BY <1>2, <2>1 DEF Distinct
  <1> QED
    BY <1>1, <1>2, <1>7, <1>8 DEF signers

\* The account comes into being.
LEMMA CallBorn ==
    ASSUME ChainInv, NEW caller \in Ids, NEW data \in Seq(Cells), NEW result,
           Lands(Call(<<caller, C>>, {caller}, result,
                      <<Unchanged(caller), Claimed(C, data)>>))
    PROVE  result = Ok /\ ConfigStep({caller}, {caller}, data)
  <1> DEFINE call == Call(<<caller, C>>, {caller}, result,
                          <<Unchanged(caller), Claimed(C, data)>>)
  <1>1. result = Ok
    BY DEF Lands, Call
  <1>2. /\ call.accounts = <<caller, C>> /\ call.signers = {caller}
        /\ call.posts = <<Unchanged(caller), Claimed(C, data)>>
    BY <1>1 DEF Call
  <1>3. C \in Names /\ caller \in Names
    BY DEF C, Names
  <1>4. Lands(call)
    OBVIOUS
  <1> HIDE DEF call
  <1>5. 2 \in 1 .. Len(call.accounts) /\ call.accounts[2] = C
        /\ call.posts[2] = Claimed(C, data)
    BY <1>2
  <1>6. PassesThrough(call, {caller}, 2)
    BY <1>2, <1>3 DEF PassesThrough
  <1>7. ConfigStep({caller}, call.signers, data)
    BY <1>4, <1>5, <1>6, ConfigCall
  <1> QED
    BY <1>1, <1>2, <1>7

\* A marker is written and the account only read.
LEMMA CallOnMarker ==
    ASSUME ChainInv, NEW caller \in Ids, NEW target \in Ids,
           NEW data \in Seq(Cells), NEW post,
           \/ /\ post = PostState(Marker(target), data)
              /\ account[Marker(target)].owner = "self"
           \/ post = Claimed(Marker(target), data),
           NEW result,
           Lands(Call(<<C, Marker(target), caller>>, {caller}, result,
                      <<Unchanged(C), post, Unchanged(caller)>>))
    PROVE  result = Ok /\ MarkerStep({caller}, {caller}, target, data)
  <1> DEFINE M == Marker(target)
             call == Call(<<C, M, caller>>, {caller}, result,
                          <<Unchanged(C), post, Unchanged(caller)>>)
  <1>1. result = Ok
    BY DEF Lands, Call
  <1>2. /\ call.accounts = <<C, M, caller>> /\ call.signers = {caller}
        /\ call.posts = <<Unchanged(C), post, Unchanged(caller)>>
    BY <1>1 DEF Call
  <1>3. C \in Names \ Ids /\ M \in Names /\ caller \in Names
    BY MarkerView DEF Names
  <1>4. Lands(call)
    OBVIOUS
  <1> HIDE DEF call, M
  <1>5. 2 \in 1 .. Len(call.accounts) /\ call.accounts[2] = M
        /\ call.posts[2] = post
    BY <1>2
  <1>6. PassesThrough(call, {caller}, 2)
    BY <1>2, <1>3 DEF PassesThrough
  <1>7. MarkerStep({caller}, call.signers, target, data)
    BY <1>4, <1>5, <1>6, MarkerCall DEF M
  <1> QED
    BY <1>1, <1>2, <1>7

\* The transaction of another program.
LEMMA CallElsewhere ==
    ASSUME ChainInv, NEW a \in Ids, OtherTransaction(a)
    PROVE  PassStep({a}, {a})
  BY OtherPassesBy, MarkerView DEF ChainInv, PassesBy, PassStep

----------------------------------------------------------------------------
(* The checks and updates of the bytes are those of the records. *)

\* Where the config can be loaded the account exists, and the admin slot is
\* the one that the records show.
LEMMA LoadedOk ==
    ASSUME ChainInv, FreezeConfigResult = Ok \/ AdminConfigResult = Ok
    PROVE  /\ Born /\ FreezeConfigResult = Ok /\ AdminConfigResult = Ok
           /\ AdminOrNone = AdminRecord
           /\ WriteToAtResult(ConfigData, FreezeOffset) = Ok
  <1>1. Born
    BY Layout, ThenOk DEF FreezeConfigResult, DecodeAtResult, AdminConfigResult,
                          AdminData, ConfigData, Born, Check, Ok
  <1>2. AdminData = ConfigData /\ Struct(ConfigData) /\ ConfigData # <<>>
    BY <1>1, View, Layout DEF AdminData, ConfigData, Born
  <1>3. FreezeConfigResult = Ok /\ AdminConfigResult = Ok
        /\ WriteToAtResult(ConfigData, FreezeOffset) = Ok
    BY <1>2, StructReads DEF FreezeConfigResult, AdminConfigResult, Check, ??, Ok
  <1> QED
    BY <1>1, <1>3, View DEF AdminOrNone

\* The checks and updates of the records are the library's own.
LEMMA SameChecks ==
    /\ Records!Ok = Ok
    /\ \A first, next : Records!??(first, next) = (first ?? next)
    /\ \A admin, signer : Records!AssertAdmin(admin, signer)
                            = AssertAdmin(admin, signer)
    /\ \A config, signer : Records!AssertHolder(config, signer)
                             = AssertHolder(config, signer)
    /\ \A candidate, new : Records!Validate(candidate, new)
                             = Validate(candidate, new)
    /\ \A candidate, new : Records!TransferResult(candidate, new)
                             = TransferResult(candidate, new)
    /\ \A id : Records!SlotInitializeResult(id) = SlotInitializeResult(id)
    /\ \A admin, config, signer : Records!DualPath(admin, config, signer)
                                    = DualPath(admin, config, signer)
    /\ \A config, nominee : Records!AcceptResult(config, nominee)
                              = AcceptResult(config, nominee)
  <1>1. Records!Ok = Ok /\ \A first, next : Records!??(first, next) = (first ?? next)
    BY DEF Records!??, ??, Records!Ok, Ok
  <1>2. \A admin, signer : Records!AssertAdmin(admin, signer)
                             = AssertAdmin(admin, signer)
    BY DEF Records!AssertAdmin, AssertAdmin, Records!??, ??, Records!Check, Check,
           Records!Ok, Ok
  <1>3. \A slot, signer : Records!SlotAssert(slot, signer)
                            = SlotAssert(slot, signer)
    BY DEF Records!SlotAssert, SlotAssert, Records!??, ??, Records!Check, Check,
           Records!Ok, Ok
  <1>4. \A e : Records!FromAuthorityError(e) = FromAuthorityError(e)
    BY DEF Records!FromAuthorityError, FromAuthorityError
  <1>5. \A config, signer : Records!AssertHolder(config, signer)
                              = AssertHolder(config, signer)
    BY <1>3, <1>4 DEF Records!AssertHolder, AssertHolder
  <1>6. \A candidate, new : Records!Validate(candidate, new)
                              = Validate(candidate, new)
    BY DEF Records!Validate, Validate, Records!??, ??, Records!Check, Check,
           Records!Ok, Ok
  <1>7. \A id : Records!SlotInitializeResult(id) = SlotInitializeResult(id)
    BY DEF Records!SlotInitializeResult, SlotInitializeResult, Records!Check,
           Check, Records!Ok, Ok
  <1>8. \A candidate, new : Records!TransferResult(candidate, new)
                              = TransferResult(candidate, new)
    BY <1>1, <1>4, <1>6, <1>7 DEF Records!TransferResult, TransferResult
  <1>9. \A admin, config, signer : Records!DualPath(admin, config, signer)
                                     = DualPath(admin, config, signer)
    BY <1>1, <1>2, <1>3 DEF Records!DualPath, DualPath, Records!Check, Check
  <1>10. \A slot, signer : Records!SlotAcceptResult(slot, signer)
                             = SlotAcceptResult(slot, signer)
    BY DEF Records!SlotAcceptResult, SlotAcceptResult, Records!??, ??,
           Records!Check, Check, Records!Ok, Ok
  <1>11. \A config, nominee : Records!AcceptResult(config, nominee)
                                = AcceptResult(config, nominee)
    BY <1>4, <1>10 DEF Records!AcceptResult, AcceptResult
  <1> QED
    BY <1>1, <1>2, <1>5, <1>6, <1>7, <1>8, <1>9, <1>11

\* So are the updates.
LEMMA SameUpdates ==
    /\ \A config, id : Records!Transfer(config, id) = Transfer(config, id)
    /\ \A config : Records!Renounce(config) = Renounce(config)
    /\ \A config, id : Records!Nominate(config, id) = Nominate(config, id)
    /\ \A config : Records!Accept(config) = Accept(config)
    /\ \A config, state : Records!SetIsFrozen(config, state)
                            = SetIsFrozen(config, state)
    /\ \A data : Records!FromDataOrDefault(data) = FromDataOrDefault(data)
  <1>1. \A config, id : Records!Transfer(config, id) = Transfer(config, id)
    BY DEF Records!Transfer, Transfer, Records!SlotTransfer, SlotTransfer
  <1>2. \A config : Records!Renounce(config) = Renounce(config)
    BY DEF Records!Renounce, Renounce, Records!SlotRenounce, SlotRenounce
  <1>3. \A config, id : Records!Nominate(config, id) = Nominate(config, id)
    BY DEF Records!Nominate, Nominate, Records!SlotNominate, SlotNominate
  <1>4. \A config : Records!Accept(config) = Accept(config)
    BY DEF Records!Accept, Accept, Records!SlotAccept, SlotAccept
  <1>5. \A config, state : Records!SetIsFrozen(config, state)
                             = SetIsFrozen(config, state)
    BY DEF Records!SetIsFrozen, SetIsFrozen
  <1>6. \A data : Records!FromDataOrDefault(data) = FromDataOrDefault(data)
    BY DEF Records!FromDataOrDefault, FromDataOrDefault
  <1> QED
    BY <1>1, <1>2, <1>3, <1>4, <1>5, <1>6

\* A handler sees the accounts as the records' ledger does.
LEMMA SameAccount ==
    ASSUME NEW a \in Ids, NEW signed
    PROVE  /\ Records!AccountOf(a, signed) = AccountOf(a, signed)
           /\ Records!Caller(a) = Caller(a)
  <1>1. (a \in OwnedKeys) = (account[a].owner # "default")
    BY DEF OwnedKeys
  <1>2. \A s : Records!AccountOf(a, s) = AccountOf(a, s)
    BY <1>1 DEF Records!AccountOf, AccountOf
  <1> QED
    BY <1>2 DEF Records!Caller, Caller

\* The library's role instructions run ungated.
LEMMA RecordsUngated ==
    ASSUME NEW instruction \in Records!FreezeExempt, NEW caller
    PROVE  Records!Gate(instruction, caller) = Ok
  BY DEF Records!Gate, Records!Ok, Ok

----------------------------------------------------------------------------
(* What lands on the bytes has landed on the records. *)

\* A step keeps to one window of the account.
Kept == ConfigData' = ConfigData \/ (Born => OneWindow)

\* A config lands in its window: the records change in that one place.
LEMMA FreezeWrite ==
    ASSUME ChainInv, Born, NEW config \in FreezeConfigs,
           NEW touched \in SUBSET Ids, NEW signers \in SUBSET touched,
           ConfigStep(touched, signers,
                      WriteToAt(ConfigData, config, FreezeOffset))
    PROVE  /\ ChainInv' /\ Kept /\ Records!Lands(touched, signers)
           /\ ConfigRecord' = config
           /\ UNCHANGED <<AdminRecord, ValueRecord, MarkerRecords>>
  <1> DEFINE new == WriteToAt(ConfigData, config, FreezeOffset)
  <1>1. /\ Struct(new) /\ new[1] = ConfigData[1]
        /\ SlotReadAt(new, AdminOffset) = AdminSlot
        /\ DecodeAt(new, FreezeOffset) = config
        /\ OneWindowOf(ConfigData, new)
    BY View, FreezeWindowWritten
  <1> HIDE DEF new
  <1>2. ConfigStep(touched, signers, new)
    BY DEF new
  <1>3. /\ ChainInv' /\ ConfigData' = new /\ Records!Lands(touched, signers)
        /\ AdminRecord' = AdminSlot.holder /\ ConfigRecord' = config
        /\ ValueRecord' = ConfigData[1] /\ MarkerRecords' = MarkerRecords
    BY <1>1, <1>2, ConfigStepEffect
  <1>4. Kept
    BY <1>1, <1>3 DEF Kept, OneWindow, OneWindowOf
  <1> QED
    BY <1>3, <1>4, View

\* A slot lands in the admin's window.
LEMMA AdminWrite ==
    ASSUME ChainInv, Born, NEW slot \in Slots,
           slot.holder = NoId => slot.nominee = NoId,
           NEW touched \in SUBSET Ids, NEW signers \in SUBSET touched,
           ConfigStep(touched, signers,
                      SlotWriteAt(ConfigData, slot, AdminOffset))
    PROVE  /\ ChainInv' /\ Kept /\ Records!Lands(touched, signers)
           /\ AdminRecord' = slot.holder
           /\ UNCHANGED <<ConfigRecord, ValueRecord, MarkerRecords>>
  <1> DEFINE new == SlotWriteAt(ConfigData, slot, AdminOffset)
  <1>1. /\ Struct(new) /\ new[1] = ConfigData[1]
        /\ SlotReadAt(new, AdminOffset) = slot
        /\ DecodeAt(new, FreezeOffset) = LoadedConfig
        /\ OneWindowOf(ConfigData, new)
    BY View, AdminWindowWritten
  <1> HIDE DEF new
  <1>2. ConfigStep(touched, signers, new)
    BY DEF new
  <1>3. /\ ChainInv' /\ ConfigData' = new /\ Records!Lands(touched, signers)
        /\ AdminRecord' = slot.holder /\ ConfigRecord' = LoadedConfig
        /\ ValueRecord' = ConfigData[1] /\ MarkerRecords' = MarkerRecords
    BY <1>1, <1>2, ConfigStepEffect
  <1>4. Kept
    BY <1>1, <1>3 DEF Kept, OneWindow, OneWindowOf
  <1> QED
    BY <1>3, <1>4, View

\* Another value lands in the program's own.
LEMMA ValueWrite ==
    ASSUME ChainInv, Born, NEW value \in Values,
           NEW touched \in SUBSET Ids, NEW signers \in SUBSET touched,
           ConfigStep(touched, signers, WithValue(value))
    PROVE  /\ ChainInv' /\ Kept /\ Records!Lands(touched, signers)
           /\ ValueRecord' = value
           /\ UNCHANGED <<AdminRecord, ConfigRecord, MarkerRecords>>
  <1> DEFINE new == WithValue(value)
  <1>1. /\ Struct(new) /\ new[1] = value
        /\ SlotReadAt(new, AdminOffset) = AdminSlot
        /\ DecodeAt(new, FreezeOffset) = LoadedConfig
        /\ OneWindowOf(ConfigData, new)
    BY View, ValueWritten DEF WithValue
  <1> HIDE DEF new
  <1>2. ConfigStep(touched, signers, new)
    BY DEF new
  <1>3. /\ ChainInv' /\ ConfigData' = new /\ Records!Lands(touched, signers)
        /\ AdminRecord' = AdminSlot.holder /\ ConfigRecord' = LoadedConfig
        /\ ValueRecord' = value /\ MarkerRecords' = MarkerRecords
    BY <1>1, <1>2, ConfigStepEffect
  <1>4. Kept
    BY <1>1, <1>3 DEF Kept, OneWindow, OneWindowOf
  <1> QED
    BY <1>3, <1>4, View

\* What is written is data.
LEMMA WrittenData ==
    ASSUME ChainInv, Born
    PROVE  /\ \A config \in FreezeConfigs :
                 WriteToAt(ConfigData, config, FreezeOffset) \in Seq(Cells)
           /\ \A slot \in Slots :
                 (slot.holder = NoId => slot.nominee = NoId)
                   => SlotWriteAt(ConfigData, slot, AdminOffset) \in Seq(Cells)
           /\ \A value \in Values : WithValue(value) \in Seq(Cells)
  <1>1. Struct(ConfigData)
    BY View
  <1> QED
    BY <1>1, FreezeWindowWritten, AdminWindowWritten, ValueWritten
       DEF Struct, WithValue

\* The role's instructions, one by one: what lands on the bytes has landed on
\* the records.
LEMMA NominateLands ==
    ASSUME ChainInv, NEW caller \in Ids, NEW next \in AccountId,
           Lands(freeze_authority_nominate(caller, next))
    PROVE  /\ ChainInv' /\ Kept /\ UNCHANGED ValueRecord
           /\ Records!freeze_authority_nominate(caller, next)
  <1> DEFINE result == Perform(DualPath(AdminOrNone, LoadedConfig, Caller(caller)))
             new == Nominate(LoadedConfig, next)
  <1>1. freeze_authority_nominate(caller, next)
          = Call(<<C, caller>>, {caller}, result,
                 <<PostState(C, WriteToAt(ConfigData, new, FreezeOffset)),
                   Unchanged(caller)>>)
    BY Layout, Tuples
       DEF freeze_authority_nominate, ConfigPair, PostStatePair, Written, C
  <1>2. result = Ok
    BY LandsOk DEF freeze_authority_nominate
  <1>3. FreezeConfigResult = Ok
        /\ DualPath(AdminOrNone, LoadedConfig, Caller(caller)) = Ok
    BY <1>2, ThenOk DEF Perform
  <1>4. Born /\ AdminOrNone = AdminRecord
    BY <1>3, LoadedOk
  <1>5. LoadedConfig = ConfigRecord /\ new \in FreezeConfigs /\ ConfigRecord # NoData
    BY <1>4, View, UpdatesKeepRecords
  <1> HIDE DEF result, new
  <1>6. ConfigStep({caller}, {caller}, WriteToAt(ConfigData, new, FreezeOffset))
    BY <1>1, <1>4, <1>5, WrittenData, CallOnConfig
  <1>7. /\ ChainInv' /\ Kept /\ Records!Lands({caller}, {caller})
        /\ ConfigRecord' = new
        /\ UNCHANGED <<AdminRecord, ValueRecord, MarkerRecords>>
    BY <1>4, <1>5, <1>6, FreezeWrite
  <1>8. Records!freeze_authority_nominate_result(caller) = Ok
    <2>1. Records!Gate("freeze_authority_nominate", caller) = Ok
      BY RecordsUngated DEF Records!FreezeExempt, Records!MarkedExempt
    <2>2. Records!FromAccount(ConfigRecord) = Ok
      BY <1>5 DEF Records!FromAccount, Records!Check, Records!Ok, Ok
    <2>3. Records!DualPath(AdminRecord, ConfigRecord, Records!Caller(caller)) = Ok
      BY <1>3, <1>4, <1>5, SameChecks, SameAccount
    <2> QED
      BY <2>1, <2>2, <2>3, SameChecks, ThenOk
         DEF Records!freeze_authority_nominate_result
  <1>9. new = Records!Nominate(ConfigRecord, next)
    BY <1>5, SameUpdates DEF new
  <1> QED
    BY <1>7, <1>8, <1>9, SameChecks
       DEF Records!freeze_authority_nominate, Records!freezeVars

\* A renunciation.
LEMMA RenounceLands ==
    ASSUME ChainInv, NEW caller \in Ids, Lands(freeze_authority_renounce(caller))
    PROVE  /\ ChainInv' /\ Kept /\ UNCHANGED ValueRecord
           /\ Records!freeze_authority_renounce(caller)
  <1> DEFINE result == Perform(DualPath(AdminOrNone, LoadedConfig, Caller(caller)))
             new == Renounce(LoadedConfig)
  <1>1. freeze_authority_renounce(caller)
          = Call(<<C, caller>>, {caller}, result,
                 <<PostState(C, WriteToAt(ConfigData, new, FreezeOffset)),
                   Unchanged(caller)>>)
    BY Layout, Tuples
       DEF freeze_authority_renounce, ConfigPair, PostStatePair, Written, C
  <1>2. result = Ok
    BY LandsOk DEF freeze_authority_renounce
  <1>3. FreezeConfigResult = Ok
        /\ DualPath(AdminOrNone, LoadedConfig, Caller(caller)) = Ok
    BY <1>2, ThenOk DEF Perform
  <1>4. Born /\ AdminOrNone = AdminRecord
    BY <1>3, LoadedOk
  <1>5. LoadedConfig = ConfigRecord /\ new \in FreezeConfigs /\ ConfigRecord # NoData
    BY <1>4, View, UpdatesKeepRecords, Layout
  <1> HIDE DEF result, new
  <1>6. ConfigStep({caller}, {caller}, WriteToAt(ConfigData, new, FreezeOffset))
    BY <1>1, <1>4, <1>5, WrittenData, CallOnConfig
  <1>7. /\ ChainInv' /\ Kept /\ Records!Lands({caller}, {caller})
        /\ ConfigRecord' = new
        /\ UNCHANGED <<AdminRecord, ValueRecord, MarkerRecords>>
    BY <1>4, <1>5, <1>6, FreezeWrite
  <1>8. Records!freeze_authority_renounce_result(caller) = Ok
    <2>1. Records!Gate("freeze_authority_renounce", caller) = Ok
      BY RecordsUngated DEF Records!FreezeExempt, Records!MarkedExempt
    <2>2. Records!FromAccount(ConfigRecord) = Ok
      BY <1>5 DEF Records!FromAccount, Records!Check, Records!Ok, Ok
    <2>3. Records!DualPath(AdminRecord, ConfigRecord, Records!Caller(caller)) = Ok
      BY <1>3, <1>4, <1>5, SameChecks, SameAccount
    <2> QED
      BY <2>1, <2>2, <2>3, SameChecks, ThenOk
         DEF Records!freeze_authority_renounce_result
  <1>9. new = Records!Renounce(ConfigRecord)
    BY <1>5, SameUpdates DEF new
  <1> QED
    BY <1>7, <1>8, <1>9, SameChecks
       DEF Records!freeze_authority_renounce, Records!freezeVars

\* An acceptance: the config is not shared with a role that is only read.
LEMMA AcceptLands ==
    ASSUME ChainInv, NEW caller \in Ids, Lands(freeze_authority_accept(caller))
    PROVE  /\ ChainInv' /\ Kept /\ UNCHANGED ValueRecord
           /\ Records!freeze_authority_accept(caller)
  <1> DEFINE result == Perform(AcceptResult(LoadedConfig, Caller(caller)))
             new == Accept(LoadedConfig)
  <1>1. freeze_authority_accept(caller)
          = Call(<<C, caller>>, {caller}, result,
                 <<PostState(C, WriteToAt(ConfigData, new, FreezeOffset)),
                   Unchanged(caller)>>)
    BY DEF freeze_authority_accept, Written, C
  <1>2. result = Ok
    BY LandsOk DEF freeze_authority_accept
  <1>3. FreezeConfigResult = Ok /\ AcceptResult(LoadedConfig, Caller(caller)) = Ok
    BY <1>2, ThenOk DEF Perform
  <1>4. Born
    BY <1>3, LoadedOk
  <1>5. LoadedConfig = ConfigRecord /\ new \in FreezeConfigs /\ ConfigRecord # NoData
    BY <1>4, View, UpdatesKeepRecords, Layout
  <1> HIDE DEF result, new
  <1>6. ConfigStep({caller}, {caller}, WriteToAt(ConfigData, new, FreezeOffset))
    BY <1>1, <1>4, <1>5, WrittenData, CallOnConfig
  <1>7. /\ ChainInv' /\ Kept /\ Records!Lands({caller}, {caller})
        /\ ConfigRecord' = new
        /\ UNCHANGED <<AdminRecord, ValueRecord, MarkerRecords>>
    BY <1>4, <1>5, <1>6, FreezeWrite
  <1>8. Records!freeze_authority_accept_result(caller) = Ok
    <2>1. Records!Gate("freeze_authority_accept", caller) = Ok
      BY RecordsUngated DEF Records!FreezeExempt, Records!MarkedExempt
    <2>2. Records!FromAccount(ConfigRecord) = Ok
      BY <1>5 DEF Records!FromAccount, Records!Check, Records!Ok, Ok
    <2>3. Records!AcceptResult(ConfigRecord, Records!Caller(caller)) = Ok
      BY <1>3, <1>5, SameChecks, SameAccount
    <2> QED
      BY <2>1, <2>2, <2>3, SameChecks, ThenOk
         DEF Records!freeze_authority_accept_result
  <1>9. new = Records!Accept(ConfigRecord)
    BY <1>5, SameUpdates DEF new
  <1> QED
    BY <1>7, <1>8, <1>9, SameChecks
       DEF Records!freeze_authority_accept, Records!freezeVars

\* A transfer.
LEMMA TransferLands ==
    ASSUME ChainInv, NEW caller \in Ids, NEW to \in Ids,
           NEW candidate \in Candidates, NEW cosigns \in BOOLEAN,
           Lands(freeze_authority_transfer(caller, to, candidate, cosigns))
    PROVE  /\ ChainInv' /\ Kept /\ UNCHANGED ValueRecord
           /\ Records!freeze_authority_transfer(caller, to, candidate, cosigns)
  <1> DEFINE result == RequireAdmin(caller)
                         ?? Perform(TransferResult(candidate, AccountOf(to, cosigns)))
             new == Transfer(LoadedConfig, to)
             signers == IF cosigns THEN {caller, to} ELSE {caller}
  <1>1. freeze_authority_transfer(caller, to, candidate, cosigns)
          = Call(<<C, caller, to>>, signers, result,
                 <<PostState(C, WriteToAt(ConfigData, new, FreezeOffset)),
                   Unchanged(caller), Unchanged(to)>>)
    BY Layout, Tuples
       DEF freeze_authority_transfer, ConfigPair, PostStatePair, Written, C
  <1>2. result = Ok
    BY LandsOk DEF freeze_authority_transfer
  <1>3. RequireAdmin(caller) = Ok /\ FreezeConfigResult = Ok
        /\ TransferResult(candidate, AccountOf(to, cosigns)) = Ok
    BY <1>2, ThenOk DEF Perform
  <1>4. Born
    BY <1>3, LoadedOk
  <1>5. /\ LoadedConfig = ConfigRecord /\ new \in FreezeConfigs
        /\ AdminSlot.holder = AdminRecord
        /\ ConfigRecord # NoData /\ AdminRecord # NoData
    BY <1>4, View, UpdatesKeepRecords, Layout
  <1>6. signers \in SUBSET {caller, to}
    OBVIOUS
  <1> HIDE DEF result, new
  <1>7. to # caller
        /\ ConfigStep({caller, to}, signers,
                      WriteToAt(ConfigData, new, FreezeOffset))
    <2> DEFINE data == WriteToAt(ConfigData, new, FreezeOffset)
    <2>1. data \in Seq(Cells)
      BY <1>4, <1>5, WrittenData
    <2>2. Lands(Call(<<C, caller, to>>, signers, result,
                     <<PostState(C, data), Unchanged(caller), Unchanged(to)>>))
      BY <1>1
    <2> HIDE DEF data
    <2>3. to # caller /\ ConfigStep({caller, to}, signers, data)
      BY <1>4, <2>1, <2>2, CallWithNew
    <2> QED
      BY <2>3 DEF data
  <1> HIDE DEF signers
  <1>8. /\ ChainInv' /\ Kept /\ Records!Lands({caller, to}, signers)
        /\ ConfigRecord' = new
        /\ UNCHANGED <<AdminRecord, ValueRecord, MarkerRecords>>
    BY <1>4, <1>5, <1>6, <1>7, FreezeWrite
  <1>9. Records!freeze_authority_transfer_result(caller, to, candidate, cosigns)
          = Ok
    <2>1. Records!Gate("freeze_authority_transfer", caller) = Ok
      BY RecordsUngated DEF Records!FreezeExempt, Records!MarkedExempt
    <2>2. Records!FromAccount(ConfigRecord) = Ok
          /\ Records!AdminFromAccount(AdminRecord) = Ok
      BY <1>5 DEF Records!FromAccount, Records!AdminFromAccount, Records!Check,
                  Records!Ok, Ok
    <2>3. Records!AssertAdmin(AdminRecord, Records!Caller(caller)) = Ok
      BY <1>3, <1>5, SameChecks, SameAccount, ThenOk DEF RequireAdmin
    <2>4. Records!TransferResult(candidate, Records!AccountOf(to, cosigns)) = Ok
      BY <1>3, SameChecks, SameAccount
    <2> QED
      BY <2>1, <2>2, <2>3, <2>4, SameChecks, ThenOk
         DEF Records!freeze_authority_transfer_result
  <1>10. new = Records!Transfer(ConfigRecord, to)
    BY <1>5, SameUpdates DEF new
  <1> QED
    BY <1>7, <1>8, <1>9, <1>10, SameChecks
       DEF Records!freeze_authority_transfer, Records!freezeVars, signers

\* The gate reads the same.
LEMMA SameGate ==
    ASSUME ChainInv, NEW caller \in Ids, RequireNotFrozen(caller) = Ok
    PROVE  /\ Born /\ FreezeConfigResult = Ok
           /\ Records!RequireNotFrozen(caller) = Ok
           /\ \A instruction : Records!Gate(instruction, caller) = Ok
  <1> DEFINE state == MarkerState(account[Marker(caller)].data)
  <1>1. /\ FreezeConfigResult = Ok /\ ~LoadedConfig.is_frozen
        /\ ~FromDataOrDefault(state).is_frozen
    BY ThenOk DEF RequireNotFrozen, Check, Ok
  <1>2. Born
    BY <1>1, LoadedOk
  <1>3. ConfigRecord = LoadedConfig /\ ConfigRecord # NoData
        /\ MarkerRecords[caller] = state
    BY <1>2, View, MarkerView
  <1> HIDE DEF state
  <1>4. Records!FromAccount(ConfigRecord) = Ok
    BY <1>3 DEF Records!FromAccount, Records!Check, Records!Ok, Ok
  <1>5. Records!Check(~ConfigRecord.is_frozen, "Frozen") = Ok
    BY <1>1, <1>3 DEF Records!Check, Records!Ok, Ok
  <1>6. Records!Check(~Records!FromDataOrDefault(MarkerRecords[caller]).is_frozen,
                      "AccountFrozen") = Ok
    BY <1>1, <1>3, SameUpdates DEF Records!Check, Records!Ok, Ok
  <1>7. Records!RequireNotFrozen(caller) = Ok
    BY <1>4, <1>5, <1>6, SameChecks, ThenOk DEF Records!RequireNotFrozen
  <1>8. \A instruction : Records!Gate(instruction, caller) = Ok
    BY <1>7 DEF Records!Gate, Records!Ok, Ok
  <1> QED
    BY <1>1, <1>2, <1>7, <1>8

\* A freeze of the program.
LEMMA FreezeProgramLands ==
    ASSUME ChainInv, NEW caller \in Ids, Lands(freeze_program(caller))
    PROVE  /\ ChainInv' /\ Kept /\ UNCHANGED ValueRecord
           /\ Records!freeze_program(caller)
  <1> DEFINE result == RequireNotFrozen(caller)
                         ?? Perform(AssertHolder(LoadedConfig, Caller(caller)))
             new == SetIsFrozen(LoadedConfig, TRUE)
  <1>1. freeze_program(caller)
          = Call(<<C, Marker(caller), caller>>, {caller}, result,
                 <<PostState(C, WriteToAt(ConfigData, new, FreezeOffset)),
                   Unchanged(Marker(caller)), Unchanged(caller)>>)
    BY Layout DEF freeze_program, Written, C
  <1>2. result = Ok
    BY <1>1, LandsOk
  <1>3. RequireNotFrozen(caller) = Ok
        /\ AssertHolder(LoadedConfig, Caller(caller)) = Ok
    BY <1>2, ThenOk DEF Perform
  <1>4. Born /\ Records!Gate("freeze_program", caller) = Ok
    BY <1>3, SameGate
  <1>5. LoadedConfig = ConfigRecord /\ new \in FreezeConfigs /\ ConfigRecord # NoData
    BY <1>4, View, UpdatesKeepRecords, Layout
  <1> HIDE DEF result, new
  <1>6. ConfigStep({caller}, {caller}, WriteToAt(ConfigData, new, FreezeOffset))
    BY <1>1, <1>4, <1>5, WrittenData, CallPastGate
  <1>7. /\ ChainInv' /\ Kept /\ Records!Lands({caller}, {caller})
        /\ ConfigRecord' = new
        /\ UNCHANGED <<AdminRecord, ValueRecord, MarkerRecords>>
    BY <1>4, <1>5, <1>6, FreezeWrite
  <1>8. Records!freeze_program_result(caller) = Ok
    <2>1. Records!FromAccount(ConfigRecord) = Ok
      BY <1>5 DEF Records!FromAccount, Records!Check, Records!Ok, Ok
    <2>2. Records!AssertHolder(ConfigRecord, Records!Caller(caller)) = Ok
      BY <1>3, <1>5, SameChecks, SameAccount
    <2> QED
      BY <1>4, <2>1, <2>2, SameChecks, ThenOk DEF Records!freeze_program_result
  <1>9. new = Records!SetIsFrozen(ConfigRecord, TRUE)
    BY <1>5, SameUpdates DEF new
  <1> QED
    BY <1>7, <1>8, <1>9, SameChecks DEF Records!freeze_program, Records!freezeVars

\* And its release.
LEMMA ReleaseProgramLands ==
    ASSUME ChainInv, NEW caller \in Ids, Lands(freeze_program_release(caller))
    PROVE  /\ ChainInv' /\ Kept /\ UNCHANGED ValueRecord
           /\ Records!freeze_program_release(caller)
  <1> DEFINE result == Perform(AssertHolder(LoadedConfig, Caller(caller)))
             new == SetIsFrozen(LoadedConfig, FALSE)
  <1>1. freeze_program_release(caller)
          = Call(<<C, caller>>, {caller}, result,
                 <<PostState(C, WriteToAt(ConfigData, new, FreezeOffset)),
                   Unchanged(caller)>>)
    BY DEF freeze_program_release, Written, C
  <1>2. result = Ok
    BY LandsOk DEF freeze_program_release
  <1>3. FreezeConfigResult = Ok /\ AssertHolder(LoadedConfig, Caller(caller)) = Ok
    BY <1>2, ThenOk DEF Perform
  <1>4. Born
    BY <1>3, LoadedOk
  <1>5. LoadedConfig = ConfigRecord /\ new \in FreezeConfigs /\ ConfigRecord # NoData
    BY <1>4, View, UpdatesKeepRecords, Layout
  <1> HIDE DEF result, new
  <1>6. ConfigStep({caller}, {caller}, WriteToAt(ConfigData, new, FreezeOffset))
    BY <1>1, <1>4, <1>5, WrittenData, CallOnConfig
  <1>7. /\ ChainInv' /\ Kept /\ Records!Lands({caller}, {caller})
        /\ ConfigRecord' = new
        /\ UNCHANGED <<AdminRecord, ValueRecord, MarkerRecords>>
    BY <1>4, <1>5, <1>6, FreezeWrite
  <1>8. Records!freeze_program_release_result(caller) = Ok
    <2>1. Records!Gate("freeze_program_release", caller) = Ok
      BY RecordsUngated DEF Records!FreezeExempt, Records!MarkedExempt
    <2>2. Records!FromAccount(ConfigRecord) = Ok
      BY <1>5 DEF Records!FromAccount, Records!Check, Records!Ok, Ok
    <2>3. Records!AssertHolder(ConfigRecord, Records!Caller(caller)) = Ok
      BY <1>3, <1>5, SameChecks, SameAccount
    <2> QED
      BY <2>1, <2>2, <2>3, SameChecks, ThenOk
         DEF Records!freeze_program_release_result
  <1>9. new = Records!SetIsFrozen(ConfigRecord, FALSE)
    BY <1>5, SameUpdates DEF new
  <1> QED
    BY <1>7, <1>8, <1>9, SameChecks
       DEF Records!freeze_program_release, Records!freezeVars

\* A step that leaves the account alone leaves its windows alone.
LEMMA KeptUntouched ==
    ConfigData' = ConfigData => Kept
  BY DEF Kept

\* A freeze of an account, whose marker may not exist yet.
LEMMA FreezeAccountLands ==
    ASSUME ChainInv, NEW caller \in Ids, NEW target \in Ids,
           Lands(freeze_account(caller, target))
    PROVE  /\ ChainInv' /\ Kept /\ UNCHANGED ValueRecord
           /\ Records!freeze_account(caller, target)
  <1> DEFINE result == FreezeConfigResult
                         ?? MarkerResult(account[Marker(target)].data)
                         ?? PerformFreezeResult(LoadedConfig, Caller(caller))
             bytes == MarkerBytes(TRUE)
             post == MarkerPostState(target, bytes)
  <1>1. freeze_account(caller, target)
          = Call(<<C, Marker(target), caller>>, {caller}, result,
                 <<Unchanged(C), post, Unchanged(caller)>>)
    BY DEF freeze_account, C
  <1>2. result = Ok
    BY LandsOk DEF freeze_account
  <1>3. FreezeConfigResult = Ok /\ AssertHolder(LoadedConfig, Caller(caller)) = Ok
    BY <1>2, ThenOk DEF PerformFreezeResult
  <1>4. Born
    BY <1>3, LoadedOk
  <1>5. LoadedConfig = ConfigRecord /\ ConfigRecord # NoData
    BY <1>4, View
  <1>6. \/ /\ post = PostState(Marker(target), bytes)
           /\ account[Marker(target)].owner = "self"
        \/ post = Claimed(Marker(target), bytes)
    <2>1. account[Marker(target)].data # <<>>
            => account[Marker(target)].owner = "self"
      BY DEF ChainInv, MarkersInv, Default
    <2> HIDE DEF bytes
    <2> QED
      BY <2>1 DEF MarkerPostState
  <1>7. bytes \in Seq(Cells)
    BY FlagData
  <1> HIDE DEF result, post, bytes
  <1>8. MarkerStep({caller}, {caller}, target, bytes)
    BY <1>1, <1>6, <1>7, CallOnMarker
  <1>9. /\ ChainInv' /\ ConfigData' = ConfigData
        /\ Records!Lands({caller}, {caller})
        /\ UNCHANGED <<AdminRecord, ConfigRecord, ValueRecord>>
        /\ MarkerRecords'
             = [MarkerRecords EXCEPT ![target] = [is_frozen |-> TRUE]]
    BY <1>8, MarkerStepEffect DEF bytes
  <1>10. Records!freeze_account_result(caller) = Ok
    <2>1. Records!Gate("freeze_account", caller) = Ok
      BY RecordsUngated DEF Records!FreezeExempt, Records!MarkedExempt
    <2>2. Records!FromAccount(ConfigRecord) = Ok
      BY <1>5 DEF Records!FromAccount, Records!Check, Records!Ok, Ok
    <2>3. Records!PerformFreezeResult(ConfigRecord, Records!Caller(caller)) = Ok
      BY <1>3, <1>5, SameChecks, SameAccount DEF Records!PerformFreezeResult
    <2> QED
      BY <2>1, <2>2, <2>3, SameChecks, ThenOk DEF Records!freeze_account_result
  <1> QED
    BY <1>9, <1>10, KeptUntouched, SameChecks DEF Records!freeze_account

\* A release of an account, whose marker is the program's.
LEMMA ReleaseAccountLands ==
    ASSUME ChainInv, NEW caller \in Ids, NEW target \in Ids,
           Lands(freeze_account_release(caller, target))
    PROVE  /\ ChainInv' /\ Kept /\ UNCHANGED ValueRecord
           /\ Records!freeze_account_release(caller, target)
  <1> DEFINE state == MarkerState(account[Marker(target)].data)
             result == FreezeConfigResult
                         ?? AssertHolder(LoadedConfig, Caller(caller))
                         ?? MarkerResult(account[Marker(target)].data)
                         ?? PerformReleaseResult(LoadedConfig, state, Caller(caller))
             bytes == MarkerBytes(FALSE)
  <1>1. freeze_account_release(caller, target)
          = Call(<<C, Marker(target), caller>>, {caller}, result,
                 <<Unchanged(C), PostState(Marker(target), bytes),
                   Unchanged(caller)>>)
    BY DEF freeze_account_release, C
  <1>2. result = Ok
    BY LandsOk DEF freeze_account_release
  <1>3. /\ FreezeConfigResult = Ok
        /\ AssertHolder(LoadedConfig, Caller(caller)) = Ok
        /\ FromDataOrDefault(state).is_frozen
    BY <1>2, ThenOk DEF PerformReleaseResult, Check, Ok
  <1>4. Born
    BY <1>3, LoadedOk
  <1>5. LoadedConfig = ConfigRecord /\ ConfigRecord # NoData
        /\ MarkerRecords[target] = state
    BY <1>4, View, MarkerView
  <1>6. account[Marker(target)].owner = "self"
    <2>1. account[Marker(target)].data # <<>>
      BY <1>3 DEF FromDataOrDefault, MarkerState
    <2> QED
      BY <2>1 DEF ChainInv, MarkersInv, Default
  <1>7. bytes \in Seq(Cells)
    BY FlagData
  <1> HIDE DEF result, bytes, state
  <1>8. MarkerStep({caller}, {caller}, target, bytes)
    <2> DEFINE post == PostState(Marker(target), bytes)
    <2>1. /\ post = PostState(Marker(target), bytes)
          /\ Lands(Call(<<C, Marker(target), caller>>, {caller}, result,
                        <<Unchanged(C), post, Unchanged(caller)>>))
      BY <1>1
    <2> HIDE DEF post
    <2> QED
      BY <1>6, <1>7, <2>1, CallOnMarker
  <1>9. /\ ChainInv' /\ ConfigData' = ConfigData
        /\ Records!Lands({caller}, {caller})
        /\ UNCHANGED <<AdminRecord, ConfigRecord, ValueRecord>>
        /\ MarkerRecords'
             = [MarkerRecords EXCEPT ![target] = [is_frozen |-> FALSE]]
    BY <1>8, MarkerStepEffect DEF bytes
  <1>10. Records!freeze_account_release_result(caller, target) = Ok
    <2>1. Records!Gate("freeze_account_release", caller) = Ok
      BY RecordsUngated DEF Records!FreezeExempt, Records!MarkedExempt
    <2>2. Records!FromAccount(ConfigRecord) = Ok
      BY <1>5 DEF Records!FromAccount, Records!Check, Records!Ok, Ok
    <2>3. Records!AssertHolder(ConfigRecord, Records!Caller(caller)) = Ok
      BY <1>3, <1>5, SameChecks, SameAccount
    <2>4. Records!Check(Records!FromDataOrDefault(MarkerRecords[target]).is_frozen,
                        "AccountNotFrozen") = Ok
      BY <1>3, <1>5, SameUpdates DEF Records!Check, Records!Ok, Ok
    <2> QED
      BY <2>1, <2>2, <2>3, <2>4, SameChecks, ThenOk
         DEF Records!freeze_account_release_result, Records!PerformReleaseResult
  <1> QED
    BY <1>9, <1>10, KeptUntouched, SameChecks DEF Records!freeze_account_release

\* The admin's check reads the same, and whoever passes it is the admin.
LEMMA SameAdmin ==
    ASSUME ChainInv, NEW caller \in Ids, RequireAdmin(caller) = Ok
    PROVE  /\ Born /\ AdminConfigResult = Ok
           /\ AdminSlot \in Slots /\ AdminSlot.holder = caller
           /\ Records!RequireAdmin(caller) = Ok
  <1>1. AdminConfigResult = Ok /\ AssertAdmin(AdminSlot.holder, Caller(caller)) = Ok
    BY ThenOk DEF RequireAdmin
  <1>2. Born
    BY <1>1, LoadedOk
  <1>3. AdminRecord = AdminSlot.holder /\ AdminRecord # NoData
        /\ AdminSlot \in Slots
    BY <1>2, View
  <1>4. AdminSlot.holder = caller
    BY <1>1, ThenOk DEF AssertAdmin, Check, Ok, Caller, AccountOf
  <1>5. Records!AdminFromAccount(AdminRecord) = Ok
    BY <1>3 DEF Records!AdminFromAccount, Records!Check, Records!Ok, Ok
  <1>6. Records!AssertAdmin(AdminRecord, Records!Caller(caller)) = Ok
    BY <1>1, <1>3, SameChecks, SameAccount
  <1> QED
    BY <1>1, <1>2, <1>3, <1>4, <1>5, <1>6, SameChecks, ThenOk
       DEF Records!RequireAdmin

\* The admin's instructions are exempt in the records too.
LEMMA AdminUngated ==
    ASSUME NEW instruction \in {"admin_transfer", "admin_accept", "admin_renounce"},
           NEW caller
    PROVE  Records!Gate(instruction, caller) = Ok
  BY RecordsUngated DEF Records!FreezeExempt, Records!ExemptList

\* A transfer of the admin role.
LEMMA AdminTransferLands ==
    ASSUME ChainInv, NEW caller \in Ids, NEW to \in Ids,
           NEW candidate \in Candidates, NEW cosigns \in BOOLEAN,
           Lands(admin_transfer(caller, to, candidate, cosigns))
    PROVE  /\ ChainInv' /\ Kept /\ UNCHANGED ValueRecord
           /\ Records!AdminManagement
  <1> DEFINE result == RequireAdmin(caller)
                         ?? Validate(candidate, AccountOf(to, cosigns))
             slot == SlotTransfer(AdminSlot, to)
             signers == IF cosigns THEN {caller, to} ELSE {caller}
  <1>1. admin_transfer(caller, to, candidate, cosigns)
          = Call(<<C, caller, to>>, signers, result,
                 <<PostState(C, SlotWriteAt(ConfigData, slot, AdminOffset)),
                   Unchanged(caller), Unchanged(to)>>)
    BY Layout DEF admin_transfer, AdminWritten, AdminData, ConfigData, C
  <1>2. result = Ok
    BY LandsOk DEF admin_transfer
  <1>3. RequireAdmin(caller) = Ok /\ Validate(candidate, AccountOf(to, cosigns)) = Ok
    BY <1>2, ThenOk
  <1>4. Born /\ AdminSlot \in Slots /\ Records!RequireAdmin(caller) = Ok
    BY <1>3, SameAdmin
  <1>5. slot \in Slots /\ slot.holder = to /\ to # NoId
    BY <1>4, AdminSlots, Layout
  <1>6. signers \in SUBSET {caller, to}
    OBVIOUS
  <1> HIDE DEF result, slot
  <1>7. to # caller
        /\ ConfigStep({caller, to}, signers,
                      SlotWriteAt(ConfigData, slot, AdminOffset))
    <2> DEFINE data == SlotWriteAt(ConfigData, slot, AdminOffset)
    <2>1. data \in Seq(Cells)
      BY <1>4, <1>5, WrittenData
    <2>2. Lands(Call(<<C, caller, to>>, signers, result,
                     <<PostState(C, data), Unchanged(caller), Unchanged(to)>>))
      BY <1>1
    <2> HIDE DEF data
    <2>3. to # caller /\ ConfigStep({caller, to}, signers, data)
      BY <1>4, <2>1, <2>2, CallWithNew
    <2> QED
      BY <2>3 DEF data
  <1> HIDE DEF signers
  <1>8. /\ ChainInv' /\ Kept /\ Records!Lands({caller, to}, signers)
        /\ AdminRecord' = to
        /\ UNCHANGED <<ConfigRecord, ValueRecord, MarkerRecords>>
    BY <1>4, <1>5, <1>6, <1>7, AdminWrite
  <1>9. Records!admin_transfer(caller, to, candidate, cosigns)
    BY <1>3, <1>4, <1>7, <1>8, SameChecks, SameAccount
       DEF Records!admin_transfer, signers
  <1>10. Records!Gate("admin_transfer", caller) = Records!Ok
    BY AdminUngated, SameChecks
  <1>11. candidate \in Records!Candidates
    BY DEF Records!Candidates, Candidates
  <1> QED
    BY <1>8, <1>9, <1>10, <1>11 DEF Records!AdminManagement, Records!freezeVars

\* A nomination for the admin role: the records do not show it.
LEMMA AdminNominateLands ==
    ASSUME ChainInv, NEW caller \in Ids, NEW next \in AccountId,
           Lands(admin_nominate(caller, next))
    PROVE  /\ ChainInv' /\ Kept /\ UNCHANGED ValueRecord
           /\ Records!Elsewhere
  <1> DEFINE slot == SlotNominate(AdminSlot, next)
  <1>1. admin_nominate(caller, next)
          = Call(<<C, caller>>, {caller}, RequireAdmin(caller),
                 <<PostState(C, SlotWriteAt(ConfigData, slot, AdminOffset)),
                   Unchanged(caller)>>)
    BY Layout DEF admin_nominate, AdminWritten, AdminData, ConfigData, C
  <1>2. RequireAdmin(caller) = Ok
    BY LandsOk DEF admin_nominate
  <1>3. Born /\ AdminSlot \in Slots /\ AdminSlot.holder = caller
    BY <1>2, SameAdmin
  <1>4. slot \in Slots /\ slot.holder = caller /\ caller # NoId
    BY <1>3, AdminSlots, Layout
  <1> HIDE DEF slot
  <1>5. ConfigStep({caller}, {caller}, SlotWriteAt(ConfigData, slot, AdminOffset))
    BY <1>1, <1>3, <1>4, WrittenData, CallOnConfig
  <1>6. /\ ChainInv' /\ Kept /\ Records!Lands({caller}, {caller})
        /\ AdminRecord' = caller
        /\ UNCHANGED <<ConfigRecord, ValueRecord, MarkerRecords>>
    BY <1>3, <1>4, <1>5, AdminWrite
  <1>7. AdminRecord = caller
    BY <1>3, View
  <1> QED
    BY <1>6, <1>7
       DEF Records!Elsewhere, Records!OtherTransaction, Records!freezeVars

\* An acceptance of the admin role. There is an admin then: a renounced slot
\* has no nominee.
LEMMA AdminAcceptLands ==
    ASSUME ChainInv, NEW caller \in Ids, Lands(admin_accept(caller))
    PROVE  /\ ChainInv' /\ Kept /\ UNCHANGED ValueRecord
           /\ Records!AdminManagement
  <1> DEFINE result == AdminConfigResult
                         ?? SlotAcceptResult(AdminSlot, Caller(caller))
             slot == SlotAccept(AdminSlot)
  <1>1. admin_accept(caller)
          = Call(<<C, caller>>, {caller}, result,
                 <<PostState(C, SlotWriteAt(ConfigData, slot, AdminOffset)),
                   Unchanged(caller)>>)
    BY Layout DEF admin_accept, AdminWritten, AdminData, ConfigData, C
  <1>2. result = Ok
    BY LandsOk DEF admin_accept
  <1>3. /\ AdminConfigResult = Ok
        /\ AdminSlot.nominee # NoId /\ AdminSlot.nominee = caller
        /\ account[caller].owner # "default"
    <2> DEFINE signer == Caller(caller)
    <2>1. AdminConfigResult = Ok /\ SlotAcceptResult(AdminSlot, signer) = Ok
      BY <1>2, ThenOk
    <2>2. signer.account_id = caller
          /\ (signer.owned => account[caller].owner # "default")
      BY DEF Caller, AccountOf
    <2> HIDE DEF signer
    <2>3. /\ AdminSlot.nominee # NoId
          /\ signer.account_id = AdminSlot.nominee /\ signer.owned
      BY <2>1, ThenOk DEF SlotAcceptResult, Check, Ok
    <2> QED
      BY <2>1, <2>2, <2>3
  <1>4. Born
    BY <1>3, LoadedOk
  <1>5. /\ AdminSlot \in Slots /\ AdminRecord = AdminSlot.holder
        /\ AdminSlot.holder # NoId
    BY <1>3, <1>4, View
  <1>6. slot \in Slots /\ slot.holder = caller /\ caller # NoId
    BY <1>3, <1>5, AdminSlots, Layout DEF Slots
  <1>7. AdminRecord \in Ids /\ caller \in OwnedKeys
    BY <1>3, <1>5 DEF Slots, AccountId, OwnedKeys
  <1> HIDE DEF result, slot
  <1>8. ConfigStep({caller}, {caller}, SlotWriteAt(ConfigData, slot, AdminOffset))
    BY <1>1, <1>4, <1>6, WrittenData, CallOnConfig
  <1>9. /\ ChainInv' /\ Kept /\ Records!Lands({caller}, {caller})
        /\ AdminRecord' = caller
        /\ UNCHANGED <<ConfigRecord, ValueRecord, MarkerRecords>>
    BY <1>4, <1>6, <1>8, AdminWrite
  <1>10. Records!admin_accept(caller)
    BY <1>7, <1>9 DEF Records!admin_accept, Records!HasAdmin
  <1>11. Records!Gate("admin_accept", caller) = Records!Ok
    BY AdminUngated, SameChecks
  <1> QED
    BY <1>9, <1>10, <1>11 DEF Records!AdminManagement, Records!freezeVars

\* A renunciation of the admin role.
LEMMA AdminRenounceLands ==
    ASSUME ChainInv, NEW caller \in Ids, Lands(admin_renounce(caller))
    PROVE  /\ ChainInv' /\ Kept /\ UNCHANGED ValueRecord
           /\ Records!AdminManagement
  <1> DEFINE slot == SlotRenounce(AdminSlot)
  <1>1. admin_renounce(caller)
          = Call(<<C, caller>>, {caller}, RequireAdmin(caller),
                 <<PostState(C, SlotWriteAt(ConfigData, slot, AdminOffset)),
                   Unchanged(caller)>>)
    BY Layout DEF admin_renounce, AdminWritten, AdminData, ConfigData, C
  <1>2. RequireAdmin(caller) = Ok
    BY LandsOk DEF admin_renounce
  <1>3. Born /\ AdminSlot \in Slots /\ Records!RequireAdmin(caller) = Ok
    BY <1>2, SameAdmin
  <1>4. slot \in Slots /\ slot.holder = NoId /\ slot.nominee = NoId
    BY <1>3, AdminSlots, Layout
  <1> HIDE DEF slot
  <1>5. ConfigStep({caller}, {caller}, SlotWriteAt(ConfigData, slot, AdminOffset))
    BY <1>1, <1>3, <1>4, WrittenData, CallOnConfig
  <1>6. /\ ChainInv' /\ Kept /\ Records!Lands({caller}, {caller})
        /\ AdminRecord' = NoId
        /\ UNCHANGED <<ConfigRecord, ValueRecord, MarkerRecords>>
    BY <1>3, <1>4, <1>5, AdminWrite
  <1>7. Records!admin_renounce(caller)
    BY <1>3, <1>6, SameChecks DEF Records!admin_renounce
  <1>8. Records!Gate("admin_renounce", caller) = Records!Ok
    BY AdminUngated, SameChecks
  <1> QED
    BY <1>6, <1>7, <1>8 DEF Records!AdminManagement, Records!freezeVars

\* The account comes into being, and with it all three records.
LEMMA InitializeLands ==
    ASSUME ChainInv, NEW caller \in Ids, Lands(initialize(caller))
    PROVE  ChainInv' /\ Kept /\ Records!initialize(caller)
  <1> DEFINE result == Check(account[ConfigAccount] = Default,
                             "AccountAlreadyInitialized")
                         ?? Validate([kind |-> "Signer", derived |-> NoId],
                                     Caller(caller))
                         ?? SlotInitializeResult(caller)
             new == SlotWriteAt(Zeros, SlotInitialize(caller), AdminOffset)
  <1>1. initialize(caller)
          = Call(<<caller, C>>, {caller}, result,
                 <<Unchanged(caller), Claimed(C, new)>>)
    BY DEF initialize, C
  <1>2. result = Ok
    BY LandsOk DEF initialize
  <1>3. /\ account[C] = Default
        /\ Validate([kind |-> "Signer", derived |-> NoId], Caller(caller)) = Ok
        /\ SlotInitializeResult(caller) = Ok
    BY <1>2, ThenOk DEF Check, Ok, C
  <1>4. ~Born
    BY <1>3 DEF Born, ConfigData, C, Default
  <1>5. /\ Struct(new) /\ new[1] = 0
        /\ SlotReadAt(new, AdminOffset).holder = caller
        /\ DecodeAt(new, FreezeOffset) = BornVacant
    BY StructBorn
  <1> HIDE DEF result, new
  <1>6. ConfigStep({caller}, {caller}, new)
    BY <1>1, <1>5, CallBorn DEF Struct
  <1>7. /\ ChainInv' /\ Records!Lands({caller}, {caller})
        /\ AdminRecord' = caller /\ ConfigRecord' = BornVacant
        /\ ValueRecord' = 0 /\ MarkerRecords' = MarkerRecords
    BY <1>5, <1>6, ConfigStepEffect
  <1>8. Records!AdminBootstrapResult(caller) = Ok
    <2>1. Records!Validate([kind |-> "Signer", derived |-> NoId],
                           Records!Caller(caller)) = Ok
          /\ Records!SlotInitializeResult(caller) = Ok
      BY <1>3, SameChecks, SameAccount
    <2> QED
      BY <2>1, SameChecks, ThenOk DEF Records!AdminBootstrapResult
  <1>9. ValueRecord = NoData
    BY <1>4, NoView
  <1>10. BornVacant = Records!BornVacant
    BY DEF BornVacant, Records!BornVacant
  <1> QED
    BY <1>4, <1>7, <1>8, <1>9, <1>10, SameChecks DEF Records!initialize, Kept

\* A new value, past the gate and by the admin.
LEMMA UpdateLands ==
    ASSUME ChainInv, NEW caller \in Ids, NEW value \in Values,
           Lands(update_value(caller, value))
    PROVE  ChainInv' /\ Kept /\ Records!update_value(caller, value)
  <1> DEFINE result == RequireNotFrozen(caller) ?? RequireAdmin(caller)
                         ?? FromAccountResult
  <1>1. update_value(caller, value)
          = Call(<<C, Marker(caller), caller>>, {caller}, result,
                 <<PostState(C, WithValue(value)),
                   Unchanged(Marker(caller)), Unchanged(caller)>>)
    BY DEF update_value, C
  <1>2. result = Ok
    BY LandsOk DEF update_value
  <1>3. RequireNotFrozen(caller) = Ok /\ RequireAdmin(caller) = Ok
    BY <1>2, ThenOk
  <1>4. Born /\ Records!RequireNotFrozen(caller) = Ok
        /\ Records!RequireAdmin(caller) = Ok
    BY <1>3, SameGate, SameAdmin
  <1> HIDE DEF result
  <1>5. ConfigStep({caller}, {caller}, WithValue(value))
    BY <1>1, <1>4, WrittenData, CallPastGate
  <1>6. /\ ChainInv' /\ Kept /\ Records!Lands({caller}, {caller})
        /\ ValueRecord' = value
        /\ UNCHANGED <<AdminRecord, ConfigRecord, MarkerRecords>>
    BY <1>4, <1>5, ValueWrite
  <1>7. Records!update_value_result(caller) = Ok
    BY <1>4, SameChecks, ThenOk DEF Records!update_value_result
  <1> QED
    BY <1>6, <1>7, SameChecks DEF Records!update_value, Records!freezeVars

\* The value is taken out, frozen or not.
LEMMA WithdrawLands ==
    ASSUME ChainInv, NEW caller \in Ids, Lands(withdraw(caller))
    PROVE  ChainInv' /\ Kept /\ Records!withdraw(caller)
  <1> DEFINE result == RequireAdmin(caller) ?? FromAccountResult
  <1>1. withdraw(caller)
          = Call(<<C, caller>>, {caller}, result,
                 <<PostState(C, WithValue(0)), Unchanged(caller)>>)
    BY DEF withdraw, C
  <1>2. result = Ok
    BY LandsOk DEF withdraw
  <1>3. RequireAdmin(caller) = Ok
    BY <1>2, ThenOk
  <1>4. Born /\ Records!RequireAdmin(caller) = Ok
    BY <1>3, SameAdmin
  <1> HIDE DEF result
  <1>5. ConfigStep({caller}, {caller}, WithValue(0))
    BY <1>1, <1>4, Layout, WrittenData, CallOnConfig
  <1>6. /\ ChainInv' /\ Kept /\ Records!Lands({caller}, {caller})
        /\ ValueRecord' = 0
        /\ UNCHANGED <<AdminRecord, ConfigRecord, MarkerRecords>>
    BY <1>4, <1>5, Layout, ValueWrite
  <1> QED
    BY <1>4, <1>6, SameChecks DEF Records!withdraw, Records!freezeVars

\* A transaction of another program.
LEMMA ElsewhereLands ==
    ASSUME ChainInv, NEW a \in Ids, OtherTransaction(a)
    PROVE  ChainInv' /\ Kept /\ UNCHANGED ValueRecord /\ Records!Elsewhere
  <1>1. PassStep({a}, {a})
    BY CallElsewhere
  <1>2. /\ ChainInv' /\ ConfigData' = ConfigData /\ Records!Lands({a}, {a})
        /\ UNCHANGED <<AdminRecord, ConfigRecord, ValueRecord, MarkerRecords>>
    BY <1>1, PassStepEffect
  <1> QED
    BY <1>2, KeptUntouched
       DEF Records!Elsewhere, Records!OtherTransaction, Records!freezeVars

\* An account of another program comes into being, maybe one that holds the
\* same struct.
LEMMA AccountInitLands ==
    ASSUME ChainInv, NEW a \in Ids,
           AccountInit(a, IF a \in Pdas THEN Zeros ELSE <<>>)
    PROVE  ChainInv' /\ Kept /\ UNCHANGED ValueRecord /\ Records!Elsewhere
  <1>1. (IF a \in Pdas THEN Zeros ELSE <<>>) \in Seq(Cells)
    BY Layout DEF Zeros, SlotBytes, Encode, FlagByte
  <1>2. /\ ChainTypeOK' /\ KeysInv'
        /\ \A b \in Names \ Ids : account'[b] = account[b]
        /\ a \notin OwnedKeys \cup SpentKeys /\ authorized' = {a}
        /\ OwnedKeys' = OwnedKeys \cup {a} /\ SpentKeys' = SpentKeys
    BY <1>1, KeyBorn DEF ChainInv
  <1>3. account'[C] = account[C]
        /\ \A b \in Ids : account'[Marker(b)] = account[Marker(b)]
    BY <1>2, MarkerView
  <1>4. ChainInv' /\ MarkerRecords' = MarkerRecords
    BY <1>2, <1>3, ConfigKept DEF ChainInv, MarkersInv, MarkerRecords
  <1>5. Records!AccountInit(a)
    BY <1>2 DEF Records!AccountInit
  <1> QED
    BY <1>3, <1>4, <1>5, ConfigKept, KeptUntouched
       DEF Records!Elsewhere, Records!freezeVars

----------------------------------------------------------------------------
(* Every step together. *)

\* Every step keeps the account well-formed, stays in one window, and is a
\* step of the records.
LEMMA NextEffect ==
    ASSUME ChainInv, Next
    PROVE  ChainInv' /\ Kept /\ Records!Next
  <1>1. ASSUME NEW call \in RoleCalls, Lands(call)
        PROVE  ChainInv' /\ Kept /\ Records!Next
    <2>1. CASE call \in Transfers
      <3>1. PICK c \in Ids, n \in Ids, cand \in Candidates, s \in BOOLEAN :
                call = freeze_authority_transfer(c, n, cand, s)
        BY <2>1 DEF Transfers
      <3>2. /\ ChainInv' /\ Kept /\ UNCHANGED ValueRecord
            /\ Records!freeze_authority_transfer(c, n, cand, s)
        BY <1>1, <3>1, TransferLands
      <3>3. cand \in Records!Candidates
        BY DEF Records!Candidates, Candidates
      <3> QED
        BY <3>2, <3>3 DEF Records!Next, Records!Library, Records!RoleChange
    <2>2. CASE \E c \in Ids : call = freeze_authority_renounce(c)
      <3>1. PICK c \in Ids : call = freeze_authority_renounce(c)
        BY <2>2
      <3>2. /\ ChainInv' /\ Kept /\ UNCHANGED ValueRecord
            /\ Records!freeze_authority_renounce(c)
        BY <1>1, <3>1, RenounceLands
      <3> QED
        BY <3>2 DEF Records!Next, Records!Library, Records!RoleChange
    <2>3. CASE \E c \in Ids, n \in AccountId : call = freeze_authority_nominate(c, n)
      <3>1. PICK c \in Ids, n \in AccountId :
                call = freeze_authority_nominate(c, n)
        BY <2>3
      <3>2. /\ ChainInv' /\ Kept /\ UNCHANGED ValueRecord
            /\ Records!freeze_authority_nominate(c, n)
        BY <1>1, <3>1, NominateLands
      <3>3. n \in Records!AccountId
        BY DEF Records!AccountId, AccountId
      <3> QED
        BY <3>2, <3>3 DEF Records!Next, Records!Library, Records!Nomination
    <2>4. CASE \E c \in Ids : call = freeze_authority_accept(c)
      <3>1. PICK c \in Ids : call = freeze_authority_accept(c)
        BY <2>4
      <3>2. /\ ChainInv' /\ Kept /\ UNCHANGED ValueRecord
            /\ Records!freeze_authority_accept(c)
        BY <1>1, <3>1, AcceptLands
      <3> QED
        BY <3>2 DEF Records!Next, Records!Library, Records!RoleChange
    <2> QED
      BY <2>1, <2>2, <2>3, <2>4 DEF RoleCalls
  <1>2. ASSUME NEW call \in BrakeCalls, Lands(call)
        PROVE  ChainInv' /\ Kept /\ Records!Next
    <2>1. CASE \E c \in Ids : call = freeze_program(c)
      <3>1. PICK c \in Ids : call = freeze_program(c)
        BY <2>1
      <3>2. /\ ChainInv' /\ Kept /\ UNCHANGED ValueRecord
            /\ Records!freeze_program(c)
        BY <1>2, <3>1, FreezeProgramLands
      <3> QED
        BY <3>2 DEF Records!Next, Records!Library, Records!FreezeOrRelease
    <2>2. CASE \E c \in Ids : call = freeze_program_release(c)
      <3>1. PICK c \in Ids : call = freeze_program_release(c)
        BY <2>2
      <3>2. /\ ChainInv' /\ Kept /\ UNCHANGED ValueRecord
            /\ Records!freeze_program_release(c)
        BY <1>2, <3>1, ReleaseProgramLands
      <3> QED
        BY <3>2 DEF Records!Next, Records!Library, Records!FreezeOrRelease
    <2>3. CASE \E c \in Ids, t \in Targets : call = freeze_account(c, t)
      <3>1. PICK c \in Ids, t \in Targets : call = freeze_account(c, t)
        BY <2>3
      <3>2. /\ ChainInv' /\ Kept /\ UNCHANGED ValueRecord
            /\ Records!freeze_account(c, t)
        BY <1>2, <3>1, FreezeAccountLands, LayoutAssumption
      <3> QED
        BY <3>2 DEF Records!Next, Records!Library, Records!FreezeOrRelease
    <2>4. CASE \E c \in Ids, t \in Targets : call = freeze_account_release(c, t)
      <3>1. PICK c \in Ids, t \in Targets : call = freeze_account_release(c, t)
        BY <2>4
      <3>2. /\ ChainInv' /\ Kept /\ UNCHANGED ValueRecord
            /\ Records!freeze_account_release(c, t)
        BY <1>2, <3>1, ReleaseAccountLands, LayoutAssumption
      <3> QED
        BY <3>2 DEF Records!Next, Records!Library, Records!FreezeOrRelease
    <2> QED
      BY <2>1, <2>2, <2>3, <2>4 DEF BrakeCalls
  <1>3. ASSUME NEW call \in AdminCalls, Lands(call)
        PROVE  ChainInv' /\ Kept /\ Records!Next
    <2>1. CASE \E c \in Ids, n \in Ids, cand \in Candidates, s \in BOOLEAN :
                   call = admin_transfer(c, n, cand, s)
      <3>1. PICK c \in Ids, n \in Ids, cand \in Candidates, s \in BOOLEAN :
                call = admin_transfer(c, n, cand, s)
        BY <2>1
      <3> QED
        BY <1>3, <3>1, AdminTransferLands DEF Records!Next, Records!Library
    <2>2. CASE \E c \in Ids, n \in Admins \cup {NoId} : call = admin_nominate(c, n)
      <3>1. PICK c \in Ids, n \in Admins \cup {NoId} : call = admin_nominate(c, n)
        BY <2>2
      <3>2. n \in AccountId
        BY LayoutAssumption DEF AccountId
      <3> QED
        BY <1>3, <3>1, <3>2, AdminNominateLands DEF Records!Next
    <2>3. CASE \E c \in Ids : call = admin_accept(c)
      <3>1. PICK c \in Ids : call = admin_accept(c)
        BY <2>3
      <3> QED
        BY <1>3, <3>1, AdminAcceptLands DEF Records!Next, Records!Library
    <2>4. CASE \E c \in Ids : call = admin_renounce(c)
      <3>1. PICK c \in Ids : call = admin_renounce(c)
        BY <2>4
      <3> QED
        BY <1>3, <3>1, AdminRenounceLands DEF Records!Next, Records!Library
    <2> QED
      BY <2>1, <2>2, <2>3, <2>4 DEF AdminCalls
  <1>4. ASSUME NEW call \in OwnCalls, Lands(call)
        PROVE  ChainInv' /\ Kept /\ Records!Next
    <2>1. CASE \E c \in Ids : call = initialize(c)
      BY <1>4, <2>1, InitializeLands DEF Records!Next
    <2>2. CASE \E c \in Ids : call = withdraw(c)
      BY <1>4, <2>2, WithdrawLands DEF Records!Next
    <2>3. CASE \E c \in Ids, v \in Values : call = update_value(c, v)
      BY <1>4, <2>3, UpdateLands DEF Records!Next
    <2> QED
      BY <2>1, <2>2, <2>3 DEF OwnCalls
  <1>5. ASSUME NEW a \in Ids,
               \/ AccountInit(a, IF a \in Pdas THEN Zeros ELSE <<>>)
               \/ OtherTransaction(a)
        PROVE  ChainInv' /\ Kept /\ Records!Next
    BY <1>5, AccountInitLands, ElsewhereLands DEF Records!Next
  <1> QED
    BY <1>1, <1>2, <1>3, <1>4, <1>5 DEF Next

\* Nothing happens, nothing changes.
LEMMA StutterEffect ==
    ASSUME UNCHANGED vars
    PROVE  /\ ChainInv => ChainInv'
           /\ Kept /\ UNCHANGED Records!vars
  <1>1. account' = account /\ authorized' = authorized
    BY DEF vars
  <1>2. \A a \in Ids : Stranded(a)' <=> Stranded(a)
    BY <1>1 DEF Stranded
  <1>3. OwnedKeys' = OwnedKeys /\ SpentKeys' = SpentKeys
        /\ MarkerRecords' = MarkerRecords
    BY <1>1, <1>2 DEF OwnedKeys, SpentKeys, MarkerRecords
  <1>4. /\ ConfigData' = ConfigData
        /\ UNCHANGED <<AdminRecord, ConfigRecord, ValueRecord>>
        /\ ConfigInv => ConfigInv'
    BY <1>1, ConfigKept
  <1>5. ChainInv => ChainInv'
    BY <1>1, <1>4 DEF ChainInv, ChainTypeOK, KeysInv, MarkersInv
  <1> QED
    BY <1>1, <1>3, <1>4, <1>5, KeptUntouched
       DEF Records!vars, Records!ledgerVars, Records!freezeVars

\* At the start nothing is there.
LEMMA InitEffect ==
    Init => ChainInv /\ Records!Init
  <1> SUFFICES ASSUME Init PROVE ChainInv /\ Records!Init
    OBVIOUS
  <1>1. account = [a \in Names |-> Default] /\ authorized = {}
    BY DEF Init, ChainInit
  <1>2. Default \in [owner : Owners, nonce : BOOLEAN, data : Seq(Cells)]
    BY DEF Default, Owners
  <1>3. \A a \in Ids : a \in Names /\ Marker(a) \in Names
    BY DEF Names
  <1>4. C \in Names
    BY DEF Names, C
  <1>5. ChainTypeOK
    BY <1>1, <1>2 DEF ChainTypeOK
  <1>6. KeysInv /\ MarkersInv /\ ConfigInv
    BY <1>1, <1>3, <1>4 DEF KeysInv, MarkersInv, ConfigInv, Default, C
  <1>7. ChainInv
    BY <1>5, <1>6 DEF ChainInv
  <1>8. ~Born
    BY <1>1, <1>4 DEF Born, ConfigData, C, Default
  <1>9. AdminRecord = NoData /\ ConfigRecord = NoData /\ ValueRecord = NoData
    BY <1>7, <1>8, NoView
  <1>10. OwnedKeys = {} /\ SpentKeys = {}
    BY <1>1, <1>3 DEF OwnedKeys, SpentKeys, Stranded, Default
  <1>11. MarkerRecords = [a \in Ids |-> NoData]
    BY <1>1, <1>3 DEF MarkerRecords, MarkerState, Default
  <1> QED
    BY <1>1, <1>7, <1>9, <1>10, <1>11
       DEF Records!Init, Records!LedgerInit, Records!AdminInit,
           Records!FreezeInit

----------------------------------------------------------------------------
\* The inductive invariant.
THEOREM ChainInvariant == Spec => []ChainInv
  <1>1. Init => ChainInv
    BY InitEffect
  <1>2. ChainInv /\ [Next]_vars => ChainInv'
    BY NextEffect, StutterEffect
  <1> QED
    BY <1>1, <1>2, PTL DEF Spec

\* Accounts stay well-formed.
THEOREM ChainTypesHold == Spec => []ChainTypeOK
  <1>1. ChainInv => ChainTypeOK
    BY DEF ChainInv
  <1> QED
    BY <1>1, ChainInvariant, PTL

\* Once the account exists the two configs, the struct and every marker can
\* be decoded, whoever wrote last.
THEOREM WindowsStayReadable == Spec => []WindowsReadable
  <1>1. ChainInv => WindowsReadable
    <2> SUFFICES ASSUME ChainInv, Born
                 PROVE  /\ FreezeConfigResult = Ok /\ AdminConfigResult = Ok
                        /\ FromAccountResult = Ok
                        /\ \A a \in Ids : MarkerResult(account[Marker(a)].data) = Ok
      BY DEF WindowsReadable
    <2>1. Struct(ConfigData)
      BY View
    <2>2. FreezeConfigResult = Ok
      BY <2>1, StructReads DEF FreezeConfigResult
    <2>3. AdminConfigResult = Ok
      BY <2>2, LoadedOk
    <2>4. FromAccountResult = Ok
      BY <2>1, StructReads DEF FromAccountResult, Struct, Check, Ok
    <2> QED
      BY <2>2, <2>3, <2>4, MarkerView
  <1> QED
    BY <1>1, ChainInvariant, PTL

\* No other account passes for the config: a marker is too short, and what is
\* not the program's is not asked for its data.
THEOREM OnlyOwnIsRead == Spec => []OnlyOwnConfigRead
  <1>1. ChainInv => OnlyOwnConfigRead
    <2> SUFFICES ASSUME ChainInv, NEW a \in Names,
                        FromOwnedAccountAtResult(account[a], FreezeOffset, "self")
                          = Ok
                 PROVE  a = ConfigAccount
      BY DEF OnlyOwnConfigRead
    <2>1. account[a].owner = "self"
          /\ DecodeAtResult(account[a].data, FreezeOffset) = Ok
      BY ThenOk DEF FromOwnedAccountAtResult, Check, Ok
    <2>2. a \notin Ids
      BY <2>1 DEF ChainInv, KeysInv
    <2>3. ASSUME NEW b \in Ids, a = Marker(b) PROVE FALSE
      <3>1. account[a].data \in {<<>>, <<0>>, <<1>>}
        BY <2>3 DEF ChainInv, MarkersInv, Default
      <3>2. Len(account[a].data) < 2
        <4>1. Len(<<>>) = 0 /\ Len(<<0>>) = 1 /\ Len(<<1>>) = 1
          OBVIOUS
        <4> DEFINE data == account[a].data
        <4>2. data = <<>> \/ data = <<0>> \/ data = <<1>>
          BY <3>1
        <4> HIDE DEF data
        <4>3. Len(data) < 2
          <5>1. CASE data = <<>>
            BY <4>1, <5>1
          <5>2. CASE data = <<0>>
            BY <4>1, <5>2
          <5>3. CASE data = <<1>>
            BY <4>1, <5>3
          <5> QED
            BY <4>2, <5>1, <5>2, <5>3
        <4> QED
          BY <4>3 DEF data
      <3>3. FreezeOffset + SIZE <= Len(account[a].data)
        BY <2>1, ThenOk DEF DecodeAtResult, Check, Ok
      <3> QED
        BY <3>2, <3>3, Layout
    <2> QED
      BY <2>2, <2>3, NamesByKind DEF C
  <1> QED
    BY <1>1, ChainInvariant, PTL

\* No write spills out of its window.
THEOREM NeighboursStay == Spec => NeighboursKept
  <1>1. ChainInv /\ [Next]_vars => [Born => OneWindow]_ConfigData
    BY NextEffect, StutterEffect DEF Kept
  <1> QED
    BY <1>1, ChainInvariant, PTL DEF Spec, NeighboursKept

\* Every call that lands has done to the records what it says.
THEOREM NoWriteIsLost == Spec => NoLostWrite
  <1>1. ChainInv /\ ChainInv' /\ [Next]_vars
          => [\A caller \in authorized' : TookEffect(caller)]_vars
    <2> SUFFICES ASSUME ChainInv, ChainInv', NEW caller \in authorized'
                 PROVE  TookEffect(caller)
      OBVIOUS
    <2>1. caller \in Ids
      BY DEF ChainInv, ChainTypeOK
    <2>2. \A t \in Targets : t \in Ids
      BY LayoutAssumption
    <2> QED
      BY <2>1, <2>2, TransferLands, RenounceLands, NominateLands, AcceptLands,
         FreezeProgramLands, ReleaseProgramLands, FreezeAccountLands,
         ReleaseAccountLands DEF TookEffect
  <1> QED
    BY <1>1, ChainInvariant, PTL DEF Spec, NoLostWrite

\* The bytes implement the records.
THEOREM BytesImplementRecords == Spec => ImplementsRecords
  <1>1. Init => Records!Init
    BY InitEffect
  <1>2. ChainInv /\ [Next]_vars => [Records!Next]_Records!vars
    BY NextEffect, StutterEffect
  <1> QED
    BY <1>1, <1>2, ChainInvariant, PTL DEF Spec, ImplementsRecords, Records!Spec

----------------------------------------------------------------------------
(* What the program answers is acceptable to LEZ. *)

\* What is written to the account once it exists is taken, and so is its birth.
LEMMA ConfigTaken ==
    ASSUME ChainInv, NEW data \in Seq(Cells)
    PROVE  /\ Born => Taken(C, PostState(C, data))
           /\ account[C] = Default => Taken(C, Claimed(C, data))
  <1>1. Born => account[C].owner = "self"
    BY View
  <1> QED
    BY <1>1 DEF Taken, Acceptable

\* So is what is written to a marker, which is claimed when it is made.
LEMMA MarkerTaken ==
    ASSUME ChainInv, NEW target \in Ids, NEW data \in Seq(Cells)
    PROVE  /\ Taken(Marker(target), MarkerPostState(target, data))
           /\ account[Marker(target)].data # <<>>
                => Taken(Marker(target), PostState(Marker(target), data))
  <1>1. \/ account[Marker(target)] = Default
        \/ /\ account[Marker(target)].owner = "self"
           /\ account[Marker(target)].data # <<>>
    <2>1. <<0>> # <<>> /\ <<1>> # <<>>
      <3>1. Len(<<>>) = 0 /\ Len(<<0>>) = 1 /\ Len(<<1>>) = 1
        OBVIOUS
      <3> QED
        BY <3>1
    <2> QED
      BY <2>1 DEF ChainInv, MarkersInv
  <1>2. Default.data = <<>>
    BY DEF Default
  <1> QED
    BY <1>1, <1>2 DEF Taken, Acceptable, MarkerPostState

\* The accounts that calls are given.
LEMMA CallAccounts ==
    ASSUME ChainInv
    PROVE  /\ ChainTypeOK /\ C \in Names
           /\ \A a \in Ids : a \in Names /\ Marker(a) \in Names
  BY DEF ChainInv, C, Names

\* The role's instructions.
LEMMA RoleTaken ==
    ASSUME ChainInv, NEW caller \in Ids
    PROVE  /\ \A to \in Ids, candidate \in Candidates, cosigns \in BOOLEAN :
                 LezAgrees(freeze_authority_transfer(caller, to, candidate, cosigns))
           /\ LezAgrees(freeze_authority_renounce(caller))
           /\ \A next \in AccountId :
                 LezAgrees(freeze_authority_nominate(caller, next))
           /\ LezAgrees(freeze_authority_accept(caller))
  <1>1. ASSUME NEW check, NEW new, Perform(check) = Ok,
               LoadedConfig \in FreezeConfigs => new \in FreezeConfigs
        PROVE  Taken(C, PostState(C, WriteToAt(ConfigData, new, FreezeOffset)))
    <2>1. Born
      BY <1>1, ThenOk, LoadedOk DEF Perform
    <2>2. WriteToAt(ConfigData, new, FreezeOffset) \in Seq(Cells)
      BY <1>1, <2>1, View, WrittenData
    <2> QED
      BY <2>1, <2>2, ConfigTaken
  <1>2. ASSUME NEW to \in Ids, NEW candidate \in Candidates,
               NEW cosigns \in BOOLEAN
        PROVE  LezAgrees(freeze_authority_transfer(caller, to, candidate, cosigns))
    <2> DEFINE check == TransferResult(candidate, AccountOf(to, cosigns))
               result == RequireAdmin(caller) ?? Perform(check)
               new == Transfer(LoadedConfig, to)
               signers == IF cosigns THEN {caller, to} ELSE {caller}
    <2>1. freeze_authority_transfer(caller, to, candidate, cosigns)
            = Call(<<C, caller, to>>, signers, result,
                   <<PostState(C, WriteToAt(ConfigData, new, FreezeOffset)),
                     Unchanged(caller), Unchanged(to)>>)
      BY Layout, Tuples
         DEF freeze_authority_transfer, ConfigPair, PostStatePair, Written, C
    <2>2. result = Ok => Perform(check) = Ok
      BY ThenOk
    <2>3. LoadedConfig \in FreezeConfigs => new \in FreezeConfigs
      BY UpdatesKeepRecords, Layout
    <2> HIDE DEF check, result, new, signers
    <2>4. result = Ok =>
            Taken(C, PostState(C, WriteToAt(ConfigData, new, FreezeOffset)))
      BY <1>1, <2>2, <2>3
    <2> QED
      BY <2>1, <2>4, CallAccounts, UnchangedTaken, TakenThree
  <1>3. LezAgrees(freeze_authority_renounce(caller))
    <2> DEFINE check == DualPath(AdminOrNone, LoadedConfig, Caller(caller))
               new == Renounce(LoadedConfig)
    <2>1. freeze_authority_renounce(caller)
            = Call(<<C, caller>>, {caller}, Perform(check),
                   <<PostState(C, WriteToAt(ConfigData, new, FreezeOffset)),
                     Unchanged(caller)>>)
      BY Layout, Tuples
         DEF freeze_authority_renounce, ConfigPair, PostStatePair, Written, C
    <2>2. LoadedConfig \in FreezeConfigs => new \in FreezeConfigs
      BY UpdatesKeepRecords, Layout
    <2> HIDE DEF check, new
    <2>3. Perform(check) = Ok =>
            Taken(C, PostState(C, WriteToAt(ConfigData, new, FreezeOffset)))
      BY <1>1, <2>2
    <2> QED
      BY <2>1, <2>3, CallAccounts, UnchangedTaken, TakenTwo
  <1>4. ASSUME NEW next \in AccountId
        PROVE  LezAgrees(freeze_authority_nominate(caller, next))
    <2> DEFINE check == DualPath(AdminOrNone, LoadedConfig, Caller(caller))
               new == Nominate(LoadedConfig, next)
    <2>1. freeze_authority_nominate(caller, next)
            = Call(<<C, caller>>, {caller}, Perform(check),
                   <<PostState(C, WriteToAt(ConfigData, new, FreezeOffset)),
                     Unchanged(caller)>>)
      BY Layout, Tuples
         DEF freeze_authority_nominate, ConfigPair, PostStatePair, Written, C
    <2>2. LoadedConfig \in FreezeConfigs => new \in FreezeConfigs
      BY UpdatesKeepRecords
    <2> HIDE DEF check, new
    <2>3. Perform(check) = Ok =>
            Taken(C, PostState(C, WriteToAt(ConfigData, new, FreezeOffset)))
      BY <1>1, <2>2
    <2> QED
      BY <2>1, <2>3, CallAccounts, UnchangedTaken, TakenTwo
  <1>5. LezAgrees(freeze_authority_accept(caller))
    <2> DEFINE check == AcceptResult(LoadedConfig, Caller(caller))
               new == Accept(LoadedConfig)
    <2>1. freeze_authority_accept(caller)
            = Call(<<C, caller>>, {caller}, Perform(check),
                   <<PostState(C, WriteToAt(ConfigData, new, FreezeOffset)),
                     Unchanged(caller)>>)
      BY DEF freeze_authority_accept, Written, C
    <2>2. LoadedConfig \in FreezeConfigs => new \in FreezeConfigs
      BY UpdatesKeepRecords, Layout
    <2> HIDE DEF check, new
    <2>3. Perform(check) = Ok =>
            Taken(C, PostState(C, WriteToAt(ConfigData, new, FreezeOffset)))
      BY <1>1, <2>2
    <2> QED
      BY <2>1, <2>3, CallAccounts, UnchangedTaken, TakenTwo
  <1> QED
    BY <1>2, <1>3, <1>4, <1>5

\* The brake's instructions.
LEMMA BrakeTaken ==
    ASSUME ChainInv, NEW caller \in Ids, NEW target \in Ids
    PROVE  /\ LezAgrees(freeze_program(caller))
           /\ LezAgrees(freeze_program_release(caller))
           /\ LezAgrees(freeze_account(caller, target))
           /\ LezAgrees(freeze_account_release(caller, target))
  <1>1. ASSUME NEW check, NEW state \in BOOLEAN, Perform(check) = Ok
        PROVE  Taken(C, Written(SetIsFrozen(LoadedConfig, state)))
    <2> DEFINE new == SetIsFrozen(LoadedConfig, state)
    <2>1. Born
      BY <1>1, ThenOk, LoadedOk DEF Perform
    <2>2. new \in FreezeConfigs
      BY <2>1, View, UpdatesKeepRecords, Layout
    <2> HIDE DEF new
    <2>3. WriteToAt(ConfigData, new, FreezeOffset) \in Seq(Cells)
      BY <2>1, <2>2, WrittenData
    <2>4. Written(new) = PostState(C, WriteToAt(ConfigData, new, FreezeOffset))
      BY DEF Written, C
    <2>5. Taken(C, Written(new))
      BY <2>1, <2>3, <2>4, ConfigTaken
    <2> QED
      BY <2>5 DEF new
  <1>2. LezAgrees(freeze_program(caller))
    <2> DEFINE check == AssertHolder(LoadedConfig, Caller(caller))
               result == (IF AutoWrap THEN RequireNotFrozen(caller) ELSE Ok)
                           ?? Perform(check)
               post == Written(SetIsFrozen(LoadedConfig, TRUE))
    <2>1. freeze_program(caller)
            = Call(<<C, Marker(caller), caller>>, {caller}, result,
                   <<post, Unchanged(Marker(caller)), Unchanged(caller)>>)
      BY DEF freeze_program, C
    <2>2. result = Ok => Perform(check) = Ok
      BY ThenOk
    <2>3. result = Ok => Taken(C, post)
      <3> HIDE DEF check, result
      <3> QED
        BY <1>1, <2>2
    <2> HIDE DEF result, post
    <2> QED
      BY <2>1, <2>3, CallAccounts, UnchangedTaken, TakenThree
  <1>3. LezAgrees(freeze_program_release(caller))
    <2> DEFINE check == AssertHolder(LoadedConfig, Caller(caller))
               post == Written(SetIsFrozen(LoadedConfig, FALSE))
    <2>1. freeze_program_release(caller)
            = Call(<<C, caller>>, {caller}, Perform(check),
                   <<post, Unchanged(caller)>>)
      BY DEF freeze_program_release, C
    <2>2. Perform(check) = Ok => Taken(C, post)
      <3> HIDE DEF check
      <3> QED
        BY <1>1
    <2> HIDE DEF check, post
    <2> QED
      BY <2>1, <2>2, CallAccounts, UnchangedTaken, TakenTwo
  <1>4. LezAgrees(freeze_account(caller, target))
    <2> DEFINE result == FreezeConfigResult
                           ?? MarkerResult(account[Marker(target)].data)
                           ?? PerformFreezeResult(LoadedConfig, Caller(caller))
               bytes == MarkerBytes(TRUE)
    <2>1. freeze_account(caller, target)
            = Call(<<C, Marker(target), caller>>, {caller}, result,
                   <<Unchanged(C), MarkerPostState(target, bytes),
                     Unchanged(caller)>>)
      BY DEF freeze_account, C
    <2>2. bytes \in Seq(Cells)
      BY FlagData
    <2> HIDE DEF result, bytes
    <2> QED
      BY <2>1, <2>2, MarkerTaken, CallAccounts, UnchangedTaken, TakenThree
  <1>5. LezAgrees(freeze_account_release(caller, target))
    <2> DEFINE state == MarkerState(account[Marker(target)].data)
               result == FreezeConfigResult
                           ?? AssertHolder(LoadedConfig, Caller(caller))
                           ?? MarkerResult(account[Marker(target)].data)
                           ?? PerformReleaseResult(LoadedConfig, state,
                                                   Caller(caller))
               bytes == MarkerBytes(FALSE)
    <2>1. freeze_account_release(caller, target)
            = Call(<<C, Marker(target), caller>>, {caller}, result,
                   <<Unchanged(C), PostState(Marker(target), bytes),
                     Unchanged(caller)>>)
      BY DEF freeze_account_release, C
    <2>2. result = Ok => FromDataOrDefault(state).is_frozen
      BY ThenOk DEF PerformReleaseResult, Check, Ok
    <2>3. result = Ok => account[Marker(target)].data # <<>>
      <3> HIDE DEF result
      <3> QED
        BY <2>2 DEF FromDataOrDefault, MarkerState
    <2>4. bytes \in Seq(Cells)
      BY FlagData
    <2> HIDE DEF result, bytes
    <2> QED
      BY <2>1, <2>3, <2>4, MarkerTaken, CallAccounts, UnchangedTaken, TakenThree
  <1> QED
    BY <1>2, <1>3, <1>4, <1>5

\* The admin's instructions.
LEMMA AdminTaken ==
    ASSUME ChainInv, NEW caller \in Ids
    PROVE  /\ \A to \in Ids, candidate \in Candidates, cosigns \in BOOLEAN :
                 LezAgrees(admin_transfer(caller, to, candidate, cosigns))
           /\ \A next \in AccountId : LezAgrees(admin_nominate(caller, next))
           /\ LezAgrees(admin_accept(caller))
           /\ LezAgrees(admin_renounce(caller))
  <1>1. ASSUME NEW slot \in Slots, Born,
               slot.holder = NoId => slot.nominee = NoId
        PROVE  Taken(C, AdminWritten(slot))
    <2>1. SlotWriteAt(ConfigData, slot, AdminOffset) \in Seq(Cells)
      BY <1>1, WrittenData
    <2>2. AdminWritten(slot)
            = PostState(C, SlotWriteAt(ConfigData, slot, AdminOffset))
      BY Layout DEF AdminWritten, AdminData, ConfigData, C
    <2> QED
      BY <1>1, <2>1, <2>2, ConfigTaken
  <1>2. ASSUME RequireAdmin(caller) = Ok
        PROVE  Born /\ AdminSlot \in Slots /\ AdminSlot.holder # NoId
    BY <1>2, SameAdmin, Layout
  <1>3. ASSUME NEW to \in Ids, NEW candidate \in Candidates,
               NEW cosigns \in BOOLEAN
        PROVE  LezAgrees(admin_transfer(caller, to, candidate, cosigns))
    <2> DEFINE result == RequireAdmin(caller)
                           ?? Validate(candidate, AccountOf(to, cosigns))
               slot == SlotTransfer(AdminSlot, to)
               signers == IF cosigns THEN {caller, to} ELSE {caller}
    <2>1. admin_transfer(caller, to, candidate, cosigns)
            = Call(<<C, caller, to>>, signers, result,
                   <<AdminWritten(slot), Unchanged(caller), Unchanged(to)>>)
      BY Layout DEF admin_transfer, C
    <2>2. result = Ok => RequireAdmin(caller) = Ok
      BY ThenOk
    <2>3. AdminSlot \in Slots => slot \in Slots /\ slot.nominee = NoId
      BY AdminSlots, Layout
    <2> HIDE DEF result, slot, signers
    <2>4. result = Ok => Taken(C, AdminWritten(slot))
      BY <1>1, <1>2, <2>2, <2>3
    <2> QED
      BY <2>1, <2>4, CallAccounts, UnchangedTaken, TakenThree
  <1>4. ASSUME NEW next \in AccountId
        PROVE  LezAgrees(admin_nominate(caller, next))
    <2> DEFINE slot == SlotNominate(AdminSlot, next)
    <2>1. admin_nominate(caller, next)
            = Call(<<C, caller>>, {caller}, RequireAdmin(caller),
                   <<AdminWritten(slot), Unchanged(caller)>>)
      BY Layout DEF admin_nominate, C
    <2>2. ASSUME AdminSlot \in Slots
          PROVE  slot \in Slots /\ slot.holder = AdminSlot.holder
      <3>1. slot = [holder |-> AdminSlot.holder, nominee |-> next]
            /\ slot \in Slots
        BY <2>2, AdminSlots
      <3> QED
        BY <3>1
    <2> HIDE DEF slot
    <2>3. RequireAdmin(caller) = Ok => Taken(C, AdminWritten(slot))
      BY <1>1, <1>2, <2>2
    <2> QED
      BY <2>1, <2>3, CallAccounts, UnchangedTaken, TakenTwo
  <1>5. LezAgrees(admin_accept(caller))
    <2> DEFINE result == AdminConfigResult
                           ?? SlotAcceptResult(AdminSlot, Caller(caller))
               slot == SlotAccept(AdminSlot)
    <2>1. admin_accept(caller)
            = Call(<<C, caller>>, {caller}, result,
                   <<AdminWritten(slot), Unchanged(caller)>>)
      BY Layout DEF admin_accept, C
    <2>2. result = Ok => AdminConfigResult = Ok
      BY ThenOk
    <2>3. AdminConfigResult = Ok => Born /\ AdminSlot \in Slots
      <3>1. AdminConfigResult = Ok => Born
        BY LoadedOk
      <3>2. Born => AdminSlot \in Slots
        BY View
      <3> QED
        BY <3>1, <3>2
    <2>4. AdminSlot \in Slots => slot \in Slots /\ slot.nominee = NoId
      BY AdminSlots, Layout
    <2> HIDE DEF result, slot
    <2>5. result = Ok => Taken(C, AdminWritten(slot))
      BY <1>1, <2>2, <2>3, <2>4
    <2> QED
      BY <2>1, <2>5, CallAccounts, UnchangedTaken, TakenTwo
  <1>6. LezAgrees(admin_renounce(caller))
    <2> DEFINE slot == SlotRenounce(AdminSlot)
    <2>1. admin_renounce(caller)
            = Call(<<C, caller>>, {caller}, RequireAdmin(caller),
                   <<AdminWritten(slot), Unchanged(caller)>>)
      BY Layout DEF admin_renounce, C
    <2>2. AdminSlot \in Slots => slot \in Slots /\ slot.nominee = NoId
      BY AdminSlots, Layout
    <2> HIDE DEF slot
    <2>3. RequireAdmin(caller) = Ok => Taken(C, AdminWritten(slot))
      BY <1>1, <1>2, <2>2
    <2> QED
      BY <2>1, <2>3, CallAccounts, UnchangedTaken, TakenTwo
  <1> QED
    BY <1>3, <1>4, <1>5, <1>6

\* The program's own instructions.
LEMMA OwnTaken ==
    ASSUME ChainInv, NEW caller \in Ids
    PROVE  /\ LezAgrees(initialize(caller))
           /\ LezAgrees(withdraw(caller))
           /\ \A value \in Values : LezAgrees(update_value(caller, value))
  <1>1. ASSUME NEW value \in Values, RequireAdmin(caller) = Ok
        PROVE  Taken(C, PostState(C, WithValue(value)))
    BY <1>1, SameAdmin, WrittenData, ConfigTaken
  <1>2. LezAgrees(initialize(caller))
    <2> DEFINE born == Check(account[C] = Default, "AccountAlreadyInitialized")
               rest == Validate([kind |-> "Signer", derived |-> NoId],
                                Caller(caller))
                         ?? SlotInitializeResult(caller)
               new == SlotWriteAt(Zeros, SlotInitialize(caller), AdminOffset)
    <2>1. initialize(caller)
            = Call(<<caller, C>>, {caller}, born ?? rest,
                   <<Unchanged(caller), Claimed(C, new)>>)
      BY DEF initialize, C, ??
    <2>2. born ?? rest = Ok => account[C] = Default
      <3>1. born ?? rest = Ok => born = Ok
        BY ThenOk
      <3> QED
        BY <3>1 DEF Check, Ok
    <2>3. new \in Seq(Cells)
      BY StructBorn DEF Struct
    <2> HIDE DEF born, rest, new
    <2> QED
      BY <2>1, <2>2, <2>3, ConfigTaken, CallAccounts, UnchangedTaken, TakenTwo
  <1>3. LezAgrees(withdraw(caller))
    <2> DEFINE result == RequireAdmin(caller) ?? FromAccountResult
               post == PostState(C, WithValue(0))
    <2>1. withdraw(caller)
            = Call(<<C, caller>>, {caller}, result, <<post, Unchanged(caller)>>)
      BY DEF withdraw, C
    <2>2. result = Ok => Taken(C, post)
      BY <1>1, ThenOk, Layout
    <2> HIDE DEF result, post
    <2> QED
      BY <2>1, <2>2, CallAccounts, UnchangedTaken, TakenTwo
  <1>4. ASSUME NEW value \in Values PROVE LezAgrees(update_value(caller, value))
    <2> DEFINE result == RequireNotFrozen(caller) ?? RequireAdmin(caller)
                           ?? FromAccountResult
               post == PostState(C, WithValue(value))
    <2>1. update_value(caller, value)
            = Call(<<C, Marker(caller), caller>>, {caller}, result,
                   <<post, Unchanged(Marker(caller)), Unchanged(caller)>>)
      BY DEF update_value, C
    <2>2. result = Ok => Taken(C, post)
      BY <1>1, ThenOk
    <2> HIDE DEF result, post
    <2> QED
      BY <2>1, <2>2, CallAccounts, UnchangedTaken, TakenThree
  <1> QED
    BY <1>2, <1>3, <1>4

\* The one that nobody signs.
LEMMA ReadTaken ==
    ASSUME ChainInv
    PROVE  LezAgrees(read_value)
  <1>1. read_value = Call(<<C>>, {}, FromAccountResult, <<Unchanged(C)>>)
    BY DEF read_value, C
  <1> QED
    BY <1>1, CallAccounts, UnchangedTaken, TakenOne

\* LEZ accepts what the program answers: nothing that the program lets through
\* is lost to a rule about post-states, in any state it can reach.
THEOREM LezAcceptsAll == Spec => []LezAccepts
  <1>1. ChainInv => LezAccepts
    <2> SUFFICES ASSUME ChainInv,
                        NEW call \in RoleCalls \cup BrakeCalls \cup AdminCalls
                                       \cup OwnCalls \cup {read_value}
                 PROVE  LezAgrees(call)
      BY DEF LezAccepts
    <2>1. CASE call \in RoleCalls
      BY <2>1, RoleTaken DEF RoleCalls, Transfers
    <2>2. CASE call \in BrakeCalls
      <3>1. \A t \in Targets : t \in Ids
        BY LayoutAssumption
      <3> QED
        BY <2>2, <3>1, BrakeTaken DEF BrakeCalls
    <2>3. CASE call \in AdminCalls
      <3>1. \A next \in Admins \cup {NoId} : next \in AccountId
        BY LayoutAssumption, Layout
      <3> QED
        BY <2>3, <3>1, AdminTaken DEF AdminCalls
    <2>4. CASE call \in OwnCalls
      BY <2>4, OwnTaken DEF OwnCalls
    <2>5. CASE call = read_value
      BY <2>5, ReadTaken
    <2> QED
      BY <2>1, <2>2, <2>3, <2>4, <2>5
  <1> QED
    BY <1>1, ChainInvariant, PTL
=============================================================================
