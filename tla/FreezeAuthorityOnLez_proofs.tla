--------------------- MODULE FreezeAuthorityOnLez_proofs ---------------------
(***************************************************************************)
(* What the windows of ConfigWindow promise, for data of any length and a  *)
(* window at any offset of it, and what one transaction does to the        *)
(* accounts of a chain, whatever the program answers.                      *)
(***************************************************************************)
EXTENDS FreezeAuthorityOnLez, SequenceTheorems, TLAPS

\* A splice keeps the length, puts its part over the window and leaves every
\* other cell alone.
LEMMA SpliceCells ==
    ASSUME NEW data \in Seq(Cells), NEW part \in Seq(Cells), NEW offset \in Nat,
           offset + Len(part) <= Len(data)
    PROVE  /\ Splice(data, part, offset) \in Seq(Cells)
           /\ Len(Splice(data, part, offset)) = Len(data)
           /\ \A i \in 1 .. Len(part) :
                 Splice(data, part, offset)[offset + i] = part[i]
           /\ \A i \in 1 .. Len(data) \ Window(offset, Len(part)) :
                 Splice(data, part, offset)[i] = data[i]
  <1> DEFINE new == Splice(data, part, offset)
  <1>1. ASSUME NEW i \in 1 .. Len(data)
        PROVE  (IF i \in Window(offset, Len(part))
                THEN part[i - offset] ELSE data[i]) \in Cells
    <2>1. CASE i \in Window(offset, Len(part))
      <3>1. i - offset \in 1 .. Len(part)
        BY <2>1 DEF Window
      <3> QED
        BY <2>1, <3>1
    <2>2. CASE i \notin Window(offset, Len(part))
      BY <2>2
    <2> QED
      BY <2>1, <2>2
  <1>2. new \in [1 .. Len(data) -> Cells]
    BY <1>1 DEF Splice
  <1>3. new \in Seq(Cells) /\ Len(new) = Len(data)
    BY <1>2
  <1>4. ASSUME NEW i \in 1 .. Len(part)
        PROVE  new[offset + i] = part[i]
    <2>1. offset + i \in 1 .. Len(data) /\ offset + i \in Window(offset, Len(part))
      BY DEF Window
    <2>2. (offset + i) - offset = i
      OBVIOUS
    <2> QED
      BY <2>1, <2>2 DEF Splice
  <1>5. ASSUME NEW i \in 1 .. Len(data) \ Window(offset, Len(part))
        PROVE  new[i] = data[i]
    BY DEF Splice
  <1> QED
    BY <1>3, <1>4, <1>5

\* The cells that a config is written as.
LEMMA ConfigCells ==
    ASSUME NEW config \in FreezeConfigs
    PROVE  /\ SlotBytes(config.slot) \in Seq(Cells)
           /\ Len(SlotBytes(config.slot)) = ENCODED_LEN
           /\ SlotBytes(config.slot)[1] = config.slot.holder
           /\ SlotBytes(config.slot)[2] = config.slot.nominee
           /\ <<FlagByte(config.is_frozen)>> \in Seq(Cells)
           /\ Len(<<FlagByte(config.is_frozen)>>) = 1
           /\ <<FlagByte(config.is_frozen)>>[1] = FlagByte(config.is_frozen)
           /\ FlagByte(config.is_frozen) \in {0, 1}
           /\ config.is_frozen <=> FlagByte(config.is_frozen) = 1
  <1>1. config.slot.holder \in Cells /\ config.slot.nominee \in Cells
    BY CellsAssumption DEF FreezeConfigs, Slots
  <1>2. FlagByte(config.is_frozen) \in {0, 1} /\ FlagByte(config.is_frozen) \in Cells
    BY CellsAssumption DEF FlagByte
  <1>3. config.is_frozen <=> FlagByte(config.is_frozen) = 1
    BY DEF FlagByte
  <1> QED
    BY <1>1, <1>2, <1>3 DEF SlotBytes, ENCODED_LEN

\* The write is one splice of the whole window, of which every cell is known.
\* (write_to_at: "leaving every surrounding byte untouched")
THEOREM WriteKeepsNeighbours ==
    ASSUME NEW data \in Seq(Cells), NEW config \in FreezeConfigs,
           NEW offset \in Nat, WriteToAtResult(data, offset) = Ok
    PROVE  /\ WriteToAt(data, config, offset) \in Seq(Cells)
           /\ Len(WriteToAt(data, config, offset)) = Len(data)
           /\ \A i \in 1 .. Len(data) \ Window(offset, SIZE) :
                 WriteToAt(data, config, offset)[i] = data[i]
  <1> DEFINE flag == <<FlagByte(config.is_frozen)>>
             mid == SlotWriteAt(data, config.slot, offset)
             new == WriteToAt(data, config, offset)
  <1>1. offset + ENCODED_LEN <= Len(data) /\ offset + SIZE <= Len(data)
    BY DEF WriteToAtResult, SlotFits, Check, ??, Ok
  <1>2. /\ mid \in Seq(Cells) /\ Len(mid) = Len(data)
        /\ \A i \in 1 .. Len(data) \ Window(offset, ENCODED_LEN) : mid[i] = data[i]
    BY <1>1, ConfigCells, SpliceCells DEF SlotWriteAt
  <1>3. offset + ENCODED_LEN \in Nat
        /\ (offset + ENCODED_LEN) + Len(flag) <= Len(mid)
    BY <1>1, <1>2 DEF ENCODED_LEN, SIZE
  <1>4. /\ new \in Seq(Cells) /\ Len(new) = Len(mid)
        /\ \A i \in 1 .. Len(mid) \ Window(offset + ENCODED_LEN, Len(flag)) :
              new[i] = mid[i]
    <2>1. flag \in Seq(Cells)
      BY ConfigCells
    <2>2. new = Splice(mid, flag, offset + ENCODED_LEN)
      BY DEF WriteToAt
    <2> HIDE DEF flag, mid, new
    <2> QED
      BY <1>2, <1>3, <2>1, <2>2, SpliceCells
  <1>5. ASSUME NEW i \in 1 .. Len(data) \ Window(offset, SIZE)
        PROVE  new[i] = data[i]
    <2>1. i \notin Window(offset, ENCODED_LEN)
          /\ i \notin Window(offset + ENCODED_LEN, Len(flag))
      BY <1>5 DEF Window, SIZE, ENCODED_LEN
    <2> QED
      BY <1>2, <1>4, <2>1
  <1> QED
    BY <1>2, <1>4, <1>5

\* The cells of the window after the write.
LEMMA WrittenCells ==
    ASSUME NEW data \in Seq(Cells), NEW config \in FreezeConfigs,
           NEW offset \in Nat, WriteToAtResult(data, offset) = Ok
    PROVE  /\ offset + SIZE <= Len(data)
           /\ WriteToAt(data, config, offset)[offset + 1] = config.slot.holder
           /\ WriteToAt(data, config, offset)[offset + 2] = config.slot.nominee
           /\ WriteToAt(data, config, offset)[offset + SIZE]
                = FlagByte(config.is_frozen)
  <1> DEFINE slot == SlotBytes(config.slot)
             flag == <<FlagByte(config.is_frozen)>>
             mid == SlotWriteAt(data, config.slot, offset)
             new == WriteToAt(data, config, offset)
  <1>1. offset + ENCODED_LEN <= Len(data) /\ offset + SIZE <= Len(data)
    BY DEF WriteToAtResult, SlotFits, Check, ??, Ok
  <1>2. /\ slot \in Seq(Cells) /\ Len(slot) = ENCODED_LEN
        /\ slot[1] = config.slot.holder /\ slot[2] = config.slot.nominee
    BY ConfigCells
  <1>3. /\ flag \in Seq(Cells) /\ Len(flag) = 1 /\ flag[1] \in {0, 1}
        /\ config.is_frozen <=> flag[1] = 1
    BY ConfigCells
  <1>4. mid = Splice(data, slot, offset)
    BY DEF SlotWriteAt
  <1>5. new = Splice(mid, flag, offset + ENCODED_LEN)
    BY DEF WriteToAt
  <1>6. new \in Seq(Cells) /\ Len(new) = Len(data)
    BY WriteKeepsNeighbours
  <1> HIDE DEF slot, flag, mid, new
  <1>7. /\ mid \in Seq(Cells) /\ Len(mid) = Len(data)
        /\ \A i \in 1 .. Len(slot) : mid[offset + i] = slot[i]
    BY <1>1, <1>2, <1>4, SpliceCells
  <1>8. mid[offset + 1] = config.slot.holder /\ mid[offset + 2] = config.slot.nominee
    BY <1>2, <1>7 DEF ENCODED_LEN
  <1>9. offset + ENCODED_LEN \in Nat
        /\ (offset + ENCODED_LEN) + Len(flag) <= Len(mid)
    BY <1>1, <1>3, <1>7 DEF ENCODED_LEN, SIZE
  <1>10. /\ \A i \in 1 .. Len(flag) : new[(offset + ENCODED_LEN) + i] = flag[i]
         /\ \A i \in 1 .. Len(mid) \ Window(offset + ENCODED_LEN, Len(flag)) :
                new[i] = mid[i]
    <2> DEFINE at == offset + ENCODED_LEN
    <2>1. mid \in Seq(Cells) /\ flag \in Seq(Cells) /\ at \in Nat
          /\ at + Len(flag) <= Len(mid)
      BY <1>3, <1>7, <1>9
    <2> HIDE DEF at
    <2>2. /\ \A i \in 1 .. Len(flag) : Splice(mid, flag, at)[at + i] = flag[i]
          /\ \A i \in 1 .. Len(mid) \ Window(at, Len(flag)) :
                Splice(mid, flag, at)[i] = mid[i]
      BY <2>1, SpliceCells
    <2> QED
      BY <1>5, <2>2 DEF at
  <1>11. new[offset + SIZE] = flag[1]
    <2>1. (offset + ENCODED_LEN) + 1 = offset + SIZE
      BY DEF ENCODED_LEN, SIZE
    <2> QED
      BY <1>3, <1>10, <2>1
  <1>12. new[offset + 1] = mid[offset + 1] /\ new[offset + 2] = mid[offset + 2]
    <2>1. /\ offset + 1 \in 1 .. Len(mid) \ Window(offset + ENCODED_LEN, Len(flag))
          /\ offset + 2 \in 1 .. Len(mid) \ Window(offset + ENCODED_LEN, Len(flag))
      BY <1>3, <1>9 DEF Window, ENCODED_LEN
    <2> QED
      BY <1>10, <2>1
  <1> QED
    BY <1>1, <1>8, <1>11, <1>12 DEF new, flag

\* What was written is what is loaded: a load after a write succeeds and
\* gives back the record, whatever lay in the window before.
THEOREM ReadBack ==
    ASSUME NEW data \in Seq(Cells), NEW config \in FreezeConfigs,
           NEW offset \in Nat, WriteToAtResult(data, offset) = Ok
    PROVE  /\ DecodeAtResult(WriteToAt(data, config, offset), offset) = Ok
           /\ DecodeAt(WriteToAt(data, config, offset), offset) = config
  <1> DEFINE new == WriteToAt(data, config, offset)
  <1>1. /\ offset + SIZE <= Len(data)
        /\ new[offset + 1] = config.slot.holder
        /\ new[offset + 2] = config.slot.nominee
        /\ new[offset + SIZE] = FlagByte(config.is_frozen)
    BY WrittenCells
  <1>2. new \in Seq(Cells) /\ Len(new) = Len(data)
    BY WriteKeepsNeighbours
  <1>3. /\ FlagByte(config.is_frozen) \in {0, 1}
        /\ config.is_frozen <=> FlagByte(config.is_frozen) = 1
    BY ConfigCells
  <1> HIDE DEF new
  <1>4. DecodeAtResult(new, offset) = Ok
    <2>1. new # <<>> /\ offset + ENCODED_LEN <= Len(new)
      BY <1>1, <1>2 DEF SIZE, ENCODED_LEN
    <2> QED
      BY <1>1, <1>2, <1>3, <2>1 DEF DecodeAtResult, SlotFits, Check, ??, Ok
  <1>5. DecodeAt(new, offset) = config
    <2>1. config = [slot |-> config.slot, is_frozen |-> config.is_frozen]
          /\ config.slot = [holder |-> config.slot.holder,
                            nominee |-> config.slot.nominee]
          /\ config.is_frozen \in BOOLEAN
      BY DEF FreezeConfigs, Slots
    <2>2. SlotReadAt(new, offset) = config.slot
      BY <1>1, <2>1 DEF SlotReadAt
    <2>3. (new[offset + SIZE] = 1) = config.is_frozen
      BY <1>1, <1>3, <2>1
    <2> QED
      BY <2>1, <2>2, <2>3 DEF DecodeAt
  <1> QED
    BY <1>4, <1>5 DEF new

\* A neighbour's slot reads the same before and after, as long as the two
\* windows do not meet: the admin slot of a shared account, for one.
THEOREM NeighbourSlotUnmoved ==
    ASSUME NEW data \in Seq(Cells), NEW config \in FreezeConfigs,
           NEW offset \in Nat, NEW other \in Nat,
           WriteToAtResult(data, offset) = Ok,
           SlotFits(data, other) = Ok,
           Window(other, ENCODED_LEN) \cap Window(offset, SIZE) = {}
    PROVE  /\ SlotFits(WriteToAt(data, config, offset), other) = Ok
           /\ SlotReadAt(WriteToAt(data, config, offset), other)
                = SlotReadAt(data, other)
  <1> DEFINE new == WriteToAt(data, config, offset)
  <1>1. /\ Len(new) = Len(data)
        /\ \A i \in 1 .. Len(data) \ Window(offset, SIZE) : new[i] = data[i]
    BY WriteKeepsNeighbours
  <1>2. other + ENCODED_LEN <= Len(data)
    BY DEF SlotFits, Check, Ok
  <1> HIDE DEF new
  <1>3. other + 1 \in 1 .. Len(data) /\ other + 2 \in 1 .. Len(data)
    BY <1>2 DEF ENCODED_LEN
  <1>4. other + 1 \in Window(other, ENCODED_LEN)
        /\ other + 2 \in Window(other, ENCODED_LEN)
    BY DEF Window, ENCODED_LEN
  <1>5. new[other + 1] = data[other + 1] /\ new[other + 2] = data[other + 2]
    BY <1>1, <1>3, <1>4
  <1>6. SlotFits(new, other) = Ok
    BY <1>1, <1>2 DEF SlotFits, Check, Ok
  <1>7. SlotReadAt(new, other) = SlotReadAt(data, other)
    BY <1>5 DEF SlotReadAt
  <1> QED
    BY <1>6, <1>7 DEF new

\* The strict load of a dedicated account is the load of a window at 0: what
\* the one takes the other takes. (decode_at: "the degenerate case")
THEOREM DedicatedIsWindowAtZero ==
    ASSUME NEW data \in Seq(Cells), DecodeResult(data) = Ok
    PROVE  DecodeAtResult(data, 0) = Ok
  <1>1. data # <<>> /\ Len(data) = SIZE /\ data[Len(data)] \in {0, 1}
    BY DEF DecodeResult, Check, ??, Ok
  <1> QED
    BY <1>1 DEF DecodeAtResult, SlotFits, Check, ??, Ok, SIZE, ENCODED_LEN

\* An account that is written first and bootstrapped then is born with the
\* slot in the hands of the validated account and the program running, and
\* with every other cell as the program wrote it. (docs of bootstrap_at: "so
\* the slot is born initialized")
THEOREM BornInitialized ==
    ASSUME NEW data \in Seq(Cells), NEW offset \in Nat,
           NEW candidate \in Candidates, NEW new \in Accounts,
           BootstrapAtResult(data, offset, candidate, new) = Ok
    PROVE  LET born == BootstrapAt(data, offset, new)
           IN  /\ DecodeAtResult(born, offset) = Ok
               /\ DecodeAt(born, offset) = Bootstrap(new.account_id)
               /\ \A i \in 1 .. Len(data) \ Window(offset, SIZE) :
                     born[i] = data[i]
  <1>1. WriteToAtResult(data, offset) = Ok
    BY DEF BootstrapAtResult, ??, Ok
  <1>2. Bootstrap(new.account_id) \in FreezeConfigs
    BY DEF Bootstrap, SlotInitialize, FreezeConfigs, Slots, Accounts, AccountId
  <1> QED
    BY <1>1, <1>2, ReadBack, WriteKeepsNeighbours DEF BootstrapAt

\* A slot that the framework placed wrong shows, be it off by fields or by
\* bytes: of a zeroed struct with the probe at one byte offset, the 65 bytes
\* at any other offset are not the probe's. Below, the first of them is a
\* zero and not 0xA5; above, the last is a zero and not the flag. (comment in
\* probe: "Non-zero across the whole window, so a misplaced slot shows")
THEOREM MisplacedProbeShows ==
    ASSUME NEW len \in Nat, NEW placed \in Nat, NEW offset \in Nat,
           placed + SizeInBytes <= len, offset + SizeInBytes <= len,
           offset # placed
    PROVE  \E i \in 1 .. SizeInBytes :
              ProbedStruct(len, placed)[offset + i] # ProbeBytes[i]
  <1> DEFINE zeros == [i \in 1 .. len |-> 0]
  <1>1. Len(ProbeBytes) = 65
    BY DEF ProbeBytes, SizeInBytes
  <1>2. ProbeBytes[1] = 165 /\ ProbeBytes[65] = 1
    BY DEF ProbeBytes, SizeInBytes
  <1>3. Len(zeros) = len
    OBVIOUS
  <1>4. ASSUME NEW i \in 1 .. len, i \notin Window(placed, SizeInBytes)
        PROVE  ProbedStruct(len, placed)[i] = 0
    <2>1. ProbedStruct(len, placed)[i] = zeros[i]
      BY <1>1, <1>3, <1>4 DEF ProbedStruct, Splice, SizeInBytes
    <2> QED
      BY <2>1
  <1>5. CASE offset < placed
    <2>1. offset + 1 \in 1 .. len /\ offset + 1 \notin Window(placed, SizeInBytes)
      BY <1>5 DEF Window, SizeInBytes
    <2> QED
      BY <1>2, <1>4, <2>1 DEF SizeInBytes
  <1>6. CASE placed < offset
    <2>1. /\ offset + 65 \in 1 .. len
          /\ offset + 65 \notin Window(placed, SizeInBytes)
      BY <1>6 DEF Window, SizeInBytes
    <2> QED
      BY <1>2, <1>4, <2>1 DEF SizeInBytes
  <1> QED
    BY <1>5, <1>6

----------------------------------------------------------------------------
(* One transaction through LEZ. *)

\* A chain of checks passes when every one of them does.
LEMMA ThenOk ==
    ASSUME NEW first, NEW next
    PROVE  (first ?? next) = Ok <=> first = Ok /\ next = Ok
  BY DEF ??, Ok

\* An account that is passed through comes back as it was, unclaimed.
LEMMA UnchangedPost ==
    ASSUME ChainTypeOK, NEW a \in Names
    PROVE  Unchanged(a).account = account[a] /\ ~Unchanged(a).claim
  BY DEF ChainTypeOK, Unchanged, PostState

\* What LEZ takes for an account: nothing new, unless it is stranded, a write
\* if the program owns it, a claim if nobody does.
Acceptable(a, post) ==
    \/ post = Unchanged(a) /\ ~Stranded(a)
    \/ \E data \in Seq(Cells) :
          \/ post = PostState(a, data) /\ account[a].owner = "self"
          \/ post = Claimed(a, data) /\ account[a] = Default

\* One by one acceptable is acceptable together.
LEMMA AcceptableTogether ==
    ASSUME ChainTypeOK, NEW accounts \in Seq(Names), NEW posts,
           Len(posts) = Len(accounts),
           \A i \in 1 .. Len(accounts) : Acceptable(accounts[i], posts[i])
    PROVE  ValidateExecution(accounts, posts) = Ok
  <1>1. ASSUME NEW i \in 1 .. Len(posts)
        PROVE  LET pre == account[accounts[i]]
               IN  /\ \/ posts[i].account = pre
                      \/ pre.owner = "self"
                         /\ posts[i].account
                              = [pre EXCEPT !.data = posts[i].account.data]
                      \/ pre = Default
                   /\ posts[i].claim => pre.owner = "default"
                   /\ \/ posts[i].claim
                      \/ posts[i].account.owner # "default"
                      \/ posts[i].account = Default
    <2> DEFINE a == accounts[i]
    <2>1. a \in Names /\ Acceptable(a, posts[i])
      OBVIOUS
    <2>2. account[a] \in [owner : Owners, nonce : BOOLEAN, data : Seq(Cells)]
      BY <2>1 DEF ChainTypeOK
    <2>3. CASE posts[i] = Unchanged(a) /\ ~Stranded(a)
      BY <2>1, <2>3, UnchangedPost DEF Stranded
    <2>4. ASSUME NEW data \in Seq(Cells),
                 posts[i] = PostState(a, data), account[a].owner = "self"
          PROVE  /\ posts[i].account = [account[a] EXCEPT !.data = posts[i].account.data]
                 /\ ~posts[i].claim /\ posts[i].account.owner = "self"
      BY <2>2, <2>4 DEF PostState
    <2>5. ASSUME NEW data \in Seq(Cells),
                 posts[i] = Claimed(a, data), account[a] = Default
          PROVE  posts[i].claim /\ account[a].owner = "default"
      BY <2>2, <2>5 DEF PostState, Claimed, Default
    <2> QED
      BY <2>1, <2>3, <2>4, <2>5 DEF Acceptable
  <1> QED
    BY <1>1 DEF ValidateExecution, Check, ??, Ok

\* A landed call leaves each of its accounts as its post-state says, and every
\* other account alone.
LEMMA LandsAccounts ==
    ASSUME ChainTypeOK, NEW call, Lands(call), call.accounts \in Seq(Names)
    PROVE  /\ call.result = Ok /\ authorized' = call.signers
           /\ Len(call.posts) = Len(call.accounts)
           /\ account' = [a \in Names |-> account'[a]]
           /\ \A i \in 1 .. Len(call.accounts) :
                 account'[call.accounts[i]] = Landed(call, i)
           /\ \A a \in Names :
                 (\A i \in 1 .. Len(call.accounts) : call.accounts[i] # a)
                   => account'[a] = account[a]
  <1>1. DOMAIN account = Names
    BY DEF ChainTypeOK
  <1>2. call.result = Ok /\ authorized' = call.signers
    BY DEF Lands
  <1>3. Len(call.posts) = Len(call.accounts)
    BY ThenOk DEF Lands, ValidateExecution, Check, Ok
  <1>4. ASSUME NEW i \in 1 .. Len(call.accounts)
        PROVE  account'[call.accounts[i]] = Landed(call, i)
    <2> DEFINE a == call.accounts[i]
               j == CHOOSE k \in 1 .. Len(call.accounts) : call.accounts[k] = a
    <2>1. j \in 1 .. Len(call.accounts) /\ call.accounts[j] = a
      OBVIOUS
    <2>2. j = i
      BY <2>1 DEF Lands, Distinct
    <2>3. a \in DOMAIN account
      BY <1>1
    <2> QED
      BY <2>2, <2>3 DEF Lands
  <1>5. account' = [a \in Names |-> account'[a]]
    BY <1>1 DEF Lands
  <1>6. ASSUME NEW a \in Names,
               \A i \in 1 .. Len(call.accounts) : call.accounts[i] # a
        PROVE  account'[a] = account[a]
    BY <1>1, <1>6 DEF Lands
  <1> QED
    BY <1>2, <1>3, <1>4, <1>5, <1>6

\* A stranded account is never passed through.
LEMMA NoneStranded ==
    ASSUME ChainTypeOK, NEW call, Lands(call), call.accounts \in Seq(Names),
           NEW i \in 1 .. Len(call.accounts),
           call.posts[i] = Unchanged(call.accounts[i])
    PROVE  ~Stranded(call.accounts[i])
  <1> DEFINE a == call.accounts[i]
  <1>1. a \in Names /\ i \in 1 .. Len(call.posts)
    BY LandsAccounts
  <1>2. \/ call.posts[i].claim
        \/ call.posts[i].account.owner # "default"
        \/ call.posts[i].account = Default
    BY <1>1, ThenOk DEF Lands, ValidateExecution, Check, Ok
  <1> QED
    BY <1>1, <1>2, UnchangedPost DEF Stranded

\* The accounts with a key: nothing but their nonces changes.
KeyStep(touched, signers) ==
    /\ authorized' = signers
    /\ \A a \in touched : ~Stranded(a)
    /\ \A a \in Ids :
          account'[a] = [owner |-> account[a].owner,
                         nonce |-> account[a].nonce \/ a \in signers \ Pdas,
                         data  |-> account[a].data]

\* A call that passes the accounts of Ids through does no more to them.
LEMMA KeysPass ==
    ASSUME ChainTypeOK, NEW call, Lands(call), call.accounts \in Seq(Names),
           NEW touched \in SUBSET Ids, call.signers \subseteq touched,
           \A a \in touched : \E i \in 1 .. Len(call.accounts) :
                                  call.accounts[i] = a,
           \A i \in 1 .. Len(call.accounts) :
               call.accounts[i] \in Ids =>
                   /\ call.accounts[i] \in touched
                   /\ call.posts[i] = Unchanged(call.accounts[i])
    PROVE  KeyStep(touched, call.signers)
  <1>1. ASSUME NEW a \in touched PROVE ~Stranded(a)
    BY NoneStranded
  <1>2. ASSUME NEW a \in Ids
        PROVE  account'[a]
                 = [owner |-> account[a].owner,
                    nonce |-> account[a].nonce \/ a \in call.signers \ Pdas,
                    data  |-> account[a].data]
    <2>1. a \in Names
          /\ account[a] \in [owner : Owners, nonce : BOOLEAN, data : Seq(Cells)]
      BY DEF ChainTypeOK, Names
    <2>2. ASSUME NEW i \in 1 .. Len(call.accounts), call.accounts[i] = a
          PROVE  account'[a]
                   = [owner |-> account[a].owner,
                      nonce |-> account[a].nonce \/ a \in call.signers \ Pdas,
                      data  |-> account[a].data]
      <3>1. call.posts[i].account = account[a] /\ ~call.posts[i].claim
        BY <2>1, <2>2, UnchangedPost
      <3>2. account'[a] = Landed(call, i)
        BY <2>2, LandsAccounts
      <3>3. Landed(call, i) = [owner |-> account[a].owner,
                               nonce |-> \/ account[a].nonce
                                         \/ a \in call.signers \ Pdas,
                               data |-> account[a].data]
        BY <2>2, <3>1 DEF Landed
      <3> QED
        BY <2>1, <3>2, <3>3
    <2>3. CASE \A i \in 1 .. Len(call.accounts) : call.accounts[i] # a
      <3>1. a \notin call.signers
        BY <2>3
      <3>2. account'[a] = account[a]
        BY <2>1, <2>3, LandsAccounts
      <3> QED
        BY <2>1, <3>1, <3>2
    <2> QED
      BY <2>2, <2>3
  <1> QED
    BY <1>1, <1>2, LandsAccounts DEF KeyStep

\* An account without a key is left alone unless its post-state is new.
LEMMA OthersPass ==
    ASSUME ChainTypeOK, NEW call, Lands(call), call.accounts \in Seq(Names),
           call.signers \subseteq Ids, NEW a \in Names \ Ids,
           \A i \in 1 .. Len(call.accounts) :
               call.accounts[i] = a => call.posts[i] = Unchanged(a)
    PROVE  account'[a] = account[a]
  <1>1. account[a] \in [owner : Owners, nonce : BOOLEAN, data : Seq(Cells)]
    BY DEF ChainTypeOK
  <1>2. ASSUME NEW i \in 1 .. Len(call.accounts), call.accounts[i] = a
        PROVE  account'[a] = account[a]
    <2>1. call.posts[i].account = account[a] /\ ~call.posts[i].claim
      BY <1>2, UnchangedPost
    <2>2. account'[a] = Landed(call, i)
      BY <1>2, LandsAccounts
    <2>3. Landed(call, i).nonce = account[a].nonce
      BY <1>1, <1>2, <2>1 DEF Landed
    <2> QED
      BY <1>1, <2>1, <2>2, <2>3 DEF Landed
  <1>3. CASE \A i \in 1 .. Len(call.accounts) : call.accounts[i] # a
    BY <1>3, LandsAccounts
  <1> QED
    BY <1>2, <1>3

\* Such an account gets the data that its post-state has.
LEMMA DataWritten ==
    ASSUME ChainTypeOK, NEW call, Lands(call), call.accounts \in Seq(Names),
           call.signers \subseteq Ids, NEW data \in Seq(Cells),
           NEW i \in 1 .. Len(call.accounts), call.accounts[i] \notin Ids,
           call.posts[i] = PostState(call.accounts[i], data)
    PROVE  account'[call.accounts[i]] = [account[call.accounts[i]] EXCEPT !.data = data]
  <1> DEFINE a == call.accounts[i]
  <1>1. account[a] \in [owner : Owners, nonce : BOOLEAN, data : Seq(Cells)]
    BY DEF ChainTypeOK
  <1>2. call.posts[i].account = [account[a] EXCEPT !.data = data]
        /\ ~call.posts[i].claim
    BY DEF PostState
  <1>3. account'[a] = Landed(call, i)
    BY LandsAccounts
  <1>4. Landed(call, i).nonce = account[a].nonce
    BY <1>1, <1>2 DEF Landed
  <1> QED
    BY <1>1, <1>2, <1>3, <1>4 DEF Landed

\* And with a claim it belongs to the program, having been nobody's.
LEMMA DataClaimed ==
    ASSUME ChainTypeOK, NEW call, Lands(call), call.accounts \in Seq(Names),
           call.signers \subseteq Ids, NEW data \in Seq(Cells),
           NEW i \in 1 .. Len(call.accounts), call.accounts[i] \notin Ids,
           call.posts[i] = Claimed(call.accounts[i], data)
    PROVE  /\ account[call.accounts[i]].owner = "default"
           /\ account'[call.accounts[i]]
                = [owner |-> "self", nonce |-> account[call.accounts[i]].nonce,
                   data |-> data]
  <1> DEFINE a == call.accounts[i]
  <1>1. account[a] \in [owner : Owners, nonce : BOOLEAN, data : Seq(Cells)]
    BY DEF ChainTypeOK
  <1>2. call.posts[i].account = [account[a] EXCEPT !.data = data]
        /\ call.posts[i].claim
    BY DEF PostState, Claimed
  <1>3. account'[a] = Landed(call, i)
    BY LandsAccounts
  <1>4. i \in 1 .. Len(call.posts)
    BY LandsAccounts
  <1>5. account[a].owner = "default"
    BY <1>2, <1>4, ThenOk DEF Lands, ValidateExecution, Check, Ok
  <1>6. Landed(call, i).nonce = account[a].nonce
    BY <1>1, <1>2 DEF Landed
  <1> QED
    BY <1>1, <1>2, <1>3, <1>5, <1>6 DEF Landed

\* All but one of a call's accounts are passed through: the touched keys,
\* among them the signers, and accounts that have no key.
PassesThrough(call, touched, k) ==
    /\ call.accounts \in Seq(Names)
    /\ call.signers \subseteq touched /\ touched \subseteq Ids
    /\ \A a \in touched : \E i \in 1 .. Len(call.accounts) : call.accounts[i] = a
    /\ \A i \in 1 .. Len(call.accounts) \ {k} :
          /\ call.posts[i] = Unchanged(call.accounts[i])
          /\ call.accounts[i] \in Ids => call.accounts[i] \in touched

\* Of these, nothing moves but the nonces.
LEMMA RestPasses ==
    ASSUME ChainTypeOK, NEW call, Lands(call), NEW touched,
           NEW k \in 1 .. Len(call.accounts), call.accounts[k] \notin Ids,
           PassesThrough(call, touched, k)
    PROVE  /\ KeyStep(touched, call.signers)
           /\ account' = [a \in Names |-> account'[a]]
           /\ \A a \in Names \ Ids :
                 a # call.accounts[k] => account'[a] = account[a]
  <1>1. /\ call.accounts \in Seq(Names) /\ touched \in SUBSET Ids
        /\ call.signers \subseteq touched /\ call.signers \subseteq Ids
    BY DEF PassesThrough
  <1>2. KeyStep(touched, call.signers)
    <2>1. \A i \in 1 .. Len(call.accounts) :
             call.accounts[i] \in Ids =>
                 /\ call.accounts[i] \in touched
                 /\ call.posts[i] = Unchanged(call.accounts[i])
      BY DEF PassesThrough
    <2>2. \A a \in touched : \E i \in 1 .. Len(call.accounts) :
                               call.accounts[i] = a
      BY DEF PassesThrough
    <2> QED
      BY <1>1, <2>1, <2>2, KeysPass
  <1>3. account' = [a \in Names |-> account'[a]]
    BY <1>1, LandsAccounts
  <1>4. ASSUME NEW a \in Names \ Ids, a # call.accounts[k]
        PROVE  account'[a] = account[a]
    <2>1. \A i \in 1 .. Len(call.accounts) :
             call.accounts[i] = a => call.posts[i] = Unchanged(a)
      BY <1>4 DEF PassesThrough
    <2> QED
      BY <1>1, <2>1, OthersPass
  <1> QED
    BY <1>2, <1>3, <1>4

\* An account that the rules have nothing against, or that they are against in
\* any transaction.
Taken(a, post) == Stranded(a) \/ Acceptable(a, post)

\* What is passed through is taken.
LEMMA UnchangedTaken ==
    ASSUME NEW a
    PROVE  Taken(a, Unchanged(a))
  BY DEF Taken, Acceptable

\* A call is taken if its answer is, account by account.
LEMMA TakenTogether ==
    ASSUME ChainTypeOK, NEW accounts \in Seq(Names), NEW signers, NEW result,
           NEW posts, Len(posts) = Len(accounts),
           result = Ok =>
               \A i \in 1 .. Len(accounts) : Taken(accounts[i], posts[i])
    PROVE  LezAgrees(Call(accounts, signers, result, posts))
  <1> DEFINE call == Call(accounts, signers, result, posts)
  <1>1. SUFFICES ASSUME result = Ok,
                        \A i \in 1 .. Len(accounts) : ~Stranded(accounts[i])
                 PROVE  ValidateExecution(accounts, posts) = Ok
    BY DEF LezAgrees, Call
  <1>2. \A i \in 1 .. Len(accounts) : Acceptable(accounts[i], posts[i])
    BY <1>1 DEF Taken
  <1> QED
    BY <1>2, AcceptableTogether

\* The calls have one, two or three accounts.
LEMMA TakenOne ==
    ASSUME ChainTypeOK, NEW a \in Names, NEW signers, NEW result, NEW p,
           result = Ok => Taken(a, p)
    PROVE  LezAgrees(Call(<<a>>, signers, result, <<p>>))
  <1> DEFINE accounts == <<a>>
             posts == <<p>>
  <1>1. accounts \in Seq(Names) /\ Len(posts) = Len(accounts)
        /\ Len(accounts) = 1 /\ accounts[1] = a /\ posts[1] = p
    OBVIOUS
  <1> HIDE DEF accounts, posts
  <1>2. result = Ok => \A i \in 1 .. Len(accounts) : Taken(accounts[i], posts[i])
    BY <1>1
  <1> QED
    BY <1>1, <1>2, TakenTogether DEF accounts, posts

\* Two accounts.
LEMMA TakenTwo ==
    ASSUME ChainTypeOK, NEW a \in Names, NEW b \in Names, NEW signers,
           NEW result, NEW p, NEW q,
           result = Ok => Taken(a, p) /\ Taken(b, q)
    PROVE  LezAgrees(Call(<<a, b>>, signers, result, <<p, q>>))
  <1> DEFINE accounts == <<a, b>>
             posts == <<p, q>>
  <1>1. accounts \in Seq(Names) /\ Len(posts) = Len(accounts)
        /\ Len(accounts) = 2 /\ accounts[1] = a /\ posts[1] = p
        /\ accounts[2] = b /\ posts[2] = q
    OBVIOUS
  <1> HIDE DEF accounts, posts
  <1>2. result = Ok => \A i \in 1 .. Len(accounts) : Taken(accounts[i], posts[i])
    BY <1>1
  <1> QED
    BY <1>1, <1>2, TakenTogether DEF accounts, posts

\* Three accounts.
LEMMA TakenThree ==
    ASSUME ChainTypeOK, NEW a \in Names, NEW b \in Names, NEW c \in Names,
           NEW signers, NEW result, NEW p, NEW q, NEW r,
           result = Ok => Taken(a, p) /\ Taken(b, q) /\ Taken(c, r)
    PROVE  LezAgrees(Call(<<a, b, c>>, signers, result, <<p, q, r>>))
  <1> DEFINE accounts == <<a, b, c>>
             posts == <<p, q, r>>
  <1>1. accounts \in Seq(Names) /\ Len(posts) = Len(accounts)
        /\ Len(accounts) = 3 /\ accounts[1] = a /\ posts[1] = p
        /\ accounts[2] = b /\ posts[2] = q /\ accounts[3] = c /\ posts[3] = r
    OBVIOUS
  <1> HIDE DEF accounts, posts
  <1>2. result = Ok => \A i \in 1 .. Len(accounts) : Taken(accounts[i], posts[i])
    BY <1>1
  <1> QED
    BY <1>1, <1>2, TakenTogether DEF accounts, posts

----------------------------------------------------------------------------
(* The keys and the markers of a program, and what its ledger sees of them. *)

\* Keys are never the program's, and hold nothing while nobody owns them.
KeysInv == \A a \in Ids :
    /\ account[a].owner # "self"
    /\ account[a].owner = "default" => account[a].data = <<>>

\* A marker is untouched, or the program's and one flag.
MarkersInv == \A a \in Ids :
    \/ account[Marker(a)] = Default
    \/ /\ account[Marker(a)].owner = "self"
       /\ account[Marker(a)].data \in {<<0>>, <<1>>}

\* The keys of the ledger before and after a transaction.
LEMMA KeyLedger ==
    ASSUME ChainTypeOK, KeysInv, NEW touched \in SUBSET Ids, NEW signers \in SUBSET touched,
           KeyStep(touched, signers)
    PROVE  /\ touched \cap SpentKeys = {}
           /\ OwnedKeys' = OwnedKeys
           /\ SpentKeys' = SpentKeys \cup (signers \ (OwnedKeys \cup Pdas))
           /\ KeysInv'
           /\ authorized' = signers
           /\ \A a \in Ids : account'[a] \in [owner : Owners, nonce : BOOLEAN,
                                              data : Seq(Cells)]
  <1>1. \A a \in touched : ~Stranded(a)
    BY DEF KeyStep
  <1>2. ASSUME NEW a \in Ids
        PROVE  /\ account'[a] \in [owner : Owners, nonce : BOOLEAN,
                                   data : Seq(Cells)]
               /\ account'[a].owner = account[a].owner
               /\ account'[a].data = account[a].data
               /\ account'[a].nonce <=> account[a].nonce \/ a \in signers \ Pdas
    <2>1. account[a] \in [owner : Owners, nonce : BOOLEAN, data : Seq(Cells)]
      BY DEF ChainTypeOK, Names
    <2>2. account'[a] = [owner |-> account[a].owner,
                         nonce |-> account[a].nonce \/ a \in signers \ Pdas,
                         data  |-> account[a].data]
      BY DEF KeyStep
    <2>3. /\ account'[a].owner = account[a].owner
          /\ account'[a].data = account[a].data
          /\ account'[a].nonce = (account[a].nonce \/ a \in signers \ Pdas)
      BY <2>2
    <2>4. account[a].nonce \in BOOLEAN /\ account[a].owner \in Owners
          /\ account[a].data \in Seq(Cells)
      BY <2>1
    <2>5. (account[a].nonce \/ a \in signers \ Pdas) \in BOOLEAN
      OBVIOUS
    <2>6. account'[a] \in [owner : Owners, nonce : BOOLEAN, data : Seq(Cells)]
      BY <2>2, <2>4, <2>5
    <2> QED
      BY <2>3, <2>4, <2>6
  <1>3. ASSUME NEW a \in Ids
        PROVE  /\ Stranded(a) <=> account[a].owner = "default" /\ account[a].nonce
               /\ Stranded(a)' <=> account'[a].owner = "default"
                                   /\ account'[a].nonce
    <2>1. account[a] \in [owner : Owners, nonce : BOOLEAN, data : Seq(Cells)]
      BY DEF ChainTypeOK, Names
    <2>2. account[a].owner = "default" => account[a].data = <<>>
      BY DEF KeysInv
    <2>3. account'[a].owner = "default" => account'[a].data = <<>>
      BY <1>2, <2>2
    <2>4. ASSUME NEW r \in [owner : Owners, nonce : BOOLEAN, data : Seq(Cells)],
                 r.owner = "default" => r.data = <<>>
          PROVE  r.owner = "default" /\ r # Default
                   <=> r.owner = "default" /\ r.nonce
      <3>1. r = [owner |-> r.owner, nonce |-> r.nonce, data |-> r.data]
            /\ r.nonce \in BOOLEAN
        OBVIOUS
      <3> QED
        BY <2>4, <3>1 DEF Default
    <2> QED
      BY <1>2, <2>1, <2>2, <2>3, <2>4 DEF Stranded
  <1>4. touched \cap SpentKeys = {}
    BY <1>1 DEF SpentKeys
  <1>5. OwnedKeys' = OwnedKeys
    BY <1>2 DEF OwnedKeys
  <1>6. SpentKeys' = SpentKeys \cup (signers \ (OwnedKeys \cup Pdas))
    BY <1>2, <1>3 DEF SpentKeys, OwnedKeys
  <1>7. KeysInv'
    BY <1>2 DEF KeysInv
  <1> QED
    BY <1>2, <1>4, <1>5, <1>6, <1>7 DEF KeyStep

----------------------------------------------------------------------------
(* Small facts that every program's instructions rest on. *)

\* Two tuples in a row are one.
LEMMA Tuples ==
    ASSUME NEW a, NEW b
    PROVE  /\ <<a>> \o <<b>> = <<a, b>>
           /\ \A c : <<a>> \o <<b, c>> = <<a, b, c>>
  <1>1. <<a>> \o <<b>> = <<a, b>>
    <2> DEFINE S == {a, b}
               s == <<a>> \o <<b>>
               t == <<a, b>>
    <2>1. s \in Seq(S) /\ t \in Seq(S) /\ Len(s) = Len(t)
          /\ \A i \in 1 .. Len(s) : s[i] = t[i]
      OBVIOUS
    <2> HIDE DEF S, s, t
    <2>2. s = t
      BY <2>1, SeqEqual
    <2> QED
      BY <2>2 DEF s, t
  <1>2. ASSUME NEW c PROVE <<a>> \o <<b, c>> = <<a, b, c>>
    <2> DEFINE S == {a, b, c}
               s == <<a>> \o <<b, c>>
               t == <<a, b, c>>
    <2>1. s \in Seq(S) /\ t \in Seq(S) /\ Len(s) = Len(t)
          /\ \A i \in 1 .. Len(s) : s[i] = t[i]
      OBVIOUS
    <2> HIDE DEF S, s, t
    <2>2. s = t
      BY <2>1, SeqEqual
    <2> QED
      BY <2>2 DEF s, t
  <1> QED
    BY <1>1, <1>2

\* Only what is not refused lands.
LEMMA LandsOk ==
    ASSUME NEW accounts, NEW signers, NEW result, NEW posts,
           Lands(Call(accounts, signers, result, posts))
    PROVE  result = Ok
  BY DEF Lands, Call

\* Updates keep a record a record.
LEMMA UpdatesKeepRecords ==
    ASSUME NEW config \in FreezeConfigs, NEW id \in AccountId,
           NEW state \in BOOLEAN
    PROVE  /\ Transfer(config, id) \in FreezeConfigs
           /\ Renounce(config) \in FreezeConfigs
           /\ Nominate(config, id) \in FreezeConfigs
           /\ Accept(config) \in FreezeConfigs
           /\ SetIsFrozen(config, state) \in FreezeConfigs
  <1>1. config.slot \in Slots
        /\ \A slot \in Slots : [config EXCEPT !.slot = slot] \in FreezeConfigs
    BY DEF FreezeConfigs
  <1>2. SlotTransfer(config.slot, id) \in Slots
        /\ SlotRenounce(config.slot) \in Slots
        /\ SlotNominate(config.slot, id) \in Slots
        /\ SlotAccept(config.slot) \in Slots
    BY <1>1 DEF SlotTransfer, SlotRenounce, SlotNominate, SlotAccept, Slots,
                AccountId
  <1>3. SetIsFrozen(config, state) \in FreezeConfigs
    BY DEF SetIsFrozen, FreezeConfigs
  <1> QED
    BY <1>1, <1>2, <1>3 DEF Transfer, Renounce, Nominate, Accept

\* The slots that the admin's instructions leave.
LEMMA AdminSlots ==
    ASSUME NEW slot \in Slots, NEW id \in AccountId
    PROVE  /\ SlotTransfer(slot, id) = [holder |-> id, nominee |-> NoId]
           /\ SlotNominate(slot, id) = [holder |-> slot.holder, nominee |-> id]
           /\ SlotAccept(slot) = [holder |-> slot.nominee, nominee |-> NoId]
           /\ SlotRenounce(slot) = [holder |-> NoId, nominee |-> NoId]
           /\ SlotTransfer(slot, id) \in Slots /\ SlotNominate(slot, id) \in Slots
           /\ SlotAccept(slot) \in Slots /\ SlotRenounce(slot) \in Slots
  <1>1. /\ slot.holder \in AccountId /\ slot.nominee \in AccountId
        /\ NoId \in AccountId
        /\ slot = [holder |-> slot.holder, nominee |-> slot.nominee]
    BY DEF Slots, AccountId
  <1>2. /\ SlotTransfer(slot, id) = [holder |-> id, nominee |-> NoId]
        /\ SlotRenounce(slot) = [holder |-> NoId, nominee |-> NoId]
    <2>1. ASSUME NEW a \in AccountId, NEW b \in AccountId
          PROVE  [slot EXCEPT !.holder = a, !.nominee = b]
                   = [holder |-> a, nominee |-> b]
      <3> DEFINE s == [slot EXCEPT !.holder = a]
                 t == [s EXCEPT !.nominee = b]
      <3>1. s = [holder |-> a, nominee |-> slot.nominee]
        BY <1>1
      <3>2. t = [slot EXCEPT !.holder = a, !.nominee = b]
        OBVIOUS
      <3> HIDE DEF s
      <3>3. t = [holder |-> a, nominee |-> b]
        BY <3>1
      <3> QED
        BY <3>2, <3>3
    <2> QED
      BY <1>1, <2>1 DEF SlotTransfer, SlotRenounce
  <1>3. SlotNominate(slot, id) = [holder |-> slot.holder, nominee |-> id]
    BY <1>1 DEF SlotNominate, Slots
  <1>4. SlotAccept(slot) = [holder |-> slot.nominee, nominee |-> NoId]
    BY DEF SlotAccept
  <1> QED
    BY <1>1, <1>2, <1>3, <1>4 DEF Slots

\* The flag bytes are data.
LEMMA FlagData ==
    ASSUME NEW state \in BOOLEAN
    PROVE  MarkerBytes(state) \in Seq(Cells)
  BY CellsAssumption DEF MarkerBytes, FlagByte

\* A flag in a marker.
LEMMA FlagBytes ==
    ASSUME NEW state \in BOOLEAN
    PROVE  /\ MarkerBytes(state) \in {<<0>>, <<1>>}
           /\ MarkerState(MarkerBytes(state)) = [is_frozen |-> state]
  <1> DEFINE bytes == MarkerBytes(state)
  <1>1. bytes = IF state THEN <<1>> ELSE <<0>>
    BY DEF MarkerBytes, FlagByte
  <1>2. <<0>> # <<1>> /\ <<0>> # <<>> /\ <<1>> # <<>>
    OBVIOUS
  <1>3. bytes \in {<<0>>, <<1>>} /\ bytes # <<>> /\ (bytes = <<1>> <=> state)
    BY <1>1, <1>2
  <1> HIDE DEF bytes
  <1>4. (bytes = <<1>>) = state
    BY <1>3
  <1>5. MarkerState(bytes) = [is_frozen |-> state]
    BY <1>3, <1>4 DEF MarkerState
  <1> QED
    BY <1>3, <1>5 DEF bytes

\* Two tuples in a row, when two roles have an account each.
LEMMA LongerTuples ==
    ASSUME NEW a, NEW b, NEW c
    PROVE  /\ <<a, b>> \o <<c>> = <<a, b, c>>
           /\ \A d : <<a, b>> \o <<c, d>> = <<a, b, c, d>>
  <1>1. <<a, b>> \o <<c>> = <<a, b, c>>
    <2> DEFINE S == {a, b, c}
               s == <<a, b>> \o <<c>>
               t == <<a, b, c>>
    <2>1. s \in Seq(S) /\ t \in Seq(S) /\ Len(s) = Len(t)
          /\ \A i \in 1 .. Len(s) : s[i] = t[i]
      OBVIOUS
    <2> HIDE DEF S, s, t
    <2>2. s = t
      BY <2>1, SeqEqual
    <2> QED
      BY <2>2 DEF s, t
  <1>2. ASSUME NEW d PROVE <<a, b>> \o <<c, d>> = <<a, b, c, d>>
    <2> DEFINE S == {a, b, c, d}
               s == <<a, b>> \o <<c, d>>
               t == <<a, b, c, d>>
    <2>1. s \in Seq(S) /\ t \in Seq(S) /\ Len(s) = Len(t)
          /\ \A i \in 1 .. Len(s) : s[i] = t[i]
      OBVIOUS
    <2> HIDE DEF S, s, t
    <2>2. s = t
      BY <2>1, SeqEqual
    <2> QED
      BY <2>2 DEF s, t
  <1> QED
    BY <1>1, <1>2

\* Four accounts.
LEMMA TakenFour ==
    ASSUME ChainTypeOK, NEW a \in Names, NEW b \in Names, NEW c \in Names,
           NEW d \in Names, NEW signers, NEW result, NEW p, NEW q, NEW r, NEW s,
           result = Ok => Taken(a, p) /\ Taken(b, q) /\ Taken(c, r) /\ Taken(d, s)
    PROVE  LezAgrees(Call(<<a, b, c, d>>, signers, result, <<p, q, r, s>>))
  <1> DEFINE accounts == <<a, b, c, d>>
             posts == <<p, q, r, s>>
  <1>1. accounts \in Seq(Names) /\ Len(posts) = Len(accounts)
        /\ Len(accounts) = 4 /\ accounts[1] = a /\ posts[1] = p
        /\ accounts[2] = b /\ posts[2] = q /\ accounts[3] = c /\ posts[3] = r
        /\ accounts[4] = d /\ posts[4] = s
    OBVIOUS
  <1> HIDE DEF accounts, posts
  <1>2. result = Ok => \A i \in 1 .. Len(accounts) : Taken(accounts[i], posts[i])
    BY <1>1
  <1> QED
    BY <1>1, <1>2, TakenTogether DEF accounts, posts

----------------------------------------------------------------------------
(* Calls that rewrite one account and pass the others through. *)

\* A post-state that puts data into an account of the program, or makes it one.
NewData(x, post, data) ==
    \/ post = PostState(x, data) /\ account[x].owner = "self"
    \/ post = Claimed(x, data)

\* An account without a key is the program's and holds the data; of the others
\* nothing moves but the nonces of keys.
Rewrites(touched, signers, x, data) ==
    /\ KeyStep(touched, signers)
    /\ account' = [a \in Names |-> account'[a]]
    /\ account'[x] = [owner |-> "self", nonce |-> account[x].nonce, data |-> data]
    /\ \A a \in Names \ Ids : a # x => account'[a] = account[a]

\* No account but those with keys is touched.
PassesBy(touched, signers) ==
    /\ KeyStep(touched, signers)
    /\ account' = [a \in Names |-> account'[a]]
    /\ \A a \in Names \ Ids : account'[a] = account[a]

\* A call that passes all accounts through but one rewrites that one.
LEMMA CallRewrites ==
    ASSUME ChainTypeOK, NEW call, Lands(call), NEW touched, NEW x \in Names \ Ids,
           NEW k \in 1 .. Len(call.accounts), call.accounts[k] = x,
           PassesThrough(call, touched, k), NEW data \in Seq(Cells),
           NewData(x, call.posts[k], data)
    PROVE  Rewrites(touched, call.signers, x, data)
  <1>1. call.accounts[k] \notin Ids
        /\ call.accounts \in Seq(Names) /\ call.signers \subseteq Ids
    BY DEF PassesThrough
  <1>2. /\ KeyStep(touched, call.signers)
        /\ account' = [a \in Names |-> account'[a]]
        /\ \A a \in Names \ Ids : a # x => account'[a] = account[a]
    BY <1>1, RestPasses
  <1>3. account[x] \in [owner : Owners, nonce : BOOLEAN, data : Seq(Cells)]
    BY DEF ChainTypeOK
  <1>4. account'[x] = [owner |-> "self", nonce |-> account[x].nonce, data |-> data]
    <2>1. CASE call.posts[k] = PostState(x, data) /\ account[x].owner = "self"
      <3>1. account'[x] = [account[x] EXCEPT !.data = data]
        BY <1>1, <2>1, DataWritten
      <3> QED
        BY <1>3, <2>1, <3>1
    <2>2. CASE call.posts[k] = Claimed(x, data)
      BY <1>1, <2>2, DataClaimed
    <2> QED
      BY <2>1, <2>2 DEF NewData
  <1> QED
    BY <1>2, <1>4 DEF Rewrites

\* An account without a key stays as it is or gets new data.
KeptOrRewritten ==
    \A a \in Names \ Ids :
        \/ account'[a] = account[a]
        \/ \E data \in Seq(Cells) :
              account'[a] = [owner |-> "self", nonce |-> account[a].nonce,
                             data |-> data]

\* The types, and the keys, after such a step.
LEMMA RewriteTypes ==
    ASSUME ChainTypeOK, KeysInv, NEW touched \in SUBSET Ids,
           NEW signers \in SUBSET touched, KeyStep(touched, signers),
           account' = [a \in Names |-> account'[a]], KeptOrRewritten
    PROVE  ChainTypeOK' /\ KeysInv'
  <1>1. \A a \in Names :
            account[a] \in [owner : Owners, nonce : BOOLEAN, data : Seq(Cells)]
    BY DEF ChainTypeOK
  <1>2. ASSUME NEW a \in Names
        PROVE  account'[a] \in [owner : Owners, nonce : BOOLEAN, data : Seq(Cells)]
    <2>1. CASE a \in Ids
      BY <2>1, KeyLedger
    <2>2. CASE a \notin Ids
      <3>1. CASE account'[a] = account[a]
        BY <1>1, <3>1
      <3>2. ASSUME NEW data \in Seq(Cells),
                   account'[a] = [owner |-> "self", nonce |-> account[a].nonce,
                                  data |-> data]
            PROVE  account'[a]
                     \in [owner : Owners, nonce : BOOLEAN, data : Seq(Cells)]
        <4>1. account[a].nonce \in BOOLEAN
          BY <1>1
        <4> QED
          BY <3>2, <4>1 DEF Owners
      <3> QED
        BY <2>2, <3>1, <3>2 DEF KeptOrRewritten
    <2> QED
      BY <2>1, <2>2
  <1>3. account' \in [Names -> [owner : Owners, nonce : BOOLEAN,
                                data : Seq(Cells)]]
    BY <1>2
  <1>4. authorized' \subseteq Ids
    BY DEF KeyStep
  <1> QED
    BY <1>3, <1>4, KeyLedger DEF ChainTypeOK

\* The account is written, the signer follows.
LEMMA WritesFirst ==
    ASSUME ChainTypeOK, NEW caller \in Ids,
           NEW x \in Names \ Ids,
           NEW data \in Seq(Cells), NEW post, NewData(x, post, data), NEW result,
           Lands(Call(<<x, caller>>,
                      {caller}, result,
                      <<post, Unchanged(caller)>>))
    PROVE  result = Ok /\ Rewrites({caller}, {caller}, x, data)
  <1> DEFINE call == Call(<<x, caller>>, {caller}, result,
                          <<post, Unchanged(caller)>>)
  <1>1. result = Ok
    BY DEF Lands, Call
  <1>2. /\ call.accounts = <<x, caller>> /\ call.signers = {caller}
        /\ call.posts = <<post, Unchanged(caller)>>
    BY <1>1 DEF Call
  <1>3. caller \in Names
    BY DEF Names
  <1>4. Lands(call)
    OBVIOUS
  <1> HIDE DEF call
  <1>5. 1 \in 1 .. Len(call.accounts) /\ call.accounts[1] = x
        /\ call.posts[1] = post
    BY <1>2
  <1>6. PassesThrough(call, {caller}, 1)
    BY <1>2, <1>3 DEF PassesThrough
  <1>7. Rewrites({caller}, call.signers, x, data)
    BY <1>4, <1>5, <1>6, CallRewrites
  <1> QED
    BY <1>1, <1>2, <1>7

\* The gate's marker is in between.
LEMMA WritesFirstOfMarked ==
    ASSUME ChainTypeOK, NEW caller \in Ids,
           NEW x \in Names \ Ids, NEW y \in Names \ Ids,
           NEW data \in Seq(Cells), NEW post, NewData(x, post, data), NEW result,
           Lands(Call(<<x, y, caller>>,
                      {caller}, result,
                      <<post, Unchanged(y), Unchanged(caller)>>))
    PROVE  result = Ok /\ Rewrites({caller}, {caller}, x, data)
  <1> DEFINE call == Call(<<x, y, caller>>, {caller}, result,
                          <<post, Unchanged(y), Unchanged(caller)>>)
  <1>1. result = Ok
    BY DEF Lands, Call
  <1>2. /\ call.accounts = <<x, y, caller>> /\ call.signers = {caller}
        /\ call.posts = <<post, Unchanged(y), Unchanged(caller)>>
    BY <1>1 DEF Call
  <1>3. caller \in Names
    BY DEF Names
  <1>4. Lands(call)
    OBVIOUS
  <1> HIDE DEF call
  <1>5. 1 \in 1 .. Len(call.accounts) /\ call.accounts[1] = x
        /\ call.posts[1] = post
    BY <1>2
  <1>6. PassesThrough(call, {caller}, 1)
    BY <1>2, <1>3 DEF PassesThrough
  <1>7. Rewrites({caller}, call.signers, x, data)
    BY <1>4, <1>5, <1>6, CallRewrites
  <1> QED
    BY <1>1, <1>2, <1>7

\* Another account is read in front of it.
LEMMA WritesSecond ==
    ASSUME ChainTypeOK, NEW caller \in Ids,
           NEW x \in Names \ Ids, NEW y \in Names \ Ids,
           NEW data \in Seq(Cells), NEW post, NewData(x, post, data), NEW result,
           Lands(Call(<<y, x, caller>>,
                      {caller}, result,
                      <<Unchanged(y), post, Unchanged(caller)>>))
    PROVE  result = Ok /\ Rewrites({caller}, {caller}, x, data)
  <1> DEFINE call == Call(<<y, x, caller>>, {caller}, result,
                          <<Unchanged(y), post, Unchanged(caller)>>)
  <1>1. result = Ok
    BY DEF Lands, Call
  <1>2. /\ call.accounts = <<y, x, caller>> /\ call.signers = {caller}
        /\ call.posts = <<Unchanged(y), post, Unchanged(caller)>>
    BY <1>1 DEF Call
  <1>3. caller \in Names
    BY DEF Names
  <1>4. Lands(call)
    OBVIOUS
  <1> HIDE DEF call
  <1>5. 2 \in 1 .. Len(call.accounts) /\ call.accounts[2] = x
        /\ call.posts[2] = post
    BY <1>2
  <1>6. PassesThrough(call, {caller}, 2)
    BY <1>2, <1>3 DEF PassesThrough
  <1>7. Rewrites({caller}, call.signers, x, data)
    BY <1>4, <1>5, <1>6, CallRewrites
  <1> QED
    BY <1>1, <1>2, <1>7

\* The account is the last one, after the signer.
LEMMA WritesThird ==
    ASSUME ChainTypeOK, NEW caller \in Ids,
           NEW x \in Names \ Ids, NEW y \in Names \ Ids,
           NEW data \in Seq(Cells), NEW post, NewData(x, post, data), NEW result,
           Lands(Call(<<y, caller, x>>,
                      {caller}, result,
                      <<Unchanged(y), Unchanged(caller), post>>))
    PROVE  result = Ok /\ Rewrites({caller}, {caller}, x, data)
  <1> DEFINE call == Call(<<y, caller, x>>, {caller}, result,
                          <<Unchanged(y), Unchanged(caller), post>>)
  <1>1. result = Ok
    BY DEF Lands, Call
  <1>2. /\ call.accounts = <<y, caller, x>> /\ call.signers = {caller}
        /\ call.posts = <<Unchanged(y), Unchanged(caller), post>>
    BY <1>1 DEF Call
  <1>3. caller \in Names
    BY DEF Names
  <1>4. Lands(call)
    OBVIOUS
  <1> HIDE DEF call
  <1>5. 3 \in 1 .. Len(call.accounts) /\ call.accounts[3] = x
        /\ call.posts[3] = post
    BY <1>2
  <1>6. PassesThrough(call, {caller}, 3)
    BY <1>2, <1>3 DEF PassesThrough
  <1>7. Rewrites({caller}, call.signers, x, data)
    BY <1>4, <1>5, <1>6, CallRewrites
  <1> QED
    BY <1>1, <1>2, <1>7

\* Two accounts are read first.
LEMMA WritesFourth ==
    ASSUME ChainTypeOK, NEW caller \in Ids,
           NEW x \in Names \ Ids, NEW y \in Names \ Ids, NEW z \in Names \ Ids,
           NEW data \in Seq(Cells), NEW post, NewData(x, post, data), NEW result,
           Lands(Call(<<y, z, caller, x>>,
                      {caller}, result,
                      <<Unchanged(y), Unchanged(z), Unchanged(caller), post>>))
    PROVE  result = Ok /\ Rewrites({caller}, {caller}, x, data)
  <1> DEFINE call == Call(<<y, z, caller, x>>, {caller}, result,
                          <<Unchanged(y), Unchanged(z), Unchanged(caller), post>>)
  <1>1. result = Ok
    BY DEF Lands, Call
  <1>2. /\ call.accounts = <<y, z, caller, x>> /\ call.signers = {caller}
        /\ call.posts = <<Unchanged(y), Unchanged(z), Unchanged(caller), post>>
    BY <1>1 DEF Call
  <1>3. caller \in Names
    BY DEF Names
  <1>4. Lands(call)
    OBVIOUS
  <1> HIDE DEF call
  <1>5. 4 \in 1 .. Len(call.accounts) /\ call.accounts[4] = x
        /\ call.posts[4] = post
    BY <1>2
  <1>6. PassesThrough(call, {caller}, 4)
    BY <1>2, <1>3 DEF PassesThrough
  <1>7. Rewrites({caller}, call.signers, x, data)
    BY <1>4, <1>5, <1>6, CallRewrites
  <1> QED
    BY <1>1, <1>2, <1>7

\* The account that gets a role follows the signer.
LEMMA WritesFirstWithNew ==
    ASSUME ChainTypeOK, NEW caller \in Ids, NEW new \in Ids, NEW cosigns \in BOOLEAN,
           NEW x \in Names \ Ids,
           NEW data \in Seq(Cells), NEW post, NewData(x, post, data), NEW result,
           Lands(Call(<<x, caller, new>>,
                      IF cosigns THEN {caller, new} ELSE {caller}, result,
                      <<post, Unchanged(caller), Unchanged(new)>>))
    PROVE  /\ result = Ok /\ new # caller
           /\ Rewrites({caller, new},
                       IF cosigns THEN {caller, new} ELSE {caller}, x, data)
  <1> DEFINE signers == IF cosigns THEN {caller, new} ELSE {caller}
             call == Call(<<x, caller, new>>, signers, result,
                          <<post, Unchanged(caller), Unchanged(new)>>)
  <1>1. result = Ok
    BY DEF Lands, Call
  <1>2. /\ call.accounts = <<x, caller, new>> /\ call.signers = signers
        /\ call.posts = <<post, Unchanged(caller), Unchanged(new)>>
    BY <1>1 DEF Call
  <1>3. caller \in Names /\ new \in Names
    BY DEF Names
  <1>4. Lands(call) /\ signers \subseteq {caller, new}
    OBVIOUS
  <1> HIDE DEF call, signers
  <1>5. 1 \in 1 .. Len(call.accounts) /\ call.accounts[1] = x
        /\ call.posts[1] = post
    BY <1>2
  <1>6. PassesThrough(call, {caller, new}, 1)
    BY <1>2, <1>3, <1>4 DEF PassesThrough
  <1>7. Rewrites({caller, new}, call.signers, x, data)
    BY <1>4, <1>5, <1>6, CallRewrites
  <1>8. new # caller
    <2>1. Distinct(call.accounts)
      BY <1>4 DEF Lands
    <2> QED
      BY <1>2, <2>1 DEF Distinct
  <1> QED
    BY <1>1, <1>2, <1>7, <1>8 DEF signers

\* So it does when another account is read.
LEMMA WritesSecondWithNew ==
    ASSUME ChainTypeOK, NEW caller \in Ids, NEW new \in Ids, NEW cosigns \in BOOLEAN,
           NEW x \in Names \ Ids, NEW y \in Names \ Ids,
           NEW data \in Seq(Cells), NEW post, NewData(x, post, data), NEW result,
           Lands(Call(<<y, x, caller, new>>,
                      IF cosigns THEN {caller, new} ELSE {caller}, result,
                      <<Unchanged(y), post, Unchanged(caller), Unchanged(new)>>))
    PROVE  /\ result = Ok /\ new # caller
           /\ Rewrites({caller, new},
                       IF cosigns THEN {caller, new} ELSE {caller}, x, data)
  <1> DEFINE signers == IF cosigns THEN {caller, new} ELSE {caller}
             call == Call(<<y, x, caller, new>>, signers, result,
                          <<Unchanged(y), post, Unchanged(caller), Unchanged(new)>>)
  <1>1. result = Ok
    BY DEF Lands, Call
  <1>2. /\ call.accounts = <<y, x, caller, new>> /\ call.signers = signers
        /\ call.posts = <<Unchanged(y), post, Unchanged(caller), Unchanged(new)>>
    BY <1>1 DEF Call
  <1>3. caller \in Names /\ new \in Names
    BY DEF Names
  <1>4. Lands(call) /\ signers \subseteq {caller, new}
    OBVIOUS
  <1> HIDE DEF call, signers
  <1>5. 2 \in 1 .. Len(call.accounts) /\ call.accounts[2] = x
        /\ call.posts[2] = post
    BY <1>2
  <1>6. PassesThrough(call, {caller, new}, 2)
    BY <1>2, <1>3, <1>4 DEF PassesThrough
  <1>7. Rewrites({caller, new}, call.signers, x, data)
    BY <1>4, <1>5, <1>6, CallRewrites
  <1>8. new # caller
    <2>1. Distinct(call.accounts)
      BY <1>4 DEF Lands
    <2> QED
      BY <1>2, <2>1 DEF Distinct
  <1> QED
    BY <1>1, <1>2, <1>7, <1>8 DEF signers

\* The transaction of another program.
LEMMA OtherPassesBy ==
    ASSUME ChainTypeOK, NEW a \in Ids, OtherTransaction(a)
    PROVE  PassesBy({a}, {a})
  <1> DEFINE call == Call(<<a>>, {a}, Ok, <<Unchanged(a)>>)
  <1>1. /\ call.accounts = <<a>> /\ call.signers = {a}
        /\ call.posts = <<Unchanged(a)>>
    BY DEF Call
  <1>2. Lands(call)
    BY DEF OtherTransaction
  <1>3. a \in Names
    BY DEF Names
  <1> HIDE DEF call
  <1>4. call.accounts \in Seq(Names) /\ Len(call.accounts) = 1
        /\ call.accounts[1] = a /\ call.posts[1] = Unchanged(a)
    BY <1>1, <1>3
  <1>5. KeyStep({a}, call.signers)
    <2>1. \A b \in {a} : \E i \in 1 .. Len(call.accounts) :
                             call.accounts[i] = b
      BY <1>4
    <2>2. \A i \in 1 .. Len(call.accounts) :
             call.accounts[i] \in Ids =>
                 /\ call.accounts[i] \in {a}
                 /\ call.posts[i] = Unchanged(call.accounts[i])
      BY <1>4
    <2> QED
      BY <1>1, <1>2, <1>4, <2>1, <2>2, KeysPass
  <1>6. account' = [b \in Names |-> account'[b]]
    BY <1>2, <1>4, LandsAccounts
  <1>7. \A b \in Names \ Ids : account'[b] = account[b]
    <2> TAKE b \in Names \ Ids
    <2>1. \A i \in 1 .. Len(call.accounts) :
             call.accounts[i] = b => call.posts[i] = Unchanged(b)
      BY <1>4
    <2>2. call.signers \subseteq Ids
      BY <1>1
    <2> QED
      BY <1>2, <1>4, <2>1, <2>2, OthersPass
  <1> QED
    BY <1>1, <1>5, <1>6, <1>7 DEF PassesBy

\* An account of another program comes into being.
LEMMA KeyBorn ==
    ASSUME ChainTypeOK, KeysInv, NEW a \in Ids, NEW data \in Seq(Cells),
           AccountInit(a, data)
    PROVE  /\ ChainTypeOK' /\ KeysInv'
           /\ \A b \in Names \ Ids : account'[b] = account[b]
           /\ a \notin OwnedKeys \cup SpentKeys /\ authorized' = {a}
           /\ OwnedKeys' = OwnedKeys \cup {a} /\ SpentKeys' = SpentKeys
  <1> DEFINE born == [owner |-> "other", nonce |-> a \notin Pdas, data |-> data]
  <1>1. /\ account[a] = Default /\ account' = [account EXCEPT ![a] = born]
        /\ authorized' = {a}
    BY DEF AccountInit
  <1>2. born \in [owner : Owners, nonce : BOOLEAN, data : Seq(Cells)]
    BY DEF Owners
  <1>3. born.owner = "other"
    OBVIOUS
  <1> HIDE DEF born
  <1>4. account \in [Names -> [owner : Owners, nonce : BOOLEAN, data : Seq(Cells)]]
        /\ \A b \in Ids : b \in Names
    BY DEF ChainTypeOK, Names
  <1>5. account'[a] = born /\ \A b \in Names \ {a} : account'[b] = account[b]
    BY <1>1, <1>4
  <1>6. ChainTypeOK'
    BY <1>1, <1>2, <1>4 DEF ChainTypeOK
  <1>7. KeysInv'
    BY <1>3, <1>4, <1>5 DEF KeysInv
  <1>8. a \notin OwnedKeys \cup SpentKeys
    BY <1>1 DEF OwnedKeys, SpentKeys, Stranded, Default
  <1>9. OwnedKeys' = OwnedKeys \cup {a}
    BY <1>3, <1>4, <1>5 DEF OwnedKeys
  <1>10. \A b \in Ids : Stranded(b)' <=> Stranded(b)
    <2>1. ~Stranded(a) /\ ~Stranded(a)'
      BY <1>1, <1>3, <1>5 DEF Stranded
    <2>2. \A b \in Ids \ {a} : Stranded(b)' <=> Stranded(b)
      BY <1>4, <1>5 DEF Stranded
    <2> QED
      BY <2>1, <2>2
  <1>11. SpentKeys' = SpentKeys
    BY <1>10 DEF SpentKeys
  <1> QED
    BY <1>1, <1>5, <1>6, <1>7, <1>8, <1>9, <1>11
=============================================================================
