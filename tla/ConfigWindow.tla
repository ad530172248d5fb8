---------------------------- MODULE ConfigWindow ----------------------------
(***************************************************************************)
(* freeze-authority/src/config.rs and frozen_account.rs: how the records   *)
(* of FreezeConfig lie in an account's data. Data is a sequence of cells.  *)
(* A cell is a field: the 32 bytes of an id, or the byte of a flag. The    *)
(* all-zero id and a zero byte are the same cell, and nothing in a cell    *)
(* says what it was written as, so a window read at the wrong place reads  *)
(* what lies there. offset is the cell in front of the window.             *)
(***************************************************************************)
EXTENDS FreezeConfig, Integers, Sequences

CONSTANT Cells  \* what a cell may hold

ASSUME CellsAssumption == AccountId \cup {0, 1} \subseteq Cells /\ NoId = 0

\* AuthoritySlot::ENCODED_LEN and FixedBorshSize::SIZE, in cells.
ENCODED_LEN == 2
SIZE == ENCODED_LEN + 1

Window(offset, len) == offset + 1 .. offset + len

\* Puts the cells of part over the window; everything else stays.
Splice(data, part, offset) ==
    [i \in 1 .. Len(data) |->
        IF i \in Window(offset, Len(part)) THEN part[i - offset] ELSE data[i]]

----------------------------------------------------------------------------
\* AuthoritySlot::read_at and write_at (external).
SlotFits(data, offset) ==
    Check(offset + ENCODED_LEN <= Len(data), "SlotOutOfBounds")

SlotReadAt(data, offset) ==
    [holder |-> data[offset + 1], nominee |-> data[offset + 2]]

SlotBytes(slot) == <<slot.holder, slot.nominee>>

SlotWriteAt(data, slot, offset) == Splice(data, SlotBytes(slot), offset)

----------------------------------------------------------------------------
FlagByte(state) == IF state THEN 1 ELSE 0

\* Borsh of a FreezeConfig.
Encode(config) == Append(SlotBytes(config.slot), FlagByte(config.is_frozen))

\* The strict load of a window: what is missing, what does not fit and what
\* is no flag are told apart.
DecodeAtResult(data, offset) ==
    Check(data # <<>>, "NotInitialized")
      ?? SlotFits(data, offset)
      ?? Check(offset + SIZE <= Len(data), "SlotOutOfBounds")
      ?? Check(data[offset + SIZE] \in {0, 1}, "DecodingFailed")

DecodeAt(data, offset) ==
    [slot |-> SlotReadAt(data, offset), is_frozen |-> data[offset + SIZE] = 1]

\* The load of a dedicated account takes nothing after the record.
DecodeResult(data) ==
    Check(data # <<>>, "NotInitialized")
      ?? Check(Len(data) = SIZE /\ data[Len(data)] \in {0, 1}, "DecodingFailed")

\* A bug to look for: the owner is not checked.
FromAccountAtResult(account, offset, program) ==
    DecodeAtResult(account.data, offset)

\* The load for readers whose account is not pinned to the program.
FromOwnedAccountAtResult(account, offset, program) ==
    Check(account.owner = program, "ConfigNotOwned")
      ?? DecodeAtResult(account.data, offset)

\* Bugs to look for: the whole account is written, the offset is forgotten.
WriteToWhole(data, config, offset) == Encode(config)
WriteToStart(data, config, offset) == Splice(data, Encode(config), 0)

\* The two splices, the slot and the flag after it.
WriteToAtResult(data, offset) ==
    SlotFits(data, offset)
      ?? Check(offset + SIZE <= Len(data), "SlotOutOfBounds")

WriteToAt(data, config, offset) ==
    Splice(SlotWriteAt(data, config.slot, offset),
           <<FlagByte(config.is_frozen)>>, offset + ENCODED_LEN)

\* bootstrap_at: for a program that creates the account, writes its own
\* struct and then seats the first holder in the window.
BootstrapAtResult(data, offset, candidate, new) ==
    BootstrapResult(candidate, new) ?? WriteToAtResult(data, offset)

BootstrapAt(data, offset, new) ==
    WriteToAt(data, Bootstrap(new.account_id), offset)

\* Here bytes are told apart, since a wrong offset need not be a whole field
\* off. FixedBorshSize::SIZE, and what the framework writes into a zeroed
\* struct, at the field, to check the offset it derived: 32 bytes 0xA5 for
\* the holder, 32 bytes 0x5A for the nominee, the flag set.
SizeInBytes == 65

ProbeBytes == [i \in 1 .. SizeInBytes |->
                  IF i <= 32 THEN 165 ELSE IF i <= 64 THEN 90 ELSE 1]

ProbedStruct(len, placed) == Splice([i \in 1 .. len |-> 0], ProbeBytes, placed)

----------------------------------------------------------------------------
\* The marker of an account. Malformed bytes are an error, none are not.
MarkerResult(data) ==
    Check(data \in {<<>>, <<0>>, <<1>>}, "DecodingFailed")

MarkerState(data) ==
    IF data = <<>> THEN NoData ELSE [is_frozen |-> data = <<1>>]

MarkerBytes(state) == <<FlagByte(state)>>
=============================================================================
