---------------------------- MODULE EmbeddedOnLez ----------------------------
(***************************************************************************)
(* FreezeAuthoritySampleEmbedded one level down: the admin slot, the       *)
(* freeze config and the program's value are windows of one account, and   *)
(* every transaction goes through LEZ's checks.                            *)
(***************************************************************************)
EXTENDS FreezeAuthorityOnLez

CONSTANT Values  \* bound: the values that update_value writes

\* ProgramConfig: value, padding, the admin slot, the freeze config.
ASSUME EmbeddedAssumption ==
    /\ AutoWrap
    /\ AdminAccount = ConfigAccount /\ ProgramAccount = ConfigAccount
    /\ AdminOffset = 2 /\ FreezeOffset = AdminOffset + ENCODED_LEN
    /\ 0 \in Values /\ Values \subseteq Cells

vars == <<account, authorized>>

Init == ChainInit

----------------------------------------------------------------------------
(* The program's own instructions. *)

\* ProgramConfig::default(): zeros.
Zeros == <<0, 0>> \o SlotBytes([holder |-> NoId, nominee |-> NoId])
                  \o Encode([slot |-> [holder |-> NoId, nominee |-> NoId],
                             is_frozen |-> FALSE])

\* ProgramConfig::try_from_slice: all of the data or nothing.
FromAccountResult == Check(/\ Len(ConfigData) = Len(Zeros)
                           /\ ConfigData[Len(ConfigData)] \in {0, 1},
                           "SerializationError")

\* The whole struct is decoded and encoded again, with another value.
WithValue(value) == <<value>> \o Tail(ConfigData)

\* The struct is written whole, then the injected bootstrap splices the
\* caller into the admin slot.
initialize(caller) ==
    Call(<<caller, ConfigAccount>>,
         {caller},
         Check(account[ConfigAccount] = Default, "AccountAlreadyInitialized")
           ?? Validate([kind |-> "Signer", derived |-> NoId], Caller(caller))
           ?? SlotInitializeResult(caller),
         <<Unchanged(caller),
           Claimed(ConfigAccount,
                   SlotWriteAt(Zeros, SlotInitialize(caller), AdminOffset))>>)

update_value(caller, new_value) ==
    Call(<<ConfigAccount, Marker(caller), caller>>,
         {caller},
         RequireNotFrozen(caller) ?? RequireAdmin(caller) ?? FromAccountResult,
         <<PostState(ConfigAccount, WithValue(new_value)),
           Unchanged(Marker(caller)), Unchanged(caller)>>)

withdraw(caller) ==
    Call(<<ConfigAccount, caller>>,
         {caller},
         RequireAdmin(caller) ?? FromAccountResult,
         <<PostState(ConfigAccount, WithValue(0)), Unchanged(caller)>>)

\* Exempt, and signed by nobody. It lands without a trace, so it is no step.
read_value ==
    Call(<<ConfigAccount>>, {}, FromAccountResult, <<Unchanged(ConfigAccount)>>)

----------------------------------------------------------------------------
OwnCalls ==
    {initialize(c) : c \in Ids}
      \cup {withdraw(c) : c \in Ids}
      \cup {update_value(c, v) : c \in Ids, v \in Values}

\* The derived address belongs to another program that embeds the same struct.
Next == \/ \E call \in RoleCalls : Lands(call)
        \/ \E call \in BrakeCalls : Lands(call)
        \/ \E call \in AdminCalls : Lands(call)
        \/ \E call \in OwnCalls : Lands(call)
        \/ \E a \in Ids : AccountInit(a, IF a \in Pdas THEN Zeros ELSE <<>>)
                        \/ OtherTransaction(a)

Spec == Init /\ [][Next]_vars

----------------------------------------------------------------------------
Born == ConfigData # <<>>

\* Once the account exists both windows can be read: no handler ever meets
\* SlotOutOfBounds or DecodingFailed, whichever of them wrote last.
WindowsReadable ==
    Born => /\ FreezeConfigResult = Ok
            /\ AdminConfigResult = Ok
            /\ FromAccountResult = Ok
            /\ \A a \in Ids : MarkerResult(account[Marker(a)].data) = Ok

\* What the library accepts LEZ accepts too: post-states in the position of
\* their accounts, a shared account once, markers claimed when they are made
\* and then never again. (tests/lez_rules.rs, docs of post_state_pair,
\* freeze_program and freeze_account)
LezAccepts ==
    \A call \in RoleCalls \cup BrakeCalls \cup AdminCalls \cup OwnCalls
                  \cup {read_value} : LezAgrees(call)

\* A transaction writes in one window of the shared account and leaves the
\* others, the padding among them, as they were.
OneWindow ==
    \E w \in {Window(0, 1), Window(AdminOffset, ENCODED_LEN),
              Window(FreezeOffset, SIZE)} :
        /\ Len(ConfigData') = Len(ConfigData)
        /\ \A i \in 1 .. Len(ConfigData) \ w : ConfigData'[i] = ConfigData[i]

NeighboursKept == [][Born => OneWindow]_ConfigData

----------------------------------------------------------------------------
\* The same program over decoded records. Its admin has no nominee.
AdminRecord == IF Born THEN AdminSlot.holder ELSE NoData
ConfigRecord == IF Born THEN LoadedConfig ELSE NoData
ValueRecord == IF Born THEN ConfigData[1] ELSE NoData

Records == INSTANCE FreezeAuthoritySampleEmbedded WITH
    owned <- OwnedKeys, spent <- SpentKeys, adminConfig <- AdminRecord,
    freezeConfig <- ConfigRecord, frozenAccount <- MarkerRecords,
    programConfig <- ValueRecord

\* Windows, copies and post-states implement the decoded program: what the
\* properties of FreezeAuthoritySampleEmbedded say holds of the bytes.
ImplementsRecords == Records!Spec

\* What a landed call must have done to the records.
TookEffect(caller) ==
    /\ \A new \in Ids, cand \in Candidates, cosigns \in BOOLEAN :
          Lands(freeze_authority_transfer(caller, new, cand, cosigns))
            => Records!freeze_authority_transfer(caller, new, cand, cosigns)
    /\ Lands(freeze_authority_renounce(caller))
         => Records!freeze_authority_renounce(caller)
    /\ \A next \in AccountId :
          Lands(freeze_authority_nominate(caller, next))
            => Records!freeze_authority_nominate(caller, next)
    /\ Lands(freeze_authority_accept(caller))
         => Records!freeze_authority_accept(caller)
    /\ Lands(freeze_program(caller)) => Records!freeze_program(caller)
    /\ Lands(freeze_program_release(caller))
         => Records!freeze_program_release(caller)
    /\ \A t \in Targets :
          /\ Lands(freeze_account(caller, t)) => Records!freeze_account(caller, t)
          /\ Lands(freeze_account_release(caller, t))
               => Records!freeze_account_release(caller, t)

\* A call that lands has done what it says: of the two copies of the shared
\* account the changed one is kept, so no freeze, release or hand-over is
\* reported as landed and lost. (post_state_pair: "collapses to the written
\* copy")
NoLostWrite == [][\A caller \in authorized' : TookEffect(caller)]_vars
=============================================================================
