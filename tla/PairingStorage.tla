--------------------------- MODULE PairingStorage ---------------------------
(***************************************************************************)
(* The pairings in flash (storage.c), the command that resets them and the *)
(* start that loads or creates the accessory's identity                    *)
(* (homekit_server_init), one flash operation a step.  Power may fail      *)
(* between any two of them.                                                *)
(***************************************************************************)
EXTENDS PairingFlash

VARIABLES
  flash,      \* the sector
  op,         \* the call in progress and how far it is
  promised,   \* the permission each controller was last promised by a call that
              \* returned 0, or none
  doubled,    \* the controllers that may have several records: their update was cut
              \* off by a loss of power, or they were added with a record present
  lost        \* the controllers whose promise a compaction has put at risk: it has begun
              \* to reset the sector, or has left it without an identity

vars == <<flash, op, promised, doubled, lost>>

Idle == [call |-> "idle"]

Init ==
  /\ flash = [ErasedSector EXCEPT !.magic = TRUE, !.ident = "both"]
  /\ op = Idle
  /\ promised = [d \in Device |-> none]
  /\ doubled = {}
  /\ lost = {}

\* The permission that dev would have after a start: without magic or identity, none.
StartPerm(dev) ==
  IF flash.magic /\ flash.ident # "none" THEN PermOf(flash, dev) ELSE none

-----------------------------------------------------------------------------
(* The calls.                                                               *)

\* The call that writes a record for dev: an add, or an update of the record in slot old.
Writing(call, dev, perm, old) ==
  [call |-> call, at |-> "find", dev |-> dev, perm |-> perm, old |-> old]

\* homekit_storage_add_pairing, called for a controller that is not found when there is
\* room (homekit_server_on_pairings), or by pair-setup when no admin is left.
Add(dev, perm) ==
  /\ op = Idle
  /\ \/ FindPairing(flash, dev) = none /\ CanAddPairing(flash)
     \/ ~HasAdmin(flash) /\ perm = "admin"
  /\ op' = Writing("add", dev, perm, none)
  /\ doubled' = IF FindPairing(flash, dev) = none THEN doubled ELSE doubled \cup {dev}
  /\ UNCHANGED <<flash, promised, lost>>

\* homekit_storage_update_pairing, called for a controller that is found.
Update(dev, perm) ==
  /\ op = Idle
  /\ FindPairing(flash, dev) # none
  /\ op' = Writing("update", dev, perm, FindPairing(flash, dev))
  /\ UNCHANGED <<flash, promised, doubled, lost>>

\* homekit_storage_remove_pairing: the first record is cleared, others are not.
Remove(dev) ==
  /\ op = Idle
  /\ FindPairing(flash, dev) # none
  /\ flash' = ClearSlot(flash, FindPairing(flash, dev))
  /\ promised' = [promised EXCEPT ![dev] = none]
  /\ lost' = lost \ {dev}
  /\ UNCHANGED <<op, doubled>>

\* The RESET_PAIRING command: homekit_storage_reset, then a restart.
Reset ==
  /\ op = Idle
  /\ op' = [call |-> "reset", at |-> "zeroMagic"]
  /\ promised' = [d \in Device |-> none]
  /\ lost' = {}
  /\ UNCHANGED <<flash, doubled>>

Adding == op.call \in {"add", "update"}

Goto(at) == op' = [op EXCEPT !.at = at]

\* The write in progress is complete: the call returns 0, and the permission is promised.
\* It is at risk from the first if a compaction has left the sector without an identity.
Return ==
  /\ op' = Idle
  /\ promised' = [promised EXCEPT ![op.dev] = op.perm]
  /\ lost' = IF flash.ident = "none" THEN lost \cup {op.dev} ELSE lost \ {op.dev}

\* A wrong WriteIn: an update ends with the new record.
WriteOnly(i) ==
  /\ flash' = WriteRecord(flash, i, Record(op.dev, op.perm))
  /\ Return
  /\ UNCHANGED doubled

\* The record goes into slot i.  An add is done with that.
WriteIn(i) ==
  /\ flash' = WriteRecord(flash, i, Record(op.dev, op.perm))
  /\ \/ op.call = "add" /\ Return
     \/ op.call = "update" /\ Goto("clear") /\ UNCHANGED <<promised, lost>>
  /\ UNCHANGED doubled

\* A wrong FindBlock: an update clears the old record first.
FindBlockAfterClear ==
  /\ Adding /\ op.at = "find"
  /\ FindEmptyBlock(flash) # none
  /\ IF op.call = "add" THEN WriteIn(FindEmptyBlock(flash))
     ELSE /\ flash' = ClearSlot(flash, op.old)
          /\ Goto("retry")
          /\ UNCHANGED <<promised, doubled, lost>>

FindBlock ==
  /\ Adding /\ op.at = "find"
  /\ FindEmptyBlock(flash) # none
  /\ WriteIn(FindEmptyBlock(flash))

\* No erased slot: compact_data does nothing to a full table, and the call fails ...
CompactFull ==
  /\ Adding /\ op.at = "find"
  /\ FindEmptyBlock(flash) = none
  /\ IsFull(flash)
  /\ op' = Idle
  /\ UNCHANGED <<flash, promised, doubled, lost>>

\* ... and else it goes on to reset the storage.  A record that is copied down goes to
\* data[PAIRINGS_ADDR ...], megabytes behind the buffer: that write is either harmless
\* or the end of the program (CompactFault).
CompactBegin ==
  /\ Adding /\ op.at = "find"
  /\ FindEmptyBlock(flash) = none
  /\ ~IsFull(flash)
  /\ Goto("zeroMagic")
  /\ UNCHANGED <<flash, promised, doubled, lost>>

\* homekit_storage_reset, and the homekit_storage_init it ends with.
ZeroMagic ==
  /\ op.call # "idle" /\ op.at = "zeroMagic"
  /\ flash' = [flash EXCEPT !.magic = FALSE]
  /\ Goto("erase")
  /\ lost' = IF Adding THEN lost \cup {d \in Device : promised[d] # none} ELSE lost
  /\ UNCHANGED <<promised, doubled>>

EraseSector ==
  /\ op.call # "idle" /\ op.at = "erase"
  /\ flash' = ErasedSector
  /\ Goto("magic")
  /\ UNCHANGED <<promised, doubled, lost>>

\* homekit_storage_init answers 1 for "formatted"; compact_data takes that for an error
\* and returns without writing the compacted records back.
WriteMagic ==
  /\ Adding /\ op.at = "magic"
  /\ flash' = [flash EXCEPT !.magic = TRUE]
  /\ Goto("retry")
  /\ UNCHANGED <<promised, doubled, lost>>

\* The call looks for an erased slot once more; after a format there is one.
FindBlockAgain ==
  /\ Adding /\ op.at = "retry"
  /\ FindEmptyBlock(flash) # none
  /\ WriteIn(FindEmptyBlock(flash))

\* A wrong ClearOld: the record to be zeroed is looked for again.
ClearOldFoundAgain ==
  /\ Adding /\ op.at = "clear"
  /\ flash' = ClearSlot(flash, FindPairing(flash, op.dev))
  /\ Return
  /\ UNCHANGED doubled

\* The end of an update: the slot the record was found in is zeroed.
ClearOld ==
  /\ Adding /\ op.at = "clear"
  /\ flash' = ClearSlot(flash, op.old)
  /\ Return
  /\ UNCHANGED doubled

-----------------------------------------------------------------------------
(* Loss of power, the fault in compact_data, and the start after them.      *)

\* The call in progress has been carried out or not: a controller that got no answer
\* may rely on what the flash says of it at the next start.
Restart ==
  /\ op' = [call |-> "boot", at |-> "init"]
  /\ promised' = [d \in Device |->
       IF op.call = "reset" \/ (Adding /\ op.dev = d) THEN StartPerm(d) ELSE promised[d]]
  /\ doubled' = IF Adding /\ op.at = "clear" THEN doubled \cup {op.dev} ELSE doubled
  /\ UNCHANGED <<flash, lost>>

PowerLoss == Restart

CompactFault ==
  /\ Adding /\ op.at = "find"
  /\ FindEmptyBlock(flash) = none
  /\ ~IsFull(flash) /\ CopiesDown(flash)
  /\ Restart

\* The end of the RESET_PAIRING command.
ResetDone ==
  /\ op = [call |-> "reset", at |-> "magic"]
  /\ flash' = [flash EXCEPT !.magic = TRUE]
  /\ op' = [call |-> "boot", at |-> "init"]
  /\ UNCHANGED <<promised, doubled, lost>>

Booting(at) == op.call = "boot" /\ op.at = at

\* homekit_storage_init on a sector without magic erases it.  What was promised is not
\* taken back.
BootFormat ==
  /\ Booting("init")
  /\ ~flash.magic
  /\ flash' = ErasedSector
  /\ doubled' = {}
  /\ Goto("magic")
  /\ UNCHANGED <<promised, lost>>

BootMagic ==
  /\ Booting("magic")
  /\ flash' = [flash EXCEPT !.magic = TRUE]
  /\ Goto("newId")
  /\ UNCHANGED <<promised, doubled, lost>>

\* With magic, the identity is loaded.  A key that was never written loads as well:
\* crypto_ed25519_import_key takes the erased bytes.
BootLoad ==
  /\ Booting("init")
  /\ flash.magic /\ flash.ident # "none"
  /\ op' = Idle
  /\ UNCHANGED <<flash, promised, doubled, lost>>

\* A wrong BootReset: the start looks for the identity again and again.
BootResetIdle ==
  /\ Booting("init")
  /\ flash.magic /\ flash.ident = "none"
  /\ UNCHANGED vars

\* No id: homekit_server_init resets the storage, pairings included.
BootReset ==
  /\ Booting("init")
  /\ flash.magic /\ flash.ident = "none"
  /\ flash' = [flash EXCEPT !.magic = FALSE]
  /\ UNCHANGED <<op, promised, doubled, lost>>

\* A new identity is generated and saved, id first.
BootSaveId ==
  /\ Booting("newId")
  /\ flash' = [flash EXCEPT !.ident = "id"]
  /\ Goto("newKey")
  /\ UNCHANGED <<promised, doubled, lost>>

BootSaveKey ==
  /\ Booting("newKey")
  /\ flash' = [flash EXCEPT !.ident = "both"]
  /\ op' = Idle
  /\ UNCHANGED <<promised, doubled, lost>>

Next ==
  \/ \E dev \in Device, perm \in Perm : Add(dev, perm) \/ Update(dev, perm)
  \/ \E dev \in Device : Remove(dev)
  \/ Reset \/ FindBlock \/ CompactFull \/ CompactBegin \/ CompactFault
  \/ ZeroMagic \/ EraseSector \/ WriteMagic \/ FindBlockAgain \/ ClearOld \/ ResetDone
  \/ PowerLoss
  \/ BootFormat \/ BootMagic \/ BootLoad \/ BootReset \/ BootSaveId \/ BootSaveKey

Spec == Init /\ [][Next]_vars

\* A call or a start, once begun, goes on by itself.
Step ==
  \/ FindBlock \/ CompactFull \/ CompactBegin \/ ZeroMagic \/ EraseSector \/ WriteMagic
  \/ FindBlockAgain \/ ClearOld \/ ResetDone
  \/ BootFormat \/ BootMagic \/ BootLoad \/ BootReset \/ BootSaveId \/ BootSaveKey

FairSpec == Spec /\ WF_vars(Step)

-----------------------------------------------------------------------------

Places == {"find", "zeroMagic", "erase", "magic", "retry", "clear"}

Ops ==
  {Idle}
  \cup [call : {"add"}, at : Places \ {"clear"}, dev : Device, perm : Perm, old : {none}]
  \cup [call : {"update"}, at : Places, dev : Device, perm : Perm, old : SlotIdx]
  \cup [call : {"reset"}, at : {"zeroMagic", "erase", "magic"}]
  \cup [call : {"boot"}, at : {"init", "magic", "newId", "newKey"}]

\* The variables have their types.
TypeOK ==
  /\ flash \in Sector
  /\ op \in Ops
  /\ promised \in [Device -> Perm \cup {none}]
  /\ doubled \subseteq Device
  /\ lost \subseteq Device

\* No record is ever written over a slot that is not erased, in any order of adds,
\* updates, removals, compactions and losses of power: on NOR flash the old and the new
\* bits would mix.
NoGarbage == \A i \in SlotIdx : flash.slot[i] # Garbage

\* The records of a controller.
Copies(dev) == {i \in SlotIdx : Holds(flash, i, dev)}

\* A controller has two records only while its update runs, or after that update was cut
\* off or pair-setup added it a second time.
OneRecord ==
  \A d \in Device \ doubled :
    Cardinality(Copies(d)) > 1 => op.call = "update" /\ op.at = "clear" /\ op.dev = d

\* A loss of power at any point leaves a controller the permission it was last promised or
\* the one that is being written, never none: what a start would find (it formats a sector
\* without magic, and resets one without an identity) is that.  Only the command that
\* resets the pairings, and a compaction from the moment it zeroes the magic
\* (storage.c:180), put a pairing at risk; one that is added or updated after the next
\* start is safe again.  Controllers with two records are left out.
PairingsSurvive ==
  \A d \in Device \ (doubled \cup lost) :
    op.call # "reset"
      => StartPerm(d) \in {promised[d]} \cup (IF Adding /\ op.dev = d THEN {op.perm} ELSE {})

\* After a format, there is a slot for the record that found none before.
RoomAfterCompact == Adding /\ op.at = "retry" => FindEmptyBlock(flash) # none

\* A call or a start comes to its end unless power fails for ever: the resets of
\* homekit_server_init do not repeat themselves.
CallsEnd == []<>(op = Idle) \/ []<><<PowerLoss>>_vars

-----------------------------------------------------------------------------
(* What the calls promise.                                                  *)

\* The sector after the start in progress.
AfterBoot ==
  IF op.at = "init" /\ flash.magic /\ flash.ident # "none" THEN flash
  ELSE [FormattedSector EXCEPT !.ident = "both"]

\* The sector after the update or the add in progress has written its record to f.
AfterWrite(f) ==
  LET written == WriteRecord(f, FindEmptyBlock(f), Record(op.dev, op.perm))
  IN  IF op.call = "add" THEN written ELSE ClearSlot(written, op.old)

\* The sector as it will be when what is in progress has ended, unless power fails.
Settled ==
  CASE op.call = "idle" -> flash
    [] op.call = "boot" -> AfterBoot
    [] op.call = "reset" -> [FormattedSector EXCEPT !.ident = "both"]
    [] Adding /\ op.at = "find" ->
         IF FindEmptyBlock(flash) = none /\ IsFull(flash) THEN flash
         ELSE AfterWrite(Compacted(flash))
    [] Adding /\ op.at = "clear" -> ClearSlot(flash, op.old)
    [] OTHER -> AfterWrite(FormattedSector)

\* The slots that a start would find.
Durable ==
  IF flash.magic /\ flash.ident # "none" THEN flash.slot ELSE [i \in SlotIdx |-> Erased]

Calls == INSTANCE PairingCalls WITH sector <- Settled, durable <- Durable

\* Cut into single flash operations, with searches that are repeated after a compaction,
\* the calls still do what PairingServer takes them for: each its atomic change; and a loss
\* of power leaves a mixture of before and after in which no controller of both is missing.
ImplementsCalls == Calls!Init /\ [][Calls!Next]_(Calls!vars)

\* storage.c:330 reports a compaction that lost the flash as "Failed to compact HomeKit
\* storage: error resetting flash"; a compaction that succeeds keeps every pairing.
CompactionKeepsPairings ==
  \A d \in Device \ doubled : op = Idle => PermOf(flash, d) = promised[d]
=============================================================================
