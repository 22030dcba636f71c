---------------------------- MODULE PairingFlash ----------------------------
(***************************************************************************)
(* The flash sector of storage.c and what its functions find in it.        *)
(*                                                                         *)
(* A bit of NOR flash is written from 1 to 0 and returns to 1 only when    *)
(* the whole sector is erased.  A pairing slot is therefore erased (all    *)
(* 0xFF), a record, or cleared (all zero); a record written over anything  *)
(* but an erased slot would be garbage.                                    *)
(***************************************************************************)
EXTENDS Integers, FiniteSets, FiniteSetsExt

CONSTANTS Device,       \* the controllers
          MaxPairings,  \* MAX_PAIRINGS, the number of slots
          none          \* no pairing, no slot

ASSUME MaxPairingsAssumption == MaxPairings \in Nat \ {0}
ASSUME NoneAssumption == none \notin Device /\ none \notin Nat

SlotIdx == 0 .. MaxPairings - 1

Perm == {"user", "admin"}

\* What a slot holds.  A record is pairing_data_t: magic, permissions, device id and key.
Record(dev, perm) == [kind |-> "record", dev |-> dev, perm |-> perm]

NoRecord(kind) == [kind |-> kind, dev |-> none, perm |-> none]

Erased == NoRecord("erased")
Cleared == NoRecord("cleared")
Garbage == NoRecord("garbage")

Slot == [kind : {"record"}, dev : Device, perm : Perm] \cup {Erased, Cleared, Garbage}

\* magic: the sector starts with "HAP".  ident: what is there of the accessory's
\* identity, nothing, its id, or its id and its key.
Sector == [magic : BOOLEAN, ident : {"none", "id", "both"},
           slot : [SlotIdx -> Slot]]

ErasedSector == [magic |-> FALSE, ident |-> "none", slot |-> [i \in SlotIdx |-> Erased]]

\* The magic of slot i says "HAP".
HasRecord(f, i) == f.slot[i].kind = "record"

Holds(f, i, dev) == HasRecord(f, i) /\ f.slot[i].dev = dev

FirstOf(S) == IF S = {} THEN none ELSE Min(S)

\* The slot of the first record of dev, as find, update and remove look for it.
FindPairing(f, dev) == FirstOf({i \in SlotIdx : Holds(f, i, dev)})

PermOf(f, dev) == LET i == FindPairing(f, dev) IN IF i = none THEN none ELSE f.slot[i].perm

\* A wrong FindEmptyBlock: cleared slots count as empty.
FindFreeBlock(f) == FirstOf({i \in SlotIdx : ~HasRecord(f, i)})

\* find_empty_block: only a slot that is still erased can be written.
FindEmptyBlock(f) == FirstOf({i \in SlotIdx : f.slot[i] = Erased})

\* homekit_storage_can_add_pairing: some slot holds no record.
CanAddPairing(f) == \E i \in SlotIdx : ~HasRecord(f, i)

\* homekit_is_paired: homekit_storage_next_pairing meets an admin.
HasAdmin(f) == \E i \in SlotIdx : HasRecord(f, i) /\ f.slot[i].perm = "admin"

\* spiflash_write of a record, and of zeroes.
WriteRecord(f, i, r) ==
  [f EXCEPT !.slot[i] = IF @ = Erased THEN r ELSE Garbage]

ClearSlot(f, i) == [f EXCEPT !.slot[i] = Cleared]

\* compact_data, before it touches the flash: every slot holds a record, or some record
\* has a slot without one before it and is copied down.
IsFull(f) == \A i \in SlotIdx : HasRecord(f, i)

CopiesDown(f) == \E i \in SlotIdx, j \in SlotIdx : j < i /\ HasRecord(f, i) /\ ~HasRecord(f, j)

-----------------------------------------------------------------------------
(* The calls of storage.c as a caller sees them, if power does not fail.    *)

\* What compact_data leaves: a sector with magic and nothing else, since it takes the
\* answer "formatted" of homekit_storage_init for an error and writes nothing back.
FormattedSector == [ErasedSector EXCEPT !.magic = TRUE]

\* No slot is left to write: the call fails, unless a compaction makes room.
MustCompact(f) == FindEmptyBlock(f) = none /\ ~IsFull(f)

Compacted(f) == IF MustCompact(f) THEN FormattedSector ELSE f

\* homekit_storage_add_pairing, when it does not fail.
AddPairingTo(f, dev, perm) ==
  WriteRecord(Compacted(f), FindEmptyBlock(Compacted(f)), Record(dev, perm))

\* homekit_storage_update_pairing: the record moves to an erased slot, and the slot it
\* was found in is cleared, even if a compaction has put the record just there.
UpdatePairingIn(f, dev, perm) == ClearSlot(AddPairingTo(f, dev, perm), FindPairing(f, dev))

\* homekit_storage_remove_pairing.
RemovePairingFrom(f, dev) == ClearSlot(f, FindPairing(f, dev))
=============================================================================
