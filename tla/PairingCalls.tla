---------------------------- MODULE PairingCalls ----------------------------
(***************************************************************************)
(* What storage.c promises to its callers: every call changes the sector   *)
(* at once, as the operators of PairingFlash say, and what a start would   *)
(* find follows slot by slot.  When power fails on the way, some slots are *)
(* those of before and some those of after, but no controller is lost that *)
(* is in both.                                                             *)
(***************************************************************************)
EXTENDS PairingFlash

VARIABLES
  sector,   \* the sector as the calls have left it
  durable   \* the slots a start would find if power failed now

vars == <<sector, durable>>

NoSlots == [i \in SlotIdx |-> Erased]

\* A start keeps the slots of a sector with magic and identity.
KeptBy(f) == IF f.magic /\ f.ident # "none" THEN f.slot ELSE NoSlots

\* What a start makes of any other.
Fresh == [magic |-> TRUE, ident |-> "both", slot |-> NoSlots]

\* The last call has come to its end.
Quiet == durable = KeptBy(sector)

\* No slot is left, and a compaction would not make room: the call answers -2.
Refused(f) == FindEmptyBlock(f) = none /\ IsFull(f)

Init == sector = Fresh /\ durable = NoSlots

Add(dev, perm) ==
  /\ Quiet
  /\ \/ FindPairing(sector, dev) = none /\ CanAddPairing(sector)
     \/ ~HasAdmin(sector) /\ perm = "admin"
  /\ ~Refused(sector)
  /\ sector' = AddPairingTo(sector, dev, perm)
  /\ UNCHANGED durable

Update(dev, perm) ==
  /\ Quiet
  /\ FindPairing(sector, dev) # none
  /\ ~Refused(sector)
  /\ sector' = UpdatePairingIn(sector, dev, perm)
  /\ UNCHANGED durable

Remove(dev) ==
  /\ Quiet
  /\ FindPairing(sector, dev) # none
  /\ sector' = RemovePairingFrom(sector, dev)
  /\ durable' = KeptBy(sector')

Reset ==
  /\ Quiet
  /\ sector' = Fresh
  /\ UNCHANGED durable

\* The flash follows.
Write ==
  /\ durable' \in [SlotIdx -> Slot]
  /\ \A i \in SlotIdx : durable'[i] \in {durable[i], KeptBy(sector)[i]}
  /\ \A dev \in Device :
       LET Has(slot) == \E i \in SlotIdx : slot[i].kind = "record" /\ slot[i].dev = dev
       IN  Has(durable) /\ Has(KeptBy(sector)) => Has(durable')
  /\ UNCHANGED sector

\* Of a new identity perhaps only the id has been written.
PowerFails ==
  /\ \E ident \in {"id", "both"} :
       sector' = [magic |-> TRUE, ident |-> ident, slot |-> durable]
  /\ UNCHANGED durable

Next ==
  \/ \E dev \in Device, perm \in Perm : Add(dev, perm) \/ Update(dev, perm)
  \/ \E dev \in Device : Remove(dev)
  \/ Reset \/ Write \/ PowerFails

Spec == Init /\ [][Next]_vars
=============================================================================
