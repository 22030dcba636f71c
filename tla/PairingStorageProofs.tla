------------------------ MODULE PairingStorageProofs ------------------------
(***************************************************************************)
(* The safety of the pairing storage, and that it carries out the atomic   *)
(* calls of PairingCalls, for every number of slots and every set of       *)
(* controllers, with power failing between any two steps.                  *)
(***************************************************************************)
EXTENDS PairingStorage, FiniteSetTheorems, WellFoundedInduction, TLAPS

-----------------------------------------------------------------------------
(* What the searches of storage.c return.                                   *)

\* A set of slots has a first one.
LEMMA FirstOfSlots ==
  ASSUME NEW S, S \subseteq SlotIdx
  PROVE  /\ FirstOf(S) = none <=> S = {}
         /\ S # {} => /\ FirstOf(S) \in S
                      /\ \A i \in S : FirstOf(S) <= i
<1>1. S \subseteq Nat
  BY MaxPairingsAssumption DEF SlotIdx, MaxPairingsAssumption
<1>2. none \notin S
  BY <1>1, NoneAssumption DEF NoneAssumption
<1>3. ASSUME S # {}
      PROVE  Min(S) \in S /\ \A i \in S : Min(S) <= i
  <2>1. PICK x \in S : \A y \in S : ~(<<y, x>> \in OpToRel(<, Nat))
    BY <1>1, <1>3, NatLessThanWellFounded, WFMin
  <2>2. \A y \in S : x <= y
    <3> SUFFICES ASSUME NEW y \in S, ~(x <= y) PROVE FALSE
      OBVIOUS
    <3>1. x \in Nat /\ y \in Nat /\ y < x
      BY <1>1
    <3>2. <<y, x>> \in OpToRel(<, Nat)
      BY <3>1 DEF OpToRel
    <3> QED BY <2>1, <3>2
  <2> QED BY <2>2 DEF Min
<1> QED BY <1>2, <1>3 DEF FirstOf

\* find_empty_block.
LEMMA EmptyBlockFound ==
  ASSUME NEW f
  PROVE  /\ FindEmptyBlock(f) = none <=> \A i \in SlotIdx : f.slot[i] # Erased
         /\ FindEmptyBlock(f) # none =>
              FindEmptyBlock(f) \in SlotIdx /\ f.slot[FindEmptyBlock(f)] = Erased
<1> DEFINE S == {i \in SlotIdx : f.slot[i] = Erased}
<1>1. /\ FirstOf(S) = none <=> S = {}
      /\ S # {} => FirstOf(S) \in S
  BY FirstOfSlots
<1> QED BY <1>1 DEF FindEmptyBlock

\* The record that find, update and remove meet first.
LEMMA PairingFound ==
  ASSUME NEW f, NEW dev
  PROVE  /\ FindPairing(f, dev) = none <=> \A i \in SlotIdx : ~Holds(f, i, dev)
         /\ FindPairing(f, dev) # none =>
              /\ FindPairing(f, dev) \in SlotIdx
              /\ Holds(f, FindPairing(f, dev), dev)
<1> DEFINE S == {i \in SlotIdx : Holds(f, i, dev)}
<1>1. /\ FirstOf(S) = none <=> S = {}
      /\ S # {} => FirstOf(S) \in S
  BY FirstOfSlots
<1> QED BY <1>1 DEF FindPairing

-----------------------------------------------------------------------------
(* The inductive invariant.                                                 *)

Blank(f) == \A i \in SlotIdx : f.slot[i] = Erased

\* The update of d has written the new record and not yet cleared the old one.
Moving(d) == op.call = "update" /\ op.at = "clear" /\ op.dev = d

\* A start would keep the pairings of the sector.
Kept == flash.magic /\ flash.ident # "none"

\* Whoever was promised a pairing is among those a compaction has put at risk.
Lapsed == \A d \in Device : promised[d] # none => d \in lost

\* What is left of a compaction or a format has no record and no identity.
AfterErase ==
  /\ op.call \in {"add", "update", "reset"} /\ op.at \in {"magic", "retry"}
       => flash.ident = "none" /\ Blank(flash)
  /\ op.call = "boot" /\ op.at \in {"magic", "newId", "newKey"} => Blank(flash)
  /\ op.call = "boot" /\ op.at \in {"magic", "newId"} => flash.ident = "none"

\* Where the magic is there.
Magic ==
  (\/ op.call = "idle"
   \/ Adding /\ op.at \in {"find", "retry", "clear"}
   \/ op.call = "boot" /\ op.at \in {"newId", "newKey"}) => flash.magic

\* Only after a compaction or the reset command is a sector without magic or identity, or
\* one that is being formatted.
AtRisk ==
  (\/ ~Kept \/ op.call = "reset"
   \/ op.call # "idle" /\ op.at \in {"erase", "magic", "newId", "newKey"}) => Lapsed

\* The slot an update will clear holds a record of its controller, and an add has met none.
FoundBefore ==
  /\ op.call = "update" /\ op.at = "clear" /\ flash.ident # "none" => Holds(flash, op.old, op.dev)
  /\ op.call = "update" /\ op.at = "find" => Holds(flash, op.old, op.dev)
  /\ op.call = "add" /\ op.at = "find" /\ op.dev \notin doubled
       => \A i \in SlotIdx : ~Holds(flash, i, op.dev)

\* OneRecord, without the cardinality.
Single ==
  \A d \in Device \ doubled : \A i, j \in SlotIdx :
    Holds(flash, i, d) /\ Holds(flash, j, d) => i = j \/ Moving(d)

\* Between the two halves of an update there are the old record and the new one in n.
TwoOf(d, n) ==
  /\ Holds(flash, n, d) /\ flash.slot[n].perm = op.perm
  /\ \A i \in SlotIdx : Holds(flash, i, d) => i \in {op.old, n}
  /\ flash.ident # "none" => /\ n # op.old /\ Holds(flash, op.old, d)
                             /\ d \notin lost => flash.slot[op.old].perm = promised[d]

BetweenHalves ==
  \A d \in Device \ doubled : Moving(d) => \E n \in SlotIdx : TwoOf(d, n)

\* The flash has what a controller was promised.
Agrees(d) ==
  /\ \A i \in SlotIdx : Holds(flash, i, d) => flash.slot[i].perm = promised[d]
  /\ (\A i \in SlotIdx : ~Holds(flash, i, d)) => promised[d] = none

Promises ==
  \A d \in Device \ (doubled \cup lost) :
    Kept /\ op.call # "reset" /\ ~Moving(d) => Agrees(d)

Records ==
  AfterErase /\ Magic /\ AtRisk /\ FoundBefore /\ Single /\ BetweenHalves /\ Promises

IInv == TypeOK /\ NoGarbage /\ Records

-----------------------------------------------------------------------------
(* The calls in progress and the slots.                                     *)

LEMMA OpFields ==
  ASSUME op \in Ops
  PROVE  /\ op.call \in {"idle", "add", "update", "reset", "boot"}
         /\ op.call = "idle" => op = Idle
         /\ Adding => op.dev \in Device /\ op.perm \in Perm /\ op.at \in Places
         /\ op.call = "add" => op.at # "clear" /\ op.old = none
         /\ op.call = "update" => op.old \in SlotIdx
  BY DEF Ops, Idle, Adding, Places

LEMMA GotoFields ==
  ASSUME op \in Ops, NEW at, Goto(at), op.call # "idle",
         Adding => at \in Places \ (IF op.call = "add" THEN {"clear"} ELSE {}),
         op.call = "reset" => at \in {"zeroMagic", "erase", "magic"},
         op.call = "boot" => at \in {"init", "magic", "newId", "newKey"}
  PROVE  /\ op' \in Ops /\ op'.call = op.call /\ op'.at = at
         /\ Adding => op'.dev = op.dev /\ op'.perm = op.perm /\ op'.old = op.old
<1>1. CASE op.call = "add"
  BY <1>1 DEF Ops, Idle, Adding, Goto, Places
<1>2. CASE op.call = "update"
  BY <1>2 DEF Ops, Idle, Adding, Goto, Places
<1>3. CASE op.call = "reset"
  BY <1>3 DEF Ops, Idle, Adding, Goto
<1>4. CASE op.call = "boot"
  BY <1>4 DEF Ops, Idle, Adding, Goto
<1> QED BY <1>1, <1>2, <1>3, <1>4, OpFields

LEMMA BlankHolds ==
  ASSUME NEW f, Blank(f), NEW i \in SlotIdx, NEW d
  PROVE  ~Holds(f, i, d) /\ f.slot[i] # Garbage
  BY DEF Blank, Holds, HasRecord, Erased, Garbage, NoRecord

LEMMA ErasedIsBlank ==
  /\ ErasedSector \in Sector /\ Blank(ErasedSector)
  /\ Erased \in Slot /\ Cleared \in Slot
  BY DEF ErasedSector, Sector, Slot, Blank

\* Only the magic or the identity of a sector changes.
LEMMA SlotsKept ==
  ASSUME NEW f \in Sector, NEW m \in BOOLEAN, NEW id \in {"none", "id", "both"}
  PROVE  /\ [f EXCEPT !.magic = m] \in Sector /\ [f EXCEPT !.magic = m].slot = f.slot
         /\ [f EXCEPT !.ident = id] \in Sector /\ [f EXCEPT !.ident = id].slot = f.slot
  BY DEF Sector

\* Writing and clearing a record leave magic and identity.
LEMMA MagicKept ==
  ASSUME NEW f \in Sector, NEW i, NEW r
  PROVE  /\ WriteRecord(f, i, r).magic = f.magic /\ WriteRecord(f, i, r).ident = f.ident
         /\ ClearSlot(f, i).magic = f.magic /\ ClearSlot(f, i).ident = f.ident
  BY DEF Sector, WriteRecord, ClearSlot

\* A record is written into an erased slot.
LEMMA SlotWritten ==
  ASSUME NEW f \in Sector, NEW k \in SlotIdx, f.slot[k] = Erased,
         NEW dev \in Device, NEW perm \in Perm, NEW g,
         g = WriteRecord(f, k, Record(dev, perm))
  PROVE  /\ g \in Sector
         /\ Holds(g, k, dev) /\ g.slot[k].perm = perm /\ g.slot[k] # Garbage
         /\ \A i \in SlotIdx : i # k => g.slot[i] = f.slot[i]
         /\ \A i \in SlotIdx, d \in Device :
              Holds(g, i, d) <=> (i = k /\ d = dev) \/ (i # k /\ Holds(f, i, d))
         /\ \A d \in Device : ~Holds(f, k, d)
<1>1. Record(dev, perm) \in Slot
  BY DEF Record, Slot
<1>2. g = [f EXCEPT !.slot = [f.slot EXCEPT ![k] = Record(dev, perm)]]
  BY DEF WriteRecord, Sector
<1>3. f.slot \in [SlotIdx -> Slot]
  BY DEF Sector
<1>4. [f.slot EXCEPT ![k] = Record(dev, perm)] \in [SlotIdx -> Slot]
  BY <1>1, <1>3
<1>5. g \in Sector /\ g.slot = [f.slot EXCEPT ![k] = Record(dev, perm)]
  BY <1>2, <1>4 DEF Sector
<1>6. \A i \in SlotIdx : g.slot[i] = IF i = k THEN Record(dev, perm) ELSE f.slot[i]
  BY <1>3, <1>5
<1> QED BY <1>5, <1>6 DEF Holds, HasRecord, Record, Erased, Garbage, NoRecord

LEMMA SlotCleared ==
  ASSUME NEW f \in Sector, NEW k \in SlotIdx, NEW g, g = ClearSlot(f, k)
  PROVE  /\ g \in Sector
         /\ \A i \in SlotIdx : g.slot[i] = IF i = k THEN Cleared ELSE f.slot[i]
         /\ \A i \in SlotIdx, d \in Device : Holds(g, i, d) <=> i # k /\ Holds(f, i, d)
         /\ Cleared # Garbage
<1>1. f.slot \in [SlotIdx -> Slot]
  BY DEF Sector
<1>2. [f.slot EXCEPT ![k] = Cleared] \in [SlotIdx -> Slot]
  BY <1>1, ErasedIsBlank
<1>3. g \in Sector /\ g.slot = [f.slot EXCEPT ![k] = Cleared]
  BY <1>2 DEF ClearSlot, Sector
<1>4. \A i \in SlotIdx : g.slot[i] = IF i = k THEN Cleared ELSE f.slot[i]
  BY <1>1, <1>3
<1> QED BY <1>3, <1>4 DEF Holds, HasRecord, Cleared, Garbage, NoRecord

\* A controller with one record has the permission of that record.
LEMMA PermOfSingle ==
  ASSUME NEW f, NEW d,
         \A i, j \in SlotIdx : Holds(f, i, d) /\ Holds(f, j, d) => i = j
  PROVE  /\ \A i \in SlotIdx : Holds(f, i, d) => PermOf(f, d) = f.slot[i].perm
         /\ (\A i \in SlotIdx : ~Holds(f, i, d)) => PermOf(f, d) = none
  BY PairingFound DEF PermOf

-----------------------------------------------------------------------------
(* The steps of the calls.                                                  *)

LEMMA CallBegins ==
  ASSUME IInv, NEW dev \in Device, NEW perm \in Perm, Add(dev, perm) \/ Update(dev, perm)
  PROVE  IInv'
<1>1. op.call = "idle" /\ UNCHANGED <<flash, promised, lost>>
  BY DEF Add, Update, Idle
<1>2. CASE Add(dev, perm)
  <2>1. op' = Writing("add", dev, perm, none)
        /\ doubled' \subseteq Device /\ doubled \subseteq doubled'
        /\ (dev \notin doubled' => FindPairing(flash, dev) = none)
    BY <1>2 DEF Add, IInv, TypeOK
  <2>2. op' \in Ops
    BY <2>1 DEF Ops, Writing, Places
  <2>3. op'.call = "add" /\ op'.at = "find" /\ op'.dev = dev
    BY <2>1 DEF Writing
  <2>4. Records'
    BY <1>1, <2>1, <2>3, PairingFound
       DEF IInv, Records, AfterErase, Magic, AtRisk, Kept, Lapsed, FoundBefore, Single,
           BetweenHalves, Promises, Agrees, Moving
  <2> QED BY <1>1, <2>1, <2>2, <2>4 DEF IInv, TypeOK, NoGarbage
<1>3. CASE Update(dev, perm)
  <2>1. op' = Writing("update", dev, perm, FindPairing(flash, dev)) /\ UNCHANGED doubled
        /\ FindPairing(flash, dev) \in SlotIdx
        /\ Holds(flash, FindPairing(flash, dev), dev)
    BY <1>3, PairingFound DEF Update
  <2>2. op' \in Ops
    BY <2>1 DEF Ops, Writing, Places
  <2>3. op'.call = "update" /\ op'.at = "find" /\ op'.dev = dev
        /\ op'.old = FindPairing(flash, dev)
    BY <2>1 DEF Writing
  <2>4. Records'
    BY <1>1, <2>1, <2>3
       DEF IInv, Records, AfterErase, Magic, AtRisk, Kept, Lapsed, FoundBefore, Single,
           BetweenHalves, Promises, Agrees, Moving
  <2> QED BY <1>1, <2>1, <2>2, <2>4 DEF IInv, TypeOK, NoGarbage
<1> QED BY <1>2, <1>3

LEMMA RemoveInv ==
  ASSUME IInv, NEW dev \in Device, Remove(dev)
  PROVE  IInv'
<1> DEFINE k == FindPairing(flash, dev)
<1>1. /\ op.call = "idle" /\ UNCHANGED <<op, doubled>> /\ lost' = lost \ {dev}
      /\ k \in SlotIdx /\ Holds(flash, k, dev)
      /\ flash' = ClearSlot(flash, k)
      /\ promised' = [promised EXCEPT ![dev] = none]
  BY PairingFound DEF Remove, Idle
<1> HIDE DEF k
<1>2. /\ flash' \in Sector
      /\ \A i \in SlotIdx : flash'.slot[i] = IF i = k THEN Cleared ELSE flash.slot[i]
      /\ \A i \in SlotIdx, d \in Device :
           Holds(flash', i, d) <=> i # k /\ Holds(flash, i, d)
      /\ Cleared # Garbage
  BY <1>1, SlotCleared DEF IInv, TypeOK
<1>3. \A d \in Device : promised'[d] = (IF d = dev THEN none ELSE promised[d])
      /\ promised' \in [Device -> Perm \cup {none}]
  BY <1>1 DEF IInv, TypeOK
<1>4. \A d \in Device : d # dev => ~Holds(flash, k, d)
  BY <1>1 DEF Holds
<1>5. TypeOK' /\ NoGarbage'
  BY <1>1, <1>2, <1>3 DEF IInv, TypeOK, NoGarbage
<1>9. flash'.magic = flash.magic /\ flash'.ident = flash.ident
  BY <1>1, MagicKept DEF IInv, TypeOK
<1>6. AfterErase' /\ FoundBefore' /\ BetweenHalves'
  BY <1>1 DEF AfterErase, FoundBefore, BetweenHalves, Moving
<1>10. Magic' /\ AtRisk'
  BY <1>1, <1>3, <1>9 DEF IInv, Records, Magic, AtRisk, Kept, Lapsed, Adding
<1>7. Single'
  BY <1>1, <1>2 DEF IInv, Records, Single, Moving
<1>8. Promises'
  <2> SUFFICES ASSUME NEW d \in Device \ (doubled \cup (lost \ {dev})), Kept
               PROVE  Agrees(d)'
    BY <1>1, <1>9 DEF Promises, Kept
  <2>1. \A i, j \in SlotIdx : Holds(flash, i, d) /\ Holds(flash, j, d) => i = j
    BY <1>1 DEF IInv, Records, Single, Moving
  <2>2. CASE d = dev
    BY <1>1, <1>2, <1>3, <2>1, <2>2 DEF Agrees
  <2>3. CASE d # dev
    <3>1. Agrees(d)
      BY <1>1, <2>3 DEF IInv, Records, Promises, Moving
    <3> QED BY <1>1, <1>2, <1>3, <1>4, <2>3, <3>1 DEF Agrees
  <2> QED BY <2>2, <2>3
<1> QED BY <1>5, <1>6, <1>7, <1>8, <1>10 DEF IInv, Records

LEMMA ResetInv ==
  ASSUME IInv, Reset
  PROVE  IInv'
<1>1. /\ op' = [call |-> "reset", at |-> "zeroMagic"] /\ op.call = "idle"
      /\ promised' = [d \in Device |-> none] /\ lost' = {}
      /\ UNCHANGED <<flash, doubled>>
  BY DEF Reset, Idle
<1>2. op' \in Ops
  BY <1>1 DEF Ops
<1>3. TypeOK' /\ NoGarbage'
  BY <1>1, <1>2 DEF IInv, TypeOK, NoGarbage
<1>4. Records'
  <2>1. op'.call = "reset" /\ op'.at = "zeroMagic" /\ Lapsed'
    BY <1>1 DEF Lapsed
  <2>2. AfterErase' /\ Magic' /\ AtRisk' /\ FoundBefore' /\ BetweenHalves' /\ Promises'
    BY <2>1 DEF AfterErase, Magic, AtRisk, FoundBefore, BetweenHalves, Promises, Moving, Adding
  <2>3. Single'
    BY <1>1, <2>1 DEF IInv, Records, Single, Moving
  <2> QED BY <2>2, <2>3 DEF Records
<1> QED BY <1>3, <1>4 DEF IInv

\* The record goes into an erased slot: the one found at first or that after a compaction.
LEMMA WriteInv ==
  ASSUME IInv, Adding, op.at \in {"find", "retry"}, NEW k \in SlotIdx,
         flash.slot[k] = Erased, WriteIn(k)
  PROVE  IInv'
<1>1. op \in Ops /\ flash \in Sector /\ op.dev \in Device /\ op.perm \in Perm
  BY OpFields DEF IInv, TypeOK
<1>2. /\ flash' \in Sector
      /\ Holds(flash', k, op.dev) /\ flash'.slot[k].perm = op.perm /\ flash'.slot[k] # Garbage
      /\ \A i \in SlotIdx : i # k => flash'.slot[i] = flash.slot[i]
      /\ \A i \in SlotIdx, d \in Device :
           Holds(flash', i, d) <=> (i = k /\ d = op.dev) \/ (i # k /\ Holds(flash, i, d))
      /\ \A d \in Device : ~Holds(flash, k, d)
  BY <1>1, SlotWritten DEF WriteIn
<1>3. \A i \in SlotIdx, d \in Device : op.at = "retry" => ~Holds(flash, i, d)
  BY BlankHolds DEF IInv, Records, AfterErase, Adding
<1>4. NoGarbage' /\ UNCHANGED doubled
  BY <1>2 DEF IInv, NoGarbage, WriteIn
<1>7. flash'.magic = flash.magic /\ flash'.ident = flash.ident
  BY <1>1, MagicKept DEF WriteIn
<1>8. op.at = "retry" => flash.ident = "none"
  BY DEF IInv, Records, AfterErase, Adding
<1>9. flash.magic
  BY DEF IInv, Records, Magic
<1>10. flash.ident = "none" => Lapsed
  BY DEF IInv, Records, AtRisk, Kept
<1>11. flash.ident # "none" => Kept /\ op.at = "find"
  BY <1>8, <1>9 DEF Kept
<1>5. CASE op.call = "add"
  <2>1. /\ op' = Idle /\ promised' = [promised EXCEPT ![op.dev] = op.perm]
        /\ lost' = IF flash.ident = "none" THEN lost \cup {op.dev} ELSE lost \ {op.dev}
    BY <1>5 DEF WriteIn, Return
  <2>2. promised' \in [Device -> Perm \cup {none}]
        /\ \A d \in Device : promised'[d] = IF d = op.dev THEN op.perm ELSE promised[d]
    BY <1>1, <2>1 DEF IInv, TypeOK
  <2>3. op'.call = "idle" /\ op' \in Ops
    BY <2>1 DEF Idle, Ops
  <2>4. \A d \in Device \ doubled : ~Moving(d) /\ ~Moving(d)'
    BY <1>5, <2>3 DEF Moving
  <2>5. op.dev \notin doubled => \A i \in SlotIdx : ~Holds(flash, i, op.dev)
    BY <1>1, <1>3, <1>5 DEF IInv, Records, FoundBefore
  <2>6. AfterErase' /\ FoundBefore' /\ BetweenHalves'
    BY <2>3 DEF AfterErase, FoundBefore, BetweenHalves, Moving
  <2>9. Magic' /\ AtRisk'
    BY <1>1, <1>7, <1>8, <1>9, <1>10, <2>1, <2>2, <2>3
       DEF Magic, AtRisk, Kept, Lapsed, Adding
  <2>7. Single'
    <3> SUFFICES ASSUME NEW d \in Device \ doubled, NEW i \in SlotIdx, NEW j \in SlotIdx,
                        Holds(flash', i, d), Holds(flash', j, d)
                 PROVE  i = j
      BY <1>4 DEF Single
    <3>1. CASE d = op.dev
      BY <1>2, <2>5, <3>1
    <3>2. CASE d # op.dev
      BY <1>2, <2>4, <3>2 DEF IInv, Records, Single
    <3> QED BY <3>1, <3>2
  <2>8. Promises'
    <3> SUFFICES ASSUME NEW d \in Device \ (doubled \cup (lost \ {op.dev})), Kept
                 PROVE  Agrees(d)'
      BY <1>4, <1>7, <2>1 DEF Promises, Kept
    <3>2. CASE d = op.dev
      BY <1>2, <2>2, <2>5, <3>2 DEF Agrees
    <3>3. CASE d # op.dev
      <4>1. Agrees(d)
        BY <1>5, <2>4, <3>3 DEF IInv, Records, Promises
      <4> QED BY <1>2, <2>2, <3>3, <4>1 DEF Agrees
    <3> QED BY <3>2, <3>3
  <2>10. lost' \subseteq Device
    BY <1>1, <2>1 DEF IInv, TypeOK
  <2> QED BY <1>2, <1>4, <2>2, <2>3, <2>6, <2>7, <2>8, <2>9, <2>10 DEF IInv, Records, TypeOK
<1>6. CASE op.call = "update"
  <2>1. Goto("clear") /\ UNCHANGED <<promised, lost>>
    BY <1>6 DEF WriteIn
  <2>2. /\ op' \in Ops /\ op'.call = "update" /\ op'.at = "clear"
        /\ op'.dev = op.dev /\ op'.perm = op.perm /\ op'.old = op.old
    BY <1>1, <1>6, <2>1, GotoFields DEF Places, Adding
  <2>3. \A d \in Device \ doubled : ~Moving(d) /\ (Moving(d)' <=> d = op.dev)
    BY <1>1, <2>2 DEF Moving
  <2>4. \A d \in Device \ doubled : \A i, j \in SlotIdx :
          Holds(flash, i, d) /\ Holds(flash, j, d) => i = j
    BY <2>3 DEF IInv, Records, Single
  <2>5. AfterErase'
    BY <2>2 DEF AfterErase
  <2>9. FoundBefore'
    <3>2. op.at = "find" => Holds(flash, op.old, op.dev)
      BY <1>6 DEF IInv, Records, FoundBefore
    <3>3. op.old \in SlotIdx
      BY <1>1, <1>6, OpFields
    <3>4. flash.ident # "none" => Holds(flash', op.old, op.dev)
      BY <1>1, <1>2, <1>11, <3>2, <3>3
    <3> QED BY <1>4, <1>7, <2>2, <3>4 DEF FoundBefore
  <2>10. Magic' /\ AtRisk'
    <3>1. flash'.magic
      BY <1>7, <1>9
    <3> QED BY <1>7, <1>10, <2>1, <2>2, <3>1 DEF Magic, AtRisk, Kept, Lapsed
  <2>6. Single'
    BY <1>2, <1>4, <2>3, <2>4 DEF Single
  <2>7. Promises'
    <3> SUFFICES ASSUME NEW d \in Device \ (doubled \cup lost), Kept, d # op.dev
                 PROVE  Agrees(d)'
      BY <1>4, <1>7, <2>1, <2>3 DEF Promises, Kept
    <3>1. Agrees(d)
      BY <1>6, <2>3 DEF IInv, Records, Promises
    <3> QED BY <1>2, <2>1, <3>1 DEF Agrees
  <2>8. BetweenHalves'
    <3> SUFFICES ASSUME NEW d \in Device \ doubled, d = op.dev
                 PROVE  TwoOf(d, k)'
      BY <1>1, <1>4, <2>3 DEF BetweenHalves
    <3>1. op.old \in SlotIdx
      BY <1>1, <1>6, OpFields
    <3>2. CASE op.at = "find"
      <4>1. Holds(flash, op.old, op.dev)
        BY <1>6, <3>2 DEF IInv, Records, FoundBefore
      <4>2. flash.ident # "none" /\ d \notin lost => flash.slot[op.old].perm = promised[op.dev]
        <5>1. flash.ident # "none" /\ d \notin lost => Agrees(d)
          BY <1>6, <1>11, <2>3 DEF IInv, Records, Promises
        <5> QED BY <3>1, <4>1, <5>1 DEF Agrees
      <4> QED BY <1>1, <1>2, <1>4, <1>7, <2>1, <2>2, <2>4, <3>1, <4>1, <4>2 DEF TwoOf
    <3>3. CASE op.at = "retry"
      <4> QED BY <1>1, <1>2, <1>3, <1>4, <1>7, <1>8, <2>2, <3>3 DEF TwoOf
    <3> QED BY <3>2, <3>3
  <2> QED BY <1>2, <1>4, <2>1, <2>2, <2>5, <2>6, <2>7, <2>8, <2>9, <2>10
          DEF IInv, Records, TypeOK
<1> QED BY <1>5, <1>6 DEF Adding

\* A step within a call or a start leaves the slots as they are: it goes on to the place
\* at, restores or erases the magic, or writes the id.
LEMMA GoOnInv ==
  ASSUME IInv, NEW at, Goto(at), op.call # "idle",
         Adding => at \in Places \ (IF op.call = "add" THEN {"clear"} ELSE {}),
         op.call = "reset" => at \in {"zeroMagic", "erase", "magic"},
         op.call = "boot" => at \in {"init", "magic", "newId", "newKey"},
         flash' \in Sector, flash'.slot = flash.slot,
         op.at # "clear", at \notin {"clear", "find"},
         op.call # "boot" /\ at \in {"magic", "retry"} => op.at \in {"magic", "retry"},
         op.call = "boot" /\ at # "init" => op.at \in {"magic", "newId"},
         op.call = "boot" => at \in {"newId", "newKey"} /\ flash'.magic,
         Adding /\ at = "retry" => flash'.magic,
         at # "newKey" => flash'.ident = flash.ident, at = "newId" => op.at = "magic",
         UNCHANGED <<promised, doubled>>, lost \subseteq lost', lost' \subseteq Device,
         AtRisk', Kept' => Kept \/ (Blank(flash) /\ Lapsed)
  PROVE  IInv'
<1>1. op' \in Ops /\ op'.call = op.call /\ op'.at = at
      /\ (Adding => op'.dev = op.dev /\ op'.perm = op.perm /\ op'.old = op.old)
  BY GotoFields DEF IInv, TypeOK
<1>2. TypeOK' /\ NoGarbage'
  BY <1>1 DEF IInv, TypeOK, NoGarbage
<1>3. \A i \in SlotIdx, d \in Device : Holds(flash', i, d) <=> Holds(flash, i, d)
  BY DEF Holds, HasRecord
<1>4. \A d \in Device : ~Moving(d) /\ ~Moving(d)'
  BY <1>1 DEF Moving
<1>5. op.call \in {"add", "update", "reset", "boot"}
  BY OpFields DEF IInv, TypeOK
<1>6. AfterErase'
  BY <1>1, <1>5 DEF IInv, Records, AfterErase, Blank
<1>7. FoundBefore' /\ BetweenHalves' /\ Magic'
  BY <1>1, <1>4, <1>5 DEF FoundBefore, BetweenHalves, Magic, Adding
<1>8. Single'
  BY <1>1, <1>3, <1>4 DEF IInv, Records, Single
<1>9. Promises'
  <2> SUFFICES ASSUME NEW d \in Device \ (doubled \cup lost'), Kept', op.call # "reset"
               PROVE  Agrees(d)'
    BY <1>1 DEF Promises
  <2>1. CASE Kept
    BY <1>3, <1>4, <2>1 DEF IInv, Records, Promises, Agrees
  <2>2. CASE Blank(flash) /\ Lapsed
    BY <1>3, <2>2, BlankHolds DEF Lapsed, Agrees
  <2> QED BY <2>1, <2>2
<1> QED BY <1>2, <1>6, <1>7, <1>8, <1>9 DEF IInv, Records

\* A call that fails, and a start that finds the identity, end without a change.
LEMMA EndInv ==
  ASSUME IInv, op' = Idle, op.call \in {"add", "update", "boot"}, op.at # "clear",
         flash.magic, UNCHANGED <<flash, promised, doubled, lost>>
  PROVE  IInv'
<1>1. op' \in Ops /\ op'.call = "idle"
  BY DEF Ops, Idle
<1>2. TypeOK' /\ NoGarbage'
  BY <1>1 DEF IInv, TypeOK, NoGarbage
<1>3. \A d \in Device : ~Moving(d) /\ ~Moving(d)'
  BY <1>1 DEF Moving
<1>4. Records'
  BY <1>1, <1>3
     DEF IInv, Records, AfterErase, Magic, AtRisk, Kept, Lapsed, FoundBefore, Single,
         BetweenHalves, Promises, Agrees
<1> QED BY <1>2, <1>4 DEF IInv

LEMMA EraseInv ==
  ASSUME IInv, EraseSector
  PROVE  IInv'
<1>1. /\ op.call # "idle" /\ op.at = "erase" /\ flash' = ErasedSector
      /\ Goto("magic") /\ UNCHANGED <<promised, doubled, lost>>
  BY DEF EraseSector
<1>2. op.call \in {"add", "update", "reset"} /\ op \in Ops
  <2>1. op \in Ops
    BY DEF IInv, TypeOK
  <2>2. op.call # "boot"
    BY <1>1, <2>1 DEF Ops, Idle, Places
  <2> QED BY <1>1, <2>1, <2>2, OpFields
<1>3. op' \in Ops /\ op'.call = op.call /\ op'.at = "magic"
  BY <1>1, <1>2, GotoFields DEF Places
<1>4. flash' \in Sector /\ Blank(flash') /\ flash'.ident = "none"
  BY <1>1, ErasedIsBlank DEF ErasedSector
<1>5. TypeOK' /\ NoGarbage'
  BY <1>1, <1>3, <1>4, BlankHolds DEF IInv, TypeOK, NoGarbage
<1>6. Lapsed /\ Lapsed'
  BY <1>1 DEF IInv, Records, AtRisk, Lapsed
<1>7. AfterErase' /\ Magic' /\ AtRisk'
  BY <1>2, <1>3, <1>4, <1>6 DEF AfterErase, Magic, AtRisk, Adding
<1>8. FoundBefore' /\ Single' /\ BetweenHalves' /\ Promises'
  BY <1>1, <1>2, <1>3, <1>4, BlankHolds
     DEF FoundBefore, Single, BetweenHalves, Promises, Kept, Moving
<1> QED BY <1>5, <1>7, <1>8 DEF IInv, Records

\* The second half of an update leaves the new record alone.
LEMMA ClearOldInv ==
  ASSUME IInv, ClearOld
  PROVE  IInv'
<1>1. /\ Adding /\ op.at = "clear" /\ op' = Idle
      /\ flash' = ClearSlot(flash, op.old)
      /\ promised' = [promised EXCEPT ![op.dev] = op.perm]
      /\ lost' = IF flash.ident = "none" THEN lost \cup {op.dev} ELSE lost \ {op.dev}
      /\ UNCHANGED doubled
  BY DEF ClearOld, Return
<1>2. op.call = "update" /\ op.dev \in Device /\ op.perm \in Perm /\ op.old \in SlotIdx
  BY <1>1, OpFields DEF IInv, TypeOK, Adding
<1>3. /\ flash' \in Sector
      /\ \A i \in SlotIdx : flash'.slot[i] = IF i = op.old THEN Cleared ELSE flash.slot[i]
      /\ \A i \in SlotIdx, d \in Device :
           Holds(flash', i, d) <=> i # op.old /\ Holds(flash, i, d)
      /\ Cleared # Garbage
  BY <1>1, <1>2, SlotCleared DEF IInv, TypeOK
<1>4. promised' \in [Device -> Perm \cup {none}]
      /\ \A d \in Device : promised'[d] = IF d = op.dev THEN op.perm ELSE promised[d]
  BY <1>1, <1>2 DEF IInv, TypeOK
<1>5. op' \in Ops /\ op'.call = "idle"
  BY <1>1 DEF Ops, Idle
<1>12. flash'.magic = flash.magic /\ flash'.ident = flash.ident
  BY <1>1, MagicKept DEF IInv, TypeOK
<1>13. flash.magic
  BY <1>1 DEF IInv, Records, Magic
<1>6. TypeOK' /\ NoGarbage'
  BY <1>1, <1>2, <1>3, <1>4, <1>5 DEF IInv, TypeOK, NoGarbage
<1>14. Magic' /\ AtRisk'
  BY <1>1, <1>2, <1>4, <1>5, <1>12, <1>13
     DEF IInv, Records, Magic, AtRisk, Kept, Lapsed, Adding
<1>7. \A d \in Device : (Moving(d) <=> d = op.dev) /\ ~Moving(d)'
  BY <1>1, <1>2, <1>5 DEF Moving
<1>8. AfterErase' /\ FoundBefore' /\ BetweenHalves'
  BY <1>5, <1>7 DEF AfterErase, FoundBefore, BetweenHalves
<1>9. ASSUME NEW d \in Device \ doubled, d = op.dev
      PROVE  \E n \in SlotIdx : TwoOf(d, n)
  BY <1>7, <1>9 DEF IInv, Records, BetweenHalves
<1>10. Single'
  <2> SUFFICES ASSUME NEW d \in Device \ doubled, NEW i \in SlotIdx, NEW j \in SlotIdx,
                      Holds(flash', i, d), Holds(flash', j, d)
               PROVE  i = j
    BY <1>1 DEF Single
  <2>1. CASE d = op.dev
    BY <1>3, <1>9, <2>1 DEF TwoOf
  <2>2. CASE d # op.dev
    BY <1>3, <1>7, <2>2 DEF IInv, Records, Single
  <2> QED BY <2>1, <2>2
<1>11. Promises'
  <2> SUFFICES ASSUME NEW d \in Device \ (doubled \cup (lost \ {op.dev})), Kept
               PROVE  Agrees(d)'
    BY <1>1, <1>12 DEF Promises, Kept
  <2>0. flash.ident # "none"
    BY DEF Kept
  <2>1. CASE d = op.dev
    <3>1. PICK n \in SlotIdx : TwoOf(d, n)
      BY <1>9, <2>1
    <3>2. Holds(flash', n, d) /\ flash'.slot[n].perm = op.perm
          /\ \A i \in SlotIdx : Holds(flash', i, d) => i = n
      BY <1>3, <2>0, <3>1 DEF TwoOf
    <3> QED BY <1>4, <2>0, <2>1, <3>2 DEF Agrees
  <2>2. CASE d # op.dev
    <3>1. Agrees(d)
      BY <1>2, <1>7, <2>2 DEF IInv, Records, Promises
    <3>2. ~Holds(flash, op.old, d)
      <4>1. Holds(flash, op.old, op.dev)
        BY <1>1, <1>2, <2>0 DEF IInv, Records, FoundBefore
      <4> QED BY <2>2, <4>1 DEF Holds
    <3> QED BY <1>3, <1>4, <2>2, <3>1, <3>2 DEF Agrees
  <2> QED BY <2>1, <2>2
<1> QED BY <1>6, <1>8, <1>10, <1>11, <1>14 DEF IInv, Records

\* A record is found an erased slot, at the first look or after a compaction.
LEMMA FindBlocksInv ==
  ASSUME IInv, FindBlock \/ FindBlockAgain
  PROVE  IInv'
<1>1. /\ Adding /\ op.at \in {"find", "retry"}
      /\ FindEmptyBlock(flash) \in SlotIdx /\ flash.slot[FindEmptyBlock(flash)] = Erased
      /\ WriteIn(FindEmptyBlock(flash))
  BY EmptyBlockFound DEF FindBlock, FindBlockAgain
<1> QED BY <1>1, WriteInv

\* A reset, by a command or by a compaction, before and after it erases the sector.
LEMMA ResetStepsInv ==
  ASSUME IInv, CompactBegin \/ ZeroMagic \/ WriteMagic
  PROVE  IInv'
<1>1. op \in Ops /\ flash \in Sector
  BY DEF IInv, TypeOK
<1>2. CASE CompactBegin
  <2>1. /\ op.call \in {"add", "update"} /\ op.at = "find" /\ Goto("zeroMagic")
        /\ UNCHANGED <<flash, promised, doubled, lost>>
    BY <1>2 DEF CompactBegin, Adding
  <2>2. AtRisk'
    <3>1. op'.call = op.call /\ op'.at = "zeroMagic"
      BY <1>1, <2>1, GotoFields DEF Places
    <3> QED BY <2>1, <3>1 DEF IInv, Records, AtRisk, Kept, Lapsed
  <2>3. (Kept' => Kept) /\ lost \subseteq Device
    BY <2>1 DEF Kept, IInv, TypeOK
  <2> QED BY <1>1, <2>1, <2>2, <2>3, GoOnInv DEF Places
<1>3. CASE ZeroMagic
  <2>1. /\ op.call # "idle" /\ op.at = "zeroMagic" /\ Goto("erase")
        /\ flash' = [flash EXCEPT !.magic = FALSE]
        /\ lost' = IF Adding THEN lost \cup {d \in Device : promised[d] # none} ELSE lost
        /\ UNCHANGED <<promised, doubled>>
    BY <1>3 DEF ZeroMagic
  <2>2. op.call # "boot"
    BY <1>1, <2>1 DEF Ops, Idle, Places
  <2>3. AtRisk' /\ lost \subseteq lost' /\ lost' \subseteq Device
    <3>1. lost \subseteq Device
      BY DEF IInv, TypeOK
    <3>2. Lapsed'
      <4>1. CASE Adding
        BY <2>1, <4>1 DEF Lapsed
      <4>2. CASE ~Adding
        <5>1. op.call = "reset"
          BY <1>1, <2>1, <2>2, <4>2, OpFields DEF Adding
        <5> QED BY <2>1, <4>2, <5>1 DEF IInv, Records, AtRisk, Lapsed
      <4> QED BY <4>1, <4>2
    <3> QED BY <2>1, <3>1, <3>2 DEF AtRisk
  <2>4. flash'.magic = FALSE /\ flash'.ident = flash.ident
    BY <1>1, <2>1 DEF Sector
  <2>5. ~Kept'
    BY <2>4 DEF Kept
  <2> QED BY <1>1, <2>1, <2>2, <2>3, <2>4, <2>5, SlotsKept, GoOnInv DEF Places
<1>4. CASE WriteMagic
  <2>1. /\ op.call \in {"add", "update"} /\ op.at = "magic" /\ Goto("retry")
        /\ flash' = [flash EXCEPT !.magic = TRUE]
        /\ UNCHANGED <<promised, doubled, lost>>
    BY <1>4 DEF WriteMagic, Adding
  <2>2. flash'.magic /\ flash'.ident = flash.ident /\ flash.ident = "none"
    BY <1>1, <2>1 DEF Sector, IInv, Records, AfterErase
  <2>3. ~Kept' /\ AtRisk' /\ lost \subseteq Device
    <3>1. Lapsed'
      BY <2>1 DEF IInv, Records, AtRisk, Lapsed
    <3>2. ~Kept' /\ lost \subseteq Device
      BY <2>2 DEF Kept, IInv, TypeOK
    <3> QED BY <3>1, <3>2 DEF AtRisk
  <2> QED BY <1>1, <2>1, <2>2, <2>3, SlotsKept, GoOnInv DEF Places
<1> QED BY <1>2, <1>3, <1>4

LEMMA ResetDoneInv ==
  ASSUME IInv, ResetDone
  PROVE  IInv'
<1>1. /\ op.call = "reset" /\ op.at = "magic"
      /\ op' = [call |-> "boot", at |-> "init"]
      /\ flash' = [flash EXCEPT !.magic = TRUE]
      /\ UNCHANGED <<promised, doubled, lost>>
  BY DEF ResetDone
<1>2. op' \in Ops /\ op'.call = "boot" /\ op'.at = "init"
  BY <1>1 DEF Ops
<1>3. flash' \in Sector /\ flash'.slot = flash.slot
  BY <1>1, SlotsKept DEF IInv, TypeOK
<1>4. TypeOK' /\ NoGarbage'
  BY <1>1, <1>2, <1>3 DEF IInv, TypeOK, NoGarbage
<1>5. \A i \in SlotIdx, d \in Device : Holds(flash', i, d) <=> Holds(flash, i, d)
  BY <1>3 DEF Holds, HasRecord
<1>6. ~Kept' /\ Lapsed'
  <2>1. flash.ident = "none" /\ Lapsed
    BY <1>1 DEF IInv, Records, AfterErase, AtRisk
  <2>2. flash'.ident = flash.ident
    BY <1>1 DEF IInv, TypeOK, Sector
  <2> QED BY <1>1, <2>1, <2>2 DEF Kept, Lapsed
<1>7. \A d \in Device : ~Moving(d) /\ ~Moving(d)'
  BY <1>1, <1>2 DEF Moving
<1>8. AfterErase' /\ Magic' /\ AtRisk' /\ FoundBefore' /\ BetweenHalves' /\ Promises'
  BY <1>2, <1>6, <1>7
     DEF AfterErase, Magic, AtRisk, FoundBefore, BetweenHalves, Promises, Adding
<1>9. Single'
  BY <1>1, <1>5, <1>7 DEF IInv, Records, Single
<1> QED BY <1>4, <1>8, <1>9 DEF IInv, Records

-----------------------------------------------------------------------------
(* Loss of power, and the start.                                            *)

LEMMA RestartInv ==
  ASSUME IInv, Restart
  PROVE  IInv'
<1>1. /\ op' = [call |-> "boot", at |-> "init"] /\ UNCHANGED <<flash, lost>>
      /\ promised' = [d \in Device |->
           IF op.call = "reset" \/ (Adding /\ op.dev = d) THEN StartPerm(d) ELSE promised[d]]
      /\ doubled' = IF Adding /\ op.at = "clear" THEN doubled \cup {op.dev} ELSE doubled
  BY DEF Restart
<1>2. op' \in Ops /\ op'.call = "boot" /\ op'.at = "init"
  BY <1>1 DEF Ops
<1>3. doubled' \subseteq Device /\ doubled \subseteq doubled'
  BY <1>1, OpFields DEF IInv, TypeOK
<1>4. \A d \in Device : PermOf(flash, d) \in Perm \cup {none}
  <2> SUFFICES ASSUME NEW d \in Device
               PROVE  PermOf(flash, d) \in Perm \cup {none}
    OBVIOUS
  <2>1. flash.slot \in [SlotIdx -> Slot]
    BY DEF IInv, TypeOK, Sector
  <2>2. ASSUME NEW i \in SlotIdx, Holds(flash, i, d)
        PROVE  flash.slot[i].perm \in Perm
    BY <2>1, <2>2 DEF Slot, Holds, HasRecord, NoRecord, Erased, Cleared, Garbage
  <2> QED BY <2>2, PairingFound DEF PermOf
<1>5. promised' \in [Device -> Perm \cup {none}]
  BY <1>1, <1>4 DEF IInv, TypeOK, StartPerm
<1>6. TypeOK' /\ NoGarbage'
  BY <1>1, <1>2, <1>3, <1>5 DEF IInv, TypeOK, NoGarbage
<1>7. \A d \in Device \ doubled' : ~Moving(d)
  BY <1>1 DEF Moving, Adding
<1>8. \A d \in Device \ doubled' : \A i, j \in SlotIdx :
        Holds(flash, i, d) /\ Holds(flash, j, d) => i = j
  BY <1>3, <1>7 DEF IInv, Records, Single
<1>9. AfterErase' /\ Magic' /\ FoundBefore' /\ BetweenHalves'
  BY <1>2 DEF AfterErase, Magic, FoundBefore, BetweenHalves, Moving, Adding
<1>12. AtRisk'
  <2> SUFFICES ASSUME ~Kept PROVE Lapsed'
    BY <1>1, <1>2 DEF AtRisk, Kept
  <2>1. \A d \in Device : StartPerm(d) = none
    BY DEF StartPerm, Kept
  <2> QED BY <1>1, <2>1 DEF IInv, Records, AtRisk, Lapsed
<1>10. Single'
  BY <1>1, <1>8 DEF Single
<1>11. Promises'
  <2> SUFFICES ASSUME NEW d \in Device \ (doubled' \cup lost), Kept
               PROVE  Agrees(d)'
    BY <1>1 DEF Promises, Kept
  <2>1. CASE op.call = "reset" \/ (Adding /\ op.dev = d)
    <3>1. promised'[d] = PermOf(flash, d)
      BY <1>1, <2>1 DEF StartPerm, Kept
    <3>2. /\ \A i \in SlotIdx : Holds(flash, i, d) => PermOf(flash, d) = flash.slot[i].perm
          /\ (\A i \in SlotIdx : ~Holds(flash, i, d)) => PermOf(flash, d) = none
      BY <1>8, PermOfSingle
    <3> QED BY <1>1, <3>1, <3>2 DEF Agrees
  <2>2. CASE ~(op.call = "reset" \/ (Adding /\ op.dev = d))
    <3>1. Agrees(d)
      BY <1>3, <1>7, <2>2 DEF IInv, Records, Promises
    <3>2. promised'[d] = promised[d]
      BY <1>1, <2>2
    <3> QED BY <1>1, <3>1, <3>2 DEF Agrees
  <2> QED BY <2>1, <2>2
<1> QED BY <1>6, <1>9, <1>10, <1>11, <1>12 DEF IInv, Records

\* A start that finds no magic erases the sector: what was promised is at risk already.
LEMMA BootFormatInv ==
  ASSUME IInv, BootFormat
  PROVE  IInv'
<1>1. /\ op.call = "boot" /\ op.at = "init" /\ flash' = ErasedSector /\ Goto("magic")
      /\ doubled' = {} /\ UNCHANGED <<promised, lost>> /\ ~flash.magic
  BY DEF BootFormat, Booting
<1>2. op' \in Ops /\ op'.call = "boot" /\ op'.at = "magic"
  BY <1>1, GotoFields DEF IInv, TypeOK, Adding
<1>3. flash' \in Sector /\ Blank(flash')
      /\ \A i \in SlotIdx, d \in Device : ~Holds(flash', i, d) /\ flash'.slot[i] # Garbage
  BY <1>1, ErasedIsBlank, BlankHolds
<1>4. Lapsed' /\ ~Kept' /\ flash'.ident = "none"
  BY <1>1 DEF IInv, Records, AtRisk, Kept, Lapsed, ErasedSector
<1>5. TypeOK'
  BY <1>1, <1>2, <1>3 DEF IInv, TypeOK
<1>6. NoGarbage'
  BY <1>3 DEF NoGarbage, Blank, Erased, Garbage, NoRecord
<1>7. \A d \in Device : ~Moving(d)'
  BY <1>2 DEF Moving
<1>8. AfterErase' /\ Magic' /\ AtRisk' /\ FoundBefore' /\ BetweenHalves' /\ Promises'
  BY <1>2, <1>3, <1>4, <1>7
     DEF AfterErase, Magic, AtRisk, FoundBefore, BetweenHalves, Promises, Adding
<1>9. Single'
  BY <1>3 DEF Single
<1> QED BY <1>5, <1>6, <1>8, <1>9 DEF IInv, Records

\* The start goes on to a new identity, or takes the magic away for one.
LEMMA BootStepsInv ==
  ASSUME IInv, BootMagic \/ BootReset \/ BootSaveId
  PROVE  IInv'
<1>1. op \in Ops /\ flash \in Sector
  BY DEF IInv, TypeOK
<1>2. CASE BootMagic
  <2>1. /\ op.call = "boot" /\ op.at = "magic" /\ Goto("newId")
        /\ flash' = [flash EXCEPT !.magic = TRUE]
        /\ UNCHANGED <<promised, doubled, lost>>
    BY <1>2 DEF BootMagic, Booting
  <2>2. flash'.magic /\ flash'.ident = flash.ident /\ flash.ident = "none" /\ Lapsed
    BY <1>1, <2>1 DEF Sector, IInv, Records, AfterErase, AtRisk
  <2>3. ~Kept' /\ AtRisk' /\ lost \subseteq Device
    BY <2>1, <2>2 DEF Kept, AtRisk, Lapsed, IInv, TypeOK
  <2> QED BY <1>1, <2>1, <2>2, <2>3, SlotsKept, GoOnInv DEF Adding
<1>3. CASE BootReset
  <2>1. /\ op.call = "boot" /\ op.at = "init" /\ op' = op
        /\ flash' = [flash EXCEPT !.magic = FALSE] /\ flash.ident = "none"
        /\ UNCHANGED <<promised, doubled, lost>>
    BY <1>3 DEF BootReset, Booting
  <2>2. flash' \in Sector /\ flash'.slot = flash.slot
    BY <1>1, <2>1, SlotsKept
  <2>3. \A i \in SlotIdx, d \in Device : Holds(flash', i, d) <=> Holds(flash, i, d)
    BY <2>2 DEF Holds, HasRecord
  <2>4. TypeOK' /\ NoGarbage'
    BY <2>1, <2>2 DEF IInv, TypeOK, NoGarbage
  <2>5. op'.call = "boot" /\ op'.at = "init" /\ \A d \in Device : ~Moving(d) /\ ~Moving(d)'
    BY <2>1 DEF Moving
  <2>8. ~Kept' /\ Lapsed'
    <3>1. flash'.magic = FALSE
      BY <1>1, <2>1 DEF Sector
    <3>2. Lapsed
      BY <2>1 DEF IInv, Records, AtRisk, Kept
    <3> QED BY <2>1, <3>1, <3>2 DEF Kept, Lapsed
  <2>6. AfterErase' /\ Magic' /\ AtRisk' /\ FoundBefore' /\ BetweenHalves' /\ Promises'
    BY <2>5, <2>8 DEF AfterErase, Magic, AtRisk, FoundBefore, BetweenHalves, Promises, Adding
  <2>7. Single'
    BY <2>1, <2>3, <2>5 DEF IInv, Records, Single
  <2> QED BY <2>4, <2>6, <2>7 DEF IInv, Records
<1>4. CASE BootSaveId
  <2>1. /\ op.call = "boot" /\ op.at = "newId" /\ Goto("newKey")
        /\ flash' = [flash EXCEPT !.ident = "id"]
        /\ UNCHANGED <<promised, doubled, lost>>
    BY <1>4 DEF BootSaveId, Booting
  <2>2. flash'.magic /\ Lapsed /\ Blank(flash)
    BY <1>1, <2>1 DEF Sector, IInv, Records, AfterErase, AtRisk, Magic
  <2>3. AtRisk' /\ lost \subseteq Device
    BY <2>1, <2>2 DEF AtRisk, Lapsed, IInv, TypeOK
  <2> QED BY <1>1, <2>1, <2>2, <2>3, SlotsKept, GoOnInv DEF Adding
<1> QED BY <1>2, <1>3, <1>4

\* The start ends with a sector that has the identity and no record.
LEMMA BootSaveKeyInv ==
  ASSUME IInv, BootSaveKey
  PROVE  IInv'
<1>1. /\ op.call = "boot" /\ op.at = "newKey" /\ op' = Idle
      /\ flash' = [flash EXCEPT !.ident = "both"]
      /\ UNCHANGED <<promised, doubled, lost>>
  BY DEF BootSaveKey, Booting
<1>2. op' \in Ops /\ op'.call = "idle"
  BY <1>1 DEF Ops, Idle
<1>3. Blank(flash) /\ Lapsed /\ flash.magic
  BY <1>1 DEF IInv, Records, AfterErase, AtRisk, Magic
<1>4. flash' \in Sector /\ flash'.slot = flash.slot /\ flash'.magic = flash.magic
  BY <1>1, SlotsKept DEF IInv, TypeOK, Sector
<1>5. Blank(flash')
  BY <1>3, <1>4 DEF Blank
<1>6. \A i \in SlotIdx, d \in Device : ~Holds(flash', i, d) /\ flash'.slot[i] # Garbage
  BY <1>5, BlankHolds
<1>7. TypeOK' /\ NoGarbage'
  BY <1>1, <1>2, <1>4, <1>6 DEF IInv, TypeOK, NoGarbage
<1>8. AfterErase' /\ Magic' /\ AtRisk' /\ FoundBefore' /\ BetweenHalves'
  BY <1>1, <1>2, <1>3, <1>4
     DEF AfterErase, Magic, AtRisk, Lapsed, FoundBefore, BetweenHalves, Moving
<1>9. Single' /\ Promises'
  BY <1>1, <1>3, <1>6 DEF Single, Promises, Agrees, Lapsed
<1> QED BY <1>7, <1>8, <1>9 DEF IInv, Records

-----------------------------------------------------------------------------
(* The invariant holds.                                                     *)

LEMMA InitIInv == Init => IInv
<1> SUFFICES ASSUME Init PROVE IInv
  OBVIOUS
<1>1. /\ flash = [ErasedSector EXCEPT !.magic = TRUE, !.ident = "both"] /\ op = Idle
      /\ promised = [d \in Device |-> none] /\ doubled = {} /\ lost = {}
  BY DEF Init
<1>2. flash \in Sector /\ Blank(flash)
  BY <1>1 DEF ErasedSector, Sector, Slot, Blank
<1>3. \A i \in SlotIdx, d \in Device : ~Holds(flash, i, d) /\ flash.slot[i] # Garbage
  BY <1>2, BlankHolds
<1>4. op \in Ops /\ op.call = "idle"
  BY <1>1 DEF Ops, Idle
<1>5. TypeOK /\ NoGarbage
  <2>1. promised \in [Device -> Perm \cup {none}]
    BY <1>1
  <2>2. doubled \subseteq Device /\ lost \subseteq Device
    BY <1>1
  <2>3. TypeOK
    BY <1>2, <1>4, <2>1, <2>2 DEF TypeOK
  <2>4. NoGarbage
    BY <1>2 DEF NoGarbage, Blank, Erased, Garbage, NoRecord
  <2> QED BY <2>3, <2>4
<1>6. flash.magic /\ Lapsed
  BY <1>1 DEF ErasedSector, Lapsed
<1>7. AfterErase /\ Magic /\ AtRisk /\ FoundBefore /\ BetweenHalves
  BY <1>4, <1>6 DEF AfterErase, Magic, AtRisk, FoundBefore, BetweenHalves, Moving
<1>8. Single /\ Promises
  BY <1>1, <1>3 DEF Single, Promises, Agrees
<1> QED BY <1>5, <1>7, <1>8 DEF IInv, Records

LEMMA StepIInv == IInv /\ [Next]_vars => IInv'
<1> SUFFICES ASSUME IInv, [Next]_vars PROVE IInv'
  OBVIOUS
<1>1. CASE \E dev \in Device, perm \in Perm : Add(dev, perm) \/ Update(dev, perm)
  BY <1>1, CallBegins
<1>2. CASE \E dev \in Device : Remove(dev)
  BY <1>2, RemoveInv
<1>3. CASE Reset
  BY <1>3, ResetInv
<1>4. CASE FindBlock \/ FindBlockAgain
  BY <1>4, FindBlocksInv
<1>5. CASE CompactFull
  BY <1>5, EndInv DEF CompactFull, Adding, IInv, Records, Magic
<1>6. CASE CompactBegin \/ ZeroMagic \/ WriteMagic
  BY <1>6, ResetStepsInv
<1>7. CASE CompactFault \/ PowerLoss
  BY <1>7, RestartInv DEF CompactFault, PowerLoss
<1>8. CASE EraseSector
  BY <1>8, EraseInv
<1>9. CASE ClearOld
  BY <1>9, ClearOldInv
<1>10. CASE ResetDone
  BY <1>10, ResetDoneInv
<1>11. CASE BootFormat
  BY <1>11, BootFormatInv
<1>12. CASE BootMagic \/ BootReset \/ BootSaveId
  BY <1>12, BootStepsInv
<1>13. CASE BootLoad
  BY <1>13, EndInv DEF BootLoad, Booting
<1>14. CASE BootSaveKey
  BY <1>14, BootSaveKeyInv
<1>15. CASE UNCHANGED vars
  BY <1>15
     DEF vars, IInv, TypeOK, NoGarbage, Records, AfterErase, Magic, AtRisk, Kept, Lapsed,
         FoundBefore, Single, BetweenHalves, TwoOf, Promises, Agrees, Moving, Adding
<1> QED
  BY <1>1, <1>2, <1>3, <1>4, <1>5, <1>6, <1>7, <1>8, <1>9, <1>10, <1>11, <1>12, <1>13, <1>14,
     <1>15 DEF Next

\* What the calls, the losses of power and the starts keep of the records.
THEOREM StorageInvariant == Spec => []IInv
<1> QED BY InitIInv, StepIInv, PTL DEF Spec

\* The sector, the call in progress and the promises have their types.
THEOREM StorageTypeCorrect == Spec => []TypeOK
<1>1. IInv => TypeOK
  BY DEF IInv
<1> QED BY <1>1, StorageInvariant, PTL

\* A record is written over erased flash only, wherever power is lost: no bits mix.
THEOREM RecordsAreWhole == Spec => []NoGarbage
<1>1. IInv => NoGarbage
  BY DEF IInv
<1> QED BY <1>1, StorageInvariant, PTL

\* Slots are finitely many.
LEMMA TwoCopies ==
  ASSUME NEW d, Cardinality(Copies(d)) > 1
  PROVE  \E i, j \in SlotIdx : i # j /\ Holds(flash, i, d) /\ Holds(flash, j, d)
<1>1. IsFiniteSet(SlotIdx)
  BY FS_Interval, MaxPairingsAssumption DEF SlotIdx, MaxPairingsAssumption
<1>2. Copies(d) \subseteq SlotIdx /\ IsFiniteSet(Copies(d))
  BY <1>1, FS_Subset DEF Copies
<1>3. Copies(d) # {}
  BY FS_EmptySet
<1>4. PICK i \in SlotIdx : i \in Copies(d)
  BY <1>2, <1>3
<1>5. Copies(d) # {i}
  <2>1. Cardinality({i}) = 1
    BY FS_Singleton
  <2> QED BY <2>1
<1>6. PICK j \in SlotIdx : j \in Copies(d) /\ j # i
  BY <1>2, <1>4, <1>5
<1> QED BY <1>4, <1>6 DEF Copies

\* A controller has one record, but for an update in progress, one that power cut off and
\* an admin that pair-setup adds again.
THEOREM OneRecordEach == Spec => []OneRecord
<1>1. IInv => OneRecord
  <2> SUFFICES ASSUME IInv, NEW d \in Device \ doubled, Cardinality(Copies(d)) > 1
               PROVE  Moving(d)
    BY DEF OneRecord, Moving
  <2>1. PICK i \in SlotIdx, j \in SlotIdx : i # j /\ Holds(flash, i, d) /\ Holds(flash, j, d)
    BY TwoCopies
  <2> QED BY <2>1 DEF IInv, Records, Single
<1> QED BY <1>1, StorageInvariant, PTL

\* Power may be lost at any step, of a call, a reset, a compaction or a start: a start would
\* find the permission that was promised or the one that is being written, unless it was
\* given up by the reset command or put at risk by a compaction.
THEOREM PromisesSurvive == Spec => []PairingsSurvive
<1>1. IInv => PairingsSurvive
  <2> SUFFICES ASSUME IInv, NEW d \in Device \ (doubled \cup lost), op.call # "reset"
               PROVE  StartPerm(d)
                        \in {promised[d]} \cup (IF Adding /\ op.dev = d THEN {op.perm} ELSE {})
    BY DEF PairingsSurvive
  <2>1. CASE Kept /\ Moving(d)
    <3>1. PICK n \in SlotIdx : TwoOf(d, n)
      BY <2>1 DEF IInv, Records, BetweenHalves
    <3>2. FindPairing(flash, d) \in {op.old, n}
      BY <3>1, PairingFound DEF TwoOf
    <3>3. PermOf(flash, d) \in {flash.slot[op.old].perm, flash.slot[n].perm}
      BY <3>1, <3>2, PairingFound DEF PermOf, TwoOf
    <3>4. StartPerm(d) = PermOf(flash, d) /\ flash.ident # "none"
      BY <2>1 DEF StartPerm, Kept
    <3> QED BY <2>1, <3>1, <3>3, <3>4 DEF TwoOf, Moving, Adding
  <2>2. CASE Kept /\ ~Moving(d)
    <3>1. Agrees(d)
      BY <2>2 DEF IInv, Records, Promises
    <3>2. PermOf(flash, d) = promised[d]
      BY <3>1, PairingFound DEF PermOf, Agrees
    <3> QED BY <2>2, <3>2 DEF StartPerm, Kept
  <2>3. CASE ~Kept
    <3>1. promised[d] = none
      BY <2>3 DEF IInv, Records, AtRisk, Lapsed
    <3> QED BY <2>3, <3>1 DEF StartPerm, Kept
  <2> QED BY <2>1, <2>2, <2>3
<1> QED BY <1>1, StorageInvariant, PTL

\* The call that compacted the storage finds a slot for its record.
THEOREM CompactionMakesRoom == Spec => []RoomAfterCompact
<1>1. IInv => RoomAfterCompact
  <2> SUFFICES ASSUME IInv, Adding, op.at = "retry"
               PROVE  FindEmptyBlock(flash) # none
    BY DEF RoomAfterCompact
  <2>1. Blank(flash)
    BY DEF IInv, Records, AfterErase, Adding
  <2>2. SlotIdx # {}
    BY MaxPairingsAssumption DEF SlotIdx, MaxPairingsAssumption
  <2> QED BY <2>1, <2>2, EmptyBlockFound DEF Blank
<1> QED BY <1>1, StorageInvariant, PTL

-----------------------------------------------------------------------------
(* The calls as their callers see them: what the operators of PairingFlash *)
(* are in the instance Calls.                                              *)

\* The sectors that a format and a new identity leave.
LEMMA SectorsWritten ==
  LET blank == [i \in SlotIdx |-> Erased]
  IN  /\ ErasedSector = [magic |-> FALSE, ident |-> "none", slot |-> blank]
      /\ FormattedSector = [magic |-> TRUE, ident |-> "none", slot |-> blank]
      /\ \A id \in {"id", "both"} :
           [FormattedSector EXCEPT !.ident = id] = [magic |-> TRUE, ident |-> id, slot |-> blank]
<1> DEFINE blank == [i \in SlotIdx |-> Erased]
<1>1. ErasedSector = [magic |-> FALSE, ident |-> "none", slot |-> blank] /\ ErasedSector \in Sector
  BY ErasedIsBlank DEF ErasedSector
<1> HIDE DEF blank
<1>2. ASSUME NEW f \in Sector, f.slot = blank
      PROVE  f = [magic |-> f.magic, ident |-> f.ident, slot |-> blank]
  BY <1>2 DEF Sector
<1>3. /\ FormattedSector \in Sector /\ FormattedSector.slot = blank
      /\ FormattedSector.magic = TRUE /\ FormattedSector.ident = "none"
  BY <1>1 DEF FormattedSector, Sector
<1>4. ASSUME NEW id \in {"id", "both"}
      PROVE  [FormattedSector EXCEPT !.ident = id] = [magic |-> TRUE, ident |-> id, slot |-> blank]
  <2> DEFINE g == [FormattedSector EXCEPT !.ident = id]
  <2>1. g \in Sector /\ g.slot = blank /\ g.magic = TRUE /\ g.ident = id
    BY <1>3 DEF Sector
  <2> HIDE DEF g
  <2>2. g = [magic |-> g.magic, ident |-> g.ident, slot |-> blank]
    BY <1>2, <2>1
  <2>3. g = [magic |-> TRUE, ident |-> id, slot |-> blank]
    BY <2>1, <2>2
  <2> QED BY <2>3 DEF g
<1>5. FormattedSector = [magic |-> TRUE, ident |-> "none", slot |-> blank]
  BY <1>2, <1>3
<1> QED BY <1>1, <1>4, <1>5 DEF blank

LEMMA SameSectors ==
  /\ Calls!NoSlots = [i \in SlotIdx |-> Erased]
  /\ Calls!Fresh = [FormattedSector EXCEPT !.ident = "both"]
  /\ \A f : Calls!KeptBy(f) =
       IF f.magic /\ f.ident # "none" THEN f.slot ELSE [i \in SlotIdx |-> Erased]
  /\ Durable = Calls!KeptBy(flash)
<1>1. Calls!NoSlots = [i \in SlotIdx |-> Erased]
  BY DEF Calls!NoSlots, Calls!SlotIdx, SlotIdx, Calls!Erased, Erased, Calls!NoRecord, NoRecord
<1>2. Calls!Fresh = [FormattedSector EXCEPT !.ident = "both"]
  BY <1>1, SectorsWritten DEF Calls!Fresh
<1>3. \A f : Calls!KeptBy(f) =
       IF f.magic /\ f.ident # "none" THEN f.slot ELSE [i \in SlotIdx |-> Erased]
  BY <1>1 DEF Calls!KeptBy
<1> QED BY <1>1, <1>2, <1>3 DEF Durable

LEMMA SameSearches ==
  ASSUME NEW f, NEW dev
  PROVE  /\ Calls!FindPairing(f, dev) = FindPairing(f, dev)
         /\ Calls!FindEmptyBlock(f) = FindEmptyBlock(f)
         /\ Calls!CanAddPairing(f) <=> CanAddPairing(f)
         /\ Calls!HasAdmin(f) <=> HasAdmin(f)
         /\ Calls!IsFull(f) <=> IsFull(f)
<1>1. \A S : Calls!FirstOf(S) = FirstOf(S)
  BY DEF Calls!FirstOf, FirstOf, Calls!Min, Min
<1>2. Calls!SlotIdx = SlotIdx /\ Calls!Erased = Erased
  BY DEF Calls!SlotIdx, SlotIdx, Calls!Erased, Erased, Calls!NoRecord, NoRecord
<1>3. \A i : /\ Calls!HasRecord(f, i) <=> HasRecord(f, i)
             /\ Calls!Holds(f, i, dev) <=> Holds(f, i, dev)
  BY DEF Calls!HasRecord, HasRecord, Calls!Holds, Holds
<1>4. Calls!FindPairing(f, dev) = FindPairing(f, dev)
  BY <1>1, <1>2, <1>3 DEF Calls!FindPairing, FindPairing
<1>5. Calls!FindEmptyBlock(f) = FindEmptyBlock(f)
  BY <1>1, <1>2 DEF Calls!FindEmptyBlock, FindEmptyBlock
<1> QED BY <1>2, <1>3, <1>4, <1>5
        DEF Calls!CanAddPairing, CanAddPairing, Calls!HasAdmin, HasAdmin, Calls!IsFull, IsFull

LEMMA SameCalls ==
  ASSUME NEW f, NEW dev, NEW perm
  PROVE  /\ Calls!AddPairingTo(f, dev, perm) = AddPairingTo(f, dev, perm)
         /\ Calls!UpdatePairingIn(f, dev, perm) = UpdatePairingIn(f, dev, perm)
         /\ Calls!RemovePairingFrom(f, dev) = RemovePairingFrom(f, dev)
<1>1. Calls!FormattedSector = FormattedSector /\ Calls!Erased = Erased
      /\ Calls!Cleared = Cleared /\ Calls!Garbage = Garbage
  BY DEF Calls!FormattedSector, FormattedSector, Calls!ErasedSector, ErasedSector,
         Calls!SlotIdx, SlotIdx, Calls!Erased, Erased, Calls!NoRecord, NoRecord,
         Calls!Cleared, Cleared, Calls!Garbage, Garbage
<1>2. Calls!Compacted(f) = Compacted(f)
  BY <1>1, SameSearches DEF Calls!Compacted, Compacted, Calls!MustCompact, MustCompact
<1>3. \A g, i : Calls!ClearSlot(g, i) = ClearSlot(g, i)
  BY <1>1 DEF Calls!ClearSlot, ClearSlot
<1>4. \A g, i, r : Calls!WriteRecord(g, i, r) = WriteRecord(g, i, r)
  BY <1>1 DEF Calls!WriteRecord, WriteRecord
<1>5. Calls!Record(dev, perm) = Record(dev, perm)
  BY DEF Calls!Record, Record
<1>6. Calls!AddPairingTo(f, dev, perm) = AddPairingTo(f, dev, perm)
  BY <1>2, <1>4, <1>5, SameSearches DEF Calls!AddPairingTo, AddPairingTo
<1> QED BY <1>3, <1>6, SameSearches
        DEF Calls!UpdatePairingIn, UpdatePairingIn, Calls!RemovePairingFrom, RemovePairingFrom

-----------------------------------------------------------------------------

\* What a call in progress has made of magic and identity, exactly.
Formats ==
  /\ op.call = "idle" => flash.magic
  /\ Adding /\ op.at \in {"find", "clear"} => flash.magic
  /\ Adding /\ op.at = "retry" => flash = FormattedSector
  /\ op.at = "magic" /\ op.call # "idle" => flash = ErasedSector
  /\ op.call = "boot" /\ op.at = "newId" => flash = FormattedSector
  /\ op.call = "boot" /\ op.at = "newKey" => flash = [FormattedSector EXCEPT !.ident = "id"]

LEMMA FormatsStart == Init => Formats
  BY SectorsWritten DEF Init, Formats, Idle, Adding

LEMMA FormatsKept == IInv /\ Formats /\ [Next]_vars => Formats'
<1> SUFFICES ASSUME IInv, Formats, [Next]_vars PROVE Formats'
  OBVIOUS
<1>1. flash \in Sector /\ op \in Ops
  BY DEF IInv, TypeOK
<1>2. FormattedSector.magic /\ ~ErasedSector.magic
  BY SectorsWritten
<1>3. CASE \E dev \in Device, perm \in Perm : Add(dev, perm) \/ Update(dev, perm)
  <2>1. flash' = flash /\ flash.magic /\ op'.call \in {"add", "update"} /\ op'.at = "find"
    BY <1>3 DEF Add, Update, Writing, Idle, Formats
  <2> QED BY <2>1 DEF Formats, Adding
<1>4. CASE \E dev \in Device : Remove(dev)
  <2>1. op.call = "idle" /\ op' = op /\ flash'.magic = flash.magic
    BY <1>1, <1>4, MagicKept DEF Remove, Idle
  <2> QED BY <2>1 DEF Formats, Adding
<1>5. CASE Reset
  BY <1>5 DEF Reset, Formats, Adding
<1>6. CASE FindBlock \/ FindBlockAgain
  <2>1. Adding /\ flash.magic /\ WriteIn(FindEmptyBlock(flash))
    BY <1>2, <1>6 DEF FindBlock, FindBlockAgain, Formats
  <2>2. flash'.magic = flash.magic
    BY <1>1, <2>1, MagicKept DEF WriteIn
  <2>3. op'.call = "idle" \/ (op'.call = "update" /\ op'.at = "clear")
    <3>1. CASE op' = Idle
      BY <3>1 DEF Idle
    <3>2. CASE op.call = "update" /\ Goto("clear")
      BY <1>1, <3>2, GotoFields DEF Adding, Places
    <3> QED BY <2>1, <3>1, <3>2 DEF WriteIn, Return
  <2> QED BY <2>1, <2>2, <2>3 DEF Formats, Adding
<1>7. CASE CompactFull
  <2>1. flash' = flash /\ flash.magic /\ op'.call = "idle"
    BY <1>7 DEF CompactFull, Formats, Idle
  <2> QED BY <2>1 DEF Formats, Adding
<1>8. CASE CompactBegin
  <2>1. op'.call = op.call /\ op'.at = "zeroMagic" /\ op.call \in {"add", "update"}
    BY <1>1, <1>8, GotoFields DEF CompactBegin, Adding, Places
  <2> QED BY <2>1 DEF Formats, Adding
<1>9. CASE CompactFault \/ PowerLoss
  <2>1. op'.call = "boot" /\ op'.at = "init"
    BY <1>9 DEF CompactFault, PowerLoss, Restart
  <2> QED BY <2>1 DEF Formats, Adding
<1>10. CASE ZeroMagic
  <2>1. op.call \in {"add", "update", "reset"}
    BY <1>1, <1>10, OpFields DEF ZeroMagic, Ops, Idle
  <2>2. op'.call = op.call /\ op'.at = "erase"
    BY <1>1, <1>10, <2>1, GotoFields DEF ZeroMagic, Adding, Places
  <2> QED BY <2>1, <2>2 DEF Formats, Adding
<1>11. CASE EraseSector
  <2>1. op.call \in {"add", "update", "reset"}
    BY <1>1, <1>11, OpFields DEF EraseSector, Ops, Idle
  <2>2. op'.call = op.call /\ op'.at = "magic" /\ flash' = ErasedSector
    BY <1>1, <1>11, <2>1, GotoFields DEF EraseSector, Adding, Places
  <2> QED BY <2>1, <2>2 DEF Formats, Adding
<1>12. CASE WriteMagic
  <2>1. op'.call = op.call /\ op'.at = "retry" /\ op.call \in {"add", "update"}
    BY <1>1, <1>12, GotoFields DEF WriteMagic, Adding, Places
  <2>2. flash = ErasedSector
    BY <1>12, <2>1 DEF WriteMagic, Formats
  <2>3. flash' = FormattedSector
    BY <1>12, <2>2 DEF WriteMagic, FormattedSector
  <2> QED BY <2>1, <2>3 DEF Formats, Adding
<1>13. CASE ClearOld
  <2>1. op'.call = "idle" /\ flash.magic
    BY <1>13 DEF ClearOld, Return, Idle, Formats
  <2>2. flash'.magic = flash.magic
    BY <1>1, <1>13, MagicKept DEF ClearOld
  <2> QED BY <2>1, <2>2 DEF Formats, Adding
<1>14. CASE ResetDone
  <2>1. op'.call = "boot" /\ op'.at = "init"
    BY <1>14 DEF ResetDone
  <2> QED BY <2>1 DEF Formats, Adding
<1>15. CASE BootFormat \/ BootMagic \/ BootSaveId
  <2>1. CASE BootFormat
    <3>1. op'.call = "boot" /\ op'.at = "magic" /\ flash' = ErasedSector
      BY <1>1, <2>1, GotoFields DEF BootFormat, Booting, Adding
    <3> QED BY <3>1 DEF Formats, Adding
  <2>2. CASE BootMagic
    <3>1. op'.call = "boot" /\ op'.at = "newId" /\ flash = ErasedSector
      BY <1>1, <2>2, GotoFields DEF BootMagic, Booting, Adding, Formats
    <3>2. flash' = FormattedSector
      BY <2>2, <3>1 DEF BootMagic, FormattedSector
    <3> QED BY <3>1, <3>2 DEF Formats, Adding
  <2>3. CASE BootSaveId
    <3>1. op'.call = "boot" /\ op'.at = "newKey" /\ flash = FormattedSector
      BY <1>1, <2>3, GotoFields DEF BootSaveId, Booting, Adding, Formats
    <3>2. flash' = [FormattedSector EXCEPT !.ident = "id"]
      BY <2>3, <3>1 DEF BootSaveId
    <3> QED BY <3>1, <3>2 DEF Formats, Adding
  <2> QED BY <1>15, <2>1, <2>2, <2>3
<1>16. CASE BootLoad
  <2>1. op'.call = "idle" /\ flash' = flash /\ flash.magic
    BY <1>16 DEF BootLoad, Idle
  <2> QED BY <2>1 DEF Formats, Adding
<1>17. CASE BootReset
  <2>1. op' = op /\ op.call = "boot" /\ op.at = "init"
    BY <1>17 DEF BootReset, Booting
  <2> QED BY <2>1 DEF Formats, Adding
<1>18. CASE BootSaveKey
  <2>1. op.call = "boot" /\ op.at = "newKey" /\ op'.call = "idle"
        /\ flash' = [flash EXCEPT !.ident = "both"]
    BY <1>18 DEF BootSaveKey, Booting, Idle
  <2>2. flash.magic
    BY <2>1, SectorsWritten DEF Formats
  <2>3. flash'.magic = flash.magic
    BY <1>1, <2>1 DEF Sector
  <2> QED BY <2>1, <2>2, <2>3 DEF Formats, Adding
<1>19. CASE UNCHANGED vars
  BY <1>19 DEF vars, Formats, Adding
<1> QED
  BY <1>3, <1>4, <1>5, <1>6, <1>7, <1>8, <1>9, <1>10, <1>11, <1>12, <1>13, <1>14, <1>15, <1>16,
     <1>17, <1>18, <1>19 DEF Next

-----------------------------------------------------------------------------
(* The refinement.                                                          *)

\* What is in progress settles to, case by case.
SettledCases ==
  /\ op.call = "idle" => Settled = flash
  /\ op.call = "boot" => Settled = AfterBoot
  /\ op.call = "reset" => Settled = [FormattedSector EXCEPT !.ident = "both"]
  /\ Adding /\ op.at = "find" /\ FindEmptyBlock(flash) = none /\ IsFull(flash)
       => Settled = flash
  /\ Adding /\ op.at = "find" /\ ~(FindEmptyBlock(flash) = none /\ IsFull(flash))
       => Settled = AfterWrite(Compacted(flash))
  /\ Adding /\ op.at = "clear" => Settled = ClearSlot(flash, op.old)
  /\ Adding /\ op.at \in {"zeroMagic", "erase", "magic", "retry"}
       => Settled = AfterWrite(FormattedSector)

LEMMA SettledIs == SettledCases
<1>1. /\ op.call = "idle" => Settled = flash
      /\ op.call = "boot" => Settled = AfterBoot
      /\ op.call = "reset" => Settled = [FormattedSector EXCEPT !.ident = "both"]
  <2>1. ASSUME op.call = "idle" PROVE Settled = flash
    <3>1. op.call # "boot" /\ op.call # "reset" /\ ~Adding
      BY <2>1 DEF Adding
    <3> QED BY <2>1, <3>1 DEF Settled
  <2>2. ASSUME op.call = "boot" PROVE Settled = AfterBoot
    <3>1. op.call # "idle" /\ op.call # "reset" /\ ~Adding
      BY <2>2 DEF Adding
    <3> QED BY <2>2, <3>1 DEF Settled
  <2>3. ASSUME op.call = "reset" PROVE Settled = [FormattedSector EXCEPT !.ident = "both"]
    <3>1. op.call # "idle" /\ op.call # "boot" /\ ~Adding
      BY <2>3 DEF Adding
    <3> QED BY <2>3, <3>1 DEF Settled
  <2> QED BY <2>1, <2>2, <2>3
<1>2. ASSUME Adding PROVE op.call \notin {"idle", "boot", "reset"}
  BY <1>2 DEF Adding
<1>3. ASSUME Adding, op.at = "find"
      PROVE  Settled = IF FindEmptyBlock(flash) = none /\ IsFull(flash) THEN flash
                       ELSE AfterWrite(Compacted(flash))
  BY <1>2, <1>3 DEF Settled
<1>4. ASSUME Adding, op.at = "clear" PROVE Settled = ClearSlot(flash, op.old)
  BY <1>2, <1>4 DEF Settled
<1>5. ASSUME Adding, op.at \in {"zeroMagic", "erase", "magic", "retry"}
      PROVE  Settled = AfterWrite(FormattedSector)
  BY <1>2, <1>5 DEF Settled
<1> QED BY <1>1, <1>3, <1>4, <1>5 DEF SettledCases

LEMMA SameSlots == Calls!SlotIdx = SlotIdx /\ Calls!Slot = Slot
  BY DEF Calls!SlotIdx, SlotIdx, Calls!Slot, Slot, Calls!Perm, Perm, Calls!Erased, Erased,
         Calls!NoRecord, NoRecord, Calls!Cleared, Cleared, Calls!Garbage, Garbage

\* A sector without an identity, and a fresh one, have no slots to keep.
LEMMA NothingKept ==
  /\ \A f : f.ident = "none" => Calls!KeptBy(f) = Calls!NoSlots
  /\ \A f : ~f.magic => Calls!KeptBy(f) = Calls!NoSlots
  /\ Calls!KeptBy(Calls!Fresh) = Calls!NoSlots
<1>1. Calls!Fresh.slot = Calls!NoSlots
  BY DEF Calls!Fresh
<1> QED BY <1>1 DEF Calls!KeptBy

\* Steps that the caller does not see, before what they lead to is all there.
LEMMA FlashFollows ==
  ASSUME Settled' = Settled, flash' \in Sector,
         Durable' = Durable \/ Durable' = Calls!KeptBy(Settled)
  PROVE  [Calls!Next]_(Calls!vars)
<1>1. CASE Durable' = Durable
  BY <1>1 DEF Calls!vars
<1>2. CASE Durable' = Calls!KeptBy(Settled)
  <2>1. Durable' \in [Calls!SlotIdx -> Calls!Slot]
    <3>1. Durable' \in [SlotIdx -> Slot]
      BY ErasedIsBlank DEF Durable, Sector
    <3> QED BY <3>1, SameSlots
  <2>2. Calls!Write
    BY <1>2, <2>1 DEF Calls!Write
  <2> QED BY <2>2 DEF Calls!Next
<1> QED BY <1>1, <1>2

LEMMA CallStarts ==
  ASSUME NEW dev \in Device, NEW perm \in Perm, Add(dev, perm) \/ Update(dev, perm)
  PROVE  [Calls!Next]_(Calls!vars)
<1> DEFINE full == FindEmptyBlock(flash) = none /\ IsFull(flash)
<1>1. /\ flash' = flash /\ Settled = flash /\ Durable' = Durable /\ Calls!Quiet
      /\ op'.at = "find" /\ op'.call \in {"add", "update"} /\ Adding'
      /\ op'.dev = dev /\ op'.perm = perm
  BY SettledIs, SameSectors
     DEF Add, Update, Writing, Idle, SettledCases, Durable, Calls!Quiet, Adding
<1>2. SettledCases'
  BY SettledIs, PTL
<1>3. CASE full
  <2>1. Settled' = flash
    BY <1>1, <1>2, <1>3 DEF SettledCases
  <2> QED BY <1>1, <2>1 DEF Calls!vars
<1>4. CASE ~full
  <2>1. Settled' = AfterWrite(Compacted(flash))'
    BY <1>1, <1>2, <1>4 DEF SettledCases
  <2>2. ~Calls!Refused(Settled) /\ dev \in Device /\ perm \in Calls!Perm
    BY <1>1, <1>4, SameSearches DEF Calls!Refused, Calls!Perm, Perm
  <2>3. CASE Add(dev, perm)
    <3>1. op'.call = "add"
      BY <2>3 DEF Add, Writing
    <3>2. Settled' = AddPairingTo(flash, dev, perm)
      BY <1>1, <2>1, <3>1 DEF AfterWrite, AddPairingTo
    <3>3. Calls!Add(dev, perm)
      BY <1>1, <2>2, <2>3, <3>2, SameSearches, SameCalls DEF Add, Calls!Add
    <3> QED BY <2>2, <3>3 DEF Calls!Next
  <2>4. CASE Update(dev, perm)
    <3>1. op'.call = "update" /\ op'.old = FindPairing(flash, dev)
      BY <2>4 DEF Update, Writing
    <3>2. Settled' = UpdatePairingIn(flash, dev, perm)
      BY <1>1, <2>1, <3>1 DEF AfterWrite, AddPairingTo, UpdatePairingIn
    <3>3. Calls!Update(dev, perm)
      BY <1>1, <2>2, <2>4, <3>2, SameSearches, SameCalls DEF Update, Calls!Update
    <3> QED BY <2>2, <3>3 DEF Calls!Next
  <2> QED BY <2>3, <2>4
<1> QED BY <1>3, <1>4

LEMMA RemoveIs ==
  ASSUME NEW dev \in Device, Remove(dev)
  PROVE  [Calls!Next]_(Calls!vars)
<1>1. op.call = "idle" /\ op' = op
  BY DEF Remove, Idle
<1>2. Settled = flash /\ Settled' = flash'
  <2>1. SettledCases'
    BY SettledIs, PTL
  <2> QED BY <1>1, <2>1, SettledIs DEF SettledCases
<1>3. Durable' = Calls!KeptBy(Settled')
  BY <1>2, SameSectors DEF Durable
<1>4. Calls!Remove(dev)
  BY <1>2, <1>3, SameSectors, SameSearches, SameCalls
     DEF Remove, Calls!Remove, Calls!Quiet, RemovePairingFrom
<1> QED BY <1>4 DEF Calls!Next

LEMMA ResetIs ==
  ASSUME Reset
  PROVE  [Calls!Next]_(Calls!vars)
<1>1. op.call = "idle" /\ op'.call = "reset" /\ flash' = flash
  BY DEF Reset, Idle
<1>2. Settled = flash /\ Settled' = Calls!Fresh
  <2>1. SettledCases'
    BY SettledIs, PTL
  <2> QED BY <1>1, <2>1, SettledIs, SameSectors DEF SettledCases
<1>3. Calls!Reset
  BY <1>1, <1>2, SameSectors DEF Calls!Reset, Calls!Quiet, Durable
<1> QED BY <1>3 DEF Calls!Next

\* What an add or an update will write does not depend on how far it is.
LEMMA SameWrite ==
  ASSUME op'.call = op.call, op'.dev = op.dev, op'.perm = op.perm, op'.old = op.old
  PROVE  AfterWrite(FormattedSector)' = AfterWrite(FormattedSector)
  BY DEF AfterWrite, FormattedSector, ErasedSector

\* A formatted sector has room for the record, and no identity.
LEMMA WrittenAfterFormat ==
  ASSUME op \in Ops, Adding
  PROVE  Calls!KeptBy(AfterWrite(FormattedSector)) = Calls!NoSlots
<1> DEFINE k == FindEmptyBlock(FormattedSector)
           g == WriteRecord(FormattedSector, k, Record(op.dev, op.perm))
<1>1. /\ FormattedSector \in Sector /\ FormattedSector.ident = "none"
      /\ Blank(FormattedSector)
  <2>1. FormattedSector = [ErasedSector EXCEPT !.magic = TRUE]
    BY DEF FormattedSector
  <2>2. FormattedSector \in Sector /\ FormattedSector.slot = ErasedSector.slot
    BY <2>1, ErasedIsBlank, SlotsKept
  <2> QED BY <2>2, ErasedIsBlank, SectorsWritten DEF Blank
<1>2. 0 \in SlotIdx
  BY MaxPairingsAssumption DEF SlotIdx, MaxPairingsAssumption
<1>3. k \in SlotIdx /\ FormattedSector.slot[k] = Erased
  BY <1>1, <1>2, EmptyBlockFound DEF Blank
<1>4. op.dev \in Device /\ op.perm \in Perm
  BY OpFields
<1> HIDE DEF k
<1>5. g \in Sector /\ g.ident = "none"
  BY <1>1, <1>3, <1>4, SlotWritten, MagicKept
<1> HIDE DEF g
<1>6. ClearSlot(g, op.old).ident = "none"
  BY <1>5, MagicKept
<1>7. AfterWrite(FormattedSector) = IF op.call = "add" THEN g ELSE ClearSlot(g, op.old)
  BY DEF AfterWrite, g, k
<1> QED BY <1>5, <1>6, <1>7, NothingKept

LEMMA FindBlockIs ==
  ASSUME IInv, Formats, FindBlock, flash' \in Sector
  PROVE  [Calls!Next]_(Calls!vars)
<1> DEFINE k == FindEmptyBlock(flash)
           rec == Record(op.dev, op.perm)
<1>1. /\ flash \in Sector /\ op \in Ops /\ Adding /\ op.at = "find"
      /\ k \in SlotIdx /\ flash.slot[k] = Erased /\ flash.magic
      /\ WriteIn(k) /\ flash' = WriteRecord(flash, k, rec)
      /\ op.dev \in Device /\ op.perm \in Perm
  BY EmptyBlockFound, OpFields DEF IInv, TypeOK, FindBlock, WriteIn, Formats
<1>2. Compacted(flash) = flash /\ FindEmptyBlock(flash) # none
  BY DEF FindBlock, Compacted, MustCompact
<1>3. Settled = AfterWrite(flash)
  BY <1>1, <1>2, SettledIs DEF SettledCases
<1>4. SettledCases'
  BY SettledIs, PTL
<1>5. CASE op.call = "add"
  <2>1. op'.call = "idle"
    BY <1>1, <1>5 DEF WriteIn, Return, Idle
  <2>2. Settled = flash'
    BY <1>1, <1>3, <1>5 DEF AfterWrite
  <2>3. Settled' = flash'
    BY <1>4, <2>1 DEF SettledCases
  <2>4. Durable' = Calls!KeptBy(Settled)
    BY <2>2, SameSectors DEF Durable
  <2> QED BY <2>2, <2>3, <2>4, FlashFollows
<1>6. CASE op.call = "update"
  <2>1. op'.call = "update" /\ op'.at = "clear" /\ op'.old = op.old
    BY <1>1, <1>6, GotoFields DEF WriteIn, Places
  <2>2. Settled = ClearSlot(flash', op.old)
    BY <1>1, <1>3, <1>6 DEF AfterWrite
  <2>3. Settled' = Settled
    BY <1>4, <2>1, <2>2 DEF SettledCases, Adding
  <2>4. op.old \in SlotIdx /\ Holds(flash, op.old, op.dev) /\ op.old # k
    BY <1>1, <1>6, OpFields DEF IInv, Records, FoundBefore, Holds, HasRecord, Erased, NoRecord
  <2> HIDE DEF k, rec
  <2>5. /\ flash'.magic = flash.magic /\ flash'.ident = flash.ident
        /\ Settled.magic = flash.magic /\ Settled.ident = flash.ident
    <3>1. flash'.magic = flash.magic /\ flash'.ident = flash.ident
      <4>1. flash \in Sector /\ flash' = WriteRecord(flash, k, rec)
        BY <1>1
      <4>2. /\ WriteRecord(flash, k, rec).magic = flash.magic
            /\ WriteRecord(flash, k, rec).ident = flash.ident
        BY <4>1, MagicKept
      <4> QED BY <4>1, <4>2
    <3>2. /\ ClearSlot(flash', op.old).magic = flash'.magic
          /\ ClearSlot(flash', op.old).ident = flash'.ident
      BY MagicKept
    <3> QED BY <2>2, <3>1, <3>2
  <2>6. CASE flash.ident = "none"
    <3>1. Durable' = Durable
      BY <2>5, <2>6 DEF Durable
    <3> QED BY <2>3, <3>1 DEF Calls!vars
  <2>7. CASE flash.ident # "none"
    <3>1. Durable = flash.slot /\ Durable' = flash'.slot /\ Calls!KeptBy(Settled) = Settled.slot
      BY <1>1, <2>5, <2>7, SameSectors DEF Durable
    <3>2. \A i \in SlotIdx : i # k => flash'.slot[i] = flash.slot[i]
      BY <1>1, SlotWritten DEF rec
    <3>3. Settled.slot[k] = flash'.slot[k]
      BY <1>1, <2>2, <2>4, SlotCleared
    <3>4. \A i \in SlotIdx : flash'.slot[i] \in {flash.slot[i], Settled.slot[i]}
      BY <3>2, <3>3
    <3>5. ASSUME NEW d \in Device,
                 \E i \in SlotIdx : flash.slot[i].kind = "record" /\ flash.slot[i].dev = d
          PROVE  \E i \in SlotIdx : flash'.slot[i].kind = "record" /\ flash'.slot[i].dev = d
      BY <1>1, <3>2, <3>5 DEF Erased, NoRecord
    <3>6. Durable' \in [Calls!SlotIdx -> Calls!Slot]
      BY <3>1, SameSlots DEF Sector
    <3>7. Calls!Write
      BY <2>3, <3>1, <3>4, <3>5, <3>6 DEF Calls!Write, Calls!SlotIdx, SlotIdx
    <3> QED BY <3>7 DEF Calls!Next
  <2> QED BY <2>6, <2>7
<1> QED BY <1>1, <1>5, <1>6 DEF Adding

LEMMA FindBlockAgainIs ==
  ASSUME IInv, Formats, FindBlockAgain, flash' \in Sector
  PROVE  [Calls!Next]_(Calls!vars)
<1> DEFINE k == FindEmptyBlock(flash)
           rec == Record(op.dev, op.perm)
<1>1. /\ flash \in Sector /\ op \in Ops /\ Adding /\ op.at = "retry"
      /\ flash = FormattedSector /\ flash.ident = "none"
      /\ WriteIn(k) /\ flash' = WriteRecord(flash, k, rec)
  BY SectorsWritten DEF IInv, TypeOK, FindBlockAgain, WriteIn, Formats
<1>2. Settled = AfterWrite(flash)
  BY <1>1, SettledIs DEF SettledCases
<1>3. SettledCases'
  BY SettledIs, PTL
<1>4. Durable' = Calls!KeptBy(Settled)
  <2>1. flash'.ident = "none"
    BY <1>1, MagicKept
  <2>2. Durable' = Calls!NoSlots
    BY <2>1, SameSectors DEF Durable
  <2> QED BY <1>1, <1>2, <2>2, WrittenAfterFormat
<1>5. Settled' = Settled
  <2>1. CASE op.call = "add"
    <3>1. op'.call = "idle"
      BY <1>1, <2>1 DEF WriteIn, Return, Idle
    <3> QED BY <1>1, <1>2, <1>3, <2>1, <3>1 DEF AfterWrite, SettledCases
  <2>2. CASE op.call = "update"
    <3>1. op'.call = "update" /\ op'.at = "clear" /\ op'.old = op.old
      BY <1>1, <2>2, GotoFields DEF WriteIn, Places
    <3> QED BY <1>1, <1>2, <1>3, <2>2, <3>1 DEF AfterWrite, SettledCases, Adding
  <2> QED BY <1>1, <2>1, <2>2 DEF Adding
<1> QED BY <1>4, <1>5, FlashFollows

\* Full tables, and the compaction up to its format.
LEMMA CompactIs ==
  ASSUME IInv, Formats, flash' \in Sector,
         CompactFull \/ CompactBegin \/ ZeroMagic \/ EraseSector \/ WriteMagic
  PROVE  [Calls!Next]_(Calls!vars)
<1>1. op \in Ops /\ flash \in Sector
  BY DEF IInv, TypeOK
<1>2. SettledCases'
  BY SettledIs, PTL
<1>3. CASE CompactFull
  <2>1. Settled = flash /\ op'.call = "idle" /\ flash' = flash
    BY <1>3, SettledIs DEF CompactFull, SettledCases, Idle
  <2>2. Settled' = Settled /\ Durable' = Durable
    BY <1>2, <2>1 DEF SettledCases, Durable
  <2> QED BY <2>2 DEF Calls!vars
<1>4. CASE CompactBegin
  <2>1. Adding /\ Settled = AfterWrite(FormattedSector)
    BY <1>4, SettledIs DEF CompactBegin, SettledCases, Compacted, MustCompact
  <2>2. /\ op'.call = op.call /\ op'.at = "zeroMagic"
        /\ op'.dev = op.dev /\ op'.perm = op.perm /\ op'.old = op.old
    BY <1>1, <1>4, <2>1, GotoFields DEF CompactBegin, Adding, Places
  <2>3. Settled' = Settled
    BY <1>2, <2>1, <2>2, SameWrite DEF SettledCases, Adding
  <2>4. Durable' = Durable
    BY <1>4 DEF CompactBegin, Durable
  <2> QED BY <2>3, <2>4 DEF Calls!vars
<1>5. CASE ZeroMagic \/ EraseSector \/ WriteMagic
  <2>1. op.call \in {"add", "update", "reset"}
    BY <1>1, <1>5, OpFields DEF ZeroMagic, EraseSector, WriteMagic, Adding, Ops, Idle
  <2>2. PICK at \in {"erase", "magic", "retry"} :
          Goto(at) /\ (op.call = "reset" => at # "retry")
    BY <1>5 DEF ZeroMagic, EraseSector, WriteMagic, Adding
  <2>3. /\ op'.call = op.call /\ op'.at = at
        /\ Adding => op'.dev = op.dev /\ op'.perm = op.perm /\ op'.old = op.old
    BY <1>1, <2>1, <2>2, GotoFields DEF Adding, Places
  <2>4. Durable' = Calls!NoSlots
    <3>1. ~flash'.magic \/ flash'.ident = "none"
      <4>1. CASE ZeroMagic
        BY <1>1, <4>1 DEF ZeroMagic, Sector
      <4>2. CASE EraseSector
        BY <4>2, SectorsWritten DEF EraseSector
      <4>3. CASE WriteMagic
        <5>1. flash = ErasedSector /\ flash' = FormattedSector
          BY <4>3 DEF WriteMagic, Formats, Adding, FormattedSector
        <5> QED BY <5>1, SectorsWritten
      <4> QED BY <1>5, <4>1, <4>2, <4>3
    <3> QED BY <3>1, SameSectors DEF Durable
  <2>5. CASE Adding
    <3>1. op.at \in {"zeroMagic", "erase", "magic", "retry"}
      BY <1>5 DEF ZeroMagic, EraseSector, WriteMagic
    <3>2. Settled = AfterWrite(FormattedSector)
      BY <2>5, <3>1, SettledIs DEF SettledCases
    <3>3. Settled' = AfterWrite(FormattedSector)'
      BY <1>2, <2>3, <2>5 DEF SettledCases, Adding
    <3>4. Settled' = Settled
      BY <2>3, <2>5, <3>2, <3>3, SameWrite
    <3> QED BY <1>1, <2>4, <2>5, <3>2, <3>4, WrittenAfterFormat, FlashFollows
  <2>6. CASE op.call = "reset"
    <3>1. Settled = Calls!Fresh /\ Settled' = Settled
      BY <1>2, <2>3, <2>6, SettledIs, SameSectors DEF SettledCases
    <3> QED BY <2>4, <3>1, NothingKept, FlashFollows
  <2> QED BY <2>1, <2>5, <2>6 DEF Adding
<1> QED BY <1>3, <1>4, <1>5

LEMMA ClearOldIs ==
  ASSUME ClearOld, flash' \in Sector
  PROVE  [Calls!Next]_(Calls!vars)
<1>1. Settled = flash' /\ op'.call = "idle"
  BY SettledIs DEF ClearOld, Return, SettledCases, Idle
<1>2. SettledCases'
  BY SettledIs, PTL
<1>3. Settled' = Settled
  BY <1>1, <1>2 DEF SettledCases
<1>4. Durable' = Calls!KeptBy(Settled)
  BY <1>1, SameSectors DEF Durable
<1> QED BY <1>3, <1>4, FlashFollows

\* What power leaves is what the start keeps.
LEMMA RestartIs ==
  ASSUME flash \in Sector, Restart
  PROVE  [Calls!Next]_(Calls!vars)
<1>1. flash' = flash /\ op'.call = "boot" /\ op'.at = "init"
  BY DEF Restart
<1>2. SettledCases'
  BY SettledIs, PTL
<1>3. Settled' = AfterBoot' /\ Durable' = Durable
  BY <1>1, <1>2 DEF SettledCases, Durable
<1>4. \E ident \in {"id", "both"} :
        Settled' = [magic |-> TRUE, ident |-> ident, slot |-> Durable]
  <2>1. CASE flash.magic /\ flash.ident # "none"
    <3>1. Settled' = flash /\ Durable = flash.slot
      BY <1>1, <1>3, <2>1 DEF AfterBoot, Durable
    <3>2. flash = [magic |-> TRUE, ident |-> flash.ident, slot |-> flash.slot]
          /\ flash.ident \in {"id", "both"}
      BY <2>1 DEF Sector
    <3> QED BY <3>1, <3>2
  <2>2. CASE ~(flash.magic /\ flash.ident # "none")
    <3>1. Settled' = [FormattedSector EXCEPT !.ident = "both"]
      BY <1>1, <1>3, <2>2 DEF AfterBoot, FormattedSector, ErasedSector
    <3> QED BY <2>2, <3>1, SectorsWritten DEF Durable
  <2> QED BY <2>1, <2>2
<1>5. Calls!PowerFails
  BY <1>3, <1>4 DEF Calls!PowerFails
<1> QED BY <1>5 DEF Calls!Next

\* A start is not seen, except by the pairings it keeps.
LEMMA BootIs ==
  ASSUME IInv, Formats, flash' \in Sector,
         \/ ResetDone \/ BootFormat \/ BootMagic \/ BootLoad \/ BootReset
         \/ BootSaveId \/ BootSaveKey
  PROVE  [Calls!Next]_(Calls!vars)
<1> DEFINE fresh == [FormattedSector EXCEPT !.ident = "both"]
<1>1. op \in Ops /\ flash \in Sector
  BY DEF IInv, TypeOK
<1>2. SettledCases'
  BY SettledIs, PTL
<1>3. CASE BootLoad
  <2>1. Settled = flash /\ op'.call = "idle" /\ flash' = flash
    BY <1>3, SettledIs DEF BootLoad, Booting, SettledCases, AfterBoot, Idle
  <2>2. Settled' = Settled /\ Durable' = Durable
    BY <1>2, <2>1 DEF SettledCases, Durable
  <2> QED BY <2>2 DEF Calls!vars
<1>4. ASSUME Settled = fresh, Settled' = fresh,
             ~flash'.magic \/ flash'.ident = "none" \/ flash'.slot = [i \in SlotIdx |-> Erased]
      PROVE  [Calls!Next]_(Calls!vars)
  <2>1. Durable' = Calls!NoSlots
    BY <1>4, SameSectors DEF Durable
  <2>2. Durable' = Calls!KeptBy(Settled)
    BY <1>4, <2>1, SameSectors, NothingKept
  <2> QED BY <1>4, <2>2, FlashFollows
<1>5. ASSUME op.call = "boot", ~(op.at = "init" /\ flash.magic /\ flash.ident # "none")
      PROVE  Settled = fresh
  BY <1>5, SettledIs DEF SettledCases, AfterBoot
<1>6. ASSUME op'.call = "boot", ~(op'.at = "init" /\ flash'.magic /\ flash'.ident # "none")
      PROVE  Settled' = fresh
  BY <1>2, <1>6 DEF SettledCases, AfterBoot, FormattedSector, ErasedSector
<1>7. CASE ResetDone
  <2>1. op.call = "reset" /\ op.at = "magic" /\ op'.call = "boot" /\ flash = ErasedSector
    BY <1>7 DEF ResetDone, Formats
  <2>2. flash' = FormattedSector /\ flash'.ident = "none"
    BY <1>7, <2>1, SectorsWritten DEF ResetDone, FormattedSector
  <2>3. Settled = fresh
    BY <2>1, SettledIs DEF SettledCases
  <2> QED BY <1>4, <1>6, <2>1, <2>2, <2>3
<1>8. CASE BootFormat
  <2>1. op'.call = "boot" /\ op'.at = "magic" /\ ~flash'.magic
    BY <1>1, <1>8, GotoFields, SectorsWritten DEF BootFormat, Booting, Adding
  <2>2. op.call = "boot" /\ ~flash.magic
    BY <1>8 DEF BootFormat, Booting
  <2> QED BY <1>4, <1>5, <1>6, <2>1, <2>2
<1>9. CASE BootMagic
  <2>1. op'.call = "boot" /\ op'.at = "newId" /\ op.call = "boot" /\ op.at = "magic"
    BY <1>1, <1>9, GotoFields DEF BootMagic, Booting, Adding
  <2>2. flash = ErasedSector
    BY <2>1 DEF Formats
  <2>3. flash' = FormattedSector /\ flash'.ident = "none"
    BY <1>9, <2>2, SectorsWritten DEF BootMagic, FormattedSector
  <2> QED BY <1>4, <1>5, <1>6, <2>1, <2>3
<1>10. CASE BootReset
  <2>1. op' = op /\ op.call = "boot" /\ flash.ident = "none" /\ ~flash'.magic
    BY <1>1, <1>10 DEF BootReset, Booting, Sector
  <2> QED BY <1>4, <1>5, <1>6, <2>1
<1>11. CASE BootSaveId
  <2>1. op'.call = "boot" /\ op'.at = "newKey" /\ op.call = "boot" /\ op.at = "newId"
    BY <1>1, <1>11, GotoFields DEF BootSaveId, Booting, Adding
  <2>2. flash = FormattedSector
    BY <2>1 DEF Formats
  <2>3. flash' = [FormattedSector EXCEPT !.ident = "id"]
    BY <1>11, <2>2 DEF BootSaveId
  <2>4. flash'.slot = [i \in SlotIdx |-> Erased]
    BY <2>3, SectorsWritten
  <2> QED BY <1>4, <1>5, <1>6, <2>1, <2>4
<1>12. CASE BootSaveKey
  <2>1. op'.call = "idle" /\ op.call = "boot" /\ op.at = "newKey"
        /\ flash' = [flash EXCEPT !.ident = "both"]
    BY <1>12 DEF BootSaveKey, Booting, Idle
  <2>2. flash = [magic |-> TRUE, ident |-> "id", slot |-> [i \in SlotIdx |-> Erased]]
    BY <2>1, SectorsWritten DEF Formats
  <2>3. flash' = fresh /\ flash'.slot = [i \in SlotIdx |-> Erased]
    BY <2>1, <2>2, SectorsWritten
  <2>4. Settled' = fresh
    BY <1>2, <2>1, <2>3 DEF SettledCases
  <2> QED BY <1>4, <1>5, <2>1, <2>3, <2>4
<1> QED BY <1>3, <1>7, <1>8, <1>9, <1>10, <1>11, <1>12

\* Every step is a call, a part of what a call has promised, or nothing.
LEMMA StepsAreCalls ==
  IInv /\ Formats /\ IInv' /\ [Next]_vars => [Calls!Next]_(Calls!vars)
<1> SUFFICES ASSUME IInv, Formats, IInv', [Next]_vars
             PROVE  [Calls!Next]_(Calls!vars)
  OBVIOUS
<1>1. flash \in Sector /\ flash' \in Sector
  BY DEF IInv, TypeOK
<1>2. CASE \E dev \in Device, perm \in Perm : Add(dev, perm) \/ Update(dev, perm)
  BY <1>2, CallStarts
<1>3. CASE \E dev \in Device : Remove(dev)
  BY <1>3, RemoveIs
<1>4. CASE Reset
  BY <1>4, ResetIs
<1>5. CASE FindBlock
  BY <1>1, <1>5, FindBlockIs
<1>6. CASE FindBlockAgain
  BY <1>1, <1>6, FindBlockAgainIs
<1>7. CASE CompactFull \/ CompactBegin \/ ZeroMagic \/ EraseSector \/ WriteMagic
  BY <1>1, <1>7, CompactIs
<1>8. CASE ClearOld
  BY <1>1, <1>8, ClearOldIs
<1>9. CASE CompactFault \/ PowerLoss
  BY <1>1, <1>9, RestartIs DEF CompactFault, PowerLoss
<1>10. CASE \/ ResetDone \/ BootFormat \/ BootMagic \/ BootLoad \/ BootReset
            \/ BootSaveId \/ BootSaveKey
  BY <1>1, <1>10, BootIs
<1>11. CASE UNCHANGED vars
  BY <1>11 DEF vars, Calls!vars, Settled, Durable, AfterBoot, AfterWrite, Adding
<1> QED BY <1>2, <1>3, <1>4, <1>5, <1>6, <1>7, <1>8, <1>9, <1>10, <1>11 DEF Next

LEMMA StartsAsCalls == Init => Calls!Init
<1> SUFFICES ASSUME Init PROVE Calls!Init
  OBVIOUS
<1>1. op.call = "idle" /\ flash = [ErasedSector EXCEPT !.magic = TRUE, !.ident = "both"]
  BY DEF Init, Idle
<1>2. flash = [FormattedSector EXCEPT !.ident = "both"]
  BY <1>1 DEF FormattedSector
<1>3. Settled = flash
  BY <1>1, SettledIs DEF SettledCases
<1>4. flash.slot = [i \in SlotIdx |-> Erased]
  BY <1>2, SectorsWritten
<1> QED BY <1>2, <1>3, <1>4, SameSectors DEF Calls!Init, Durable

\* The calls of storage.c, cut into flash operations and by losses of power, are the atomic
\* calls that the pairing server makes.
THEOREM StorageImplements == Spec => ImplementsCalls
<1>1. Spec => [](IInv /\ Formats)
  BY InitIInv, StepIInv, FormatsStart, FormatsKept, PTL DEF Spec
<1> QED
  BY <1>1, StartsAsCalls, StepsAreCalls, StorageInvariant, PTL DEF Spec, ImplementsCalls
=============================================================================
