------------------------ MODULE PairingServerProofs ------------------------
(***************************************************************************)
(* The safety properties of PairingServer, for every set of connections,   *)
(* controllers and memory blocks and every number of slots.                *)
(*                                                                         *)
(* The four properties and the types are inductive together, with one      *)
(* addition: an open client has a controller, and a verified one the slot  *)
(* of a pairing (SessionsKnown).  Handlers differ in what they store;      *)
(* they end alike, in an answer or in CloseAfter, so that two lemmas       *)
(* (CloseContext, AnswerContext) carry the pairing context through all of  *)
(* them, one (SessionsStay) the sessions, and those on the flash           *)
(* (AdminAdded, AdminCleared) the flag server->paired.                     *)
(***************************************************************************)
EXTENDS PairingServer, FiniteSetTheorems, WellFoundedInduction, TLAPS

-----------------------------------------------------------------------------
(* What the searches of storage.c return.                                   *)

\* A set of slots has a first one.
LEMMA FirstOfSlots ==
  ASSUME NEW S, S \subseteq SlotIdx
  PROVE  /\ FirstOf(S) = none <=> S = {}
         /\ S # {} => /\ FirstOf(S) \in S
                      /\ \A i \in S : FirstOf(S) <= i
<1>1. S \subseteq Nat
  BY MaxPairingsAssumption DEF SlotIdx, MaxPairingsAssumption
<1>2. none \notin S
  BY <1>1, NoneAssumption DEF NoneAssumption
<1>3. ASSUME S # {}
      PROVE  Min(S) \in S /\ \A i \in S : Min(S) <= i
  <2>1. PICK x \in S : \A y \in S : ~(<<y, x>> \in OpToRel(<, Nat))
    BY <1>1, <1>3, NatLessThanWellFounded, WFMin
  <2>2. \A y \in S : x <= y
    <3> SUFFICES ASSUME NEW y \in S, ~(x <= y) PROVE FALSE
      OBVIOUS
    <3>1. x \in Nat /\ y \in Nat /\ y < x
      BY <1>1
    <3>2. <<y, x>> \in OpToRel(<, Nat)
      BY <3>1 DEF OpToRel
    <3> QED BY <2>1, <3>2
  <2> QED BY <2>2 DEF Min
<1> QED BY <1>2, <1>3 DEF FirstOf

\* find_empty_block.
LEMMA EmptyBlockFound ==
  ASSUME NEW f
  PROVE  /\ FindEmptyBlock(f) = none <=> \A i \in SlotIdx : f.slot[i] # Erased
         /\ FindEmptyBlock(f) # none =>
              FindEmptyBlock(f) \in SlotIdx /\ f.slot[FindEmptyBlock(f)] = Erased
<1> DEFINE S == {i \in SlotIdx : f.slot[i] = Erased}
<1>1. /\ FirstOf(S) = none <=> S = {}
      /\ S # {} => FirstOf(S) \in S
  BY FirstOfSlots
<1> QED BY <1>1 DEF FindEmptyBlock

\* The record that find, update and remove meet first.
LEMMA PairingFound ==
  ASSUME NEW f, NEW dev
  PROVE  /\ FindPairing(f, dev) = none <=> \A i \in SlotIdx : ~Holds(f, i, dev)
         /\ FindPairing(f, dev) # none =>
              /\ FindPairing(f, dev) \in SlotIdx
              /\ Holds(f, FindPairing(f, dev), dev)
<1> DEFINE S == {i \in SlotIdx : Holds(f, i, dev)}
<1>1. /\ FirstOf(S) = none <=> S = {}
      /\ S # {} => FirstOf(S) \in S
  BY FirstOfSlots
<1> QED BY <1>1 DEF FindPairing

-----------------------------------------------------------------------------

\* A session has a slot; a client that is not verified has none, and is not marked.
SessionsKnown ==
  \A c \in Open :
    /\ client[c].dev \in Device
    /\ client[c].step = "verified" => client[c].id \in SlotIdx
    /\ client[c].step # "verified" => client[c].id = none /\ ~client[c].disconnect

\* The slot of session k holds its record, and then it is not marked, or is cleared.
InSlot(f, k) == (Holds(f, k.id, k.dev) /\ ~k.disconnect) \/ f.slot[k.id] = Cleared

IInv ==
  /\ TypeOK /\ OneContext /\ SetupHasContext
  /\ PairedAgrees /\ SessionsKeepTheirSlots /\ SessionsKnown

-----------------------------------------------------------------------------
(* The flash.                                                               *)

LEMMA FormattedTyped ==
  /\ FormattedSector \in Sector /\ NewSector \in Sector
  /\ ~HasAdmin(FormattedSector) /\ ~HasAdmin(NewSector)
  BY DEF FormattedSector, NewSector, ErasedSector, Sector, Slot, Erased, NoRecord, HasAdmin,
         HasRecord

LEMMA BootedTyped ==
  ASSUME NEW f \in Sector
  PROVE  Booted(f) \in Sector
  BY FormattedTyped DEF Booted

LEMMA ClearedTyped ==
  ASSUME NEW f \in Sector, NEW i
  PROVE  ClearSlot(f, i) \in Sector
<1>1. Cleared \in Slot
  BY DEF Slot
<1> QED BY <1>1 DEF ClearSlot, Sector

LEMMA AddedTyped ==
  ASSUME NEW f \in Sector, NEW dev \in Device, NEW perm \in Perm
  PROVE  /\ AddPairingTo(f, dev, perm) \in Sector
         /\ UpdatePairingIn(f, dev, perm) \in Sector
<1>1. Record(dev, perm) \in Slot /\ Garbage \in Slot
  BY DEF Record, Slot, Perm
<1>2. Compacted(f) \in Sector
  BY FormattedTyped DEF Compacted
<1>3. AddPairingTo(f, dev, perm) \in Sector
  BY <1>1, <1>2 DEF AddPairingTo, WriteRecord, Sector
<1> QED BY <1>3, ClearedTyped DEF UpdatePairingIn

CanStoreIn(f) == FindEmptyBlock(f) # none \/ MustCompact(f)

\* A record that is added without a compaction is in a slot that was erased; the other slots
\* are as before.
LEMMA RecordAdded ==
  ASSUME NEW f \in Sector, NEW dev \in Device, NEW perm \in Perm,
         CanStoreIn(f), ~MustCompact(f)
  PROVE  \E e \in SlotIdx :
           /\ f.slot[e] = Erased
           /\ AddPairingTo(f, dev, perm).slot = [f.slot EXCEPT ![e] = Record(dev, perm)]
<1> DEFINE e == FindEmptyBlock(f)
<1>1. Compacted(f) = f /\ e # none
  BY DEF Compacted, CanStoreIn
<1>2. e \in SlotIdx /\ f.slot[e] = Erased
  BY <1>1, EmptyBlockFound
<1>3. AddPairingTo(f, dev, perm).slot = [f.slot EXCEPT ![e] = Record(dev, perm)]
  BY <1>1, <1>2 DEF AddPairingTo, WriteRecord, Sector
<1> QED BY <1>2, <1>3

\* An added record changes the answer of HasAdmin as its permissions say.
LEMMA AdminAdded ==
  ASSUME NEW f \in Sector, NEW dev \in Device, NEW perm \in Perm,
         CanStoreIn(f), ~MustCompact(f)
  PROVE  HasAdmin(AddPairingTo(f, dev, perm)) <=> HasAdmin(f) \/ perm = "admin"
<1>1. PICK e \in SlotIdx :
        /\ f.slot[e] = Erased
        /\ AddPairingTo(f, dev, perm).slot = [f.slot EXCEPT ![e] = Record(dev, perm)]
  BY RecordAdded
<1>2. DOMAIN f.slot = SlotIdx
  BY DEF Sector
<1> QED BY <1>1, <1>2 DEF HasAdmin, HasRecord, Record, Erased, NoRecord

\* A cleared record takes an admin from the sector only if it was one's.
LEMMA AdminCleared ==
  ASSUME NEW f \in Sector, NEW i \in SlotIdx, HasRecord(f, i), f.slot[i].perm # "admin"
  PROVE  HasAdmin(ClearSlot(f, i)) <=> HasAdmin(f)
  BY DEF Sector, ClearSlot, HasAdmin, HasRecord, Cleared, NoRecord

LEMMA FoundPerm ==
  ASSUME NEW f \in Sector, NEW dev, FindPairing(f, dev) # none
  PROVE  /\ FindPairing(f, dev) \in SlotIdx /\ Holds(f, FindPairing(f, dev), dev)
         /\ PermOf(f, dev) = f.slot[FindPairing(f, dev)].perm
         /\ PermOf(f, dev) \in Perm
<1>1. FindPairing(f, dev) \in SlotIdx /\ Holds(f, FindPairing(f, dev), dev)
  BY PairingFound
<1>2. PermOf(f, dev) = f.slot[FindPairing(f, dev)].perm
  BY DEF PermOf
<1>3. f.slot[FindPairing(f, dev)] \in Slot
  BY <1>1 DEF Sector
<1>4. f.slot[FindPairing(f, dev)].perm \in Perm
  BY <1>1, <1>3 DEF Holds, HasRecord, Slot, Erased, Cleared, Garbage, NoRecord, Perm
<1> QED BY <1>1, <1>2, <1>4

-----------------------------------------------------------------------------
(* The pairing context.                                                     *)

ContextTyped ==
  /\ client \in [Ctx -> Client]
  /\ context \in Block \cup {none} /\ saved \in Block \cup {none}
  /\ pairing \in [Block -> Pairing]

ContextInv == ContextTyped /\ OneContext /\ SetupHasContext

\* A handler that has kept connections and steps (cl) may close its client.
LEMMA CloseContext ==
  ASSUME ContextInv, NEW c \in Ctx, NEW cl \in [Ctx -> Client],
         \A d \in Ctx : cl[d].open = client[d].open /\ cl[d].step = client[d].step,
         CloseAfter(c, cl)
  PROVE  ContextInv'
<1> DEFINE owner == context # none /\ pairing[context].client = c
<1>1. Closed \in Client /\ Free \in Pairing
  BY DEF Closed, Client, Free, Pairing, Steps
<1>2. /\ client' = [cl EXCEPT ![c] = Closed]
      /\ context' = IF owner THEN none ELSE context
      /\ saved' = IF owner /\ saved = context THEN none ELSE saved
      /\ pairing' = IF owner THEN [pairing EXCEPT ![context] = Free] ELSE pairing
  BY DEF CloseAfter
<1>3. /\ none \notin Block /\ none \notin Ctx
      /\ context # none => context \in Block
  BY BlockAssumption DEF BlockAssumption, ContextInv, ContextTyped
<1>4. ContextTyped'
  BY <1>1, <1>2, <1>3 DEF ContextInv, ContextTyped
<1>5. Open' = Open \ {c}
  BY <1>2 DEF Open, Closed
<1>6. OneContext'
  BY <1>2, <1>3, <1>5 DEF ContextInv, ContextTyped, OneContext, Free
<1>7. SetupHasContext'
  <2>1. \A d \in Open' : d # c /\ client'[d].step = client[d].step
    BY <1>2, <1>5 DEF Open
  <2> QED BY <1>2, <1>3, <1>5, <2>1 DEF ContextInv, ContextTyped, OneContext, SetupHasContext, Free
<1> QED BY <1>4, <1>6, <1>7 DEF ContextInv

\* An answer that does not begin or continue a pair-setup.
LEMMA AnswerContext ==
  ASSUME ContextInv, NEW c \in Open, NEW st \in Steps \ {"setup1", "setup2"}, Answer(c, st)
  PROVE  ContextInv'
<1>1. /\ client' = [client EXCEPT ![c].step = st]
      /\ UNCHANGED <<context, saved, pairing>>
  BY DEF Answer
<1>2. ContextTyped' /\ Open' = Open
  BY <1>1 DEF ContextInv, ContextTyped, Client, Open
<1>3. OneContext'
  BY <1>1, <1>2 DEF ContextInv, OneContext
<1>4. SetupHasContext'
  BY <1>1, <1>2 DEF ContextInv, ContextTyped, SetupHasContext, Open
<1> QED BY <1>2, <1>3, <1>4 DEF ContextInv

LEMMA AnswerOrCloseContext ==
  ASSUME ContextInv, NEW c \in Open, NEW st \in Steps \ {"setup1", "setup2"},
         AnswerOrClose(c, st)
  PROVE  ContextInv'
<1>1. c \in Ctx /\ client \in [Ctx -> Client]
  BY DEF Open, ContextInv, ContextTyped
<1> QED BY <1>1, AnswerContext, CloseContext DEF AnswerOrClose, Close

-----------------------------------------------------------------------------
(* The sessions.                                                            *)

\* What a step may do to the clients that remain: their identity stays, a session neither
\* begins nor ends, and who is not verified is not marked.
Remain ==
  \A d \in Open' :
    /\ d \in Open
    /\ client'[d].dev = client[d].dev /\ client'[d].id = client[d].id
    /\ client'[d].step = "verified" <=> client[d].step = "verified"
    /\ client'[d].step # "verified" => client'[d].disconnect = client[d].disconnect

\* ... and nobody is marked.
Shrinks == Remain /\ \A d \in Open' : client'[d].disconnect = client[d].disconnect

LEMMA SessionsStay ==
  ASSUME SessionsKeepTheirSlots, SessionsKnown, Remain, drift \subseteq drift',
         \A d \in Open' :
           /\ "formatted" \notin drift'
           /\ client'[d].step = "verified"
           /\ InSlot(flash, client[d])
           => InSlot(flash', client'[d])
  PROVE  SessionsKeepTheirSlots' /\ SessionsKnown'
<1>1. SessionsKnown'
  BY DEF SessionsKnown, Remain
<1>2. SessionsKeepTheirSlots'
  <2> SUFFICES ASSUME "formatted" \notin drift', NEW d \in Open',
                      client'[d].step = "verified"
               PROVE  InSlot(flash', client'[d])
    BY DEF SessionsKeepTheirSlots, InSlot
  <2>1. d \in Open /\ client[d].step = "verified"
    BY DEF Remain
  <2>2. InSlot(flash, client[d])
    BY <2>1 DEF SessionsKeepTheirSlots, InSlot
  <2> QED BY <2>2
<1> QED BY <1>1, <1>2

LEMMA CloseRemain ==
  ASSUME ContextTyped, NEW c \in Ctx, NEW cl \in [Ctx -> Client],
         \A d \in Ctx : /\ cl[d].open = client[d].open /\ cl[d].step = client[d].step
                        /\ cl[d].dev = client[d].dev /\ cl[d].id = client[d].id,
         \A d \in Open : client[d].step # "verified" => cl[d].disconnect = client[d].disconnect,
         CloseAfter(c, cl)
  PROVE  Remain /\ \A d \in Open' : d # c /\ client'[d] = cl[d]
<1>1. client' = [cl EXCEPT ![c] = Closed]
  BY DEF CloseAfter
<1>2. \A d \in Open' : d \in Ctx /\ d # c /\ client'[d] = cl[d]
  BY <1>1 DEF Open, Closed
<1>3. Open' \subseteq Open
  BY <1>2 DEF Open
<1> QED BY <1>2, <1>3 DEF Remain

LEMMA AnswerOrCloseShrinks ==
  ASSUME ContextTyped, NEW c \in Open, NEW st \in Steps,
         st = "verified" <=> client[c].step = "verified", AnswerOrClose(c, st)
  PROVE  Shrinks
<1>1. CASE Answer(c, st)
  BY <1>1 DEF Answer, Shrinks, Remain, Open, ContextTyped, Client
<1>2. CASE Close(c)
  <2>1. c \in Ctx /\ client \in [Ctx -> Client] /\ CloseAfter(c, client)
    BY <1>2 DEF Close, Open, ContextTyped
  <2> QED BY <2>1, CloseRemain DEF Shrinks
<1> QED BY <1>1, <1>2 DEF AnswerOrClose

-----------------------------------------------------------------------------
(* The steps.                                                               *)

LEMMA ContextOfIInv == IInv => ContextInv
  BY DEF IInv, TypeOK, ContextInv, ContextTyped

LEMMA RestartInv ==
  ASSUME NEW f \in Sector, Restart(f)
  PROVE  IInv'
<1> DEFINE p == CHOOSE b \in Block : TRUE
<1>1. p \in Block
  <2>1. Block # {}
    BY BlockAssumption, FS_EmptySet DEF BlockAssumption
  <2> QED BY <2>1
<1>2. /\ flash' = Booted(f) /\ client' = [c \in Ctx |-> Closed]
      /\ paired' = HasAdmin(Booted(f)) /\ context' = none
      /\ saved' = IF paired' THEN none ELSE p
      /\ pairing' = [b \in Block |-> IF b = saved' THEN Preinitialized ELSE Free]
      /\ mIsPaired' = FALSE /\ drift' = {}
  BY DEF Restart
<1>3. none \notin Block
  BY BlockAssumption DEF BlockAssumption
<1>4. /\ Closed \in Client /\ Free \in Pairing /\ Preinitialized \in Pairing
  BY DEF Closed, Client, Free, Preinitialized, Pairing, Steps
<1>5. TypeOK'
  <2>1. flash' \in Sector /\ paired' \in BOOLEAN
    BY <1>2, BootedTyped DEF HasAdmin
  <2> QED BY <1>1, <1>2, <1>4, <2>1 DEF TypeOK
<1>6. Open' = {}
  BY <1>2 DEF Open, Closed
<1>7. OneContext' /\ SetupHasContext'
  BY <1>1, <1>2, <1>3, <1>6 DEF OneContext, SetupHasContext, Free, Preinitialized
<1> QED BY <1>2, <1>5, <1>6, <1>7 DEF IInv, PairedAgrees, SessionsKeepTheirSlots, SessionsKnown

LEMMA InitIInv == Init => IInv
<1> SUFFICES ASSUME Init PROVE IInv
  OBVIOUS
<1>1. none \notin Block
  BY BlockAssumption DEF BlockAssumption
<1>2. /\ Closed \in Client /\ Free \in Pairing /\ Preinitialized \in Pairing
  BY DEF Closed, Client, Free, Preinitialized, Pairing, Steps
<1>3. TypeOK
  BY <1>2, FormattedTyped DEF Init, TypeOK
<1>4. Open = {}
  BY DEF Init, Open, Closed
<1>5. OneContext /\ SetupHasContext
  BY <1>1, <1>4 DEF Init, OneContext, SetupHasContext, Free, Preinitialized
<1> QED BY <1>3, <1>4, <1>5, FormattedTyped
        DEF Init, IInv, PairedAgrees, SessionsKeepTheirSlots, SessionsKnown

\* A step that stores nothing.
LEMMA QuietInv ==
  ASSUME IInv, ContextInv', Shrinks, UNCHANGED <<flash, paired, mIsPaired, drift>>
  PROVE  IInv'
<1>1. TypeOK'
  BY DEF IInv, TypeOK, ContextInv, ContextTyped
<1>2. PairedAgrees'
  BY DEF IInv, PairedAgrees
<1>3. \A d \in Open' : InSlot(flash, client[d]) => InSlot(flash', client'[d])
  BY DEF Shrinks, Remain, InSlot, Holds, HasRecord
<1>4. SessionsKeepTheirSlots' /\ SessionsKnown'
  BY <1>3, SessionsStay DEF IInv, Shrinks
<1> QED BY <1>1, <1>2, <1>4 DEF IInv, ContextInv

\* A step that answers, or closes its client, and stores nothing.
LEMMA AnsweredInv ==
  ASSUME IInv, NEW c \in Open, NEW st \in Steps \ {"setup1", "setup2"},
         st = "verified" <=> client[c].step = "verified",
         AnswerOrClose(c, st), UNCHANGED <<flash, paired, mIsPaired, drift>>
  PROVE  IInv'
<1>1. ContextInv'
  BY ContextOfIInv, AnswerOrCloseContext
<1>2. Shrinks
  BY ContextOfIInv, AnswerOrCloseShrinks DEF ContextInv
<1> QED BY <1>1, <1>2, QuietInv

LEMMA DisconnectedInv ==
  ASSUME IInv, NEW c \in Ctx, Disconnected(c)
  PROVE  IInv'
<1> DEFINE st == IF client[c].step = "verified" THEN "verified" ELSE "none"
<1>1. AnswerOrClose(c, st) /\ c \in Open /\ UNCHANGED <<flash, paired, mIsPaired, drift>>
  BY DEF Disconnected, AnswerOrClose
<1>2. st \in Steps \ {"setup1", "setup2"} /\ (st = "verified" <=> client[c].step = "verified")
  BY DEF Steps
<1> HIDE DEF st
<1> QED BY <1>1, <1>2, AnsweredInv

LEMMA ConnectInv ==
  ASSUME IInv, NEW c \in Ctx, NEW dev \in Device, Connect(c, dev)
  PROVE  IInv'
<1>1. /\ c \notin Open
      /\ client' = [client EXCEPT ![c] = NewClient(dev)]
      /\ UNCHANGED <<flash, paired, context, saved, pairing, mIsPaired, drift>>
  BY DEF Connect
<1>2. NewClient(dev) \in Client
  BY DEF NewClient, Closed, Client, Steps
<1>3. TypeOK'
  BY <1>1, <1>2 DEF IInv, TypeOK
<1>4. Open' = Open \cup {c} /\ \A d \in Open : d # c /\ client'[d] = client[d]
  BY <1>1 DEF IInv, TypeOK, Open, NewClient, Closed
<1>5. client'[c] = NewClient(dev)
  BY <1>1 DEF IInv, TypeOK
<1>6. \A d \in Open' : d = c \/ (d \in Open /\ client'[d] = client[d])
  BY <1>4
<1>8. OneContext'
  BY <1>1, <1>4 DEF IInv, OneContext
<1>9. SetupHasContext'
  <2>1. \A d \in Open' : client'[d].step \in {"setup1", "setup2"}
                           => d \in Open /\ client'[d] = client[d]
    BY <1>5, <1>6 DEF NewClient, Closed
  <2> QED BY <1>1, <2>1 DEF IInv, SetupHasContext
<1>10. PairedAgrees'
  BY <1>1 DEF IInv, PairedAgrees
<1>11. SessionsKeepTheirSlots' /\ SessionsKnown'
  <2>1. \A d \in Open' : client'[d].step = "verified" => d \in Open /\ client'[d] = client[d]
    BY <1>5, <1>6 DEF NewClient, Closed
  <2>2. client'[c].dev \in Device /\ client'[c].id = none /\ ~client'[c].disconnect
        /\ client'[c].step = "none"
    BY <1>5 DEF NewClient, Closed
  <2>3. SessionsKeepTheirSlots'
    BY <1>1, <2>1 DEF IInv, SessionsKeepTheirSlots
  <2>4. SessionsKnown'
    BY <1>6, <2>1, <2>2 DEF IInv, SessionsKnown
  <2> QED BY <2>3, <2>4
<1> QED BY <1>3, <1>8, <1>9, <1>10, <1>11 DEF IInv

\* LoopPreinit, IsPaired and ResetPairing leave the clients alone.
LEMMA LoopPreinitInv ==
  ASSUME IInv, LoopPreinit
  PROVE  IInv'
<1>1. /\ saved = none /\ saved' = FreeBlock
      /\ pairing' = [pairing EXCEPT ![saved'] = Preinitialized]
      /\ UNCHANGED <<flash, client, paired, context, mIsPaired, drift>>
  BY DEF LoopPreinit
<1>2. none \notin Block /\ Block # {}
  BY BlockAssumption, FS_EmptySet DEF BlockAssumption
<1>3. context = none /\ \A b \in Block : ~pairing[b].live
  BY <1>1, <1>2 DEF IInv, OneContext, TypeOK
<1>4. saved' \in Block
  BY <1>1, <1>2, <1>3 DEF FreeBlock
<1>5. ContextInv'
  <2>1. Preinitialized \in Pairing
    BY DEF Preinitialized, Pairing
  <2>2. ContextTyped'
    BY <1>1, <1>4, <2>1 DEF IInv, TypeOK, ContextTyped
  <2>3. OneContext'
    BY <1>1, <1>3, <1>4 DEF IInv, TypeOK, OneContext, Preinitialized
  <2>4. SetupHasContext'
    BY <1>1, <1>3, <1>4 DEF IInv, TypeOK, SetupHasContext, Preinitialized, Open
  <2> QED BY <2>2, <2>3, <2>4 DEF ContextInv
<1>6. Shrinks
  BY <1>1 DEF Shrinks, Remain, Open
<1> QED BY <1>1, <1>5, <1>6, QuietInv

LEMMA ApplicationInv ==
  ASSUME IInv, IsPaired \/ ResetPairing
  PROVE  IInv'
<1>1. UNCHANGED <<client, paired, context, saved, pairing>> /\ mIsPaired' \in BOOLEAN
  BY DEF IsPaired, ResetPairing, IsPairedAnswer, HasAdmin, IInv, TypeOK
<1>2. /\ flash' \in Sector
      /\ \/ UNCHANGED <<flash, drift>>
         \/ drift' = drift \cup {"formatted"}
  BY FormattedTyped DEF IsPaired, ResetPairing, IInv, TypeOK
<1>3. TypeOK'
  BY <1>1, <1>2 DEF IInv, TypeOK
<1>4. Open' = Open
  BY <1>1 DEF Open
<1> QED BY <1>1, <1>2, <1>3, <1>4
        DEF IInv, OneContext, SetupHasContext, PairedAgrees, SessionsKeepTheirSlots, SessionsKnown,
            Holds, HasRecord

-----------------------------------------------------------------------------
(* Pair-setup and pair-verify.                                              *)

\* The context pair-setup 1/3 works with is a block; no other client is in the middle of
\* pair-setup.
LEMMA Beginning ==
  ASSUME IInv, NEW c \in Ctx, MayBegin(c)
  PROVE  /\ c \in Open /\ client[c].step # "verified"
         /\ ContextFor \in Block
         /\ context # none => context = saved /\ pairing[context].client = c
         /\ \A d \in Open \ {c} : client[d].step \notin {"setup1", "setup2"}
<1>1. /\ c \in Open /\ client[c].step # "verified"
      /\ context # none => context = saved /\ pairing[context].client = c
  BY DEF MayBegin, Unencrypted, IInv, OneContext
<1>2. \A d \in Open \ {c} : client[d].step \notin {"setup1", "setup2"}
  BY <1>1 DEF IInv, SetupHasContext
<1>3. ContextFor \in Block
  <2>1. CASE context = none /\ saved = none
    <3>1. none \notin Block /\ Block # {}
      BY BlockAssumption, FS_EmptySet DEF BlockAssumption
    <3>2. \E b \in Block : ~pairing[b].live
      BY <2>1, <3>1 DEF IInv, OneContext
    <3>3. FreeBlock \in Block
      BY <3>2 DEF FreeBlock
    <3> QED BY <2>1, <3>3 DEF ContextFor
  <2>2. CASE ~(context = none /\ saved = none)
    BY <2>2 DEF ContextFor, IInv, TypeOK
  <2> QED BY <2>1, <2>2
<1> QED BY <1>1, <1>2, <1>3

LEMMA PairSetup1Inv ==
  ASSUME IInv, NEW c \in Ctx, PairSetup1(c)
  PROVE  IInv'
<1> DEFINE new == [Preinitialized EXCEPT !.client = c]
           b == ContextFor
<1>1. /\ context' = b
      /\ saved' = IF context = none /\ saved = none THEN b ELSE saved
      /\ pairing' = [pairing EXCEPT ![b] = IF context # none THEN @ ELSE new]
      /\ client' = [client EXCEPT ![c].step = "setup1"]
      /\ UNCHANGED <<flash, paired, mIsPaired, drift>>
  BY DEF PairSetup1
<1>2. /\ c \in Open /\ client[c].step # "verified" /\ b \in Block
      /\ context # none => context = saved /\ pairing[context].client = c
      /\ \A d \in Open \ {c} : client[d].step \notin {"setup1", "setup2"}
  BY Beginning DEF PairSetup1
<1>3. new \in Pairing /\ new.live /\ new.client = c
  BY DEF Preinitialized, Pairing
<1>4. none \notin Block
  BY BlockAssumption DEF BlockAssumption
<1>5. saved' = b /\ b # none
  BY <1>1, <1>2, <1>4 DEF ContextFor
<1>6. pairing'[b].client = c /\ pairing'[b].live
  BY <1>1, <1>2, <1>3 DEF IInv, TypeOK, OneContext, ContextFor
<1>7. Open' = Open /\ \A d \in Open \ {c} : client'[d] = client[d]
  BY <1>1, <1>2 DEF IInv, TypeOK, Client, Open
<1>8. ContextInv'
  <2>1. ContextTyped'
    BY <1>1, <1>2, <1>3, <1>5 DEF IInv, TypeOK, ContextTyped, Client, Steps
  <2>2. \A d \in Block \ {b} : pairing'[d].live = pairing[d].live /\ d # saved
    <3>1. \A d \in Block \ {b} : pairing'[d] = pairing[d]
      BY <1>1 DEF IInv, TypeOK
    <3>2. saved = b \/ saved = none
      BY <1>2 DEF ContextFor
    <3> QED BY <1>4, <3>1, <3>2
  <2>3. OneContext'
    BY <1>1, <1>2, <1>5, <1>6, <1>7, <2>2 DEF IInv, OneContext
  <2>4. SetupHasContext'
    BY <1>1, <1>2, <1>5, <1>6, <1>7 DEF SetupHasContext
  <2> QED BY <2>1, <2>3, <2>4 DEF ContextInv
<1>9. Shrinks
  BY <1>1, <1>2, <1>7 DEF Shrinks, Remain, IInv, TypeOK, Client, Open
<1> QED BY <1>1, <1>8, <1>9, QuietInv

LEMMA PairSetup1FailsInv ==
  ASSUME IInv, NEW c \in Ctx, PairSetup1Fails(c)
  PROVE  IInv'
<1> DEFINE b == ContextFor
<1>1. /\ context' = none
      /\ saved' = IF context # none /\ saved # context THEN saved ELSE none
      /\ pairing' = IF context = none /\ saved = none THEN pairing
                    ELSE [pairing EXCEPT ![b] = Free]
      /\ \/ client' = [client EXCEPT ![c].step = "none"]
         \/ client' = [client EXCEPT ![c] = Closed]
      /\ UNCHANGED <<flash, paired, mIsPaired, drift>>
  BY DEF PairSetup1Fails
<1>2. /\ c \in Open /\ client[c].step # "verified" /\ b \in Block
      /\ context # none => context = saved
      /\ \A d \in Open \ {c} : client[d].step \notin {"setup1", "setup2"}
  BY Beginning DEF PairSetup1Fails
<1>3. saved' = none
  BY <1>1, <1>2
<1>4. Free \in Pairing /\ ~Free.live /\ Closed \in Client /\ ~Closed.open
  BY DEF Free, Pairing, Closed, Client, Steps
<1>5. none \notin Block
  BY BlockAssumption DEF BlockAssumption
<1>6. \A d \in Open' : /\ d \in Open /\ client'[d].step \notin {"setup1", "setup2"}
                       /\ client'[d].dev = client[d].dev /\ client'[d].id = client[d].id
                       /\ client'[d].step = "verified" <=> client[d].step = "verified"
                       /\ client'[d].disconnect = client[d].disconnect
  BY <1>1, <1>2, <1>4 DEF IInv, TypeOK, Client, Open
<1>7. ContextInv'
  <2>1. client' \in [Ctx -> Client]
    BY <1>1, <1>4 DEF IInv, TypeOK, Client, Steps
  <2>2. ContextTyped'
    BY <1>1, <1>2, <1>3, <1>4, <2>1 DEF IInv, TypeOK, ContextTyped
  <2>3. OneContext'
    BY <1>1, <1>2, <1>3, <1>4, <1>5 DEF IInv, TypeOK, OneContext, ContextFor
  <2>4. SetupHasContext'
    BY <1>1, <1>3, <1>6 DEF SetupHasContext
  <2> QED BY <2>2, <2>3, <2>4 DEF ContextInv
<1>8. Shrinks
  BY <1>6 DEF Shrinks, Remain
<1> QED BY <1>1, <1>7, <1>8, QuietInv

\* A client in the middle of pair-setup owns the context, which is the saved one.
LEMMA Owner ==
  ASSUME IInv, NEW c \in Ctx, Unencrypted(c), client[c].step \in {"setup1", "setup2"}
  PROVE  /\ c \in Open /\ context \in Block /\ context # none /\ context = saved
         /\ pairing[context].client = c
         /\ \A d \in Open \ {c} : client[d].step \notin {"setup1", "setup2"}
<1>1. c \in Open
  BY DEF Unencrypted
<1> QED BY <1>1 DEF IInv, TypeOK, OneContext, SetupHasContext

LEMMA PairSetup2Inv ==
  ASSUME IInv, NEW c \in Ctx, NEW right \in BOOLEAN, PairSetup2(c, right)
  PROVE  IInv'
<1> DEFINE st == IF pairing[context].hasKey /\ right THEN "setup2" ELSE "none"
<1>1. /\ Unencrypted(c) /\ client[c].step = "setup1"
      /\ \/ /\ client' = [client EXCEPT ![c].step = st]
            /\ pairing' = [pairing EXCEPT ![context].hasKey = FALSE]
            /\ UNCHANGED <<context, saved>>
         \/ Close(c)
      /\ UNCHANGED <<flash, paired, mIsPaired, drift>>
  BY DEF PairSetup2
<1>2. /\ c \in Open /\ context \in Block /\ context # none /\ context = saved
      /\ pairing[context].client = c
      /\ \A d \in Open \ {c} : client[d].step \notin {"setup1", "setup2"}
  BY <1>1, Owner
<1>3. CASE Close(c)
  <2>1. AnswerOrClose(c, "none")
    BY <1>3 DEF AnswerOrClose
  <2> QED BY <1>1, <1>2, <2>1, AnsweredInv DEF Steps, Unencrypted
<1>4. CASE /\ client' = [client EXCEPT ![c].step = st]
           /\ pairing' = [pairing EXCEPT ![context].hasKey = FALSE]
           /\ UNCHANGED <<context, saved>>
  <2>1. Open' = Open /\ \A d \in Open \ {c} : client'[d] = client[d]
    BY <1>2, <1>4 DEF IInv, TypeOK, Client, Open
  <2>2. \A b \in Block : /\ pairing'[b].live = pairing[b].live
                         /\ pairing'[b].client = pairing[b].client
    BY <1>2, <1>4 DEF IInv, TypeOK, Pairing
  <2>3. st \in Steps /\ st # "verified"
    BY DEF Steps
  <2>4. ContextTyped'
    <3>1. client' \in [Ctx -> Client]
      BY <1>4, <2>3 DEF IInv, TypeOK, Client
    <3>2. pairing' \in [Block -> Pairing]
      BY <1>4 DEF IInv, TypeOK, Pairing
    <3> QED BY <1>4, <3>1, <3>2 DEF IInv, TypeOK, ContextTyped
  <2>5. OneContext'
    BY <1>2, <1>4, <2>1, <2>2 DEF IInv, OneContext
  <2>6. SetupHasContext'
    BY <1>2, <1>4, <2>1, <2>2 DEF SetupHasContext
  <2>7. Shrinks
    BY <1>1, <1>2, <1>4, <2>1, <2>3 DEF Shrinks, Remain, IInv, TypeOK, Client, Open
  <2> QED BY <1>1, <2>4, <2>5, <2>6, <2>7, QuietInv DEF ContextInv
<1> QED BY <1>1, <1>3, <1>4

\* The handlers that only answer or close.
LEMMA RefusedInv ==
  ASSUME IInv, NEW c \in Ctx,
         PairSetup1Refused(c) \/ PairSetup3Refused(c) \/ PairVerify1(c) \/ PairVerify2Refused(c)
  PROVE  IInv'
<1>1. /\ c \in Open /\ client[c].step # "verified"
      /\ AnswerOrClose(c, "none") \/ AnswerOrClose(c, "verify1")
      /\ UNCHANGED <<flash, paired, mIsPaired, drift>>
  BY DEF PairSetup1Refused, PairSetup3Refused, PairVerify1, PairVerify2Refused, Exchanged,
         Unencrypted
<1> QED BY <1>1, AnsweredInv DEF Steps

LEMMA PairVerify2Inv ==
  ASSUME IInv, NEW c \in Ctx, PairVerify2(c)
  PROVE  IInv'
<1> DEFINE i == FindPairing(flash, client[c].dev)
           adm == PermOf(flash, client[c].dev) = "admin"
<1>1. /\ c \in Open /\ client[c].step = "verify1" /\ i # none
      /\ \/ /\ client' = [client EXCEPT ![c].step = "verified", ![c].id = i, ![c].admin = adm]
            /\ UNCHANGED <<context, saved, pairing>>
         \/ Close(c)
      /\ UNCHANGED <<flash, paired, mIsPaired, drift>>
  BY DEF PairVerify2, Unencrypted
<1>2. i \in SlotIdx /\ Holds(flash, i, client[c].dev)
  BY <1>1, PairingFound
<1>3. CASE Close(c)
  <2>1. AnswerOrClose(c, "none")
    BY <1>3 DEF AnswerOrClose
  <2> QED BY <1>1, <2>1, AnsweredInv DEF Steps
<1>4. CASE /\ client' = [client EXCEPT ![c].step = "verified", ![c].id = i, ![c].admin = adm]
           /\ UNCHANGED <<context, saved, pairing>>
  <2>1. Open' = Open /\ \A d \in Open \ {c} : client'[d] = client[d]
    BY <1>1, <1>4 DEF IInv, TypeOK, Client, Open
  <2>2. /\ client'[c].step = "verified" /\ client'[c].id = i
        /\ client'[c].dev = client[c].dev /\ ~client'[c].disconnect
    BY <1>1, <1>4 DEF IInv, TypeOK, Client, Open, SessionsKnown
  <2>3. TypeOK'
    <3>1. client[c] \in Client /\ adm \in BOOLEAN /\ client \in [Ctx -> Client]
      BY DEF IInv, TypeOK
    <3>2. [client[c] EXCEPT !.step = "verified", !.id = i, !.admin = adm] \in Client
      BY <1>2, <3>1 DEF Client, Steps
    <3>3. client' = [client EXCEPT ![c] =
                       [client[c] EXCEPT !.step = "verified", !.id = i, !.admin = adm]]
      BY <1>4, <3>1
    <3>4. client' \in [Ctx -> Client]
      BY <3>1, <3>2, <3>3
    <3> QED BY <1>1, <1>4, <3>4 DEF IInv, TypeOK
  <2>4. OneContext'
    BY <1>4, <2>1 DEF IInv, OneContext
  <2>5. SetupHasContext'
    BY <1>4, <2>1, <2>2 DEF IInv, SetupHasContext
  <2>6. PairedAgrees'
    BY <1>1 DEF IInv, PairedAgrees
  <2>7. SessionsKeepTheirSlots'
    <3> SUFFICES ASSUME "formatted" \notin drift', NEW d \in Open', client'[d].step = "verified"
                 PROVE  \/ Holds(flash', client'[d].id, client'[d].dev) /\ ~client'[d].disconnect
                        \/ flash'.slot[client'[d].id] = Cleared
      BY DEF SessionsKeepTheirSlots
    <3>1. CASE d = c
      BY <1>1, <1>2, <2>2, <3>1 DEF Holds, HasRecord
    <3>2. CASE d # c
      BY <1>1, <2>1, <3>2 DEF IInv, SessionsKeepTheirSlots, Holds, HasRecord
    <3> QED BY <3>1, <3>2
  <2>8. SessionsKnown'
    BY <1>1, <1>2, <2>1, <2>2 DEF IInv, SessionsKnown
  <2> QED BY <2>3, <2>4, <2>5, <2>6, <2>7, <2>8 DEF IInv
<1> QED BY <1>1, <1>3, <1>4

-----------------------------------------------------------------------------
(* The handlers that store.                                                 *)

\* A call that adds a record and does not compact leaves every slot that is not erased.
LEMMA RecordsKept ==
  ASSUME NEW f \in Sector, NEW dev \in Device, NEW perm \in Perm, CanStoreIn(f)
  PROVE  ~MustCompact(f) =>
           \A i \in SlotIdx : f.slot[i] # Erased
                               => AddPairingTo(f, dev, perm).slot[i] = f.slot[i]
<1> SUFFICES ASSUME ~MustCompact(f), NEW i \in SlotIdx, f.slot[i] # Erased
             PROVE  AddPairingTo(f, dev, perm).slot[i] = f.slot[i]
  OBVIOUS
<1>1. PICK e \in SlotIdx :
        /\ f.slot[e] = Erased
        /\ AddPairingTo(f, dev, perm).slot = [f.slot EXCEPT ![e] = Record(dev, perm)]
  BY RecordAdded DEF CanStoreIn
<1>2. e # i
  BY <1>1
<1> QED BY <1>1, <1>2 DEF Sector

\* The slot of a session is not erased.
LEMMA SlotWasWritten ==
  ASSUME NEW f, NEW k, InSlot(f, k)
  PROVE  f.slot[k.id] # Erased
  BY DEF InSlot, Holds, HasRecord, Erased, Cleared, NoRecord

\* What adding a record does to the slot of a session: nothing, if no compaction formats the
\* sector.
LEMMA SessionKept ==
  ASSUME IInv, NEW dev \in Device, NEW perm \in Perm, CanStore,
         NEW d \in Open, client[d].step = "verified",
         InSlot(flash, client[d]), "formatted" \notin Formats
  PROVE  InSlot(AddPairingTo(flash, dev, perm), client[d])
<1>1. client[d].id \in SlotIdx /\ flash \in Sector /\ CanStoreIn(flash) /\ ~MustCompact(flash)
  BY DEF IInv, SessionsKnown, TypeOK, CanStore, CanStoreIn, Formats
<1>2. AddPairingTo(flash, dev, perm).slot[client[d].id] = flash.slot[client[d].id]
  BY <1>1, RecordsKept, SlotWasWritten
<1> QED BY <1>2 DEF InSlot, Holds, HasRecord

\* The device of an open client, as pair-setup 3/3 stores it.
LEMMA Stored ==
  ASSUME IInv, NEW c \in Ctx, Exchanged(c)
  PROVE  /\ c \in Open /\ client[c].dev \in Device /\ flash \in Sector
         /\ AddPairingTo(flash, client[c].dev, "admin") \in Sector
<1>1. c \in Open /\ client[c].dev \in Device /\ flash \in Sector
  BY DEF IInv, SessionsKnown, Exchanged, Unencrypted, TypeOK
<1> QED BY <1>1, AddedTyped DEF Perm

LEMMA PairSetup3Inv ==
  ASSUME IInv, NEW c \in Ctx, PairSetup3(c)
  PROVE  IInv'
<1> DEFINE dev == client[c].dev
<1>1. /\ Exchanged(c) /\ CanStore
      /\ flash' = AddPairingTo(flash, dev, "admin")
      /\ client' = [client EXCEPT ![c].step = "setup3"]
      /\ context' = none
      /\ saved' = IF saved = context THEN none ELSE saved
      /\ pairing' = [pairing EXCEPT ![context] = Free]
      /\ paired' = TRUE
      /\ drift' = drift \cup Formats
      /\ UNCHANGED <<mIsPaired>>
  BY DEF PairSetup3
<1>2. /\ c \in Open /\ context \in Block /\ context # none /\ context = saved
      /\ \A d \in Open \ {c} : client[d].step \notin {"setup1", "setup2"}
  BY <1>1, Owner DEF Exchanged
<1>3. dev \in Device /\ flash \in Sector /\ flash' \in Sector
  BY <1>1, Stored
<1>4. Open' = Open /\ \A d \in Open \ {c} : client'[d] = client[d]
  BY <1>1, <1>2 DEF IInv, TypeOK, Client, Open
<1>5. client'[c] = [client[c] EXCEPT !.step = "setup3"]
  BY <1>1, <1>2 DEF IInv, TypeOK
<1>6. Free \in Pairing /\ ~Free.live
  BY DEF Free, Pairing
<1>7. TypeOK'
  <2>1. client' \in [Ctx -> Client]
    BY <1>1 DEF IInv, TypeOK, Client, Steps
  <2>2. drift' \subseteq {"halfPaired", "demoted", "outlived", "formatted"}
    BY <1>1 DEF IInv, TypeOK, Formats
  <2> QED BY <1>1, <1>2, <1>3, <1>6, <2>1, <2>2 DEF IInv, TypeOK
<1>8. OneContext'
  <2>1. none \notin Block
    BY BlockAssumption DEF BlockAssumption
  <2> QED BY <1>1, <1>2, <1>6, <2>1 DEF IInv, TypeOK, OneContext
<1>9. SetupHasContext'
  BY <1>1, <1>2, <1>4, <1>5 DEF IInv, TypeOK, Client, SetupHasContext
<1>10. PairedAgrees'
  <2> SUFFICES ASSUME drift' = {} PROVE HasAdmin(flash')
    BY <1>1 DEF PairedAgrees
  <2>1. ~MustCompact(flash) /\ CanStoreIn(flash)
    BY <1>1 DEF Formats, CanStore, CanStoreIn
  <2> QED BY <1>1, <1>3, <2>1, AdminAdded DEF Perm
<1>11. SessionsKeepTheirSlots' /\ SessionsKnown'
  <2>1. Shrinks
    BY <1>1, <1>2, <1>4, <1>5 DEF Shrinks, Remain, IInv, TypeOK, Client, Exchanged
  <2>2. \A d \in Open' :
           /\ "formatted" \notin drift'
           /\ client'[d].step = "verified"
           /\ InSlot(flash, client[d])
           => InSlot(flash', client'[d])
    BY <1>1, <1>3, <2>1, SessionKept DEF Shrinks, Remain, Perm, InSlot
  <2> QED BY <1>1, <2>1, <2>2, SessionsStay DEF IInv, Shrinks
<1> QED BY <1>7, <1>8, <1>9, <1>10, <1>11 DEF IInv

\* A handler that has stored, and answers or closes, without a change of paired.
LEMMA StoredInv ==
  ASSUME IInv, ContextInv', Remain, flash' \in Sector,
         drift \subseteq drift',
         drift' \subseteq {"halfPaired", "demoted", "outlived", "formatted"},
         paired' \in BOOLEAN, UNCHANGED mIsPaired, PairedAgrees',
         \A d \in Open' :
           /\ "formatted" \notin drift'
           /\ client'[d].step = "verified"
           /\ InSlot(flash, client[d])
           => InSlot(flash', client'[d])
  PROVE  IInv'
<1>1. TypeOK'
  BY DEF IInv, TypeOK, ContextInv, ContextTyped
<1>2. SessionsKeepTheirSlots' /\ SessionsKnown'
  BY SessionsStay DEF IInv
<1> QED BY <1>1, <1>2 DEF IInv, ContextInv

LEMMA PairSetup3HalfDoneInv ==
  ASSUME IInv, NEW c \in Ctx, PairSetup3HalfDone(c)
  PROVE  IInv'
<1>1. /\ Exchanged(c) /\ CanStore
      /\ flash' = AddPairingTo(flash, client[c].dev, "admin")
      /\ drift' = drift \cup Formats \cup {"halfPaired"}
      /\ AnswerOrClose(c, "none")
      /\ UNCHANGED <<paired, mIsPaired>>
  BY DEF PairSetup3HalfDone
<1>2. c \in Open /\ client[c].dev \in Device /\ flash' \in Sector
  BY <1>1, Stored
<1>3. ContextInv' /\ Shrinks
  BY <1>1, <1>2, ContextOfIInv, AnswerOrCloseContext, AnswerOrCloseShrinks
     DEF ContextInv, Steps, Exchanged
<1>4. \A d \in Open' :
        /\ "formatted" \notin drift'
        /\ client'[d].step = "verified"
        /\ InSlot(flash, client[d])
        => InSlot(flash', client'[d])
  BY <1>1, <1>2, <1>3, SessionKept DEF Shrinks, Remain, Perm, InSlot
<1>5. PairedAgrees'
  BY <1>1 DEF PairedAgrees
<1>6. drift' \subseteq {"halfPaired", "demoted", "outlived", "formatted"} /\ paired' \in BOOLEAN
  BY <1>1 DEF IInv, TypeOK, Formats
<1> QED BY <1>1, <1>2, <1>3, <1>4, <1>5, <1>6, StoredInv DEF Shrinks

LEMMA AddPairingInv ==
  ASSUME IInv, NEW c \in Ctx, NEW dev \in Device, NEW perm \in Perm, AddPairing(c, dev, perm)
  PROVE  IInv'
<1>1. /\ c \in Open /\ client[c].step = "verified" /\ CanStore
      /\ flash' = AddPairingTo(flash, dev, perm)
      /\ drift' = drift \cup Formats \cup Outlived(perm)
      /\ AnswerOrClose(c, "verified")
      /\ UNCHANGED <<paired, mIsPaired>>
  BY DEF AddPairing, Encrypted
<1>2. flash \in Sector /\ flash' \in Sector /\ paired' \in BOOLEAN
  BY <1>1, AddedTyped DEF IInv, TypeOK
<1>3. ContextInv' /\ Shrinks
  BY <1>1, ContextOfIInv, AnswerOrCloseContext, AnswerOrCloseShrinks DEF ContextInv, Steps
<1>4. \A d \in Open' :
        /\ "formatted" \notin drift'
        /\ client'[d].step = "verified"
        /\ InSlot(flash, client[d])
        => InSlot(flash', client'[d])
  BY <1>1, <1>3, SessionKept DEF Shrinks, Remain, InSlot
<1>5. PairedAgrees'
  <2> SUFFICES ASSUME drift' = {} PROVE paired' <=> HasAdmin(flash')
    BY DEF PairedAgrees
  <2>1. drift = {} /\ ~MustCompact(flash) /\ CanStoreIn(flash) /\ (perm = "admin" => paired)
    BY <1>1 DEF Formats, Outlived, CanStore, CanStoreIn
  <2> QED BY <1>1, <1>2, <2>1, AdminAdded DEF IInv, PairedAgrees
<1>6. drift' \subseteq {"halfPaired", "demoted", "outlived", "formatted"}
  BY <1>1 DEF IInv, TypeOK, Formats, Outlived
<1> QED BY <1>1, <1>2, <1>3, <1>4, <1>5, <1>6, StoredInv DEF Shrinks

LEMMA UpdatePairingInv ==
  ASSUME IInv, NEW c \in Ctx, NEW dev \in Device, NEW perm \in Perm, UpdatePairing(c, dev, perm)
  PROVE  IInv'
<1> DEFINE i == FindPairing(flash, dev)
           added == AddPairingTo(flash, dev, perm)
           demoted == IF PermOf(flash, dev) = "admin" /\ perm = "user" THEN {"demoted"} ELSE {}
<1>1. /\ c \in Open /\ client[c].step = "verified" /\ i # none /\ CanStore
      /\ flash' = ClearSlot(added, i)
      /\ drift' = drift \cup Formats \cup Outlived(perm) \cup demoted
      /\ AnswerOrClose(c, "verified")
      /\ UNCHANGED <<paired, mIsPaired>>
  BY DEF UpdatePairing, Encrypted, UpdatePairingIn
<1>2. flash \in Sector /\ added \in Sector /\ flash' \in Sector /\ paired' \in BOOLEAN
  BY <1>1, AddedTyped, ClearedTyped DEF IInv, TypeOK
<1>3. /\ i \in SlotIdx /\ Holds(flash, i, dev)
      /\ PermOf(flash, dev) = flash.slot[i].perm /\ PermOf(flash, dev) \in Perm
  BY <1>1, <1>2, FoundPerm
<1>5. ContextInv' /\ Shrinks
  BY <1>1, ContextOfIInv, AnswerOrCloseContext, AnswerOrCloseShrinks DEF ContextInv, Steps
<1>6. \A j \in SlotIdx : flash'.slot[j] = IF j = i THEN Cleared ELSE added.slot[j]
  BY <1>1, <1>2 DEF ClearSlot, Sector
<1>7. \A d \in Open' :
        /\ "formatted" \notin drift'
        /\ client'[d].step = "verified"
        /\ InSlot(flash, client[d])
        => InSlot(flash', client'[d])
  <2> SUFFICES ASSUME NEW d \in Open', "formatted" \notin drift',
                      client'[d].step = "verified", InSlot(flash, client[d])
               PROVE  InSlot(flash', client'[d])
    OBVIOUS
  <2>1. /\ d \in Open /\ client[d].step = "verified"
        /\ client'[d].id = client[d].id /\ client'[d].dev = client[d].dev
        /\ client'[d].disconnect = client[d].disconnect
    BY <1>5 DEF Shrinks, Remain
  <2>2. client[d].id \in SlotIdx
    BY <2>1 DEF IInv, SessionsKnown
  <2>3. InSlot(added, client[d])
    BY <1>1, <2>1, SessionKept
  <2>4. CASE client[d].id = i
    BY <1>6, <2>1, <2>2, <2>4 DEF InSlot
  <2>5. CASE client[d].id # i
    <3>1. flash'.slot[client[d].id] = added.slot[client[d].id]
      BY <1>6, <2>2, <2>5
    <3> QED BY <2>1, <2>3, <3>1 DEF InSlot, Holds, HasRecord
  <2> QED BY <2>4, <2>5
<1>8. PairedAgrees'
  <2> SUFFICES ASSUME drift' = {} PROVE paired' <=> HasAdmin(flash')
    BY DEF PairedAgrees
  <2>1. /\ drift = {} /\ ~MustCompact(flash) /\ CanStoreIn(flash)
        /\ perm = "admin" => paired
        /\ perm = "user" => flash.slot[i].perm # "admin"
    BY <1>1, <1>3 DEF Formats, Outlived, CanStore, CanStoreIn
  <2>2. paired <=> HasAdmin(flash)
    BY <2>1 DEF IInv, PairedAgrees
  <2>3. PICK e \in SlotIdx : /\ flash.slot[e] = Erased
                             /\ added.slot = [flash.slot EXCEPT ![e] = Record(dev, perm)]
    BY <1>2, <2>1, RecordAdded
  <2>4. e # i /\ added.slot[i] = flash.slot[i] /\ added.slot[e] = Record(dev, perm)
    BY <1>2, <1>3, <2>3 DEF Sector, Holds, HasRecord, Erased, NoRecord
  <2>5. CASE perm = "admin"
    <3>1. flash'.slot[e] = Record(dev, "admin")
      BY <1>1, <1>2, <2>4, <2>5 DEF ClearSlot, Sector
    <3>2. HasAdmin(flash')
      BY <3>1, <2>3 DEF HasAdmin, HasRecord, Record
    <3> QED BY <1>1, <2>1, <2>5, <3>2
  <2>6. CASE perm = "user"
    <3>1. HasAdmin(added) <=> HasAdmin(flash)
      BY <1>2, <2>1, <2>6, AdminAdded
    <3>2. HasRecord(added, i) /\ added.slot[i].perm # "admin"
      BY <1>3, <2>1, <2>4, <2>6 DEF Holds, HasRecord
    <3> QED BY <1>1, <1>2, <1>3, <2>2, <3>1, <3>2, AdminCleared
  <2> QED BY <2>5, <2>6 DEF Perm
<1>9. drift' \subseteq {"halfPaired", "demoted", "outlived", "formatted"}
  BY <1>1 DEF IInv, TypeOK, Formats, Outlived
<1>10. drift \subseteq drift' /\ UNCHANGED mIsPaired
  BY <1>1
<1> HIDE DEF i, added, demoted
<1> QED BY <1>2, <1>5, <1>7, <1>8, <1>9, <1>10, StoredInv DEF Shrinks

LEMMA RemovePairingInv ==
  ASSUME IInv, NEW c \in Ctx, NEW dev \in Device, RemovePairing(c, dev)
  PROVE  IInv'
<1> DEFINE i == FindPairing(flash, dev)
<1>1. /\ c \in Open /\ i # none
      /\ flash' = ClearSlot(flash, i)
      /\ paired' = (paired /\ (PermOf(flash, dev) = "admin" => HasAdmin(flash')))
      /\ \/ client' = Marked(dev) /\ UNCHANGED <<context, saved, pairing>>
         \/ CloseAfter(c, Marked(dev))
      /\ UNCHANGED <<mIsPaired, drift>>
  BY DEF RemovePairing, Encrypted, RemovePairingFrom, PairedWithout
<1>2. flash \in Sector /\ flash' \in Sector /\ paired' \in BOOLEAN
  BY <1>1, ClearedTyped DEF IInv, TypeOK
<1>3. /\ i \in SlotIdx /\ Holds(flash, i, dev)
      /\ PermOf(flash, dev) = flash.slot[i].perm
  BY <1>1, <1>2, FoundPerm
<1>4. \A d \in Ctx : /\ Marked(dev)[d] = [client[d] EXCEPT !.disconnect = @ \/ client[d].id = i]
                     /\ client[d] \in Client
  BY DEF Marked, IInv, TypeOK
<1>5. /\ Marked(dev) \in [Ctx -> Client]
      /\ \A d \in Ctx : /\ Marked(dev)[d].open = client[d].open
                        /\ Marked(dev)[d].step = client[d].step
                        /\ Marked(dev)[d].dev = client[d].dev
                        /\ Marked(dev)[d].id = client[d].id
                        /\ client[d].id # i => Marked(dev)[d].disconnect = client[d].disconnect
  <2>1. \A d \in Ctx : Marked(dev)[d] \in Client
    BY <1>4 DEF Client
  <2>2. Marked(dev) \in [Ctx -> Client]
    BY <2>1 DEF Marked
  <2> QED BY <1>4, <2>2 DEF Client
<1>6. c \in Ctx /\ client \in [Ctx -> Client]
      /\ \A d \in Open : client[d].step # "verified" => client[d].id # i
  BY <1>1 DEF IInv, TypeOK, SessionsKnown, Open
<1>7. ContextInv' /\ Remain /\ \A d \in Open' : client'[d] = Marked(dev)[d]
  <2>1. CASE client' = Marked(dev) /\ UNCHANGED <<context, saved, pairing>>
    <3>1. Open' = Open
      BY <1>5, <2>1 DEF Open
    <3>2. ContextTyped'
      BY <1>5, <2>1 DEF IInv, TypeOK, ContextTyped
    <3>3. OneContext'
      BY <2>1, <3>1 DEF IInv, OneContext
    <3>4. SetupHasContext'
      BY <1>5, <2>1, <3>1 DEF IInv, SetupHasContext, Open
    <3>5. Remain
      BY <1>5, <1>6, <2>1, <3>1 DEF Remain, Open
    <3> QED BY <2>1, <3>2, <3>3, <3>4, <3>5 DEF ContextInv
  <2>2. CASE CloseAfter(c, Marked(dev))
    <3>1. \A d \in Open : client[d].step # "verified"
                             => Marked(dev)[d].disconnect = client[d].disconnect
      BY <1>5, <1>6 DEF Open
    <3> QED BY <1>5, <1>6, <2>2, <3>1, ContextOfIInv, CloseContext, CloseRemain
            DEF ContextInv
  <2> QED BY <1>1, <2>1, <2>2
<1>8. \A d \in Open' :
        /\ "formatted" \notin drift'
        /\ client'[d].step = "verified"
        /\ InSlot(flash, client[d])
        => InSlot(flash', client'[d])
  <2> SUFFICES ASSUME NEW d \in Open', client'[d].step = "verified", InSlot(flash, client[d])
               PROVE  InSlot(flash', client'[d])
    OBVIOUS
  <2>1. d \in Open /\ d \in Ctx /\ client[d].step = "verified" /\ client'[d] = Marked(dev)[d]
    BY <1>7 DEF Remain, Open
  <2>2. client[d].id \in SlotIdx
    BY <2>1 DEF IInv, SessionsKnown
  <2>3. flash'.slot[client[d].id] = IF client[d].id = i THEN Cleared ELSE flash.slot[client[d].id]
    BY <1>1, <1>2, <2>2 DEF ClearSlot, Sector
  <2>4. CASE client[d].id = i
    BY <1>5, <2>1, <2>3, <2>4 DEF InSlot
  <2>5. CASE client[d].id # i
    BY <1>5, <2>1, <2>3, <2>5 DEF InSlot, Holds, HasRecord
  <2> QED BY <2>4, <2>5
<1>9. PairedAgrees'
  <2> SUFFICES ASSUME drift' = {} PROVE paired' <=> HasAdmin(flash')
    BY DEF PairedAgrees
  <2>1. paired <=> HasAdmin(flash)
    BY <1>1 DEF IInv, PairedAgrees
  <2>2. CASE PermOf(flash, dev) = "admin"
    <3>1. HasAdmin(flash)
      BY <1>3, <2>2 DEF HasAdmin, Holds
    <3> QED BY <1>1, <2>1, <2>2, <3>1
  <2>3. CASE PermOf(flash, dev) # "admin"
    <3>1. HasAdmin(flash') <=> HasAdmin(flash)
      BY <1>1, <1>2, <1>3, <2>3, AdminCleared DEF Holds
    <3> QED BY <1>1, <2>1, <2>3, <3>1
  <2> QED BY <2>2, <2>3
<1>10. drift \subseteq drift' /\ drift' \subseteq {"halfPaired", "demoted", "outlived", "formatted"}
  BY <1>1 DEF IInv, TypeOK
<1>11. UNCHANGED mIsPaired
  BY <1>1
<1> HIDE DEF i
<1> QED BY <1>2, <1>7, <1>8, <1>9, <1>10, <1>11, StoredInv

-----------------------------------------------------------------------------
(* All steps, and the theorems.                                             *)

LEMMA RestartsInv ==
  ASSUME IInv,
         \/ CompactFault \/ ResetAndReboot \/ PowerLoss
         \/ \E c \in Ctx : Fault(c) \/ PairSetup3Faults(c)
  PROVE  IInv'
<1>1. flash \in Sector
  BY DEF IInv, TypeOK
<1>2. \E f \in Sector : Restart(f)
  <2>1. CASE \E c \in Ctx : PairSetup3Faults(c)
    BY <2>1, Stored DEF PairSetup3Faults
  <2>2. CASE ~\E c \in Ctx : PairSetup3Faults(c)
    BY <1>1, <2>2, FormattedTyped DEF CompactFault, ResetAndReboot, PowerLoss, Fault
  <2> QED BY <2>1, <2>2
<1> QED BY <1>2, RestartInv

LEMMA InductiveStep == IInv /\ [Next]_vars => IInv'
<1> SUFFICES ASSUME IInv, [Next]_vars PROVE IInv'
  OBVIOUS
<1>1. CASE UNCHANGED vars
  <2>1. Open' = Open
    BY <1>1 DEF vars, Open
  <2> QED BY <1>1, <2>1
          DEF vars, IInv, TypeOK, OneContext, SetupHasContext, PairedAgrees,
              SessionsKeepTheirSlots, SessionsKnown, Holds, HasRecord
<1>2. CASE LoopPreinit \/ IsPaired \/ ResetPairing
  BY <1>2, LoopPreinitInv, ApplicationInv
<1>3. CASE \/ CompactFault \/ ResetAndReboot \/ PowerLoss
           \/ \E c \in Ctx : Fault(c) \/ PairSetup3Faults(c)
  BY <1>3, RestartsInv
<1>4. CASE \E c \in Ctx, dev \in Device : Connect(c, dev) \/ RemovePairing(c, dev)
  BY <1>4, ConnectInv, RemovePairingInv
<1>5. CASE \E c \in Ctx, dev \in Device, perm \in Perm :
             AddPairing(c, dev, perm) \/ UpdatePairing(c, dev, perm)
  BY <1>5, AddPairingInv, UpdatePairingInv
<1>6. CASE \E c \in Ctx : \/ Disconnected(c) \/ PairSetup1(c) \/ PairSetup1Fails(c)
                          \/ PairSetup3(c) \/ PairSetup3HalfDone(c) \/ PairVerify2(c)
                          \/ \E right \in BOOLEAN : PairSetup2(c, right)
  BY <1>6, DisconnectedInv, PairSetup1Inv, PairSetup1FailsInv, PairSetup2Inv, PairSetup3Inv,
     PairSetup3HalfDoneInv, PairVerify2Inv
<1>7. CASE \E c \in Ctx : \/ PairSetup1Refused(c) \/ PairSetup3Refused(c)
                          \/ PairVerify1(c) \/ PairVerify2Refused(c)
  BY <1>7, RefusedInv
<1> QED BY <1>1, <1>2, <1>3, <1>4, <1>5, <1>6, <1>7 DEF Next

LEMMA Inductive == Spec => []IInv
<1>1. Init => IInv
  BY InitIInv
<1>2. IInv /\ [Next]_vars => IInv'
  BY InductiveStep
<1> QED BY <1>1, <1>2, PTL DEF Spec

\* The variables of the pairing protocol keep their types.
THEOREM PairingTypeCorrect == Spec => []TypeOK
<1>1. IInv => TypeOK
  BY DEF IInv
<1> QED BY <1>1, Inductive, PTL

\* server->pairing_context and saved_preinit_pairing_context never part, and the context in
\* use belongs to a connected client.
THEOREM ContextIsOne == Spec => []OneContext
<1>1. IInv => OneContext
  BY DEF IInv
<1> QED BY <1>1, Inductive, PTL

\* Who is in the middle of pair-setup owns the context its next message will use.
THEOREM SetupKeepsContext == Spec => []SetupHasContext
<1>1. IInv => SetupHasContext
  BY DEF IInv
<1> QED BY <1>1, Inductive, PTL

\* server->paired agrees with the flash, unless a step in drift has parted them.
THEOREM PairedTellsFlash == Spec => []PairedAgrees
<1>1. IInv => PairedAgrees
  BY DEF IInv
<1> QED BY <1>1, Inductive, PTL

\* The slot of a session never comes to name another controller: no session is marked for a
\* removal that is not its own.
THEOREM SessionsStandOnSlots == Spec => []SessionsKeepTheirSlots
<1>1. IInv => SessionsKeepTheirSlots
  BY DEF IInv
<1> QED BY <1>1, Inductive, PTL
=============================================================================
