--------------------------- MODULE PairingServer ---------------------------
(***************************************************************************)
(* Pairing with the HomeKit server (arduino_homekit_server.cpp):           *)
(* pair-setup, pair-verify, the pairings requests, the one pairing context *)
(* that all connections share, and the two flags that remember whether the *)
(* accessory is paired.                                                    *)
(*                                                                         *)
(* The controllers follow the protocol: a message of a later step is sent  *)
(* after the answer to the earlier one.  Cryptography is exact: a proof is *)
(* accepted when the setup code was typed right, a signature always.       *)
(* Storage calls run to their end; PairingStorage has their steps.         *)
(***************************************************************************)
EXTENDS PairingFlash

CONSTANTS Ctx,      \* the client contexts
          Block     \* the memory blocks of pairing contexts

ASSUME BlockAssumption == none \notin Block \cup Ctx /\ Cardinality(Block) >= 2

VARIABLES
  flash,       \* the sector of the pairings
  client,      \* the client contexts
  paired,      \* server->paired
  context,     \* server->pairing_context
  saved,       \* saved_preinit_pairing_context
  pairing,     \* the pairing contexts
  mIsPaired,   \* CHomeKit::mIsPaired
  drift        \* why the flash and server->paired may disagree until the next start

vars == <<flash, client, paired, context, saved, pairing, mIsPaired, drift>>

Steps == {"none", "setup1", "setup2", "setup3", "verify1", "verified"}

Client == [open : BOOLEAN, dev : Device \cup {none}, step : Steps,
           id : SlotIdx \cup {none}, admin : BOOLEAN, disconnect : BOOLEAN]

Closed == [open |-> FALSE, dev |-> none, step |-> "none",
           id |-> none, admin |-> FALSE, disconnect |-> FALSE]

NewClient(dev) == [Closed EXCEPT !.open = TRUE, !.dev = dev]

\* pairing_context_t.  hasKey: public_key is there, from preinit until pair-setup 2/3.
Pairing == [live : BOOLEAN, client : Ctx \cup {none}, hasKey : BOOLEAN]

Free == [live |-> FALSE, client |-> none, hasKey |-> FALSE]

Preinitialized == [live |-> TRUE, client |-> none, hasKey |-> TRUE]

Open == {c \in Ctx : client[c].open}

FreeBlock == CHOOSE p \in Block : ~pairing[p].live

\* A formatted sector in which homekit_server_init has written a new identity.
NewSector == [FormattedSector EXCEPT !.ident = "both"]

\* What a start makes of the flash: without an identity it is formatted.
Booted(f) == IF f.ident = "none" THEN NewSector ELSE f

\* The state after homekit_server_init: an admin in flash sets paired, else the pairing
\* context is preinitialized.
Restart(f) ==
  LET p == CHOOSE b \in Block : TRUE IN
  /\ flash' = Booted(f)
  /\ client' = [c \in Ctx |-> Closed]
  /\ paired' = HasAdmin(Booted(f))
  /\ context' = none
  /\ saved' = IF paired' THEN none ELSE p
  /\ pairing' = [b \in Block |-> IF b = saved' THEN Preinitialized ELSE Free]
  /\ mIsPaired' = FALSE
  /\ drift' = {}

Init ==
  /\ flash = NewSector
  /\ client = [c \in Ctx |-> Closed]
  /\ paired = FALSE
  /\ context = none
  /\ saved \in Block
  /\ pairing = [b \in Block |-> IF b = saved THEN Preinitialized ELSE Free]
  /\ mIsPaired = FALSE
  /\ drift = {}

-----------------------------------------------------------------------------
(* Closing and answering.                                                   *)

\* A wrong CloseAfter: the context is freed and saved still points to it.
CloseLeavesSaved(c, cl) ==
  LET owner == context # none /\ pairing[context].client = c IN
  /\ client' = [cl EXCEPT ![c] = Closed]
  /\ context' = IF owner THEN none ELSE context
  /\ pairing' = IF owner THEN [pairing EXCEPT ![context] = Free] ELSE pairing
  /\ UNCHANGED saved

\* homekit_server_close_client, after a handler left the clients cl; it frees the pairing
\* context of its client.
CloseAfter(c, cl) ==
  LET owner == context # none /\ pairing[context].client = c IN
  /\ client' = [cl EXCEPT ![c] = Closed]
  /\ context' = IF owner THEN none ELSE context
  /\ saved' = IF owner /\ saved = context THEN none ELSE saved
  /\ pairing' = IF owner THEN [pairing EXCEPT ![context] = Free] ELSE pairing

Close(c) == CloseAfter(c, client)

\* The answer is written and the client is at step st; the pairing contexts do not change.
Answer(c, st) ==
  /\ client' = [client EXCEPT ![c].step = st]
  /\ UNCHANGED <<context, saved, pairing>>

\* An answer that could be written, or closed the client.
AnswerOrClose(c, st) == Answer(c, st) \/ Close(c)

Unencrypted(c) == c \in Open /\ client[c].step # "verified"

Encrypted(c) == c \in Open /\ client[c].step = "verified"

-----------------------------------------------------------------------------
(* Connections.                                                             *)

Connect(c, dev) ==
  /\ c \notin Open
  /\ client' = [client EXCEPT ![c] = NewClient(dev)]
  /\ UNCHANGED <<flash, paired, context, saved, pairing, mIsPaired, drift>>

Disconnected(c) ==
  /\ c \in Open
  /\ Close(c)
  /\ UNCHANGED <<flash, paired, mIsPaired, drift>>

\* A write failed and the rest of the handler ran on the freed client: its body is
\* freed twice, and the program comes through (Close) or faults.
Fault(c) ==
  /\ c \in Open
  /\ Restart(flash)

-----------------------------------------------------------------------------
(* Pair-setup.                                                              *)

\* arduino_homekit_loop: an unpaired server has a context preinitialized.
LoopPreinit ==
  /\ ~paired /\ saved = none
  /\ saved' = FreeBlock
  /\ pairing' = [pairing EXCEPT ![saved'] = Preinitialized]
  /\ UNCHANGED <<flash, client, paired, context, mIsPaired, drift>>

\* Pair-setup 1/3 is refused when the server is paired, when another client owns the
\* pairing context, or when none can be created.
PairSetup1Refused(c) ==
  /\ Unencrypted(c)
  /\ \/ paired
     \/ context # none /\ pairing[context].client # c
     \/ context = none /\ saved = none
  /\ AnswerOrClose(c, "none")
  /\ UNCHANGED <<flash, paired, mIsPaired, drift>>

\* A wrong MayBegin: another client's pair-setup is not looked for.
MayAlwaysBegin(c) == Unencrypted(c) /\ ~paired

MayBegin(c) ==
  /\ Unencrypted(c)
  /\ ~paired
  /\ context # none => pairing[context].client = c

\* The context pair-setup 1/3 works with: the one the client owns, the saved one, or one
\* it creates.
ContextFor ==
  IF context # none THEN context ELSE IF saved # none THEN saved ELSE FreeBlock

\* Pair-setup 1/3 answers with the public key of the context, or an empty one if there
\* is none.
PairSetup1(c) ==
  /\ MayBegin(c)
  /\ context' = ContextFor
  /\ saved' = IF context = none /\ saved = none THEN ContextFor ELSE saved
  /\ pairing' = [pairing EXCEPT ![ContextFor] =
       IF context # none THEN @ ELSE [Preinitialized EXCEPT !.client = c]]
  /\ client' = [client EXCEPT ![c].step = "setup1"]
  /\ UNCHANGED <<flash, paired, mIsPaired, drift>>

\* The salt cannot be had, or the answer cannot be written: the context is freed and the
\* client is told, or closed.
PairSetup1Fails(c) ==
  /\ MayBegin(c)
  /\ context' = none
  /\ saved' = IF context # none /\ saved # context THEN saved ELSE none
  /\ pairing' = IF context = none /\ saved = none THEN pairing
                ELSE [pairing EXCEPT ![ContextFor] = Free]
  /\ \/ client' = [client EXCEPT ![c].step = "none"]
     \/ client' = [client EXCEPT ![c] = Closed]
  /\ UNCHANGED <<flash, paired, mIsPaired, drift>>

\* Pair-setup 2/3.  The shared secret needs the public key, which is freed then; after
\* that the proof shows whether the setup code was typed right.
PairSetup2(c, right) ==
  /\ Unencrypted(c) /\ client[c].step = "setup1"
  /\ LET proven == pairing[context].hasKey /\ right IN
     \/ /\ client' = [client EXCEPT ![c].step = IF proven THEN "setup2" ELSE "none"]
        /\ pairing' = [pairing EXCEPT ![context].hasKey = FALSE]
        /\ UNCHANGED <<context, saved>>
     \/ Close(c)
  /\ UNCHANGED <<flash, paired, mIsPaired, drift>>

Exchanged(c) == Unencrypted(c) /\ client[c].step = "setup2"

CanStore == FindEmptyBlock(flash) # none \/ MustCompact(flash)

Formats == IF MustCompact(flash) THEN {"formatted"} ELSE {}

\* Pair-setup 3/3 stores the controller as admin ...
PairSetup3(c) ==
  /\ Exchanged(c) /\ CanStore
  /\ flash' = AddPairingTo(flash, client[c].dev, "admin")
  /\ client' = [client EXCEPT ![c].step = "setup3"]
  /\ context' = none
  /\ saved' = IF saved = context THEN none ELSE saved
  /\ pairing' = [pairing EXCEPT ![context] = Free]
  /\ paired' = TRUE
  /\ drift' = drift \cup Formats
  /\ UNCHANGED mIsPaired

\* ... or cannot, because all slots are taken or something before that went wrong ...
PairSetup3Refused(c) ==
  /\ Exchanged(c)
  /\ AnswerOrClose(c, "none")
  /\ UNCHANGED <<flash, paired, mIsPaired, drift>>

\* ... or fails after that: the record stays, paired and the context are as before.
PairSetup3HalfDone(c) ==
  /\ Exchanged(c) /\ CanStore
  /\ flash' = AddPairingTo(flash, client[c].dev, "admin")
  /\ drift' = drift \cup Formats \cup {"halfPaired"}
  /\ AnswerOrClose(c, "none")
  /\ UNCHANGED <<paired, mIsPaired>>

\* The last answer cannot be written: the client is closed, its context with it, and
\* pairing_context_free gets a null pointer.
PairSetup3Faults(c) ==
  /\ Exchanged(c) /\ CanStore
  /\ Restart(AddPairingTo(flash, client[c].dev, "admin"))

-----------------------------------------------------------------------------
(* Pair-verify.                                                             *)

PairVerify1(c) ==
  /\ Unencrypted(c)
  /\ AnswerOrClose(c, "verify1") \/ AnswerOrClose(c, "none")
  /\ UNCHANGED <<flash, paired, mIsPaired, drift>>

\* A controller without a pairing is refused.
PairVerify2Refused(c) ==
  /\ Unencrypted(c) /\ client[c].step = "verify1"
  /\ FindPairing(flash, client[c].dev) = none
  /\ AnswerOrClose(c, "none")
  /\ UNCHANGED <<flash, paired, mIsPaired, drift>>

\* pairing_id and permissions are those of the record that was found; the session is
\* encrypted from here on and keeps them.
PairVerify2(c) ==
  /\ Unencrypted(c) /\ client[c].step = "verify1"
  /\ FindPairing(flash, client[c].dev) # none
  /\ \/ /\ client' = [client EXCEPT ![c].step = "verified",
                        ![c].id = FindPairing(flash, client[c].dev),
                        ![c].admin = PermOf(flash, client[c].dev) = "admin"]
        /\ UNCHANGED <<context, saved, pairing>>
     \/ Close(c)
  /\ UNCHANGED <<flash, paired, mIsPaired, drift>>

-----------------------------------------------------------------------------
(* The pairings requests, for admins only.                                  *)

\* A session that outlived its pairing, the last admin's, makes an admin: AddPairing does
\* not set paired.
Outlived(perm) == IF perm = "admin" /\ ~paired THEN {"outlived"} ELSE {}

\* AddPairing of a controller that has a record changes its permissions.
UpdatePairing(c, dev, perm) ==
  /\ Encrypted(c) /\ client[c].admin
  /\ FindPairing(flash, dev) # none /\ CanStore
  /\ flash' = UpdatePairingIn(flash, dev, perm)
  /\ drift' = drift \cup Formats \cup Outlived(perm) \cup
       (IF PermOf(flash, dev) = "admin" /\ perm = "user" THEN {"demoted"} ELSE {})
  /\ AnswerOrClose(c, "verified")
  /\ UNCHANGED <<paired, mIsPaired>>

AddPairing(c, dev, perm) ==
  /\ Encrypted(c) /\ client[c].admin
  /\ FindPairing(flash, dev) = none /\ CanAddPairing(flash) /\ CanStore
  /\ flash' = AddPairingTo(flash, dev, perm)
  /\ drift' = drift \cup Formats \cup Outlived(perm)
  /\ AnswerOrClose(c, "verified")
  /\ UNCHANGED <<paired, mIsPaired>>

\* compact_data faults when it copies a record down (see PairingStorage).
CompactFault ==
  /\ MustCompact(flash) /\ CopiesDown(flash)
  /\ \/ \E c \in Ctx : Exchanged(c)
     \/ \E c \in Ctx : Encrypted(c) /\ client[c].admin
  /\ Restart(flash)

\* A wrong Marked: the record is looked for when it is cleared already.
MarkedAfter(dev) ==
  [d \in Ctx |-> [client[d] EXCEPT
     !.disconnect = @ \/ client[d].id = FindPairing(RemovePairingFrom(flash, dev), dev)]]

\* Every client with the pairing_id of the record of dev is marked, and nothing reads the
\* mark.
Marked(dev) ==
  [d \in Ctx |-> [client[d] EXCEPT !.disconnect = @ \/ client[d].id = FindPairing(flash, dev)]]

\* A wrong PairedWithout: no look at the admins that are left.
PairedStill(dev) == paired

\* If the record was an admin's, another one is looked for.
PairedWithout(dev) ==
  paired /\ (PermOf(flash, dev) = "admin" => HasAdmin(RemovePairingFrom(flash, dev)))

RemovePairing(c, dev) ==
  /\ Encrypted(c) /\ client[c].admin
  /\ FindPairing(flash, dev) # none
  /\ flash' = RemovePairingFrom(flash, dev)
  /\ paired' = PairedWithout(dev)
  /\ \/ client' = Marked(dev) /\ UNCHANGED <<context, saved, pairing>>
     \/ CloseAfter(c, Marked(dev))
  /\ UNCHANGED <<mIsPaired, drift>>

-----------------------------------------------------------------------------
(* The application.                                                         *)

\* CHomeKit::IsPaired, which every pass of the loop asks.
IsPairedAnswer == mIsPaired \/ HasAdmin(flash)

IsPaired ==
  /\ mIsPaired' = IsPairedAnswer
  /\ UNCHANGED <<flash, client, paired, context, saved, pairing, drift>>

\* CHomeKit::ResetPairing without a restart: the server is not told.
ResetPairing ==
  /\ flash' = FormattedSector
  /\ mIsPaired' = FALSE
  /\ drift' = drift \cup {"formatted"}
  /\ UNCHANGED <<client, paired, context, saved, pairing>>

\* The command RESET_PAIRING, or ResetPairing with a restart.
ResetAndReboot == Restart(FormattedSector)

PowerLoss == Restart(flash)

Next ==
  \/ LoopPreinit \/ CompactFault \/ IsPaired \/ ResetPairing \/ ResetAndReboot \/ PowerLoss
  \/ \E c \in Ctx :
       \/ \E dev \in Device : Connect(c, dev) \/ RemovePairing(c, dev)
       \/ \E dev \in Device, perm \in Perm :
            AddPairing(c, dev, perm) \/ UpdatePairing(c, dev, perm)
       \/ Disconnected(c) \/ Fault(c)
       \/ PairSetup1Refused(c) \/ PairSetup1(c) \/ PairSetup1Fails(c)
       \/ \E right \in BOOLEAN : PairSetup2(c, right)
       \/ PairSetup3(c) \/ PairSetup3Refused(c) \/ PairSetup3HalfDone(c) \/ PairSetup3Faults(c)
       \/ PairVerify1(c) \/ PairVerify2Refused(c) \/ PairVerify2(c)

Spec == Init /\ [][Next]_vars

-----------------------------------------------------------------------------

\* The variables have their types.
TypeOK ==
  /\ flash \in Sector
  /\ client \in [Ctx -> Client]
  /\ paired \in BOOLEAN
  /\ context \in Block \cup {none}
  /\ saved \in Block \cup {none}
  /\ pairing \in [Block -> Pairing]
  /\ mIsPaired \in BOOLEAN
  /\ drift \subseteq {"halfPaired", "demoted", "outlived", "formatted"}

\* The two pointers to a pairing context never part: the one in use is the saved one, it
\* is live, and no other one is, so that none is freed twice, used after it was freed or
\* lost, whichever of the paths that free it is taken.  And the one in use belongs to a
\* connected client: who goes away in the middle of pair-setup does not keep others from it.
OneContext ==
  /\ context # none => context = saved /\ pairing[context].client \in Open
  /\ \A b \in Block : pairing[b].live <=> b = saved

\* A client in the middle of pair-setup owns the context its next message will use, and one
\* that waits for an owner still has its public key: whoever used it took it along.
SetupHasContext ==
  /\ \A c \in Open : client[c].step \in {"setup1", "setup2"}
                       => context # none /\ pairing[context].client = c
  /\ context = none /\ saved # none => pairing[saved].hasKey

\* server->paired says what the flash says, through pairing, removal and restarts,
\* unless one of the steps in drift has parted them.
PairedAgrees == drift = {} => (paired <=> HasAdmin(flash))

\* A session remembers its pairing by the slot it was verified with, and RemovePairing
\* looks for sessions by it (server.cpp:3654).  Whatever has been added, updated or removed
\* meanwhile, that slot holds the controller's record or is cleared; it never comes to name
\* another controller.  So only a session whose record has left its slot is marked to be
\* disconnected, never a bystander.  (Which of those sessions are marked, the property does
\* not say: the one whose record an update moved is missed, and nothing reads the mark.)
\* A format without a restart, after which slots are written again, is excepted.
SessionsKeepTheirSlots ==
  "formatted" \notin drift =>
    \A c \in Open :
      client[c].step = "verified"
        => \/ Holds(flash, client[c].id, client[c].dev) /\ ~client[c].disconnect
           \/ flash.slot[client[c].id] = Cleared
=============================================================================
