# Verification of HomeKit-ESP8266

TLA+ models of the HomeKit accessory server of this repository, TLC runs that check
them on small instances, and proofs that TLAPS checks for every instance. Paths are
those of the repository (`src/...` is its source directory, found here under `src/src`).

Contents: [the system](#the-system) · [modules](#the-modules) · [runs](#the-runs) ·
[proofs](#the-proofs) · [what the code does otherwise than it says](#disagreements) ·
[what is not covered](#not-modelled) · [plan](#plan)

## The system

The program is a sketch for the ESP8266. It has one thread: the Arduino core calls
`loop()` for ever, which calls `CHomeKit::Loop`. Nothing runs at the same time as it
except the network stack and the radio; what makes the program concurrent is that peers
connect, close and lose connections between any two of its steps, that power can fail
between any two writes to flash, that a handler that cannot write its answer closes
its own connection in the middle of its work, and that the units of a service are driven
by tickers of different intervals.

| Component | State | Operations | Interacts with |
|---|---|---|---|
| Record queue, `cQueue.c` | ring of slots, `in`, `out`, `cnt` | push, pop, peek, drop, peekIdx, flush, init | one per client holds its events |
| Server loop and connections, `arduino_homekit_server.cpp` | `clients` (linked list), `nfds`, a context per connection | accept, process, close, notify | the network; every other part of the server |
| Event notification, `accessories.c` | `callback` list of a characteristic, `event_queue` of a client | add, remove and clear callbacks, notify, drain | setters of the application, PUT requests |
| Pairing protocol | `pairing_context`, `saved_preinit_pairing_context`, `paired`, `step` and `pairing_id` of a client | pair-setup 1 to 3, pair-verify 1 and 2, add, remove, list pairings | pairing storage, cryptography |
| Pairing storage, `storage.c` | one sector of NOR flash | init, reset, add, update, remove, find, compact | server start, pairing protocol, menu |
| Secure channel and HTTP front end | `data`, `data_available`, `count_reads`, `count_writes`, `encrypted`, parser, `body` | read, decrypt, parse, dispatch, encrypt | every connection |
| Characteristics requests | `value` of a characteristic | GET, PUT, permissions, ranges | JSON, setters, notification |
| Value model, `hb_homekit.*` | value of a characteristic, field of a unit | `modify_value`, `modify_value_and_notify` | requests, units, menus |
| Simple file system, `hb_homekit.*` | a page of entries with a checksum, write-back flag | open, write, format, write back | user pages of `storage.c` |
| WiFi, `hb_homekit.cpp`, `hb_wifi_menu.cpp` | station or access point, stored credentials, watchdogs | connect, login, reconnect, restart | tickers, file system |
| Tickers, `hb_homekit.h` | slots with `mLastTick` | start, tick | units, watchdogs |
| Garage door, `HomeKit_GarageDoorOpener.*` | door state, believed motor, last message, markers | target, buttons, sensor readings, clock | notification, tickers |
| Thermostat and sensor | readings and settings, one copy per unit | sampling, control, setters, commands | notification, tickers |
| TLV codec, median filter, web menus, logging, cryptography, platform | text, buffers | conversions, calls of libraries | |

What is hard here, and which property each component stands or falls with:

- *Traversals of a list that shrinks under them.* `homekit_server_process` and
  `homekit_server_process_notifications` read `context->next` after the call that may have
  freed the context. The list, the count `nfds`, the callbacks and the queues have to stay
  in agreement (`ListOK`, `CursorListed`, `NoDangling`).
- *Order and loss of events.* Queues are bounded, overwrite, and are drained youngest
  first (`OthersAreNotified`, `FreshView`, `QueueDrains`, `AnnouncedIsValue`).
- *Several connections, one pairing context* with two pointers to it, freed on six paths
  (`OneContext`, `SetupHasContext`).
- *Facts kept in two places.* `server->paired`, `mIsPaired` and the slot number in a session
  repeat what the flash says (`PairedAgrees`, `SessionsKeepTheirSlots`);
  characteristics, units and the device behind them repeat a setting (`UnitIsTold`, `CopiesAgree`,
  `SettingsReachUnit`); the opener believes in a motor it cannot see (`MotorComesToRest`,
  `RunIsGivenItsTime`, `ReportCatchesUp`).
- *A byte stream that is cut anywhere*, with one counter on each side that must not slip
  (`CleanDelivery`, `AnswersReadable`, `RequestAnswered`).
- *Flash that fails in the middle.* A bit goes from 1 to 0 only; a sector is erased as a
  whole (`NoGarbage`, `OneRecord`, `PairingsSurvive`, `ImplementsCalls`, `CallsEnd`,
  `TableOK`, `ImplementsFileStore`).
- *Recovery without a user* (`ComesBack`, `Watched`, `RestartFindsBack`, `OnlyLoginStrands`).
- *Boundaries*: wrap of the ring and of `millis()`, the limit of clients, a full table.

`PROJECT.json` lists these hazards one by one, at their lines.

## The modules

| Module | Models | Uses |
|---|---|---|
| `BoundedQueue` | what `cQueue.h` promises: a bounded queue or stack | |
| `CQueue`, `CQueueMachine` | the operations of `cQueue.c`, and one queue under every sequence of calls | `BoundedQueue` |
| `CQueueProofs` | its invariant, and that it implements `BoundedQueue` | TLAPS |
| `NotifyEvents` | server loop, connections, subscriptions, event queues | |
| `NotifyEventsProofs` | its safety properties | TLAPS |
| `PairingFlash` | the sector, what is found in it, and the calls of `storage.c` as a caller sees them | |
| `PairingCalls` | abstract: each call of `storage.c` one step, and the flash that follows it | `PairingFlash` |
| `PairingStorage` | the same calls one flash operation a step, loss of power, the start | `PairingFlash`, `PairingCalls` |
| `PairingStorageProofs` | its safety properties, and that it implements `PairingCalls` | TLAPS |
| `PairingServer` | pair-setup, pair-verify, pairings requests, flags, sessions | `PairingFlash` |
| `PairingServerProofs` | its safety properties | TLAPS |
| `SecureChannel` | frames, read buffer, parser and dispatch of one connection | |
| `Requests` | PUT and GET of characteristics, values, setters, getters | |
| `RequestsProofs` | its safety properties | TLAPS |
| `FileStore` | what the simple file system promises | |
| `FileSystem` | the page and its write-back, one flash operation a step | `FileStore` |
| `FileSystemProofs` | its table, and that it implements `FileStore` | TLAPS |
| `WiFiConnection` | station, access point, login, watchdogs, restarts | |
| `ConnectionProofs` | the safety properties of `SecureChannel` and `WiFiConnection` | TLAPS |
| `GarageDoor` | control unit, motor and door, HomeKit, pages, clock | |
| `Thermostat` | units, chain of command, tickers, device | |
| `ServicesProofs` | the safety properties of `GarageDoor` and `Thermostat` | TLAPS |
| `MC...` | instances for TLC | |

Several modules hold, just before a definition, an operator whose comment begins with "A
wrong": the form the definition would have with a plausible mistake. No specification uses
them; `PROJECT.json` names the property that each would break.

### CQueue, CQueueMachine, BoundedQueue

A queue is the record of `Queue_t`; the operators carry the names of the C functions and
take and return such records, so that a mutable structure becomes a value. `contents(q)`
reads the ring oldest first; it is the refinement mapping: `ImplementsQueue` says that
every call on the ring is a call on the promised sequence, where a full queue refuses or
forgets the oldest record. `q_peekIdx` is promised for a FIFO only.

### NotifyEvents

`pc` and `cur` are the program counter of `homekit_server_process`: `idle` between two
passes, then the traversal that serves the clients, then the one that drains their queues.
One action is one step of a traversal: a whole request with all that its handler changes,
or a whole EVENT message. `sock` is what the network holds of a connection (`last`: the
peer has closed it with a request still in the buffer). A request ends in `Reply`, whose
`outcome` is what the socket did: `sent`, `dropped` (the socket is no longer connected and
`write` returns) or `failed` (a short write, upon which `write` closes the client). After
`failed` the rest of the handler runs on freed memory; `NextOf` reads the pointer the block
still holds, and `Fault` is the other outcome of that undefined behaviour, a restart.

The event queue is the LIFO of `CQueue`, kept as the sequence that `BoundedQueue` shows it
to be. `Coalesced` is what is left of it when events are popped youngest first and a later
one replaces the value. `view` is a history variable: what the controller has learnt from
answers and events since it subscribed. Between two drains a characteristic may change any
number of times. `late` is a history variable too: the characteristics whose last change came
while an earlier event of theirs was still queued, and those that have lost an event in a full
queue since. A drain hands out the oldest value of such a characteristic last, so that its
subscribers may be left with a value that is no longer true; it leaves `late` when it changes
with none of its events queued. Pair-verify is one action here; `PairingServer` has its messages.

### PairingFlash, PairingCalls, PairingStorage

A slot is erased, a record, cleared or garbage; garbage is what a write over anything but an
erased slot leaves. `op` is the call in progress and the place in it. Three history variables
say what is owed: `promised`, the permission a controller was last promised; `doubled`, the
controllers that may have two records because a loss of power cut an update off or because
pair-setup adds without looking; `lost`, those whose promise a compaction has put at risk when
it zeroed the magic, or who were added to a sector it has left without an identity. A start
that formats the sector takes no promise back: a controller that was promised something, and is
not in `lost`, must be found. `StartPerm` is what a start would find. `Restart` is a loss of power; `CompactFault` is the copy of `compact_data`
to an address far behind its buffer (line 314), harmless or fatal. The start is
`homekit_server_init` with its loads, resets and the generation of a new identity.

`PairingCalls` is what a caller sees. `sector` changes at once, by the operators of
`PairingFlash`; `durable`, the slots a start would find, follows slot by slot (`Write`), and no
controller that is found both before and after is missing on the way. A call begins when the
last one has come to its end (`Quiet`). After a loss of power `durable` is all there is
(`PowerFails`). The mapping of `PairingStorage` is `Settled`, the sector as it will be when what
is in progress has ended, and `Durable`. An update that has to compact writes the new record
and then clears the slot of the old one, which may be the slot it has just written:
`UpdatePairingIn` says so as well, and `CompactionKeepsPairings` is where that shows.

### PairingServer

Storage calls are atomic here (`AddPairingTo`, `UpdatePairingIn`, `RemovePairingFrom` of
`PairingFlash`, which include the compaction as the code has it); `ImplementsCalls` is what
allows it, as nothing else of the server runs while a call does. A `Block` is the memory of
a pairing context, so that a pointer kept after its block was freed would show. A client's
`id` is the slot it was verified with. Every answer may fail and close its client; what
happens after that is in the action, or in `Fault` if the program does not survive it.
`drift` names the steps after which flash and `server->paired` are known to disagree until
the next start. An update writes the record to another slot and clears the old one; sessions
keep the number of the old one, which then names nobody (`SessionsKeepTheirSlots`).

Controllers follow the protocol and cryptography is exact: a proof is accepted when the
setup code was typed right, a signature always.

### SecureChannel

One connection, from the two messages of pair-verify in the clear to the encrypted session.
A request is a line with its headers and some units of body; it is sent as frames of up to
`MaxChunk` units, each with a header and a tag (`Overhead`: 18 bytes are two units here). TCP
keeps the order and cuts anywhere: `Read` takes any number of bytes that fits behind
`data_available`, and does with them what `homekit_client_process` does, including its
mistakes. `client_decrypt_` is given the number of bytes of this read, but the start of the
buffer (4036), so that a frame that was left over is read again (`Decrypt` is given `n`); a read of less than 18 bytes
makes the size of the plain text wrap around (1352), `malloc` fails, and the parser runs
through what is there; of two frames in one read both are written to the start of the block
(1387); a frame that is not complete hands the parser the bytes that `malloc` found (`heap`,
`Junk`). `pieces` records how the reads have cut the stream so far ("frame": one whole frame a
read), and the properties about delivery are stated for the cutting the code can cope with,
`AnswersReadable` for all.

The handler of a URL is what the request was for: `homekit_server_on_url` compares the URL
anew with every piece it is handed, by prefixes, so that a URL in two pieces may choose a
wrong one or none. The parser callbacks the code does not set are left as `malloc` found them
(3962). `POST /resource` never gets an answer (3776). These three are outside the model.

### Requests

A handler runs to its end before the loop goes on, so that a PUT of several items or a GET
is one step. Each item goes through the checks in the order of
`process_characteristics_update`: the characteristic is found, it may be written, its value
fits the format, the range and the list, and only then is it stored, announced to the other
subscribers and told to the unit (the setter). `announced` is a history variable: the value of
the youngest event queued for a client, or of what it has read or written itself since. Events
are put into queues here and no more; in which order they come out, and what a client then
believes, is for `NotifyEvents`. `Outcomes` is what the first items of a request
have made of the state, `Outcome` what all of them make of it. `Description` is what a
characteristic was declared with, and `Legal` the values that follow from it; nothing else says
what a valid value is. Numbers come as halves, so that 3 is 1.5; a setter tells the unit of a
change only, as the services do. `Command` and `Report` are the two ways the application
changes a value (`modify_value_and_notify`), `Sense` a reading behind a getter. A switch may be
given a getter of the user's besides its setter; what its unit knows is then the user's affair,
and `UnitIsTold` leaves it out.

Left out: an item `True` for an integer (it is stored as 0, contrary to the comment near
3017; the instance has no such item), statuses as they are printed (`json_uint8` makes 252 of
−70404), and the parsing of `ev`: anything but a boolean counts as false.

### FileStore, FileSystem

A page has a table of entries, their bytes and a check sum, which covers the table only: the
model keeps the table that it is of in its place. An instance reads the page (`Open`), works
on its copy and writes it back when it is destroyed, in two flash operations, between and
within which power may fail (`WriteTorn`); a flash call may also refuse. `FileStore` promises
named files with the length they were created with and a copy that outlives the power; while
the copy is replaced the files may be gone or end in erased bytes. `ImplementsFileStore` shows
that the page does not do worse. What the promise has to allow is in `Lose` and `Format`: a
page that cannot be read is formatted and, when the instance is destroyed, overwritten.

Not in the model: a file of size 0 (`FileAssumption`; its entry could begin behind the memory,
and the next start refuses the page), instances that are open at once, and the write of a part
of a page (`storage.c:624` would write the wrong bytes; the file system always writes all).

### WiFiConnection

`Setup` blocks until it is through, so a boot is one step, and so are a command and a watchdog
call with the 30 seconds they may try. `router` is the network as it is; `stored` the
credentials in the file system; `items` those that the next `STAConnect` will try, into which
a page may put the name of another network (`EnterWLogin`); `creds` those of the last
`WiFi.begin`, with which the stack reconnects. `wiped` is a history variable:
`FormatFileSystem` has erased the stored credentials, the connection goes on, and a restart
would not find it again until something is saved. `dog` is the ticker
`ConnectOrDie` has started: the one of the station goes on for ever, the one of the access
point is used up after one call. Tickers run while `known`, the sticky `CHomeKit::IsPaired`.
The access point turns into a restart when nobody has used it (`inUse`). `Login` joins, saves
and starts anew; `LoginFails` leaves neither station nor access point. In a station the watchdog
opens them again, if the accessory takes itself for paired; in an access point only its own
watchdog can still restart the accessory, if it has not been called yet (`Stranded`) and tickers
run. `Watching` is a watchdog that is started and whose ticker runs: an accessory as it comes
out of the box has none.

### GarageDoor

The opener sees positions, or nothing, and believes in a motor: `drive` is the motor itself,
`motor` the belief. `Tick` is the control unit's ticker: it asks the sensor
(`QueryDoorState`, with its delay against flicker and the time since the last marker), follows
the belief (`OnDoorStateChanged`) and sends HomeKit what differs from the last message. A
position is a number from open to closed and the markers are ranges that pages move and swap.
`SyncDateTime` is the network setting the clock: the time since the last marker becomes years.
`since` is that time in ticks, capped beyond `Total`; `started`, `stepped` and `overridden` are
history.

### Thermostat

A message passes the units of a host from the last to the first until one says it has handled
it; that the recorder asks for a reading inside one makes the order matter. `slots` are those of
`CController::Ticker` with `mLastTick`, of which there are `MaxTickerSlots` (a ticker that finds
none is refused in silence), and `Loop` is one pass over them at some later time on
a clock that wraps at `Wrap`. `unit` has a field for every copy a unit keeps; `device` is what
the callback was told last. `Set` is HomeKit or a page changing a setting, `Override` a page
writing the current state.

## The runs

| Run | Instance | Shows |
|---|---|---|
| `queue` | 3 slots, 3 records, all four kinds of queue | ring invariant, refinement of `BoundedQueue` |
| `notify` | 3 context blocks for 2 places, 2 characteristics of 2 values, queues of 2, any number of changes between two drains | list, traversal and callback invariants, fresh views, notification of the others |
| `notify_live` | 2 contexts, 1 characteristic of 2 values, queues of 1 | queued events are sent or given up, closed connections leave the list |
| `storage` | 3 slots, 2 controllers | flash invariants under loss of power, that calls end, and the refinement of `PairingCalls` |
| `storage_compaction` | 2 slots, 2 controllers | a violation, see [below](#disagreements) |
| `pairing` | 2 connections, 2 controllers, 2 slots, 2 blocks | the invariants of the pairing protocol |
| `channel` | frames of up to 4 units, 4 requests of 1, 2 or 5 units, answers of 1 or 2 frames | delivery, readability of the answers, and that a controller gets one |
| `requests` | 2 clients, characteristics of type bool, uint8, string and float, 17 kinds of item, 2 per request | units, announcements and statuses agree with what was done |
| `files` | 2 entries, 3 names, 3 bytes of memory, sizes 1 and 2 | table invariant, refinement of `FileStore` |
| `connection` | 3 credentials: those of the network, those it changes to, and wrong ones; login, format and restart at any time | watchdogs, restarts, recovery |
| `garage` | 3 positions, a run of 2 ticks, rest after 2 ticks, delay of 1, 2 commands; the trigger pin | markers, stall, rest of the motor, what HomeKit shows |
| `thermostat` | 4 units, intervals 1, 2 and 1 on a clock of 4, readings 19 and 23, four states, two values of each threshold | copies and settings agree, the device follows |

Why the bounds are enough. Three slots let a ring wrap, be full, partly full and empty with
the two indices in every relation. In `notify` a third connection meets a full server and
takes over the block of a closed one, events of different characteristics are coalesced in one
message, and a queue of two holds two events of one characteristic or overflows; in
`notify_live` every second change between two drains is an overwriting one.
Three slots let a compaction meet cleared slots before, between and behind records. Two
connections and two controllers give every pair of roles in pairing (owner and intruder, admin
and user, remover and removed), and two slots a full table, a cleared slot and a compaction. Two
blocks suffice because at most one pairing context is live, which `OneContext` checks. In
`channel` a request of five units takes two frames, a frame may carry from one unit up to the
limit, and four requests are pair-verify and two of the session, so that the counters and the
buffers are seen empty and used. Two entries in three bytes make the table full before the
memory and the memory full before the table. Two items in a request let the second undo, repeat
or contradict the first. Three positions are the two ends and one between. In `thermostat` a
clock of 4 wraps within the longest interval, and a pass over the slots can come late.

Symmetry is used in `notify`, `pairing` and `requests`, which check no liveness. Deadlock is
checked in every run: something can always happen.

Types. `TypeOK` of `CQueueMachine`, `NotifyEvents`, `PairingStorage`, `PairingServer`,
`WiFiConnection` and `GarageDoor` is proved and not run; that of `Requests` and `FileSystem` is
also run, where it says more than types (values stay legal, offsets stay inside the page).

Fairness. `NotifyEvents` assumes that passes go on, `[]<><<pc and cur change>>`: the core calls
`loop()` for ever and no step of a pass waits. `PairingStorage` assumes that a call or a start
goes on (`WF_vars(Step)`); `CallsEnd` allows for power failing again and again.
`SecureChannel`: the loop reads what has arrived, and the controller what it is sent.
`GarageDoor`: the ticker goes on, the sensor sees the door again and again, and sees it at
infinitely many of those fourth calls that query the travel time (`calls = 3`), which is strong
because readings may fail in between. `WiFiConnection`: the two watchdogs are called while they
are started and tickers run. `Thermostat`: the clock advances, which only `Loop` finds.
Nothing is assumed of peers, users, the router, or power. Every liveness property is stated so
that the assumption can be seen through: `ComesBack` and `DeviceFollowsRoom` name the
conditions under which nothing is owed.

Limits of what holds. `FreshView` excepts characteristics that are `late`, which the code may
well leave with an old value at their subscribers ([below](#disagreements)).
`AnnouncedIsValue` speaks of events as they are queued, not as they arrive. `PairingsSurvive`
excepts controllers whose promise a compaction has put at risk (`lost`), who do lose their
pairing if it goes on, and controllers with two records. `PairedAgrees` holds outside `drift`,
whose members are the paths on which the code lets flag and flash part.
`SessionsKeepTheirSlots` says who is never marked for a removal, not that the right session is:
one whose record an update has moved is missed, nothing reads the mark, and after a format
without a restart slots are written anew. `Watched` and `OnlyLoginStrands` say nothing of help
for an accessory that does not take itself for paired: its watchdogs do not run.
`RestartFindsBack` ends with the command that formats the file system, until credentials are
saved again. `CleanDelivery` and
`RequestAnswered` hold while each read brings one whole frame. `RunIsGivenItsTime` excepts a
clock that was set, `MotorComesToRest` a door the markers do not cover (`Failed`).

## The proofs

Eight modules, every theorem for all values of the constants, from the assumptions that the
modules name (`NbRecsAssumption`, `NoRecordAssumption`, `NilAssumption`, `UnknownAssumption`,
`SizeAssumption`, `MaxPairingsAssumption`, `NoneAssumption`, `BlockAssumption`,
`GarageAssumption`, `FileAssumption`, `CharAssumption`, `ValueAssumption`, `ItemAssumption`,
`SlotsAssumption`, `SettingAssumption`). Two theorems ask for more, and say so:
`UnitsAgree` and `SettingsAreUsed`, for a control unit that was added before the recorder and the unit that tells the device
(`InOrder`), which is the order of the examples; in the other order a unit never hears of what
the control unit has handled.

`CQueueProofs`: `QueueInvariant`, `Spec => [](TypeOK /\ RingInv)` for every capacity from 1 to
65535 and every set of records. The conjunction is inductive: the type of the indices alone
does not say where the oldest record is, so each call is proved to keep a queue
`WellFormed`, that is typed with `RingOK`. One lemma per call: `InitWellFormed`,
`FlushWellFormed`, `PushedWellFormed`, `DropWellFormed`, and `PeekIsRecord` and
`PeekIdxIsRecord` for what is handed out. The push of a full queue shifts the numbering of the
occupied slots by one, the other cases leave it; these two cases are the core of the argument.

`CQueueImplements`: every call on the ring maps, under `contents`, to the promised call or a
stutter. It rests on the invariant and on what a push and a drop do to the places of the records
(`PushPlaces`, `DropPlaces`) and so to `contents` (`PushContents`, `DropContents`).

`NotifyEventsProofs`: the conjunction of `TypeOK`, `ListOK`, `CursorListed`, `NoDangling` and
`EventsNeedVerify` is inductive and no part is alone: a traversal that has just read `next`
from a freed context is still in the list only because no context is in it twice
(`UnlinkedList`, `NextOfListed`), and a notification adds events for listed, verified clients
only because the callbacks are theirs (`NotifyHandled`). Every handler ends in `Reply`, so one
lemma, `ReplyInv`, carries the argument: what the handler leaves (`Handled`) keeps the
invariant when the write goes well (`KeepInv`) and when it fails and the client is closed under
the handler (`CloseInv`). From the same invariant follows `EveryoneElseIsNotified`, with the
fact that a pushed event is the youngest of its queue, full or not (`PushYoungest`).
`SubscribersAreUpToDate` (`FreshView`) adds two facts to it (`Fresh`) about characteristics that
are not `late`: every event of theirs that is queued carries the present value (`Truthful`), so
that the youngest-first order of sending does not matter (`OldestIsValue`); and who is behind
with a value has an event of it (`Heard`), which a full queue does not lose, as the
characteristic would then be late (`NotifyReaches`).

`PairingStorageProofs`: the searches of `storage.c` return the first slot that fits, or none.
`IInv` adds to the properties what a call in progress knows: that the
sector is blank after an erase (`AfterErase`), that the slot it found still holds what it found
(`FoundBefore`), and that between the two writes of an update there are just the old record
and the new one (`BetweenHalves`). A loss of power in that state is what puts a controller into
`doubled`; everything else keeps `Single`, from which `OneRecord` follows. For `PairingsSurvive`
the records agree with the promises as long as the sector has magic and identity (`Promises`,
`Kept`); where it has not, or is being formatted, everyone who was promised a pairing is in
`lost` (`AtRisk`, `Lapsed`), and there is magic wherever a call begins, searches or clears
(`Magic`), so that only a compaction and the reset command can have taken it.
`CompactionMakesRoom` states `RoomAfterCompact`, which no run checks
by itself: without it a call could not end (`CallsEnd`) as it promised (`ImplementsCalls`).

`StorageImplements` goes through the steps of `PairingStorage`. It needs one more invariant,
`Formats`: what a compaction, a reset or a start has made of magic and identity, exactly, since
these decide whether a start keeps the slots. Most steps leave `Settled` alone, and make
`Durable` either what it was or what is kept of `Settled` (`FlashFollows`). The exception is the
first half of an update, which is a `Write` of one slot; there `FoundBefore` shows that the slot
written is not the one that is to be cleared. A loss of power is `RestartIs`.

`PairingServerProofs`: the four properties and the types are inductive together with one
addition, that an open client has a controller and a verified one a slot (`SessionsKnown`).
Handlers end in an answer or in `CloseAfter`, so `CloseContext` and `AnswerContext` carry the
context through all of them, `SessionsStay` the sessions. For `PairedAgrees` the question of each
handler that stores is whether `HasAdmin` changes: a record goes to a slot that was erased
(`RecordAdded`), so only its own permissions count (`AdminAdded`), and a cleared record takes an
admin away only if it was one's (`AdminCleared`); the cases that are left are those of `drift`.

`ConnectionProofs`, the network: what `RestartFindsBack` lacks to be inductive is `Saved`, that
the stack holds a link only with credentials that can join, and that a station has stored those
it uses unless they were erased since: a lost link comes back with the credentials of the last begin. `OnlyLoginStrands`
follows step by step from `Watched`, which says that a station has the watchdog that is never
used up, and that it runs if the accessory takes itself for paired.

`ConnectionProofs`, the secure channel: for requests and answers of any length, frames of any
size and any number of requests. `ChannelInv` has a part for each direction.

- To the controller (`AnswersReadable`). Of the frames on their way the first `k` are in the
  clear, the last of these opens the session, and the others are numbered on from what the
  controller has decrypted (`BackAt`); `reads` counts on from the last of them as long as the
  peer is there. A frame that is heard and the frames of an answer that are added keep this,
  whatever the handlers were called for: all it needs of the other direction is that an encrypted
  session parses no requests of pair-verify (`EncryptedInv`), and that holds for the junk of
  `malloc` too, as no unit of theirs was ever in a frame.
- To the accessory (`CleanDelivery`). In the clear the wire holds what the parser lacks of the
  last request (`ClearInv`). In the session, as long as each read has brought one whole frame,
  `data` is empty, the frames from `writes` on lie on the wire without gaps (`Lie`: an offset
  for each, and every byte belongs to one), and the parser has got as far in the last request as
  the frame at `writes` starts (`CleanInv`). That the controller waits is part of it: the next
  request finds the wire empty. A read that is "frame" to `Cut` takes exactly the frame at
  `writes` (`FrameRead`), which decrypts to its units and nothing else (`FrameDecrypted`),
  whatever the heap holds; and a request cut into frames is put together again by the parser
  (`FrameParsed`).

The operators that walk along a sequence (`Parse`, `Decrypt`, `Stream`, `AnswersTo`) are
functions defined by recursion; that they exist is `RecursionExists`, what they return is shown
for each along the sequence with `UpTo`, an induction over a set of numbers instead of a
predicate.

`FileSystemProofs`: the table in flash is one that the program has had in memory, so what is
proved of the page (`WellFormed`: types, no two entries share a name or a byte, an unused entry
is as `Format` leaves it) is kept for both and carries over whether the page is written whole,
torn, or read again. `Below`, no entry ends behind `used`, is what keeps a new file apart from
the others. For `FileSystemImplements` each step of the page maps to a step of `FileStore` or a
stutter: a file is looked up by its name, which is unique (`Apart`), and its bytes are those of
the memory between its start and its end, so that a write to one file leaves the others'
contents, and a torn page leaves files that are gone or end in erased bytes.

`RequestsProofs`: one invariant of a state `s` of values, units, subscriptions and announcements
(`Good`) is kept by every operator the handlers are built from: what `Announced`, `Written`,
`WithValue`, `WithEv` and `GettersRun` do. `Outcomes` is defined by recursion over the items;
that the recursion exists and that every prefix keeps `Good` is shown by a least counterexample
(`OutcomesAre`, `OutcomesAreGood`), for requests of every length. `RequestsTypes` rests on
`ConvertedIsLegal`: what passes the checks of range and list is converted into a value that the
description allows, with C's cut of a fraction in between. `AnswersTrue` follows the
items of a request the same way: the last one that decided about a value or a subscription is
the one that is found.

`ServicesProofs`, the garage door: `RunIsGivenItsTime` needs that the delay against flicker only
repeats an end of the door (`DelayAtEnd`), so that a stall is never a repeated answer, and that
the time since the last marker is never longer than that since the accessory started the motor
unless the clock was set (`ClockBehind`); `MarkersOK` that ranges which do not intersect share
no position.

`ServicesProofs`, the thermostat: `ThermostatInv` says that the units' copies are those of the
control unit and that it knows the settings that were given; every message keeps it
(`ReadingHandled`, `SettingHandled`), and so does every slot of a pass (`SlotKeeps`) and the
pass, which is defined by recursion (`PassKeeps`, by a least counterexample). That the unknown
settings are the defaults that are shown makes it inductive.

Only model-checked: everything about liveness, which the prover does not cover (`QueueDrains`,
`GoneIsClosed`, `CallsEnd`, `RequestAnswered`, `MotorComesToRest`, `ReportCatchesUp`, `ComesBack`,
`DeviceFollowsRoom`). Every safety property of a passing run is proved.

## Disagreements

One run expects a violation, against a line of the repository: `storage_compaction`, a
compaction that ends in success has lost every pairing (`CompactionKeepsPairings`).

The others that were met while modelling are visible in the models; each is named where it
shows.

- `q_peekPrevious` (`cQueue.h:194`) answers wrongly on a stack that has overwritten records.
- Of several values queued for a characteristic the oldest is sent, last, although
  `hb_homekit.cpp:453` says that the new one is sent (`Coalesced`): two changes before one drain
  leave every subscriber with the first (`late`), as a PUT that names a characteristic twice does.
- Sessions of a removed controller are marked (`server.cpp:4286`), but nothing reads the mark
  (`Marked`); the session of the last admin may still add pairings (`outlived` in `drift`).
- `AddPairing` makes the last admin a user without a look at the others (3663; `demoted`).
- `CHomeKit::IsPaired` (`hb_homekit.h:3666`) remembers a pairing that is gone (`IsPaired`).
- A loss of power between the two writes of a new identity leaves an id with an erased key,
  which loads (`BootSaveId`, `BootLoad`).
- Pair-setup 3/3 that fails after the record was stored leaves `server->paired` false with an
  admin in flash (`PairSetup3HalfDone`); a last answer that cannot be written ends in a null
  pointer (`PairSetup3Faults`); 1/3 repeated after a wrong setup code answers with an empty key.
- A message split over frames is meant to be put together (1289) and is not (`Read`).
- A login with a wrong password in the access point closes it for good; the message
  `hb_homekit.cpp:2103` promises a restart in five minutes, but an accessory that is not
  paired never runs its tickers (`LoginFails`, `Watching`). For the same reason a login that fails
  in a station that is not paired leaves it off the air (`OffTheAir`).
- `FORMAT_FILESYSTEM` erases the credentials of the connection it is given over; after the next
  restart the accessory is an access point (`FormatFileSystem`).
- `modify_value_and_notify` always answers false, and so does `modify_value` of a characteristic
  with a setter; their declaration says true when the value has changed. `homekit_value_equal` compares 64-bit values by their low
  half, and `ch->permissions && homekit_permissions_notify` (3339) is true for any permission.
- `HomeKit_GarageDoorOpener.cpp:542` speaks of a button that is pressed when needed; the unit
  of the trigger pin presses it for every new target (`SetTargetState`). `PRESS_BUTTON` of the
  page does not press it (`PressButton`). A start that fails leaves the target HomeKit shows,
  because the opposite was the last message sent. A page that polls the state counts the
  delay down (`PollDoorState`). A time set by the network makes a run look stalled.
- A thermostat heats before it has a first reading, since an empty optional is less than any
  number; a failed sensor keeps its last reading for ever; the thresholds are unknown to the
  control unit although 20 and 30 are shown, so that AUTO does nothing until one is changed
  (`SettingsReachUnit` says so).

## Not modelled

- *Values that are never set*: `current_characteristic`, `current_value` and `permissions` of a
  new client context (`client_context_new`); the models start them as the first request leaves
  them. The same for the state of an unknown `TARGET_STATE` text.
- *Memory*: events that are overwritten in a queue, or queued when a client closes, are never
  freed. Exhaustion of the heap is modelled where a size wraps (1352), not otherwise.
- *Flash calls that fail*, except in `FileSystem`; messages of controllers that break the
  protocol; the branch of `AddPairing` for a known controller with another key.
- *Requests*: timed writes, strings in full, TLV and data, the text of JSON; the 207 answer
  with items that lack `aid` or `iid` (3443).
- *Tickers*: stopping, starting a ticker from a ticker (its `mLastTick` is then ahead of the
  pass and it fires at once), the ninth ticker, which is refused in silence.
- *WiFi*: a recommended mode of AP, a static list of passwords.
- *Recorders* (event recorder of the garage door with its 16-bit centiseconds, stored events of
  thermostat and sensor), *median filter*, *TLV codec*: conversions of data with little
  interaction. Contents of HTML, logging, platform port.
- *Cryptography and vendored libraries* (`http_parser`, `cJSON`, `base64`, `wolfSSL`), which
  make up three quarters of the implementation lines: what is needed of them is modelled from
  use. This is why the lines that the definitions stand for are a small share of all lines.

## Plan

Done: all state machines of the first plan (`CQueue`, `NotifyEvents`, `PairingStorage`,
`PairingServer`, `SecureChannel`, `FileSystem`, `WiFiConnection`, `GarageDoor`, `Thermostat`,
`Requests`), the abstract specifications `BoundedQueue`, `FileStore` and `PairingCalls`, and the
proofs above.

Left, in this order:

1. `Tlv` and `Median` as pure operators over bounded inputs; the event recorders.
2. Timed writes and the formats that `Requests` leaves out; tickers that start tickers.
