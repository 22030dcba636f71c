------------------------------ MODULE Requests ------------------------------
(***************************************************************************)
(* The requests for characteristics (arduino_homekit_server.cpp): what a   *)
(* PUT writes, refuses and announces, and what a GET reads, together with  *)
(* the value model behind them (modify_value and modify_value_and_notify,  *)
(* hb_homekit.cpp) and the setters and getters of the services, which all  *)
(* have one shape: store the value, tell the unit if it has changed.       *)
(* A handler runs to its end before the loop goes on, so that a request is *)
(* one step.  It ends with what is announced: the events put into the      *)
(* queues of the clients.  How they come out of them is the concern of     *)
(* NotifyEvents.                                                           *)
(***************************************************************************)
EXTENDS Integers, Sequences

CONSTANTS
  Client,       \* clients with a verified session
  Char,         \* characteristics
  NoChar,       \* an id that no characteristic has
  Description,  \* what HOMEKIT_DECLARE_CHARACTERISTIC_... says of each of them: [format, min,
                \* max, valid, perms], whether it has a setter and a getter, and a unit
  Initial,      \* the values they start with
  Items,        \* bound: the items that come in requests, [ch, value, ev], with values
                \* [type, halves, length] or Nothing
  Reading,      \* the values a sensor may deliver
  MaxItems,     \* bound: items of a request
  Nothing       \* no value, no "ev", no knowledge

(* Numbers come as halves, so that 3 is 1.5: JSON knows no integers.  A    *)
(* text is told from others by its length, a Boolean is 0 or 1, and a      *)
(* characteristic of the format "float" keeps its halves.                  *)

VARIABLES
  value,        \* homekit_characteristic_t::value
  unit,         \* what the unit was last told, or set itself
  world,        \* what the sensor behind a getter would deliver
  subs,         \* <<client, characteristic>> with a notify callback
  announced          \* history: the value of the youngest event queued for a client, of what it has
                \* itself written or read since then, or Nothing

vars == <<value, unit, world, subs, announced>>

Settable == {c \in Char : Description[c].setter}
Getters == {c \in Char : Description[c].getter}
Reported == {c \in Char \ Getters : Description[c].unit}
Now == [value |-> value, unit |-> unit, subs |-> subs, announced |-> announced]

Numeric == {"uint8", "int"}

\* The values that the description of a characteristic allows.
Legal(c) ==
  LET d == Description[c]
  IN  CASE d.format = "bool" -> {0, 1}
        [] d.format \in Numeric -> {n \in d.min .. d.max : d.valid # {} => n \in d.valid}
        [] d.format = "float" -> 2 * d.min .. 2 * d.max
        [] OTHER -> 0 .. d.max

ASSUME CharAssumption ==
  /\ NoChar \notin Char /\ Nothing \notin Int \cup Client
  /\ \A c \in Char : Description[c].min \in Int /\ Description[c].max \in Int

ASSUME ValueAssumption ==
  /\ Initial \in [Char -> Int] /\ \A c \in Char \ Getters : Initial[c] \in Legal(c)
  /\ Reading \subseteq Int

\* cJSON fills in the double of a number and leaves it 0 otherwise.
ASSUME ItemAssumption ==
  \A item \in Items :
    /\ item.ch \in Char \cup {NoChar}
    /\ item.value # Nothing =>
         /\ item.value.halves \in Int /\ item.value.length \in Nat
         /\ item.value.type \in {"True", "False"} => item.value.halves = 0

-----------------------------------------------------------------------------
(* Values.                                                                 *)

\* The conversion of a double to an integer cuts off its fraction.
Truncated(halves) == IF halves >= 0 THEN halves \div 2 ELSE -((-halves) \div 2)

\* cJSON fills in valueint of true and leaves valuedouble 0.
Valueint(j) == IF j.type = "True" THEN 1 ELSE Truncated(j.halves)

InRange(d, halves) == 2 * d.min <= halves /\ halves <= 2 * d.max

\* A wrong Listed: any value is valid.
UnlistedToo(d, halves) == TRUE

Listed(d, halves) == d.valid # {} => Truncated(halves) \in d.valid

\* process_characteristics_update, the checks of a value ...
Accepts(c, j) ==
  LET d == Description[c]
  IN  CASE d.format = "bool" ->
             j.type \in {"True", "False"} \/ (j.type = "Number" /\ Valueint(j) \in {0, 1})
        [] d.format \in Numeric ->
             /\ j.type \in {"Number", "True", "False"}
             /\ InRange(d, j.halves) /\ Listed(d, j.halves)
        [] d.format = "float" -> j.type = "Number" /\ InRange(d, j.halves)
        [] OTHER -> j.type = "String" /\ j.length <= d.max

\* ... and what is made of it.
Converted(c, j) ==
  CASE Description[c].format = "bool" -> Valueint(j)
    [] Description[c].format \in Numeric -> Truncated(j.halves)
    [] Description[c].format = "float" -> j.halves
    [] OTHER -> j.length

-----------------------------------------------------------------------------
(* The value model.                                                        *)

\* homekit_characteristic_notify, client_notify_characteristic: an event is queued for every
\* client with a callback, but the one whose request has set
\* current_characteristic and current_value to c and v.
Announced(s, c, v, writer) ==
  [s EXCEPT !.announced = [k \in Client |->
     IF <<k, c>> \in s.subs /\ k # writer THEN [@[k] EXCEPT ![c] = v] ELSE @[k]]]

\* modify_value of a characteristic that has no setter, or whose setter is running.
Stored(s, c, v) == [s EXCEPT !.value[c] = v]

\* A wrong SetterRun: the value is stored and the unit is not told.
SetterRunForgets(s, c, v) == IF s.value[c] = v THEN s ELSE Stored(s, c, v)

\* The setters of the services: if(modify_value(pC, value) && Unit) Unit->On...Changed(value).
SetterRun(s, c, v) ==
  IF s.value[c] = v THEN s ELSE [Stored(s, c, v) EXCEPT !.unit[c] = v]

\* CallSetter and INVOKE_SETTER, or else the value itself.
Written(s, c, v) == IF c \in Settable THEN SetterRun(s, c, v) ELSE Stored(s, c, v)

\* A wrong ModifiedAndNotified: the value is stored and nobody is told.
ModifiedSilently(s, c, v) == IF s.value[c] = v THEN s ELSE Written(s, c, v)

\* modify_value_and_notify: announced first, then stored, if it differs.
ModifiedAndNotified(s, c, v) ==
  IF s.value[c] = v THEN s ELSE Written(Announced(s, c, v, Nothing), c, v)

\* The getters of characteristics: modify_value(pC, reading); return pC->value.
GettersRun(s, cs) ==
  [s EXCEPT !.value = [c \in Char |-> IF c \in cs \cap Getters THEN world[c] ELSE @[c]]]

-----------------------------------------------------------------------------
(* PUT.                                                                    *)

\* The part of process_characteristics_update that sees to "value".
ValueStatus(item) ==
  IF item.value = Nothing THEN "Success"
  ELSE IF "write" \notin Description[item.ch].perms THEN "ReadOnly"
  ELSE IF Accepts(item.ch, item.value) THEN "Success"
  ELSE "InvalidValue"

WithValue(s, k, item) ==
  IF item.value = Nothing THEN s
  ELSE LET v == Converted(item.ch, item.value)
           told == Announced(Written(s, item.ch, v), item.ch, v, k)
       IN  \* the writer knows what it has written
           [told EXCEPT !.announced[k] =
              IF <<k, item.ch>> \in s.subs THEN [@ EXCEPT ![item.ch] = v] ELSE @]

\* "ev" is refused only if the characteristic has no permissions at all ("&&" for "&"), and
\* what is neither true nor false counts as false.
EvStatus(item) ==
  IF item.ev # Nothing /\ Description[item.ch].perms = {} THEN "NotificationsUnsupported"
  ELSE "Success"

WithEv(s, k, item) ==
  IF item.ev = Nothing \/ EvStatus(item) # "Success" THEN s
  ELSE IF item.ev = "true" THEN [s EXCEPT !.subs = @ \cup {<<k, item.ch>>}]
  ELSE [s EXCEPT !.subs = @ \ {<<k, item.ch>>}, !.announced[k][item.ch] = Nothing]

\* process_characteristics_update: what it returns ...
StatusOf(item) ==
  IF item.ch = NoChar THEN "NoResource"
  ELSE IF ValueStatus(item) # "Success" THEN ValueStatus(item)
  ELSE EvStatus(item)

\* A wrong Processed: a refused value is stored.
ProcessedAnyway(s, k, item) ==
  IF item.ch = NoChar \/ ValueStatus(item) = "InvalidValue" THEN s
  ELSE WithEv(WithValue(s, k, item), k, item)

\* ... and what it does.  A refused value leaves "ev" unread.
Processed(s, k, item) ==
  IF item.ch = NoChar \/ ValueStatus(item) # "Success" THEN s
  ELSE WithEv(WithValue(s, k, item), k, item)

\* What the first i items make of s.
Outcomes(s, k, items) ==
  LET after[i \in 0 .. Len(items)] == IF i = 0 THEN s ELSE Processed(after[i - 1], k, items[i])
  IN  after

Outcome(s, k, items) == Outcomes(s, k, items)[Len(items)]

-----------------------------------------------------------------------------

Becomes(s) == value' = s.value /\ unit' = s.unit /\ subs' = s.subs /\ announced' = s.announced

Requests == UNION {[1 .. n -> Items] : n \in 1 .. MaxItems}

Init ==
  /\ value = Initial /\ unit = Initial /\ world = Initial
  /\ subs = {}
  /\ announced = [k \in Client |-> [c \in Char |-> Nothing]]

\* homekit_server_on_update_characteristics: the items in their order, and 204 if all of them
\* have succeeded, or else 207 with a status for each.
Put(k, items) == Becomes(Outcome(Now, k, items)) /\ UNCHANGED world

\* homekit_server_on_get_characteristics: getters run as the answer is written.
Get(k, ids) ==
  LET readable == {c \in ids \ {NoChar} : "read" \in Description[c].perms}
      read == GettersRun(Now, readable)
  IN  /\ Becomes([read EXCEPT !.announced[k] = [c \in Char |->
           IF c \in readable /\ <<k, c>> \in subs THEN read.value[c] ELSE @[c]]])
      /\ UNCHANGED world

\* A command of the web pages sets a characteristic (SetVar in InstallVarsAndCmds).
Command(c, v) == Becomes(ModifiedAndNotified(Now, c, v)) /\ UNCHANGED world

\* The unit reports: SetTargetState and SetCurrentState, with UserPtr set to null meanwhile so
\* that the setter does not tell the unit what it has just said.
Report(c, v) ==
  LET s == ModifiedAndNotified(Now, c, v)
  IN  Becomes([s EXCEPT !.unit[c] = v]) /\ UNCHANGED world

Sense(c, v) == world' = [world EXCEPT ![c] = v] /\ UNCHANGED <<value, unit, subs, announced>>

\* The session ends and its callbacks with it (homekit_accessories_clear_notify_callbacks).
Close(k) ==
  /\ subs' = {sub \in subs : sub[1] # k}
  /\ announced' = [announced EXCEPT ![k] = [c \in Char |-> Nothing]]
  /\ UNCHANGED <<value, unit, world>>

Next ==
  \/ \E k \in Client, items \in Requests : Put(k, items)
  \/ \E k \in Client, c \in Char, d \in Char \cup {NoChar} : Get(k, {c, d})
  \/ \E c \in Settable : \E v \in Legal(c) : Command(c, v)
  \/ \E c \in Reported : \E v \in Legal(c) : Report(c, v)
  \/ \E c \in Getters, v \in Reading : Sense(c, v)
  \/ \E k \in Client : Close(k)

Spec == Init /\ [][Next]_vars

-----------------------------------------------------------------------------

\* Types: whatever the requests ask for, every characteristic keeps a value that its
\* description allows (the checks of process_characteristics_update and the ranges of the units).
TypeOK ==
  /\ \A c \in Char \ Getters : value[c] \in Legal(c)
  /\ unit \in [Char -> Int] /\ world \in [Char -> Int]
  /\ subs \subseteq Client \X Char
  /\ \A k \in Client, c \in Char :
       announced[k][c] = Nothing \/ (<<k, c>> \in subs /\ announced[k][c] \in Int)

\* The unit that drives the device has the value that the characteristic shows: no order of
\* requests, web commands and reports of the unit itself lets the two part (the setters change
\* the characteristic and tell the unit only when the value differs, and SetTargetState hides
\* the unit from its own setter).  A switch may be given a getter too: then it is the code of the
\* user that says what its value is.
UnitIsTold == \A c \in Settable \ Getters : unit[c] = value[c]

\* No change is forgotten: whatever has changed the value of a characteristic, requests of other
\* clients with one item of it or several, web commands or reports of the unit, the youngest
\* event queued for a subscriber carries its present value (process_characteristics_update
\* announces to all but the writer, modify_value_and_notify to all, before it stores).  That is
\* the promise of the producers of events only: the queue hands out the youngest first, and what
\* a client then believes is FreshView of NotifyEvents.  Values that a getter fetches are left
\* out: no code announces those.
AnnouncedIsValue ==
  \A k \in Client, c \in Char \ Getters :
    <<k, c>> \in subs => announced[k][c] \in {Nothing, value[c]}

\* A status tells the truth: in a request, the last item of a characteristic that is answered
\* with success and carries a value decides its value, and a characteristic all of whose
\* values are refused keeps its own, whatever the other items of the request are; the same
\* for the subscription.
AnswersAreTrue ==
  \A k \in Client, items \in Requests :
    LET after == Outcome(Now, k, items)
        Decides(c, i) == items[i].ch = c /\ StatusOf(items[i]) = "Success"
        LastOf(is) == {i \in is : \A j \in is : j <= i}
        values(c) == {i \in DOMAIN items : Decides(c, i) /\ items[i].value # Nothing}
        evs(c) == {i \in DOMAIN items : Decides(c, i) /\ items[i].ev # Nothing}
    IN  \A c \in Char :
          /\ values(c) = {} => after.value[c] = value[c] /\ after.unit[c] = unit[c]
          /\ \A i \in LastOf(values(c)) : after.value[c] = Converted(c, items[i].value)
          /\ evs(c) = {} => (<<k, c>> \in after.subs <=> <<k, c>> \in subs)
          /\ \A i \in LastOf(evs(c)) : <<k, c>> \in after.subs <=> items[i].ev = "true"
=============================================================================
