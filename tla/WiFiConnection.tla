--------------------------- MODULE WiFiConnection ---------------------------
(***************************************************************************)
(* How the accessory keeps its connection (CWiFiConnection,                *)
(* CWiFiConnectionCtrl::ConnectOrDie, CHomeKit::Setup and Loop, the LOGIN  *)
(* command): it joins the network whose credentials it has stored, opens   *)
(* an access point of its own if it cannot, and leaves it to two watchdogs *)
(* to find back.  The watchdogs are tickers, and CHomeKit::Loop runs       *)
(* tickers only while the accessory takes itself for paired.               *)
(* Setup blocks until it is through, so that a boot is one step; so is a   *)
(* watchdog or a command, with all the 30 seconds that it may try.         *)
(***************************************************************************)
CONSTANTS
  Cred,   \* credentials of a network
  None    \* no credentials, and no network

VARIABLES
  router,   \* the credentials with which the network can be joined at present, or None
  stored,   \* the credentials in the file system, or None
  wiped,    \* history: the file system has been formatted and nothing saved since
  items,    \* CWifiLoginContext::mItems, what STAConnect will try
  creds,    \* the credentials of the last WiFi.begin
  mode,     \* CWiFiConnection::mCurrentMode
  link,     \* WiFi.status() == WL_CONNECTED
  inUse,    \* CWiFiConnection::mInUse
  dog,      \* the ticker that ConnectOrDie has started and that has calls left
  server,   \* CHomeKit::mHomeKitServerStarted
  paired,   \* the storage has a pairing of an administrator
  known     \* CHomeKit::IsPaired(), which keeps an answer of "true"

flash == <<stored, wiped, paired>>
wifi == <<router, flash, items, creds, mode, link, inUse, dog, server, known>>

\* Types; and the tickers run whenever an administrator is stored.
WiFiTypeOK ==
  /\ {router, stored, items, creds} \subseteq Cred \cup {None}
  /\ mode \in {"OFF", "STA", "AP"}
  /\ dog \in {"none", "sta", "ap"}
  /\ {wiped, link, inUse, server, paired, known} \subseteq BOOLEAN
  /\ paired => known

CanJoin(c) == c # None /\ c = router

\* The accessory can be used from HomeKit.
Online == link /\ server

-----------------------------------------------------------------------------

\* CHomeKit::Setup with c in the file system and p saying whether an administrator is.
Setup(c, p) ==
  /\ items' = c /\ creds' = c
  /\ inUse' = FALSE
  /\ known' = p
  /\ IF CanJoin(c)
       THEN mode' = "STA" /\ link' = TRUE /\ dog' = "sta" /\ server' = TRUE
       ELSE mode' = "AP" /\ link' = FALSE /\ dog' = "ap" /\ server' = FALSE

\* CWiFiConnection::STAConnect with the credentials c, both ways it ends.
Connected(c) == mode' = "STA" /\ link' = TRUE /\ items' = c /\ creds' = c /\ inUse' = FALSE

\* A wrong Joined: the credentials are not saved.
JoinedUnsaved(c) == Connected(c) /\ UNCHANGED <<stored, wiped>>

Joined(c) == Connected(c) /\ stored' = c /\ wiped' = FALSE

NotJoined(c) ==
  /\ mode' = "OFF" /\ link' = FALSE /\ items' = c /\ creds' = c /\ inUse' = FALSE
  /\ UNCHANGED <<stored, wiped>>

WiFiInit ==
  /\ router \in Cred \cup {None}
  /\ stored \in Cred \cup {None}
  /\ paired \in BOOLEAN
  /\ wiped = FALSE
  /\ items = stored /\ creds = stored
  /\ inUse = FALSE
  /\ known = paired
  /\ IF CanJoin(stored)
       THEN mode = "STA" /\ link = TRUE /\ dog = "sta" /\ server = TRUE
       ELSE mode = "AP" /\ link = FALSE /\ dog = "ap" /\ server = FALSE

-----------------------------------------------------------------------------
(* The world.                                                              *)

\* The router comes, goes, or has its password changed.
RouterChanges ==
  /\ router' \in (Cred \cup {None}) \ {router}
  /\ link' = FALSE
  /\ UNCHANGED <<flash, items, creds, mode, inUse, dog, server, known>>

Drop ==
  /\ link /\ link' = FALSE
  /\ UNCHANGED <<router, flash, items, creds, mode, inUse, dog, server, known>>

\* setAutoReconnect(true): the stack goes on trying the credentials of the last begin, in the
\* access point too, as APConnect ends with WiFi.begin().
Reconnect ==
  /\ ~link /\ CanJoin(creds)
  /\ link' = TRUE
  /\ UNCHANGED <<router, flash, items, creds, mode, inUse, dog, server, known>>

PowerCycle == Setup(stored, paired) /\ UNCHANGED <<router, flash>>

-----------------------------------------------------------------------------
(* Web pages and HomeKit.                                                  *)

Reachable == mode = "AP" \/ link

\* The handlers of CController::Setup call SetInUse.
Request ==
  /\ Reachable
  /\ inUse' = TRUE
  /\ UNCHANGED <<router, flash, items, creds, mode, link, dog, server, known>>

\* The command ENTER_WLOGIN: the name of another network, with the old password, waits in the
\* enumerator for the next STAConnect, whoever calls it.
EnterWLogin(c) ==
  /\ Reachable
  /\ inUse' = TRUE /\ items' = c
  /\ UNCHANGED <<router, flash, creds, mode, link, dog, server, known>>

\* The command FORMAT_FILESYSTEM.
FormatFileSystem ==
  /\ Reachable
  /\ inUse' = TRUE /\ stored' = None /\ wiped' = TRUE
  /\ UNCHANGED <<router, items, creds, mode, link, dog, server, paired, known>>

\* The command LOGIN fails: the access point is gone and nobody opens it again.
LoginFails(c) ==
  /\ Reachable /\ ~CanJoin(c)
  /\ NotJoined(c)
  /\ UNCHANGED <<router, dog, server, paired, known>>

\* It succeeds: Accepted saves the credentials, and ESP.restart follows unless the mode was STA.
LoginAndGoOn(c) ==
  /\ Reachable /\ CanJoin(c)
  /\ Joined(c)
  /\ UNCHANGED <<router, dog, server, paired, known>>

\* A wrong Login: the access point is left without a restart.
LoginAnywhere(c) == LoginAndGoOn(c)

Login(c) ==
  \/ mode = "STA" /\ LoginAndGoOn(c)
  \/ /\ mode # "STA" /\ Reachable /\ CanJoin(c)
     /\ stored' = c /\ wiped' = FALSE
     /\ Setup(c, paired)
     /\ UNCHANGED <<router, paired>>

\* HomeKit pairs the first administrator, and removes the last; the loop asks the storage only
\* until the answer is "true".
Pair ==
  /\ Online /\ ~paired
  /\ paired' = TRUE /\ known' = TRUE
  /\ UNCHANGED <<router, stored, wiped, items, creds, mode, link, inUse, dog, server>>

Unpair ==
  /\ Online /\ paired
  /\ paired' = FALSE
  /\ UNCHANGED <<router, stored, wiped, items, creds, mode, link, inUse, dog, server, known>>

\* The command RESET_PAIRING.
ResetPairing ==
  /\ Reachable
  /\ paired' = FALSE
  /\ Setup(stored, FALSE)
  /\ UNCHANGED <<router, stored, wiped>>

-----------------------------------------------------------------------------
(* The watchdogs of ConnectOrDie.                                          *)

\* A wrong StaWatchdog: no access point when nothing answers.
StaWatchdogTriesOn ==
  /\ dog = "sta" /\ known /\ ~link
  /\ IF CanJoin(items) THEN Joined(items) ELSE NotJoined(items)
  /\ UNCHANGED <<router, dog, server, paired, known>>

\* A wrong StaWatchdog: one try only.
StaWatchdogOnce ==
  /\ dog = "sta" /\ known /\ ~link
  /\ dog' = "none"
  /\ IF CanJoin(items) THEN Joined(items) ELSE NotJoined(items)
  /\ UNCHANGED <<router, server, paired, known>>

\* Every minute: try again, or reset.
StaWatchdog ==
  /\ dog = "sta" /\ known /\ ~link
  /\ \/ CanJoin(items) /\ Joined(items) /\ UNCHANGED <<dog, server, known>>
     \/ ~CanJoin(items) /\ Setup(stored, paired) /\ UNCHANGED <<stored, wiped>>
  /\ UNCHANGED <<router, paired>>

\* Once, after five minutes: reset, unless somebody has used the access point.
ApWatchdog ==
  /\ dog = "ap" /\ known
  /\ \/ inUse /\ dog' = "none" /\ UNCHANGED <<items, creds, mode, link, inUse, server, known>>
     \/ ~inUse /\ Setup(stored, paired)
  /\ UNCHANGED <<router, flash>>

WiFiNext ==
  \/ RouterChanges \/ Drop \/ Reconnect \/ PowerCycle
  \/ Request \/ FormatFileSystem
  \/ (\E c \in Cred : EnterWLogin(c) \/ Login(c) \/ LoginFails(c))
  \/ Pair \/ Unpair \/ ResetPairing
  \/ StaWatchdog \/ ApWatchdog

WiFiSpec == WiFiInit /\ [][WiFiNext]_wifi

\* The loop goes on, and with it the tickers while the accessory is taken for paired.  Nothing
\* is assumed of the network stack, of users and of the router.
FairWiFiSpec == WiFiSpec /\ WF_wifi(StaWatchdog) /\ WF_wifi(ApWatchdog)

-----------------------------------------------------------------------------

\* The watchdog d is there and the loop runs its ticker.
Watching(d) == dog = d /\ known

\* Neither an access point nor a station, and nothing that tries the network again.
OffTheAir == mode = "OFF" /\ ~Watching("sta")

\* ... with no watchdog left that would restart the accessory either.
Stranded == mode = "OFF" /\ dog = "none"

\* In the mode STA the HomeKit server runs, whatever sequence of logins, restarts and
\* reconnections led to it (mCurrentMode is set in STAConnect, the server is started in Setup
\* only), and in the mode AP it does not.  An accessory that takes itself for paired has its
\* watchdog running: a station always, an access point until somebody has used it.
Watched ==
  /\ mode = "STA" => server /\ (known => Watching("sta"))
  /\ mode = "AP" => ~server /\ (known => Watching("ap") \/ inUse)
  /\ dog = "sta" <=> server

\* The credentials that a restart uses are those of the running connection: nothing but the
\* command that formats the file system makes the accessory lose, by a restart, the network it
\* is in (STAConnect saves what it has joined with, and another name or password that a web page
\* has entered is not saved before it has been tried).
RestartFindsBack == mode = "STA" /\ link /\ ~wiped => stored = creds /\ CanJoin(stored)

\* Only one thing takes the accessory off the air: a login that fails, in its access point, or
\* in a station that does not take itself for paired, whose watchdog does not run.  (That of
\* any other station resets when it fails, and is never used up.)
OnlyLoginStrands ==
  [][~OffTheAir /\ OffTheAir' =>
       (mode = "AP" \/ ~known) /\ \E c \in Cred : LoginFails(c)]_wifi

\* A paired accessory that can join the network it has stored comes back to HomeKit, whatever
\* happened before: unless it is stranded, or has an access point that somebody has used.
ComesBack ==
  []<>(Online \/ ~CanJoin(stored) \/ ~known \/ (mode = "AP" /\ inUse) \/ Stranded)
=============================================================================
