------------------------------- MODULE Firmware -------------------------------
(* app_main of a board in node mode, from reset to reset: the private key it   *)
(* keeps in flash, the WiFi station it starts on the way, and its main loop    *)
(* with the button, the display, the outgoing link and the announce timer      *)
(* (firmware/heltec_v3/main/main.cpp, wifi_sta.cpp, ota_update.cpp, oled.cpp,  *)
(* nomadnet_node.cpp).  A reset loses everything but the flash.                *)
(*                                                                             *)
(* The ISR, the WiFi event task and, once TCP is up, the Reticulum task run    *)
(* beside the main task.  What the tasks share inside Transport is NodeTasks;  *)
(* here a call into Transport is one step.                                     *)
EXTENDS Naturals, Sequences, FiniteSets

CONSTANTS
    Ids,            \* the private keys createKeys() may draw on this board
    Peers,          \* identities of the boards it hears
    None,           \* no identity: an empty blob, a g_out_link of nullptr
    DisplayOn,      \* DISPLAY_ON_MS in turns of the loop (15)
    Periods,        \* turns from one announce to the next (270 .. 329)
    MaxResets,      \* bound: resets, those after an update included
    MaxFaults,      \* bound: NVS, send, announce and task failures
    MaxDrops        \* bound: failed or lost WiFi associations

ASSUME FirmwareAssumption ==
    /\ None \notin Ids \cup Peers
    /\ Ids \cap Peers = {}
    /\ DisplayOn \in Nat \ {0} /\ Periods \subseteq Nat \ {0}
    /\ MaxResets \in Nat /\ MaxFaults \in Nat /\ MaxDrops \in Nat

VARIABLES
    pc,             \* where the main task is
    nvs,            \* id_prv as the flash holds it
    unsaved,        \* id_prv set and not yet committed
    readable,       \* nvs_flash_init() left a usable partition
    identity,       \* the identity in RAM
    tcp,            \* there is a TCP interface
    started,        \* the Reticulum task polls the interfaces
    station,        \* the WiFi driver
    events,         \* what it has posted to the event task
    g_connected,    \* WiFiSta::is_connected()
    out_link,       \* the peer and the status of g_out_link
    hello_sent,     \* g_hello_sent
    link_tx,        \* g_link_tx: hellos that were sent
    pressed, down,  \* g_button_pressed, and the level of GPIO0
    oled_up, suspended, off_in,  \* the display, and turns until it goes dark
    due,            \* turns until the next announce
    drawn,          \* keys createKeys() has drawn, on any boot
    announced,      \* history: identities announced, on any boot
    lost,           \* history: failures that cost or may cost the stored key
    resets, faults, drops

flash   == <<nvs, unsaved, readable>>
wifi    == <<station, events, g_connected, drops>>
link    == <<out_link, hello_sent, link_tx>>
button  == <<pressed, down>>
display == <<oled_up, suspended, off_in>>
net     == <<tcp, started>>
history == <<drawn, announced, lost>>
vars == <<pc, flash, identity, net, wifi, link, button, display, due,
          history, resets, faults>>

NoLink == [peer |-> None, status |-> "none"]

Booting == {"nvs", "hardware", "wifi", "wait", "load", "set", "commit", "setup", "nomad"}
Turning == {"button", "held", "ota", "hello", "announce", "poll"}

\* RAM after a reset: statics are zero, no task but main runs.
Fresh ==
    /\ identity' = None /\ tcp' = FALSE /\ started' = FALSE
    /\ station' = "off" /\ events' = <<>> /\ g_connected' = FALSE
    /\ out_link' = NoLink /\ hello_sent' = FALSE /\ link_tx' = 0
    /\ pressed' = FALSE
    /\ oled_up' = FALSE /\ suspended' = FALSE /\ off_in' = 0 /\ due' = 0
    /\ readable' = FALSE

Init ==
    /\ pc = "nvs" /\ nvs = None /\ unsaved = None /\ readable = FALSE
    /\ identity = None /\ tcp = FALSE /\ started = FALSE
    /\ station = "off" /\ events = <<>> /\ g_connected = FALSE
    /\ out_link = NoLink /\ hello_sent = FALSE /\ link_tx = 0
    /\ pressed = FALSE /\ down = FALSE
    /\ oled_up = FALSE /\ suspended = FALSE /\ off_in = 0 /\ due = 0
    /\ drawn = {} /\ announced = {} /\ lost = 0
    /\ resets = 0 /\ faults = 0 /\ drops = 0

Fails == faults < MaxFaults /\ faults' = faults + 1

-----------------------------------------------------------------------------
(* Boot *)

\* nvs_flash_init(): usable; full or of another version, and erased; or failed,
\* which nothing looks at.
NvsReady ==
    /\ pc = "nvs" /\ pc' = "hardware"
    /\ \/ readable' = TRUE /\ UNCHANGED <<nvs, lost, faults>>
       \/ readable' = TRUE /\ Fails /\ nvs' = None /\ lost' = lost + 1
       \/ readable' = FALSE /\ Fails /\ lost' = lost + 1 /\ UNCHANGED nvs
    /\ UNCHANGED <<unsaved, identity, net, wifi, link, button, display, due,
                   drawn, announced, resets>>

\* The display may be missing; without a radio the board parks.
StartHardware ==
    /\ pc = "hardware"
    /\ oled_up' \in BOOLEAN
    /\ \/ pc' = "wifi" /\ UNCHANGED faults
       \/ pc' = "halted" /\ Fails
    /\ UNCHANGED <<flash, identity, net, wifi, link, button, suspended, off_in, due,
                   history, resets>>

\* WiFiSta::init(), unless there are no credentials or a step of it fails.
StartWifi ==
    /\ pc = "wifi"
    /\ \/ pc' = "wait" /\ station' = "connecting"
       \/ pc' = "load" /\ UNCHANGED station
    /\ UNCHANGED <<flash, identity, net, events, g_connected, drops, link, button,
                   display, due, history, resets, faults>>

\* 15 s, or less if an address comes: only then there will be a TCP interface.
WifiWaited ==
    /\ pc = "wait" /\ pc' = "load"
    /\ tcp' \in {FALSE, g_connected}
    /\ UNCHANGED <<flash, identity, started, wifi, link, button, display, due,
                   history, resets, faults>>

Loads == readable /\ nvs # None

\* createKeys(): a key never drawn before; which one makes no difference.  Ids
\* is a bound: there must be as many keys as boots that draw one.
NewKey == CHOOSE k \in Ids : k \notin drawn

LoadIdentity ==
    /\ pc = "load"
    /\ \/ Loads /\ identity' = nvs /\ pc' = "setup" /\ UNCHANGED drawn
       \/ /\ ~Loads /\ drawn # Ids
          /\ identity' = NewKey /\ drawn' = drawn \cup {NewKey}
          /\ pc' = "set"
    /\ UNCHANGED <<flash, net, wifi, link, button, display, due, announced, lost,
                   resets, faults>>

\* nvs_open() and nvs_set_blob(); a failure of either goes unnoticed.
SetBlob ==
    /\ pc = "set"
    /\ \/ readable /\ pc' = "commit" /\ unsaved' = identity /\ UNCHANGED <<lost, faults>>
       \/ readable /\ pc' = "commit" /\ Fails /\ lost' = lost + 1 /\ UNCHANGED unsaved
       \/ ~readable /\ pc' = "setup" /\ UNCHANGED <<unsaved, lost, faults>>
    /\ UNCHANGED <<nvs, readable, identity, net, wifi, link, button, display, due,
                   drawn, announced, resets>>

\* Mutant: the handle is closed without nvs_commit().
Committed_Forgotten == nvs' = nvs

Committed == nvs' = IF unsaved = None THEN nvs ELSE unsaved

CommitBlob ==
    /\ pc = "commit" /\ pc' = "setup"
    /\ \/ Committed /\ unsaved' = None /\ UNCHANGED <<lost, faults>>
       \/ Fails /\ lost' = lost + 1 /\ UNCHANGED <<nvs, unsaved>>
    /\ UNCHANGED <<readable, identity, net, wifi, link, button, display, due,
                   drawn, announced, resets>>

\* Destination, request handler and on_announce are in place before the
\* Reticulum task runs; that it could not be spawned is only logged.
SetUp ==
    /\ pc = "setup" /\ pc' = "nomad"
    /\ \/ started' = TRUE /\ UNCHANGED faults
       \/ started' = FALSE /\ Fails
    /\ UNCHANGED <<flash, identity, tcp, wifi, link, button, display, due, history,
                   resets>>

\* NomadnetNode::start() announces its destination; then the loop begins.
StartNomadnet ==
    /\ pc = "nomad" /\ pc' = "button"
    /\ announced' = announced \cup {identity}
    /\ off_in' = DisplayOn
    /\ UNCHANGED <<flash, identity, net, wifi, link, button, oled_up, suspended, due,
                   drawn, lost, resets, faults>>

\* Power loss, a crash, the reset button: what was set but not committed may or
\* may not have reached the flash.
Reset ==
    /\ resets < MaxResets /\ resets' = resets + 1
    /\ pc' = "nvs" /\ Fresh
    /\ nvs' \in IF unsaved = None THEN {nvs} ELSE {nvs, unsaved}
    /\ unsaved' = None
    /\ UNCHANGED <<down, drops, history, faults>>

-----------------------------------------------------------------------------
(* WiFi: the driver, and the handlers on the event task *)

Associate ==
    /\ station = "connecting" /\ station' = "up"
    /\ events' = Append(events, "got_ip")
    /\ UNCHANGED <<pc, flash, identity, net, g_connected, drops, link, button, display,
                   due, history, resets, faults>>

Drop ==
    /\ station \in {"connecting", "up"} /\ station' = "down"
    /\ drops < MaxDrops /\ drops' = drops + 1
    /\ events' = Append(events, "disconnected")
    /\ UNCHANGED <<pc, flash, identity, net, g_connected, link, button, display, due,
                   history, resets, faults>>

\* Mutant: only an association that had an address is tried again.
Reconnect_IfConnected == IF g_connected THEN "connecting" ELSE station

Reconnect == "connecting"

OnWifiEvent ==
    /\ events # <<>> /\ events' = Tail(events)
    /\ IF Head(events) = "got_ip"
       THEN g_connected' = TRUE /\ UNCHANGED station
       ELSE g_connected' = FALSE /\ station' = Reconnect
    /\ UNCHANGED <<pc, flash, identity, net, drops, link, button, display, due, history,
                   resets, faults>>

-----------------------------------------------------------------------------
(* The mesh, as on_announce and the handshake see it *)

\* Frames are taken in when the main task polls, and from TCP at any time once
\* the Reticulum task runs.
Listens == pc = "poll" \/ (started /\ tcp)

\* Mutant: only the announce of the board's own destination is left out, and not
\* that of the NomadNet destination beside it.
IsOwn_Address(id, dest) == id = identity /\ dest = "heltec_v3"

IsOwn(id, dest) == id = identity

\* on_announce: of another board, or the echo of an announce of this one.
HearAnnounce(id, dest) ==
    /\ Listens /\ id \in Peers \cup announced
    /\ ~IsOwn(id, dest)
    /\ out_link = NoLink
    /\ out_link' = [peer |-> id, status |-> "handshake"]
    /\ UNCHANGED <<pc, flash, identity, net, wifi, hello_sent, link_tx, button, display, due,
                   history, resets, faults>>

\* An LRPROOF, if the request and the proof both got through; one with a wrong
\* signature closes the link.
HearProof ==
    /\ Listens
    /\ out_link.status = "handshake" /\ out_link.peer \in Peers
    /\ \E s \in {"active", "closed"} : out_link' = [out_link EXCEPT !.status = s]
    /\ UNCHANGED <<pc, flash, identity, net, wifi, hello_sent, link_tx, button, display, due,
                   history, resets, faults>>

-----------------------------------------------------------------------------
(* The main loop *)

Press ==
    /\ ~down /\ down' = TRUE
    /\ pressed' = (pressed \/ pc \notin {"nvs", "hardware"})
    /\ UNCHANGED <<pc, flash, identity, net, wifi, link, display, due, history, resets, faults>>

LetGo ==
    /\ down /\ down' = FALSE
    /\ UNCHANGED <<pc, flash, identity, net, wifi, link, pressed, display, due,
                   history, resets, faults>>

TestButton ==
    /\ pc = "button"
    /\ pc' = IF pressed THEN "held" ELSE "hello"
    /\ pressed' = FALSE
    /\ UNCHANGED <<flash, identity, net, wifi, link, down, display, due, history,
                   resets, faults>>

\* Mutant: the wait goes on for as long as the button is down.
HeldLong_Waits == FALSE

\* More than 3 s have passed.
HeldLong == down

\* Mutant: a long press without WiFi is not taken for a short one.
AfterPress_Short == suspended /\ down

\* What a press leaves of the dark: Oled::resume(), whatever kind it was.
AfterPress == FALSE

\* A short press, or a long one when there is no WiFi to update over.
ButtonDone ==
    /\ pc = "held" /\ pc' = "hello"
    /\ ~down \/ (HeldLong /\ ~g_connected)
    /\ suspended' = AfterPress /\ off_in' = DisplayOn
    /\ UNCHANGED <<flash, identity, net, wifi, link, button, oled_up, due, history,
                   resets, faults>>

StartOta ==
    /\ pc = "held" /\ pc' = "ota"
    /\ HeldLong /\ g_connected
    /\ suspended' = FALSE
    /\ UNCHANGED <<flash, identity, net, wifi, link, button, oled_up, off_in, due, history,
                   resets, faults>>

\* OtaUpdate::pull() failed, or there is no URL.  If it succeeds the board
\* restarts: a Reset.
OtaFails ==
    /\ pc = "ota" /\ pc' = "hello"
    /\ off_in' = DisplayOn
    /\ UNCHANGED <<flash, identity, net, wifi, link, button, oled_up, suspended, due,
                   history, resets, faults>>

Suspends == oled_up /\ ~suspended /\ off_in = 0

\* Mutant: the flag is set before the attempt, and stays set if it throws.
AfterFailure_Sent == TRUE

AfterFailure == FALSE

\* The display, which no other task looks at, and then the hello.
SayHello ==
    /\ pc = "hello" /\ pc' = "announce"
    /\ suspended' = (suspended \/ Suspends)
    /\ IF out_link.status = "active" /\ ~hello_sent
       THEN \/ hello_sent' = TRUE /\ link_tx' = link_tx + 1 /\ UNCHANGED faults
            \/ hello_sent' = AfterFailure /\ Fails /\ UNCHANGED link_tx
       ELSE UNCHANGED <<hello_sent, link_tx, faults>>
    /\ UNCHANGED <<flash, identity, net, wifi, out_link, button, oled_up, off_in, due, history,
                   resets>>

\* Both destinations, or an exception from the first or between the two; the
\* next time is set before.
AnnounceTurn ==
    /\ pc = "announce" /\ pc' = "poll"
    /\ IF due = 0
       THEN /\ due' \in Periods
            /\ \/ announced' = announced \cup {identity} /\ UNCHANGED faults
               \/ announced' \in {announced, announced \cup {identity}} /\ Fails
       ELSE UNCHANGED <<due, announced, faults>>
    /\ UNCHANGED <<flash, identity, net, wifi, link, button, display, drawn, lost, resets>>

\* The turn ends with polling, the tick and a delay of one second.
EndTurn ==
    /\ pc = "poll" /\ pc' = "button"
    /\ due' = IF due = 0 THEN 0 ELSE due - 1
    /\ off_in' = IF off_in = 0 THEN 0 ELSE off_in - 1
    /\ UNCHANGED <<flash, identity, net, wifi, link, button, oled_up, suspended, history,
                   resets, faults>>

-----------------------------------------------------------------------------
Main ==
    \/ NvsReady \/ StartHardware \/ StartWifi \/ WifiWaited \/ LoadIdentity
    \/ SetBlob \/ CommitBlob \/ SetUp \/ StartNomadnet
    \/ TestButton \/ ButtonDone \/ StartOta \/ OtaFails \/ SayHello
    \/ AnnounceTurn \/ EndTurn

Mesh == \/ \E id \in Peers \cup announced, d \in {"heltec_v3", "node"} : HearAnnounce(id, d)
        \/ HearProof

Next == Main \/ Reset \/ Associate \/ Drop \/ OnWifiEvent \/ Mesh \/ Press \/ LetGo

Spec == Init /\ [][Next]_vars

\* The scheduler runs the main and the event task, and an attempt to associate
\* ends.  Nobody has to let go of the button, to answer or to be heard.
Fairness == WF_vars(Main) /\ WF_vars(OnWifiEvent) /\ WF_vars(Associate)

FairSpec == Spec /\ Fairness

-----------------------------------------------------------------------------
(* Properties *)

KeyTypes ==
    /\ pc \in Booting \cup Turning \cup {"halted"}
    /\ nvs \in Ids \cup {None} /\ unsaved \in Ids \cup {None}
    /\ identity \in Ids \cup {None} /\ readable \in BOOLEAN
    /\ drawn \in SUBSET Ids /\ announced \in SUBSET Ids
    /\ lost \in Nat /\ resets \in 0 .. MaxResets /\ faults \in 0 .. MaxFaults

NetTypes ==
    /\ tcp \in BOOLEAN /\ started \in BOOLEAN
    /\ station \in {"off", "connecting", "up", "down"}
    /\ events \in Seq({"got_ip", "disconnected"}) /\ g_connected \in BOOLEAN
    /\ drops \in 0 .. MaxDrops
    /\ out_link \in [peer : Ids \cup Peers \cup {None},
                     status : {"none", "handshake", "active", "closed"}]
    /\ hello_sent \in BOOLEAN /\ link_tx \in Nat

LoopTypes ==
    /\ pressed \in BOOLEAN /\ down \in BOOLEAN
    /\ oled_up \in BOOLEAN /\ suspended \in BOOLEAN
    /\ off_in \in 0 .. DisplayOn /\ due \in Nat

\* TypeOK: the main task is at a place of app_main, and every variable has its type.
TypeOK == KeyTypes /\ NetTypes /\ LoopTypes

\* AddressIsKept: the board announces itself under one identity for good, one
\* more for each failure of the flash: a reset anywhere, also between
\* createKeys() and nvs_commit(), never costs an identity the mesh has heard.
AddressIsKept == Cardinality(announced) <= 1 + lost

\* LinkIsToAnother: g_out_link, of which there is one per boot, is never spent on
\* the board itself, not for an echo of its own announces, of either destination
\* and from before a reset, unless the flash lost the key they were made with.
LinkIsToAnother == lost = 0 => out_link.peer \notin Ids

\* HelloIsSent: a link that became ACTIVE gets its hello although a send may
\* throw, unless the board is reset or waits for its user.
HelloIsSent == out_link.status = "active" ~> (link_tx > 0 \/ pc \notin Turning)

\* AnnouncesAgain: the loop comes to its next announce, whoever holds the button
\* down, whatever was thrown and however long the network was away.
AnnouncesAgain ==
    pc \in Turning ~> ((pc = "announce" /\ due = 0) \/ pc \notin Turning)

\* WifiComesBack: once started, the station ends up with an address again after
\* it lost its access point or failed to associate.
WifiComesBack == station # "off" ~> (g_connected \/ station = "off")

\* PressShows: a press, short or long, of a running board lights the display.
PressShows ==
    (pressed /\ oled_up /\ pc \in Turning) ~> (~suspended \/ pc \notin Turning)

===============================================================================
