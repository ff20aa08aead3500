------------------------------- MODULE Window -------------------------------
(***************************************************************************)
(* The window (crates/ui/src/main.rs, struct App) composed with its        *)
(* background task.  view of Worker.tla is App.link; the clicks below are  *)
(* the commands the enabled buttons can send.  A frame drains the channel  *)
(* and then draws: draining one update per step loses nothing, because the *)
(* task may send the rest between the drain and the click.  meant and      *)
(* doubled are history: no guard reads them.                               *)
(***************************************************************************)
EXTENDS Worker

VARIABLES
    scanning,  \* a scan is announced
    rows,      \* the devices listed
    selected,  \* the row picked
    info,      \* whose identity and capabilities are on show
    status,    \* whose readings are on show
    pairing,   \* last AuthState: "unknown", "authed" or "pending"
    window,    \* "new", "open", "closing" (Worker::close waits for the
               \* thread), "joined" or "left" (the thread was abandoned)
    meant,     \* for each waiting command, the battery on show at its click
    doubled    \* a connect was clicked before the one before it was shown

appVars == <<scanning, rows, selected, info, status, pairing, window>>
history == <<meant, doubled>>
allVars == <<vars, appVars, history>>

AppInit ==
    /\ Init
    /\ scanning = TRUE
    /\ rows = {}
    /\ selected = NoDevice
    /\ info = NoDevice
    /\ status = NoDevice
    /\ pairing = "unknown"
    /\ window = "new"
    /\ meant = <<>>
    /\ doubled = FALSE

\* The window sends c for what it shows.
Request(c) ==
    /\ Send(c)
    /\ meant' = Append(meant, info)

(* App::new asks for a scan before the first frame.                        *)
Start ==
    /\ window = "new"
    /\ Request([op |-> "scan"])
    /\ window' = "open"
    /\ UNCHANGED <<scanning, rows, selected, info, status, pairing, doubled>>

-----------------------------------------------------------------------------
(* drain: one update each.                                                 *)

Drained(kind) ==
    /\ window = "open"
    /\ updates # <<>>
    /\ Head(updates).kind = kind
    /\ Deliver
    /\ UNCHANGED <<window, history>>

DrainScanning ==
    /\ Drained("scanning")
    /\ scanning' = TRUE
    /\ UNCHANGED <<rows, selected, info, status, pairing>>

DrainFound ==
    /\ Drained("found")
    /\ scanning' = FALSE
    /\ rows' = Head(updates).rows
    /\ \/ selected \in rows' /\ UNCHANGED selected
       \/ selected \notin rows' /\ selected' \in rows'
       \/ rows' = {} /\ selected' = NoDevice
    /\ UNCHANGED <<info, status, pairing>>

\* Mutant of DrainConnected: the readings of the last battery stay.
DrainConnectedKeeping ==
    /\ Drained("connected")
    /\ info' = Head(updates).dev
    /\ pairing' = "unknown"
    /\ UNCHANGED <<scanning, rows, selected, status>>

DrainConnected ==
    /\ Drained("connected")
    /\ info' = Head(updates).dev
    /\ status' = NoDevice
    /\ pairing' = "unknown"
    /\ UNCHANGED <<scanning, rows, selected>>

DrainStatus ==
    /\ Drained("status")
    /\ status' = Head(updates).dev
    /\ UNCHANGED <<scanning, rows, selected, info, pairing>>

DrainPairing ==
    /\ Drained("pairing")
    /\ pairing' = IF Head(updates).authed THEN "authed" ELSE "pending"
    /\ UNCHANGED <<scanning, rows, selected, info, status>>

DrainDisconnected ==
    /\ Drained("disconnected")
    /\ info' = NoDevice
    /\ status' = NoDevice
    /\ pairing' = "unknown"
    /\ UNCHANGED <<scanning, rows, selected>>

(* Connecting only moves the link; a notice only shows its text.           *)
DrainOther ==
    /\ Drained("connecting") \/ Drained("notice")
    /\ UNCHANGED <<scanning, rows, selected, info, status, pairing>>

Drain ==
    \/ DrainScanning \/ DrainFound \/ DrainConnected \/ DrainStatus
    \/ DrainPairing \/ DrainDisconnected \/ DrainOther

-----------------------------------------------------------------------------
(* Clicks.                                                                 *)

Click(c) ==
    /\ window = "open"
    /\ Request(c)
    /\ UNCHANGED <<scanning, rows, info, status, window>>

ClickScan ==
    /\ view = Idle
    /\ ~scanning
    /\ Click([op |-> "scan"])
    /\ UNCHANGED <<selected, pairing, doubled>>

\* A connect was clicked and the window does not show it yet.
ConnectWaits ==
    \/ \E i \in 1 .. Len(commands) : commands[i].op = "connect"
    \/ \E i \in 1 .. Len(updates) : updates[i].kind = "connecting"

Connect(d) ==
    /\ (d = selected /\ ~scanning) \/ d \in rows
    /\ d # NoDevice
    /\ Click([op |-> "connect", dev |-> d])
    /\ selected' = d
    /\ doubled' = (doubled \/ ConnectWaits)
    /\ UNCHANGED pairing

\* Mutant of ClickConnect: also offered while a link is open.
ClickConnectAnytime(d) == Connect(d)

(* The connect button, and a double click on a row: the second is not      *)
(* disabled while a scan runs.                                             *)
ClickConnect(d) ==
    /\ view = Idle
    /\ Connect(d)

ClickDisconnect ==
    /\ view # Idle
    /\ Click([op |-> "disconnect"])
    /\ UNCHANGED <<selected, pairing, doubled>>

(* A toggle or a setting: its card is drawn for a live link with readings. *)
ClickControl ==
    /\ view.phase = "live"
    /\ status # NoDevice
    /\ Click([op |-> "control"])
    /\ UNCHANGED <<selected, pairing, doubled>>

(* The pairing card is drawn from the capabilities on show alone.          *)
ClickPair ==
    /\ info \in AuthDevices
    /\ Click([op |-> "pair"])
    /\ UNCHANGED <<selected, pairing, doubled>>

ClickForget ==
    /\ info \in AuthDevices
    /\ Click([op |-> "forget"])
    /\ pairing' = "unknown"
    /\ UNCHANGED <<selected, doubled>>

(* Closing: Worker::close sends Quit and waits at most CLOSE_LIMIT for the *)
(* thread, then leaves it to the end of the process.                       *)
Close ==
    /\ window = "open"
    /\ Request([op |-> "quit"])
    /\ window' = "closing"
    /\ UNCHANGED <<scanning, rows, selected, info, status, pairing, doubled>>

Join ==
    /\ window = "closing"
    /\ pc = "done"
    /\ window' = "joined"
    /\ UNCHANGED <<vars, scanning, rows, selected, info, status, pairing, history>>

Leave ==
    /\ window = "closing"
    /\ pc # "done"
    /\ window' = "left"
    /\ UNCHANGED <<vars, scanning, rows, selected, info, status, pairing, history>>

User ==
    \/ ClickScan
    \/ \E d \in Devices : ClickConnect(d)
    \/ ClickDisconnect \/ ClickControl \/ ClickPair \/ ClickForget
    \/ Close

(* The task runs until it ends or the process does.  Nobody drains a       *)
(* closing window; its channel has no bound, so what waits is discarded.   *)
Discard ==
    /\ window = "closing"
    /\ Deliver
    /\ UNCHANGED <<appVars, history>>

TaskStep(A) ==
    /\ window # "left"
    /\ A
    /\ meant' = IF commands' = commands THEN meant ELSE Tail(meant)
    /\ UNCHANGED <<appVars, doubled>>

Task == TaskStep(Respond) \/ TaskStep(Listen) \/ TaskStep(Obey)

AppNext ==
    \/ Start \/ Drain \/ User \/ Task
    \/ Discard \/ Join \/ Leave

AppSpec == AppInit /\ [][AppNext]_allVars

(* A frame is drawn at least twice a second, so draining is weakly fair,   *)
(* and the wait of Worker::close is bounded.                               *)
AppFairness ==
    /\ WF_allVars(Start)
    /\ WF_allVars(Drain \/ Discard)
    /\ WF_allVars(Join \/ Leave)
    /\ WF_allVars(TaskStep(Respond))
    /\ WF_allVars(TaskStep(Listen))
    /\ SF_allVars(TaskStep(Obey))

AppFairSpec == AppSpec /\ AppFairness

-----------------------------------------------------------------------------
(* Types of the window and of its task; among them, that the task has a    *)
(* link open exactly while it waits on it.                                 *)
AppTypeOK ==
    /\ TypeOK
    /\ scanning \in BOOLEAN
    /\ rows \in SUBSET Devices
    /\ {selected, info, status} \subseteq Devices \cup {NoDevice}
    /\ pairing \in {"unknown", "authed", "pending"}
    /\ window \in {"new", "open", "closing", "joined", "left"}

(* The readings, the identity and the capabilities on show are of one      *)
(* battery, also while another one is being connected; nothing of a        *)
(* battery stays on show without a link (main.rs:147-184, 994-1046).       *)
CardsAgree ==
    window = "open" =>
        /\ status # NoDevice => status = info
        /\ view.phase = "live" => info = view.dev
        /\ view = Idle => info = NoDevice /\ pairing = "unknown"

(* While the window says it is scanning a scan is asked for, running, or   *)
(* its result is under way: the button cannot stay disabled (main.rs:113,  *)
(* 133-135, 274).                                                          *)
ScanUnderWay ==
    window = "open" /\ scanning =>
        \/ pc = "scan"
        \/ \E i \in 1 .. Len(updates) : updates[i].kind = "found"
        \/ link = NoDevice /\ commands # <<>> /\ Head(commands).op = "scan"

(* A battery the card shows as waiting for its pairing is not read: once   *)
(* the window is up to date, its reads are suspended (worker.rs:171-180,   *)
(* 210-216, 232-236).  The converse is not so: a check of a paired battery *)
(* that fails suspends its reads and leaves the card as it was.            *)
PendingSuspends ==
    /\ window = "open" /\ pairing = "pending"
    /\ link # NoDevice /\ pc = "select" /\ updates = <<>>
    => needsPairing

(* A control, a pairing or a forgetting names no battery: it acts on the   *)
(* one open when the task comes to it.  That is the one it was clicked     *)
(* for, or none, whatever links were lost, refused, dropped and opened     *)
(* while it waited, unless the user clicked connect once more before the   *)
(* window showed the connection being opened (worker.rs:218-240,           *)
(* main.rs:147-184, 263, 274-286).                                         *)
RequestsMeant ==
    /\ ~doubled
    /\ pc = "select" /\ commands # <<>>
    /\ Head(commands).op \in {"control", "pair", "forget"}
    => link \in {Head(meant), NoDevice}

(* Disconnect pressed while a connection is being opened, or lost, ends    *)
(* with the window idle, whatever the opening comes to (worker.rs:218-221, *)
(* main.rs:147, 177-184).                                                  *)
DisconnectShown ==
    (\E i \in 1 .. Len(commands) : commands[i].op = "disconnect")
        ~> view = Idle \/ window # "open"

(* The button to scan comes back.                                          *)
ScanEnds == scanning ~> ~scanning \/ window # "open"

-----------------------------------------------------------------------------
(* What the repository says and the code does not keep.                    *)

(* battery.rs:136-139: call disconnect before dropping an adapter, to      *)
(* release the radio.  A window that leaves its thread behind does not.    *)
ExitReleases == window \in {"joined", "left"} => link = NoDevice
=============================================================================
