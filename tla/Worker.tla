------------------------------- MODULE Worker -------------------------------
(***************************************************************************)
(* The background task of the window (crates/ui/src/worker.rs, fn run).    *)
(* One task owns at most one open battery.  It takes commands from an      *)
(* unbounded channel, follows or polls the linked battery, and reports     *)
(* everything it does on a second channel that the window drains.  An      *)
(* await of the task ends a step here, because the window may send and     *)
(* drain while the task waits; between two awaits the task is alone.  Two  *)
(* short awaits are part of the step that ends them, since nothing the     *)
(* window does meanwhile depends on them: the battery's own disconnect in  *)
(* drop_link (at most 3 s) and forget_auth.                                *)
(***************************************************************************)
EXTENDS Naturals, Sequences

CONSTANTS
    Devices,             \* ids a scan can return
    StreamDevices,       \* those whose backend answers TRUE to has_stream
    AuthDevices,         \* those whose capabilities have REQUIRES_AUTH
    NoDevice,            \* link is None
    FailuresBeforeDrop,  \* FAILURES_BEFORE_DROP
    MaxCommands,         \* bound: commands waiting in the channel
    MaxUpdates           \* bound: updates waiting before the task's next step

ASSUME WorkerAssumption ==
    /\ StreamDevices \subseteq Devices
    /\ AuthDevices \subseteq Devices
    /\ NoDevice \notin Devices
    /\ FailuresBeforeDrop \in Nat \ {0}
    /\ MaxCommands \in Nat
    /\ MaxUpdates \in Nat

VARIABLES
    commands,      \* the channel from the window to the task
    updates,       \* the channel from the task to the window
    pc,            \* the await the task is at
    link,          \* the open battery
    target,        \* the battery being opened, while pc = "connect"
    found,         \* the entries of the last scan
    live,          \* the followed snapshot holds at least one sensor
    failures,      \* failed reads since the last answer
    needsPairing,  \* needs_pairing: reads are suspended
    view           \* what a drained consumer believes about the link

taskVars == <<pc, link, target, found, live, failures, needsPairing>>
vars == <<commands, updates, taskVars, view>>

-----------------------------------------------------------------------------
(* Messages.  Identity, capabilities and readings are reduced to the id of *)
(* the battery they came from.                                             *)

Command ==
    [op : {"connect"}, dev : Devices]
    \cup [op : {"scan", "disconnect", "control", "pair", "forget", "quit"}]

Update ==
    [kind : {"connecting", "connected", "status"}, dev : Devices]
    \cup [kind : {"found"}, rows : SUBSET Devices]
    \cup [kind : {"pairing"}, authed : BOOLEAN]
    \cup [kind : {"scanning", "notice", "disconnected"}]

Scanning == [kind |-> "scanning"]
Found(S) == [kind |-> "found", rows |-> S]
Connecting(d) == [kind |-> "connecting", dev |-> d]
Connected(d) == [kind |-> "connected", dev |-> d]
Status(d) == [kind |-> "status", dev |-> d]
Pairing(ok) == [kind |-> "pairing", authed |-> ok]
Notice == [kind |-> "notice"]
Disconnected == [kind |-> "disconnected"]

(* The link as the window shows it (enum Link of main.rs), and how one     *)
(* drained update changes it.                                              *)
Idle == [phase |-> "idle", dev |-> NoDevice]
Opening(d) == [phase |-> "connecting", dev |-> d]
Live(d) == [phase |-> "live", dev |-> d]

View == {Idle} \cup {Opening(d) : d \in Devices} \cup {Live(d) : d \in Devices}

Moves(u) == u.kind \in {"connecting", "connected", "disconnected"}

After(v, u) ==
    CASE u.kind = "connecting"   -> Opening(u.dev)
      [] u.kind = "connected"    -> Live(u.dev)
      [] u.kind = "disconnected" -> Idle
      [] OTHER                   -> v

-----------------------------------------------------------------------------
Init ==
    /\ commands = <<>>
    /\ updates = <<>>
    /\ pc = "select"
    /\ link = NoDevice
    /\ target = NoDevice
    /\ found = {}
    /\ live = FALSE
    /\ failures = 0
    /\ needsPairing = FALSE
    /\ view = Idle

(* The environment: a sender, and a consumer that drains in order.         *)
Send(c) ==
    /\ Len(commands) < MaxCommands
    /\ commands' = Append(commands, c)
    /\ UNCHANGED <<updates, taskVars, view>>

Deliver ==
    /\ updates # <<>>
    /\ view' = After(view, Head(updates))
    /\ updates' = Tail(updates)
    /\ UNCHANGED <<commands, taskVars>>

-----------------------------------------------------------------------------
(* Steps of the task.                                                      *)

At(here) == pc = here /\ Len(updates) <= MaxUpdates

Receive(op) ==
    /\ At("select")
    /\ commands # <<>>
    /\ Head(commands).op = op
    /\ commands' = Tail(commands)
    /\ UNCHANGED view

\* Mutants of GivenUp: one read too late, one too early.
GivenUpLate(n) == n > FailuresBeforeDrop
GivenUpEarly(n) == n + 1 >= FailuresBeforeDrop

GivenUp(n) == n >= FailuresBeforeDrop

(* A read failed for good: after FailuresBeforeDrop of them the link is    *)
(* given up, before that the task reports it and rests for half a second.  *)
Problem(sofar) ==
    /\ failures' = sofar + 1
    /\ IF GivenUp(sofar + 1)
         THEN /\ link' = NoDevice
              /\ updates' = Append(Append(updates, Notice), Disconnected)
              /\ pc' = "select"
         ELSE /\ updates' = Append(updates, Notice)
              /\ pc' = "pause"
              /\ UNCHANGED link
    /\ UNCHANGED <<commands, target, found, live, needsPairing, view>>

PauseOver ==
    /\ At("pause")
    /\ pc' = "select"
    /\ UNCHANGED <<commands, updates, link, target, found, live, failures,
                   needsPairing, view>>

(* Scan: only without a link, otherwise the command is dropped silently.   *)
ReceiveScan ==
    /\ Receive("scan")
    /\ \/ /\ link = NoDevice
          /\ updates' = Append(updates, Scanning)
          /\ pc' = "scan"
       \/ /\ link # NoDevice
          /\ UNCHANGED <<updates, pc>>
    /\ UNCHANGED <<link, target, found, live, failures, needsPairing>>

\* Mutant of ScanDone: a failed scan reports no list.
ScanDoneSilent ==
    /\ At("scan")
    /\ \E S \in SUBSET Devices :
         /\ found' = S
         /\ \/ updates' = Append(updates, Found(S))
            \/ S = {} /\ updates' = Append(updates, Notice)
    /\ pc' = "select"
    /\ UNCHANGED <<commands, link, target, live, failures, needsPairing, view>>

ScanDone ==
    /\ At("scan")
    /\ \/ \E S \in SUBSET Devices :
             /\ found' = S
             /\ updates' = Append(updates, Found(S))
       \/ /\ found' = {}
          /\ updates' = Append(Append(updates, Notice), Found({}))
    /\ pc' = "select"
    /\ UNCHANGED <<commands, link, target, live, failures, needsPairing, view>>

\* Mutant of Fresh: the pairing flag outlives its battery.
FreshCount == failures' = 0 /\ UNCHANGED needsPairing

(* Whatever a connection comes to, nothing is kept from the one before.    *)
Fresh == failures' = 0 /\ needsPairing' = FALSE

(* Connect: the old link is dropped first, whatever becomes of the new one.*)
ReceiveConnect ==
    /\ Receive("connect")
    /\ link' = NoDevice
    /\ live' = FALSE
    /\ LET d == Head(commands).dev IN
       \/ /\ d \in found
          /\ updates' = Append(updates, Connecting(d))
          /\ pc' = "connect"
          /\ target' = d
          /\ UNCHANGED <<failures, needsPairing>>
       \/ /\ d \notin found
          /\ updates' = Append(Append(updates, Notice), Disconnected)
          /\ Fresh
          /\ UNCHANGED <<pc, target>>
    /\ UNCHANGED found

OpenDone ==
    /\ At("connect")
    /\ link' = target
    /\ updates' = Append(updates, Connected(target))
    /\ pc' = CASE target \in AuthDevices   -> "pairNew"
               [] target \in StreamDevices -> "select"
               [] OTHER                    -> "poll"
    /\ target' = NoDevice
    /\ Fresh
    /\ UNCHANGED <<commands, found, live, view>>

\* Mutant of OpenFailed: the failure is only a notice.
OpenFailedSilent ==
    /\ At("connect")
    /\ updates' = Append(updates, Notice)
    /\ pc' = "select"
    /\ target' = NoDevice
    /\ Fresh
    /\ UNCHANGED <<commands, link, found, live, view>>

OpenFailed ==
    /\ At("connect")
    /\ updates' = Append(Append(updates, Notice), Disconnected)
    /\ pc' = "select"
    /\ target' = NoDevice
    /\ Fresh
    /\ UNCHANGED <<commands, link, found, live, view>>

\* Mutants of ReceiveDisconnect: it keeps the battery of a stream that is
\* read; it drops the link without saying so.
ReceiveDisconnectLate ==
    /\ Receive("disconnect")
    /\ link' = IF live THEN link ELSE NoDevice
    /\ updates' = Append(updates, Disconnected)
    /\ UNCHANGED <<pc, target, found, live, failures, needsPairing>>

ReceiveDisconnectSilent ==
    /\ Receive("disconnect")
    /\ link' = NoDevice
    /\ UNCHANGED <<updates, pc, target, found, live, failures, needsPairing>>

ReceiveDisconnect ==
    /\ Receive("disconnect")
    /\ link' = NoDevice
    /\ updates' = Append(updates, Disconnected)
    /\ UNCHANGED <<pc, target, found, live, failures, needsPairing>>

(* Pairing, at the end of a connect or on request.  A battery that needs   *)
(* no pairing has the trait's default authenticate, which always accepts.  *)
ReceivePair ==
    /\ Receive("pair")
    /\ pc' = IF link = NoDevice THEN "select" ELSE "pair"
    /\ UNCHANGED <<updates, link, target, found, live, failures, needsPairing>>

\* Mutant of PairDone: a pairing can end the suspension only.
PairDoneClearing(paired) ==
    /\ pc' = IF pc = "pairNew" /\ paired /\ link \notin StreamDevices
               THEN "poll" ELSE "select"
    /\ needsPairing' = (needsPairing /\ ~paired)
    /\ UNCHANGED <<commands, link, target, found, live, failures, view>>

PairDone(paired) ==
    /\ pc' = IF pc = "pairNew" /\ paired /\ link \notin StreamDevices
               THEN "poll" ELSE "select"
    /\ needsPairing' = ~paired
    /\ UNCHANGED <<commands, link, target, found, live, failures, view>>

PairAnswered ==
    /\ At("pair") \/ At("pairNew")
    /\ \E ok \in BOOLEAN :
         /\ link \in AuthDevices \/ ok
         /\ updates' = Append(updates, Pairing(ok))
         /\ PairDone(ok)

PairFailed ==
    /\ At("pair") \/ At("pairNew")
    /\ link \in AuthDevices
    /\ updates' = Append(updates, Notice)
    /\ PairDone(FALSE)

ReceiveForget ==
    /\ Receive("forget")
    /\ \/ /\ link = NoDevice
          /\ UNCHANGED <<updates, needsPairing>>
       \/ /\ link # NoDevice
          /\ updates' = Append(updates, Notice)
          /\ \/ needsPairing' = (link \in AuthDevices)
             \/ link \in AuthDevices /\ UNCHANGED needsPairing
    /\ UNCHANGED <<pc, link, target, found, live, failures>>

(* Control: an error or a timeout is only reported; a battery without a    *)
(* stream is then polled at once, even one that still needs pairing.       *)
ReceiveControl ==
    /\ Receive("control")
    /\ pc' = IF link = NoDevice THEN "select" ELSE "execute"
    /\ UNCHANGED <<updates, link, target, found, live, failures, needsPairing>>

\* Mutant of ControlDone: a command that worked counts as an answer.
ControlDoneForgiving ==
    /\ At("execute")
    /\ \/ failures' = 0 /\ UNCHANGED updates
       \/ updates' = Append(updates, Notice) /\ UNCHANGED failures
    /\ pc' = IF link \in StreamDevices THEN "select" ELSE "poll"
    /\ UNCHANGED <<commands, link, target, found, live, needsPairing, view>>

ControlDone ==
    /\ At("execute")
    /\ \/ UNCHANGED updates
       \/ updates' = Append(updates, Notice)
    /\ pc' = IF link \in StreamDevices THEN "select" ELSE "poll"
    /\ UNCHANGED <<commands, link, target, found, live, failures, needsPairing,
                   view>>

\* Mutant of ReceiveQuit: it ends the task only when no battery is linked.
ReceiveQuitIdle ==
    /\ Receive("quit")
    /\ pc' = IF link = NoDevice THEN "done" ELSE "select"
    /\ link' = NoDevice
    /\ UNCHANGED <<updates, target, found, live, failures, needsPairing>>

ReceiveQuit ==
    /\ Receive("quit")
    /\ pc' = "done"
    /\ link' = NoDevice
    /\ UNCHANGED <<updates, target, found, live, failures, needsPairing>>

(* Reading the link when no command is taken.                              *)
Monitored(S) == At("select") /\ link \in S /\ ~needsPairing

PollDue ==
    /\ Monitored(Devices \ StreamDevices)
    /\ pc' = "poll"
    /\ UNCHANGED <<commands, updates, link, target, found, live, failures,
                   needsPairing, view>>

PollAnswered ==
    /\ At("poll")
    /\ failures' = 0
    /\ updates' = Append(updates, Status(link))
    /\ pc' = "select"
    /\ UNCHANGED <<commands, link, target, found, live, needsPairing, view>>

PollFailed ==
    /\ At("poll")
    /\ Problem(failures)

StreamAnswered ==
    /\ Monitored(StreamDevices)
    /\ failures' = 0
    /\ \E sensors \in BOOLEAN : live' = (live \/ sensors)
    /\ updates' = Append(updates, Status(link))
    /\ UNCHANGED <<commands, pc, link, target, found, needsPairing, view>>

(* A stream's error whose text has "timed out" is not reported while a     *)
(* snapshot is on show, until the failures reach the limit.                *)
Quiet(timedOut) == timedOut /\ live

\* Mutant of StreamQuiet: a timeout is reported instead of counted.
StreamQuietReported ==
    /\ Monitored(StreamDevices)
    /\ Quiet(TRUE)
    /\ updates' = Append(updates, Notice)
    /\ UNCHANGED <<commands, taskVars, view>>

StreamQuiet ==
    /\ Monitored(StreamDevices)
    /\ Quiet(TRUE)
    /\ ~GivenUp(failures + 1)
    /\ failures' = failures + 1
    /\ UNCHANGED <<commands, updates, pc, link, target, found, live,
                   needsPairing, view>>

StreamFailed ==
    /\ Monitored(StreamDevices)
    /\ \E timedOut \in BOOLEAN :
         IF Quiet(timedOut)
           THEN /\ GivenUp(failures + 1)
                /\ Problem(failures + 1)
           ELSE Problem(failures)

-----------------------------------------------------------------------------
Respond ==
    \/ ScanDone
    \/ OpenDone \/ OpenFailed
    \/ PairAnswered \/ PairFailed
    \/ ControlDone
    \/ PollAnswered \/ PollFailed
    \/ PauseOver

Listen ==
    \/ PollDue
    \/ StreamAnswered \/ StreamQuiet \/ StreamFailed

Obey ==
    \/ ReceiveScan \/ ReceiveConnect \/ ReceiveDisconnect \/ ReceiveControl
    \/ ReceivePair \/ ReceiveForget \/ ReceiveQuit

Next ==
    \/ \E c \in Command : Send(c)
    \/ Deliver
    \/ Respond \/ Listen \/ Obey

(* Every await of the task has a time limit, so its answer is weakly fair; *)
(* select! picks a ready branch at random, so a waiting command is taken.  *)
Fairness ==
    /\ WF_vars(Deliver)
    /\ WF_vars(Respond)
    /\ WF_vars(Listen)
    /\ SF_vars(Obey)

Spec == Init /\ [][Next]_vars
FairSpec == Spec /\ Fairness
-----------------------------------------------------------------------------
(* Every state variable ranges over the values the code can give it; the   *)
(* link is open exactly while the task waits on it.                        *)
TypeOK ==
    /\ commands \in Seq(Command)
    /\ updates \in Seq(Update)
    /\ pc \in {"select", "scan", "connect", "pairNew", "pair", "execute",
               "poll", "pause", "done"}
    /\ link \in Devices \cup {NoDevice}
    /\ target \in Devices \cup {NoDevice}
    /\ found \in SUBSET Devices
    /\ live \in BOOLEAN
    /\ failures \in Nat
    /\ needsPairing \in BOOLEAN
    /\ view \in View
    /\ pc \in {"pairNew", "pair", "execute", "poll", "pause"} => link # NoDevice
    /\ pc \in {"scan", "connect", "done"} => link = NoDevice
    /\ pc = "connect" <=> target # NoDevice

(* A battery that has failed FailuresBeforeDrop reads in a row is not kept *)
(* open, whichever mix of polls, commands, loud and quiet stream errors    *)
(* the failures came from (worker.rs:184-195, 254-270).                    *)
SilentLinkDropped == link # NoDevice => failures < FailuresBeforeDrop

(* Reads are suspended only for a battery that asks for pairing: a flag    *)
(* left over from the battery before must not silence the next one         *)
(* (worker.rs:207-216).                                                    *)
SilencedOnlyForPairing ==
    needsPairing /\ link # NoDevice => link \in AuthDevices

(* The link as the task holds it.                                          *)
Held ==
    IF pc = "connect" THEN Opening(target)
    ELSE IF link = NoDevice THEN Idle
    ELSE Live(link)

(* A consumer now believing v, that drains q, believes w when it reaches   *)
(* position i.                                                             *)
Believes(q, v, i, w) ==
    \/ /\ \A j \in 1 .. i - 1 : ~Moves(q[j])
       /\ v = w
    \/ \E k \in 1 .. i - 1 :
         /\ Moves(q[k])
         /\ \A j \in k + 1 .. i - 1 : ~Moves(q[j])
         /\ After(v, q[k]) = w

(* Draining every waiting update brings the window to what the task holds: *)
(* no path of the task opens, replaces, drops or loses the link without    *)
(* saying so (every drop_link and connect of worker.rs; main.rs:147-184).  *)
ViewSettles ==
    pc # "done" => Believes(updates, view, Len(updates) + 1, Held)

(* A reading reaches the window while it shows exactly the battery it came *)
(* from, also when connections were replaced or lost with updates of the   *)
(* old one still waiting (main.rs:159-171).                                *)
ReadingsMatchView ==
    \A i \in 1 .. Len(updates) :
        updates[i].kind = "status"
            => Believes(updates, view, i, Live(updates[i].dev))

(* The count of failures is forgiven only by an answer of the battery or   *)
(* by a new connection; a command or a pairing that worked is not an       *)
(* answer (worker.rs:137, 154, 208).                                       *)
OnlyAnswersForgive ==
    [][failures' < failures =>
         \/ pc = "connect"
         \/ link' = NoDevice
         \/ updates' = Append(updates, Status(link))]_vars

(* A command that has the task leave the battery it holds.                 *)
Leaves(c) == c.op \in {"connect", "disconnect", "quit"}

(* The task implements the promise of Session: no path of it takes up,     *)
(* leaves or gives up a battery but on a request, by a refusal or by       *)
(* silence at the limit (worker.rs:184-195, 204-221, 254-272).             *)
Promise == INSTANCE Session WITH
    Limit <- FailuresBeforeDrop,
    phase <- Held.phase,
    device <- Held.dev,
    misses <- failures,
    leave <- \E i \in 1 .. Len(commands) : Leaves(commands[i])

SessionPromise == Promise!Spec

-----------------------------------------------------------------------------
(* Liveness, under FairSpec.                                               *)

(* The window never shows "connecting" for ever (CONNECT_LIMIT).           *)
ConnectingEnds == view.phase = "connecting" ~> view.phase # "connecting"

(* A request to disconnect ends with the link dropped, whatever the task   *)
(* was waiting for and whatever the battery does (worker.rs:218-221).      *)
DisconnectHonoured ==
    (\E i \in 1 .. Len(commands) : commands[i].op = "disconnect")
        ~> link = NoDevice

(* The task ends after Quit even if the battery never stops reporting      *)
(* (worker.rs:196, 272).                                                   *)
QuitEnds ==
    (\E i \in 1 .. Len(commands) : commands[i].op = "quit") ~> pc = "done"

(* Once the user leaves the window alone, a battery that stays linked and  *)
(* is not waiting for pairing keeps answering: a dead one does not stay    *)
(* linked (FAILURES_BEFORE_DROP).                                          *)
DeadLinkDropped ==
    \A d \in Devices :
        <>[](link = d /\ ~needsPairing /\ commands = <<>>)
            => []<>(failures = 0)
=============================================================================
