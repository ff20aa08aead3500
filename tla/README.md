# battery-control: specifications and proofs

TLA+ specifications of battery-control, model-checked with TLC, with theorems
checked by TLAPS. Source paths below are relative to the repository root;
`bms.rs` alone is the client of the family under discussion.

    tlc -workers 2 -config MCWorker.cfg MCWorker      # one run
    tlapm WindowProofs.tla                            # one module of proofs

`PROJECT.json` lists the components, the runs with the properties each checks,
the source lines behind every definition, the hazards, the mutants (for each
checked property a plausible bug it would catch) and the findings.

## 1. The system

battery-control reads and controls home batteries, BMSs and power stations of
fourteen families through one async trait, `Battery` (`src/battery.rs`). A
backend (`src/backends/*.rs`) adapts a protocol client
(`crates/<family>/src/bms.rs`) to the trait. Two programs use it: the window
(`crates/ui`) and the command line (`src/bin/battery`).

    App (ui thread) --commands--> run (task) --Battery--> backend --Transport--> battery
         ^------------updates-------'                       client <--frames--'
                                      |
                    discovery, credentials

Nothing runs in parallel inside a backend: a caller owns the battery as
`&mut` and polls one future. What is hard lies between the futures: the window
and its task exchange messages through two unbounded channels, a `select!` may
drop a future at any await (a command, a time limit), and the battery answers
late, twice, not at all, in pieces, or with a frame nobody asked for.

### Inventory

| Component | State | Operations | Hard behaviour | What makes it correct | Modelled |
|---|---|---|---|---|---|
| Background task, `crates/ui/src/worker.rs` | link, live snapshot, failure count, `needs_pairing`, scan entries, two channels | scan, connect, disconnect, control, pair, forget, quit; poll or follow | commands race readings, limits (40 s connect, 60 s pairing, 12 s status), lost links, stale counters | the window can always tell what is linked; a dead battery is dropped after three failures and no sooner; every request ends | `Worker`, `Session` |
| Window, `crates/ui/src/main.rs` | link phase, rows, selection, cards, pairing card | drain, clicks, close | acts on what it last drained | cards are of one battery; buttons come back | `Window` |
| Incremental status, `src/types.rs`, `src/battery.rs` | `prev`, queue of updates, folded snapshot | diff, apply, updates; follow, monitor | streams that fail and are renewed; snapshots that lose elements | no update is lost; what is shown is of one reading | `StatusStream` |
| JBD, `crates/jbd_bms` | last snapshot, assembler, transport buffer | read two registers, write both FETs | late answers, cut and joined notifications, read-modify-write of a shared register | a switch does not move the other FET | `JbdBms` |
| JK, `crates/jk_bms`, `src/backends/jk.rs` | pack, version, settings cache, streaming flag | read, stream, write setting | pushed frames among answers, lost frames, dropped calls, cache, a guessed version | settings shown are the BMS's; a write reaches the setting meant; every call ends | `JkModel`, `JkBattery` |
| Anker Solix, `src/backends/anker.rs`, `crates/anker_solix` | session, `authed`, saved userIds, cached limits, fragments | connect, gate, pair, forget, settings, ports, pushed telemetry | the gate takes the next packet; fragments mixed; limits written as a pair | what the client believes of its bond and its writes is so | `AnkerModel`, `AnkerBattery` |
| EcoFlow, `crates/ecoflow` | handshake stage, keys, buffer | handshake, seal, read | any notification advances the stage; frames cut and joined | ready only when granted; the splitter stays in step | `EcoFlow` |
| Renogy, Seplos, PACE, Bluetti over `crates/modbus_lite`; SOK; Jackery; Pylontech RS485 | parts collected for a block | read block by block, switch | answers that do not say which block they answer | a block is decoded from its own answer | `BleLink`, `Masters`, `Adapters` |
| Pylontech console and CAN | output, socket queue, collected frames | command, status, collect | output left to the next command; a queue that overflows | a reading is of one round | `Pylontech` |
| Discovery, `src/discovery.rs` and each crate's scan | what the adapter has heard, entries | scan all, probe serial, merge, resolve, open | nine scans at once, a pack two backends recognise, ids that begin one another | an id names one device, a device one backend | `Discovery` |
| Credentials, `src/credentials.rs`, `src/auth.rs` | map and file | load, save, delete | savers at once, two programs, a crash in the write | what was saved is found | `Credentials` |
| Victron, `src/backends/victron.rs` | advertisement stream | stream | the stream ends | as incremental status | its loop, in `StatusStream` |
| BLE helper and transports | peripheral, notification stream | open, read, write, close | an open that is dropped half-way | | `BleLink`; else as delay, cut and loss |
| Daly, VE.Direct | none | read | adapters of external crates | | no |
| Ciphers, `secp160r1`, rendering, vendor tools, demo pack | none | pure computation or drawing | | | no |

## 2. Modules

| Module | Models | Uses |
|---|---|---|
| `Session` | the promise of a connection, abstractly | |
| `Worker` | `run` of `worker.rs`, both channels | `INSTANCE Session` |
| `Window` | `App`, `Worker::close` | `EXTENDS Worker` |
| `StatusStream` | `diff`, `apply`, a stream, its follower | |
| `JbdBms` | JBD client, assembler, adapter and BMS | |
| `JkModel` | models, versions and registers of JK | |
| `JkBattery` | JK client, adapter and BMS | `EXTENDS JkModel` |
| `AnkerModel` | parameters, fields, settings and commands of Anker | |
| `AnkerBattery` | Anker client, adapter and station, both generations | `EXTENDS AnkerModel` |
| `EcoFlow` | handshake, splitter, reads | |
| `BleLink` | open and close of a transport | |
| `Masters` | the eight clients that ask block by block | `EXTENDS BleLink` |
| `Adapters` | what their backends decode, compute and show | `EXTENDS Masters` |
| `Pylontech` | text console, CAN bus | |
| `Discovery` | scans, probe, merge, resolve | |
| `Credentials` | the file store | |
| `MC*` | constants for TLC | the module named |
| `WindowProofs`, `JbdProofs`, `JkProofs`, `AnkerProofs`, `MastersProofs`, `EcoFlowProofs`; `ReadingProofs` (`StatusStream`, `Pylontech`); `OpeningProofs` (`Discovery`, `Credentials`) | theorems | each extends the modules it is about |

An operator whose comment calls it a mutant is not part of a specification; it
is the bug a property has been seen to catch. `meant`, `missed`, `stray`, `told`
and their like are history variables: no guard reads them, and
properties use them to say under which circumstances something holds.

### Worker

A step ends where the code awaits. `pc` names the await: `select` (the
`select!` over commands and the reading of the linked battery), `scan`,
`connect`, `control`, `pair`, `poll`, and `done`. A `Receive...` action takes
a command and runs to the next await; `ScanDone`, `OpenDone`, `OpenFailed`,
`ControlDone`, `PairDone` and the `Poll...` and `Stream...` actions are the
outcomes of an await, errors and time limits among them. All updates a step
sends are appended in the code's order. `view` is what a consumer that has
drained this far believes about the link, by the rules of `App::drain`.

Two awaits are merged into the step that ends them: the disconnect of
`drop_link`, which is limited to 3 s, and `forget_auth`, which has no limit but
only touches the credential store. A command sent during either waits in the
channel just as one sent after it, so nothing observable depends on the cut.
Data are reduced to the id of the battery they came from. A reading is either
an answer or a failure, and a failing stream is quiet when the live snapshot
has a sensor and the error is a timeout, as in `worker.rs:186`.

### Session

The abstract specification: phase, device, misses, and whether the window has
asked to leave what is there (`leave`). Nothing is begun or ended but on such a
request (`TakeUp`), by a refusal, or by silence, and a live connection that
nobody asks to leave is given up exactly when `Limit` reads in a row have
failed. `Worker` implements it with `phase <- Held.phase`,
`device <- Held.dev`, `misses <- failures`, and for `leave` that a connect, a
disconnect or a quit waits in the channel.

### Window

Adds the cards, the scan button and closing. A click is enabled only where the
code draws the button enabled. Draining is one update per step, which allows
more interleavings than a frame that drains all. Closing sends `Quit` and waits
at most 4 s (`Join`, or `Leave` when the task is still busy). `meant` records
for each waiting command the battery on show at its click, since the commands
themselves carry none; `doubled`, that a connect was clicked before the window
showed the one before it. Left out: the `--demo` connect, values being edited,
the history of readings, plots, drawing.

### StatusStream

A snapshot maps ids to values, with a set of alarms; one diff is a set of
updates with different targets. `monitor`, chosen at the start, is the follower:
the window's `follow`, which folds all that is ready and shows it at once, and
renews streams for ever keeping its snapshot; or the CLI's `monitor`, which
folds one update at a time, may print between two of them, and ends with its
stream.

### JbdBms

Client, two channels, and a BMS that answers in order. An answer is one or more
notifications; the transport joins what has arrived into one read of
`MaxRead`, keeps what does not fit in `leftover`, and `FrameAssembler` searches
its buffer from each start byte. `OddTails` lets the payload of a second part
hold a byte that looks like a start. Notifications may be lost. An answer is
recognised by its register alone, as in `request`. A read may be given up with
its answer under way (sixteen empty reads, or the caller's limit), and the
client may be closed and a new one opened. `Blind` is the `set` command of the
CLI, which executes without a read.

### JkModel, JkBattery

`JkModel` holds the register of every setting in both register tables of
`protocol.rs`, and which version the client takes a model for; `RegistersApart`
(checked by TLC, used by the proofs) says that no table names a register twice.

`call` is the program counter of the one call at a time (`read_data`'s two
phases, `next_update`) with its caller's goal, retries, patience and flags.
`Clock` actions are windows and limits running out; `Dropped` is a caller that
drops the future at an await. `pack.version` is what the client believes: the
default until an info frame came, then what the model implies. Settings decoded
by the layout of another protocol are `Misread`; a write carries the register
looked up by the version believed. `Lose` removes the frame at the head: the
transport joins notifications into one read, the assembler clears its buffer
only when a read begins with a preamble, so a frame behind another is lost, as
is one with a bad checksum.

### AnkerModel, AnkerBattery

`AnkerModel` holds the tables: which telemetry parameter carries each field in
either generation, which fields are shown as settings and ports, which command
writes each. `AnkerBattery` has one row of notifications that the handshake,
the gate, writes and telemetry all take from, each by its own rule: the secure
handshake and the gate take the next packet, a write skips until its
acknowledgement, the stream passes over what is not telemetry. The station has
a bond, a power button, and limits. Fragments are collected by index as in
`protocol.rs:236-270`, telemetry messages being numbered so that a mixture can
be told. `stray` records that an answer was confused with another packet or
not waited for; `skipped` counts fragments passed over.

### EcoFlow

The stages of the handshake with their frames, a device that answers each
request, repeats and pushes, and notifications that cut and join. Buffer and
row under way are parts of frames; `Cut` is what the splitter makes of them.
`faulty` records that a frame was repeated, lost or came too late, or a request
was refused. A lost link shows to a read as silence, not as an error: the
transport returns an empty chunk when its stream has ended, and an error only
without a stream, that is after a close.

### BleLink, Masters, Adapters

`BleLink` is the open of a transport with its awaits (scan, connect, discover
and subscribe), each of which may fail or be dropped, and the link the
operating system holds meanwhile. A close forgets its handles also when the
operating system fails to disconnect, as the code ignores that error; such a
link may stay up. `Masters` is the clients: the requests each
family makes in order, what it accepts of an answer (unit, length, header,
decryption), how many reads of the transport it allows, and what a switch
drains. An answer carries its kind and its age, the number of requests made
since its own; `missed` counts requests that ended without theirs. The lines of
a Pylontech may be garbled, come behind a stray one, or be cut by a write that
clears the buffer; a line that does not decode is passed over, four at most. `Adapters`
adds what each answer is decoded into, which readings a status computes from
which, and the name found on the first status. A value is abstracted to the
answers it comes from.

### Pylontech

`cli`: output comes in pieces and ends at the prompt; a silence of 400 ms or
the five seconds cut a command short, and the rest is left to the next one.
`can`: a queue of frames that drops the newest when full, from which a reading
takes the oldest until it is coherent, or until three seconds are over and it
is at least ready. `reading` is what the last call returned; the rows of a
console answer are a function of their places in the text, so that a row read
twice, missing or out of its place shows.

### Discovery

Each scan looks at what the adapter has heard of a radio so far; what is heard
only grows, and a scan may miss or fail. `Recognised` is the rule of each
family's scan, `Chain` the order in which the merge puts their results. `Merge`
says what the loop over that chain returns: the entries of each scan whose id
none of an earlier scan has, then those of the ports. It is a set, since no two
devices have an id in common (`DeviceAssumption`) and a scan lists a device
once. `Match` is `resolve`: an exact id, else ids the query begins, else labels it occurs in.

### Credentials

Each program reads the file once and keeps a map; a save locks the map,
truncates the file, and writes all of it. A program may stop at any point, a
write may end half-way, at the end of a line or in a value (`Stump`). A
credential is a key and a value, and of two lines with one key the later counts
(`Then`). `safe` is the credentials whose save has returned and that nobody has
undone or replaced.

## 3. Runs

| Run | Question | Bounds |
|---|---|---|
| `worker` | When is a link dropped, kept, silenced, reported? Is `Session` implemented? Does everything asked for happen in the end? | two batteries (one pushed and paired, one polled), limit 3, two commands waiting, one update before a step |
| `window` | Do cards, button, pairing and link agree? Does a request act on the battery it was clicked for? Is a disconnect shown, does the scan button come back? | the same with limit 2 |
| `stream` | Is an update lost, are alarms taken back, is a snapshot mixed, is a settled battery shown in the end? | two elements, two values, one alarm; both followers |
| `jbd` | Is the other FET written only what is known; do the FETs end as the user wants? | three frames under way, reads of two notifications |
| `jbd_cli` | counterexample, section 5 | two frames under way |
| `jk` | Are cached settings the BMS's, does a write reach its setting, are unavailable settings asked for once, does every call end? | every protocol, two values, three settings, two rounds, patience two, two under way when a call begins |
| `anker` | Is the client's belief of its bond, its writes and its limits right; is telemetry whole? | both generations, two values, one setting beside the limits, two messages, one packet under way when a call begins, one re-subscription |
| `ecoflow` | Is a ready session granted, does the splitter stay in step, does the handshake complete? | 16 notifications per handshake, 2 per read, 5 frames, 3 pushes |
| `masters` | Is each reading of a status from the answers to its own requests, how far can it lag, does every call end? | every family, 3 reads per request, 2 requests missed, 4 parts under way when a call begins |
| `pylontech` | Is a cell shown twice, is a CAN reading of one round? | four pieces outstanding, a queue of four with rounds of five |
| `discovery` | Is a device claimed by the right backend, is the battery opened the one asked for? | a SOK pack and an unnamed JK on one service, an Anker, two ports of which one name begins the other |
| `credentials` | Is what was saved kept, with its last value? | two programs of two threads, two keys, two values |

Why the bounds are enough. Two batteries are what it takes for a reading, a
count or a flag of one to be taken for the other's; a third adds only a
renaming. With limit 3 a count can be below, at and past it, also by the double
count of one stream error (`worker.rs:188`, 261). Two waiting commands let one
overtake nothing and one wait behind another; a step may append three updates
to the one that waits, so updates of two links wait together. The bounds
`MaxCommands` and `MaxUpdates` stand in the guards of the sender and of the
task's steps and stop no other action; the theorems of section 4 hold for every
value. The stream needs one element that stays, one that goes, and one alarm.
Three JBD frames let an answer given up, its successor and a switch be under
way together, and a read of two notifications joins and cuts them. The JK
handle needs two rounds to tell the first window from the last, two values to
tell settings of before a write from those after, and of the settings a main
switch, one whose register in JK02_24S is another's in JK02_32S
(`scp_delay`), and that other (`discharge_precharge_time`); the lookup itself
is in the table and proved for all. Anker's code owes three re-subscriptions
and the run one; the counter is compared with zero alone. Of the settings
written singly one stands for all, as they differ only in their command. The
EcoFlow code allows 64 and 8 notifications, which only bound how long it waits;
16 are enough for every frame of the run to come in a notification of its own.
The clients of `Masters` allow from 4 to 64 reads per request; 3 tell the first
from the last and one between. A queue shorter than a round is where the CAN
reading breaks. Two missed requests let one late answer stand behind another.
Two keys tell a lost credential from a replaced one, two values a new from an
old one.

Two reductions are used. `anker` and `credentials` declare symmetry over values
and over programs, threads and keys, none of which an action tells apart, and
check only invariants. `anker` has a VIEW that leaves out the saved userId and
the serial number that names it, which no guard and no checked property reads.

Deadlock is checked in `jk`, `stream`, `masters`, `ecoflow` and `credentials`.
It is not in `worker` and `window`, where the program ends after Quit, nor in
`discovery`, which ends when a battery was opened, nor where a bound on what is
under way can stop a client that has given up every call (`jbd`, `jbd_cli`,
`anker`, `pylontech`).

### Fairness

`Worker` assumes that every await ends (`Respond`, weakly fair: each has a time
limit, `worker.rs:12-18`, or touches only local storage), that a linked battery
is read or polled or its limit runs out (`Listen`, weakly fair), and that a
waiting command is received in the end (`Obey`, strongly fair: `select!`
without `biased` takes a ready branch at random, so a battery that never stops
reporting cannot starve commands for ever). `Window` adds that frames are
drawn, twice a second at the least, and that the wait of `close` is bounded.
The user is never fair. `StatusStream` assumes that the follower's loop keeps
running, and, an assumption on the battery and not on the code, that a reading
possible again and again succeeds in the end; `Settles` is also conditional on
the battery settling. `JkBattery` assumes only its own limits (3 s windows,
30 s for an update); the BMS is never fair and may stay silent. `Adapters`
assumes that the await of a transport's read returns, with data or by its
limit. `EcoFlow` assumes that the client takes what comes and that the device
answers; `HandshakeCompletes` speaks only of behaviours in which no frame is
lost or repeated, no request refused, and no wait for an answer runs out.

## 4. Proofs

All theorems hold for any constants that satisfy the assumptions of their
module, for channels, streams and rows of any length, and whatever the bounds
of section 3 are. Those of `JbdProofs` also assume `~Blind`: the run `jbd_cli`
is the counterexample to `OtherFetReported` without that. `ChosenAlwaysFits`
assumes `Distinguishable`, which says what the devices around must be.

| Theorem | States |
|---|---|
| `WindowProofs!TypeCorrect`, `AppTypeCorrect` | types of the task, and of the window with it |
| `WindowProofs!SilentLinkIsDropped` | a link never survives its limit of failures |
| `WindowProofs!SilencedForPairing` | reads are suspended only for a battery that asks for pairing |
| `WindowProofs!AnswersForgive` | only an answer or a new connection resets the count |
| `WindowProofs!KeepsPromise` | `Worker` implements `Session` |
| `WindowProofs!ViewFollowsTask` | draining the channel brings the window to the link the task holds |
| `WindowProofs!ReadingsFollowView` | every reading finds the window believing in the battery it came from |
| `WindowProofs!CardsAlwaysAgree` | the cards are of the battery believed linked |
| `WindowProofs!ScanAlwaysUnderWay` | while the button says "scanning" a scan is asked for, runs, or its list is under way |
| `WindowProofs!PendingAlwaysSuspends` | a battery whose pairing card waits is not read |
| `WindowProofs!RequestsAlwaysMeant` | a control, a pairing or a forgetting acts on the battery it was clicked for or on none, unless a second connect was clicked before the first was shown |
| `ReadingProofs!CatchesUp` | folding the queue brings the follower to the last reading |
| `ReadingProofs!WindowShownWhole` | a snapshot sent to the window is of one reading |
| `ReadingProofs!MonitorAlarms` | alarms are maintained where one stream is followed |
| `ReadingProofs!PackInvariant` | what a Pylontech call read, what waits and what is to come belong together |
| `ReadingProofs!CellsAlwaysOnce` | until a command is cut short, a console reading has each cell once, however the output is cut into reads |
| `ReadingProofs!RoundAlwaysWhole` | a CAN reading that follows a complete one without a loss is of a whole round |
| `OpeningProofs!DiscoveryInvariant` | the list is put together once, of all scans and ports; what is opened is the only match |
| `OpeningProofs!ClaimedAlways` | a device that a scan took is listed, under that backend or one before it |
| `OpeningProofs!ChosenAlwaysFits` | after a complete discovery a query opens the battery it names, with the backend it answers to |
| `OpeningProofs!CredentialsInvariant` | one writer per program, which writes the program's map |
| `OpeningProofs!CredentialsKept` | what was saved is in the file, with the value saved last, when nobody writes it |
| `JbdProofs!JbdInvariant` | type correctness; from a basic answer on, each FET is known |
| `JbdProofs!OtherFetReported` | a switch writes to no FET what was neither reported nor asked |
| `JbdProofs!EndsAsAsked` | until a read is given up, the FETs end as the user wants them |
| `JkProofs!JkInvariant` | type correctness and what a handle knows of its BMS |
| `JkProofs!SettingsReported` | settings shown were sent by the BMS, or misread before an info frame |
| `JkProofs!WritesReachTheirSetting` | a write after an info frame names the register of its setting |
| `JkProofs!UnavailableStays` | settings that proved unavailable are never asked for again |
| `AnkerProofs!AnkerTypeCorrect` | types of client and station |
| `AnkerProofs!PairReported` | a limit is written only beside one reported or asked for |
| `AnkerProofs!AuthedHonestly` | who counts as authenticated is bonded and has passed the gate, while no answer was confused with another |
| `AnkerProofs!DoneHonestly` | a write reported as done has been done, under the same condition |
| `AnkerProofs!WholeMessages` | telemetry is of one message until two fragments were passed over |
| `MastersProofs!MastersTypeCorrect` | types of the clients and their adapters |
| `MastersProofs!LagAlwaysBounded` | no block is decoded from an answer older than the requests missed |
| `MastersProofs!KindsAlwaysKept` | a client that can tell its answers apart never decodes one as another block |
| `MastersProofs!StatusAlwaysOwn` | every reading of a status comes from that call's own answers, while none was missed |
| `EcoFlowProofs!EcoTypeCorrect` | types of client and device |
| `EcoFlowProofs!ReadyOnlyWhenGranted` | a session is ready only when the device accepted its secret |
| `EcoFlowProofs!StaysInStep` | the splitter stays at a frame boundary unless a part was lost |

**Task.** `TypeOK` carries what the others rest on: the task has a link
exactly at the awaits that need one. `SilentLinkDropped` is then inductive, as
each failure goes through `Problem`, which compares after counting, and each
connect resets the count. The refinement follows: a task step maps to the step
of `Session` with its name or to a stutter, and a command sent to a stutter or
to `Ask`. Only the receipt of a command that leaves takes a request up, and one
more may wait behind it.

**Channel.** `ViewSettles` and `ReadingsMatchView` speak about every position
of a channel of any length, and neither is inductive alone: that a new reading
matches needs the belief at the end of the channel to be the link the task
holds. `ChannelInv` says both of a channel at once (`Faithful`), with what each
message needs of the belief it meets (`Meets`). Every action that changes the
link appends the update that moves the view; two lemmas, for appending and for
draining one update, carry all actions. A task that has ended says nothing
more, so any belief may be left behind it.

**Window.** By construction every step of the window is one of `Worker`'s or
leaves the task alone (the lemma `AppKeepsTask`), so what is proved of the task
is known behind the window. `CardsAgree` is inductive with `ChannelInv`, because a reading drained
is of the battery on show. `ScanInv` adds to `ScanUnderWay` that every
announcement of a scan that waits in the channel is followed by its list or the
scan still runs. `PendInv` speaks of the pairing the waiting updates lead to
and not of the one on show: `Pends` is what draining the whole channel leaves.
`RequestsMeant` looks at the head of the queue alone, so `MeantInv` speaks of
all that waits: nothing that acts on the open battery stands behind a connect or
is there while one is opened (`Waiting`), since the window offers a connect
only while it shows no link, and clicks of the other kinds only for one it
shows; and a connect that waits or is announced is met by an open window
without a link (`Announced`), which is where a second connect would break it.

**Stream.** `FollowerCatchesUp` is not inductive. `StreamInv` adds that the
queue holds only values of the last reading (`QueueOfReading`; without it a
fold could choose an older value) and that an element of the last reading is
known or queued (`KnownOrQueued`; `Diff` leaves out what the reading before had,
which the follower may rely on only because a new stream starts from nothing).

**Credentials.** `CredInv` adds to `Kept` that one thread at most of a program
is writing (`OneWriter`, the lock of the map), that it writes the program's map
(`TextIsMap`), and that a credential being saved is in that map (`Working`).

**JBD.** `JbdInv` adds that a closed client wants nothing and that what it
knows of each FET it was told (`Told`) once it has a basic answer in this
connection. The assembler looks for the first place where it may stop, whose
existence is well-foundedness of the naturals (`LeastPosition`); that a frame it
returns there is an answer of the BMS is `FrameIsAnswer`. `EndsAsAsked` needs
`InTime`: until a read is given up, at most one answer with the FETs is anywhere
on its way, over assembler, leftover and air together (`OneAnswer`, by the
order in which parts were sent); its question stood behind every switch
(`Asking`); the last switch under way is as asked (`LastAsAsked`); and so what
the client combines a new switch with is what the user asked for before.

**JK.** `JkInv` adds that frames under way hold what the BMS was told and its
own protocol (`FramesTold`), that the version believed is the one the info frame
implies or the default (`PackKnown`), and that a read that loads the settings
runs only while they are stale (`CallFits`), on which `AskedOnce` rests.
`WrittenAsMeant` uses `RegistersApart`.

**Anker.** `PairInv` adds to `PairKnown` that what is written was told.
`Typed` adds to the types what the call in progress is for at each await.
`Standing` is what holds however a session is disturbed: who has passed the
gate has a bond, and no one writes who is not authenticated. `Session` holds
while no answer can be taken for another's (`Calm`), stage by stage:
in the handshake what is under way are the steps asked, in order
(`HelloStage`); at the gate there is one question or its answer and nothing
else (`GateStage`); in a write there is the write, or its one acknowledgement
with its effect done (`WriteStage`). That is what makes the next packet the
right one to take. The first generation has no gate, is never authenticated and
only shown. `Fragmented` is the order of fragments: the two of a message stand
together in the row (`InRow`), so what the fragmenter holds is told by the
packet that is next (`Collecting`).

**Masters.** `LagBounded` and `StatusOwn` rest on one invariant over all eight
families, `Inv`: parts are never overtaken and an answer ends with its last part
(`Stream`, over what is collected, received and still to come); what may be
under way is bounded in age by the requests missed, and before the first miss
is of the request at hand (`Due`); the snapshot was decoded from such parts
(`Sound`); and what SOK's EE protocol has collected by header is among the
parts of this request (`Headed`). `ModelInv` says of the name of the battery
what `StatusOwn` says of a status, since the name is kept after it. In the
families with switches an age is bounded only until a request is missed, as a
switch drains one frame and not one answer. `Headed` is where the code's
test `wanted.contains` matters (`sok_bms/src/bms.rs:104-107`): without it a
frame for the first request replaces a block collected by header while the
second waits, and `Inv` is not inductive.

**EcoFlow.** `EcoInv` adds to `ReadyGranted` that the requests the device has
not answered are the last of the handshake's order up to the client's stage
(`Asked`), that it judges the secret last (`Judged`), and that a frame saying
"granted" exists only when it was (`Heard`). Hence no stage that takes whatever
frame is first can let the client pass: nothing says "granted" before the last
request was judged, and nothing else ends the last stage well. `InStep` is that
buffer and row under way together are whole frames (`Row`), and `Cut` removes
whole ones.

**Pylontech.** The two halves have an invariant each, `ConsoleInv` and `BusInv`,
and `PackInv` is the one of the half in use. Of the console: unless a command
was cut short, what it has read, what has arrived and what is still to come
are, one after the other, the answer to that command (`InStep`). A piece that
arrives and a read that takes any part of the line leave that row as it was,
and a text that ends with the prompt is the whole of it (`EndsWhole`), so
nothing is left to the next command. Of the CAN bus: frames
that wait without a gap between them follow one another in the round
(`InTurn`), and what a collection was fed is the arc of the round from a frame
that completed the reading before to the frame that comes next (`Fed`). The
frame the arc begins after is SOC or volts, without which nothing is coherent;
so a collection is coherent only once it has taken that frame again, and then
the arc has gone all round (`ArcCloses`). `RoundAssumption`
asks of the round that the two kinds are in it and that none is in it twice.

**Discovery.** `DiscoveryInv` says that the list is that of the finished scans
and ports and not touched again (`Settled`), that a port whose own probe has
gone by was listed or counts as silent (`Probed`), and that what is opened is
the only match (`Picked`). `Claimed` follows from `FirstKept`: among the scans
that have an entry of an id the first, which exists by well-foundedness of the
naturals, has its entry in the list; and an id is of one device. `ChosenFits`
adds what the merge cannot know: that the devices around can be told apart.
`Distinguishable` says what that takes: the scan of a radio's own backend
recognises it, none before that does, none at all gives it another id, and a
port's device is at a rate that is probed. It is the hypothesis of
`ChosenAlwaysFits`, and `MCDiscovery` assumes it of its devices, so TLC
evaluates it. `DeviceAssumption` (ids are a device's own) is about btleplug and
the operating system, and `FeaturesAssumption` only names the features that
`Cargo.toml` has.

Only model-checked: all liveness (`ConnectingEnds`, `DisconnectHonoured`,
`QuitEnds`, `DeadLinkDropped`, `DisconnectShown`, `ScanEnds`, `Settles`,
`CallsEnd`, `HandshakeCompletes`), since fairness and ENABLED are beyond the
prover. Every safety invariant and action property of the passing runs is a
theorem.

## 5. Where the code and its documentation part

One disagreement is a run that must end in a counterexample. `jbd_cli`:
`battery set`, which never reads, writes the default of the cache, off, to
whichever FET it was not asked to switch (`jbd_bms/src/bms.rs:88-96`), where
the comment has it keep its last known state.

The others were met on the way. Those with a name are definitions no run
checks; each was found violated by TLC in an instance of its module.

- `Window!ExitReleases`: the window waits 4 s for a task whose awaits last up
  to 60 s, and then leaves the link open, although `battery.rs:134-139` asks to
  disconnect before dropping. `BleLink!RadioReleased` is the same for an open
  that fails or is dropped after `connect()`, and for a disconnect that fails,
  whose error the transports ignore.
- A connect clicked again before the window shows the first (a double click is
  possible while a scan runs, `main.rs:263`) leaves two connects in the queue;
  a toggle clicked for the first battery between them and the drain of the
  second acts on the second. `RequestsMeant` excludes this case by `doubled`.
- An alarm that clears while the window's stream is renewed stays on show, and
  an element that goes away is never taken back, though `types.rs:658` calls
  `apply` the inverse of `diff` (`types.rs:606`, 647-653).
- A failed check of a paired battery suspends its readings while the card
  still says "Paired." (`worker.rs:234`).
- The answer to a JBD read that was given up is returned as fresh (`bms.rs:66`).
- `JkBattery!CacheConfirmed`: after a write the settings read before it are
  cached again, since settings decoded earlier count as read (`bms.rs:99`,
  `jk.rs:346`). With the settings cached, `status` shows what was pushed last
  and does not read (`jk.rs:240`, `battery.rs:26`). One failed read hides the
  settings for good (`jk.rs:60-65`).
- A JK setting is written with the default version's register when the read
  before it failed (`bms.rs:334-338`); and JK04, which `pack.rs:21` and the
  crate's README describe, is never recognised (`from_model`, `pack.rs:22-28`).
- `Masters!BlocksMatch`: after a request given up, the answer on its way is
  decoded as the next block (`renogy_bms/src/bms.rs:55`).
- `EcoFlow!AnswersFresh`: a read that received nothing returns the SOC of an
  earlier one (`bms.rs:119`, `battery.rs:26`).
- `AnkerBattery!AuthedPassed`: `authed` may be set from the bond alone
  (`anker.rs:30`). `WholeSnapshots`: two lost fragments let two messages mix
  (`protocol.rs:236`). `ForgetForgets`: the userId is saved under the model when
  the serial number is not known and deleted under the serial number later
  (`anker.rs:443`). The display of a second generation station is documented to
  be refused (`device.rs:807-811`) and is sent with the basic cipher, as
  `model.rs:80-84` has a command for it.
- `discovery.rs:3-6` says a battery is never selected by name; `resolve` falls
  back to ids the query begins and to labels it occurs in (526-556).

## 6. Plan

The JK byte assembler and its CAN and serial transports, against a reference
that knows the frames, in the manner of `JbdBms`.

## 7. Not modelled

Ciphers and curve arithmetic (`secp160r1.rs`, `crypto.rs`), scaling of values,
the opcode tables of Anker models other than the two, `capabilities.rs`,
rendering and the vendor tools are pure computation without an order to get
wrong; the modules model what a key lets a client decrypt and which answer a
value comes from. Transports appear as what they can do to a frame: delay it,
cut it, join it to another, lose it. History, plots and drawing of the window
have no effect on the batteries. Daly and VE.Direct are adapters of external
crates, with one read per status and no state of their own. The demo pack has
no protocol. The pairing helper of the BLE crate waits for the operating
system's own dialogue.
