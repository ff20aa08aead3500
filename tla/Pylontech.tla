------------------------------ MODULE Pylontech ------------------------------
(***************************************************************************)
(* The two backends that read a Pylontech pack from a buffer nobody        *)
(* empties: the text console (src/backends/pylontech_cli.rs) and the CAN   *)
(* bus (src/backends/pylontech.rs).                                        *)
(*                                                                         *)
(* A console command is over at the prompt, or at a silence of 400 ms, or  *)
(* after five seconds, and its output is whatever was read by then: the    *)
(* rest is left to the next command.  The CAN bus repeats a round of       *)
(* frames; a reading takes them, oldest first, until it has what it needs. *)
(***************************************************************************)
EXTENDS Naturals, Sequences, SequencesExt

CONSTANTS
    Round,      \* the kinds of CAN frame, in the order the pack sends them
    Capacity,   \* frames the socket holds
    MaxOutput   \* bound: pieces of console output outstanding when a call begins

ASSUME RoundAssumption ==
    /\ Round \in Seq(STRING)
    /\ {"soc", "volts"} \subseteq ToSet(Round)
    /\ \A i, j \in DOMAIN Round : Round[i] = Round[j] => i = j

VARIABLES
    via,     \* "cli" or "can"
    at,      \* what is under way: "idle", "can" or a console command
    owed,    \* pieces of output, or frames of the round, not sent yet
    line,    \* what arrived and was not read
    taken,   \* what the command has read
    reading, \* the reading returned, until the next is asked for
    info,    \* `info` was read: "no", "empty" or "full" (identified if not "no")
    frame,   \* the rows of this call's `bat`
    life,    \* lifetime: "unread", "none", "known" or "stale"
    late,    \* history: a command was cut short and the console not yet quiet
    marred,  \* history: `life` was read while late
    state,   \* PylontechState: the kinds of frame that were fed
    lost,    \* history: the socket lost the frame before the next to arrive
    torn,    \* history: a frame was lost between two of this collection
    synced   \* history: the last collection was complete

packVars == <<via, at, owed, line, taken, reading, info, frame, life, late, marred,
              state, lost, torn, synced>>
cli == <<info, frame, life, late, marred>>
can == <<state, lost, torn, synced>>

Cells == <<1, 2>>
None == [kinds |-> {}]

PackInit ==
    /\ via \in {"cli", "can"}
    /\ at = "idle"
    /\ owed = <<>> /\ line = <<>> /\ taken = <<>> /\ frame = <<>>
    /\ reading = None
    /\ info = "no" /\ life = "unread"
    /\ late = FALSE /\ marred = FALSE /\ lost = FALSE /\ torn = FALSE
    /\ synced = FALSE
    /\ state = {}

(***************************************************************************)
(* The console answers a command with two pieces; each has a cell's row if *)
(* the command is `bat`, and the second ends with the prompt.              *)
(***************************************************************************)
Output(c) == <<[of |-> c, part |-> 1], [of |-> c, part |-> 2]>>
Quiet == owed = <<>> /\ line = <<>>

Piece ==
    /\ via = "cli" /\ owed # <<>>
    /\ owed' = Tail(owed)
    /\ line' = Append(line, Head(owed))
    /\ UNCHANGED <<via, at, taken, reading, cli, can>>

(* status: `info` the first time, `bat`, and `stat` when it is due.        *)
BeginStatus ==
    /\ via = "cli" /\ at = "idle"
    /\ Len(owed \o line) <= MaxOutput
    /\ at' = IF info = "no" THEN "info" ELSE "bat"
    /\ owed' = owed \o Output(at')
    /\ late' = (late /\ ~Quiet)
    /\ reading' = None /\ frame' = <<>>
    /\ UNCHANGED <<via, line, taken, info, life, marred, can>>

(* LIFETIME_REFRESH has passed.                                            *)
LifeDue ==
    /\ via = "cli" /\ at = "idle" /\ life \in {"none", "known"}
    /\ life' = "stale"
    /\ UNCHANGED <<via, at, owed, line, taken, reading, info, frame, late, marred, can>>

Has(text, c) == \E i \in DOMAIN text : text[i].of = c

(* The rows in the order of the text, by their places in it.               *)
Rows(text) == [i \in {j \in DOMAIN text : text[j].of = "bat"} |-> text[i].part]

Reading(rows) == [kinds |-> {"cells"}, cells |-> rows, late |-> late']

(* identify: whatever `info` printed, it is not asked for again.           *)
OverInfo(text) ==
    /\ at = "info"
    /\ info' = IF Has(text, "info") THEN "full" ELSE "empty"
    /\ at' = "bat"
    /\ owed' = owed \o Output("bat")
    /\ UNCHANGED <<reading, frame, life, marred>>

(* Without a row `bat` is an error, and the call fails.                    *)
OverBat(text) ==
    /\ at = "bat"
    /\ IF ~Has(text, "bat")
         THEN at' = "idle" /\ UNCHANGED <<owed, reading, frame>>
         ELSE IF life \in {"unread", "stale"}
         THEN /\ at' = "stat"
              /\ owed' = owed \o Output("stat")
              /\ frame' = Rows(text)
              /\ UNCHANGED reading
         ELSE at' = "idle" /\ reading' = Reading(Rows(text)) /\ UNCHANGED <<owed, frame>>
    /\ UNCHANGED <<info, life, marred>>

(* Whatever `stat` printed, it is not asked for again for a while.         *)
OverStat(text) ==
    /\ at = "stat"
    /\ life' = IF Has(text, "stat") THEN "known" ELSE "none"
    /\ marred' = late'
    /\ reading' = Reading(frame)
    /\ at' = "idle"
    /\ UNCHANGED <<owed, info, frame>>

Over(text, rest) ==
    /\ line' = rest
    /\ taken' = <<>>
    /\ OverInfo(text) \/ OverBat(text) \/ OverStat(text)
    /\ UNCHANGED <<via, can>>

\* Mutant of Ends: a command is over as soon as something was read.
EndsRead(text) == text # <<>>
Ends(text) == text[Len(text)].part = 2

(* A read returns some of what has arrived.                                *)
ReadPort(n) ==
    /\ at \in {"info", "bat", "stat"}
    /\ UNCHANGED late
    /\ LET text == taken \o SubSeq(line, 1, n)
           rest == SubSeq(line, n + 1, Len(line))
       IN IF Ends(text)
            THEN Over(text, rest)
            ELSE /\ taken' = text /\ line' = rest
                 /\ UNCHANGED <<via, at, owed, reading, info, frame, life, marred, can>>

(* Nothing came for 400 ms although something had, or the five seconds of  *)
(* the command are over.                                                   *)
CutShort ==
    /\ at \in {"info", "bat", "stat"}
    /\ late' = TRUE
    /\ Over(taken, line)

(* The port fails, which only `stat` survives, or the caller gives up.     *)
PortError ==
    /\ at \in {"info", "bat", "stat"}
    /\ at' = "idle" /\ late' = TRUE /\ taken' = <<>>
    /\ reading' = IF at = "stat" THEN Reading(frame) ELSE reading
    /\ UNCHANGED <<via, owed, line, info, frame, life, marred, can>>

GivenUp ==
    /\ at \in {"info", "bat", "stat"}
    /\ at' = "idle" /\ late' = TRUE /\ taken' = <<>>
    /\ UNCHANGED <<via, owed, line, reading, info, frame, life, marred, can>>

(***************************************************************************)
(* The CAN bus.                                                            *)
(***************************************************************************)
SendRound ==
    /\ via = "can" /\ owed = <<>>
    /\ owed' = Round
    /\ UNCHANGED <<via, at, line, taken, reading, cli, can>>

(* The kernel queues the frame, or loses it when the queue is full.        *)
Frame ==
    /\ via = "can" /\ owed # <<>>
    /\ owed' = Tail(owed)
    /\ lost' = (Len(line) = Capacity)
    /\ line' = IF lost' THEN line ELSE Append(line, [kind |-> Head(owed), gap |-> lost])
    /\ UNCHANGED <<via, at, taken, reading, cli, state, torn, synced>>

BeginCollect ==
    /\ via = "can" /\ at = "idle"
    /\ at' = "can"
    /\ state' = {} /\ torn' = FALSE
    /\ reading' = None
    /\ UNCHANGED <<via, owed, line, taken, cli, lost, synced>>

\* Mutant of Coherent: as in is_ready, either value will do.
CoherentEither(kinds) == kinds \cap {"soc", "volts"} # {}
Coherent(kinds) == {"soc", "volts"} \subseteq kinds
IsReady(kinds) == kinds \cap {"soc", "volts"} # {}

ReadFrame ==
    /\ at = "can" /\ line # <<>>
    /\ line' = Tail(line)
    /\ state' = state \cup {Head(line).kind}
    /\ torn' = (torn \/ Head(line).gap)
    /\ IF Coherent(state')
         THEN /\ reading' = [kinds |-> state', whole |-> synced /\ ~torn']
              /\ at' = "idle" /\ synced' = TRUE
         ELSE UNCHANGED <<reading, at, synced>>
    /\ UNCHANGED <<via, owed, taken, cli, lost>>

(* The three seconds are over: what there is, if ready, or an error.       *)
CollectTimeout ==
    /\ at = "can"
    /\ at' = "idle" /\ synced' = FALSE
    /\ reading' = IF IsReady(state) THEN [kinds |-> state, whole |-> FALSE] ELSE reading
    /\ UNCHANGED <<via, owed, line, taken, cli, state, lost, torn>>

PackNext ==
    \/ Piece \/ BeginStatus \/ LifeDue
    \/ \E n \in 1..Len(line) : ReadPort(n)
    \/ CutShort \/ PortError \/ GivenUp
    \/ SendRound \/ Frame \/ BeginCollect \/ ReadFrame \/ CollectTimeout

PackSpec == PackInit /\ [][PackNext]_packVars

(***************************************************************************)
(* Properties.                                                             *)
(***************************************************************************)
(* Once the console has been quiet between two calls, and as long as no    *)
(* command is cut short, every reading has each cell of the pack once (the *)
(* pack voltage is their sum) and SOH and cycles are not taken for absent, *)
(* however the output is cut into reads (command, 81-107; status, 233-268).*)
CellsOnce ==
    via = "cli" =>
        /\ reading # None /\ ~reading.late => reading.cells = Cells
        /\ life = "none" => marred

(* A CAN reading that began where a complete one ended, and from which no  *)
(* frame was lost, has every frame of one round: none of the limits, of    *)
(* the alarms or of the switches is missing (collect, 231-253).            *)
RoundWhole ==
    via = "can" /\ reading # None /\ reading.whole => reading.kinds = ToSet(Round)
=============================================================================
