------------------------------- MODULE JbdBms -------------------------------
(***************************************************************************)
(* The JBD backend (crates/jbd_bms, src/backends/jbd.rs): a client that    *)
(* reads two registers and writes the charge and discharge FETs together,  *)
(* and a BMS that answers what it is asked, in order.  Answers come as     *)
(* notifications of at most one MTU, which the transport joins and the     *)
(* FrameAssembler cuts into frames again; one may get lost.  An answer is  *)
(* recognised by its register alone; a read that is given up (16 empty     *)
(* reads, or the caller's STATUS_LIMIT) leaves its answer on the way.  The *)
(* FETs move only when they are told to.                                   *)
(***************************************************************************)
EXTENDS Naturals, Sequences, FiniteSets, SequencesExt

CONSTANTS
    Blind,      \* TRUE: the CLI's set, which acts on a battery never read
    MaxFlight,  \* bound: requests and notifications under way
    OddTails,   \* the second part of a frame holds a byte that looks like START
    MaxRead     \* bound: notifications that fit a read buffer (512 bytes)

ASSUME JbdAssumption ==
    /\ Blind \in BOOLEAN
    /\ MaxFlight \in Nat \ {0}
    /\ OddTails \in BOOLEAN
    /\ MaxRead \in Nat \ {0}

VARIABLES
    fets,      \* the BMS: which FETs are on
    requests,  \* frames on their way to the BMS
    air,       \* notifications on their way back
    open,      \* the transport is open
    leftover,  \* what did not fit the last read buffer
    buf,       \* FrameAssembler.buf
    wanted,    \* the register request() waits for, or "none"
    popping,   \* request() is in its loop over next_frame
    known,     \* data.basic.charging and discharging
    reported,  \* a status was read since the connection was opened; the
               \* first one names info.model, by the identity or the cells
    seen,      \* history: FET states reported to this client or asked for
    asked,     \* history: FET states as the user wants them
    late       \* history: a read was given up

linkVars == <<open, leftover>>
asmVars == <<buf, popping>>
historyVars == <<seen, asked, late>>
vars == <<fets, requests, air, linkVars, asmVars, wanted, known, reported,
          historyVars>>

Fets == {"charging", "discharging"}
Registers == {"basic", "cells"}

Request == [reg : Registers] \cup [reg : {"mosfet"}, on : [Fets -> BOOLEAN]]

Answer ==
    [reg : {"basic"}, fets : [Fets -> BOOLEAN]]
    \cup [reg : {"cells", "mosfet"}]

(* The basic frame is longer than an MTU; the others are not.              *)
Parts(a) == IF a.reg = "basic" THEN 2 ELSE 1

Part == [of : Answer, part : 1 .. 2]
AsParts(a) == [i \in 1 .. Parts(a) |-> [of |-> a, part |-> i]]

-----------------------------------------------------------------------------
(* protocol.rs: the frames in the assembler's buffer.                      *)

(* A START is at the head of a frame, or in the middle of one whose head   *)
(* is missing.                                                             *)
Start(p) == p.part = 1 \/ OddTails

(* What the length byte behind a START claims: behind a false one, as much *)
(* as a frame of two notifications.                                        *)
Claims(p) == IF p.part = 1 THEN Parts(p.of) ELSE 2

Complete(b, i) == i + Claims(b[i]) - 1 <= Len(b)

(* The end mark, the length and the checksum agree.                        *)
Decodes(b, i) ==
    /\ Complete(b, i)
    /\ \A k \in 1 .. Claims(b[i]) :
           b[i + k - 1] = [of |-> b[i].of, part |-> k]

(* Where next_frame stops: at a frame, or at a START that waits for more.  *)
Stops(b) ==
    {i \in DOMAIN b : Start(b[i]) /\ (Decodes(b, i) \/ ~Complete(b, i))}

Stop(b) == CHOOSE i \in Stops(b) : \A j \in Stops(b) : i <= j

HasFrame(b) == Stops(b) # {} /\ Decodes(b, Stop(b))
Frame(b) == b[Stop(b)].of
AfterFrame(b) == SubSeq(b, Stop(b) + Parts(Frame(b)), Len(b))
AwaitingMore(b) == IF Stops(b) = {} THEN <<>> ELSE SubSeq(b, Stop(b), Len(b))

-----------------------------------------------------------------------------
(* The transport and the way to the BMS.                                   *)

Room == Len(requests) + Len(air) + Len(leftover) + Len(buf) < MaxFlight

(* write: what is left over of earlier notifications is dropped.           *)
Write(r) ==
    /\ requests' = Append(requests, r)
    /\ leftover' = <<>>
    /\ UNCHANGED open

NoData == [f \in Fets |-> FALSE]

Init ==
    /\ fets \in [Fets -> BOOLEAN]
    /\ requests = <<>>
    /\ air = <<>>
    /\ open = FALSE
    /\ leftover = <<>>
    /\ buf = <<>>
    /\ wanted = "none"
    /\ popping = FALSE
    /\ known = NoData
    /\ reported = FALSE
    /\ seen = [f \in Fets |-> {}]
    /\ asked = fets
    /\ late = FALSE

(* The switch frames that the BMS has yet to execute.                      *)
Switches == {r \in Range(requests) : r.reg = "mosfet"}

(* connect_bluetooth: a new client over a transport that opened.  What the *)
(* last one asked for may still be answered.                               *)
Open ==
    /\ ~open
    /\ open' = TRUE
    /\ leftover' = <<>>
    /\ buf' = <<>>
    /\ known' = NoData
    /\ reported' = FALSE
    /\ seen' = [f \in Fets |-> {r.on[f] : r \in Switches}]
    /\ late' = (late \/ \E r \in Range(requests) : r.reg \in Registers)
    /\ UNCHANGED <<fets, requests, air, wanted, popping, asked>>

(* close, or the link is lost, also in the middle of a read: the stream of *)
(* notifications is gone with it.                                          *)
Close ==
    /\ open
    /\ ~popping
    /\ open' = FALSE
    /\ air' = <<>>
    /\ wanted' = "none"
    /\ UNCHANGED <<fets, requests, leftover, asmVars, known, reported,
                   historyVars>>

(* A notification is dropped before the client takes it.                   *)
Lose ==
    /\ \E i \in DOMAIN air : air' = RemoveAt(air, i)
    /\ UNCHANGED <<fets, requests, linkVars, asmVars, wanted, known,
                   reported, historyVars>>

Fitting(n) == IF n < MaxRead THEN n ELSE MaxRead

(* read: what is left over, or the notifications that came within 50 ms of *)
(* each other, as far as the buffer reaches.                               *)
Read ==
    /\ wanted # "none"
    /\ ~popping
    /\ \/ /\ leftover # <<>>
          /\ buf' = buf \o SubSeq(leftover, 1, Fitting(Len(leftover)))
          /\ leftover' = SubSeq(leftover, MaxRead + 1, Len(leftover))
          /\ UNCHANGED air
       \/ /\ leftover = <<>>
          /\ \E k \in DOMAIN air :
                /\ buf' = buf \o SubSeq(air, 1, Fitting(k))
                /\ leftover' = SubSeq(air, MaxRead + 1, k)
                /\ air' = SubSeq(air, k + 1, Len(air))
    /\ popping' = TRUE
    /\ UNCHANGED <<fets, requests, open, wanted, known, reported,
                   historyVars>>

-----------------------------------------------------------------------------
(* The BMS.                                                                *)

Notified(a) == IF open THEN air \o AsParts(a) ELSE air

BmsRead ==
    /\ requests # <<>>
    /\ Head(requests).reg \in Registers
    /\ air' = Notified(
           IF Head(requests).reg = "basic"
             THEN [reg |-> "basic", fets |-> fets]
             ELSE [reg |-> "cells"])
    /\ requests' = Tail(requests)
    /\ UNCHANGED <<fets, linkVars, asmVars, wanted, known, reported,
                   historyVars>>

BmsSwitch ==
    /\ requests # <<>>
    /\ Head(requests).reg = "mosfet"
    /\ fets' = Head(requests).on
    /\ air' = Notified([reg |-> "mosfet"])
    /\ requests' = Tail(requests)
    /\ UNCHANGED <<linkVars, asmVars, wanted, known, reported,
                   historyVars>>

-----------------------------------------------------------------------------
(* The client.                                                             *)

(* status: request the first register.                                     *)
ReadBasic ==
    /\ open
    /\ wanted = "none"
    /\ Room
    /\ Write([reg |-> "basic"])
    /\ wanted' = "basic"
    /\ UNCHANGED <<fets, air, asmVars, known, reported, historyVars>>

(* request takes the next frame; the ones behind it stay in the buffer     *)
(* when it returns.                                                        *)
Pops ==
    /\ popping
    /\ HasFrame(buf)
    /\ buf' = AfterFrame(buf)

Accepts == Pops /\ Frame(buf).reg = wanted

BasicRead ==
    /\ Accepts
    /\ wanted = "basic"
    /\ popping' = FALSE
    /\ known' = [f \in Fets |-> Frame(buf).fets[f]]
    /\ seen' = [f \in Fets |-> seen[f] \cup {known'[f]}]
    /\ wanted' = "cells"
    /\ Write([reg |-> "cells"])
    /\ UNCHANGED <<fets, air, reported, asked, late>>

CellsRead ==
    /\ Accepts
    /\ wanted = "cells"
    /\ popping' = FALSE
    /\ wanted' = "none"
    /\ reported' = TRUE
    /\ UNCHANGED <<fets, requests, air, linkVars, known, historyVars>>

(* A frame of another register is dropped.                                 *)
Skip ==
    /\ Pops
    /\ Frame(buf).reg # wanted
    /\ UNCHANGED <<fets, requests, air, linkVars, wanted, popping, known, reported, historyVars>>

(* The BMS reports an error for the register, or its payload is too short. *)
Refused ==
    /\ Accepts
    /\ wanted' = "none"
    /\ popping' = FALSE
    /\ UNCHANGED <<fets, requests, air, linkVars, known, reported,
                   historyVars>>

(* No more frames: the next of sixteen reads.                              *)
NoFrame ==
    /\ popping
    /\ ~HasFrame(buf)
    /\ buf' = AwaitingMore(buf)
    /\ popping' = FALSE
    /\ UNCHANGED <<fets, requests, air, linkVars, wanted, known, reported, historyVars>>

GiveUp ==
    /\ wanted # "none"
    /\ ~popping
    /\ wanted' = "none"
    /\ late' = TRUE
    /\ UNCHANGED <<fets, requests, air, linkVars, asmVars, known, reported, seen, asked>>

\* Mutant of Combined: the other FET is taken to be on.
CombinedOn(f, on) == [g \in Fets |-> g = f => on]

(* set combines one FET with the last-known state of the other.            *)
Combined(f, on) == [known EXCEPT ![f] = on]

\* Mutant of Toggle: the combination is not remembered.
ToggleForgetful(f, on) ==
    /\ open
    /\ wanted = "none"
    /\ Blind \/ reported
    /\ Room
    /\ Write([reg |-> "mosfet", on |-> Combined(f, on)])
    /\ seen' = [seen EXCEPT ![f] = @ \cup {on}]
    /\ asked' = [asked EXCEPT ![f] = on]
    /\ UNCHANGED <<fets, air, asmVars, wanted, known, reported, late>>

(* execute.  The window draws a toggle only beside a reading; battery set  *)
(* connects and acts at once.  What is written is remembered as reported.  *)
Toggle(f, on) ==
    /\ open
    /\ wanted = "none"
    /\ Blind \/ reported
    /\ Room
    /\ Write([reg |-> "mosfet", on |-> Combined(f, on)])
    /\ known' = Combined(f, on)
    /\ seen' = [seen EXCEPT ![f] = @ \cup {on}]
    /\ asked' = [asked EXCEPT ![f] = on]
    /\ UNCHANGED <<fets, air, asmVars, wanted, reported, late>>

Next ==
    \/ Open \/ Close \/ Lose \/ Read
    \/ BmsRead \/ BmsSwitch
    \/ ReadBasic \/ BasicRead \/ CellsRead \/ Skip \/ Refused \/ NoFrame
    \/ GiveUp
    \/ \E f \in Fets, on \in BOOLEAN : Toggle(f, on)

Spec == Init /\ [][Next]_vars
-----------------------------------------------------------------------------
(* Types: among them, that every switch frame names both FETs, as the      *)
(* register does (protocol.rs:61-70), and that the assembler is searched   *)
(* only for a request in progress.                                         *)
TypeOK ==
    /\ {fets, known, asked} \subseteq [Fets -> BOOLEAN]
    /\ requests \in Seq(Request)
    /\ {air, leftover, buf} \subseteq Seq(Part)
    /\ {open, popping, reported, late} \subseteq BOOLEAN
    /\ wanted \in Registers \cup {"none"}
    /\ popping => wanted # "none"
    /\ seen \in [Fets -> SUBSET BOOLEAN]

(* Nothing is written to a FET that the BMS did not report of it to this   *)
(* client and the user did not ask of it: the other FET gets its           *)
(* last-known state (bms.rs:87-98), and a new connection knows none.  The  *)
(* CLI, which never reads before it writes, has none and switches the      *)
(* other FET off.                                                          *)
OtherFetKnown ==
    \A r \in Switches, f \in Fets : r.on[f] \in seen[f]

(* Until a read is given up the BMS ends up as the user wants it, one      *)
(* switch at a time, through any number of switches, of readings between   *)
(* them in any cut of their notifications, and of connections (bms.rs:79-98).*)
AsAsked == requests = <<>> /\ ~late => fets = asked
=============================================================================
