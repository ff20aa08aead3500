------------------------------ MODULE JkBattery ------------------------------
(***************************************************************************)
(* The JK backend (src/backends/jk.rs over crates/jk_bms/src/bms.rs): one  *)
(* handle that reads on request, follows the frames the BMS pushes, writes *)
(* settings, and caches the settings it has read.  A request for the cells *)
(* is answered by a settings frame (by firmware that has one) and cells,   *)
(* and cells are pushed from then on.  A frame may be lost: its checksum   *)
(* fails, or it comes in one read behind another and the assembler drops   *)
(* it at the next preamble.  What an info frame has not told is guessed.  A *)
(* caller may drop a call at any await.                                    *)
(***************************************************************************)
EXTENDS JkModel, Sequences

CONSTANTS
    Values,    \* values of the settings, as a whole
    NoValue,   \* pack.settings is None
    Misread,   \* settings decoded by the layout of another protocol
    Names,     \* the settings that are written
    Retries,   \* RETRIES of read_data
    Patience,  \* settings_patience of read_data
    MaxFlight  \* bound: under way when a call begins or the BMS pushes

ASSUME JkAssumption ==
    /\ NoValue \notin Values /\ Misread \notin Values \cup {NoValue}
    /\ Names \subseteq Settable
    /\ {Retries, Patience, MaxFlight} \subseteq Nat \ {0}

VARIABLES
    bms,       \* the BMS: [protocol, value, answers (it has a settings frame),
               \*  pushes]
    requests,  \* on their way to the BMS
    frames,    \* on their way back
    call,      \* what the handle is doing, and for whom
    pack,      \* the handle: settings, info and version decoded, streaming
    cache,     \* SettingsCache: [state, value]
    told       \* history: the settings the BMS has sent

vars == <<bms, requests, frames, call, pack, cache, told>>

Bms ==
    [protocol : Protocols, value : Values, answers : BOOLEAN, pushes : BOOLEAN]

Pack ==
    [value : Values \cup {NoValue, Misread}, info : BOOLEAN,
     version : Protocols, streaming : BOOLEAN]

Settings(p, v) == [kind |-> "settings", protocol |-> p, value |-> v]
Cells == [kind |-> "cells"]
Info(p) == [kind |-> "info", protocol |-> p]

Frame ==
    [kind : {"settings"}, protocol : Protocols, value : Values]
    \cup [kind : {"info"}, protocol : Protocols]
    \cup [kind : {"cells"}]

Want ==
    [setting : Names \ MainSwitches, value : Values]
    \cup [setting : Names \cap MainSwitches, value : {NoValue}]

(* In a write, the setting wanted and known (an info frame had come) are   *)
(* history: no guard reads them.                                           *)
RegisterNumbers == {Register(p, s) : p \in Protocols, s \in Names}

Request ==
    [op : {"info", "cells"}]
    \cup [op : {"set"}, register : RegisterNumbers, want : Want, known : BOOLEAN]

Stale == [state |-> "stale", value |-> NoValue]
Loaded(v) == [state |-> "loaded", value |-> v]
Unavailable == [state |-> "unavailable", value |-> NoValue]

(* read_data, next_update and their callers.  want: what a set is to       *)
(* write, with NoValue for a main switch.                                  *)
Goals == {"status", "statusLive", "stream", "set"}

Call ==
    [at : {"idle", "info", "cells", "next"}, goal : Goals,
     want : Want \cup {NoValue}, tries : 0 .. Retries,
     patience : 0 .. Patience, volts : BOOLEAN, settings : BOOLEAN]

Rest == [at |-> "idle", goal |-> "status", want |-> NoValue, tries |-> 0,
         patience |-> 0, volts |-> FALSE, settings |-> FALSE]

Init ==
    /\ bms \in Bms /\ ~bms.pushes
    /\ requests = <<>>
    /\ frames = <<>>
    /\ call = Rest
    /\ pack = [value |-> NoValue, info |-> FALSE, version |-> DefaultVersion,
               streaming |-> FALSE]
    /\ cache = Stale
    /\ told = {}

-----------------------------------------------------------------------------
(* The BMS.                                                                *)

Host == <<call, pack, cache>>

Room == Len(requests) + Len(frames) < MaxFlight

Handle(op) ==
    /\ requests # <<>>
    /\ Head(requests).op = op
    /\ requests' = Tail(requests)
    /\ UNCHANGED Host

BmsInfo ==
    /\ Handle("info")
    /\ frames' = Append(frames, Info(bms.protocol))
    /\ UNCHANGED <<bms, told>>

BmsCells ==
    /\ Handle("cells")
    /\ IF bms.answers
         THEN /\ frames' = frames \o <<Settings(bms.protocol, bms.value), Cells>>
              /\ told' = told \cup {bms.value}
         ELSE /\ frames' = Append(frames, Cells)
              /\ UNCHANGED told
    /\ bms' = [bms EXCEPT !.pushes = TRUE]

(* A write is taken or refused; nothing is answered.  It changes what the  *)
(* BMS keeps at that register, whichever setting was meant.                *)
BmsSet ==
    /\ Handle("set")
    /\ LET want == Head(requests).want
           hit == SettingsAt(bms.protocol, Head(requests).register)
       IN \/ UNCHANGED bms
          \/ /\ hit \ MainSwitches # {}
             /\ \E v \in Values :
                   /\ hit = {want.setting} => v = want.value
                   /\ bms' = [bms EXCEPT !.value = v]
    /\ UNCHANGED <<frames, told>>

Push ==
    /\ bms.pushes
    /\ Room
    /\ frames' = Append(frames, Cells)
    /\ UNCHANGED <<bms, requests, told, Host>>

Lose ==
    /\ frames # <<>>
    /\ frames' = Tail(frames)
    /\ UNCHANGED <<bms, requests, told, Host>>

-----------------------------------------------------------------------------
(* Requests of the handle.                                                 *)

Write(r) == requests' = Append(requests, r)

(* read_data, phase 1.                                                     *)
Reading(goal, want) ==
    [Rest EXCEPT !.at = "info", !.goal = goal, !.want = want]

NeedSettings == call.goal \in {"status", "stream"}

Begins(goal, want) ==
    /\ call' = Reading(goal, want)
    /\ Write([op |-> "info"])

(* status: with the settings loaded it returns the pack of the last call,  *)
(* without a read.                                                         *)
CallStatus ==
    /\ call.at = "idle"
    /\ Room
    /\ \/ cache = Stale /\ Begins("status", NoValue)
       \/ cache = Unavailable /\ Begins("statusLive", NoValue)
       \/ cache.state = "loaded" /\ UNCHANGED <<requests, call>>
    /\ UNCHANGED <<bms, frames, pack, cache, told>>

(* next_update asks for the cells when it is called first.                 *)
Following(known) ==
    /\ call' = [Rest EXCEPT !.at = "next", !.goal = "stream"]
    /\ pack' = [known EXCEPT !.streaming = TRUE]
    /\ IF known.streaming THEN UNCHANGED requests ELSE Write([op |-> "cells"])

(* The stream: settings first when they are stale, then the pushed cells.  *)
CallStream ==
    /\ call.at = "idle"
    /\ Room
    /\ \/ cache = Stale /\ Begins("stream", NoValue) /\ UNCHANGED pack
       \/ cache # Stale /\ Following(pack)
    /\ UNCHANGED <<bms, frames, cache, told>>

\* Mutants of Written: an unavailable cache is asked again; the value is
\* cached unread.
WrittenRetry(w) == cache' = IF w.setting \in MainSwitches THEN cache ELSE Stale

WrittenThrough(w) ==
    cache' = IF w.setting \in MainSwitches \/ cache = Unavailable
               THEN cache ELSE Loaded(w.value)

(* execute: a written setting makes the cache stale, unless the settings   *)
(* are unavailable; one of the main switches does not.                     *)
Written(w) ==
    cache' = IF w.setting \in MainSwitches \/ cache = Unavailable
               THEN cache ELSE Stale

WriteFrame(w, known) ==
    [op |-> "set", register |-> Register(known.version, w.setting), want |-> w,
     known |-> known.info]

(* A setting that the version has none of is an error, and nothing is      *)
(* written.                                                                *)
PutSetting(w, known) ==
    IF WriteFrame(w, known).register = 0
      THEN UNCHANGED <<requests, cache>>
      ELSE Write(WriteFrame(w, known)) /\ Written(w)

(* set reads first when the model is unknown, and writes whatever came of  *)
(* that.                                                                   *)
CallSet(w) ==
    /\ call.at = "idle"
    /\ Room
    /\ \/ pack.info /\ PutSetting(w, pack) /\ UNCHANGED call
       \/ ~pack.info /\ Begins("set", w) /\ UNCHANGED cache
    /\ UNCHANGED <<bms, frames, pack, told>>

-----------------------------------------------------------------------------
(* The end of read_data, for each caller.  ok: cells were read.  known:    *)
(* what the handle knows by then.                                          *)

LoadSettings(ok, known) ==
    cache' = IF ok /\ known.value # NoValue THEN Loaded(known.value)
                                            ELSE Unavailable

(* status after load_settings: with the settings unavailable it reads once *)
(* more, otherwise the pack is what was just read.                         *)
EndStatus(ok, known) ==
    /\ LoadSettings(ok, known)
    /\ pack' = known
    /\ IF cache' = Unavailable
         THEN Begins("statusLive", NoValue)
         ELSE call' = Rest /\ UNCHANGED requests

EndStatusLive(known) ==
    /\ pack' = known
    /\ call' = Rest
    /\ UNCHANGED <<requests, cache>>

EndStream(ok, known) ==
    /\ LoadSettings(ok, known)
    /\ Following(known)

EndSet(known) ==
    /\ PutSetting(call.want, known)
    /\ pack' = known
    /\ call' = Rest

ReadEnds(ok, known) ==
    \/ call.goal = "status" /\ EndStatus(ok, known)
    \/ call.goal = "statusLive" /\ EndStatusLive(known)
    \/ call.goal = "stream" /\ EndStream(ok, known)
    \/ call.goal = "set" /\ EndSet(known)

-----------------------------------------------------------------------------
(* A frame is decoded, whatever phase it arrives in: settings by the       *)
(* version the handle knows by then.                                       *)

SettingsRead(f) == IF f.protocol = pack.version THEN f.value ELSE Misread

\* Mutant of Decoded: the model is kept, its version is not.
DecodedUnversioned(f) ==
    CASE f.kind = "settings" -> [pack EXCEPT !.value = SettingsRead(f)]
      [] f.kind = "info"     -> [pack EXCEPT !.info = TRUE]
      [] OTHER               -> pack

Decoded(f) ==
    CASE f.kind = "settings" -> [pack EXCEPT !.value = SettingsRead(f)]
      [] f.kind = "info"     -> [pack EXCEPT !.info = TRUE,
                                             !.version = FromModel(f.protocol)]
      [] OTHER               -> pack

(* read_data, phase 2: settings count as read when the pack holds some.    *)
CellsPhase(c, known) ==
    /\ call' = [c EXCEPT !.at = "cells", !.tries = 0, !.patience = Patience,
                         !.volts = FALSE, !.settings = known.value # NoValue]
    /\ Write([op |-> "cells"])

Arrives(at) ==
    /\ call.at = at
    /\ frames # <<>>
    /\ frames' = Tail(frames)
    /\ UNCHANGED <<bms, told>>

InfoFrame ==
    /\ Arrives("info")
    /\ LET f == Head(frames) IN
         /\ pack' = Decoded(f)
         /\ IF f.kind = "info"
              THEN CellsPhase(call, Decoded(f))
              ELSE UNCHANGED <<call, requests>>
    /\ UNCHANGED cache

CellsFrame ==
    /\ Arrives("cells")
    /\ LET f == Head(frames)
           c == [call EXCEPT !.volts = @ \/ f.kind = "cells",
                              !.settings = @ \/ f.kind = "settings"]
       IN IF c.volts /\ (NeedSettings => c.settings)
            THEN ReadEnds(TRUE, Decoded(f))
            ELSE /\ call' = c
                 /\ pack' = Decoded(f)
                 /\ UNCHANGED <<requests, cache>>

(* next_update returns at the first cells.                                 *)
NextFrame ==
    /\ Arrives("next")
    /\ call' = IF Head(frames).kind = "cells" THEN Rest ELSE call
    /\ pack' = Decoded(Head(frames))
    /\ UNCHANGED <<requests, cache>>

(* A window of phase 1 is over: ask again, or go on without.               *)
InfoLate ==
    /\ call.at = "info"
    /\ IF call.tries + 1 < Retries
         THEN /\ call' = [call EXCEPT !.tries = @ + 1]
              /\ Write([op |-> "info"])
         ELSE CellsPhase(call, pack)
    /\ UNCHANGED <<bms, frames, pack, cache, told>>

(* A window of phase 2 is over: patience is spent once cells were read     *)
(* without the settings asked for.                                         *)
Tried ==
    LET tired == call.volts /\ NeedSettings /\ ~call.settings IN
    [call EXCEPT !.tries = @ + 1, !.patience = IF tired THEN @ - 1 ELSE @]

\* Mutant of CellsLate: a read without cells does not end in an error.
CellsLateWaiting ==
    /\ call.at = "cells"
    /\ IF Tried.tries < Retries /\ Tried.patience > 0
         THEN /\ call' = Tried
              /\ Write([op |-> "cells"])
              /\ UNCHANGED <<pack, cache>>
         ELSE call.volts /\ ReadEnds(TRUE, pack)
    /\ UNCHANGED <<bms, frames, told>>

CellsLate ==
    /\ call.at = "cells"
    /\ IF Tried.tries < Retries /\ Tried.patience > 0
         THEN /\ call' = Tried
              /\ Write([op |-> "cells"])
              /\ UNCHANGED <<pack, cache>>
         ELSE ReadEnds(call.volts, pack)
    /\ UNCHANGED <<bms, frames, told>>

(* next_update times out after 30 s; the stream ends.                      *)
NextLate ==
    /\ call.at = "next"
    /\ call' = Rest
    /\ UNCHANGED <<bms, requests, frames, pack, cache, told>>

(* The transport fails: read_data ends with its error, the stream ends.    *)
TransportFails ==
    /\ call.at # "idle"
    /\ IF call.at = "next"
         THEN call' = Rest /\ UNCHANGED <<requests, pack, cache>>
         ELSE ReadEnds(FALSE, pack)
    /\ UNCHANGED <<bms, frames, told>>

(* The caller drops the call: a time limit, or a command for the task.     *)
Dropped ==
    /\ call.at # "idle"
    /\ call' = Rest
    /\ UNCHANGED <<bms, requests, frames, pack, cache, told>>

Device == BmsInfo \/ BmsCells \/ BmsSet \/ Push \/ Lose

Clock == InfoLate \/ CellsLate \/ NextLate

Next ==
    \/ Device
    \/ CallStatus \/ CallStream
    \/ \E w \in Want : CallSet(w)
    \/ InfoFrame \/ CellsFrame \/ NextFrame
    \/ Clock \/ TransportFails \/ Dropped

Spec == Init /\ [][Next]_vars

(* Every wait of the handle has an end: 3 s for a window, 30 s for an      *)
(* update.                                                                 *)
FairSpec == Spec /\ WF_vars(Clock)
-----------------------------------------------------------------------------
(* Types: among them, that the rounds of read_data stay within their       *)
(* limits and that loaded settings are some (bms.rs:50, 102, 325-328).     *)
TypeOK ==
    /\ bms \in Bms
    /\ requests \in Seq(Request)
    /\ frames \in Seq(Frame)
    /\ call \in Call
    /\ pack \in Pack
    /\ cache \in {Stale, Unavailable} \cup {Loaded(v) : v \in Values \cup {Misread}}
    /\ told \in SUBSET Values

(* A value decoded by the default layout, of a BMS that has another.       *)
Guess(v) == v = Misread /\ bms.protocol # DefaultVersion

(* Settings on show are some the BMS has sent, never what a command asked  *)
(* for, although a write is acknowledged by nothing (jk.rs:346-350); what  *)
(* is read before an info frame has come may be misread, but only where    *)
(* the BMS does not speak the default version (bms.rs:76-92).              *)
LoadedReported ==
    cache.state = "loaded" => cache.value \in told \/ Guess(cache.value)

(* A write reaches the setting it was meant for, whatever frames were lost *)
(* or came late, once an info frame has come.  Without one the register is *)
(* guessed (bms.rs:334-346); a BMS that speaks JK04 is never recognised.   *)
WrittenAsMeant ==
    \A i \in DOMAIN requests :
        LET w == requests[i] IN
        w.op = "set" /\ w.known /\ bms.protocol # "JK04"
            => SettingsAt(bms.protocol, w.register) = {w.want.setting}

(* Firmware without a settings frame costs one settings read, not one per  *)
(* reading: whatever is written later, the cache is not made stale again   *)
(* (jk.rs:19-22, 330-350).                                                 *)
AskedOnce == [][cache = Unavailable => cache' = Unavailable]_vars

(* No call hangs on a BMS that is silent, slow, or chatters with the wrong *)
(* frames: each ends within its rounds (bms.rs:50-52, 100-131, 292-302).   *)
CallsEnd == call.at # "idle" ~> call.at = "idle"

-----------------------------------------------------------------------------
(* What the repository says and the code does not keep.                    *)

(* jk.rs:346-347: after a write the settings are read again, so the cache  *)
(* reflects what the BMS accepted.  The settings read before the write     *)
(* count as read, and the first cells end the read.                        *)
CacheConfirmed ==
    cache.state = "loaded" /\ (\A i \in DOMAIN requests : requests[i].op # "set")
        => cache.value = bms.value
=============================================================================
