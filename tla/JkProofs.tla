------------------------------ MODULE JkProofs ------------------------------
(***************************************************************************)
(* Settings on show are some the BMS has sent (or misread where the version *)
(* is a guess), a write reaches the setting it was meant for once the model *)
(* is known, and firmware without settings is not asked again: for any     *)
(* values and settings, any number of rounds and of frames under way.      *)
(* What is on show comes from the pack, what the pack holds from frames    *)
(* (PackKnown), and a frame from the BMS (FramesTold); a read that will    *)
(* load the settings was begun because they were stale, and nothing settles*)
(* them while it is under way (CallFits).  A register names one setting    *)
(* (RegistersApart), so what the right version looks up is what was meant. *)
(***************************************************************************)
EXTENDS JkBattery, SequenceTheorems, TLAPS

FramesTold ==
    \A i \in DOMAIN frames :
        /\ frames[i].kind = "settings" => frames[i].value \in told
        /\ frames[i].kind # "cells" => frames[i].protocol = bms.protocol

(* What a handle can know of this BMS.                                     *)
Known(k) ==
    /\ k \in Pack
    /\ k.value \in told \cup {NoValue} \/ Guess(k.value)
    /\ k.version = IF k.info THEN FromModel(bms.protocol) ELSE DefaultVersion

PackKnown == Known(pack)

CallFits ==
    call.at \in {"info", "cells"} =>
        /\ call.goal \in {"status", "stream"} => cache = Stale
        /\ call.goal = "set" => call.want \in Want

JkInv ==
    TypeOK /\ FramesTold /\ PackKnown /\ LoadedReported /\ CallFits /\ WrittenAsMeant

CacheState == {Stale, Unavailable} \cup {Loaded(v) : v \in Values \cup {Misread}}

KeepsUnavailable == cache = Unavailable => cache' = Unavailable

(* What a step of the handle alone leaves as it was.                       *)
BmsUntouched == bms' = bms /\ told' = told

RequestsFit == requests \in Seq(Request) /\ WrittenAsMeant

-----------------------------------------------------------------------------
(* The cache.                                                              *)

LEMMA CacheStates ==
    /\ Stale \in CacheState /\ Unavailable \in CacheState
    /\ \A v \in Values \cup {Misread} : Loaded(v) \in CacheState
    /\ Stale # Unavailable
    /\ \A v : Loaded(v) # Unavailable /\ Loaded(v) # Stale
    /\ \A v : Loaded(v).state = "loaded" /\ Loaded(v).value = v
    /\ Stale.state # "loaded" /\ Unavailable.state # "loaded"
BY DEF CacheState, Stale, Unavailable, Loaded

(* A write settles nothing, and an unavailable cache stays so.             *)
LEMMA WrittenCache ==
    ASSUME NEW w, Written(w), cache \in CacheState
    PROVE  /\ cache' \in {cache, Stale}
           /\ KeepsUnavailable
BY DEF Written, KeepsUnavailable

LEMMA LoadedCache ==
    ASSUME NEW ok \in BOOLEAN, NEW known \in Pack, LoadSettings(ok, known)
    PROVE  /\ cache' \in CacheState
           /\ cache' # Stale
           /\ cache'.state = "loaded" => cache'.value = known.value /\ known.value # NoValue
<1>1. CASE ok /\ known.value # NoValue
  <2>1. known.value \in Values \cup {Misread}
    BY <1>1 DEF Pack
  <2>2. cache' = Loaded(known.value)
    BY <1>1 DEF LoadSettings
  <2> QED
    BY <1>1, <2>1, <2>2, CacheStates
<1>2. CASE ~(ok /\ known.value # NoValue)
  <2>1. cache' = Unavailable
    BY <1>2 DEF LoadSettings
  <2> QED
    BY <2>1, CacheStates
<1> QED
  BY <1>1, <1>2

LEMMA Calls ==
    /\ Rest \in Call
    /\ \A goal \in Goals, want \in Want \cup {NoValue} :
          /\ Reading(goal, want) \in Call
          /\ Reading(goal, want).at = "info" /\ Reading(goal, want).goal = goal
          /\ Reading(goal, want).want = want
    /\ [Rest EXCEPT !.at = "next", !.goal = "stream"] \in Call
    /\ [Rest EXCEPT !.at = "next", !.goal = "stream"].at = "next"
    /\ Rest.at = "idle"
<1>1. 0 \in 0 .. Retries /\ 0 \in 0 .. Patience
  BY JkAssumption
<1>2. Rest \in Call /\ Rest.at = "idle"
  BY <1>1 DEF Call, Rest, Goals
<1>3. \A goal \in Goals, want \in Want \cup {NoValue} :
          /\ Reading(goal, want) \in Call
          /\ Reading(goal, want).at = "info" /\ Reading(goal, want).goal = goal
          /\ Reading(goal, want).want = want
  BY <1>1 DEF Call, Rest, Reading
<1>4. /\ [Rest EXCEPT !.at = "next", !.goal = "stream"] \in Call
      /\ [Rest EXCEPT !.at = "next", !.goal = "stream"].at = "next"
  BY <1>1 DEF Call, Rest, Goals
<1> QED
  BY <1>2, <1>3, <1>4

-----------------------------------------------------------------------------
(* Writes.                                                                 *)

(* The version an info frame tells is the protocol, for models it knows.   *)
LEMMA Versions ==
    /\ DefaultVersion \in Protocols
    /\ \A p \in Protocols : FromModel(p) \in Protocols
    /\ \A p \in Protocols : p # "JK04" => FromModel(p) = p
    /\ \A p \in Protocols : p = DefaultVersion => FromModel(p) = p
BY DEF Protocols, FromModel, DefaultVersion

(* A register found in the table of a protocol names one setting there.    *)
LEMMA RegisterNames ==
    ASSUME NEW p \in Protocols, NEW s, Register(p, s) # 0
    PROVE  SettingsAt(p, Register(p, s)) = {s}
<1>1. s \in DOMAIN Registers(p) /\ Register(p, s) = Registers(p)[s]
  BY DEF Register
<1>2. \A t \in DOMAIN Registers(p) : Registers(p)[t] = Registers(p)[s] => t = s
  BY <1>1, RegistersApart
<1> QED
  BY <1>1, <1>2 DEF SettingsAt

LEMMA RequestsStay ==
    ASSUME RequestsFit, bms'.protocol = bms.protocol, requests' = requests
    PROVE  RequestsFit'
BY DEF RequestsFit, WrittenAsMeant

LEMMA RequestHandled ==
    ASSUME RequestsFit, bms'.protocol = bms.protocol, requests # <<>>,
           requests' = Tail(requests)
    PROVE  RequestsFit' /\ Head(requests) \in Request
<1>1. /\ requests' \in Seq(Request) /\ Head(requests) \in Request
      /\ \A i \in DOMAIN requests' : i + 1 \in DOMAIN requests
                                    /\ requests'[i] = requests[i + 1]
  BY HeadTailProperties, LenProperties DEF RequestsFit
<1>2. ASSUME NEW i \in DOMAIN requests', requests'[i].op = "set", requests'[i].known,
             bms'.protocol # "JK04"
      PROVE  SettingsAt(bms'.protocol, requests'[i].register) = {requests'[i].want.setting}
  <2>1. /\ i + 1 \in DOMAIN requests /\ requests[i + 1].op = "set"
        /\ requests[i + 1].known /\ bms.protocol # "JK04"
    BY <1>1, <1>2
  <2>2. SettingsAt(bms.protocol, requests[i + 1].register) = {requests[i + 1].want.setting}
    BY <2>1 DEF RequestsFit, WrittenAsMeant
  <2> QED
    BY <1>1, <2>2
<1> QED
  BY <1>1, <1>2 DEF RequestsFit, WrittenAsMeant

LEMMA RequestSent ==
    ASSUME RequestsFit, bms' = bms, NEW r \in Request, Write(r),
           r.op = "set" /\ r.known /\ bms.protocol # "JK04"
               => SettingsAt(bms.protocol, r.register) = {r.want.setting}
    PROVE  RequestsFit'
<1>1. requests' = Append(requests, r) /\ requests \in Seq(Request)
  BY DEF Write, RequestsFit
<1>2. requests' \in Seq(Request) /\ DOMAIN requests' = 1 .. Len(requests) + 1
      /\ DOMAIN requests = 1 .. Len(requests) /\ Len(requests) \in Nat
  BY <1>1, LenProperties
<1>3. \A i \in DOMAIN requests' : \/ i \in DOMAIN requests /\ requests'[i] = requests[i]
                                 \/ requests'[i] = r
  BY <1>1, <1>2
<1> QED
  BY <1>2, <1>3 DEF RequestsFit, WrittenAsMeant

LEMMA Asked ==
    ASSUME RequestsFit, bms' = bms, NEW op \in {"info", "cells"}, Write([op |-> op])
    PROVE  RequestsFit'
<1>1. [op |-> op] \in Request /\ [op |-> op].op # "set"
  BY DEF Request
<1> QED
  BY <1>1, RequestSent

(* The setting that a call of set wants is looked up by the version known. *)
LEMMA Put ==
    ASSUME RequestsFit, bms' = bms, bms.protocol \in Protocols, cache \in CacheState,
           NEW w \in Want, NEW known, Known(known), PutSetting(w, known)
    PROVE  RequestsFit' /\ cache' \in {cache, Stale} /\ KeepsUnavailable
<1> DEFINE r == WriteFrame(w, known)
           register == Register(known.version, w.setting)
<1>0. /\ r.op = "set" /\ r.register = register /\ r.want = w
      /\ r = [op |-> "set", register |-> register, want |-> w, known |-> known.info]
      /\ r.known = known.info
  BY DEF WriteFrame
<1>1. w.setting \in Names
  BY DEF Want
<1>2. known.version \in Protocols /\ known.info \in BOOLEAN
  BY DEF Known, Pack
<1>3. CASE register = 0
  <2>1. requests' = requests /\ cache' = cache
    BY <1>0, <1>3 DEF PutSetting
  <2> QED
    BY <2>1, RequestsStay DEF KeepsUnavailable
<1>4. CASE register # 0
  <2>1. Write(r) /\ Written(w)
    BY <1>0, <1>4 DEF PutSetting
  <2>2. r \in Request
    BY <1>0, <1>1, <1>2 DEF Request, RegisterNumbers
  <2>3. ASSUME known.info, bms.protocol # "JK04"
        PROVE  SettingsAt(bms.protocol, register) = {w.setting}
    <3>1. known.version = bms.protocol
      BY <2>3, Versions DEF Known
    <3> QED
      BY <1>4, <3>1, RegisterNames
  <2>4. RequestsFit'
    BY <1>0, <2>1, <2>2, <2>3, RequestSent
  <2> QED
    BY <2>1, <2>4, WrittenCache
<1> QED
  BY <1>3, <1>4
-----------------------------------------------------------------------------
(* The parts of the invariant that a step can disturb, named.              *)
LEMMA TypeParts ==
    TypeOK <=>
      /\ bms \in Bms
      /\ requests \in Seq(Request)
      /\ frames \in Seq(Frame)
      /\ call \in Call
      /\ pack \in Pack
      /\ cache \in CacheState
      /\ told \in SUBSET Values
BY DEF TypeOK, CacheState

LEMMA InvParts ==
    JkInv <=>
      /\ bms \in Bms /\ bms.protocol \in Protocols /\ told \in SUBSET Values
      /\ RequestsFit
      /\ frames \in Seq(Frame) /\ FramesTold
      /\ call \in Call /\ CallFits
      /\ PackKnown
      /\ cache \in CacheState /\ LoadedReported
<1>1. bms \in Bms => bms.protocol \in Protocols
  BY DEF Bms
<1>2. PackKnown => pack \in Pack
  BY DEF PackKnown, Known
<1> QED
  BY <1>1, <1>2, TypeParts DEF JkInv, RequestsFit

LEMMA InitInv == Init => JkInv
<1> SUFFICES ASSUME Init PROVE JkInv
  OBVIOUS
<1>1. bms \in Bms /\ bms.protocol \in Protocols /\ told = {}
  BY DEF Init, Bms
<1>2. RequestsFit
  BY EmptySeq DEF Init, RequestsFit, WrittenAsMeant
<1>3. frames \in Seq(Frame) /\ FramesTold
  BY EmptySeq DEF Init, FramesTold
<1>4. call \in Call /\ CallFits
  BY Calls DEF Init, CallFits
<1>5. PackKnown
  BY Versions DEF Init, PackKnown, Known, Pack
<1>6. cache \in CacheState /\ LoadedReported
  BY CacheStates DEF Init, LoadedReported
<1> QED
  BY <1>1, <1>2, <1>3, <1>4, <1>5, <1>6, InvParts

(* What is told and what the BMS is does not go away.                      *)
LEMMA KnownStays ==
    ASSUME NEW k, Known(k), bms'.protocol = bms.protocol, told \subseteq told'
    PROVE  Known(k)'
BY DEF Known, Guess

(* Where the handle does nothing, its part of the invariant stays.         *)
LEMMA HostUnchanged ==
    ASSUME JkInv, UNCHANGED Host, told \subseteq told', told' \in SUBSET Values,
           bms' \in Bms, bms'.protocol = bms.protocol,
           RequestsFit', frames' \in Seq(Frame), FramesTold'
    PROVE  JkInv' /\ KeepsUnavailable
<1>1. call' = call /\ pack' = pack /\ cache' = cache
  BY DEF Host
<1>2. PackKnown'
  BY <1>1, KnownStays, InvParts DEF PackKnown, Known, Guess
<1>3. LoadedReported' /\ CallFits' /\ KeepsUnavailable
  BY <1>1, InvParts DEF LoadedReported, CallFits, KeepsUnavailable, Guess
<1>4. call' \in Call /\ cache' \in CacheState /\ bms'.protocol \in Protocols
  BY <1>1, InvParts
<1>5. TypeOK'
  BY <1>2, <1>4 DEF TypeOK, CacheState, PackKnown, Known, RequestsFit
<1> QED
  BY <1>2, <1>3, <1>5 DEF JkInv, RequestsFit

(* Where no settings are loaded: the cache stays or becomes stale.         *)
LEMMA NothingLoaded ==
    ASSUME JkInv, BmsUntouched, RequestsFit', frames' \in Seq(Frame),
           FramesTold', call' \in Call, PackKnown',
           cache' \in {cache, Stale}, KeepsUnavailable,
           call'.at \in {"info", "cells"} =>
               /\ call'.goal \in {"status", "stream"} => cache' = Stale
               /\ call'.goal = "set" => call'.want \in Want
    PROVE  JkInv'
<1>1. cache \in CacheState /\ LoadedReported /\ bms \in Bms /\ told \in SUBSET Values
  BY InvParts
<1>2. cache' \in CacheState
  BY <1>1, CacheStates
<1>3. LoadedReported'
  BY <1>1, CacheStates DEF LoadedReported, BmsUntouched, Guess
<1>4. CallFits'
  BY DEF CallFits
<1>5. TypeOK'
  BY <1>1, <1>2 DEF TypeOK, CacheState, BmsUntouched, PackKnown, Known, RequestsFit
<1> QED
  BY <1>3, <1>4, <1>5 DEF JkInv, RequestsFit

-----------------------------------------------------------------------------
(* The end of a read, for each of its callers.                             *)
LEMMA ReadEndsInv ==
    ASSUME JkInv, BmsUntouched, call.at \in {"info", "cells"},
           NEW ok \in BOOLEAN, NEW known, Known(known),
           frames' \in Seq(Frame), FramesTold', ReadEnds(ok, known)
    PROVE  JkInv' /\ KeepsUnavailable
<1>1. /\ RequestsFit /\ call \in Call /\ CallFits /\ cache \in CacheState
      /\ bms \in Bms /\ bms.protocol \in Protocols /\ told \in SUBSET Values
  BY InvParts
<1>2. bms' = bms /\ told' = told /\ known \in Pack
  BY DEF BmsUntouched, Known
<1>3. pack' = known => PackKnown'
  BY <1>2, KnownStays DEF PackKnown, Known, Guess
<1>4. CASE call.goal \in {"status", "stream"} /\ LoadSettings(ok, known)
           /\ PackKnown' /\ RequestsFit' /\ call' \in Call
           /\ (call'.at \in {"info", "cells"} => call'.goal = "statusLive")
  <2>1. cache = Stale
    BY <1>1, <1>4 DEF CallFits
  <2>2. /\ cache' \in CacheState
        /\ cache'.state = "loaded" => cache'.value = known.value /\ known.value # NoValue
    BY <1>2, <1>4, LoadedCache
  <2>3. LoadedReported'
    BY <1>2, <2>2 DEF LoadedReported, Known, Guess
  <2>4. TypeOK'
    BY <1>1, <1>2, <1>4, <2>2 DEF TypeOK, CacheState, PackKnown, Known, RequestsFit
  <2>5. CallFits' /\ KeepsUnavailable
    BY <1>4, <2>1, CacheStates DEF CallFits, KeepsUnavailable
  <2> QED
    BY <1>4, <2>3, <2>4, <2>5 DEF JkInv, RequestsFit
<1>5. CASE call.goal = "status" /\ EndStatus(ok, known)
  <2>1. CASE cache' = Unavailable
    <3>1. Begins("statusLive", NoValue)
      BY <1>5, <2>1 DEF EndStatus
    <3>2. call' \in Call /\ call'.goal = "statusLive"
      BY <3>1, Calls DEF Begins, Goals
    <3>3. RequestsFit'
      BY <1>1, <1>2, <3>1, Asked DEF Begins
    <3> QED
      BY <1>3, <1>4, <1>5, <3>2, <3>3 DEF EndStatus
  <2>2. CASE cache' # Unavailable
    <3>1. call' = Rest /\ requests' = requests
      BY <1>5, <2>2 DEF EndStatus
    <3> QED
      BY <1>1, <1>2, <1>3, <1>4, <1>5, <3>1, Calls, RequestsStay DEF EndStatus
  <2> QED
    BY <2>1, <2>2
<1>6. CASE call.goal = "stream" /\ EndStream(ok, known)
  <2>1. Following(known) /\ LoadSettings(ok, known)
    BY <1>6 DEF EndStream
  <2>2. call' \in Call /\ call'.at = "next"
    BY <2>1, Calls DEF Following
  <2>3. PackKnown'
    BY <1>2, <2>1 DEF Following, PackKnown, Known, Pack, Guess
  <2>4. RequestsFit'
    BY <1>1, <1>2, <2>1, Asked, RequestsStay DEF Following
  <2> QED
    BY <1>4, <1>6, <2>1, <2>2, <2>3, <2>4
<1>7. CASE call.goal = "statusLive" /\ EndStatusLive(known)
  <2>1. pack' = known /\ call' = Rest /\ requests' = requests /\ cache' = cache
    BY <1>7 DEF EndStatusLive
  <2>2. RequestsFit' /\ KeepsUnavailable
    BY <1>1, <1>2, <2>1, RequestsStay DEF KeepsUnavailable
  <2> QED
    BY <1>3, <2>1, <2>2, Calls, NothingLoaded
<1>8. CASE call.goal = "set" /\ EndSet(known)
  <2>1. PutSetting(call.want, known) /\ pack' = known /\ call' = Rest
    BY <1>8 DEF EndSet
  <2>2. call.want \in Want
    BY <1>1, <1>8 DEF CallFits
  <2>3. RequestsFit' /\ cache' \in {cache, Stale} /\ KeepsUnavailable
    BY <1>1, <1>2, <2>1, <2>2, Put
  <2> QED
    BY <1>3, <2>1, <2>3, Calls, NothingLoaded
<1> QED
  BY <1>5, <1>6, <1>7, <1>8 DEF ReadEnds
-----------------------------------------------------------------------------
(* The steps of the BMS and of the way back.                               *)
LEMMA DeviceInv == JkInv /\ Device => JkInv' /\ KeepsUnavailable
<1> SUFFICES ASSUME JkInv, Device PROVE JkInv' /\ KeepsUnavailable
  OBVIOUS
<1>1. /\ bms \in Bms /\ bms.protocol \in Protocols /\ told \in SUBSET Values
      /\ RequestsFit /\ frames \in Seq(Frame) /\ FramesTold
  BY InvParts
<1>2. /\ bms.value \in Values
      /\ Settings(bms.protocol, bms.value) \in Frame
      /\ Cells \in Frame /\ Info(bms.protocol) \in Frame
      /\ Cells.kind = "cells"
      /\ Info(bms.protocol).kind = "info" /\ Info(bms.protocol).protocol = bms.protocol
      /\ Settings(bms.protocol, bms.value).value = bms.value
      /\ Settings(bms.protocol, bms.value).protocol = bms.protocol
  BY <1>1 DEF Frame, Settings, Cells, Info, Bms
<1>3. ASSUME NEW op, Handle(op), bms'.protocol = bms.protocol
      PROVE  RequestsFit' /\ UNCHANGED Host
  BY <1>1, <1>3, RequestHandled DEF Handle
<1>4. ASSUME NEW f \in Frame, f.kind # "settings", frames' = Append(frames, f),
             f.kind # "cells" => f.protocol = bms.protocol,
             told \subseteq told', bms'.protocol = bms.protocol
      PROVE  frames' \in Seq(Frame) /\ FramesTold'
  <2>1. frames' \in Seq(Frame) /\ DOMAIN frames' = 1 .. Len(frames) + 1
        /\ DOMAIN frames = 1 .. Len(frames) /\ Len(frames) \in Nat
    BY <1>1, <1>4, LenProperties
  <2>2. \A i \in DOMAIN frames' : \/ i \in DOMAIN frames /\ frames'[i] = frames[i]
                                 \/ frames'[i] = f
    BY <1>1, <1>4, <2>1
  <2> QED
    BY <1>1, <1>4, <2>1, <2>2 DEF FramesTold
<1>5. CASE BmsInfo
  <2>1. /\ Handle("info") /\ frames' = Append(frames, Info(bms.protocol))
        /\ bms' = bms /\ told' = told
    BY <1>5 DEF BmsInfo
  <2>2. frames' \in Seq(Frame) /\ FramesTold'
    BY <1>2, <1>4, <2>1
  <2> QED
    BY <1>1, <1>3, <2>1, <2>2, HostUnchanged
<1>6. CASE BmsCells
  <2>1. /\ Handle("cells") /\ bms' = [bms EXCEPT !.pushes = TRUE]
        /\ bms' \in Bms /\ bms'.protocol = bms.protocol
    BY <1>1, <1>6 DEF BmsCells, Bms
  <2>2. CASE bms.answers
    <3>1. /\ told' = told \cup {bms.value}
          /\ frames' = frames \o <<Settings(bms.protocol, bms.value), Cells>>
      BY <1>6, <2>2 DEF BmsCells
    <3>2. told' \in SUBSET Values
      BY <1>1, <1>2, <3>1
    <3>3. <<Settings(bms.protocol, bms.value), Cells>> \in Seq(Frame)
      BY <1>1, <1>2
    <3>4. frames' \in Seq(Frame)
      BY <1>1, <3>1, <3>3, ConcatProperties
    <3>5. ASSUME NEW i \in DOMAIN frames'
          PROVE  /\ frames'[i].kind = "settings" => frames'[i].value \in told'
                 /\ frames'[i].kind # "cells" => frames'[i].protocol = bms.protocol
      <4>1. i \in 1 .. Len(frames) + 2 /\ Len(frames) \in Nat /\ DOMAIN frames = 1 .. Len(frames)
        BY <1>1, <3>1, <3>3, <3>4, ConcatProperties, LenProperties
      <4>2. CASE i <= Len(frames)
        BY <1>1, <3>1, <3>3, <4>1, <4>2, ConcatProperties DEF FramesTold
      <4>3. CASE i > Len(frames)
        <5>1. frames'[i] \in {Settings(bms.protocol, bms.value), Cells}
          BY <1>1, <3>1, <3>3, <4>1, <4>3, ConcatProperties
        <5> QED
          BY <1>2, <3>1, <5>1
      <4> QED
        BY <4>1, <4>2, <4>3
    <3>6. FramesTold'
      BY <2>1, <3>5 DEF FramesTold
    <3> QED
      BY <1>3, <2>1, <3>1, <3>2, <3>4, <3>6, HostUnchanged
  <2>3. CASE ~bms.answers
    <3>1. told' = told /\ frames' = Append(frames, Cells)
      BY <1>6, <2>3 DEF BmsCells
    <3>2. frames' \in Seq(Frame) /\ FramesTold'
      BY <1>2, <1>4, <2>1, <3>1
    <3> QED
      BY <1>1, <1>3, <2>1, <3>1, <3>2, HostUnchanged
  <2> QED
    BY <2>2, <2>3
<1>7. CASE BmsSet
  <2>1. Handle("set") /\ UNCHANGED <<frames, told>>
    BY <1>7 DEF BmsSet
  <2>2. bms' = bms \/ \E v \in Values : bms' = [bms EXCEPT !.value = v]
    BY <1>7 DEF BmsSet
  <2>3. bms' \in Bms /\ bms'.protocol = bms.protocol
    BY <1>1, <2>2 DEF Bms
  <2>4. FramesTold'
    BY <1>1, <2>1, <2>3 DEF FramesTold
  <2> QED
    BY <1>1, <1>3, <2>1, <2>3, <2>4, HostUnchanged
<1>8. CASE Push
  <2>1. /\ frames' = Append(frames, Cells) /\ UNCHANGED <<bms, requests, told>>
        /\ UNCHANGED Host
    BY <1>8 DEF Push
  <2>2. frames' \in Seq(Frame) /\ FramesTold'
    BY <1>2, <1>4, <2>1
  <2> QED
    BY <1>1, <2>1, <2>2, RequestsStay, HostUnchanged
<1>9. CASE Lose
  <2>1. frames # <<>> /\ frames' = Tail(frames) /\ UNCHANGED <<bms, requests, told>>
        /\ UNCHANGED Host
    BY <1>9 DEF Lose
  <2>2. frames' \in Seq(Frame) /\ FramesTold'
    BY <1>1, <2>1, HeadTailProperties, LenProperties DEF FramesTold
  <2> QED
    BY <1>1, <2>1, <2>2, RequestsStay, HostUnchanged
<1> QED
  BY <1>5, <1>6, <1>7, <1>8, <1>9 DEF Device

-----------------------------------------------------------------------------
(* A call begins.                                                          *)
LEMMA CallInv ==
    ASSUME JkInv, CallStatus \/ CallStream \/ \E w \in Want : CallSet(w)
    PROVE  JkInv' /\ KeepsUnavailable
<1>1. /\ RequestsFit /\ frames \in Seq(Frame) /\ FramesTold /\ call \in Call
      /\ PackKnown /\ cache \in CacheState /\ bms.protocol \in Protocols
  BY InvParts
<1>2. BmsUntouched /\ frames' = frames /\ bms' = bms /\ told' = told
  BY DEF CallStatus, CallStream, CallSet, BmsUntouched
<1>3. FramesTold' /\ (pack' = pack => PackKnown')
  BY <1>1, <1>2 DEF FramesTold, PackKnown, Known, Guess
<1>4. ASSUME NEW goal \in Goals, NEW want \in Want \cup {NoValue}, Begins(goal, want)
      PROVE  call' \in Call /\ call'.goal = goal /\ call'.want = want /\ RequestsFit'
  BY <1>1, <1>2, <1>4, Calls, Asked DEF Begins
<1>5. CASE CallStatus
  <2>1. pack' = pack /\ cache' = cache /\ KeepsUnavailable
    BY <1>5 DEF CallStatus, KeepsUnavailable
  <2>2. CASE cache = Stale /\ Begins("status", NoValue)
    BY <1>1, <1>2, <1>3, <1>4, <2>1, <2>2, NothingLoaded DEF Goals
  <2>3. CASE cache = Unavailable /\ Begins("statusLive", NoValue)
    BY <1>1, <1>2, <1>3, <1>4, <2>1, <2>3, NothingLoaded DEF Goals
  <2>4. CASE requests' = requests /\ call' = call
    <3>1. call'.at \notin {"info", "cells"}
      BY <1>5, <2>4 DEF CallStatus
    <3> QED
      BY <1>1, <1>2, <1>3, <2>1, <2>4, <3>1, RequestsStay, NothingLoaded
  <2> QED
    BY <1>5, <2>2, <2>3, <2>4 DEF CallStatus
<1>6. CASE CallStream
  <2>1. cache' = cache /\ KeepsUnavailable
    BY <1>6 DEF CallStream, KeepsUnavailable
  <2>2. CASE cache = Stale /\ Begins("stream", NoValue) /\ pack' = pack
    BY <1>1, <1>2, <1>3, <1>4, <2>1, <2>2, NothingLoaded DEF Goals
  <2>3. CASE Following(pack)
    <3>1. call' \in Call /\ call'.at = "next"
      BY <2>3, Calls DEF Following
    <3>2. PackKnown'
      BY <1>1, <1>2, <2>3 DEF Following, PackKnown, Known, Pack, Guess
    <3>3. RequestsFit'
      BY <1>1, <1>2, <2>3, Asked, RequestsStay DEF Following
    <3> QED
      BY <1>1, <1>2, <1>3, <2>1, <3>1, <3>2, <3>3, NothingLoaded
  <2> QED
    BY <1>6, <2>2, <2>3 DEF CallStream
<1>7. ASSUME NEW w \in Want, CallSet(w) PROVE JkInv' /\ KeepsUnavailable
  <2>1. call.at = "idle" /\ pack' = pack
    BY <1>7 DEF CallSet
  <2>2. CASE PutSetting(w, pack) /\ call' = call
    <3>1. RequestsFit' /\ cache' \in {cache, Stale} /\ KeepsUnavailable
      BY <1>1, <1>2, <2>2, Put DEF PackKnown
    <3> QED
      BY <1>1, <1>2, <1>3, <2>1, <2>2, <3>1, NothingLoaded
  <2>3. CASE Begins("set", w) /\ cache' = cache
    <3>1. KeepsUnavailable
      BY <2>3 DEF KeepsUnavailable
    <3> QED
      BY <1>1, <1>2, <1>3, <1>4, <2>1, <2>3, <3>1, NothingLoaded DEF Goals
  <2> QED
    BY <1>7, <2>2, <2>3 DEF CallSet
<1> QED
  BY <1>5, <1>6, <1>7
-----------------------------------------------------------------------------
(* A frame arrives: what the handle knows by then was told.                *)
LEMMA Arrival ==
    ASSUME JkInv, NEW at, Arrives(at)
    PROVE  /\ BmsUntouched /\ frames' \in Seq(Frame) /\ FramesTold'
           /\ Known(Decoded(Head(frames)))
<1> DEFINE f == Head(frames)
<1>1. /\ frames # <<>> /\ frames' = Tail(frames) /\ frames \in Seq(Frame) /\ BmsUntouched
      /\ FramesTold /\ PackKnown /\ bms.protocol \in Protocols /\ told \in SUBSET Values
  BY InvParts DEF Arrives, BmsUntouched
<1>2. /\ f \in Frame /\ Tail(frames) \in Seq(Frame)
      /\ Len(frames) \in Nat /\ 1 \in DOMAIN frames /\ f = frames[1]
      /\ DOMAIN frames = 1 .. Len(frames)
  BY <1>1, HeadTailProperties, LenProperties
<1>3. FramesTold'
  BY <1>1, <1>2, HeadTailProperties, LenProperties DEF FramesTold, BmsUntouched
<1>4. /\ f.kind = "settings" => f.value \in told
      /\ f.kind # "cells" => f.protocol = bms.protocol
  BY <1>1, <1>2 DEF FramesTold
<1> HIDE DEF f
<1>5. CASE f.kind = "settings"
  <2>1. Decoded(f) = [pack EXCEPT !.value = SettingsRead(f)]
    BY <1>5 DEF Decoded
  <2>2. SettingsRead(f) \in Values \cup {Misread}
        /\ (SettingsRead(f) \in told \/ Guess(SettingsRead(f)))
    <3>1. CASE f.protocol = pack.version
      BY <1>1, <1>4, <1>5, <3>1 DEF SettingsRead
    <3>2. CASE f.protocol # pack.version
      <4>1. bms.protocol # DefaultVersion
        BY <1>1, <1>4, <1>5, <3>2, Versions DEF PackKnown, Known
      <4> QED
        BY <3>2, <4>1 DEF SettingsRead, Guess
    <3> QED
      BY <3>1, <3>2
  <2>3. pack \in Pack
    BY <1>1 DEF PackKnown, Known
  <2>4. Decoded(f) \in Pack /\ Decoded(f).value = SettingsRead(f)
        /\ Decoded(f).info = pack.info /\ Decoded(f).version = pack.version
    BY <2>1, <2>2, <2>3 DEF Pack
  <2>5. Known(Decoded(f))
    BY <1>1, <2>2, <2>4 DEF PackKnown, Known
  <2> QED
    BY <1>1, <1>2, <1>3, <2>5 DEF f
<1>6. CASE f.kind = "info"
  <2>1. Decoded(f) = [pack EXCEPT !.info = TRUE, !.version = FromModel(bms.protocol)]
    BY <1>4, <1>6 DEF Decoded
  <2>2. pack \in Pack /\ FromModel(bms.protocol) \in Protocols
    BY <1>1, Versions DEF PackKnown, Known
  <2>3. Decoded(f) \in Pack /\ Decoded(f).value = pack.value
        /\ Decoded(f).info = TRUE /\ Decoded(f).version = FromModel(bms.protocol)
    BY <2>1, <2>2 DEF Pack
  <2>4. Known(Decoded(f))
    BY <1>1, <2>3 DEF PackKnown, Known
  <2> QED
    BY <1>1, <1>2, <1>3, <2>4 DEF f
<1>7. CASE f.kind \notin {"settings", "info"}
  <2>1. Decoded(f) = pack
    BY <1>7 DEF Decoded
  <2> QED
    BY <1>1, <1>2, <1>3, <2>1 DEF PackKnown, f
<1> QED
  BY <1>5, <1>6, <1>7

LEMMA CellsPhaseTyped ==
    ASSUME JkInv, bms' = bms, NEW known \in Pack, CellsPhase(call, known)
    PROVE  /\ call' \in Call /\ call'.at = "cells" /\ call'.goal = call.goal
           /\ call'.want = call.want
           /\ RequestsFit'
<1>1. 0 \in 0 .. Retries /\ Patience \in 0 .. Patience /\ call \in Call
  BY JkAssumption, InvParts
<1>2. (known.value # NoValue) \in BOOLEAN
  OBVIOUS
<1>3. call' \in Call /\ call'.at = "cells" /\ call'.goal = call.goal /\ call'.want = call.want
  BY <1>1, <1>2 DEF CellsPhase, Call
<1>4. RequestsFit'
  BY Asked, InvParts DEF CellsPhase
<1> QED
  BY <1>3, <1>4

(* A step of a read that goes on, for the same caller.                     *)
LEMMA ReadGoesOn ==
    ASSUME JkInv, BmsUntouched, call.at \in {"info", "cells"}, call' \in Call,
           call'.goal = call.goal, call'.want = call.want, RequestsFit',
           frames' \in Seq(Frame), FramesTold', PackKnown', cache' = cache
    PROVE  JkInv' /\ KeepsUnavailable
<1>1. KeepsUnavailable
  BY DEF KeepsUnavailable
<1>2. /\ call'.goal \in {"status", "stream"} => cache' = Stale
      /\ call'.goal = "set" => call'.want \in Want
  BY InvParts DEF CallFits
<1> QED
  BY <1>1, <1>2, NothingLoaded

LEMMA FrameInv == JkInv /\ (InfoFrame \/ CellsFrame \/ NextFrame) => JkInv' /\ KeepsUnavailable
<1> SUFFICES ASSUME JkInv, InfoFrame \/ CellsFrame \/ NextFrame
             PROVE  JkInv' /\ KeepsUnavailable
  OBVIOUS
<1> DEFINE f == Head(frames)
<1> DEFINE known == Decoded(f)
<1>1. RequestsFit /\ call \in Call
  BY InvParts
<1>2. BmsUntouched /\ frames' \in Seq(Frame) /\ FramesTold' /\ Known(known)
  BY Arrival DEF InfoFrame, CellsFrame, NextFrame
<1> HIDE DEF f, known
<1>3. bms' = bms /\ told' = told
  BY <1>2 DEF BmsUntouched
<1>4. known \in Pack /\ (pack' = known => PackKnown')
  BY <1>2, <1>3 DEF PackKnown, Known, Guess
<1>5. CASE InfoFrame
  <2>1. call.at = "info" /\ pack' = known /\ cache' = cache
    BY <1>5 DEF InfoFrame, Arrives, known, f
  <2>2. CASE CellsPhase(call, known)
    BY <1>2, <1>3, <1>4, <2>1, <2>2, CellsPhaseTyped, ReadGoesOn
  <2>3. CASE call' = call /\ requests' = requests
    BY <1>1, <1>2, <1>3, <1>4, <2>1, <2>3, RequestsStay, ReadGoesOn
  <2> QED
    BY <1>5, <2>2, <2>3 DEF InfoFrame, known, f
<1>6. CASE CellsFrame
  <2> DEFINE c == [call EXCEPT !.volts = @ \/ f.kind = "cells",
                               !.settings = @ \/ f.kind = "settings"]
  <2>1. c \in Call /\ c.goal = call.goal /\ c.want = call.want
    <3>1. (call.volts \/ f.kind = "cells") \in BOOLEAN
          /\ (call.settings \/ f.kind = "settings") \in BOOLEAN
      OBVIOUS
    <3> QED
      BY <1>1, <3>1 DEF Call
  <2>2. call.at = "cells"
    BY <1>6 DEF CellsFrame, Arrives
  <2>3. CASE ReadEnds(TRUE, known)
    BY <1>2, <2>2, <2>3, ReadEndsInv
  <2>4. CASE call' = c /\ pack' = known /\ UNCHANGED <<requests, cache>>
    BY <1>1, <1>2, <1>3, <1>4, <2>1, <2>2, <2>4, RequestsStay, ReadGoesOn
  <2> QED
    BY <1>6, <2>3, <2>4 DEF CellsFrame, known, f
<1>7. CASE NextFrame
  <2>1. /\ pack' = known /\ UNCHANGED <<requests, cache>>
        /\ call.at = "next" /\ call' \in {Rest, call}
    BY <1>7 DEF NextFrame, Arrives, known, f
  <2>2. call' \in Call /\ call'.at \notin {"info", "cells"} /\ KeepsUnavailable
    BY <1>1, <2>1, Calls DEF KeepsUnavailable
  <2> QED
    BY <1>1, <1>2, <1>3, <1>4, <2>1, <2>2, RequestsStay, NothingLoaded
<1> QED
  BY <1>5, <1>6, <1>7

-----------------------------------------------------------------------------
(* A wait runs out, the transport fails, or the caller drops the call.     *)
LEMMA ClockInv == JkInv /\ (Clock \/ TransportFails \/ Dropped) => JkInv' /\ KeepsUnavailable
<1> SUFFICES ASSUME JkInv, Clock \/ TransportFails \/ Dropped
             PROVE  JkInv' /\ KeepsUnavailable
  OBVIOUS
<1>1. /\ RequestsFit /\ call \in Call /\ PackKnown /\ frames \in Seq(Frame) /\ FramesTold
      /\ call.volts \in BOOLEAN /\ pack \in Pack
  BY InvParts DEF Call, PackKnown, Known
<1>2. BmsUntouched /\ bms' = bms /\ told' = told /\ frames' = frames
  BY DEF Clock, InfoLate, CellsLate, NextLate, TransportFails, Dropped, BmsUntouched
<1>3. FramesTold' /\ (pack' = pack => PackKnown')
  BY <1>1, <1>2 DEF FramesTold, PackKnown, Known, Guess
<1>4. ASSUME call' = Rest, UNCHANGED <<requests, pack, cache>>
      PROVE  JkInv' /\ KeepsUnavailable
  <2>1. KeepsUnavailable /\ RequestsFit'
    BY <1>1, <1>2, <1>4, RequestsStay DEF KeepsUnavailable
  <2> QED
    BY <1>1, <1>2, <1>3, <1>4, <2>1, Calls, NothingLoaded
<1>5. ASSUME NEW ok \in BOOLEAN, call.at \in {"info", "cells"}, ReadEnds(ok, pack)
      PROVE  JkInv' /\ KeepsUnavailable
  BY <1>1, <1>2, <1>3, <1>5, ReadEndsInv DEF PackKnown
<1>6. CASE InfoLate
  <2>1. call.at = "info" /\ UNCHANGED <<pack, cache>>
    BY <1>6 DEF InfoLate
  <2>2. CASE CellsPhase(call, pack)
    BY <1>1, <1>2, <1>3, <2>1, <2>2, CellsPhaseTyped, ReadGoesOn
  <2>3. CASE /\ call.tries + 1 < Retries
             /\ call' = [call EXCEPT !.tries = @ + 1]
             /\ Write([op |-> "info"])
    <3>1. call.tries \in 0 .. Retries /\ Retries \in Nat
      BY <1>1, JkAssumption DEF Call
    <3>2. call.tries + 1 \in 0 .. Retries
      BY <2>3, <3>1
    <3>3. call' \in Call /\ call'.goal = call.goal /\ call'.want = call.want
      BY <1>1, <2>3, <3>2 DEF Call
    <3>4. RequestsFit'
      BY <1>1, <1>2, <2>3, Asked
    <3> QED
      BY <1>1, <1>2, <1>3, <2>1, <3>3, <3>4, ReadGoesOn
  <2> QED
    BY <1>6, <2>2, <2>3 DEF InfoLate
<1>7. CASE CellsLate
  <2>1. call.at = "cells"
    BY <1>7 DEF CellsLate
  <2>2. CASE ReadEnds(call.volts, pack)
    BY <1>1, <1>5, <2>1, <2>2
  <2>3. CASE /\ Tried.tries < Retries /\ Tried.patience > 0
             /\ call' = Tried
             /\ Write([op |-> "cells"])
             /\ UNCHANGED <<pack, cache>>
    <3>1. /\ call.tries \in 0 .. Retries /\ Retries \in Nat
          /\ call.patience \in 0 .. Patience /\ Patience \in Nat
      BY <1>1, JkAssumption DEF Call
    <3>2. call' = [call EXCEPT !.tries = call.tries + 1, !.patience = call'.patience]
          /\ call'.patience \in {call.patience, call.patience - 1}
          /\ call'.tries = call.tries + 1
      BY <1>1, <2>3 DEF Tried, Call
    <3>3. call.tries + 1 \in 0 .. Retries /\ call'.patience \in 0 .. Patience
      BY <2>3, <3>1, <3>2
    <3>4. call' \in Call /\ call'.goal = call.goal /\ call'.want = call.want
      BY <1>1, <3>2, <3>3 DEF Call
    <3>5. RequestsFit'
      BY <1>1, <1>2, <2>3, Asked
    <3> QED
      BY <1>1, <1>2, <1>3, <2>1, <2>3, <3>4, <3>5, ReadGoesOn
  <2> QED
    BY <1>7, <2>2, <2>3 DEF CellsLate
<1>8. CASE NextLate \/ Dropped
  BY <1>4, <1>8 DEF NextLate, Dropped
<1>9. CASE TransportFails
  <2>1. CASE call.at = "next"
    BY <1>4, <1>9, <2>1 DEF TransportFails
  <2>2. CASE call.at # "next"
    BY <1>1, <1>5, <1>9, <2>2 DEF TransportFails, Call
  <2> QED
    BY <2>1, <2>2
<1> QED
  BY <1>6, <1>7, <1>8, <1>9 DEF Clock

LEMMA StepInv == JkInv /\ [Next]_vars => JkInv' /\ KeepsUnavailable
<1> SUFFICES ASSUME JkInv, [Next]_vars PROVE JkInv' /\ KeepsUnavailable
  OBVIOUS
<1>1. CASE UNCHANGED vars
  BY <1>1 DEF vars, JkInv, TypeOK, FramesTold, PackKnown, Known, Guess, LoadedReported,
              CallFits, WrittenAsMeant, KeepsUnavailable
<1> QED
  BY <1>1, DeviceInv, CallInv, FrameInv, ClockInv DEF Next

(* The invariant the theorems rest on, every type with it.                 *)
THEOREM JkInvariant == Spec => []JkInv
BY InitInv, StepInv, PTL DEF Spec

(* What the cache of settings shows was sent by the BMS, whichever call    *)
(* loaded it and whatever was written meanwhile, or misread where the BMS  *)
(* does not speak the version assumed of it (jk.rs:325-350).               *)
THEOREM SettingsReported == Spec => []LoadedReported
<1>1. JkInv => LoadedReported
  BY DEF JkInv
<1> QED
  BY <1>1, JkInvariant, PTL

(* Once an info frame has come, a write names the register that holds the  *)
(* setting it was meant for, in every table of the client (bms.rs:331-361).*)
THEOREM WritesReachTheirSetting == Spec => []WrittenAsMeant
<1>1. JkInv => WrittenAsMeant
  BY DEF JkInv
<1> QED
  BY <1>1, JkInvariant, PTL

(* Once the settings have proved unavailable no step asks for them again   *)
(* (jk.rs:19-22).                                                          *)
THEOREM UnavailableStays == Spec => AskedOnce
<1>1. JkInv /\ [Next]_vars => [cache = Unavailable => cache' = Unavailable]_vars
  BY StepInv DEF KeepsUnavailable
<1> QED
  BY <1>1, JkInvariant, PTL DEF Spec, AskedOnce
=============================================================================
