----------------------------- MODULE AnkerProofs -----------------------------
(***************************************************************************)
(* Theorems about an Anker Solix, for any values of the limits, any        *)
(* settings and any number of packets under way.  Typed is its type with   *)
(* the type of the call in progress.  Standing is what holds whatever gets *)
(* lost: who may have passed the gate, and what the client believes by     *)
(* where its call awaits.  Session is what holds while no answer can be    *)
(* taken for another's: what is under way is what the call in progress     *)
(* asked, stage by stage.  Fragmented is the order of telemetry's          *)
(* fragments, and what the fragmenter holds of them.                       *)
(***************************************************************************)
EXTENDS AnkerBattery, SequenceTheorems, TLAPS

-----------------------------------------------------------------------------
(* The pair of limits: what is cached and what was told change together,   *)
(* and both are kept field by field.                                       *)

PairInv ==
    /\ cache = [f \in Fields |-> cache[f]]
    /\ told = [f \in Fields |-> told[f]]
    /\ PairKnown

(* A client as it is made knows no limit.                                  *)
LEMMA NewPair ==
    ASSUME cache' = NewClient.cache, told' = NewClient.told
    PROVE  PairInv'
BY DEF NewClient, PairInv, PairKnown

LEMMA SamePair == PairInv /\ cache' = cache /\ told' = told => PairInv'
BY DEF PairInv, PairKnown

(* One limit is asked for, the other stays what it was: also when the pair *)
(* is not known and nothing is written.                                    *)
LEMMA AskedPair ==
    ASSUME PairInv, NEW what, BeginLimits(what)
    PROVE  PairInv'
<1> DEFINE pair == Limits(what.field, what.value)
<1>1. CASE cache' = cache /\ told' = told
  BY <1>1, SamePair
<1>2. CASE /\ cache' = pair
           /\ told' = [told EXCEPT ![what.field] = @ \cup {what.value}]
  <2>1. /\ cache' = [f \in Fields |-> cache'[f]]
        /\ told' = [f \in Fields |-> told'[f]]
    BY <1>2 DEF Limits, PairInv
  <2>2. ASSUME NEW f \in Fields PROVE cache'[f] \in told'[f] \cup {Unknown}
    <3>1. cache[f] \in told[f] \cup {Unknown}
      BY DEF PairInv, PairKnown
    <3>2. CASE f = what.field
      BY <1>2, <3>2 DEF Limits, PairInv
    <3>3. CASE f # what.field
      BY <1>2, <3>1, <3>3 DEF Limits, PairInv
    <3> QED
      BY <3>2, <3>3
  <2> QED
    BY <2>1, <2>2 DEF PairInv, PairKnown
<1> QED
  BY <1>1, <1>2 DEF BeginLimits

(* A whole message: its limits are cached and counted as told, or neither. *)
LEMMA HeardPair ==
    ASSUME PairInv, Hear
    PROVE  PairInv'
<1>1. CASE cache' = cache /\ told' = told
  BY <1>1, SamePair
<1>2. CASE \E f : /\ cache' = [g \in Fields |-> f.limits[g]]
                  /\ told' = [g \in Fields |-> told[g] \cup {f.limits[g]}]
  BY <1>2 DEF PairInv, PairKnown
<1> QED
  BY <1>1, <1>2 DEF Hear

LEMMA StepInv == PairInv /\ [Next]_vars => PairInv'
<1> SUFFICES ASSUME PairInv, [Next]_vars PROVE PairInv'
  OBVIOUS
<1>1. CASE UNCHANGED vars
  BY <1>1, SamePair DEF vars, cacheVars, historyVars
<1>2. CASE Connect \/ HangUp
  BY <1>2, NewPair DEF Connect, HangUp, ClientIs
<1>3. CASE Negotiate \/ NegotiateSecure \/ HandshakeGivenUp
  BY <1>3, SamePair DEF Negotiate, NegotiateSecure, HandshakeGivenUp, cacheVars, historyVars
<1>4. CASE Press \/ ServeHello \/ ServeGate \/ ServeWrite \/ ServeSubscribe \/ Ignore \/ Push
  BY <1>4, SamePair
  DEF Press, ServeHello, ServeGate, ServeWrite, ServeSubscribe, Ignore, Push, cacheVars,
      historyVars
<1>5. CASE Authenticate \/ GateKey \/ GateAuth \/ Bonded \/ GateSilent \/ Forget
  BY <1>5, SamePair
  DEF Authenticate, GateKey, GateAuth, Bonded, GateSilent, Forget, cacheVars, historyVars
<1>6. ASSUME NEW f \in Fields, NEW v \in Levels, SetLimit(f, v) PROVE PairInv'
  <2> DEFINE what == [for |-> "limit", field |-> f, value |-> v]
  <2>1. BeginLimits(what) \/ (cache' = cache /\ told' = told)
    BY <1>6 DEF SetLimit
  <2> QED
    BY <2>1, AskedPair, SamePair
<1>7. ASSUME NEW s \in Chosen, Set(s) PROVE PairInv'
  BY <1>7, SamePair DEF Set, cacheVars, historyVars
<1>8. ASSUME NEW id, Control(id) PROVE PairInv'
  BY <1>8, SamePair DEF Control, cacheVars, historyVars
<1>9. CASE Passed
  <2>1. BeginLimits(task) \/ (cache' = cache /\ told' = told)
    BY <1>9 DEF Passed
  <2> QED
    BY <2>1, AskedPair, SamePair
<1>10. CASE Skip \/ Acknowledged \/ WriteSilent
  BY <1>10, SamePair DEF Skip, Acknowledged, WriteSilent, cacheVars, historyVars
<1>11. CASE Follow \/ Unfollow \/ Overhear \/ ListenSilent
  BY <1>11, SamePair DEF Follow, Unfollow, Overhear, ListenSilent, cacheVars, historyVars
<1>12. CASE Hear
  BY <1>12, HeardPair
<1> QED
  BY <1>1, <1>2, <1>3, <1>4, <1>5, <1>6, <1>7, <1>8, <1>9, <1>10, <1>11, <1>12 DEF Next

(* Whatever failed before -- a gate, a write, a connection --, a limit is  *)
(* never written with a default or with the other station's value beside   *)
(* it (anker.rs:126-141).                                                  *)
THEOREM PairReported == Spec => []PairKnown
<1>1. Init => PairInv
  BY DEF Init, NewClient, PairInv, PairKnown
<1>2. PairInv => PairKnown
  BY DEF PairInv
<1> QED
  BY <1>1, <1>2, StepInv, PTL DEF Spec
-----------------------------------------------------------------------------
(* Types.                                                                  *)

Gating == pc \in {"gate_key", "gate_auth", "bond"}
LimitTasks == [for : {"limit"}, field : Fields, value : Levels]
SingleTasks == [for : {"single"}, setting : Chosen]

(* What the call in progress is for, by where it awaits.                   *)
TaskOK ==
    /\ pc = "hello" => task \in [for : {"connect"}, step : 1 .. Steps]
    /\ Gating => task \in [for : {"pair", "pair_again"}] \cup LimitTasks \cup SingleTasks
    /\ pc = "passed" => task \in LimitTasks \cup SingleTasks
    /\ pc \in {"ack_max", "ack_min"} => task \in [for : {"limits"}, pair : [Fields -> Levels]]
    /\ pc = "ack_single" => task \in SingleTasks

Typed == TypeOK /\ TaskOK

(* No write has the command of another frame.                              *)
LEMMA OpcodesApart ==
    /\ \A c \in {"4022", "4023", "4027", "4100", "hello", "plain"} : c \notin Opcodes
    /\ Opcode["soc_limit_max"] \in Opcodes
    /\ \A s \in Chosen : Opcode[s] \in Opcodes
<1>1. \A s \in LimitSettings \cup Singles : Opcode[s] \in {"4103", "4101", "4102", "4091"}
  BY DEF LimitSettings, Singles, FieldOf, Settable, Opcode
<1>2. Chosen \subseteq Singles
  BY AnkerAssumption
<1>3. \A c \in Opcodes : c \in {"4103", "4101", "4102", "4091"}
  BY <1>1, <1>2 DEF Opcodes
<1>4. Opcode["soc_limit_max"] \in Opcodes /\ \A s \in Chosen : Opcode[s] \in Opcodes
  BY DEF Opcodes, LimitSettings
<1>5. QED
  BY <1>3, <1>4

(* What is sent and what is received are what they should be.              *)
LEMMA FramesTyped ==
    /\ \A c \in {"4022", "4023", "4027", "4100"} : Gate(c) \in Requests
    /\ \A n \in 1 .. Steps + 1 : Hello(n) \in Requests
    /\ \A f \in Fields, v \in Levels : Write(f, v) \in Requests
    /\ \A s \in Chosen : Single(s) \in Requests
    /\ Plain \in Requests
    /\ \A n \in 1 .. Steps : Reply(n) \in Packets
    /\ \A code \in {"ok", "unbound"} : Status(code) \in Packets
    /\ \A c \in Opcodes : Ack(c) \in Packets
<1>1. \A s \in Chosen : Single(s) \in Requests
  BY OpcodesApart DEF Single, Requests
<1>2. \A f \in Fields, v \in Levels : Write(f, v) \in Requests
  BY OpcodesApart DEF Write, Requests
<1>3. QED
  BY <1>1, <1>2 DEF Gate, Hello, Plain, Requests, Reply, Status, Ack, Packets

(* The first of a row is taken off it, or one more is put behind it.       *)
LEMMA RowOfRequests ==
    ASSUME TypeOK
    PROVE  /\ Len(requests) \in Nat
           /\ \A r \in Requests : Append(requests, r) \in Seq(Requests)
           /\ requests # <<>> => Tail(requests) \in Seq(Requests) /\ Head(requests) \in Requests
BY DEF TypeOK

LEMMA RowOfPackets ==
    ASSUME TypeOK
    PROVE  /\ Len(line) \in Nat
           /\ \A p \in Packets : Append(line, p) \in Seq(Packets)
           /\ line # <<>> => Tail(line) \in Seq(Packets) /\ Head(line) \in Packets
BY DEF TypeOK

LEMMA TypedStart == Init => Typed
<1> SUFFICES ASSUME Init PROVE Typed
  OBVIOUS
<1>1. <<>> \in Seq(Requests) /\ <<>> \in Seq(Packets)
  OBVIOUS
<1>2. TypeOK
  <2>1. /\ cache \in [Fields -> Levels \cup {Unknown}] /\ authed = FALSE /\ serial = FALSE
        /\ resubscribe = 0 /\ frags = {} /\ applied = TRUE /\ skipped = 0
    BY DEF Init, NewClient
  <2>2. resubscribe \in 0 .. Owed
    BY <2>1, AnkerAssumption
  <2>3. /\ {linked, bond, button, gated, subscribed, stray} \subseteq BOOLEAN
        /\ gen \in Models /\ limits \in [Fields -> Levels] /\ messages = 0
        /\ requests = <<>> /\ line = <<>> /\ pc = "off"
        /\ creds \subseteq {"model", "serial"}
    BY DEF Init
  <2>4. gen \in Models
    BY <2>3
  <2>5. {linked, bond, button, gated, subscribed, authed, serial, stray, applied} \subseteq BOOLEAN
    BY <2>1, <2>3
  <2>6. limits \in [Fields -> Levels] /\ messages \in Nat
    BY <2>3
  <2>7. requests \in Seq(Requests) /\ line \in Seq(Packets)
    BY <1>1, <2>3
  <2>8. frags \subseteq Fragments /\ skipped \in 0 .. 2
    BY <2>1
  <2>9. /\ pc \in {"off", "hello", "idle", "gate_key", "gate_auth", "bond", "passed",
                   "ack_max", "ack_min", "ack_single", "stream", "status"}
        /\ pc # "off" => linked
    BY <2>3
  <2>10. QED
    BY <2>1, <2>2, <2>3, <2>4, <2>5, <2>6, <2>7, <2>8, <2>9 DEF TypeOK
<1>3. TaskOK
  BY DEF Init, TaskOK, Gating
<1>4. QED
  BY <1>2, <1>3 DEF Typed

(* The station's steps.                                                    *)
LEMMA StationMoved ==
    ASSUME Typed,
           UNCHANGED <<gen, linked, pc, task, cacheVars, frags, applied, stray, skipped>>,
           {bond', button', gated', subscribed'} \subseteq BOOLEAN,
           limits' \in [Fields -> Levels], messages' \in Nat,
           requests' \in Seq(Requests), line' \in Seq(Packets)
    PROVE  Typed'
BY DEF Typed, TypeOK, TaskOK, Gating, cacheVars

LEMMA StationTyped ==
    ASSUME Typed, Press \/ ServeHello \/ ServeGate \/ ServeWrite \/ ServeSubscribe \/ Ignore \/ Push
    PROVE  Typed'
<1>1. /\ {bond, button, gated, subscribed} \subseteq BOOLEAN
      /\ limits \in [Fields -> Levels] /\ messages \in Nat
      /\ requests \in Seq(Requests) /\ line \in Seq(Packets)
      /\ Len(requests) \in Nat /\ Len(line) \in Nat
      /\ requests # <<>> => Tail(requests) \in Seq(Requests) /\ Head(requests) \in Requests
      /\ \A p \in Packets : Append(line, p) \in Seq(Packets)
  BY RowOfRequests, RowOfPackets DEF Typed, TypeOK
<1>2. UNCHANGED <<gen, linked, pc, task, cacheVars, frags, applied, stray, skipped>>
  BY DEF Press, ServeHello, ServeGate, ServeWrite, ServeSubscribe, Ignore, Push, stationVars,
         historyVars
<1>3. CASE Press
  BY <1>1, <1>2, <1>3, StationMoved DEF Press
<1>4. CASE ServeHello
  <2> DEFINE n == Head(requests).step
  <2>1. n \in 1 .. Steps + 1
    <3>1. Head(requests) \in Requests /\ Head(requests).cmd = "hello"
      BY <1>1, <1>4 DEF ServeHello
    <3>2. QED
      BY <3>1, OpcodesApart DEF Requests, Plain
  <2>2. n <= Steps => Reply(n) \in Packets
    BY <2>1, FramesTyped DEF Steps
  <2>3. /\ line' \in Seq(Packets) /\ requests' \in Seq(Requests)
        /\ gated' \in BOOLEAN /\ subscribed' \in BOOLEAN
        /\ UNCHANGED <<bond, button, limits, messages>>
    BY <1>1, <1>4, <2>1, <2>2 DEF ServeHello
  <2>4. QED
    BY <1>1, <1>2, <2>3, StationMoved
<1>5. CASE ServeGate
  <2>1. /\ line' \in Seq(Packets) /\ requests' \in Seq(Requests)
        /\ UNCHANGED <<button, subscribed, limits, messages>>
    BY <1>1, <1>5, FramesTyped DEF ServeGate
  <2>2. bond' \in BOOLEAN /\ gated' \in BOOLEAN
    BY <1>1, <1>5 DEF ServeGate
  <2>3. QED
    BY <1>1, <1>2, <2>1, <2>2, StationMoved
<1>6. CASE ServeWrite
  <2>1. /\ line' \in Seq(Packets) /\ requests' \in Seq(Requests) /\ subscribed' \in BOOLEAN
        /\ UNCHANGED <<bond, button, gated, messages>>
    BY <1>1, <1>6, FramesTyped DEF ServeWrite
  <2>2. limits' \in [Fields -> Levels]
    <3>1. CASE "field" \in DOMAIN Head(requests)
      <4>1. Head(requests) \in [cmd : Opcodes, field : Fields, value : Levels]
        BY <1>1, <1>6, <3>1 DEF ServeWrite, Requests, Plain
      <4>2. QED
        BY <1>1, <1>6, <3>1, <4>1 DEF ServeWrite
    <3>2. CASE "field" \notin DOMAIN Head(requests)
      BY <1>1, <1>6, <3>2 DEF ServeWrite
    <3>3. QED
      BY <3>1, <3>2
  <2>3. QED
    BY <1>1, <1>2, <2>1, <2>2, StationMoved
<1>7. CASE ServeSubscribe
  BY <1>1, <1>2, <1>7, StationMoved DEF ServeSubscribe
<1>8. CASE Ignore
  BY <1>1, <1>2, <1>8, StationMoved DEF Ignore, stationVars
<1>9. CASE Push
  <2>1. Fragment(1, messages + 1) \in Packets /\ Fragment(2, messages + 1) \in Packets
    BY <1>1 DEF Fragment, Packets, Fragments
  <2>2. line' \in Seq(Packets)
    <3> DEFINE two == <<Fragment(1, messages + 1), Fragment(2, messages + 1)>>
    <3>1. two \in Seq(Packets) /\ line' = line \o two
      BY <1>9, <2>1 DEF Push
    <3> HIDE DEF two
    <3>2. QED
      BY <1>1, <3>1
  <2>3. messages' \in Nat /\ UNCHANGED <<bond, button, gated, subscribed, limits, requests>>
    BY <1>1, <1>9 DEF Push
  <2>4. QED
    BY <1>1, <1>2, <2>2, <2>3, StationMoved
<1>10. QED
  BY <1>3, <1>4, <1>5, <1>6, <1>7, <1>8, <1>9

(* The client's steps.                                                     *)
Places == {"off", "hello", "idle", "gate_key", "gate_auth", "bond", "passed",
           "ack_max", "ack_min", "ack_single", "stream", "status"}

LEMMA ClientMoved ==
    ASSUME Typed, TaskOK',
           UNCHANGED <<gen, bond, button, limits, messages>>,
           {linked', gated', subscribed', authed', serial', stray', applied'} \subseteq BOOLEAN,
           pc' \in Places, pc' # "off" => linked' = TRUE,
           requests' \in Seq(Requests), line' \in Seq(Packets), frags' \subseteq Fragments,
           cache' \in [Fields -> Levels \cup {Unknown}], resubscribe' \in 0 .. Owed,
           creds' \subseteq {"model", "serial"}, skipped' \in 0 .. 2
    PROVE  Typed'
BY DEF Typed, TypeOK, Places

LEMMA PartsTyped ==
    ASSUME Typed
    PROVE  /\ {linked, bond, button, gated, subscribed, authed, serial, stray, applied}
                 \subseteq BOOLEAN
           /\ pc \in Places /\ (pc # "off" => linked = TRUE)
           /\ frags \subseteq Fragments
           /\ cache \in [Fields -> Levels \cup {Unknown}] /\ resubscribe \in 0 .. Owed
           /\ creds \subseteq {"model", "serial"} /\ skipped \in 0 .. 2
           /\ requests \in Seq(Requests) /\ line \in Seq(Packets)
           /\ \A r \in Requests : Append(requests, r) \in Seq(Requests)
           /\ line # <<>> => Tail(line) \in Seq(Packets) /\ Head(line) \in Packets
BY RowOfRequests, RowOfPackets DEF Typed, TypeOK, Places

LEMMA SkippedTyped ==
    ASSUME Typed, NEW packet, PassedOver(packet)
    PROVE  skipped' \in 0 .. 2
BY PartsTyped DEF PassedOver

LEMMA LinkTyped ==
    ASSUME Typed, Connect \/ HangUp
    PROVE  Typed'
<1>1. /\ authed' = FALSE /\ serial' = FALSE /\ applied' = TRUE
      /\ cache' = [f \in Fields |-> Unknown] /\ resubscribe' = 0 /\ frags' = {} /\ skipped' = 0
      /\ line' = <<>> /\ creds' = creds
      /\ UNCHANGED <<gen, bond, button, limits, messages>>
  BY DEF Connect, HangUp, ClientIs, NewClient
<1>2. /\ frags' \subseteq Fragments /\ cache' \in [Fields -> Levels \cup {Unknown}]
      /\ resubscribe' \in 0 .. Owed /\ skipped' \in 0 .. 2 /\ line' \in Seq(Packets)
      /\ {authed', serial', applied'} \subseteq BOOLEAN /\ creds' \subseteq {"model", "serial"}
  <2>1. resubscribe' \in 0 .. Owed /\ skipped' \in 0 .. 2
    BY <1>1, AnkerAssumption
  <2>2. cache' \in [Fields -> Levels \cup {Unknown}] /\ frags' \subseteq Fragments
    BY <1>1
  <2>3. line' \in Seq(Packets)
    <3>1. <<>> \in Seq(Packets)
      OBVIOUS
    <3>2. QED
      BY <1>1, <3>1
  <2>6. authed' \in BOOLEAN /\ serial' \in BOOLEAN /\ applied' \in BOOLEAN
    BY <1>1
  <2>4. creds' \subseteq {"model", "serial"}
    BY <1>1, PartsTyped
  <2>5. QED
    BY <2>1, <2>2, <2>3, <2>4, <2>6
<1>3. CASE Connect
  <2>1. /\ linked' = TRUE /\ pc' = "hello" /\ task' = [for |-> "connect", step |-> 1]
        /\ requests' = Append(requests, Hello(1)) /\ stray' \in BOOLEAN
        /\ gated' = gated /\ subscribed' = subscribed
    BY <1>3 DEF Connect, Send
  <2>2. TaskOK'
    BY <2>1 DEF TaskOK, Gating, Steps
  <2>3. requests' \in Seq(Requests)
    BY <2>1, PartsTyped, FramesTyped DEF Steps
  <2>4. pc' \in Places
    BY <2>1 DEF Places
  <2>5. QED
    BY <1>1, <1>2, <2>1, <2>2, <2>3, <2>4, ClientMoved, PartsTyped
<1>4. CASE HangUp
  <2>1. /\ linked' = FALSE /\ gated' = FALSE /\ subscribed' = FALSE /\ requests' = <<>>
        /\ pc' = "off" /\ stray' = FALSE
    BY <1>4 DEF HangUp, Abandoned
  <2>2. TaskOK'
    BY <2>1 DEF TaskOK, Gating
  <2>3. requests' \in Seq(Requests) /\ pc' \in Places
    BY <2>1 DEF Places
  <2>4. QED
    BY <1>1, <1>2, <2>1, <2>2, <2>3, ClientMoved
<1>5. QED
  BY <1>3, <1>4

LEMMA HandshakeTyped ==
    ASSUME Typed, Negotiate \/ NegotiateSecure \/ HandshakeGivenUp
    PROVE  Typed'
<1>1. UNCHANGED <<stationVars, cacheVars, frags, historyVars, stray>> /\ pc = "hello"
  BY DEF Negotiate, NegotiateSecure, HandshakeGivenUp, Answered
<1>2. task \in [for : {"connect"}, step : 1 .. Steps]
  BY <1>1 DEF Typed, TaskOK
<1>3. skipped' \in 0 .. 2
  BY SkippedTyped, PartsTyped DEF Negotiate, NegotiateSecure, HandshakeGivenUp, Answered
<1>4. line' \in Seq(Packets)
  BY PartsTyped DEF Negotiate, NegotiateSecure, HandshakeGivenUp, Answered
<1>5. \/ \E n \in 1 .. Steps : NextStep(n)
      \/ requests' = requests /\ pc' = pc /\ task' = task
      \/ Abandoned /\ requests' = requests
      \/ \E r \in Requests : Send(r) /\ Return
  <2>1. CASE Negotiate
    <3>1. PICK packet \in {line[i] : i \in DOMAIN line} :
             /\ Answered(packet)
             /\ IF packet.type # "hello"
                  THEN UNCHANGED <<requests, pc, task>>
                  ELSE IF packet.step < Steps
                    THEN NextStep(packet.step + 1)
                    ELSE Send(Hello(Steps + 1)) /\ Return
      BY <2>1 DEF Negotiate
    <3>2. packet \in Packets
      BY <3>1, PartsTyped
    <3>3. CASE packet.type # "hello"
      BY <3>1, <3>3
    <3>4. CASE packet.type = "hello"
      <4>1. packet.step \in 1 .. Steps
        BY <3>2, <3>4 DEF Packets, Fragments
      <4>2. Hello(Steps + 1) \in Requests
        BY FramesTyped DEF Steps
      <4>3. QED
        BY <3>1, <3>4, <4>1, <4>2 DEF Steps
    <3>5. QED
      BY <3>3, <3>4
  <2>2. CASE NegotiateSecure
    <3>1. task.step \in 1 .. Steps /\ Gate("4100") \in Requests
      BY <1>2, FramesTyped
    <3>2. QED
      BY <2>2, <3>1 DEF NegotiateSecure, Steps
  <2>3. CASE HandshakeGivenUp
    BY <2>3 DEF HandshakeGivenUp
  <2>4. QED
    BY <2>1, <2>2, <2>3
<1>6. /\ requests' \in Seq(Requests) /\ pc' \in {"hello", "off", "idle"}
      /\ pc' = "hello" => task' \in [for : {"connect"}, step : 1 .. Steps]
  <2>1. CASE \E n \in 1 .. Steps : NextStep(n)
    <3>1. PICK n \in 1 .. Steps : NextStep(n)
      BY <2>1
    <3>2. Hello(n) \in Requests
      BY FramesTyped DEF Steps
    <3>3. requests' = Append(requests, Hello(n)) /\ pc' = pc /\ task' = [task EXCEPT !.step = n]
      BY <3>1 DEF NextStep, Send
    <3>4. QED
      BY <1>1, <1>2, <3>2, <3>3, PartsTyped
  <2>2. CASE requests' = requests /\ pc' = pc /\ task' = task
    BY <1>1, <1>2, <2>2, PartsTyped
  <2>3. CASE Abandoned /\ requests' = requests
    BY <2>3, PartsTyped DEF Abandoned
  <2>4. CASE \E r \in Requests : Send(r) /\ Return
    BY <2>4, PartsTyped DEF Send, Return
  <2>5. QED
    BY <1>5, <2>1, <2>2, <2>3, <2>4
<1>7. TaskOK' /\ pc' \in Places
  BY <1>6 DEF TaskOK, Gating, Places
<1>8. /\ linked' = linked /\ linked = TRUE
      /\ UNCHANGED <<gen, bond, button, limits, messages, gated, subscribed, authed, serial,
                     applied, stray, frags, cache, resubscribe, creds>>
  BY <1>1, PartsTyped DEF stationVars, cacheVars, historyVars
<1>9. QED
  BY <1>3, <1>4, <1>6, <1>7, <1>8, ClientMoved, PartsTyped

(* A pair of limits is written when both are known.                        *)
LEMMA LimitsBegun ==
    ASSUME Typed, NEW what \in LimitTasks, BeginLimits(what)
    PROVE  \/ requests' = requests /\ pc' = "idle" /\ cache' = cache
           \/ \E pair \in [Fields -> Levels] :
                /\ requests' = Append(requests, Write("max", pair["max"]))
                /\ pc' = "ack_max"
                /\ task' = [for |-> "limits", pair |-> pair]
                /\ cache' = pair
<1> DEFINE pair == Limits(what.field, what.value)
<1>1. what.field \in Fields /\ what.value \in Levels
  BY DEF LimitTasks
<1>2. pair \in [Fields -> Levels \cup {Unknown}]
  BY <1>1, PartsTyped DEF Limits
<1>3. CASE Unknown \in {pair[f] : f \in Fields}
  BY <1>3 DEF BeginLimits, Return
<1>4. CASE Unknown \notin {pair[f] : f \in Fields}
  <2>1. /\ requests' = Append(requests, Write("max", pair["max"])) /\ pc' = "ack_max"
        /\ task' = [for |-> "limits", pair |-> pair] /\ cache' = pair
    BY <1>4 DEF BeginLimits, Send
  <2>2. pair \in [Fields -> Levels]
    BY <1>2, <1>4
  <2> HIDE DEF pair
  <2>3. QED
    BY <2>1, <2>2
<1>5. QED
  BY <1>3, <1>4

(* What a call sends, and where it awaits then, whatever it is for.        *)
LEMMA BeginTyped ==
    ASSUME Typed, NEW what,
           \/ what \in LimitTasks /\ BeginLimits(what)
           \/ what \in SingleTasks /\ BeginSingle(what) /\ UNCHANGED cache
    PROVE  /\ requests' \in Seq(Requests) /\ TaskOK'
           /\ pc' \in {"idle", "ack_max", "ack_single"}
           /\ cache' \in [Fields -> Levels \cup {Unknown}]
<1>1. CASE what \in SingleTasks /\ BeginSingle(what) /\ UNCHANGED cache
  <2>1. /\ requests' = Append(requests, Single(what.setting)) /\ pc' = "ack_single"
        /\ task' = what /\ cache' = cache /\ what.setting \in Chosen
    BY <1>1 DEF BeginSingle, Send, SingleTasks
  <2>2. TaskOK'
    BY <1>1, <2>1 DEF TaskOK, Gating, SingleTasks
  <2>3. QED
    BY <2>1, <2>2, FramesTyped, PartsTyped
<1>2. CASE what \in LimitTasks /\ BeginLimits(what)
  <2>1. CASE requests' = requests /\ pc' = "idle" /\ cache' = cache
    BY <2>1, PartsTyped DEF TaskOK, Gating
  <2>2. ASSUME NEW pair \in [Fields -> Levels],
               requests' = Append(requests, Write("max", pair["max"])), pc' = "ack_max",
               task' = [for |-> "limits", pair |-> pair], cache' = pair
        PROVE  /\ requests' \in Seq(Requests) /\ TaskOK'
               /\ cache' \in [Fields -> Levels \cup {Unknown}]
    <3>1. Write("max", pair["max"]) \in Requests
      BY FramesTyped DEF Fields
    <3>2. TaskOK'
      BY <2>2 DEF TaskOK, Gating
    <3>3. QED
      BY <2>2, <3>1, <3>2, PartsTyped
  <2>3. QED
    BY <1>2, <2>1, <2>2, LimitsBegun
<1>3. QED
  BY <1>1, <1>2

LEMMA EnterTyped ==
    ASSUME Typed, NEW what \in [for : {"pair", "pair_again"}] \cup LimitTasks \cup SingleTasks,
           EnterGate(what)
    PROVE  /\ requests' \in Seq(Requests) /\ TaskOK' /\ pc' = "gate_key" /\ stray' \in BOOLEAN
<1>1. /\ requests' = Append(requests, Gate("4022")) /\ pc' = "gate_key" /\ task' = what
      /\ stray' = (stray \/ subscribed \/ line # <<>>)
  BY DEF EnterGate, Send
<1>2. TaskOK'
  BY <1>1 DEF TaskOK, Gating
<1>3. requests' \in Seq(Requests)
  BY <1>1, FramesTyped, PartsTyped
<1>4. QED
  BY <1>1, <1>2, <1>3

(* The gate, the bond and the userId.                                      *)
LEMMA GateTyped ==
    ASSUME Typed, Authenticate \/ GateKey \/ GateAuth \/ Bonded \/ GateSilent \/ Forget
    PROVE  Typed'
<1>1. /\ UNCHANGED <<stationVars, cache, resubscribe, serial, frags, applied>>
      /\ pc # "off"
  BY DEF Authenticate, GateKey, GateAuth, Bonded, GateSilent, Forget, MayCall, cacheVars,
         historyVars
<1>2. UNCHANGED <<gen, bond, button, limits, messages, linked, gated, subscribed>>
  BY <1>1 DEF stationVars
<1>3. line' \in Seq(Packets) /\ skipped' \in 0 .. 2
  BY PartsTyped, SkippedTyped
  DEF Authenticate, GateKey, GateAuth, Bonded, GateSilent, Forget
<1>4. stray' \in BOOLEAN /\ authed' \in BOOLEAN /\ creds' \subseteq {"model", "serial"}
  <2>1. CASE Authenticate
    BY <2>1, PartsTyped DEF Authenticate, EnterGate, cacheVars
  <2>2. CASE GateKey \/ Bonded \/ GateSilent
    BY <2>2, PartsTyped DEF GateKey, Bonded, GateSilent, cacheVars
  <2>3. CASE GateAuth
    BY <2>3, PartsTyped DEF GateAuth, Pass, Refuse, CredKey
  <2>4. CASE Forget
    BY <2>4, PartsTyped DEF Forget
  <2>5. QED
    BY <2>1, <2>2, <2>3, <2>4
<1>5. Gating => task \in [for : {"pair", "pair_again"}] \cup LimitTasks \cup SingleTasks
  BY DEF Typed, TaskOK
<1>6. requests' \in Seq(Requests) /\ TaskOK' /\ pc' \in Places
  <2>1. CASE Authenticate
    <3>1. [for |-> "pair"] \in [for : {"pair", "pair_again"}] /\ EnterGate([for |-> "pair"])
      BY <2>1 DEF Authenticate
    <3>2. QED
      BY <3>1, EnterTyped DEF Places
  <2>2. CASE GateKey
    <3>1. requests' = Append(requests, Gate("4027")) /\ pc' = "gate_auth" /\ task' = task
      BY <2>2 DEF GateKey, Send
    <3>2. TaskOK'
      BY <1>5, <2>2, <3>1 DEF TaskOK, Gating, GateKey
    <3>3. QED
      BY <3>1, <3>2, FramesTyped, PartsTyped DEF Places
  <2>3. CASE GateAuth
    <3>1. task \in [for : {"pair", "pair_again"}] \cup LimitTasks \cup SingleTasks
      BY <1>5, <2>3 DEF GateAuth, Gating
    <3>2. CASE Pass
      <4>1. /\ requests' = Append(requests, Gate("4100"))
            /\ \/ pc' = "idle"
               \/ pc' = "passed" /\ task' = task /\ task.for \notin {"pair", "pair_again"}
        BY <3>2 DEF Pass, Send, Return
      <4>2. TaskOK'
        BY <3>1, <4>1 DEF TaskOK, Gating
      <4>3. QED
        BY <4>1, <4>2, FramesTyped, PartsTyped DEF Places
    <3>3. CASE Refuse
      <4>1. \/ requests' = Append(requests, Gate("4023")) /\ pc' = "bond" /\ task' = task
            \/ requests' = requests /\ pc' = "idle"
        BY <3>3 DEF Refuse, Send, Return
      <4>2. TaskOK'
        BY <3>1, <4>1 DEF TaskOK, Gating
      <4>3. QED
        BY <4>1, <4>2, FramesTyped, PartsTyped DEF Places
    <3>4. QED
      BY <2>3, <3>2, <3>3 DEF GateAuth
  <2>4. CASE Bonded
    <3>1. /\ requests' = Append(requests, Gate("4022")) /\ pc' = "gate_key"
          /\ task' = [for |-> "pair_again"]
      BY <2>4 DEF Bonded, Send
    <3>2. TaskOK'
      BY <3>1 DEF TaskOK, Gating
    <3>3. QED
      BY <3>1, <3>2, FramesTyped, PartsTyped DEF Places
  <2>5. CASE GateSilent
    <3>1. requests' = requests /\ pc' = "idle"
      BY <2>5 DEF GateSilent, Return
    <3>2. QED
      BY <3>1, PartsTyped DEF TaskOK, Gating, Places
  <2>6. CASE Forget
    BY <2>6, PartsTyped DEF Forget, Typed, TaskOK, Gating, Places
  <2>7. QED
    BY <2>1, <2>2, <2>3, <2>4, <2>5, <2>6
<1>7. QED
  BY <1>1, <1>2, <1>3, <1>4, <1>6, ClientMoved, PartsTyped

(* Writes.                                                                 *)
LEMMA ExecuteTyped ==
    ASSUME Typed,
           \/ \E f \in Fields, v \in Levels : SetLimit(f, v)
           \/ \E s \in Chosen : Set(s)
           \/ \E id \in {"ac", "dc", "light", "display"} : Control(id)
           \/ Passed
    PROVE  Typed'
<1>1. /\ UNCHANGED <<stationVars, authed, resubscribe, serial, creds, frags, applied, skipped>>
      /\ line' = line /\ pc # "off"
  BY DEF SetLimit, Set, Control, Passed, MayCall, cacheVars, historyVars
<1>2. UNCHANGED <<gen, bond, button, limits, messages, linked, gated, subscribed>>
  BY <1>1 DEF stationVars
<1> DEFINE Good == /\ requests' \in Seq(Requests) /\ TaskOK' /\ pc' \in Places
                   /\ cache' \in [Fields -> Levels \cup {Unknown}] /\ stray' \in BOOLEAN
<1>3. Good
  <2>1. ASSUME NEW f \in Fields, NEW v \in Levels, SetLimit(f, v) PROVE Good
    <3> DEFINE what == [for |-> "limit", field |-> f, value |-> v]
    <3>1. what \in LimitTasks
      BY DEF LimitTasks
    <3>2. \/ BeginLimits(what) /\ stray' = stray
          \/ EnterGate(what) /\ cache' = cache
      BY <2>1 DEF SetLimit
    <3> HIDE DEF what
    <3>3. CASE BeginLimits(what) /\ stray' = stray
      BY <3>1, <3>3, BeginTyped, PartsTyped DEF Places
    <3>4. CASE EnterGate(what) /\ cache' = cache
      BY <3>1, <3>4, EnterTyped, PartsTyped DEF Places
    <3>5. QED
      BY <3>2, <3>3, <3>4
  <2>2. ASSUME NEW s \in Chosen, Set(s) PROVE Good
    <3> DEFINE what == [for |-> "single", setting |-> s]
    <3>1. what \in SingleTasks
      BY DEF SingleTasks
    <3>2. \/ BeginSingle(what) /\ stray' = stray /\ cache' = cache
          \/ EnterGate(what) /\ cache' = cache
      BY <2>2 DEF Set, cacheVars
    <3> HIDE DEF what
    <3>3. CASE BeginSingle(what) /\ stray' = stray /\ cache' = cache
      BY <3>1, <3>3, BeginTyped, PartsTyped DEF Places
    <3>4. CASE EnterGate(what) /\ cache' = cache
      BY <3>1, <3>4, EnterTyped, PartsTyped DEF Places
    <3>5. QED
      BY <3>2, <3>3, <3>4
  <2>3. ASSUME NEW id, Control(id) PROVE Good
    <3>1. requests' = Append(requests, Plain) /\ UNCHANGED <<pc, task, cache, stray>>
      BY <2>3 DEF Control, Send, cacheVars
    <3>2. TaskOK'
      BY <3>1 DEF Typed, TaskOK, Gating
    <3>3. QED
      BY <3>1, <3>2, FramesTyped, PartsTyped
  <2>4. CASE Passed
    <3>1. task \in LimitTasks \cup SingleTasks /\ stray' = stray
      BY <2>4 DEF Passed, Typed, TaskOK
    <3>2. \/ task \in LimitTasks /\ BeginLimits(task)
          \/ task \in SingleTasks /\ BeginSingle(task) /\ UNCHANGED cache
          \/ Return /\ requests' = requests /\ cache' = cache
      BY <2>4, <3>1 DEF Passed, LimitTasks, SingleTasks
    <3>3. CASE \/ task \in LimitTasks /\ BeginLimits(task)
               \/ task \in SingleTasks /\ BeginSingle(task) /\ UNCHANGED cache
      BY <3>1, <3>3, BeginTyped, PartsTyped DEF Places
    <3>4. CASE Return /\ requests' = requests /\ cache' = cache
      BY <3>1, <3>4, PartsTyped DEF Return, TaskOK, Gating, Places
    <3>5. QED
      BY <3>2, <3>3, <3>4
  <2>5. QED
    BY <2>1, <2>2, <2>3, <2>4
<1>4. QED
  BY <1>1, <1>2, <1>3, ClientMoved, PartsTyped

LEMMA WriteTyped ==
    ASSUME Typed, Skip \/ Acknowledged \/ WriteSilent
    PROVE  Typed'
<1>1. /\ UNCHANGED <<stationVars, authed, cache, serial, creds, frags>>
      /\ Writing
  BY DEF Skip, Acknowledged, WriteSilent, cacheVars
<1>2. UNCHANGED <<gen, bond, button, limits, messages, linked, gated, subscribed>>
  BY <1>1 DEF stationVars
<1>3. line' \in Seq(Packets) /\ skipped' \in 0 .. 2
  BY PartsTyped, SkippedTyped DEF Skip, Acknowledged, WriteSilent
<1>4. /\ stray' \in BOOLEAN /\ applied' \in BOOLEAN /\ resubscribe' \in 0 .. Owed
  <2>1. CASE Skip
    BY <2>1, PartsTyped DEF Skip, cacheVars, historyVars
  <2>2. CASE Acknowledged
    <3>1. resubscribe' \in {resubscribe, Owed} /\ stray' = stray
      BY <2>2 DEF Acknowledged
    <3>2. applied' \in BOOLEAN
      BY <2>2, PartsTyped DEF Acknowledged
    <3>3. Owed \in 0 .. Owed
      BY AnkerAssumption
    <3>4. QED
      BY <3>1, <3>2, <3>3, PartsTyped
  <2>3. CASE WriteSilent
    <3>1. resubscribe' = Owed /\ stray' = TRUE /\ applied' = applied
      BY <2>3 DEF WriteSilent, historyVars
    <3>2. Owed \in 0 .. Owed
      BY AnkerAssumption
    <3>3. QED
      BY <3>1, <3>2, PartsTyped
  <2>4. QED
    BY <2>1, <2>2, <2>3
<1>5. requests' \in Seq(Requests) /\ TaskOK' /\ pc' \in Places
  <2>1. CASE UNCHANGED <<requests, pc, task>>
    BY <2>1, PartsTyped DEF Typed, TaskOK, Gating
  <2>2. CASE Return /\ requests' = requests
    BY <2>2, PartsTyped DEF Return, TaskOK, Gating, Places
  <2>3. CASE pc = "ack_max" /\ Acknowledged
    <3>1. /\ requests' = Append(requests, Write("min", task.pair["min"])) /\ pc' = "ack_min"
          /\ task' = task
      BY <2>3 DEF Acknowledged, Send
    <3>2. task \in [for : {"limits"}, pair : [Fields -> Levels]]
      BY <2>3 DEF Typed, TaskOK
    <3>3. Write("min", task.pair["min"]) \in Requests
      BY <3>2, FramesTyped DEF Fields
    <3>4. TaskOK'
      BY <3>1, <3>2 DEF TaskOK, Gating
    <3>5. QED
      BY <3>1, <3>3, <3>4, PartsTyped DEF Places
  <2>4. QED
    BY <2>1, <2>2, <2>3 DEF Skip, Acknowledged, WriteSilent
<1>6. QED
  BY <1>1, <1>2, <1>3, <1>4, <1>5, ClientMoved, PartsTyped DEF Writing

(* Telemetry.                                                              *)
LEMMA CollectedFrom == \A f \in Fragments : Typed => Collected(f) \subseteq Fragments
BY PartsTyped DEF Collected

LEMMA ListenTyped ==
    ASSUME Typed, Follow \/ Unfollow \/ Hear \/ Overhear \/ ListenSilent
    PROVE  Typed'
<1>1. /\ UNCHANGED <<stationVars, task, authed, creds, applied, stray, skipped>>
      /\ pc # "off"
  BY DEF Follow, Unfollow, Hear, Overhear, ListenSilent, MayCall, Listening, cacheVars, historyVars
<1>2. UNCHANGED <<gen, bond, button, limits, messages, linked, gated, subscribed>>
  BY <1>1 DEF stationVars
<1>3. line' \in Seq(Packets)
  BY PartsTyped DEF Follow, Unfollow, Hear, Overhear, ListenSilent
<1>4. TaskOK' /\ pc' \in Places
  <2>1. pc' \in {"idle", "stream", "status"}
    BY DEF Follow, Unfollow, Hear, Overhear, ListenSilent, Listening
  <2>2. QED
    BY <2>1 DEF TaskOK, Gating, Places
<1>5. requests' \in Seq(Requests) /\ resubscribe' \in 0 .. Owed
  <2>1. CASE ListenSilent
    <3>1. \/ /\ resubscribe' = resubscribe - 1 /\ resubscribe > 0
             /\ requests' = Append(requests, Gate("4100"))
          \/ resubscribe' = resubscribe /\ requests' = requests
      BY <2>1 DEF ListenSilent, Send
    <3>2. requests' \in Seq(Requests)
      BY <3>1, PartsTyped, FramesTyped
    <3>3. resubscribe \in 0 .. Owed /\ Owed \in Nat
      BY PartsTyped, AnkerAssumption
    <3>4. resubscribe' \in 0 .. Owed
      BY <3>1, <3>3
    <3>5. QED
      BY <3>2, <3>4
  <2>2. CASE Follow \/ Unfollow \/ Hear \/ Overhear
    BY <2>2, PartsTyped DEF Follow, Unfollow, Hear, Overhear, cacheVars
  <2>3. QED
    BY <2>1, <2>2
<1>6. /\ frags' \subseteq Fragments /\ serial' \in BOOLEAN
      /\ cache' \in [Fields -> Levels \cup {Unknown}]
  <2>1. CASE Hear
    <3> DEFINE all == Collected(Head(line))
    <3>1. Head(line) \in Fragments
      BY <2>1, PartsTyped DEF Hear, Packets
    <3>2. all \subseteq Fragments
      BY <3>1, CollectedFrom
    <3>3. frags' \in {all, {}}
      BY <2>1 DEF Hear
    <3>4. serial' \in BOOLEAN
      <4> DEFINE known == "serial_number" \in Filled(gen, Params(gen))
      <4>1. serial' = serial \/ serial' = known
        <5>1. CASE {f.index : f \in all} # {1, 2}
          BY <2>1, <5>1 DEF Hear
        <5>2. CASE {f.index : f \in all} = {1, 2}
          BY <2>1, <5>2 DEF Hear
        <5>3. QED
          BY <5>1, <5>2
      <4>2. known \in BOOLEAN
        OBVIOUS
      <4>3. serial \in BOOLEAN
        BY PartsTyped
      <4> HIDE DEF known
      <4>4. QED
        BY <4>1, <4>2, <4>3
    <3>5. \/ cache' = cache
          \/ \E f \in all : cache' = [g \in Fields |-> f.limits[g]]
      BY <2>1 DEF Hear
    <3>6. cache' \in [Fields -> Levels \cup {Unknown}]
      <4>1. ASSUME NEW f \in Fragments
            PROVE  [g \in Fields |-> f.limits[g]] \in [Fields -> Levels \cup {Unknown}]
        BY DEF Fragments
      <4>2. QED
        BY <3>2, <3>5, <4>1, PartsTyped
    <3>7. QED
      BY <3>2, <3>3, <3>4, <3>6
  <2>2. CASE Follow \/ Unfollow \/ Overhear \/ ListenSilent
    BY <2>2, PartsTyped DEF Follow, Unfollow, Overhear, ListenSilent, cacheVars
  <2>3. QED
    BY <2>1, <2>2
<1>7. QED
  BY <1>1, <1>2, <1>3, <1>4, <1>5, <1>6, ClientMoved, PartsTyped

LEMMA TypedStep == Typed /\ [Next]_vars => Typed'
<1> SUFFICES ASSUME Typed, [Next]_vars PROVE Typed'
  OBVIOUS
<1>1. CASE UNCHANGED vars
  BY <1>1 DEF vars, stationVars, cacheVars, historyVars, Typed, TypeOK, TaskOK, Gating
<1>2. CASE Connect \/ HangUp
  BY <1>2, LinkTyped
<1>3. CASE Negotiate \/ NegotiateSecure \/ HandshakeGivenUp
  BY <1>3, HandshakeTyped
<1>4. CASE Press \/ ServeHello \/ ServeGate \/ ServeWrite \/ ServeSubscribe \/ Ignore \/ Push
  BY <1>4, StationTyped
<1>5. CASE Authenticate \/ GateKey \/ GateAuth \/ Bonded \/ GateSilent \/ Forget
  BY <1>5, GateTyped
<1>6. CASE \/ \E f \in Fields, v \in Levels : SetLimit(f, v)
           \/ \E s \in Chosen : Set(s)
           \/ \E id \in {"ac", "dc", "light", "display"} : Control(id)
           \/ Passed
  BY <1>6, ExecuteTyped
<1>7. CASE Skip \/ Acknowledged \/ WriteSilent
  BY <1>7, WriteTyped
<1>8. CASE Follow \/ Unfollow \/ Hear \/ Overhear \/ ListenSilent
  BY <1>8, ListenTyped
<1>9. QED
  BY <1>1, <1>2, <1>3, <1>4, <1>5, <1>6, <1>7, <1>8 DEF Next

LEMMA TypedAlways == Spec => []Typed
  BY TypedStart, TypedStep, PTL DEF Spec

(* The types of the station, the link and the client hold in every         *)
(* reachable state (anker.rs, device.rs, protocol.rs).                     *)
THEOREM AnkerTypeCorrect == Spec => []TypeOK
<1>1. Typed => TypeOK
  BY DEF Typed
<1>2. QED
  BY <1>1, TypedAlways, PTL

-----------------------------------------------------------------------------
(* What holds in every session, however it is disturbed.                   *)

Standing ==
    /\ gated => bond
    /\ gen = "Gen1" => ~authed /\ ~Gating /\ ~Writing /\ pc # "passed"
    /\ gen # "Gen1" =>
         /\ subscribed => gated
         /\ \A i \in DOMAIN requests : requests[i] # Hello(Steps + 1)
    /\ pc \in {"off", "hello"} => ~authed /\ applied
    /\ Writing \/ pc = "passed" => authed

LEMMA RequestsMove ==
    ASSUME Typed
    PROVE  /\ requests # <<>> =>
                /\ 1 \in DOMAIN requests /\ Head(requests) = requests[1]
                /\ \A i \in DOMAIN Tail(requests) :
                     i + 1 \in DOMAIN requests /\ Tail(requests)[i] = requests[i + 1]
           /\ \A r \in Requests : \A i \in DOMAIN Append(requests, r) :
                \/ i \in DOMAIN requests /\ Append(requests, r)[i] = requests[i]
                \/ i = Len(requests) + 1 /\ Append(requests, r)[i] = r
           /\ DOMAIN requests = 1 .. Len(requests) /\ Len(requests) \in Nat
BY DEF Typed, TypeOK

LEMMA LineMoves ==
    ASSUME Typed
    PROVE  /\ line # <<>> =>
                /\ 1 \in DOMAIN line /\ Head(line) = line[1]
                /\ \A i \in DOMAIN Tail(line) :
                     i + 1 \in DOMAIN line /\ Tail(line)[i] = line[i + 1]
           /\ \A p \in Packets : \A i \in DOMAIN Append(line, p) :
                \/ i \in DOMAIN line /\ Append(line, p)[i] = line[i]
                \/ i = Len(line) + 1 /\ Append(line, p)[i] = p
           /\ DOMAIN line = 1 .. Len(line) /\ Len(line) \in Nat
BY DEF Typed, TypeOK

(* A frame that does not end a handshake of the first generation.          *)
LEMMA NoSixth ==
    ASSUME Typed, \A i \in DOMAIN requests : requests[i] # Hello(Steps + 1),
           \/ requests' = requests \/ requests' = <<>>
           \/ requests # <<>> /\ requests' = Tail(requests)
           \/ \E r \in Requests : requests' = Append(requests, r) /\ r # Hello(Steps + 1)
    PROVE  \A i \in DOMAIN requests' : requests'[i] # Hello(Steps + 1)
BY RequestsMove

LEMMA Apart ==
    /\ \A c \in {"4022", "4023", "4027", "4100"} : Gate(c) \in Requests /\ Gate(c) # Hello(Steps + 1)
    /\ \A n \in 1 .. Steps : Hello(n) \in Requests /\ Hello(n) # Hello(Steps + 1)
    /\ \A f \in Fields, v \in Levels : Write(f, v) \in Requests /\ Write(f, v) # Hello(Steps + 1)
    /\ \A s \in Chosen : Single(s) \in Requests /\ Single(s) # Hello(Steps + 1)
    /\ Plain \in Requests /\ Plain # Hello(Steps + 1)
<1>1. \A n \in 1 .. Steps : n # Steps + 1
  BY DEF Steps
<1>2. \A n \in 1 .. Steps : Hello(n) # Hello(Steps + 1)
  BY <1>1 DEF Hello
<1>3. \A f \in Fields, v \in Levels : Write(f, v) # Hello(Steps + 1)
  BY OpcodesApart DEF Write, Hello
<1>4. \A s \in Chosen : Single(s) # Hello(Steps + 1)
  BY OpcodesApart DEF Single, Hello
<1>5. Plain # Hello(Steps + 1)
  BY DEF Plain, Hello
<1>6. \A c \in {"4022", "4023", "4027", "4100"} : Gate(c) # Hello(Steps + 1)
  BY DEF Gate, Hello
<1>7. QED
  BY <1>2, <1>3, <1>4, <1>5, <1>6, FramesTyped DEF Steps

(* What a step does to the requests on a station of the second generation. *)
LEMMA RequestsChange ==
    ASSUME Typed, [Next]_vars, gen # "Gen1"
    PROVE  \/ requests' = requests \/ requests' = <<>>
           \/ requests # <<>> /\ requests' = Tail(requests)
           \/ \E r \in Requests : requests' = Append(requests, r) /\ r # Hello(Steps + 1)
<1> DEFINE Good == \/ requests' = requests \/ requests' = <<>>
                   \/ requests # <<>> /\ requests' = Tail(requests)
                   \/ \E r \in Requests : requests' = Append(requests, r) /\ r # Hello(Steps + 1)
<1> SUFFICES Good
  OBVIOUS
<1>1. CASE UNCHANGED vars \/ Press \/ Push \/ HandshakeGivenUp \/ GateSilent \/ Forget
           \/ Skip \/ WriteSilent \/ Follow \/ Unfollow \/ Hear \/ Overhear \/ HangUp
  BY <1>1 DEF vars, Press, Push, HandshakeGivenUp, GateSilent, Forget, Skip, WriteSilent, Follow,
              Unfollow, Hear, Overhear, HangUp
<1>2. CASE ServeHello \/ ServeGate \/ ServeWrite \/ ServeSubscribe \/ Ignore
  BY <1>2 DEF ServeHello, ServeGate, ServeWrite, ServeSubscribe, Ignore
<1>3. CASE Connect
  BY <1>3, Apart DEF Connect, Send, Steps
<1>4. CASE NegotiateSecure
  <2>1. task.step \in 1 .. Steps
    BY <1>4 DEF NegotiateSecure, Answered, Typed, TaskOK
  <2>2. PICK packet \in {line[i] : i \in DOMAIN line} :
          IF task.step < Steps
            THEN NextStep(task.step + 1)
            ELSE IF packet = Reply(Steps)
              THEN Send(Gate("4100")) /\ Return
              ELSE Abandoned /\ UNCHANGED requests
    BY <1>4 DEF NegotiateSecure
  <2>3. task.step < Steps => task.step + 1 \in 1 .. Steps
    BY <2>1 DEF Steps
  <2>4. QED
    BY <2>2, <2>3, Apart DEF NextStep, Send
<1>5. CASE Authenticate \/ GateKey \/ GateAuth \/ Bonded
  BY <1>5, Apart DEF Authenticate, GateKey, GateAuth, Bonded, EnterGate, Pass, Refuse, Send
<1>6. ASSUME NEW what \in LimitTasks, BeginLimits(what)
      PROVE  Good
  <2>1. \A pair \in [Fields -> Levels] :
           Write("max", pair["max"]) \in Requests /\ Write("max", pair["max"]) # Hello(Steps + 1)
    BY Apart DEF Fields
  <2>2. QED
    BY <1>6, <2>1, LimitsBegun
<1>7. ASSUME NEW what \in SingleTasks, BeginSingle(what)
      PROVE  Good
  BY <1>7, Apart DEF BeginSingle, SingleTasks, Send
<1>8. ASSUME NEW what, EnterGate(what)
      PROVE  Good
  BY <1>8, Apart DEF EnterGate, Send
<1>9. ASSUME NEW f \in Fields, NEW v \in Levels, SetLimit(f, v)
      PROVE  Good
  <2>1. [for |-> "limit", field |-> f, value |-> v] \in LimitTasks
    BY DEF LimitTasks
  <2>2. QED
    BY <1>6, <1>8, <1>9, <2>1 DEF SetLimit
<1>10. ASSUME NEW s \in Chosen, Set(s)
       PROVE  Good
  <2>1. [for |-> "single", setting |-> s] \in SingleTasks
    BY DEF SingleTasks
  <2>2. QED
    BY <1>7, <1>8, <1>10, <2>1 DEF Set
<1>11. ASSUME NEW id, Control(id)
       PROVE  Good
  BY <1>11, Apart DEF Control, Send
<1>12. CASE Passed
  <2>1. task \in LimitTasks \cup SingleTasks
    BY <1>12 DEF Passed, Typed, TaskOK
  <2>2. \/ task \in LimitTasks /\ BeginLimits(task)
        \/ task \in SingleTasks /\ BeginSingle(task)
        \/ requests' = requests
    BY <1>12, <2>1 DEF Passed, LimitTasks, SingleTasks
  <2>3. QED
    BY <1>6, <1>7, <2>2
<1>13. CASE Acknowledged
  <2>1. CASE pc = "ack_max"
    <3>1. task.pair \in [Fields -> Levels]
      BY <2>1 DEF Typed, TaskOK
    <3>2. QED
      BY <1>13, <2>1, <3>1, Apart DEF Acknowledged, Send, Fields
  <2>2. CASE pc # "ack_max"
    BY <1>13, <2>2 DEF Acknowledged
  <2>3. QED
    BY <2>1, <2>2
<1>14. CASE ListenSilent
  BY <1>14, Apart DEF ListenSilent, Send
<1>15. ~Negotiate
  BY DEF Negotiate
<1> HIDE DEF Good
<1>16. QED
  BY <1>1, <1>2, <1>3, <1>4, <1>5, <1>9, <1>10, <1>11, <1>12, <1>13, <1>14, <1>15 DEF Next

LEMMA GenStays == [Next]_vars => gen' = gen
BY DEF Next, vars, stationVars, Connect, Negotiate, NegotiateSecure, HandshakeGivenUp, HangUp,
       Press, ServeHello, ServeGate, ServeWrite, ServeSubscribe, Ignore, Push,
       Authenticate, GateKey, GateAuth, Bonded, GateSilent, Forget, SetLimit, Set, Control,
       Passed, Skip, Acknowledged, WriteSilent, Follow, Unfollow, Hear, Overhear, ListenSilent

(* The request for a step of the handshake.                                *)
LEMMA HelloTyped ==
    ASSUME Typed, requests # <<>>, Head(requests).cmd = "hello"
    PROVE  /\ Head(requests).step \in 1 .. Steps + 1
           /\ Head(requests) = Hello(Head(requests).step)
<1>1. Head(requests) \in [cmd : {"hello"}, step : 1 .. Steps + 1]
  <2>1. Head(requests) \in Requests
    BY PartsTyped
  <2>2. QED
    BY <2>1, OpcodesApart DEF Requests, Plain
<1>2. QED
  BY <1>1 DEF Hello

(* The station: nobody passes its gate who is not bound, and on the second *)
(* generation nobody is sent telemetry who has not passed.                 *)
LEMMA StationStands ==
    ASSUME Typed, [Next]_vars, gated => bond,
           gen # "Gen1" => /\ subscribed => gated
                           /\ \A i \in DOMAIN requests : requests[i] # Hello(Steps + 1)
    PROVE  /\ gated' => bond'
           /\ gen' # "Gen1" => (subscribed' => gated')
<1>1. gen' = gen
  BY GenStays
<1>2. CASE UNCHANGED <<bond, gated, subscribed>>
  BY <1>1, <1>2
<1>3. CASE ServeHello
  <2> DEFINE n == Head(requests).step
  <2>1. /\ gated' = (gated /\ n < Steps) /\ bond' = bond
        /\ subscribed' = (n > Steps \/ (subscribed /\ n < Steps))
    BY <1>3 DEF ServeHello
  <2>2. gen # "Gen1" => n \in 1 .. Steps
    <3>1. requests # <<>> /\ Head(requests).cmd = "hello"
      BY <1>3 DEF ServeHello
    <3>2. n \in 1 .. Steps + 1 /\ Head(requests) = Hello(n)
      BY <3>1, HelloTyped
    <3>3. gen # "Gen1" => Head(requests) # Hello(Steps + 1)
      BY <3>1, RequestsMove
    <3> HIDE DEF n
    <3>4. gen # "Gen1" => n # Steps + 1
      BY <3>2, <3>3
    <3>5. QED
      BY <3>2, <3>4 DEF Steps
  <2> HIDE DEF n
  <2>3. gen # "Gen1" => ~(n > Steps)
    BY <2>2 DEF Steps
  <2>4. /\ gated' => gated
        /\ gen # "Gen1" => (subscribed' => subscribed /\ n < Steps)
        /\ gated /\ n < Steps => gated'
    BY <2>1, <2>3, Zenon
  <2>5. QED
    BY <1>1, <2>1, <2>4, Zenon
<1>4. CASE ServeGate
  <2>1. subscribed' = subscribed /\ (gated => gated') /\ (gated' => bond')
    <3>1. CASE bond' = bond /\ gated' = gated
      BY <1>4, <3>1 DEF ServeGate
    <3>2. CASE gated' = (gated \/ bond) /\ bond' = bond
      BY <1>4, <3>2, Zenon DEF ServeGate
    <3>3. CASE bond' = (bond \/ button) /\ gated' = gated
      BY <1>4, <3>3, Zenon DEF ServeGate
    <3>4. \/ bond' = bond /\ gated' = gated
          \/ gated' = (gated \/ bond) /\ bond' = bond
          \/ bond' = (bond \/ button) /\ gated' = gated
      BY <1>4 DEF ServeGate
    <3>5. QED
      BY <3>1, <3>2, <3>3, <3>4
  <2>2. QED
    BY <1>1, <2>1
<1>5. CASE ServeWrite
  <2>1. (subscribed' = subscribed \/ subscribed' = FALSE) /\ bond' = bond /\ gated' = gated
    BY <1>5 DEF ServeWrite
  <2>2. QED
    BY <1>1, <2>1
<1>6. CASE ServeSubscribe
  <2>1. subscribed' = (subscribed \/ gated) /\ bond' = bond /\ gated' = gated
    BY <1>6 DEF ServeSubscribe
  <2>2. QED
    BY <1>1, <2>1
<1>7. CASE HangUp
  BY <1>7 DEF HangUp
<1>8. QED
  BY <1>2, <1>3, <1>4, <1>5, <1>6, <1>7
  DEF Next, vars, stationVars, Connect, Negotiate, NegotiateSecure, HandshakeGivenUp, Press, Ignore,
      Push, Authenticate, GateKey, GateAuth, Bonded, GateSilent, Forget, SetLimit, Set, Control,
      Passed, Skip, Acknowledged, WriteSilent, Follow, Unfollow, Hear, Overhear, ListenSilent

(* The client: where its call awaits goes with what it believes.           *)
Believing ==
    /\ gen = "Gen1" => ~authed /\ ~Gating /\ ~Writing /\ pc # "passed"
    /\ pc \in {"off", "hello"} => ~authed /\ applied
    /\ Writing \/ pc = "passed" => authed

LEMMA ClientStands ==
    ASSUME Typed, [Next]_vars, Believing
    PROVE  Believing'
<1>1. gen' = gen
  BY GenStays
<1> USE DEF cacheVars, historyVars
<1>2. CASE UNCHANGED <<pc, authed, applied>>
  BY <1>1, <1>2 DEF Believing, Gating, Writing
<1>3. CASE pc' \in {"idle", "stream", "status"} /\ authed' = authed
  BY <1>1, <1>3 DEF Believing, Gating, Writing
<1>4. CASE Connect \/ HangUp
  <2>1. pc' \in {"off", "hello"} /\ authed' = FALSE /\ applied' = TRUE
    BY <1>4 DEF Connect, HangUp, Abandoned, ClientIs, NewClient
  <2>2. QED
    BY <2>1 DEF Believing, Gating, Writing
<1>5. CASE Negotiate \/ NegotiateSecure \/ HandshakeGivenUp
  <2>1. /\ pc = "hello" /\ pc' \in {"hello", "off", "idle"}
        /\ authed' = authed /\ applied' = applied
    BY <1>5 DEF Negotiate, NegotiateSecure, HandshakeGivenUp, Answered, NextStep, Return, Abandoned
  <2>2. QED
    BY <1>1, <2>1 DEF Believing, Gating, Writing
<1>6. CASE GateAuth
  <2>1. CASE Pass
    BY <1>1, <1>6, <2>1 DEF GateAuth, Pass, Return, Believing, Gating, Writing
  <2>2. CASE Refuse
    BY <1>1, <1>6, <2>2 DEF GateAuth, Refuse, Return, Believing, Gating, Writing
  <2>3. QED
    BY <1>6, <2>1, <2>2 DEF GateAuth
<1>7. CASE GateKey \/ Bonded
  BY <1>1, <1>7 DEF GateKey, Bonded, Believing, Gating, Writing
<1>8. ASSUME NEW what, EnterGate(what), gen # "Gen1", authed' = authed, applied' = applied
      PROVE  Believing'
  BY <1>1, <1>8 DEF EnterGate, Believing, Gating, Writing
<1>9. ASSUME NEW what, BeginLimits(what) \/ BeginSingle(what), authed, gen # "Gen1",
             authed' = authed
      PROVE  Believing'
  <2>1. pc' \in {"idle", "ack_max", "ack_single"}
    BY <1>9 DEF BeginLimits, BeginSingle, Return
  <2>2. QED
    BY <1>1, <1>9, <2>1 DEF Believing, Gating, Writing
<1>10. CASE Authenticate
  BY <1>8, <1>10 DEF Authenticate
<1>11. CASE Forget
  BY <1>1, <1>11 DEF Forget, MayCall, Believing, Gating, Writing
<1>12. ASSUME NEW f \in Fields, NEW v \in Levels, SetLimit(f, v)
       PROVE  Believing'
  BY <1>8, <1>9, <1>12 DEF SetLimit
<1>13. ASSUME NEW s \in Chosen, Set(s)
       PROVE  Believing'
  BY <1>8, <1>9, <1>13 DEF Set
<1>14. CASE Passed
  <2>1. authed /\ gen # "Gen1" /\ authed' = authed
    BY <1>14 DEF Passed, Believing
  <2>2. BeginLimits(task) \/ BeginSingle(task) \/ Return
    BY <1>14 DEF Passed
  <2>3. QED
    BY <1>3, <1>9, <2>1, <2>2 DEF Return
<1>15. CASE Acknowledged
  <2>1. pc' \in {"ack_min", "idle"} /\ authed' = authed /\ Writing
    BY <1>15 DEF Acknowledged, Return
  <2>2. QED
    BY <1>1, <2>1 DEF Believing, Gating, Writing
<1>16. CASE GateSilent \/ WriteSilent \/ Follow \/ Unfollow \/ Hear \/ ListenSilent
  <2>1. authed' = authed /\ pc' \in {"idle", "stream", "status"}
    BY <1>16
    DEF GateSilent, WriteSilent, Follow, Unfollow, Hear, ListenSilent, Return, Listening
  <2>2. QED
    BY <1>3, <2>1
<1>17. ASSUME NEW id, Control(id)
       PROVE  Believing'
  BY <1>2, <1>17 DEF Control
<1>18. CASE \/ UNCHANGED vars \/ Skip \/ Overhear
            \/ Press \/ ServeHello \/ ServeGate \/ ServeWrite \/ ServeSubscribe \/ Ignore \/ Push
  BY <1>2, <1>18
  DEF vars, Skip, Overhear, Press, ServeHello, ServeGate, ServeWrite, ServeSubscribe, Ignore, Push
<1>19. QED
  BY <1>4, <1>5, <1>6, <1>7, <1>10, <1>11, <1>12, <1>13, <1>14, <1>15, <1>16, <1>17, <1>18 DEF Next

LEMMA StandingStep == Typed /\ Standing /\ [Next]_vars => Standing'
<1> SUFFICES ASSUME Typed, Standing, [Next]_vars PROVE Standing'
  OBVIOUS
<1>1. (gated' => bond') /\ (gen' # "Gen1" => (subscribed' => gated'))
  BY StationStands DEF Standing
<1>2. Believing'
  BY ClientStands DEF Standing, Believing
<1>3. gen' # "Gen1" => \A i \in DOMAIN requests' : requests'[i] # Hello(Steps + 1)
  BY GenStays, RequestsChange, NoSixth DEF Standing
<1>4. QED
  BY <1>1, <1>2, <1>3 DEF Standing, Believing

-----------------------------------------------------------------------------
(* What holds while no answer can be taken for another's: what is under    *)
(* way is what the call in progress has asked and awaits.                  *)

Gates == [gate_key |-> "4022", gate_auth |-> "4027", bond |-> "4023"]
GateCmds == {"4022", "4023", "4027"}

(* In the handshake: the steps asked and not answered, in order.           *)
HelloStage ==
    /\ \A i \in DOMAIN requests :
         /\ requests[i].cmd = "hello"
         /\ requests[i].step <= task.step
         /\ \A j \in DOMAIN requests : i < j => requests[i].step < requests[j].step
         /\ \A j \in DOMAIN line : line[j].type = "hello" => line[j].step < requests[i].step
    /\ \A j \in DOMAIN line :
         /\ line[j].type \in {"hello", "fragment"}
         /\ line[j].type = "hello" => line[j].step <= task.step

NoHello == \A i \in DOMAIN requests : requests[i].cmd # "hello"

(* At the gate, until it is passed: one question or its answer.            *)
GateStage ==
    /\ ~Writing /\ pc # "passed"
    /\ \A i \in DOMAIN requests : requests[i].cmd \in GateCmds =>
         /\ Gating
         /\ requests[i].cmd = Gates[pc]
         /\ line = <<>>
         /\ \A j \in DOMAIN requests : requests[j].cmd \in GateCmds => j = i
    /\ Gating /\ line # <<>> =>
         /\ Len(line) = 1
         /\ line[1].type = "status"
         /\ pc = "gate_auth" => line[1].code = "unbound"

(* The write that is awaited.                                              *)
Current ==
    IF pc = "ack_single" THEN Single(task.setting)
    ELSE IF pc = "ack_max" THEN Write("max", task.pair["max"])
    ELSE Write("min", task.pair["min"])

(* In a write: itself, or its acknowledgement and its effect.              *)
WriteStage ==
    /\ \A i \in DOMAIN requests : requests[i].cmd \in Opcodes =>
         /\ Writing
         /\ requests[i] = Current
         /\ \A j \in DOMAIN requests : requests[j].cmd \in Opcodes => j = i
         /\ \A j \in DOMAIN line : line[j].type # "ack"
    /\ \A i \in DOMAIN line : line[i].type = "ack" =>
         /\ Writing
         /\ line[i] = Ack(Awaited)
         /\ \A j \in DOMAIN line : line[j].type = "ack" => j = i
         /\ pc = "ack_max" => limits["max"] = task.pair["max"]
         /\ pc = "ack_min" => limits["min"] = task.pair["min"]
    /\ pc = "ack_min" => limits["max"] = task.pair["max"]

Calm == ~stray /\ gen # "Gen1"

Session ==
    Calm /\ pc # "off" =>
        /\ pc = "hello" => HelloStage
        /\ pc # "hello" => NoHello
        /\ pc # "hello" /\ ~gated => GateStage
        /\ WriteStage
        /\ authed => gated

(* Requests of the commands C are those there were, d places further on.   *)
Held(new, old, d, C) ==
    \A i \in DOMAIN new : new[i].cmd \in C => i + d \in DOMAIN old /\ new[i] = old[i + d]

HeldPackets(new, old, d, C) ==
    \A i \in DOMAIN new : new[i].type \in C => i + d \in DOMAIN old /\ new[i] = old[i + d]

LEMMA RequestsHeld ==
    ASSUME Typed, NEW C
    PROVE  /\ requests' = requests => Held(requests', requests, 0, C)
           /\ requests' = <<>> => Held(requests', requests, 0, C)
           /\ requests # <<>> /\ requests' = Tail(requests) => Held(requests', requests, 1, C)
           /\ \A r \in Requests :
                r.cmd \notin C /\ requests' = Append(requests, r) => Held(requests', requests, 0, C)
<1>1. \A i \in DOMAIN requests : i + 0 = i
  BY RequestsMove
<1>2. QED
  BY <1>1, RequestsMove DEF Held

LEMMA LineHeld ==
    ASSUME Typed, NEW C
    PROVE  /\ line' = line => HeldPackets(line', line, 0, C)
           /\ line' = <<>> => HeldPackets(line', line, 0, C)
           /\ line # <<>> /\ line' = Tail(line) => HeldPackets(line', line, 1, C)
           /\ \A p \in Packets :
                p.type \notin C /\ line' = Append(line, p) => HeldPackets(line', line, 0, C)
<1>1. \A i \in DOMAIN line : i + 0 = i
  BY LineMoves
<1>2. QED
  BY <1>1, LineMoves DEF HeldPackets

(* Telemetry is put behind what there is.                                  *)
LEMMA PushMoves ==
    ASSUME Typed, Push
    PROVE  \A i \in DOMAIN line' :
             \/ i \in DOMAIN line /\ line'[i] = line[i]
             \/ i = Len(line) + 1 /\ line'[i] = Fragment(1, messages + 1)
             \/ i = Len(line) + 2 /\ line'[i] = Fragment(2, messages + 1)
<1>1. messages \in Nat /\ limits \in [Fields -> Levels] /\ line \in Seq(Packets)
  BY DEF Typed, TypeOK
<1> DEFINE f == Fragment(1, messages + 1)
           g == Fragment(2, messages + 1)
<1>2. f \in Packets /\ g \in Packets
  BY <1>1 DEF Fragment, Packets, Fragments
<1>3. line' = line \o <<f, g>>
  BY DEF Push
<1> HIDE DEF f, g
<1>4. QED
  BY <1>1, <1>2, <1>3 DEF f, g

LEMMA PushHeld ==
    ASSUME Typed, Push, NEW C, "fragment" \notin C
    PROVE  HeldPackets(line', line, 0, C)
<1>1. \A i \in DOMAIN line : i + 0 = i
  BY LineMoves
<1>2. \A n, m : Fragment(n, m).type = "fragment"
  BY DEF Fragment
<1>3. QED
  BY <1>1, <1>2, PushMoves DEF HeldPackets

LEMMA WriteKept ==
    ASSUME Typed, WriteStage, pc' = pc, task' = task, limits' = limits,
           NEW d \in {0, 1}, Held(requests', requests, d, Opcodes),
           NEW e \in {0, 1}, HeldPackets(line', line, e, {"ack"}),
           line' \in Seq(Packets), requests' \in Seq(Requests)
    PROVE  WriteStage'
<1>1. /\ Writing' = Writing /\ Awaited' = Awaited /\ Current' = Current
  BY DEF Writing, Awaited, Current
<1>2. /\ \A i \in DOMAIN requests' : i \in Nat
      /\ \A i \in DOMAIN line' : i \in Nat
  OBVIOUS
<1>3. ASSUME NEW i \in DOMAIN requests', requests'[i].cmd \in Opcodes
      PROVE  /\ Writing' /\ requests'[i] = Current'
             /\ \A j \in DOMAIN requests' : requests'[j].cmd \in Opcodes => j = i
             /\ \A j \in DOMAIN line' : line'[j].type # "ack"
  <2>1. /\ i + d \in DOMAIN requests /\ requests'[i] = requests[i + d]
    BY <1>3 DEF Held
  <2>2. /\ Writing /\ requests[i + d] = Current
        /\ \A j \in DOMAIN requests : requests[j].cmd \in Opcodes => j = i + d
        /\ \A j \in DOMAIN line : line[j].type # "ack"
    BY <1>3, <2>1 DEF WriteStage
  <2>3. ASSUME NEW j \in DOMAIN requests', requests'[j].cmd \in Opcodes
        PROVE  j = i
    <3>1. j + d = i + d
      BY <2>2, <2>3 DEF Held
    <3>2. QED
      BY <1>2, <3>1
  <2>4. \A j \in DOMAIN line' : line'[j].type # "ack"
    BY <2>2 DEF HeldPackets
  <2>5. QED
    BY <1>1, <2>1, <2>2, <2>3, <2>4
<1>4. ASSUME NEW i \in DOMAIN line', line'[i].type = "ack"
      PROVE  /\ Writing' /\ line'[i] = Ack(Awaited')
             /\ \A j \in DOMAIN line' : line'[j].type = "ack" => j = i
             /\ pc' = "ack_max" => limits'["max"] = task'.pair["max"]
             /\ pc' = "ack_min" => limits'["min"] = task'.pair["min"]
  <2>1. /\ i + e \in DOMAIN line /\ line'[i] = line[i + e]
    BY <1>4 DEF HeldPackets
  <2>2. /\ Writing /\ line[i + e] = Ack(Awaited)
        /\ \A j \in DOMAIN line : line[j].type = "ack" => j = i + e
        /\ pc = "ack_max" => limits["max"] = task.pair["max"]
        /\ pc = "ack_min" => limits["min"] = task.pair["min"]
    BY <1>4, <2>1 DEF WriteStage
  <2>3. ASSUME NEW j \in DOMAIN line', line'[j].type = "ack"
        PROVE  j = i
    <3>1. j + e = i + e
      BY <2>2, <2>3 DEF HeldPackets
    <3>2. QED
      BY <1>2, <3>1
  <2>4. QED
    BY <1>1, <2>1, <2>2, <2>3
<1>5. pc' = "ack_min" => limits'["max"] = task'.pair["max"]
  BY DEF WriteStage
<1>6. QED
  BY <1>3, <1>4, <1>5 DEF WriteStage

(* Between writes nothing of a write is under way.                         *)
LEMMA WriteRests ==
    ASSUME Typed, WriteStage, ~Writing, pc' # "ack_min",
           NEW d \in {0, 1}, Held(requests', requests, d, Opcodes),
           NEW e \in {0, 1}, HeldPackets(line', line, e, {"ack"})
    PROVE  WriteStage'
<1>1. /\ \A i \in DOMAIN requests : requests[i].cmd \notin Opcodes
      /\ \A i \in DOMAIN line : line[i].type # "ack"
  BY DEF WriteStage
<1>2. /\ \A i \in DOMAIN requests' : requests'[i].cmd \notin Opcodes
      /\ \A i \in DOMAIN line' : line'[i].type # "ack"
  BY <1>1 DEF Held, HeldPackets
<1>3. QED
  BY <1>2 DEF WriteStage

LEMMA GateKept ==
    ASSUME Typed, GateStage, pc' = pc, line' = line \/ ~Gating,
           NEW d \in {0, 1}, Held(requests', requests, d, GateCmds),
           requests' \in Seq(Requests)
    PROVE  GateStage'
<1>1. Writing' = Writing /\ Gating' = Gating
  BY DEF Writing, Gating
<1>2. \A i \in DOMAIN requests' : i \in Nat
  OBVIOUS
<1>3. ASSUME NEW i \in DOMAIN requests', requests'[i].cmd \in GateCmds
      PROVE  /\ Gating' /\ requests'[i].cmd = Gates[pc'] /\ line' = <<>>
             /\ \A j \in DOMAIN requests' : requests'[j].cmd \in GateCmds => j = i
  <2>1. i + d \in DOMAIN requests /\ requests'[i] = requests[i + d]
    BY <1>3 DEF Held
  <2>2. /\ Gating /\ requests[i + d].cmd = Gates[pc] /\ line = <<>>
        /\ \A j \in DOMAIN requests : requests[j].cmd \in GateCmds => j = i + d
    BY <1>3, <2>1 DEF GateStage
  <2>3. ASSUME NEW j \in DOMAIN requests', requests'[j].cmd \in GateCmds
        PROVE  j = i
    <3>1. j + d = i + d
      BY <2>2, <2>3 DEF Held
    <3>2. QED
      BY <1>2, <3>1
  <2>4. QED
    BY <1>1, <2>1, <2>2, <2>3
<1>4. QED
  BY <1>1, <1>3 DEF GateStage

(* Outside the gate nothing of the gate is under way.                      *)
LEMMA GateRests ==
    ASSUME Typed, GateStage, ~Gating, ~Gating', ~Writing', pc' # "passed",
           NEW d \in {0, 1}, Held(requests', requests, d, GateCmds)
    PROVE  GateStage'
<1>1. \A i \in DOMAIN requests : requests[i].cmd \notin GateCmds
  BY DEF GateStage
<1>2. \A i \in DOMAIN requests' : requests'[i].cmd \notin GateCmds
  BY <1>1 DEF Held
<1>3. QED
  BY <1>2 DEF GateStage

LEMMA NoHelloKept ==
    ASSUME NoHello, NEW d \in {0, 1}, Held(requests', requests, d, {"hello"})
    PROVE  NoHello'
BY DEF NoHello, Held

(* The row of answers only gets shorter, but for telemetry.                *)
LEMMA HelloKept ==
    ASSUME Typed, HelloStage, task' = task,
           NEW d \in {0, 1}, requests' \in Seq(Requests),
           \A i \in DOMAIN requests' : i + d \in DOMAIN requests /\ requests'[i] = requests[i + d],
           NEW e \in {0, 1}, HeldPackets(line', line, e, {"hello"}),
           \A j \in DOMAIN line' : line'[j].type \in {"hello", "fragment"}
    PROVE  HelloStage'
<1>1. ASSUME NEW i \in DOMAIN requests'
      PROVE  /\ requests'[i].cmd = "hello" /\ requests'[i].step <= task'.step
             /\ \A j \in DOMAIN requests' : i < j => requests'[i].step < requests'[j].step
             /\ \A j \in DOMAIN line' :
                  line'[j].type = "hello" => line'[j].step < requests'[i].step
  <2>1. i + d \in DOMAIN requests /\ requests'[i] = requests[i + d]
    OBVIOUS
  <2>2. ASSUME NEW j \in DOMAIN requests', i < j
        PROVE  requests'[i].step < requests'[j].step
    <3>1. j + d \in DOMAIN requests /\ requests'[j] = requests[j + d]
      OBVIOUS
    <3>2. i + d < j + d
      <4>1. i \in Nat /\ j \in Nat
        OBVIOUS
      <4>2. QED
        BY <2>2, <4>1
    <3>3. QED
      BY <2>1, <3>1, <3>2 DEF HelloStage
  <2>3. ASSUME NEW j \in DOMAIN line', line'[j].type = "hello"
        PROVE  line'[j].step < requests'[i].step
    <3>1. j + e \in DOMAIN line /\ line'[j] = line[j + e]
      BY <2>3 DEF HeldPackets
    <3>2. QED
      BY <2>1, <2>3, <3>1 DEF HelloStage
  <2>4. QED
    BY <2>1, <2>2, <2>3 DEF HelloStage
<1>2. ASSUME NEW j \in DOMAIN line', line'[j].type = "hello"
      PROVE  line'[j].step <= task'.step
  <2>1. j + e \in DOMAIN line /\ line'[j] = line[j + e]
    BY <1>2 DEF HeldPackets
  <2>2. QED
    BY <1>2, <2>1 DEF HelloStage
<1>3. QED
  BY <1>1, <1>2 DEF HelloStage

Kept == Typed /\ Standing /\ Session

LEMMA LinkSession ==
    ASSUME Kept, Typed', Connect \/ HangUp
    PROVE  Session'
<1>1. CASE HangUp
  BY <1>1 DEF HangUp, Abandoned, Session
<1>2. CASE Connect
  <2>1. /\ line' = <<>> /\ requests' = Append(requests, Hello(1)) /\ pc' = "hello"
        /\ task' = [for |-> "connect", step |-> 1] /\ stray' = (requests # <<>>)
        /\ authed' = FALSE
    BY <1>2 DEF Connect, Send, ClientIs, NewClient
  <2>2. SUFFICES ASSUME ~stray' PROVE HelloStage' /\ WriteStage'
    BY <2>1 DEF Session, Calm
  <2>3. requests = <<>>
    BY <2>1, <2>2
  <2>4. requests' = <<Hello(1)>>
    BY <2>1, <2>3
  <2>5. \A i \in DOMAIN requests' : i = 1 /\ requests'[i] = [cmd |-> "hello", step |-> 1]
    BY <2>4 DEF Hello
  <2>6. \A i \in DOMAIN line' : FALSE
    BY <2>1
  <2>7. HelloStage'
    BY <2>1, <2>5, <2>6 DEF HelloStage
  <2>8. WriteStage'
    BY <2>1, <2>5, <2>6, OpcodesApart DEF WriteStage
  <2>9. QED
    BY <2>7, <2>8
<1>3. QED
  BY <1>1, <1>2

LEMMA HandshakeSession ==
    ASSUME Kept, Typed', Negotiate \/ NegotiateSecure \/ HandshakeGivenUp
    PROVE  Session'
<1>1. CASE Negotiate
  BY <1>1 DEF Negotiate, stationVars, Session, Calm
<1>2. CASE HandshakeGivenUp
  BY <1>2 DEF HandshakeGivenUp, Abandoned, Session
<1>3. CASE NegotiateSecure
  <2>1. PICK packet \in {line[i] : i \in DOMAIN line} :
          /\ Answered(packet)
          /\ IF task.step < Steps
               THEN NextStep(task.step + 1)
               ELSE IF packet = Reply(Steps)
                 THEN Send(Gate("4100")) /\ Return
                 ELSE Abandoned /\ UNCHANGED requests
    BY <1>3 DEF NegotiateSecure
  <2>2. /\ pc = "hello" /\ line # <<>> /\ line' = Tail(line) /\ packet = Head(line)
        /\ stray' = stray /\ authed' = authed /\ gen' = gen /\ limits' = limits /\ gated' = gated
    BY <1>3, <2>1 DEF NegotiateSecure, Answered, stationVars, cacheVars
  <2>3. Typed /\ Standing /\ ~authed
    BY <2>2 DEF Kept, Standing
  <2>4. SUFFICES ASSUME Calm, pc' # "off"
                 PROVE  /\ pc' = "hello" => HelloStage'
                        /\ pc' # "hello" => NoHello' /\ GateStage'
                        /\ WriteStage'
    BY <2>2, <2>3 DEF Session, Calm
  <2>5. HelloStage /\ WriteStage /\ ~Writing
    BY <2>2, <2>4 DEF Kept, Session, Writing
  <2>6. HeldPackets(line', line, 1, {"hello"}) /\ HeldPackets(line', line, 1, {"ack"})
    BY <2>2, <2>3, LineHeld
  <2>7. CASE task.step < Steps
    <3>1. /\ requests' = Append(requests, Hello(task.step + 1)) /\ pc' = "hello"
          /\ task' = [task EXCEPT !.step = task.step + 1]
      BY <2>1, <2>2, <2>7 DEF NextStep, Send
    <3> DEFINE n == task.step
    <3>2. n \in 1 .. Steps /\ task' = [for |-> "connect", step |-> n + 1] /\ n + 1 \in 1 .. Steps
      <4>1. task \in [for : {"connect"}, step : 1 .. Steps]
        BY <2>2, <2>3 DEF Typed, TaskOK
      <4>2. QED
        BY <2>7, <3>1, <4>1 DEF Steps
    <3>3. /\ Hello(n + 1) \in Requests /\ Hello(n + 1).cmd = "hello" /\ Hello(n + 1).step = n + 1
      BY <3>2, FramesTyped DEF Hello, Steps
    <3>4. task'.step = n + 1 /\ n \in Nat
      BY <3>2
    <3>5. \A i \in DOMAIN requests' :
             \/ i \in DOMAIN requests /\ requests'[i] = requests[i]
             \/ i = Len(requests) + 1 /\ requests'[i] = Hello(n + 1)
      BY <2>3, <3>1, <3>3, RequestsMove
    <3>6. \A i \in DOMAIN requests : requests[i].step \in Nat /\ requests[i].step <= n
      <4>1. ASSUME NEW i \in DOMAIN requests PROVE requests[i].step \in Nat
        <5>1. requests[i] \in Requests /\ requests[i].cmd = "hello"
          BY <2>3, <2>5 DEF Typed, TypeOK, HelloStage
        <5>2. requests[i] \in [cmd : {"hello"}, step : 1 .. Steps + 1]
          BY <5>1, OpcodesApart DEF Requests, Plain
        <5>3. QED
          BY <5>2 DEF Steps
      <4>2. QED
        BY <2>5, <4>1 DEF HelloStage
    <3>7. \A j \in DOMAIN line' : j + 1 \in DOMAIN line /\ line'[j] = line[j + 1]
      BY <2>2, <2>3, LineMoves
    <3>8. \A j \in DOMAIN line : line[j].type = "hello" => line[j].step \in Nat /\ line[j].step <= n
      <4>1. ASSUME NEW j \in DOMAIN line, line[j].type = "hello" PROVE line[j].step \in Nat
        <5>1. line[j] \in Packets
          BY <2>3 DEF Typed, TypeOK
        <5>2. line[j] \in [type : {"hello"}, step : 1 .. Steps]
          BY <4>1, <5>1 DEF Packets, Fragments
        <5>3. QED
          BY <5>2 DEF Steps
      <4>2. QED
        BY <2>5, <4>1 DEF HelloStage
    <3> HIDE DEF n
    <3>9. HelloStage'
      <4>1. ASSUME NEW i \in DOMAIN requests'
            PROVE  /\ requests'[i].cmd = "hello" /\ requests'[i].step <= task'.step
                   /\ \A j \in DOMAIN requests' : i < j => requests'[i].step < requests'[j].step
                   /\ \A j \in DOMAIN line' :
                        line'[j].type = "hello" => line'[j].step < requests'[i].step
        <5>1. CASE i \in DOMAIN requests /\ requests'[i] = requests[i]
          <6>1. requests[i].cmd = "hello" /\ requests[i].step <= n /\ requests[i].step \in Nat
            BY <2>5, <3>6, <5>1 DEF HelloStage
          <6>2. ASSUME NEW j \in DOMAIN requests', i < j
                PROVE  requests[i].step < requests'[j].step
            <7>1. CASE j \in DOMAIN requests /\ requests'[j] = requests[j]
              BY <2>5, <5>1, <6>2, <7>1 DEF HelloStage
            <7>2. CASE requests'[j] = Hello(n + 1)
              BY <3>3, <3>4, <6>1, <7>2
            <7>3. QED
              BY <3>5, <7>1, <7>2
          <6>3. ASSUME NEW j \in DOMAIN line', line'[j].type = "hello"
                PROVE  line'[j].step < requests[i].step
            BY <2>5, <3>7, <5>1, <6>3 DEF HelloStage
          <6>4. QED
            BY <3>4, <5>1, <6>1, <6>2, <6>3
        <5>2. CASE i = Len(requests) + 1 /\ requests'[i] = Hello(n + 1)
          <6>1. ASSUME NEW j \in DOMAIN requests', i < j PROVE FALSE
            <7>1. DOMAIN requests = 1 .. Len(requests) /\ Len(requests) \in Nat
              BY <2>3, RequestsMove
            <7>2. QED
              BY <3>5, <5>2, <6>1, <7>1
          <6>2. ASSUME NEW j \in DOMAIN line', line'[j].type = "hello"
                PROVE  line'[j].step < n + 1
            BY <3>4, <3>7, <3>8, <6>2
          <6>3. QED
            BY <3>3, <3>4, <5>2, <6>1, <6>2
        <5>3. QED
          BY <3>5, <5>1, <5>2
      <4>2. ASSUME NEW j \in DOMAIN line'
            PROVE  /\ line'[j].type \in {"hello", "fragment"}
                   /\ line'[j].type = "hello" => line'[j].step <= task'.step
        <5>1. j + 1 \in DOMAIN line /\ line'[j] = line[j + 1]
          BY <3>7
        <5>2. line[j + 1].type \in {"hello", "fragment"}
          BY <2>5, <5>1 DEF HelloStage
        <5>3. line'[j].type = "hello" => line'[j].step <= task'.step
          BY <3>4, <3>8, <5>1
        <5>4. QED
          BY <5>1, <5>2, <5>3
      <4>3. QED
        BY <4>1, <4>2 DEF HelloStage
    <3>10. WriteStage'
      <4>1. Held(requests', requests, 0, Opcodes)
        BY <2>3, <3>1, <3>3, RequestsHeld, OpcodesApart DEF n
      <4>2. QED
        BY <2>3, <2>5, <2>6, <3>1, <4>1, WriteRests
    <3>11. QED
      BY <3>1, <3>9, <3>10
  <2>8. CASE task.step >= Steps
    <3>1. task.step = Steps
      BY <2>2, <2>3, <2>8 DEF Typed, TaskOK, Steps
    <3>2. /\ packet = Reply(Steps) /\ requests' = Append(requests, Gate("4100")) /\ pc' = "idle"
      BY <2>1, <2>4, <3>1 DEF Abandoned, Send, Return, Steps
    <3>3. line[1].type = "hello" /\ line[1].step = Steps /\ 1 \in DOMAIN line
      BY <2>2, <2>3, <3>2, LineMoves DEF Reply
    <3>4. \A i \in DOMAIN requests : FALSE
      <4>1. SUFFICES ASSUME NEW i \in DOMAIN requests PROVE FALSE
        OBVIOUS
      <4>2. requests[i].step <= Steps /\ Steps < requests[i].step
        BY <2>5, <3>1, <3>3 DEF HelloStage
      <4>3. requests[i].step \in Nat
        <5>1. requests[i] \in Requests /\ requests[i].cmd = "hello"
          BY <2>3, <2>5 DEF Typed, TypeOK, HelloStage
        <5>2. requests[i] \in [cmd : {"hello"}, step : 1 .. Steps + 1]
          BY <5>1, OpcodesApart DEF Requests, Plain
        <5>3. QED
          BY <5>2 DEF Steps
      <4>4. QED
        BY <4>2, <4>3 DEF Steps
    <3>5. Gate("4100") \in Requests /\ Gate("4100").cmd = "4100"
      BY FramesTyped DEF Gate
    <3>6. \A i \in DOMAIN requests' : requests'[i] = Gate("4100")
      BY <2>3, <3>2, <3>4, <3>5, RequestsMove
    <3>7. NoHello' /\ GateStage'
      BY <3>2, <3>5, <3>6 DEF NoHello, GateStage, Gating, Writing, GateCmds
    <3>8. WriteStage'
      <4>1. Held(requests', requests, 0, Opcodes)
        BY <2>3, <3>2, <3>5, RequestsHeld, OpcodesApart
      <4>2. QED
        BY <2>3, <2>5, <2>6, <3>2, <4>1, WriteRests
    <3>9. QED
      BY <3>2, <3>7, <3>8
  <2>9. QED
    <3>1. task.step \in 1 .. Steps
      BY <2>2, <2>3 DEF Typed, TaskOK
    <3>2. QED
      BY <2>7, <2>8, <3>1 DEF Steps
<1>4. QED
  BY <1>1, <1>2, <1>3

(* The station takes the first request.                                    *)
LEMMA ServedMoves ==
    ASSUME Typed, requests # <<>>, requests' = Tail(requests)
    PROVE  /\ \A C : Held(requests', requests, 1, C)
           /\ \A i \in DOMAIN requests' : i + 1 \in DOMAIN requests /\ requests'[i] = requests[i + 1]
           /\ 1 \in DOMAIN requests /\ Head(requests) = requests[1]
           /\ \A i \in DOMAIN requests' : i + 1 # 1
<1>1. \A C : Held(requests', requests, 1, C)
  BY RequestsHeld
<1>2. \A i \in DOMAIN requests' : i \in 1 .. Len(requests')
  <2>1. requests \in Seq(Requests)
    BY DEF Typed, TypeOK
  <2>2. requests' \in Seq(Requests)
    BY <2>1
  <2>3. QED
    BY <2>2
<1>3. \A i \in DOMAIN requests' : i + 1 # 1
  BY <1>2
<1>4. QED
  BY <1>1, <1>3, RequestsMove

(* Nothing of the calls changes.                                           *)
LEMMA StationApart ==
    ASSUME Press \/ ServeHello \/ ServeGate \/ ServeWrite \/ ServeSubscribe \/ Ignore \/ Push
    PROVE  pc' = pc /\ task' = task /\ authed' = authed /\ stray' = stray /\ gen' = gen
BY DEF Press, ServeHello, ServeGate, ServeWrite, ServeSubscribe, Ignore, Push,
       stationVars, cacheVars

LEMMA PassiveSession ==
    ASSUME Kept, Typed', Press \/ ServeSubscribe \/ Ignore \/ Push
    PROVE  Session'
<1>1. /\ pc' = pc /\ task' = task /\ authed' = authed /\ stray' = stray /\ gen' = gen
      /\ gated' = gated /\ limits' = limits
  BY StationApart DEF Press, ServeSubscribe, Ignore, Push, stationVars
<1>2. Typed /\ Standing /\ requests' \in Seq(Requests) /\ line' \in Seq(Packets)
  BY DEF Kept, Typed, TypeOK
<1>3. SUFFICES ASSUME Calm, pc # "off"
               PROVE  /\ pc = "hello" => HelloStage'
                      /\ pc # "hello" => NoHello'
                      /\ pc # "hello" /\ ~gated => GateStage'
                      /\ WriteStage'
  BY <1>1 DEF Session, Calm, Kept
<1>4. /\ pc = "hello" => HelloStage
      /\ pc # "hello" => NoHello
      /\ pc # "hello" /\ ~gated => GateStage
      /\ WriteStage
  BY <1>3 DEF Kept, Session
<1>5. PICK d \in {0, 1} :
         /\ \A C : Held(requests', requests, d, C)
         /\ \A i \in DOMAIN requests' : i + d \in DOMAIN requests /\ requests'[i] = requests[i + d]
  <2>1. CASE requests' = requests
    <3>1. \A i \in DOMAIN requests : i + 0 = i
      BY <1>2, RequestsMove
    <3>2. QED
      BY <2>1, <3>1 DEF Held
  <2>2. CASE requests # <<>> /\ requests' = Tail(requests)
    BY <1>2, <2>2, ServedMoves
  <2>3. QED
    BY <2>1, <2>2 DEF Press, ServeSubscribe, Ignore, Push
<1>6. /\ HeldPackets(line', line, 0, {"ack"}) /\ HeldPackets(line', line, 0, {"hello"})
      /\ ~gated => line' = line
  <2>1. CASE Push
    <3>1. gated
      BY <1>2, <1>3, <2>1 DEF Push, Standing, Calm
    <3>2. QED
      BY <1>2, <2>1, <3>1, PushHeld
  <2>2. CASE Press \/ ServeSubscribe \/ Ignore
    <3>1. line' = line
      BY <2>2 DEF Press, ServeSubscribe, Ignore
    <3>2. QED
      BY <1>2, <3>1, LineHeld
  <2>3. QED
    BY <2>1, <2>2
<1>7. WriteStage'
  BY <1>1, <1>2, <1>4, <1>5, <1>6, WriteKept
<1>8. pc # "hello" => NoHello'
  BY <1>4, <1>5, NoHelloKept
<1>9. pc # "hello" /\ ~gated => GateStage'
  BY <1>1, <1>2, <1>4, <1>5, <1>6, GateKept
<1>10. pc = "hello" => HelloStage'
  <2>1. SUFFICES ASSUME pc = "hello" PROVE HelloStage'
    OBVIOUS
  <2>2. \A j \in DOMAIN line' : line'[j].type \in {"hello", "fragment"}
    <3>1. \A j \in DOMAIN line : line[j].type \in {"hello", "fragment"}
      BY <1>4, <2>1 DEF HelloStage
    <3>2. \A n, m : Fragment(n, m).type = "fragment"
      BY DEF Fragment
    <3>3. CASE Push
      BY <1>2, <3>1, <3>2, <3>3, PushMoves
    <3>4. CASE line' = line
      BY <3>1, <3>4
    <3>5. QED
      BY <3>3, <3>4 DEF Press, ServeSubscribe, Ignore
  <2>3. QED
    BY <1>1, <1>2, <1>4, <1>5, <1>6, <2>1, <2>2, HelloKept
<1>11. QED
  BY <1>7, <1>8, <1>9, <1>10

LEMMA ServeHelloSession ==
    ASSUME Kept, Typed', ServeHello
    PROVE  Session'
<1>1. /\ pc' = pc /\ task' = task /\ authed' = authed /\ stray' = stray /\ gen' = gen
      /\ requests # <<>> /\ Head(requests).cmd = "hello" /\ requests' = Tail(requests)
  BY StationApart DEF ServeHello
<1>2. Typed /\ Standing /\ requests' \in Seq(Requests) /\ line' \in Seq(Packets)
  BY DEF Kept, Typed, TypeOK
<1>3. SUFFICES ASSUME Calm, pc # "off" PROVE Session'
  BY <1>1 DEF Session, Calm
<1>4. pc = "hello" /\ HelloStage /\ WriteStage /\ ~Writing
  <2>1. 1 \in DOMAIN requests /\ Head(requests) = requests[1]
    BY <1>1, <1>2, RequestsMove
  <2>2. QED
    BY <1>1, <1>3, <2>1 DEF Kept, Session, NoHello, Writing
<1>5. ~authed
  BY <1>2, <1>4 DEF Standing
<1> DEFINE n == requests[1].step
<1>6. /\ 1 \in DOMAIN requests /\ Head(requests) = requests[1]
      /\ \A i \in DOMAIN requests' :
           i + 1 \in DOMAIN requests /\ 1 < i + 1 /\ requests'[i] = requests[i + 1]
  BY <1>1, <1>2, RequestsMove
<1>7. n \in 1 .. Steps + 1 /\ n <= task.step /\ task.step \in Nat
  <2>1. task.step \in 1 .. Steps
    BY <1>2, <1>4 DEF Typed, TaskOK
  <2>2. QED
    BY <1>1, <1>2, <1>4, <1>6, <2>1, HelloTyped DEF HelloStage, Steps
<1>8. \/ line' = line
      \/ n <= Steps /\ line' = Append(line, Reply(n))
  BY <1>6 DEF ServeHello
<1>9. n <= Steps => /\ Reply(n) \in Packets /\ Reply(n).type = "hello" /\ Reply(n).step = n
  BY <1>7, FramesTyped DEF Reply, Steps
<1>10. \A j \in DOMAIN line' :
          \/ j \in DOMAIN line /\ line'[j] = line[j]
          \/ line'[j].type = "hello" /\ line'[j].step = n
  <2>1. CASE line' = line
    BY <2>1
  <2>2. CASE n <= Steps /\ line' = Append(line, Reply(n))
    BY <1>2, <1>9, <2>2, LineMoves
  <2>3. QED
    BY <1>8, <2>1, <2>2
<1> HIDE DEF n
<1>11. HelloStage'
  <2>1. ASSUME NEW i \in DOMAIN requests'
        PROVE  /\ requests'[i].cmd = "hello" /\ requests'[i].step <= task'.step
               /\ \A j \in DOMAIN requests' : i < j => requests'[i].step < requests'[j].step
               /\ \A j \in DOMAIN line' :
                    line'[j].type = "hello" => line'[j].step < requests'[i].step
    <3>1. i + 1 \in DOMAIN requests /\ 1 < i + 1 /\ requests'[i] = requests[i + 1]
      BY <1>6
    <3>2. ASSUME NEW j \in DOMAIN requests', i < j
          PROVE  requests'[i].step < requests'[j].step
      <4>1. j + 1 \in DOMAIN requests /\ requests'[j] = requests[j + 1]
        BY <1>6
      <4>2. i + 1 < j + 1
        <5>1. i \in Nat /\ j \in Nat
          BY <1>2
        <5>2. QED
          BY <3>2, <5>1
      <4>3. QED
        BY <1>4, <3>1, <4>1, <4>2 DEF HelloStage
    <3>3. n < requests[i + 1].step
      BY <1>4, <1>6, <3>1 DEF HelloStage, n
    <3>4. ASSUME NEW j \in DOMAIN line', line'[j].type = "hello"
          PROVE  line'[j].step < requests'[i].step
      <4>1. CASE j \in DOMAIN line /\ line'[j] = line[j]
        BY <1>4, <3>1, <3>4, <4>1 DEF HelloStage
      <4>2. CASE line'[j].step = n
        BY <3>1, <3>3, <4>2
      <4>3. QED
        BY <1>10, <4>1, <4>2
    <3>5. QED
      BY <1>1, <1>4, <3>1, <3>2, <3>4 DEF HelloStage
  <2>2. ASSUME NEW j \in DOMAIN line'
        PROVE  /\ line'[j].type \in {"hello", "fragment"}
               /\ line'[j].type = "hello" => line'[j].step <= task'.step
    <3>1. CASE j \in DOMAIN line /\ line'[j] = line[j]
      BY <1>1, <1>4, <3>1 DEF HelloStage
    <3>2. CASE line'[j].type = "hello" /\ line'[j].step = n
      BY <1>1, <1>7, <3>2
    <3>3. QED
      BY <1>10, <3>1, <3>2
  <2>3. QED
    BY <2>1, <2>2 DEF HelloStage
<1>12. WriteStage'
  <2>1. HeldPackets(line', line, 0, {"ack"})
    <3>1. \A j \in DOMAIN line : j + 0 = j
      BY <1>2, LineMoves
    <3>2. QED
      BY <1>10, <3>1 DEF HeldPackets
  <2>2. Held(requests', requests, 1, Opcodes)
    BY <1>1, <1>2, RequestsHeld
  <2>3. QED
    BY <1>1, <1>2, <1>4, <2>1, <2>2, WriteRests
<1>13. QED
  BY <1>1, <1>4, <1>5, <1>11, <1>12 DEF Session

(* The gate: its answer is the only packet, and says unbound unless it     *)
(* lets the client pass.                                                   *)
LEMMA ServeGateSession ==
    ASSUME Kept, Typed', ServeGate
    PROVE  Session'
<1>1. /\ pc' = pc /\ task' = task /\ authed' = authed /\ stray' = stray /\ gen' = gen
      /\ requests # <<>> /\ Head(requests).cmd \in GateCmds /\ requests' = Tail(requests)
      /\ limits' = limits
  BY StationApart DEF ServeGate, GateCmds
<1>2. Typed /\ Standing /\ requests' \in Seq(Requests) /\ line' \in Seq(Packets)
  BY DEF Kept, Typed, TypeOK
<1>3. SUFFICES ASSUME Calm, pc # "off" PROVE Session'
  BY <1>1 DEF Session, Calm
<1>4. /\ \A C : Held(requests', requests, 1, C)
      /\ \A i \in DOMAIN requests' : i + 1 \in DOMAIN requests /\ requests'[i] = requests[i + 1]
      /\ 1 \in DOMAIN requests /\ Head(requests) = requests[1]
      /\ \A i \in DOMAIN requests' : i + 1 # 1
  BY <1>1, <1>2, ServedMoves
<1>5. PICK code \in {"ok", "unbound"} :
         /\ line' = Append(line, Status(code))
         /\ Head(requests).cmd = "4027" => code = IF bond THEN "ok" ELSE "unbound"
  BY DEF ServeGate
<1>6. /\ gated => gated'
      /\ Head(requests).cmd = "4027" /\ bond => gated'
  <2>1. CASE Head(requests).cmd = "4027"
    <3>1. gated' = (gated \/ bond)
      BY <2>1 DEF ServeGate
    <3>2. QED
      BY <3>1, Zenon
  <2>2. CASE Head(requests).cmd # "4027"
    <3>1. gated' = gated
      BY <2>2 DEF ServeGate
    <3>2. QED
      BY <2>2, <3>1, Zenon
  <2>3. QED
    BY <2>1, <2>2, Zenon
<1>7. Status(code) \in Packets /\ Status(code).type = "status" /\ Status(code).code = code
  <2>1. Status(code) \in Packets
    BY FramesTyped
  <2>2. QED
    BY <2>1 DEF Status
<1>8. pc # "hello"
  BY <1>1, <1>3, <1>4 DEF Kept, Session, HelloStage, GateCmds
<1>9. NoHello'
  BY <1>3, <1>4, <1>8, NoHelloKept DEF Kept, Session
<1>10. WriteStage'
  <2>1. HeldPackets(line', line, 0, {"ack"})
    BY <1>2, <1>5, <1>7, LineHeld
  <2>2. WriteStage
    BY <1>3 DEF Kept, Session
  <2>3. QED
    BY <1>1, <1>2, <1>4, <2>1, <2>2, WriteKept
<1>11. ~gated' => GateStage'
  <2>1. SUFFICES ASSUME ~gated' PROVE GateStage'
    OBVIOUS
  <2>2. GateStage
    BY <1>3, <1>6, <1>8, <2>1 DEF Kept, Session
  <2>3. /\ Gating /\ Head(requests).cmd = Gates[pc] /\ line = <<>>
        /\ \A j \in DOMAIN requests : requests[j].cmd \in GateCmds => j = 1
    BY <1>1, <1>4, <2>2 DEF GateStage
  <2>4. \A i \in DOMAIN requests' : requests'[i].cmd \notin GateCmds
    BY <1>4, <2>3
  <2>5. line' = <<Status(code)>>
    BY <1>5, <2>3
  <2>6. Len(line') = 1 /\ line'[1] = Status(code)
    BY <2>5
  <2>7. pc' = "gate_auth" => code = "unbound"
    BY <1>1, <1>5, <1>6, <2>1, <2>3 DEF Gates
  <2>8. /\ ~Writing' /\ pc' # "passed" /\ Gating'
    BY <1>1, <2>3 DEF Writing, Gating
  <2>9. QED
    BY <1>7, <2>4, <2>6, <2>7, <2>8 DEF GateStage
<1>12. authed' => gated'
  BY <1>1, <1>3, <1>6 DEF Kept, Session
<1>13. QED
  BY <1>1, <1>8, <1>9, <1>10, <1>11, <1>12 DEF Session

(* A write: the one under way is the one awaited, so its acknowledgement   *)
(* follows its effect.                                                     *)
LEMMA ServeWriteSession ==
    ASSUME Kept, Typed', ServeWrite
    PROVE  Session'
<1>1. /\ pc' = pc /\ task' = task /\ authed' = authed /\ stray' = stray /\ gen' = gen
      /\ requests # <<>> /\ Head(requests).cmd \in Opcodes /\ requests' = Tail(requests)
      /\ gated' = gated /\ line' = Append(line, Ack(Head(requests).cmd))
  BY StationApart DEF ServeWrite
<1>2. Typed /\ Standing /\ requests' \in Seq(Requests) /\ line' \in Seq(Packets)
  BY DEF Kept, Typed, TypeOK
<1>3. SUFFICES ASSUME Calm, pc # "off" PROVE Session'
  BY <1>1 DEF Session, Calm
<1>4. /\ \A C : Held(requests', requests, 1, C)
      /\ \A i \in DOMAIN requests' : i + 1 \in DOMAIN requests /\ requests'[i] = requests[i + 1]
      /\ 1 \in DOMAIN requests /\ Head(requests) = requests[1]
      /\ \A i \in DOMAIN requests' : i + 1 # 1
  BY <1>1, <1>2, ServedMoves
<1>5. /\ Writing /\ Head(requests) = Current
      /\ \A j \in DOMAIN requests : requests[j].cmd \in Opcodes => j = 1
      /\ \A j \in DOMAIN line : line[j].type # "ack"
  BY <1>1, <1>3, <1>4 DEF Kept, Session, WriteStage
<1>6. pc # "hello" /\ authed
  BY <1>2, <1>5 DEF Standing, Writing
<1>7. gated
  BY <1>3, <1>6 DEF Kept, Session
<1>8. NoHello'
  BY <1>3, <1>4, <1>6, NoHelloKept DEF Kept, Session
<1>9. Head(requests).cmd = Awaited /\ Ack(Awaited) \in Packets /\ Ack(Awaited).type = "ack"
  BY <1>1, <1>5, FramesTyped DEF Current, Awaited, Single, Write, Ack
<1>10. \A i \in DOMAIN requests' : requests'[i].cmd \notin Opcodes
  BY <1>4, <1>5
<1>11. \A i \in DOMAIN line' : line'[i].type = "ack" =>
         line'[i] = Ack(Awaited) /\ i = Len(line) + 1
  BY <1>1, <1>2, <1>5, <1>9, LineMoves
<1>12. /\ pc = "ack_max" => limits'["max"] = task.pair["max"]
       /\ pc = "ack_min" => limits'["min"] = task.pair["min"] /\ limits'["max"] = limits["max"]
  <2>1. limits \in [Fields -> Levels] /\ "max" \in Fields /\ "min" \in Fields
    BY <1>2 DEF Typed, TypeOK, Fields
  <2>2. ASSUME NEW f \in Fields, NEW v, Head(requests) = Write(f, v)
        PROVE  limits' = [limits EXCEPT ![f] = v]
    <3>1. Write(f, v).field = f /\ Write(f, v).value = v /\ "field" \in DOMAIN Write(f, v)
      BY DEF Write
    <3>2. limits' = [limits EXCEPT ![Head(requests).field] = Head(requests).value]
      BY <2>2, <3>1, Zenon DEF ServeWrite
    <3>3. QED
      BY <2>2, <3>1, <3>2, Zenon
  <2>3. CASE pc = "ack_max"
    <3>1. limits' = [limits EXCEPT !["max"] = task.pair["max"]]
      BY <1>5, <2>1, <2>2, <2>3 DEF Current
    <3>2. QED
      BY <2>1, <2>3, <3>1
  <2>4. CASE pc = "ack_min"
    <3>1. limits' = [limits EXCEPT !["min"] = task.pair["min"]]
      BY <1>5, <2>1, <2>2, <2>4 DEF Current
    <3>2. QED
      BY <2>1, <2>4, <3>1
  <2>5. QED
    BY <2>3, <2>4
<1>13. WriteStage'
  <2>1. Writing' = Writing /\ Awaited' = Awaited
    BY <1>1 DEF Writing, Awaited
  <2>2. pc = "ack_min" => limits["max"] = task.pair["max"]
    BY <1>3 DEF Kept, Session, WriteStage
  <2>3. task' = task /\ pc' = pc /\ Writing'
    BY <1>1, <1>5, <2>1
  <2>4. pc' = "ack_min" => limits'["max"] = task'.pair["max"]
    BY <1>12, <2>2, <2>3
  <2>5. ASSUME NEW i \in DOMAIN line', line'[i].type = "ack"
        PROVE  /\ line'[i] = Ack(Awaited')
               /\ \A j \in DOMAIN line' : line'[j].type = "ack" => j = i
               /\ pc' = "ack_max" => limits'["max"] = task'.pair["max"]
               /\ pc' = "ack_min" => limits'["min"] = task'.pair["min"]
    BY <1>11, <1>12, <2>1, <2>3, <2>5
  <2>6. QED
    BY <1>10, <2>3, <2>4, <2>5 DEF WriteStage
<1>14. QED
  BY <1>1, <1>6, <1>7, <1>8, <1>13 DEF Session

(* What neither the handshake nor the gate nor a write consists of.        *)
LEMMA AsideHeld ==
    ASSUME Typed, \/ requests' = requests
                  \/ requests' = Append(requests, Gate("4100"))
                  \/ requests' = Append(requests, Plain)
    PROVE  /\ Held(requests', requests, 0, {"hello"})
           /\ Held(requests', requests, 0, GateCmds)
           /\ Held(requests', requests, 0, Opcodes)
<1>1. /\ Gate("4100") \in Requests /\ Gate("4100").cmd = "4100"
      /\ Plain \in Requests /\ Plain.cmd = "plain"
  BY FramesTyped DEF Gate, Plain
<1>2. "4100" \notin Opcodes /\ "plain" \notin Opcodes
  BY OpcodesApart
<1>3. ASSUME NEW C, "4100" \notin C, "plain" \notin C
      PROVE  Held(requests', requests, 0, C)
  BY <1>1, <1>3, RequestsHeld
<1>4. QED
  BY <1>2, <1>3 DEF GateCmds

(* Between calls and while telemetry is awaited.                           *)
LEMMA RestSession ==
    ASSUME Kept, pc \in {"idle", "stream", "status"}, pc' \in {"idle", "stream", "status"},
           gen' = gen, stray' = stray, gated' = gated, authed' => authed,
           line' = line \/ (line # <<>> /\ line' = Tail(line)),
           \/ requests' = requests
           \/ requests' = Append(requests, Gate("4100"))
           \/ requests' = Append(requests, Plain)
    PROVE  Session'
<1>1. SUFFICES ASSUME Calm PROVE Session'
  BY DEF Session, Calm
<1>2. /\ Typed /\ NoHello /\ WriteStage
      /\ authed => gated
      /\ ~gated => GateStage
  BY <1>1 DEF Kept, Session
<1>3. /\ ~Writing /\ ~Gating /\ ~Writing' /\ ~Gating' /\ pc' # "passed" /\ pc' # "ack_min"
      /\ pc' # "hello"
  BY DEF Writing, Gating
<1>4. PICK e \in {0, 1} : HeldPackets(line', line, e, {"ack"})
  BY <1>2, LineHeld
<1>5. /\ Held(requests', requests, 0, {"hello"})
      /\ Held(requests', requests, 0, GateCmds)
      /\ Held(requests', requests, 0, Opcodes)
  BY <1>2, AsideHeld
<1>6. NoHello'
  BY <1>2, <1>5, NoHelloKept
<1>7. WriteStage'
  BY <1>2, <1>3, <1>4, <1>5, WriteRests
<1>8. ~gated => GateStage'
  BY <1>2, <1>3, <1>5, GateRests
<1>9. QED
  BY <1>2, <1>3, <1>6, <1>7, <1>8 DEF Session

(* A question of the gate, when nothing of an earlier one is left.         *)
LEMMA GateAsked ==
    ASSUME Kept, ~Writing, pc \notin {"off", "hello"}, Calm,
           Gating', pc' # "ack_min", authed' = authed, gated' = gated,
           requests' = Append(requests, Gate(Gates[pc'])),
           NEW e \in {0, 1}, HeldPackets(line', line, e, {"ack"}),
           ~gated => /\ \A i \in DOMAIN requests : requests[i].cmd \notin GateCmds
                     /\ line' = <<>>
    PROVE  Session'
<1> DEFINE g == Gate(Gates[pc'])
<1>1. /\ Typed /\ NoHello /\ WriteStage
      /\ authed => gated
  BY DEF Kept, Session
<1>2. Gates[pc'] \in GateCmds /\ ~Writing' /\ pc' \notin {"passed", "hello"}
  BY DEF Gating, Gates, GateCmds, Writing
<1>3. g \in Requests /\ g.cmd = Gates[pc']
  <2>1. g \in Requests
    BY <1>2, FramesTyped DEF GateCmds
  <2>2. QED
    BY <2>1 DEF Gate
<1>4. g.cmd # "hello" /\ g.cmd \notin Opcodes
  BY <1>2, <1>3, OpcodesApart DEF GateCmds
<1> HIDE DEF g
<1>5. requests' = Append(requests, g)
  BY DEF g
<1>6. NoHello'
  BY <1>1, <1>3, <1>4, <1>5, RequestsHeld, NoHelloKept
<1>7. WriteStage'
  BY <1>1, <1>3, <1>4, <1>5, RequestsHeld, WriteRests
<1>8. ~gated => GateStage'
  <2>1. SUFFICES ASSUME ~gated PROVE GateStage'
    OBVIOUS
  <2>2. \A i \in DOMAIN requests' : requests'[i].cmd \in GateCmds =>
          i = Len(requests) + 1 /\ requests'[i] = g
    BY <1>1, <1>3, <1>5, <2>1, RequestsMove
  <2>3. QED
    BY <1>2, <1>3, <2>1, <2>2 DEF GateStage
<1>9. QED
  BY <1>1, <1>2, <1>6, <1>7, <1>8 DEF Session

(* Nobody waits outside the gate for an answer of it.                      *)
LEMMA EnterSession ==
    ASSUME Kept, pc = "idle", NEW what, EnterGate(what), gen # "Gen1", gen' = gen,
           gated' = gated, authed' = authed, line' = line
    PROVE  Session'
<1>1. /\ pc' = "gate_key" /\ requests' = Append(requests, Gate("4022"))
      /\ ~stray' => ~stray /\ line = <<>>
  BY DEF EnterGate, Send
<1>2. SUFFICES ASSUME ~stray' PROVE Session'
  BY DEF Session, Calm
<1>3. Calm /\ Typed
  BY <1>1, <1>2 DEF Calm, Kept
<1>4. ~gated => /\ \A i \in DOMAIN requests : requests[i].cmd \notin GateCmds
                /\ line' = <<>>
  BY <1>1, <1>2, <1>3 DEF Kept, Session, GateStage, Gating
<1>5. HeldPackets(line', line, 0, {"ack"})
  BY <1>3, LineHeld
<1>6. /\ Gating' /\ ~Writing /\ Gates[pc'] = "4022"
  BY <1>1 DEF Gating, Writing, Gates
<1>7. QED
  BY <1>1, <1>3, <1>4, <1>5, <1>6, GateAsked

(* One answer is all there is, so the next question finds none.            *)
LEMMA GateAnswered ==
    ASSUME Kept, Calm, Gating, line # <<>>, line' = Tail(line)
    PROVE  /\ HeldPackets(line', line, 1, {"ack"})
           /\ ~gated => /\ \A i \in DOMAIN requests : requests[i].cmd \notin GateCmds
                        /\ line' = <<>>
                        /\ pc = "gate_auth" => CodesOf(Head(line)) = {"unbound"}
<1>1. Typed /\ line \in Seq(Packets)
  BY DEF Kept, Typed, TypeOK
<1>2. ~gated => GateStage
  BY DEF Kept, Session, Gating
<1>3. ASSUME GateStage
      PROVE  /\ \A i \in DOMAIN requests : requests[i].cmd \notin GateCmds
             /\ line' = <<>>
             /\ pc = "gate_auth" => CodesOf(Head(line)) = {"unbound"}
  <2>1. /\ Len(line) = 1 /\ line[1].type = "status"
        /\ pc = "gate_auth" => line[1].code = "unbound"
    BY <1>3 DEF GateStage
  <2>2. line' = <<>>
    BY <1>1, <2>1
  <2>3. Head(line) = line[1]
    BY <1>1
  <2>4. QED
    BY <1>3, <2>1, <2>2, <2>3 DEF GateStage, CodesOf
<1>4. QED
  BY <1>1, <1>2, <1>3, LineHeld

LEMMA GateAuthSession ==
    ASSUME Kept, GateAuth
    PROVE  Session'
<1>1. /\ pc = "gate_auth" /\ line # <<>> /\ line' = Tail(line) /\ Gating /\ ~Writing
      /\ gen' = gen /\ gated' = gated /\ stray' = stray
  BY DEF GateAuth, stationVars, Gating, Writing
<1>2. SUFFICES ASSUME Calm PROVE Session'
  BY <1>1 DEF Session, Calm
<1>3. /\ Typed /\ NoHello /\ WriteStage
      /\ authed => gated
  BY <1>1, <1>2 DEF Kept, Session
<1>4. /\ HeldPackets(line', line, 1, {"ack"})
      /\ ~gated => /\ \A i \in DOMAIN requests : requests[i].cmd \notin GateCmds
                   /\ line' = <<>>
                   /\ CodesOf(Head(line)) = {"unbound"}
  BY <1>1, <1>2, GateAnswered
<1>5. CASE "ok" \in CodesOf(Head(line)) /\ Pass
  <2>1. gated
    BY <1>4, <1>5
  <2>2. /\ requests' = Append(requests, Gate("4100")) /\ pc' \in {"idle", "passed"}
    BY <1>5 DEF Pass, Send, Return
  <2>3. NoHello'
    BY <1>3, <2>2, AsideHeld, NoHelloKept
  <2>4. WriteStage'
    BY <1>1, <1>3, <1>4, <2>2, AsideHeld, WriteRests
  <2>5. QED
    BY <1>1, <2>1, <2>2, <2>3, <2>4 DEF Session
<1>6. CASE Refuse
  <2>1. authed' = authed
    BY <1>6 DEF Refuse
  <2>2. CASE task.for = "pair"
    <3>1. requests' = Append(requests, Gate("4023")) /\ pc' = "bond"
      BY <1>6, <2>2 DEF Refuse, Send
    <3>2. Gating' /\ Gates[pc'] = "4023"
      BY <3>1 DEF Gating, Gates
    <3>3. QED
      BY <1>1, <1>2, <1>4, <2>1, <3>1, <3>2, GateAsked
  <2>3. CASE task.for # "pair"
    <3>1. requests' = requests /\ pc' = "idle"
      BY <1>6, <2>3 DEF Refuse, Return
    <3>2. NoHello'
      BY <1>3, <3>1, AsideHeld, NoHelloKept
    <3>3. WriteStage'
      BY <1>1, <1>3, <1>4, <3>1, AsideHeld, WriteRests
    <3>4. ~gated => GateStage'
      BY <1>4, <3>1 DEF GateStage, Writing, Gating
    <3>5. QED
      BY <1>1, <1>3, <2>1, <3>1, <3>2, <3>3, <3>4 DEF Session
  <2>4. QED
    BY <2>2, <2>3
<1>7. QED
  BY <1>5, <1>6 DEF GateAuth

LEMMA GateSession ==
    ASSUME Kept, Authenticate \/ GateKey \/ GateAuth \/ Bonded \/ GateSilent \/ Forget
    PROVE  Session'
<1>1. CASE Authenticate
  BY <1>1, EnterSession DEF Authenticate, MayCall, stationVars, cacheVars
<1>2. CASE GateKey \/ Bonded
  <2>1. /\ Gating /\ ~Writing /\ line # <<>> /\ line' = Tail(line)
        /\ gen' = gen /\ gated' = gated /\ stray' = stray /\ authed' = authed
    BY <1>2 DEF GateKey, Bonded, Gating, Writing, stationVars, cacheVars
  <2>2. Gating' /\ pc' # "ack_min" /\ requests' = Append(requests, Gate(Gates[pc']))
    BY <1>2 DEF GateKey, Bonded, Gating, Gates, Send
  <2>3. SUFFICES ASSUME Calm PROVE Session'
    BY <2>1 DEF Session, Calm
  <2>4. pc \notin {"off", "hello"}
    BY <2>1 DEF Gating
  <2>5. QED
    BY <2>1, <2>2, <2>3, <2>4, GateAnswered, GateAsked
<1>3. CASE GateAuth
  BY <1>3, GateAuthSession
<1>4. CASE GateSilent
  BY <1>4 DEF GateSilent, Session, Calm
<1>5. CASE Forget
  BY <1>5, RestSession DEF Forget, MayCall, stationVars
<1>6. QED
  BY <1>1, <1>2, <1>3, <1>4, <1>5

(* A write is asked when none is under way.                                *)
LEMMA WriteAsked ==
    ASSUME Kept, pc \notin {"off", "hello"}, authed, authed' = authed, Writing',
           gen' = gen, stray' = stray, gated' = gated,
           NEW r \in Requests, r.cmd \in Opcodes, r = Current', requests' = Append(requests, r),
           Calm => \A i \in DOMAIN requests : requests[i].cmd \notin Opcodes,
           Calm => \A i \in DOMAIN line' : line'[i].type # "ack",
           Calm /\ pc' = "ack_min" => limits'["max"] = task'.pair["max"]
    PROVE  Session'
<1>1. SUFFICES ASSUME Calm PROVE Session'
  BY DEF Session, Calm
<1>2. /\ Typed /\ NoHello /\ gated
  BY <1>1 DEF Kept, Session
<1>3. \A i \in DOMAIN requests' :
        \/ i \in DOMAIN requests /\ requests'[i] = requests[i]
        \/ i = Len(requests) + 1 /\ requests'[i] = r
  BY <1>2, RequestsMove
<1>4. NoHello'
  <2>1. r.cmd # "hello"
    BY OpcodesApart
  <2>2. QED
    BY <1>2, <1>3, <2>1 DEF NoHello
<1>5. \A i \in DOMAIN requests' : requests'[i].cmd \in Opcodes =>
        requests'[i] = r /\ i = Len(requests) + 1
  BY <1>1, <1>3
<1>6. WriteStage'
  BY <1>1, <1>5 DEF WriteStage
<1>7. QED
  BY <1>2, <1>4, <1>6, Zenon DEF Session, Writing

(* The first frame of a write, or none.                                    *)
LEMMA BeginSession ==
    ASSUME Kept, Typed', pc \in {"idle", "passed"}, authed, authed' = authed,
           gen' = gen, stray' = stray, gated' = gated, line' = line,
           \/ \E what : BeginLimits(what) \/ BeginSingle(what)
           \/ Return /\ requests' = requests
    PROVE  Session'
<1>1. Typed /\ ~Writing
  BY DEF Kept, Writing
<1>2. Calm => /\ NoHello /\ WriteStage /\ gated
              /\ \A i \in DOMAIN requests : requests[i].cmd \notin Opcodes
              /\ \A i \in DOMAIN line' : line'[i].type # "ack"
  BY <1>1 DEF Kept, Session, WriteStage
<1>3. CASE pc' = "ack_max" /\ requests' = Append(requests, Write("max", task'.pair["max"]))
  <2> DEFINE r == Write("max", task'.pair["max"])
  <2>1. task'.pair["max"] \in Levels
    BY <1>3 DEF Typed, TaskOK, Fields
  <2>2. r \in Requests /\ r.cmd \in Opcodes
    BY <2>1, FramesTyped, OpcodesApart DEF Fields, Write
  <2>3. r = Current' /\ Writing'
    BY <1>3 DEF Current, Writing
  <2> HIDE DEF r
  <2>4. requests' = Append(requests, r)
    BY <1>3 DEF r
  <2>5. pc' # "ack_min"
    BY <1>3
  <2>6. QED
    BY <1>2, <2>2, <2>3, <2>4, <2>5, WriteAsked
<1>4. CASE pc' = "ack_single" /\ requests' = Append(requests, Single(task'.setting))
  <2> DEFINE r == Single(task'.setting)
  <2>1. task'.setting \in Chosen
    BY <1>4 DEF Typed, TaskOK, SingleTasks
  <2>2. r \in Requests /\ r.cmd \in Opcodes
    BY <2>1, FramesTyped, OpcodesApart DEF Single
  <2>3. r = Current' /\ Writing'
    BY <1>4 DEF Current, Writing
  <2> HIDE DEF r
  <2>4. requests' = Append(requests, r)
    BY <1>4 DEF r
  <2>5. pc' # "ack_min"
    BY <1>4
  <2>6. QED
    BY <1>2, <2>2, <2>3, <2>4, <2>5, WriteAsked
<1>5. CASE pc' = "idle" /\ requests' = requests
  <2>1. SUFFICES ASSUME Calm PROVE Session'
    BY DEF Session, Calm
  <2>2. NoHello' /\ WriteStage'
    BY <1>1, <1>2, <1>5, <2>1, AsideHeld, LineHeld, NoHelloKept, WriteRests
  <2>3. QED
    BY <1>2, <1>5, <2>1, <2>2 DEF Session
<1>6. QED
  <2>1. ASSUME NEW what, BeginLimits(what)
        PROVE  \/ pc' = "ack_max" /\ requests' = Append(requests, Write("max", task'.pair["max"]))
               \/ pc' = "idle" /\ requests' = requests
    BY <2>1 DEF BeginLimits, Return, Send
  <2>2. ASSUME NEW what, BeginSingle(what)
        PROVE  pc' = "ack_single" /\ requests' = Append(requests, Single(task'.setting))
    BY <2>2 DEF BeginSingle, Send
  <2>3. QED
    BY <1>3, <1>4, <1>5, <2>1, <2>2 DEF Return

LEMMA ExecuteSession ==
    ASSUME Kept, Typed',
           \/ \E f \in Fields, v \in Levels : SetLimit(f, v)
           \/ \E s \in Chosen : Set(s)
           \/ \E id \in {"ac", "dc", "light", "display"} : Control(id)
           \/ Passed
    PROVE  Session'
<1>1. ASSUME NEW f \in Fields, NEW v \in Levels, SetLimit(f, v)
      PROVE  Session'
  <2> DEFINE what == [for |-> "limit", field |-> f, value |-> v]
  <2>1. /\ pc = "idle" /\ gen # "Gen1" /\ gen' = gen /\ gated' = gated /\ authed' = authed
        /\ line' = line
        /\ \/ authed /\ BeginLimits(what) /\ stray' = stray
           \/ EnterGate(what)
    BY <1>1 DEF SetLimit, MayCall, stationVars
  <2> HIDE DEF what
  <2>2. QED
    BY <2>1, BeginSession, EnterSession
<1>2. ASSUME NEW s \in Chosen, Set(s)
      PROVE  Session'
  <2> DEFINE what == [for |-> "single", setting |-> s]
  <2>1. /\ pc = "idle" /\ gen # "Gen1" /\ gen' = gen /\ gated' = gated /\ authed' = authed
        /\ line' = line
        /\ \/ authed /\ BeginSingle(what) /\ stray' = stray
           \/ EnterGate(what)
    BY <1>2 DEF Set, MayCall, stationVars, cacheVars
  <2> HIDE DEF what
  <2>2. QED
    BY <2>1, BeginSession, EnterSession
<1>3. ASSUME NEW id, Control(id)
      PROVE  Session'
  BY <1>3, RestSession DEF Control, MayCall, Send, stationVars, cacheVars
<1>4. CASE Passed
  <2>1. authed
    BY <1>4 DEF Passed, Kept, Standing
  <2>2. /\ pc = "passed" /\ gen' = gen /\ gated' = gated /\ authed' = authed
        /\ line' = line /\ stray' = stray
        /\ \/ BeginLimits(task) \/ BeginSingle(task)
           \/ Return /\ requests' = requests
    BY <1>4 DEF Passed, stationVars
  <2>3. QED
    BY <2>1, <2>2, BeginSession
<1>5. QED
  BY <1>1, <1>2, <1>3, <1>4

LEMMA AnswerSession ==
    ASSUME Kept, Typed', Skip \/ Acknowledged \/ WriteSilent
    PROVE  Session'
<1>1. Typed /\ requests' \in Seq(Requests) /\ line' \in Seq(Packets)
  BY DEF Kept, Typed, TypeOK
<1>2. authed /\ Writing /\ pc \notin {"off", "hello"}
  BY DEF Kept, Standing, Skip, Acknowledged, WriteSilent, Writing
<1>3. Calm => NoHello /\ WriteStage /\ gated
  BY <1>2 DEF Kept, Session
<1>4. CASE Skip
  <2>1. /\ gen' = gen /\ stray' = stray /\ gated' = gated /\ authed' = authed /\ limits' = limits
        /\ pc' = pc /\ task' = task /\ requests' = requests
        /\ line # <<>> /\ line' = Tail(line)
    BY <1>4 DEF Skip, stationVars, cacheVars
  <2>2. SUFFICES ASSUME Calm PROVE Session'
    BY <2>1 DEF Session, Calm
  <2>3. NoHello'
    BY <1>1, <1>3, <2>1, <2>2, AsideHeld, NoHelloKept
  <2>4. WriteStage'
    BY <1>1, <1>3, <2>1, <2>2, AsideHeld, LineHeld, WriteKept
  <2>5. QED
    BY <1>2, <1>3, <2>1, <2>2, <2>3, <2>4 DEF Session
<1>5. CASE Acknowledged
  <2>1. /\ gen' = gen /\ stray' = stray /\ gated' = gated /\ authed' = authed /\ limits' = limits
        /\ Head(line) = Ack(Awaited) /\ line # <<>> /\ line' = Tail(line)
    BY <1>5 DEF Acknowledged, stationVars
  <2>2. /\ line[1] = Ack(Awaited) /\ 1 \in DOMAIN line /\ line[1].type = "ack"
        /\ \A i \in DOMAIN line' : i + 1 \in DOMAIN line /\ line'[i] = line[i + 1]
    <3>1. \A c : Ack(c).type = "ack"
      BY DEF Ack
    <3>2. /\ line[1] = Ack(Awaited) /\ 1 \in DOMAIN line
          /\ \A i \in DOMAIN line' : i + 1 \in DOMAIN line /\ line'[i] = line[i + 1]
      BY <1>1, <2>1, LineMoves
    <3>3. QED
      BY <3>1, <3>2
  <2>3. \A i \in DOMAIN line' : i + 1 # 1
    BY <1>1
  <2>4. Calm => /\ \A i \in DOMAIN requests : requests[i].cmd \notin Opcodes
                /\ \A i \in DOMAIN line' : line'[i].type # "ack"
                /\ pc = "ack_max" => limits["max"] = task.pair["max"]
    BY <1>3, <2>2, <2>3 DEF WriteStage
  <2>5. CASE pc = "ack_max"
    <3> DEFINE r == Write("min", task.pair["min"])
    <3>1. /\ requests' = Append(requests, r) /\ pc' = "ack_min" /\ task' = task
      BY <1>5, <2>5 DEF Acknowledged, Send
    <3>2. task.pair["min"] \in Levels
      BY <1>1, <2>5 DEF Typed, TaskOK, Fields
    <3>3. r \in Requests /\ r.cmd \in Opcodes
      BY <3>2, FramesTyped, OpcodesApart DEF Fields, Write
    <3>4. r = Current' /\ Writing'
      BY <3>1 DEF Current, Writing
    <3> HIDE DEF r
    <3>5. Calm => limits'["max"] = task'.pair["max"]
      BY <2>1, <2>4, <2>5, <3>1
    <3>6. QED
      BY <1>2, <2>1, <2>4, <3>1, <3>3, <3>4, <3>5, WriteAsked
  <2>6. CASE pc # "ack_max"
    <3>1. pc' = "idle" /\ requests' = requests
      BY <1>5, <2>6 DEF Acknowledged, Return
    <3>2. SUFFICES ASSUME Calm PROVE Session'
      BY <2>1 DEF Session, Calm
    <3>3. NoHello'
      BY <1>1, <1>3, <3>1, <3>2, AsideHeld, NoHelloKept
    <3>4. WriteStage'
      BY <2>4, <3>1, <3>2 DEF WriteStage
    <3>5. QED
      BY <1>3, <2>1, <3>1, <3>2, <3>3, <3>4 DEF Session
  <2>7. QED
    BY <2>5, <2>6
<1>6. CASE WriteSilent
  BY <1>6 DEF WriteSilent, Session, Calm
<1>7. QED
  BY <1>4, <1>5, <1>6

LEMMA ListenSession ==
    ASSUME Kept, Follow \/ Unfollow \/ Hear \/ Overhear \/ ListenSilent
    PROVE  Session'
<1>1. /\ pc \in {"idle", "stream", "status"} /\ pc' \in {"idle", "stream", "status"}
      /\ gen' = gen /\ stray' = stray /\ gated' = gated /\ authed' = authed
      /\ line' = line \/ (line # <<>> /\ line' = Tail(line))
      /\ requests' = requests \/ requests' = Append(requests, Gate("4100"))
  BY DEF Follow, Unfollow, Hear, Overhear, ListenSilent, Listening, MayCall, Send,
         stationVars, cacheVars
<1>2. QED
  BY <1>1, RestSession

LEMMA KeptStart == Init => Kept
<1> SUFFICES ASSUME Init PROVE Kept
  OBVIOUS
<1>1. Typed
  BY TypedStart
<1>2. Session
  BY DEF Init, Session
<1>3. Standing
  BY DEF Init, Standing, NewClient, Gating, Writing
<1>4. QED
  BY <1>1, <1>2, <1>3 DEF Kept

LEMMA SessionSame == Session /\ UNCHANGED vars => Session'
BY DEF vars, stationVars, cacheVars, Session, Calm, HelloStage, NoHello, GateStage, WriteStage,
       Writing, Gating, Current, Awaited

LEMMA KeptStep == Kept /\ [Next]_vars => Kept'
<1> SUFFICES ASSUME Kept, [Next]_vars PROVE Kept'
  OBVIOUS
<1>1. Typed'
  BY TypedStep DEF Kept
<1>2. Standing'
  BY StandingStep DEF Kept
<1>3. Session'
  <2>1. CASE UNCHANGED vars
    BY <2>1, SessionSame DEF Kept
  <2>2. CASE Next
    BY <1>1, <2>2, LinkSession, HandshakeSession, PassiveSession, ServeHelloSession,
       ServeGateSession, ServeWriteSession, GateSession, ExecuteSession, AnswerSession,
       ListenSession DEF Next
  <2>3. QED
    BY <2>1, <2>2
<1>4. QED
  BY <1>1, <1>2, <1>3 DEF Kept

LEMMA KeptAlways == Spec => []Kept
BY KeptStart, KeptStep, PTL DEF Spec

(* While every gate and write gets its answer, a client that counts itself *)
(* authenticated is bound and has passed the gate of this session, for any *)
(* number of packets under way (anker.rs:335-340).                         *)
THEOREM AuthedHonestly == Spec => []AuthedBound
<1>1. Kept => AuthedBound
  <2>1. SUFFICES ASSUME Kept, ~stray, authed PROVE bond /\ gated
    BY DEF AuthedBound
  <2>2. gen # "Gen1" /\ pc # "off"
    BY <2>1 DEF Kept, Standing
  <2>3. gated
    BY <2>1, <2>2 DEF Kept, Session, Calm
  <2>4. QED
    BY <2>1, <2>3 DEF Kept, Standing
<1>2. QED
  BY <1>1, KeptAlways, PTL

(* The acknowledgement found is the only one, of the write awaited.        *)
LEMMA DoneWhenAcknowledged ==
    ASSUME Kept, Acknowledged, pc # "ack_max", ~stray
    PROVE  Done
<1>1. /\ Writing /\ line # <<>> /\ Head(line) = Ack(Awaited)
  BY DEF Acknowledged
<1>2. Typed /\ WriteStage
  BY <1>1 DEF Kept, Session, Standing, Calm, Writing
<1>3. /\ 1 \in DOMAIN line /\ line[1].type = "ack"
  <2>1. \A c : Ack(c).type = "ack"
    BY DEF Ack
  <2>2. QED
    BY <1>1, <1>2, <2>1, LineMoves
<1>4. CASE pc = "ack_single"
  <2>1. \A i \in DOMAIN requests : requests[i].cmd \notin Opcodes
    BY <1>2, <1>3 DEF WriteStage
  <2>2. Single(task.setting).cmd \in Opcodes
    <3>1. task.setting \in Chosen
      BY <1>2, <1>4 DEF Typed, TaskOK, SingleTasks
    <3>2. QED
      BY <3>1, OpcodesApart DEF Single
  <2>3. QED
    BY <1>4, <2>1, <2>2 DEF Done
<1>5. CASE pc = "ack_min"
  <2>1. limits["max"] = task.pair["max"] /\ limits["min"] = task.pair["min"]
    BY <1>2, <1>3, <1>5 DEF WriteStage
  <2>2. limits \in [Fields -> Levels] /\ task.pair \in [Fields -> Levels]
    BY <1>2, <1>5 DEF Typed, TypeOK, TaskOK
  <2>3. limits = task.pair
    BY <2>1, <2>2 DEF Fields
  <2>4. QED
    BY <1>5, <2>3 DEF Done
<1>6. QED
  BY <1>1, <1>4, <1>5 DEF Writing

LEMMA DoneStep == Kept /\ DoneApplied /\ [Next]_vars => DoneApplied'
<1> SUFFICES ASSUME Kept, DoneApplied, [Next]_vars, ~stray' PROVE applied'
  BY DEF DoneApplied
<1>1. CASE applied' = applied /\ (stray => stray')
  BY <1>1 DEF DoneApplied
<1>2. CASE Connect \/ HangUp
  BY <1>2 DEF Connect, HangUp, ClientIs, NewClient
<1>3. CASE Acknowledged
  <2>1. ~stray /\ applied
    BY <1>3 DEF Acknowledged, DoneApplied
  <2>2. CASE pc = "ack_max"
    BY <1>3, <2>1, <2>2 DEF Acknowledged
  <2>3. CASE pc # "ack_max"
    <3>1. applied' = (applied /\ Done)
      BY <1>3, <2>3 DEF Acknowledged
    <3>2. Done
      BY <1>3, <2>1, <2>3, DoneWhenAcknowledged
    <3>3. QED
      BY <2>1, <3>1, <3>2, Zenon
  <2>4. QED
    BY <2>2, <2>3
<1>4. CASE UNCHANGED <<applied, stray>>
  BY <1>1, <1>4
<1>5. ASSUME NEW what, EnterGate(what), applied' = applied
      PROVE  applied'
  <2>1. ~stray
    BY <1>5 DEF EnterGate
  <2>2. QED
    BY <1>5, <2>1 DEF DoneApplied
<1>6. CASE Authenticate
  BY <1>5, <1>6 DEF Authenticate, historyVars
<1>7. ASSUME NEW f \in Fields, NEW v \in Levels, SetLimit(f, v)
      PROVE  applied'
  <2>1. applied' = applied
    BY <1>7 DEF SetLimit
  <2>2. CASE stray' = stray
    BY <1>4, <2>1, <2>2
  <2>3. CASE \E what : EnterGate(what)
    BY <1>5, <2>1, <2>3
  <2>4. QED
    BY <1>7, <2>2, <2>3 DEF SetLimit
<1>8. ASSUME NEW s \in Chosen, Set(s)
      PROVE  applied'
  <2>1. applied' = applied
    BY <1>8 DEF Set, historyVars
  <2>2. CASE stray' = stray
    BY <1>4, <2>1, <2>2
  <2>3. CASE \E what : EnterGate(what)
    BY <1>5, <2>1, <2>3
  <2>4. QED
    BY <1>8, <2>2, <2>3 DEF Set
<1>9. CASE GateSilent \/ WriteSilent
  BY <1>9 DEF GateSilent, WriteSilent
<1>10. ASSUME NEW id, Control(id)
       PROVE  applied'
  BY <1>4, <1>10 DEF Control, historyVars
<1>11. CASE \/ UNCHANGED vars
            \/ Negotiate \/ NegotiateSecure \/ HandshakeGivenUp
            \/ Press \/ ServeHello \/ ServeGate \/ ServeWrite \/ ServeSubscribe \/ Ignore \/ Push
            \/ GateKey \/ GateAuth \/ Bonded \/ Forget \/ Passed \/ Skip
            \/ Follow \/ Unfollow \/ Hear \/ Overhear \/ ListenSilent
  BY <1>4, <1>11
  DEF vars, historyVars, Negotiate, NegotiateSecure, HandshakeGivenUp, Press, ServeHello,
      ServeGate, ServeWrite, ServeSubscribe, Ignore, Push, GateKey, GateAuth, Bonded, Forget,
      Passed, Skip, Follow, Unfollow, Hear, Overhear, ListenSilent
<1>12. QED
  BY <1>2, <1>3, <1>6, <1>7, <1>8, <1>9, <1>10, <1>11 DEF Next

(* Under the same condition, a write that was reported as done has been    *)
(* done, both limits or the other setting (device.rs:549-626).             *)
THEOREM DoneHonestly == Spec => []DoneApplied
<1>1. Init => DoneApplied
  BY DEF Init, DoneApplied, NewClient
<1>2. QED
  BY <1>1, DoneStep, KeptAlways, PTL DEF Spec

-----------------------------------------------------------------------------
(* Telemetry: the two fragments of a message stand together in the row, so *)
(* what the fragmenter holds is told by the fragment that is next.         *)

IsFragment(packet, n) == packet.type = "fragment" /\ packet.index = n

InRow ==
    \A i \in DOMAIN line :
      /\ IsFragment(line[i], 1) =>
           /\ i + 1 \in DOMAIN line
           /\ IsFragment(line[i + 1], 2)
           /\ line[i + 1].message = line[i].message
      /\ IsFragment(line[i], 2) /\ i > 1 =>
           /\ IsFragment(line[i - 1], 1)
           /\ line[i - 1].message = line[i].message

SecondNext == line # <<>> /\ IsFragment(line[1], 2)

(* Between two fragments the first is held, unless it was passed over;     *)
(* otherwise nothing is, unless the second was.                            *)
Collecting ==
    IF SecondNext
      THEN \/ \E f \in frags : frags = {f} /\ f.index = 1 /\ f.message = line[1].message
           \/ frags = {} /\ skipped = 1
      ELSE frags = {} \/ (skipped = 1 /\ \E f \in frags : frags = {f})

Fragmented ==
    /\ InRow
    /\ skipped < 2 => WholeSnapshots /\ Collecting

Passing ==
    /\ line # <<>>
    /\ line' = Tail(line)
    /\ UNCHANGED <<frags, snapshot>>
    /\ \/ PassedOver(Head(line))
       \/ Head(line).type # "fragment" /\ skipped' = skipped

LEMMA RowChange ==
    ASSUME Typed, [Next]_vars
    PROVE  \/ UNCHANGED <<line, frags, snapshot, skipped>>
           \/ line' = <<>> /\ frags' = {} /\ snapshot' = {} /\ skipped' = 0
           \/ \E p \in Packets : /\ p.type # "fragment" /\ line' = Append(line, p)
                                 /\ UNCHANGED <<frags, snapshot, skipped>>
           \/ Push \/ Passing \/ Hear
<1> DEFINE Good == \/ UNCHANGED <<line, frags, snapshot, skipped>>
                   \/ line' = <<>> /\ frags' = {} /\ snapshot' = {} /\ skipped' = 0
                   \/ \E p \in Packets : /\ p.type # "fragment" /\ line' = Append(line, p)
                                         /\ UNCHANGED <<frags, snapshot, skipped>>
                   \/ Push \/ Passing \/ Hear
<1>1. CASE Connect \/ HangUp
  BY <1>1 DEF Connect, HangUp, ClientIs, NewClient
<1>2. CASE Negotiate
  <2>1. \E packet : Answered(packet) /\ UNCHANGED <<frags, snapshot>>
    BY <1>2 DEF Negotiate, historyVars
  <2>2. QED
    BY <2>1 DEF Answered, Passing
<1>3. CASE NegotiateSecure
  <2>1. \E packet : Answered(packet) /\ UNCHANGED <<frags, snapshot>>
    BY <1>3 DEF NegotiateSecure, historyVars
  <2>2. QED
    BY <2>1 DEF Answered, Passing
<1>4. CASE ServeHello
  <2>1. UNCHANGED <<frags, snapshot, skipped>>
    BY <1>4 DEF ServeHello, historyVars
  <2>2. CASE line' = line
    BY <2>1, <2>2
  <2>3. CASE Head(requests).step <= Steps /\ line' = Append(line, Reply(Head(requests).step))
    <3> DEFINE n == Head(requests).step
    <3>1. n \in 1 .. Steps + 1
      BY <1>4, HelloTyped DEF ServeHello
    <3>2. n \in 1 .. Steps
      BY <2>3, <3>1 DEF Steps
    <3> HIDE DEF n
    <3>3. Reply(n) \in Packets /\ Reply(n).type # "fragment"
      BY <3>2, FramesTyped DEF Reply
    <3>4. line' = Append(line, Reply(n))
      BY <2>3 DEF n
    <3>5. QED
      BY <2>1, <3>3, <3>4
  <2>4. QED
    BY <1>4, <2>2, <2>3 DEF ServeHello
<1>5. CASE ServeGate
  <2>1. \E code \in {"ok", "unbound"} : line' = Append(line, Status(code))
    BY <1>5 DEF ServeGate
  <2>2. \A code \in {"ok", "unbound"} : Status(code) \in Packets
    BY FramesTyped
  <2>3. \A code : Status(code).type # "fragment"
    BY DEF Status
  <2>4. UNCHANGED <<frags, snapshot, skipped>>
    BY <1>5 DEF ServeGate, historyVars
  <2>5. QED
    BY <2>1, <2>2, <2>3, <2>4
<1>6. CASE ServeWrite
  <2> DEFINE a == Ack(Head(requests).cmd)
  <2>1. line' = Append(line, a) /\ Head(requests).cmd \in Opcodes
    BY <1>6 DEF ServeWrite
  <2>2. a \in Packets /\ a.type # "fragment"
    BY <2>1, FramesTyped DEF Ack
  <2>3. UNCHANGED <<frags, snapshot, skipped>>
    BY <1>6 DEF ServeWrite, historyVars
  <2> HIDE DEF a
  <2>4. QED
    BY <2>1, <2>2, <2>3
<1>7. CASE GateKey \/ GateAuth \/ Bonded \/ Skip
  BY <1>7 DEF GateKey, GateAuth, Bonded, Skip, Passing, historyVars
<1>8. CASE Acknowledged
  <2>1. Head(line).type # "fragment"
    BY <1>8 DEF Acknowledged, Ack
  <2>2. QED
    BY <1>8, <2>1 DEF Acknowledged, Passing
<1>9. CASE Overhear
  BY <1>9 DEF Overhear, Passing, historyVars
<1>10. CASE Push \/ Hear
  BY <1>10
<1>11. ASSUME NEW f \in Fields, NEW v \in Levels, SetLimit(f, v) PROVE Good
  BY <1>11 DEF SetLimit
<1>12. ASSUME NEW s \in Chosen, Set(s) PROVE Good
  BY <1>12 DEF Set, historyVars
<1>13. ASSUME NEW id, Control(id) PROVE Good
  BY <1>13 DEF Control, historyVars
<1>14. CASE \/ UNCHANGED vars \/ HandshakeGivenUp \/ Press \/ ServeSubscribe \/ Ignore
            \/ Authenticate \/ GateSilent \/ Forget \/ Passed \/ WriteSilent
            \/ Follow \/ Unfollow \/ ListenSilent
  BY <1>14
  DEF vars, historyVars, HandshakeGivenUp, Press, ServeSubscribe, Ignore, Authenticate,
      GateSilent, Forget, Passed, WriteSilent, Follow, Unfollow, ListenSilent
<1> HIDE DEF Good
<1>15. QED
  BY <1>1, <1>2, <1>3, <1>4, <1>5, <1>6, <1>7, <1>8, <1>9, <1>10, <1>11, <1>12, <1>13, <1>14
  DEF Next, Good

LEMMA RowShortens ==
    ASSUME Typed, InRow, line # <<>>, line' = Tail(line)
    PROVE  /\ InRow'
           /\ IsFragment(Head(line), 1) =>
                /\ SecondNext'
                /\ line'[1].message = Head(line).message
           /\ ~IsFragment(Head(line), 1) => ~SecondNext'
<1>1. line \in Seq(Packets) /\ line' \in Seq(Packets)
  BY DEF Typed, TypeOK
<1> DEFINE n == Len(line)
<1>2. /\ n \in Nat /\ n >= 1 /\ DOMAIN line = 1 .. n /\ DOMAIN line' = 1 .. n - 1
      /\ \A i \in 1 .. n - 1 : line'[i] = line[i + 1]
      /\ Head(line) = line[1]
      /\ line' # <<>> <=> n > 1
  <2>1. line # <<>> /\ line' = Tail(line)
    OBVIOUS
  <2>2. Len(line) >= 1 /\ Head(line) = line[1] /\ DOMAIN line = 1 .. Len(line)
    BY <1>1, <2>1
  <2>3. /\ Len(line') = Len(line) - 1
        /\ \A i \in 1 .. Len(line) - 1 : line'[i] = line[i + 1]
    BY <1>1, <2>1, <2>2
  <2>4. DOMAIN line' = 1 .. Len(line') /\ (line' # <<>> <=> Len(line') > 0)
    BY <1>1
  <2>5. Len(line) \in Nat
    BY <1>1
  <2>6. QED
    BY <2>2, <2>3, <2>4, <2>5
<1> HIDE DEF n
<1>3. ASSUME NEW i \in DOMAIN line'
      PROVE  /\ IsFragment(line'[i], 1) =>
                  /\ i + 1 \in DOMAIN line' /\ IsFragment(line'[i + 1], 2)
                  /\ line'[i + 1].message = line'[i].message
             /\ IsFragment(line'[i], 2) /\ i > 1 =>
                  /\ IsFragment(line'[i - 1], 1)
                  /\ line'[i - 1].message = line'[i].message
  <2>1. i \in 1 .. n - 1 /\ i + 1 \in DOMAIN line /\ line'[i] = line[i + 1] /\ i + 1 > 1
    BY <1>2
  <2>2. ASSUME IsFragment(line'[i], 1)
        PROVE  /\ i + 1 \in DOMAIN line' /\ IsFragment(line'[i + 1], 2)
               /\ line'[i + 1].message = line'[i].message
    <3>1. /\ i + 1 + 1 \in DOMAIN line /\ IsFragment(line[i + 1 + 1], 2)
          /\ line[i + 1 + 1].message = line[i + 1].message
      BY <2>1, <2>2 DEF InRow
    <3>2. i + 1 \in 1 .. n - 1
      BY <1>2, <2>1, <3>1
    <3>3. line'[i + 1] = line[i + 1 + 1]
      BY <1>2, <3>2
    <3>4. QED
      BY <1>2, <2>1, <3>1, <3>2, <3>3
  <2>3. ASSUME IsFragment(line'[i], 2), i > 1
        PROVE  /\ IsFragment(line'[i - 1], 1)
               /\ line'[i - 1].message = line'[i].message
    <3>1. i - 1 \in 1 .. n - 1 /\ (i - 1) + 1 = i /\ (i + 1) - 1 = i
      BY <1>2, <2>1, <2>3
    <3>2. line'[i - 1] = line[i]
      BY <1>2, <3>1
    <3>3. IsFragment(line[i], 1) /\ line[i].message = line[i + 1].message
      BY <2>1, <2>3, <3>1 DEF InRow
    <3>4. QED
      BY <2>1, <3>2, <3>3
  <2>4. QED
    BY <2>2, <2>3
<1>4. ASSUME IsFragment(Head(line), 1)
      PROVE  SecondNext' /\ line'[1].message = Head(line).message
  <2>1. 1 \in DOMAIN line /\ 1 + 1 = 2
    BY <1>2
  <2>2. 2 \in DOMAIN line /\ IsFragment(line[2], 2) /\ line[2].message = line[1].message
    BY <1>2, <1>4, <2>1 DEF InRow
  <2>3. n > 1 /\ 1 \in 1 .. n - 1
    BY <1>2, <2>2
  <2>4. line'[1] = line[2]
    BY <1>2, <2>1, <2>3
  <2>5. QED
    BY <1>2, <2>2, <2>3, <2>4 DEF SecondNext
<1>5. ASSUME SecondNext'
      PROVE  IsFragment(Head(line), 1)
  <2>1. n > 1 /\ IsFragment(line'[1], 2)
    BY <1>2, <1>5 DEF SecondNext
  <2>2. 1 \in 1 .. n - 1 /\ 2 \in DOMAIN line /\ 2 > 1 /\ 2 - 1 = 1 /\ 1 + 1 = 2
    BY <1>2, <2>1
  <2>3. line'[1] = line[2]
    BY <1>2, <2>2
  <2>4. QED
    BY <1>2, <2>1, <2>2, <2>3 DEF InRow
<1>6. QED
  BY <1>3, <1>4, <1>5 DEF InRow

LEMMA RowLengthens ==
    ASSUME Typed, InRow, NEW p \in Packets, p.type # "fragment", line' = Append(line, p)
    PROVE  /\ InRow'
           /\ SecondNext' <=> SecondNext
           /\ SecondNext => line'[1] = line[1]
<1>1. line \in Seq(Packets)
  BY DEF Typed, TypeOK
<1> DEFINE n == Len(line)
<1>2. /\ n \in Nat /\ DOMAIN line = 1 .. n /\ DOMAIN line' = 1 .. n + 1
      /\ \A i \in 1 .. n : line'[i] = line[i]
      /\ line'[n + 1] = p
      /\ line' # <<>>
      /\ line # <<>> <=> n > 0
  BY <1>1
<1> HIDE DEF n
<1>3. ASSUME NEW i \in DOMAIN line'
      PROVE  /\ IsFragment(line'[i], 1) =>
                  /\ i + 1 \in DOMAIN line' /\ IsFragment(line'[i + 1], 2)
                  /\ line'[i + 1].message = line'[i].message
             /\ IsFragment(line'[i], 2) /\ i > 1 =>
                  /\ IsFragment(line'[i - 1], 1)
                  /\ line'[i - 1].message = line'[i].message
  <2>1. CASE i \in 1 .. n
    <3>1. line'[i] = line[i] /\ i \in DOMAIN line
      BY <1>2, <2>1
    <3>2. i > 1 => i - 1 \in 1 .. n
      BY <1>2, <2>1
    <3>3. i > 1 => line'[i - 1] = line[i - 1]
      BY <1>2, <3>2
    <3>4. ASSUME IsFragment(line'[i], 1)
          PROVE  /\ i + 1 \in DOMAIN line' /\ IsFragment(line'[i + 1], 2)
                 /\ line'[i + 1].message = line'[i].message
      <4>1. /\ i + 1 \in DOMAIN line /\ IsFragment(line[i + 1], 2)
            /\ line[i + 1].message = line[i].message
        BY <3>1, <3>4 DEF InRow
      <4>2. i + 1 \in DOMAIN line' /\ line'[i + 1] = line[i + 1]
        BY <1>2, <4>1
      <4>3. QED
        BY <3>1, <4>1, <4>2
    <3>5. QED
      BY <3>1, <3>3, <3>4 DEF InRow
  <2>2. CASE i = n + 1
    BY <1>2, <2>2 DEF IsFragment
  <2>3. QED
    BY <1>2, <2>1, <2>2
<1>4. InRow'
  BY <1>3 DEF InRow
<1>5. CASE line = <<>>
  <2>1. n = 0
    BY <1>2, <1>5
  <2>2. line'[1] = p
    BY <1>2, <2>1
  <2>3. ~SecondNext /\ ~SecondNext'
    BY <1>5, <2>2 DEF SecondNext, IsFragment
  <2>4. QED
    BY <1>4, <2>3
<1>6. CASE line # <<>>
  <2>1. 1 \in 1 .. n
    BY <1>2, <1>6
  <2>2. line'[1] = line[1] /\ line' # <<>>
    BY <1>2, <2>1
  <2>3. QED
    BY <1>4, <1>6, <2>2 DEF SecondNext
<1>7. QED
  BY <1>5, <1>6

LEMMA RowPushed ==
    ASSUME Typed, InRow, Push
    PROVE  /\ InRow'
           /\ SecondNext' <=> SecondNext
           /\ SecondNext => line'[1] = line[1]
<1>1. messages \in Nat /\ limits \in [Fields -> Levels] /\ line \in Seq(Packets)
  BY DEF Typed, TypeOK
<1> DEFINE f == Fragment(1, messages + 1)
           g == Fragment(2, messages + 1)
           n == Len(line)
<1>2. f \in Packets /\ g \in Packets
  BY <1>1 DEF Fragment, Packets, Fragments
<1>3. line' = line \o <<f, g>>
  BY DEF Push
<1>4. IsFragment(f, 1) /\ IsFragment(g, 2) /\ f.message = g.message
  BY DEF Fragment, IsFragment
<1> HIDE DEF f, g
<1>5. /\ n \in Nat /\ DOMAIN line = 1 .. n /\ DOMAIN line' = 1 .. n + 2
      /\ \A i \in 1 .. n : line'[i] = line[i]
      /\ line'[n + 1] = f /\ line'[n + 2] = g
      /\ line' # <<>>
      /\ line # <<>> <=> n > 0
  BY <1>1, <1>2, <1>3
<1> HIDE DEF n
<1>6. ~IsFragment(f, 2) /\ ~IsFragment(g, 1)
  BY <1>4 DEF IsFragment
<1>7. ASSUME NEW i \in DOMAIN line'
      PROVE  /\ IsFragment(line'[i], 1) =>
                  /\ i + 1 \in DOMAIN line' /\ IsFragment(line'[i + 1], 2)
                  /\ line'[i + 1].message = line'[i].message
             /\ IsFragment(line'[i], 2) /\ i > 1 =>
                  /\ IsFragment(line'[i - 1], 1)
                  /\ line'[i - 1].message = line'[i].message
  <2>1. CASE i \in 1 .. n
    <3>1. line'[i] = line[i] /\ i \in DOMAIN line
      BY <1>5, <2>1
    <3>2. i > 1 => i - 1 \in 1 .. n
      BY <1>5, <2>1
    <3>3. i > 1 => line'[i - 1] = line[i - 1]
      BY <1>5, <3>2
    <3>4. ASSUME IsFragment(line'[i], 1)
          PROVE  /\ i + 1 \in DOMAIN line' /\ IsFragment(line'[i + 1], 2)
                 /\ line'[i + 1].message = line'[i].message
      <4>1. /\ i + 1 \in DOMAIN line /\ IsFragment(line[i + 1], 2)
            /\ line[i + 1].message = line[i].message
        BY <3>1, <3>4 DEF InRow
      <4>2. i + 1 \in DOMAIN line' /\ line'[i + 1] = line[i + 1]
        BY <1>5, <4>1
      <4>3. QED
        BY <3>1, <4>1, <4>2
    <3>5. QED
      BY <3>1, <3>3, <3>4 DEF InRow
  <2>2. CASE i = n + 1
    <3>1. i + 1 = n + 2 /\ i + 1 \in DOMAIN line'
      BY <1>5, <2>2
    <3>2. QED
      BY <1>4, <1>5, <1>6, <2>2, <3>1
  <2>3. CASE i = n + 2
    <3>1. i - 1 = n + 1
      BY <1>5, <2>3
    <3>2. QED
      BY <1>4, <1>5, <1>6, <2>3, <3>1
  <2>4. QED
    BY <1>5, <2>1, <2>2, <2>3
<1>8. InRow'
  BY <1>7 DEF InRow
<1>9. CASE line = <<>>
  <2>1. n = 0
    BY <1>5, <1>9
  <2>2. line'[1] = f
    BY <1>5, <2>1
  <2>3. ~SecondNext /\ ~SecondNext'
    BY <1>6, <1>9, <2>2 DEF SecondNext
  <2>4. QED
    BY <1>8, <2>3
<1>10. CASE line # <<>>
  <2>1. 1 \in 1 .. n
    BY <1>5, <1>10
  <2>2. line'[1] = line[1] /\ line' # <<>>
    BY <1>5, <2>1
  <2>3. QED
    BY <1>8, <1>10, <2>2 DEF SecondNext
<1>11. QED
  BY <1>9, <1>10

(* A packet passed over: the first fragment of a message may be missing    *)
(* from now on, or a first one is left without its second.                 *)
LEMMA PassingCollects ==
    ASSUME Typed, Fragmented, Passing
    PROVE  Fragmented'
<1>1. /\ line # <<>> /\ line' = Tail(line) /\ frags' = frags /\ snapshot' = snapshot
      /\ InRow
  BY DEF Passing, Fragmented
<1>2. /\ InRow'
      /\ IsFragment(Head(line), 1) => SecondNext' /\ line'[1].message = Head(line).message
      /\ ~IsFragment(Head(line), 1) => ~SecondNext'
  BY <1>1, RowShortens
<1>3. Head(line) = line[1] /\ Head(line) \in Packets
  BY <1>1 DEF Typed, TypeOK
<1>4. skipped \in 0 .. 2
  BY DEF Typed, TypeOK
<1>5. CASE Head(line).type # "fragment"
  <2>1. skipped' = skipped
    BY <1>5 DEF Passing, PassedOver
  <2>2. ~SecondNext /\ ~SecondNext'
    BY <1>2, <1>3, <1>5 DEF SecondNext, IsFragment
  <2>3. QED
    BY <1>1, <1>2, <2>1, <2>2 DEF Fragmented, WholeSnapshots, Collecting
<1>6. CASE Head(line).type = "fragment"
  <2>1. SUFFICES ASSUME skipped' < 2 PROVE WholeSnapshots' /\ Collecting'
    BY <1>2 DEF Fragmented
  <2>2. skipped' = IF skipped < 2 THEN skipped + 1 ELSE skipped
    BY <1>6 DEF Passing, PassedOver
  <2>3. skipped = 0 /\ skipped' = 1
    BY <1>4, <2>1, <2>2
  <2>4. WholeSnapshots /\ Collecting
    BY <2>3 DEF Fragmented
  <2>5. IsFragment(Head(line), 1) \/ IsFragment(Head(line), 2)
    BY <1>3, <1>6 DEF Packets, Fragments, IsFragment
  <2>6. CASE IsFragment(Head(line), 1)
    <3>1. SecondNext' /\ ~SecondNext
      BY <1>2, <1>3, <2>6 DEF SecondNext, IsFragment
    <3>2. frags = {}
      BY <2>3, <2>4, <3>1 DEF Collecting
    <3>3. Collecting'
      BY <1>1, <2>3, <3>1, <3>2 DEF Collecting
    <3>4. QED
      BY <1>1, <2>4, <3>3 DEF WholeSnapshots
  <2>7. CASE IsFragment(Head(line), 2)
    <3>1. ~IsFragment(Head(line), 1)
      BY <2>7 DEF IsFragment
    <3>2. SecondNext /\ ~SecondNext'
      BY <1>1, <1>2, <1>3, <2>7, <3>1 DEF SecondNext
    <3>3. \E f \in frags : frags = {f}
      BY <2>3, <2>4, <3>2 DEF Collecting
    <3>4. Collecting'
      BY <1>1, <2>3, <3>2, <3>3 DEF Collecting
    <3>5. QED
      BY <1>1, <2>4, <3>4 DEF WholeSnapshots
  <2>8. QED
    BY <2>5, <2>6, <2>7
<1>7. QED
  BY <1>5, <1>6

LEMMA HearCollects ==
    ASSUME Typed, Fragmented, Hear
    PROVE  Fragmented'
<1> DEFINE g == Head(line)
<1>1. /\ line # <<>> /\ line' = Tail(line) /\ skipped' = skipped /\ g.type = "fragment"
      /\ InRow
  BY DEF Hear, Fragmented
<1>2. /\ InRow'
      /\ IsFragment(g, 1) => SecondNext' /\ line'[1].message = g.message
      /\ ~IsFragment(g, 1) => ~SecondNext'
  BY <1>1, RowShortens
<1>3. g = line[1] /\ g \in Packets
  BY <1>1 DEF Typed, TypeOK
<1>4. SUFFICES ASSUME skipped < 2 PROVE WholeSnapshots' /\ Collecting'
  BY <1>1, <1>2 DEF Fragmented
<1>5. WholeSnapshots /\ Collecting
  BY <1>4 DEF Fragmented
<1>6. \/ /\ {f.index : f \in Collected(g)} # {1, 2}
         /\ frags' = Collected(g) /\ snapshot' = snapshot
      \/ /\ {f.index : f \in Collected(g)} = {1, 2}
         /\ frags' = {} /\ snapshot' = {f.message : f \in Collected(g)}
  BY DEF Hear
<1>7. IsFragment(g, 1) \/ IsFragment(g, 2)
  BY <1>1, <1>3 DEF Packets, Fragments, IsFragment
<1> HIDE DEF g
<1>8. CASE IsFragment(g, 1)
  <2>1. g.index = 1
    BY <1>8 DEF IsFragment
  <2>2. Collected(g) = {g}
    BY <2>1 DEF Collected
  <2>3. {f.index : f \in Collected(g)} # {1, 2}
    BY <2>1, <2>2
  <2>4. frags' = {g} /\ snapshot' = snapshot
    BY <1>6, <2>2, <2>3
  <2>5. SecondNext' /\ line'[1].message = g.message
    BY <1>2, <1>8
  <2>6. Collecting'
    BY <2>1, <2>4, <2>5 DEF Collecting
  <2>7. QED
    BY <1>5, <2>4, <2>6 DEF WholeSnapshots
<1>9. CASE IsFragment(g, 2)
  <2>1. g.index = 2 /\ ~IsFragment(g, 1)
    BY <1>9 DEF IsFragment
  <2>2. SecondNext /\ ~SecondNext'
    BY <1>1, <1>2, <1>3, <1>9, <2>1 DEF SecondNext
  <2>3. Collected(g) = {f \in frags : f.index # 2} \cup {g}
    BY <2>1 DEF Collected
  <2>4. CASE \E f \in frags : frags = {f} /\ f.index = 1 /\ f.message = line[1].message
    <3>1. PICK f \in frags : frags = {f} /\ f.index = 1 /\ f.message = g.message
      BY <1>3, <2>4
    <3>2. Collected(g) = {f, g}
      BY <2>3, <3>1
    <3>3. {h.index : h \in Collected(g)} = {1, 2}
      BY <2>1, <3>1, <3>2
    <3>4. frags' = {} /\ snapshot' = {h.message : h \in {f, g}}
      BY <1>6, <3>2, <3>3
    <3>5. WholeSnapshots'
      BY <3>1, <3>4 DEF WholeSnapshots
    <3>6. Collecting'
      BY <2>2, <3>4 DEF Collecting
    <3>7. QED
      BY <3>5, <3>6
  <2>5. CASE frags = {} /\ skipped = 1
    <3>1. Collected(g) = {g}
      BY <2>3, <2>5
    <3>2. {f.index : f \in Collected(g)} # {1, 2}
      BY <2>1, <3>1
    <3>3. frags' = {g} /\ snapshot' = snapshot
      BY <1>6, <3>1, <3>2
    <3>4. Collecting'
      BY <1>1, <2>2, <2>5, <3>3 DEF Collecting
    <3>5. QED
      BY <1>5, <3>3, <3>4 DEF WholeSnapshots
  <2>6. QED
    BY <1>5, <2>2, <2>4, <2>5 DEF Collecting
<1>10. QED
  BY <1>7, <1>8, <1>9

LEMMA FragmentedStep == Typed /\ Fragmented /\ [Next]_vars => Fragmented'
<1> SUFFICES ASSUME Typed, Fragmented, [Next]_vars PROVE Fragmented'
  OBVIOUS
<1>1. CASE UNCHANGED <<line, frags, snapshot, skipped>>
  BY <1>1 DEF Fragmented, InRow, WholeSnapshots, Collecting, SecondNext
<1>2. CASE line' = <<>> /\ frags' = {} /\ snapshot' = {} /\ skipped' = 0
  <2>1. InRow'
    BY <1>2 DEF InRow
  <2>2. WholeSnapshots' /\ Collecting'
    BY <1>2 DEF WholeSnapshots, Collecting, SecondNext
  <2>3. QED
    BY <2>1, <2>2 DEF Fragmented
<1>3. ASSUME InRow', SecondNext' <=> SecondNext, SecondNext => line'[1] = line[1],
             UNCHANGED <<frags, snapshot, skipped>>
      PROVE  Fragmented'
  BY <1>3 DEF Fragmented, WholeSnapshots, Collecting
<1>4. CASE \E p \in Packets : /\ p.type # "fragment" /\ line' = Append(line, p)
                              /\ UNCHANGED <<frags, snapshot, skipped>>
  BY <1>3, <1>4, RowLengthens DEF Fragmented
<1>5. CASE Push
  BY <1>3, <1>5, RowPushed DEF Fragmented, Push, historyVars
<1>6. CASE Passing
  BY <1>6, PassingCollects
<1>7. CASE Hear
  BY <1>7, HearCollects
<1>8. QED
  BY <1>1, <1>2, <1>4, <1>5, <1>6, <1>7, RowChange

(* While at most one fragment was passed over, what is taken for a message *)
(* is one message, however calls and drops fall between its fragments      *)
(* (protocol.rs:251-256).                                                  *)
THEOREM WholeMessages == Spec => []WholeUnlessSkipped
<1>1. Init => Fragmented
  BY DEF Init, NewClient, Fragmented, InRow, WholeSnapshots, Collecting, SecondNext
<1>2. Fragmented => WholeUnlessSkipped
  BY DEF Fragmented, WholeSnapshots, WholeUnlessSkipped
<1>3. QED
  BY <1>1, <1>2, FragmentedStep, TypedAlways, PTL DEF Spec

=============================================================================
