---------------------------- MODULE AnkerBattery ----------------------------
(***************************************************************************)
(* An Anker Solix of either generation (src/backends/anker.rs,             *)
(* crates/anker_solix/src/device.rs, protocol.rs): the handshake of a new  *)
(* connection, and on the second generation the gate that a client must    *)
(* pass, the bond the power button allows, limits written as a pair, and   *)
(* other settings.  Telemetry is pushed in fragments.  Everything comes    *)
(* through one row of notifications: the secure handshake and the gate     *)
(* take the next packet for their answer, a write skips all that is not    *)
(* its acknowledgement, and the telemetry passes over the rest.  Ciphers   *)
(* and values are left out.                                                *)
(***************************************************************************)
EXTENDS AnkerModel, Sequences, FiniteSets

CONSTANTS
    Levels,      \* values of a limit
    Unknown,     \* no limit was reported yet
    Owed,        \* re-subscriptions owed after a write (3)
    Chosen,      \* the settings written alone that are considered
    MaxMessages, \* bound: telemetry messages sent
    MaxWaiting   \* bound: packets and requests under way when a call begins

ASSUME AnkerAssumption ==
    /\ Unknown \notin Levels
    /\ Owed \in Nat
    /\ Chosen \subseteq Singles
    /\ MaxMessages \in Nat
    /\ MaxWaiting \in Nat

VARIABLES
    gen,         \* the model of the station; it never changes
    linked,      \* the operating system holds a link to it
    bond,        \* the station knows the client's userId
    button,      \* the power button is held
    gated,       \* the session has passed the station's gate
    subscribed,  \* the station pushes telemetry
    limits,      \* the station's charge and discharge limits
    messages,    \* telemetry messages sent
    requests,    \* on their way to the station
    line,        \* notifications received and not read
    pc,          \* where the call in progress awaits, "idle", or "off": no client
    task,        \* what the call in progress is for
    authed,      \* AnkerBattery.authed
    cache,       \* soc_max and soc_min
    resubscribe, \* AnkerBattery.resubscribe
    frags,       \* the fragmenter's buffer
    serial,      \* info.serial is known
    creds,       \* keys under which the userId is saved
    snapshot,    \* history: the messages the last snapshot's fragments are of
    told,        \* history: limits reported to this client or asked of it
    applied,     \* history: writes it reported as done had been done
    stray,       \* history: an answer may be taken for another's
    skipped      \* history: fragments passed over, counted up to two

stationVars == <<gen, linked, bond, button, gated, subscribed, limits, messages>>
cacheVars == <<authed, cache, resubscribe, serial, creds>>
historyVars == <<snapshot, told, applied>>
vars ==
    <<stationVars, requests, line, pc, task, cacheVars, frags, historyVars,
      stray, skipped>>

Fields == {"max", "min"}
NoTask == [for |-> "none"]

(* The handshake: 4001, 4003, 4029, 4005, and 4021 for the public key.     *)
Steps == 5

Opcodes == {Opcode[s] : s \in LimitSettings \cup Chosen}

(* What is written: gate and bond frames, the subscription, the frames of  *)
(* the handshake, limits, other settings, and what nothing answers.        *)
Gate(cmd) == [cmd |-> cmd]
Hello(n) == [cmd |-> "hello", step |-> n]
Write(f, v) == [cmd |-> Opcode["soc_limit_max"], field |-> f, value |-> v]
Single(s) == [cmd |-> Opcode[s], setting |-> s]
Plain == [cmd |-> "plain"]

(* What is received.  Both limits, and other settings too, are written     *)
(* with one opcode, which is all an acknowledgement names.                 *)
Reply(n) == [type |-> "hello", step |-> n]
Status(code) == [type |-> "status", code |-> code]
Ack(opcode) == [type |-> "ack", opcode |-> opcode]
Fragment(i, n) == [type |-> "fragment", index |-> i, message |-> n, limits |-> limits]

-----------------------------------------------------------------------------
(* A client as setup and from_device make it.                              *)
NewClient ==
    [authed |-> FALSE, cache |-> [f \in Fields |-> Unknown], resubscribe |-> 0,
     serial |-> FALSE, frags |-> {}, snapshot |-> {},
     told |-> [f \in Fields |-> {}], applied |-> TRUE, skipped |-> 0]

(* The userId may be saved and bound from earlier times.                   *)
Init ==
    /\ gen \in Models
    /\ linked = FALSE
    /\ bond \in BOOLEAN
    /\ gen = "Gen1" => ~bond
    /\ button = FALSE
    /\ gated = FALSE
    /\ subscribed = FALSE
    /\ limits \in [Fields -> Levels]
    /\ messages = 0
    /\ requests = <<>>
    /\ line = <<>>
    /\ pc = "off"
    /\ task = NoTask
    /\ creds \in {{}, {"model"}}
    /\ authed = NewClient.authed
    /\ cache = NewClient.cache
    /\ resubscribe = NewClient.resubscribe
    /\ serial = NewClient.serial
    /\ frags = NewClient.frags
    /\ snapshot = NewClient.snapshot
    /\ told = NewClient.told
    /\ applied = NewClient.applied
    /\ skipped = NewClient.skipped
    /\ stray = FALSE

-----------------------------------------------------------------------------
(* The station.                                                            *)

Press ==
    /\ gen = "C1000Gen2"
    /\ button' = ~button
    /\ UNCHANGED <<gen, linked, bond, gated, subscribed, limits, messages, requests, line, pc,
                   task, cacheVars, frags, historyVars, stray, skipped>>

(* Every step of the handshake is answered; the last begins a session.     *)
(* Telemetry of the first generation begins behind the frame that ends it. *)
ServeHello ==
    /\ requests # <<>>
    /\ Head(requests).cmd = "hello"
    /\ LET n == Head(requests).step
       IN /\ line' = IF n <= Steps THEN Append(line, Reply(n)) ELSE line
          /\ gated' = (gated /\ n < Steps)
          /\ subscribed' = (n > Steps \/ (subscribed /\ n < Steps))
    /\ requests' = Tail(requests)
    /\ UNCHANGED <<gen, linked, bond, button, limits, messages, pc, task,
                   cacheVars, frags, historyVars, stray, skipped>>

(* getAesKey succeeds for anyone; getAuthentication only for the bound.     *)
ServeGate ==
    /\ requests # <<>>
    /\ \/ /\ Head(requests).cmd = "4022"
          /\ line' = Append(line, Status("ok"))
          /\ UNCHANGED <<bond, gated>>
       \/ /\ Head(requests).cmd = "4027"
          /\ line' = Append(line, Status(IF bond THEN "ok" ELSE "unbound"))
          /\ gated' = (gated \/ bond)
          /\ UNCHANGED bond
       \/ /\ Head(requests).cmd = "4023"
          /\ bond' = (bond \/ button)
          /\ line' = Append(line, Status(IF button THEN "ok" ELSE "unbound"))
          /\ UNCHANGED gated
    /\ requests' = Tail(requests)
    /\ UNCHANGED <<gen, linked, button, subscribed, limits, messages, pc, task, cacheVars,
                   frags, historyVars, stray, skipped>>

(* After a write the station may pause and drop its subscription.          *)
ServeWrite ==
    /\ requests # <<>>
    /\ Head(requests).cmd \in Opcodes
    /\ limits' = IF "field" \in DOMAIN Head(requests)
                   THEN [limits EXCEPT ![Head(requests).field] = Head(requests).value]
                   ELSE limits
    /\ line' = Append(line, Ack(Head(requests).cmd))
    /\ subscribed' \in {subscribed, FALSE}
    /\ requests' = Tail(requests)
    /\ UNCHANGED <<gen, linked, bond, button, gated, messages, pc, task, cacheVars,
                   frags, historyVars, stray, skipped>>

(* A pausing station loses what it is sent; what is not answered is done.  *)
Ignore ==
    /\ requests # <<>>
    /\ requests' = Tail(requests)
    /\ UNCHANGED <<stationVars, line, pc, task, cacheVars, frags, historyVars,
                   stray, skipped>>

ServeSubscribe ==
    /\ requests # <<>>
    /\ Head(requests).cmd = "4100"
    /\ subscribed' = (subscribed \/ gated)
    /\ requests' = Tail(requests)
    /\ UNCHANGED <<gen, linked, bond, button, gated, limits, messages, line, pc, task,
                   cacheVars, frags, historyVars, stray, skipped>>

Push ==
    /\ subscribed
    /\ messages < MaxMessages
    /\ messages' = messages + 1
    /\ line' = line \o <<Fragment(1, messages + 1), Fragment(2, messages + 1)>>
    /\ UNCHANGED <<gen, linked, bond, button, gated, subscribed, limits, requests, pc, task,
                   cacheVars, frags, historyVars, stray, skipped>>

-----------------------------------------------------------------------------
(* The connection and its handshake.                                       *)

Send(request) == requests' = Append(requests, request)

ClientIs(c) ==
    /\ authed' = c.authed
    /\ cache' = c.cache
    /\ resubscribe' = c.resubscribe
    /\ serial' = c.serial
    /\ frags' = c.frags
    /\ snapshot' = c.snapshot
    /\ told' = c.told
    /\ applied' = c.applied
    /\ skipped' = c.skipped

(* setup: a link still held is taken over, with a new row of               *)
(* notifications; what the station was asked before may still be answered. *)
Connect ==
    /\ pc = "off"
    /\ Len(requests) <= MaxWaiting
    /\ linked' = TRUE
    /\ line' = <<>>
    /\ Send(Hello(1))
    /\ pc' = "hello"
    /\ task' = [for |-> "connect", step |-> 1]
    /\ stray' = (requests # <<>>)
    /\ ClientIs(NewClient)
    /\ UNCHANGED <<gen, bond, button, gated, subscribed, limits, messages, creds>>

PassedOver(packet) ==
    skipped' = IF packet.type = "fragment" /\ skipped < 2 THEN skipped + 1 ELSE skipped

Answered(packet) ==
    /\ pc = "hello"
    /\ line # <<>>
    /\ packet = Head(line)
    /\ PassedOver(packet)
    /\ line' = Tail(line)

NextStep(n) ==
    /\ Send(Hello(n))
    /\ task' = [task EXCEPT !.step = n]
    /\ UNCHANGED pc

(* The call returns.                                                       *)
Return ==
    /\ pc' = "idle"
    /\ task' = NoTask

(* The client is dropped without a disconnect.                             *)
Abandoned ==
    /\ pc' = "off"
    /\ task' = NoTask

(* negotiate: what to send next is told by the step that is answered; all  *)
(* else is ignored.                                                        *)
Negotiate ==
    /\ gen = "Gen1"
    /\ \E packet \in {line[i] : i \in DOMAIN line} :
         /\ Answered(packet)
         /\ IF packet.type # "hello"
              THEN UNCHANGED <<requests, pc, task>>
              ELSE IF packet.step < Steps
                THEN NextStep(packet.step + 1)
                ELSE Send(Hello(Steps + 1)) /\ Return
    /\ UNCHANGED <<stationVars, cacheVars, frags, historyVars, stray>>

(* negotiate_secure: the next packet answers the step, whatever it is; the *)
(* last must hold the public key.  The subscription of connect_secure is   *)
(* not heeded before the gate.                                             *)
NegotiateSecure ==
    /\ gen = "C1000Gen2"
    /\ \E packet \in {line[i] : i \in DOMAIN line} :
         /\ Answered(packet)
         /\ IF task.step < Steps
              THEN NextStep(task.step + 1)
              ELSE IF packet = Reply(Steps)
                THEN Send(Gate("4100")) /\ Return
                ELSE Abandoned /\ UNCHANGED requests
    /\ UNCHANGED <<stationVars, cacheVars, frags, historyVars, stray>>

(* An answer that does not come in time, or a caller that does not wait    *)
(* for it: the operating system keeps the link.                            *)
HandshakeGivenUp ==
    /\ pc = "hello"
    /\ Abandoned
    /\ UNCHANGED <<stationVars, requests, line, cacheVars, frags, historyVars,
                   stray, skipped>>

(* disconnect, or the link is lost.                                        *)
HangUp ==
    /\ linked
    /\ linked' = FALSE
    /\ gated' = FALSE
    /\ subscribed' = FALSE
    /\ requests' = <<>>
    /\ line' = <<>>
    /\ Abandoned
    /\ ClientIs(NewClient)
    /\ stray' = FALSE
    /\ UNCHANGED <<gen, bond, button, limits, messages, creds>>

-----------------------------------------------------------------------------
(* The gate, the bond and the credential.                                  *)

CredKey == IF serial THEN "serial" ELSE "model"

MayCall ==
    /\ pc = "idle"
    /\ Len(line) + Len(requests) <= MaxWaiting

(* auth_gate: from here on, telemetry may come in between.                 *)
EnterGate(what) ==
    /\ Send(Gate("4022"))
    /\ pc' = "gate_key"
    /\ task' = what
    /\ stray' = (stray \/ subscribed \/ line # <<>>)

(* On the first generation there is nothing to pair.                       *)
Authenticate ==
    /\ MayCall
    /\ gen = "C1000Gen2"
    /\ EnterGate([for |-> "pair"])
    /\ UNCHANGED <<stationVars, line, cacheVars, frags, historyVars, skipped>>

(* The status of a packet that is no status is whatever decrypting it      *)
(* gives.                                                                  *)
CodesOf(packet) == IF packet.type = "status" THEN {packet.code} ELSE {"ok", "unbound"}

(* The first answer of the gate does not matter.                           *)
GateKey ==
    /\ pc = "gate_key"
    /\ line # <<>>
    /\ PassedOver(Head(line))
    /\ line' = Tail(line)
    /\ Send(Gate("4027"))
    /\ pc' = "gate_auth"
    /\ UNCHANGED <<stationVars, task, cacheVars, frags, historyVars, stray>>

Limits(f, v) == [cache EXCEPT ![f] = v]

\* Mutant of BeginLimits: the other limit's default when it is not known.
BeginLimitsDefault(what) ==
    LET known == Limits(what.field, what.value)
        pair == [f \in Fields |-> IF known[f] = Unknown THEN CHOOSE v \in Levels : TRUE
                                  ELSE known[f]]
    IN /\ cache' = pair
       /\ told' = [told EXCEPT ![what.field] = @ \cup {what.value}]
       /\ Send(Write("max", pair["max"]))
       /\ pc' = "ack_max"
       /\ task' = [for |-> "limits", pair |-> pair]

(* set_soc_limits begins: the pair is cached before anything is written.   *)
BeginLimits(what) ==
    LET pair == Limits(what.field, what.value)
    IN IF Unknown \in {pair[f] : f \in Fields}
         THEN Return /\ UNCHANGED <<cache, told, requests>>
         ELSE /\ cache' = pair
              /\ told' = [told EXCEPT ![what.field] = @ \cup {what.value}]
              /\ Send(Write("max", pair["max"]))
              /\ pc' = "ack_max"
              /\ task' = [for |-> "limits", pair |-> pair]

(* Passed: the userId is saved and telemetry asked for.  A write goes on   *)
(* in the next step.                                                       *)
Pass ==
    /\ creds' = creds \cup {CredKey}
    /\ authed' = TRUE
    /\ Send(Gate("4100"))
    /\ IF task.for \in {"pair", "pair_again"}
         THEN Return
         ELSE pc' = "passed" /\ UNCHANGED task

(* Refused: a pairing tries the bond once; a write fails.                  *)
Refuse ==
    /\ IF task.for = "pair"
         THEN Send(Gate("4023")) /\ pc' = "bond" /\ UNCHANGED task
         ELSE Return /\ UNCHANGED requests
    /\ UNCHANGED <<creds, authed>>

\* Mutant of GateAuth: the answer to getAesKey decides.
GateAuthFirst ==
    /\ pc = "gate_auth"
    /\ line # <<>>
    /\ PassedOver(Head(line))
    /\ line' = Tail(line)
    /\ Pass
    /\ UNCHANGED <<stationVars, cache, resubscribe, serial, frags, historyVars, stray>>

GateAuth ==
    /\ pc = "gate_auth"
    /\ line # <<>>
    /\ PassedOver(Head(line))
    /\ line' = Tail(line)
    /\ \/ "ok" \in CodesOf(Head(line)) /\ Pass
       \/ "unbound" \in CodesOf(Head(line)) /\ Refuse
    /\ UNCHANGED <<stationVars, cache, resubscribe, serial, frags, historyVars, stray>>

(* Whatever the bond's answer, the gate is tried once more.                *)
Bonded ==
    /\ pc = "bond"
    /\ line # <<>>
    /\ PassedOver(Head(line))
    /\ line' = Tail(line)
    /\ Send(Gate("4022"))
    /\ pc' = "gate_key"
    /\ task' = [for |-> "pair_again"]
    /\ UNCHANGED <<stationVars, cacheVars, frags, historyVars, stray>>

(* Three or four seconds without a packet: the call fails, and its answer  *)
(* may come yet.                                                           *)
GateSilent ==
    /\ pc \in {"gate_key", "gate_auth", "bond"}
    /\ line = <<>>
    /\ Return
    /\ stray' = TRUE
    /\ UNCHANGED <<stationVars, requests, line, cacheVars, frags, historyVars, skipped>>

(* forget_auth: the station keeps its bond.                                *)
Forget ==
    /\ MayCall
    /\ creds' = creds \ {CredKey}
    /\ authed' = FALSE
    /\ UNCHANGED <<stationVars, requests, line, pc, task, cache, resubscribe,
                   serial, frags, historyVars, stray, skipped>>

-----------------------------------------------------------------------------
(* Writes.                                                                 *)

(* execute: a write of one limit, behind the gate.                          *)
SetLimit(f, v) ==
    LET what == [for |-> "limit", field |-> f, value |-> v]
    IN /\ MayCall
       /\ gen = "C1000Gen2"
       /\ \/ /\ authed
             /\ BeginLimits(what)
             /\ UNCHANGED stray
          \/ /\ ~authed
             /\ EnterGate(what)
             /\ UNCHANGED <<cache, told>>
       /\ UNCHANGED <<stationVars, line, authed, resubscribe, serial, creds, frags,
                      snapshot, applied, skipped>>

BeginSingle(what) ==
    /\ Send(Single(what.setting))
    /\ pc' = "ack_single"
    /\ task' = what

(* execute: an output or another setting, behind the gate too.             *)
Set(s) ==
    LET what == [for |-> "single", setting |-> s]
    IN /\ MayCall
       /\ gen = "C1000Gen2"
       /\ \/ authed /\ BeginSingle(what) /\ UNCHANGED stray
          \/ ~authed /\ EnterGate(what)
       /\ UNCHANGED <<stationVars, line, cacheVars, frags, historyVars, skipped>>

(* execute: a control that nothing acknowledges, whatever its command.     *)
Control(id) ==
    /\ MayCall
    /\ id \in DOMAIN Unacknowledged(gen)
    /\ Send(Plain)
    /\ UNCHANGED <<stationVars, line, pc, task, cacheVars, frags, historyVars,
                   stray, skipped>>

(* The write behind a gate that was passed; a value that is no number, or  *)
(* none the setting can have, is found only here.                          *)
Passed ==
    /\ pc = "passed"
    /\ \/ task.for = "limit" /\ BeginLimits(task)
       \/ task.for = "single" /\ BeginSingle(task) /\ UNCHANGED <<cache, told>>
       \/ /\ task.for = "single" => task.setting \in Valued
          /\ Return
          /\ UNCHANGED <<requests, cache, told>>
    /\ UNCHANGED <<stationVars, line, authed, resubscribe, serial, creds, frags,
                   snapshot, applied, stray, skipped>>

Writing == pc \in {"ack_max", "ack_min", "ack_single"}
Awaited == Opcode[IF pc = "ack_single" THEN task.setting ELSE "soc_limit_max"]

(* What was written has reached the station, the limits with effect.       *)
Done ==
    IF pc = "ack_single"
      THEN \A i \in DOMAIN requests : requests[i] # Single(task.setting)
      ELSE limits = task.pair

(* What is not the acknowledgement is dropped, telemetry too.              *)
Skip ==
    /\ Writing
    /\ line # <<>>
    /\ Head(line) # Ack(Awaited)
    /\ PassedOver(Head(line))
    /\ line' = Tail(line)
    /\ UNCHANGED <<stationVars, requests, pc, task, cacheVars, frags, historyVars, stray>>

\* Mutant of Acknowledged: the next packet is taken, as the gate does.
AcknowledgedAny ==
    /\ Writing
    /\ line # <<>>
    /\ line' = Tail(line)
    /\ IF pc = "ack_max"
         THEN /\ Send(Write("min", task.pair["min"]))
              /\ pc' = "ack_min"
              /\ UNCHANGED <<task, resubscribe, applied>>
         ELSE /\ Return
              /\ resubscribe' = Owed
              /\ applied' = (applied /\ Done)
              /\ UNCHANGED requests
    /\ UNCHANGED <<stationVars, authed, cache, serial, creds, frags, snapshot, told,
                   stray, skipped>>

(* The first acknowledgement of the opcode, whatever its status.           *)
Acknowledged ==
    /\ Writing
    /\ line # <<>>
    /\ Head(line) = Ack(Awaited)
    /\ line' = Tail(line)
    /\ IF pc = "ack_max"
         THEN /\ Send(Write("min", task.pair["min"]))
              /\ pc' = "ack_min"
              /\ UNCHANGED <<task, resubscribe, applied>>
         ELSE /\ Return
              /\ resubscribe' = Owed
              /\ applied' = (applied /\ Done)
              /\ UNCHANGED requests
    /\ UNCHANGED <<stationVars, authed, cache, serial, creds, frags, snapshot, told,
                   stray, skipped>>

(* Four seconds without it: the write fails, the cache stays.              *)
WriteSilent ==
    /\ Writing
    /\ line = <<>>
    /\ Return
    /\ resubscribe' = Owed
    /\ stray' = TRUE
    /\ UNCHANGED <<stationVars, requests, line, authed, cache, serial, creds, frags,
                   historyVars, skipped>>

-----------------------------------------------------------------------------
(* Telemetry.                                                              *)

(* A stream, or one status: both await next_telemetry.                     *)
Follow ==
    /\ MayCall
    /\ pc' \in {"stream", "status"}
    /\ UNCHANGED <<stationVars, requests, line, task, cacheVars, frags, historyVars,
                   stray, skipped>>

Listening == pc \in {"stream", "status"}

(* A command drops the stream, a limit the status.                         *)
Unfollow ==
    /\ Listening
    /\ pc' = "idle"
    /\ UNCHANGED <<stationVars, requests, line, task, cacheVars, frags, historyVars,
                   stray, skipped>>

\* Mutant of Collected: the first fragment does not clear the buffer.
CollectedAll(f) == {g \in frags : g.index # f.index} \cup {f}

(* Fragmenter::push: the first fragment clears what was there; fragments   *)
(* are kept by their index only.                                           *)
Collected(f) ==
    IF f.index = 1 THEN {f} ELSE {g \in frags : g.index # f.index} \cup {f}

(* A whole message: limits are cached if the model reports any, the serial *)
(* number learned.                                                         *)
Hear ==
    /\ Listening
    /\ line # <<>>
    /\ Head(line).type = "fragment"
    /\ line' = Tail(line)
    /\ LET all == Collected(Head(line))
       IN IF {f.index : f \in all} # {1, 2}
            THEN /\ frags' = all
                 /\ UNCHANGED <<pc, cache, serial, snapshot, told>>
            ELSE /\ frags' = {}
                 /\ snapshot' = {f.message : f \in all}
                 /\ IF LimitSettings \subseteq Shown(gen, Params(gen))
                      THEN \E f \in all :
                             /\ cache' = [g \in Fields |-> f.limits[g]]
                             /\ told' = [g \in Fields |-> told[g] \cup {f.limits[g]}]
                      ELSE UNCHANGED <<cache, told>>
                 /\ serial' = ("serial_number" \in Filled(gen, Params(gen)))
                 /\ pc' = IF pc = "status" THEN "idle" ELSE pc
    /\ UNCHANGED <<stationVars, requests, task, authed, resubscribe, creds, applied,
                   stray, skipped>>

(* Not a packet of telemetry, or one that makes no sense of it.            *)
Overhear ==
    /\ Listening
    /\ line # <<>>
    /\ Head(line).type # "fragment"
    /\ line' = Tail(line)
    /\ UNCHANGED <<stationVars, requests, pc, task, cacheVars, frags, historyVars,
                   stray, skipped>>

(* The wait runs out: a stream after a write subscribes again, any other   *)
(* ends.                                                                   *)
ListenSilent ==
    /\ Listening
    /\ line = <<>>
    /\ IF pc = "stream" /\ resubscribe > 0
         THEN /\ resubscribe' = resubscribe - 1
              /\ Send(Gate("4100"))
              /\ UNCHANGED pc
         ELSE /\ pc' = "idle"
              /\ UNCHANGED <<resubscribe, requests>>
    /\ UNCHANGED <<stationVars, line, task, authed, cache, serial, creds, frags,
                   historyVars, stray, skipped>>

Next ==
    \/ Connect \/ Negotiate \/ NegotiateSecure \/ HandshakeGivenUp \/ HangUp
    \/ Press \/ ServeHello \/ ServeGate \/ ServeWrite \/ ServeSubscribe \/ Ignore \/ Push
    \/ Authenticate \/ GateKey \/ GateAuth \/ Bonded \/ GateSilent \/ Forget
    \/ \E f \in Fields, v \in Levels : SetLimit(f, v)
    \/ \E s \in Chosen : Set(s)
    \/ \E id \in {"ac", "dc", "light", "display"} : Control(id)
    \/ Passed \/ Skip \/ Acknowledged \/ WriteSilent
    \/ Follow \/ Unfollow \/ Hear \/ Overhear \/ ListenSilent

Spec == Init /\ [][Next]_vars
-----------------------------------------------------------------------------
Fragments ==
    [type : {"fragment"}, index : {1, 2}, message : Nat, limits : [Fields -> Levels]]

Packets ==
    [type : {"status"}, code : {"ok", "unbound"}]
    \cup [type : {"hello"}, step : 1 .. Steps]
    \cup [type : {"ack"}, opcode : Opcodes]
    \cup Fragments

Requests ==
    [cmd : {"4022", "4023", "4027", "4100"}]
    \cup [cmd : {"hello"}, step : 1 .. Steps + 1]
    \cup [cmd : Opcodes, field : Fields, value : Levels]
    \cup [cmd : Opcodes, setting : Chosen]
    \cup {Plain}

TypeOK ==
    /\ gen \in Models
    /\ {linked, bond, button, gated, subscribed, authed, serial, stray, applied} \subseteq BOOLEAN
    /\ limits \in [Fields -> Levels]
    /\ messages \in Nat
    /\ requests \in Seq(Requests)
    /\ line \in Seq(Packets)
    /\ frags \subseteq Fragments
    /\ pc \in {"off", "hello", "idle", "gate_key", "gate_auth", "bond", "passed",
               "ack_max", "ack_min", "ack_single", "stream", "status"}
    /\ pc # "off" => linked
    /\ cache \in [Fields -> Levels \cup {Unknown}]
    /\ resubscribe \in 0 .. Owed
    /\ creds \subseteq {"model", "serial"}
    /\ skipped \in 0 .. 2

(* While every gate and write gets its answer and telemetry does not run   *)
(* during a gate, the client counts itself authenticated only on a station *)
(* that knows it and in a session that has passed its gate, on a new       *)
(* connection as on the first (anker.rs:335-340, which looks at the second *)
(* answer).                                                                *)
AuthedBound == ~stray /\ authed => bond /\ gated

(* Under the same condition a write reported as done has been done: both   *)
(* limits were those written when the call returned, and any other setting *)
(* had been received (device.rs:549-626), although one opcode serves many. *)
DoneApplied == ~stray => applied

(* The pair a single limit is written with was reported or asked for,      *)
(* field by field, whatever failed before (anker.rs:126-141).              *)
PairKnown == \A f \in Fields : cache[f] \in told[f] \cup {Unknown}

(* While at most one fragment was passed over, a snapshot is put together  *)
(* from the fragments of one message, also when a stream is dropped        *)
(* between two of them: the first fragment clears what was kept            *)
(* (protocol.rs:251-256).                                                  *)
WholeUnlessSkipped == skipped < 2 => \A m, n \in snapshot : m = n

(* authed is documented to say whether the gate has passed this session    *)
(* (anker.rs:30).                                                          *)
AuthedPassed == authed => gated

(* push is documented to return the body once all fragments have arrived   *)
(* (protocol.rs:236): of one message.                                      *)
WholeSnapshots == \A m, n \in snapshot : m = n

(* forget_auth is documented to forget the saved userId (anker.rs:443):    *)
(* with none left, the next connection has to pair.                        *)
ForgetForgets == pc = "idle" /\ ~authed /\ serial => "model" \notin creds
=============================================================================
