------------------------------ MODULE EcoFlow -------------------------------
(***************************************************************************)
(* The EcoFlow client (crates/ecoflow/src/session.rs, bms.rs, packet.rs):  *)
(* a handshake that takes the first frame of what it has as the answer of  *)
(* the stage it is in, then reads of telemetry the device pushes.  Frames  *)
(* come in notifications that cut and join them; the buffer is split at    *)
(* their marks.  Ciphers are left out: a frame of the session is one the   *)
(* client can decrypt once it has the key.                                 *)
(***************************************************************************)
EXTENDS Naturals, Sequences, SequencesExt, FiniteSetsExt

CONSTANTS
    Rounds,    \* notifications the handshake takes at most (64)
    Window,    \* notifications one read takes at most (8)
    MaxFrames, \* bound: frames of one handshake
    MaxPushes  \* bound: frames of one connection beyond those

ASSUME EcoFlowAssumption ==
    /\ Rounds \in Nat \ {0}
    /\ Window \in Nat \ {0}
    /\ {MaxFrames, MaxPushes} \subseteq Nat

VARIABLES
    stage,     \* Handshake.stage
    call,      \* "connect", "idle", "read", or "closed"
    rounds,    \* notifications the call has taken
    buf,       \* parts of frames received and not yet decoded
    soc,       \* telem.soc: the frame it came from, 0 for none
    answer,    \* history: what the last read answered with
    requests,  \* what the client wrote and the device has not answered
    last,      \* the device's last answer
    air,       \* parts of frames under way
    sent,      \* frames the device has sent
    torn,      \* history: a part of a frame was lost
    faulty     \* history: the device or the link was not as it should be

clientVars == <<stage, call, rounds, buf, soc, answer>>
deviceVars == <<requests, last, air, sent>>
vars == <<clientVars, deviceVars, torn, faulty>>

Stages == {"pubkey", "keyinfo", "auth_status", "auth", "ready"}
Answers == Stages \cup {"granted", "refused"}
Pushes == {"soc", "other"}

-----------------------------------------------------------------------------
(* Frames and how a stream of parts is split.  A frame is two parts of the *)
(* same length; only the first begins with the mark.                       *)

Frame(kind, n) ==
    <<[kind |-> kind, n |-> n, piece |-> "head"],
      [kind |-> kind, n |-> n, piece |-> "tail"]>>

(* Frames cut out of b: as many as begin at a mark and are long enough.    *)
Cut(b) ==
    Max({m \in 0 .. Len(b) \div 2 : \A i \in 1 .. m : b[2 * i - 1].piece = "head"})

(* The checksum: both parts are of one frame.                              *)
Valid(b, i) == SubSeq(b, 2 * i - 1, 2 * i) = Frame(b[2 * i].kind, b[2 * i].n)

(* The frames of b, each by its place.                                     *)
Frames(b) == {i \in 1 .. Cut(b) : Valid(b, i)}

KindAt(b, i) == b[2 * i].kind

Rest(b) == SubSeq(b, 2 * Cut(b) + 1, Len(b))

(* decode_packets: what decrypts under the session key.                    *)
Packets(b) ==
    {i \in Frames(b) : KindAt(b, i) \in Pushes \cup {"auth_status", "granted", "refused"}}

-----------------------------------------------------------------------------
(* with_transport: the link is open and the public key written.            *)
Init ==
    /\ stage = "pubkey"
    /\ call = "connect"
    /\ rounds = 0
    /\ buf = <<>>
    /\ soc = 0
    /\ answer = "none"
    /\ requests = <<"pubkey">>
    /\ last = "none"
    /\ air = <<>>
    /\ sent = 0
    /\ torn = FALSE
    /\ faulty = FALSE

(* A new client, and a new session of the device.                          *)
Reconnect ==
    /\ call = "closed"
    /\ stage' = "pubkey"
    /\ call' = "connect"
    /\ rounds' = 0
    /\ buf' = <<>>
    /\ soc' = 0
    /\ answer' = "none"
    /\ requests' = <<"pubkey">>
    /\ last' = "none"
    /\ air' = <<>>
    /\ sent' = 0
    /\ torn' = FALSE
    /\ UNCHANGED faulty

-----------------------------------------------------------------------------
(* The device.                                                             *)

Send(kind) ==
    /\ air' = air \o Frame(kind, sent + 1)
    /\ sent' = sent + 1

Answer ==
    /\ requests # <<>>
    /\ \E kind \in IF Head(requests) = "auth" THEN {"granted", "refused"}
                   ELSE {Head(requests)} :
         /\ Send(kind)
         /\ last' = kind
         /\ faulty' = (faulty \/ kind = "refused")
    /\ requests' = Tail(requests)
    /\ UNCHANGED <<clientVars, torn>>

MaySend == sent < IF stage = "ready" THEN MaxFrames + MaxPushes ELSE MaxFrames

(* An answer comes once more.                                              *)
Repeat ==
    /\ last # "none"
    /\ MaySend
    /\ Send(last)
    /\ faulty' = TRUE
    /\ UNCHANGED <<clientVars, requests, last, torn>>

(* Telemetry, pushed as soon as there is a session, also before the answer *)
(* that is awaited.                                                        *)
Push ==
    /\ call # "closed"
    /\ last \in {"keyinfo", "auth_status", "granted"}
    /\ MaySend
    /\ \E kind \in Pushes : Send(kind)
    /\ UNCHANGED <<clientVars, requests, last, torn, faulty>>

(* A notification the client was too slow for.                             *)
Lose ==
    /\ air # <<>>
    /\ air' = Tail(air)
    /\ torn' = TRUE
    /\ faulty' = TRUE
    /\ UNCHANGED <<clientVars, requests, last, sent>>

-----------------------------------------------------------------------------
(* The handshake.                                                          *)

(* connect fails and the client is dropped.                                *)
Fail ==
    /\ call' = "closed"
    /\ UNCHANGED <<stage, rounds, buf, soc, answer, torn>>

GoOn(b) ==
    /\ buf' = b
    /\ rounds' = rounds + 1
    /\ IF rounds + 1 = Rounds THEN call' = "closed" ELSE UNCHANGED call
    /\ UNCHANGED <<soc, answer, torn>>

(* The answer to a stage is taken and the next request written; the frames *)
(* behind the first are lost on it.                                        *)
Advance(b, next) ==
    /\ stage' = next
    /\ requests' = Append(requests, next)
    /\ GoOn(Rest(b))

\* Mutant of OnAuth: the first frame only, as in the other stages.
OnAuthFirst(b) ==
    LET first == KindAt(b, Min(Frames(b)))
    IN CASE first = "granted" ->
              /\ stage' = "ready"
              /\ call' = "idle"
              /\ rounds' = 0
              /\ buf' = <<>>
              /\ torn' = (torn \/ Rest(b) # <<>>)
              /\ UNCHANGED <<soc, answer, requests>>
         [] first = "refused" -> Fail /\ UNCHANGED requests
         [] OTHER -> GoOn(Rest(b)) /\ UNCHANGED <<stage, requests>>

\* Mutant of OnAuth: any response advances, as in the stage before.
OnAuthAny(b) ==
    /\ stage' = "ready"
    /\ call' = "idle"
    /\ rounds' = 0
    /\ buf' = <<>>
    /\ torn' = (torn \/ Rest(b) # <<>>)
    /\ UNCHANGED <<soc, answer, requests>>

(* Waits for the answer to the secret among all the packets there are.     *)
(* The client then starts with an empty buffer, also when the head of a    *)
(* frame is in it.                                                         *)
OnAuth(b) ==
    LET replies == {i \in Packets(b) : KindAt(b, i) \in {"granted", "refused"}}
    IN CASE replies = {} -> GoOn(Rest(b)) /\ UNCHANGED <<stage, requests>>
         [] replies # {} /\ KindAt(b, Min(replies)) = "refused" ->
              Fail /\ UNCHANGED requests
         [] OTHER ->
              /\ stage' = "ready"
              /\ call' = "idle"
              /\ rounds' = 0
              /\ buf' = <<>>
              /\ torn' = (torn \/ Rest(b) # <<>>)
              /\ UNCHANGED <<soc, answer, requests>>

(* on_notification, with at least one frame in the buffer.                 *)
OnNotification(b) ==
    LET first == KindAt(b, Min(Frames(b)))
    IN CASE stage = "pubkey" /\ first = "pubkey" -> Advance(b, "keyinfo")
         [] stage = "keyinfo" /\ first = "keyinfo" -> Advance(b, "auth_status")
         [] stage = "auth_status" -> Advance(b, "auth")
         [] stage = "auth" -> OnAuth(b)
         [] OTHER -> Fail /\ UNCHANGED requests

(* A notification carries up to three parts, of one frame or of two.       *)
Notified == {n \in 1 .. 3 : n <= Len(air)}

Shake ==
    /\ call = "connect"
    /\ \E n \in Notified :
         LET b == buf \o SubSeq(air, 1, n)
         IN /\ air' = SubSeq(air, n + 1, Len(air))
            /\ IF Frames(b) = {}
                 THEN GoOn(b) /\ UNCHANGED <<stage, requests>>
                 ELSE OnNotification(b)
    /\ UNCHANGED <<last, sent, faulty>>

(* Eight seconds without a notification, the battery gone, or the caller's *)
(* CONNECT_LIMIT.                                                          *)
ShakeSilent ==
    /\ call = "connect"
    /\ Fail
    /\ faulty' = TRUE
    /\ UNCHANGED deviceVars

-----------------------------------------------------------------------------
(* Reads.                                                                  *)

BeginRead ==
    /\ call = "idle"
    /\ call' = "read"
    /\ rounds' = 0
    /\ answer' = "none"
    /\ UNCHANGED <<stage, buf, soc, deviceVars, torn, faulty>>

(* read_packets has put newest in telem, if there was an SOC; read goes on *)
(* only while there never was one.                                         *)
Took(newest) ==
    /\ soc' = IF newest = 0 THEN soc ELSE newest
    /\ IF soc' # 0 \/ rounds + 1 = Window
         THEN /\ call' = "idle"
              /\ rounds' = 0
              /\ answer' = CASE soc' = 0 -> "none"
                             [] newest = 0 /\ answer = "none" -> "old"
                             [] OTHER -> "fresh"
         ELSE /\ rounds' = rounds + 1
              /\ UNCHANGED <<call, answer>>

Newest(b) ==
    Max({0} \cup {b[2 * i].n : i \in {j \in Packets(b) : KindAt(b, j) = "soc"}})

\* Mutant of ReadPackets: the incomplete frame is not kept.
ReadPacketsClear ==
    /\ call = "read"
    /\ \E n \in Notified :
         LET b == buf \o SubSeq(air, 1, n)
         IN /\ air' = SubSeq(air, n + 1, Len(air))
            /\ buf' = <<>>
            /\ Took(Newest(b))
    /\ UNCHANGED <<stage, requests, last, sent, torn, faulty>>

ReadPackets ==
    /\ call = "read"
    /\ \E n \in Notified :
         LET b == buf \o SubSeq(air, 1, n)
         IN /\ air' = SubSeq(air, n + 1, Len(air))
            /\ buf' = Rest(b)
            /\ Took(Newest(b))
    /\ UNCHANGED <<stage, requests, last, sent, torn, faulty>>

(* No notification within eight seconds, or none any more because the link *)
(* has gone: read_frame makes an empty chunk of both, which is no error.   *)
ReadSilent ==
    /\ call = "read"
    /\ Took(0)
    /\ UNCHANGED <<stage, buf, deviceVars, torn, faulty>>

(* The caller drops the read (STATUS_LIMIT); the buffer stays.  An error   *)
(* of the transport would end the read alike, but its read_frame has one   *)
(* only after close, when the client is gone.                              *)
GivenUp ==
    /\ call = "read"
    /\ call' = "idle"
    /\ rounds' = 0
    /\ UNCHANGED <<stage, buf, soc, answer, deviceVars, torn, faulty>>

Disconnect ==
    /\ call = "idle"
    /\ call' = "closed"
    /\ UNCHANGED <<stage, rounds, buf, soc, answer, deviceVars, torn, faulty>>

Next ==
    \/ Answer \/ Repeat \/ Push \/ Lose
    \/ Shake \/ ShakeSilent
    \/ BeginRead \/ ReadPackets \/ ReadSilent \/ GivenUp
    \/ Disconnect \/ Reconnect

(* The device answers what it is asked, and the client takes what comes.   *)
Spec == Init /\ [][Next]_vars /\ WF_vars(Answer) /\ WF_vars(Shake)
-----------------------------------------------------------------------------
Parts == [kind : Answers \cup Pushes, n : Nat, piece : {"head", "tail"}]

TypeOK ==
    /\ stage \in Stages
    /\ call \in {"connect", "idle", "read", "closed"}
    /\ rounds \in Nat
    /\ {buf, air} \subseteq Seq(Parts)
    /\ soc \in Nat
    /\ answer \in {"none", "fresh", "old"}
    /\ requests \in Seq(Stages)
    /\ last \in Answers \cup {"none"}
    /\ sent \in Nat
    /\ {torn, faulty} \subseteq BOOLEAN

(* The client believes itself authorised only when the device has accepted *)
(* its secret, whatever was pushed, repeated or lost on the way            *)
(* (session.rs:103 takes any first frame, 160 any response).               *)
ReadyGranted == stage = "ready" => last = "granted"

(* With a device that answers each request once, and says yes, the         *)
(* handshake completes: telemetry pushed between the answers, or joined to *)
(* them in one notification, does not break it although all stages but the *)
(* last look at one frame and drop the others (session.rs:101-114).        *)
HandshakeCompletes == [](~faulty) => <>(stage = "ready")

(* Unless a part was lost, the buffer and what is under way are together a *)
(* row of whole frames: the reads stay in step with the device, however a  *)
(* notification cuts it, and also when a read is dropped (bms.rs:97-105). *)
(* Once out of step the client never is in step again: what does not begin *)
(* with a mark is kept for ever (packet.rs:134-148).                       *)
InStep ==
    ~torn /\ call # "closed" => LET b == buf \o air
                                 IN /\ Len(b) = 2 * Cut(b)
                                    /\ \A i \in 1 .. Cut(b) : Valid(b, i)

(* status is documented to fetch a fresh snapshot (src/battery.rs:26) and  *)
(* read to poll until telemetry arrives or its window elapses              *)
(* (bms.rs:119): an SOC answered was received by that read.                *)
AnswersFresh == answer # "old"
=============================================================================
