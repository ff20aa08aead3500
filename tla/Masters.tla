------------------------------ MODULE Masters -------------------------------
(***************************************************************************)
(* The clients that ask one block after the other and take what comes:     *)
(* Renogy, Seplos, PACE, Bluetti, SOK, Jackery and Pylontech over RS485.   *)
(* An answer names its unit and perhaps its length, but (SOK EE apart) not *)
(* the block it answers, and nothing is flushed before a request.  A block *)
(* is a kind of answer; contents are left out.  Answers are late, lost in  *)
(* part, refused or never sent, and a caller may drop the call at any      *)
(* await (STATUS_LIMIT in the window's task).  Adapters completes the      *)
(* specification.                                                          *)
(***************************************************************************)
EXTENDS BleLink, Naturals, Sequences, FiniteSets

CONSTANTS
    Families,  \* the backends considered
    Rounds,    \* reads of the transport per request (64, 32, 16 or 4)
    MaxMissed, \* bound: requests that end without their answer
    MaxParts   \* bound: parts under way when a call begins

ASSUME MastersAssumption ==
    /\ Families \subseteq BleFamilies \cup SerialFamilies
    /\ Rounds \in Nat \ {0, 1}
    /\ MaxMissed \in Nat
    /\ MaxParts \in Nat

VARIABLES
    air,     \* parts of answers the battery is still to send
    line,    \* parts received and not yet read
    call,    \* "idle", "read", or "switch"
    block,   \* the request of the read in progress
    buf,     \* parts collected for it
    rounds,  \* reads of the transport made for it
    got,     \* what each block of the snapshot was decoded from
    missed   \* history: requests that ended without an answer accepted

clientVars == <<call, block, buf, rounds, got, missed>>
mastersVars == <<linkVars, air, line, clientVars>>

-----------------------------------------------------------------------------
(* What each family asks: per request, the blocks answered.                *)

Renogy == <<{"cells"}, {"temps"}, {"info"}, {"model"}>>
Seplos == <<{"pia"}, {"pib"}>>
Pace == <<{"pack"}>>
Bluetti == <<{"core"}, {"battery"}>>
SokAbc == <<{"telemetry"}>>
SokEe == <<{"info", "temp"}, {"cap", "cells"}>>
Jackery == <<{"status"}>>
PylontechRs485 == <<{"analog"}>>

Asks ==
    [renogy |-> Renogy, seplos |-> Seplos, pace |-> Pace, bluetti |-> Bluetti,
     sok_abc |-> SokAbc, sok_ee |-> SokEe, jackery |-> Jackery,
     pylontech_rs485 |-> PylontechRs485][family]

(* A failed battery block of a Bluetti is left out of the snapshot.        *)
Optional == IF family = "bluetti" THEN {2} ELSE {}

Switches == family \in {"bluetti", "jackery"}

Kinds == UNION {Asks[i] : i \in DOMAIN Asks}

(* age: requests written after the one it answers.                         *)
Part(kind, piece) == [kind |-> kind, piece |-> piece, age |-> 0]
Aged(q) == [i \in DOMAIN q |-> [q[i] EXCEPT !.age = @ + 1]]

(* How an answer travels: in one piece or in two, one frame per kind where *)
(* several are asked at once; a line after one that is none.               *)
AnswerTo(kinds) ==
    CASE family = "sok_ee" ->
           {<<Part(k, "whole"), Part(l, "whole")>> :
              k \in kinds \cap {"info", "cap"}, l \in kinds \cap {"temp", "cells"}}
      [] family = "pylontech_rs485" ->
           {<<Part(k, "whole")>> : k \in kinds}
           \cup {<<Part(k, "junk"), Part(k, "whole")>> : k \in kinds}
      [] OTHER -> {<<Part(k, "head"), Part(k, "tail")>> : k \in kinds}

(* A Modbus exception or a Pylontech return code; or no answer at all.     *)
Refusals ==
    IF family \in {"jackery", "sok_ee"} THEN {} ELSE {<<Part("refusal", "whole")>>}

Responses(kinds) == AnswerTo(kinds) \cup Refusals \cup {<<>>}

WholeAnswer(b) ==
    /\ Len(b) = 2
    /\ b[1].piece = "head"
    /\ b[2] = [b[1] EXCEPT !.piece = "tail"]

(* Modbus: the head tells the length, the rest of the chunk is cut off,    *)
(* and the checksum must fit.  What does not begin with a head has a wrong *)
(* length, shorter or longer than what is there.                           *)
LengthOutcomes(b) ==
    CASE b[1].piece = "head" /\ Len(b) = 1 -> {"more"}
      [] Len(b) >= 2 /\ WholeAnswer(SubSeq(b, 1, 2)) -> {"accept"}
      [] b[1].kind = "refusal" -> {"error"}
      [] OTHER -> {"more", "error"}

(* Jackery: everything received must decrypt together; what decrypts is    *)
(* the answer when there is JSON in it.                                    *)
CipherOutcomes(b) ==
    CASE WholeAnswer(b) -> {"accept"}
      [] Len(b) = 1 /\ b[1].piece = "whole" -> {"accept", "error"}
      [] OTHER -> {"more"}

(* Pylontech: a line that does not decode is passed over, and the next one *)
(* read; the return code of a refusal decodes, its values do not.          *)
Legible(part) == part.piece # "junk"

LineOutcomes(b) ==
    CASE ~Legible(b[1])         -> {"more"}
      [] b[1].kind = "refusal"  -> {"error"}
      [] OTHER                  -> {"accept"}

(* SOK EE: frames are collected by header until all wanted ones are there. *)
HeaderOutcomes(frames) ==
    IF Asks[block] \subseteq DOMAIN frames THEN {"accept"} ELSE {"more"}

Outcomes(b, frames) ==
    CASE family = "jackery" -> CipherOutcomes(b)
      [] family = "pylontech_rs485" -> LineOutcomes(b)
      [] family = "sok_ee" -> HeaderOutcomes(frames)
      [] OTHER -> LengthOutcomes(b)

NoBlocks == [k \in {} |-> Part("echo", "whole")]

-----------------------------------------------------------------------------
MastersInit ==
    /\ LinkInit
    /\ family \in Families
    /\ air = <<>>
    /\ line = <<>>
    /\ call = "idle"
    /\ block = 1
    /\ buf = <<>>
    /\ rounds = 0
    /\ got = NoBlocks
    /\ missed = 0

(* A serial port reads all there is; BLE reads a notification at a time.   *)
Chunks == IF Ble \/ family = "pylontech_rs485" THEN {1} ELSE 1 .. Len(line)

(* Lines the transport read along with the last one go with its buffer.    *)
Dropped == IF family = "pylontech_rs485" THEN 0 .. Len(line) ELSE {0}

(* write: what is under way belongs to an earlier request from now on.     *)
Request(kinds) ==
    /\ \E response \in Responses(kinds) : air' = Aged(air) \o response
    /\ \E d \in Dropped : line' = Aged(SubSeq(line, d + 1, Len(line)))
    /\ buf' = <<>>
    /\ rounds' = 0

CanWrite == Ble => radio

MayCall ==
    /\ stage = "open"
    /\ call = "idle"
    /\ CanWrite
    /\ missed < MaxMissed
    /\ Len(air) + Len(line) <= MaxParts

BeginRead ==
    /\ MayCall
    /\ call' = "read"
    /\ block' = 1
    /\ got' = NoBlocks
    /\ Request(Asks[1])
    /\ UNCHANGED <<linkVars, missed>>

BeginSwitch ==
    /\ MayCall
    /\ Switches
    /\ call' = "switch"
    /\ air' = Aged(air) \o <<Part("echo", "whole")>>
    /\ line' = Aged(line)
    /\ buf' = <<>>
    /\ rounds' = 0
    /\ UNCHANGED <<linkVars, block, got, missed>>

(* A BLE notification reaches the client that is subscribed.               *)
Arrive ==
    /\ air # <<>>
    /\ Ble => stage = "open"
    /\ line' = Append(line, Head(air))
    /\ air' = Tail(air)
    /\ UNCHANGED <<linkVars, clientVars>>

Lose ==
    /\ air # <<>>
    /\ air' = Tail(air)
    /\ UNCHANGED <<linkVars, line, clientVars>>

(* A line arrives garbled: noise, or a write has cleared the half of it    *)
(* that was there, and the rest is taken for a line.                       *)
Garble ==
    /\ family = "pylontech_rs485"
    /\ air # <<>>
    /\ Legible(Head(air))
    /\ air' = <<[Head(air) EXCEPT !.piece = "junk"]>> \o Tail(air)
    /\ UNCHANGED <<linkVars, line, clientVars>>

(* The call returns, with a snapshot or an error; its locals go.           *)
Return ==
    /\ call' = "idle"
    /\ block' = 1
    /\ buf' = <<>>
    /\ rounds' = 0

(* The next request of the read, or its end.  A write fails when the       *)
(* battery has gone.                                                       *)
Proceed(rest) ==
    \/ /\ block < Len(Asks)
       /\ CanWrite
       /\ block' = block + 1
       /\ \E response \in Responses(Asks[block + 1]) : air' = Aged(air) \o response
       /\ \E d \in {x \in Dropped : x <= Len(rest)} :
            line' = Aged(SubSeq(rest, d + 1, Len(rest)))
       /\ buf' = <<>>
       /\ rounds' = 0
       /\ UNCHANGED call
    \/ /\ block = Len(Asks) \/ ~CanWrite
       /\ Return
       /\ line' = rest
       /\ UNCHANGED air

(* The request ends without its answer: the read fails, or goes on without *)
(* an optional block.                                                      *)
Miss(rest) ==
    /\ missed' = missed + 1
    /\ IF call = "read" /\ block \in Optional
         THEN Proceed(rest) /\ UNCHANGED got
         ELSE Return /\ got' = NoBlocks /\ line' = rest /\ UNCHANGED air

(* What the chunk adds to the frames collected by header: a frame wanted   *)
(* for another request is passed over.                                     *)
Collected(b) ==
    LET wanted == {b[Len(b)].kind} \cap Asks[block]
    IN IF family = "sok_ee"
         THEN [k \in DOMAIN got \cup wanted |->
                 IF k \in wanted THEN b[Len(b)] ELSE got[k]]
         ELSE got

(* A block is decoded from the answer accepted, whatever it answered.      *)
Decoded(b) ==
    IF family = "sok_ee"
      THEN Collected(b)
      ELSE [k \in DOMAIN got \cup Asks[block] |->
              IF k \in Asks[block] THEN b[1] ELSE got[k]]

(* read_frame returned a chunk.                                            *)
Receive ==
    /\ call = "read"
    /\ line # <<>>
    /\ \E n \in Chunks :
         LET rest == SubSeq(line, n + 1, Len(line))
             b == buf \o SubSeq(line, 1, n)
             outcomes == Outcomes(b, Collected(b))
         IN \/ /\ "more" \in outcomes
               /\ rounds + 1 < Rounds
               /\ got' = Collected(b)
               /\ buf' = (IF family = "pylontech_rs485" THEN <<>> ELSE b)
               /\ rounds' = rounds + 1
               /\ line' = rest
               /\ UNCHANGED <<air, call, block, missed>>
            \/ /\ "more" \in outcomes
               /\ rounds + 1 = Rounds
               /\ Miss(rest)
            \/ /\ "error" \in outcomes
               /\ Miss(rest)
            \/ /\ "accept" \in outcomes
               /\ got' = Decoded(b)
               /\ Proceed(rest)
               /\ UNCHANGED missed
    /\ UNCHANGED linkVars

(* Silence after some data ends a reassembly, but not a collection; a line *)
(* of a Pylontech is not waited for twice.                                 *)
WaitsOn == family = "sok_ee" \/ (buf = <<>> /\ family # "pylontech_rs485")

\* Mutant of Silence: rounds without data are not counted.
SilenceUncounted ==
    /\ call = "read"
    /\ line = <<>>
    /\ IF WaitsOn
         THEN UNCHANGED <<air, line, clientVars>>
         ELSE Miss(<<>>)
    /\ UNCHANGED linkVars

\* Mutant of Silence: the request is written again.
SilenceRetries ==
    /\ call = "read"
    /\ line = <<>>
    /\ IF /\ WaitsOn
          /\ rounds + 1 < Rounds
         THEN /\ rounds' = rounds + 1
              /\ \E response \in Responses(Asks[block]) :
                   air' = (IF rounds = 0 THEN Aged(air) \o response ELSE air)
              /\ UNCHANGED <<line, call, block, buf, got, missed>>
         ELSE Miss(<<>>)
    /\ UNCHANGED linkVars

(* read_frame returned nothing: the read waits on while it has nothing.    *)
Silence ==
    /\ call = "read"
    /\ line = <<>>
    /\ IF /\ WaitsOn
          /\ rounds + 1 < Rounds
         THEN rounds' = rounds + 1
              /\ UNCHANGED <<air, line, call, block, buf, got, missed>>
         ELSE Miss(<<>>)
    /\ UNCHANGED linkVars

(* A switch reads one frame, whatever it is, or none.                      *)
Drain ==
    /\ call = "switch"
    /\ line # <<>>
    /\ line' = Tail(line)
    /\ Return
    /\ UNCHANGED <<linkVars, air, got, missed>>

DrainNothing ==
    /\ call = "switch"
    /\ line = <<>>
    /\ Miss(<<>>)
    /\ UNCHANGED linkVars

(* The caller drops the future at an await.                                *)
GivenUp ==
    /\ call # "idle"
    /\ missed' = missed + 1
    /\ Return
    /\ got' = NoBlocks
    /\ UNCHANGED <<linkVars, air, line>>

(* A client is dropped with what it had not read; a serial battery does    *)
(* not notice, nor does one whose link stays up.                           *)
Disconnect ==
    /\ call = "idle"
    /\ Close
    /\ line' = <<>>
    /\ IF Ble /\ ~radio' THEN air' = <<>> /\ missed' = 0 ELSE UNCHANGED <<air, missed>>
    /\ got' = NoBlocks
    /\ UNCHANGED <<call, block, buf, rounds>>

BatteryLost ==
    /\ PeerLost
    /\ air' = <<>>
    /\ UNCHANGED <<line, clientVars>>

Opening ==
    /\ StartOpen \/ FoundTarget \/ RadioUp \/ Connected \/ Opened \/ OpenGivenUp
         \/ OpenPort
    /\ UNCHANGED <<air, line, clientVars>>

(* The await of a read returns, with a notification or by its own limit.   *)
Listen == Receive \/ Silence \/ Drain \/ DrainNothing

-----------------------------------------------------------------------------
Parts ==
    [kind : {"echo", "refusal"} \cup Kinds, piece : {"head", "tail", "whole", "junk"},
     age : Nat]

TypeOK ==
    /\ LinkTypeOK
    /\ {air, line, buf} \subseteq Seq(Parts)
    /\ call \in {"idle", "read", "switch"}
    /\ block \in 1 .. Len(Asks)
    /\ rounds \in 0 .. Rounds
    /\ DOMAIN got \subseteq Kinds
    /\ \A k \in DOMAIN got : got[k] \in Parts
    /\ missed \in Nat

(* Each request without its answer lets the snapshots fall behind by one   *)
(* request at most: a late answer is never older than the requests missed. *)
(* Not so where switches are made: one drains a frame, not its answer, and *)
(* half an answer drained leaves the rest and the echo behind.             *)
LagBounded ==
    ~Switches => \A k \in DOMAIN got : got[k].age <= missed

(* Answers tagged with a header (sok_bms/src/bms.rs:104-107), and those of *)
(* a family that asks for one block only, are never taken for another      *)
(* block, however late.                                                    *)
Tellable == {"pace", "sok_abc", "sok_ee", "pylontech_rs485"}

KindsKept ==
    family \in Tellable => \A k \in DOMAIN got : got[k].kind = k

(* read is documented as a fresh snapshot of cells, temperatures and info  *)
(* (renogy_bms/src/bms.rs:55): each from its own section.  After a request *)
(* given up, the answer on the way is decoded as the next section.         *)
BlocksMatch == \A k \in DOMAIN got : got[k].kind = k

(* Every call ends, although a round without data is only counted.         *)
CallsEnd == (call # "idle") ~> (call = "idle")
=============================================================================
