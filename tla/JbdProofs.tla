------------------------------ MODULE JbdProofs ------------------------------
(***************************************************************************)
(* What the JBD client writes to a FET the BMS reported or the user asked  *)
(* for, for any bounds and with or without false frame starts, when it     *)
(* acts on a battery that was read (Blind = FALSE).  A toggle needs a      *)
(* status read in this connection, and from the basic answer of that read  *)
(* on the client knows of each FET something it was told (Told).  The      *)
(* assembler returns nothing but answers of the BMS (FrameIsAnswer), which *)
(* rests on the first of the places where it may stop.                     *)
(*                                                                         *)
(* Second, that the FETs end as the user asked, until a read is given up.  *)
(* What the client knows is then what was asked, because one answer with   *)
(* the FETs at most is anywhere on its way, and its question was behind    *)
(* every switch (InTime).                                                  *)
(***************************************************************************)
EXTENDS JbdBms, SequenceTheorems, WellFoundedInduction, TLAPS

Told == \A f \in Fets : known[f] \in seen[f]

JbdInv ==
    /\ TypeOK
    /\ ~open => wanted = "none"
    /\ reported \/ wanted = "cells" => Told
    /\ OtherFetKnown

-----------------------------------------------------------------------------
(* Sequences.                                                              *)

LEMMA PartOfSeq ==
    ASSUME NEW S, NEW s \in Seq(S), NEW m \in Nat \ {0}, NEW n \in Nat, n <= Len(s)
    PROVE  SubSeq(s, m, n) \in Seq(S)
<1>1. \A i \in m .. n : s[i] \in S
  BY ElementOfSeq
<1> QED
  BY <1>1, SubSeqProperties

LEMMA RemovedFromSeq ==
    ASSUME NEW S, NEW s \in Seq(S), NEW i \in DOMAIN s
    PROVE  RemoveAt(s, i) \in Seq(S)
<1>1. i \in 1 .. Len(s) /\ Len(s) \in Nat
  BY LenProperties
<1>2. SubSeq(s, 1, i - 1) \in Seq(S) /\ SubSeq(s, i + 1, Len(s)) \in Seq(S)
  BY <1>1, PartOfSeq
<1> QED
  BY <1>2, ConcatProperties DEF RemoveAt

(* A frame switches what a frame before it did, or what is added.          *)
LEMMA AppendedRange ==
    ASSUME NEW S, NEW s \in Seq(S), NEW x, NEW r \in Range(Append(s, x))
    PROVE  r \in Range(s) \/ r = x
<1>1. PICK i \in DOMAIN Append(s, x) : r = Append(s, x)[i]
  BY DEF Range
<1>2. i \in 1 .. Len(s) + 1 /\ Len(s) \in Nat /\ DOMAIN s = 1 .. Len(s)
  BY <1>1, LenProperties
<1>3. CASE i = Len(s) + 1
  BY <1>1, <1>2, <1>3
<1>4. CASE i \in 1 .. Len(s)
  BY <1>1, <1>2, <1>4 DEF Range
<1> QED
  BY <1>2, <1>3, <1>4

LEMMA TailRange ==
    ASSUME NEW S, NEW s \in Seq(S), s # <<>>, NEW r \in Range(Tail(s))
    PROVE  r \in Range(s)
<1>1. PICK i \in DOMAIN Tail(s) : r = Tail(s)[i]
  BY DEF Range
<1>2. /\ Tail(s) \in Seq(S)
      /\ Len(Tail(s)) = Len(s) - 1
      /\ \A j \in 1 .. Len(Tail(s)) : Tail(s)[j] = s[j + 1]
  BY HeadTailProperties
<1>3. i \in 1 .. Len(s) - 1 /\ Len(s) \in Nat /\ DOMAIN s = 1 .. Len(s)
  BY <1>1, <1>2, LenProperties
<1>4. r = s[i + 1] /\ i + 1 \in DOMAIN s
  BY <1>1, <1>2, <1>3
<1> QED
  BY <1>4 DEF Range

-----------------------------------------------------------------------------
(* The assembler.                                                          *)

LEMMA PartsTyped == \A p \in Part : Claims(p) \in 1 .. 2 /\ Parts(p.of) \in 1 .. 2
BY DEF Claims, Parts, Part

LEMMA AnswerParts ==
    ASSUME NEW a \in Answer
    PROVE  AsParts(a) \in Seq(Part)
<1>1. Parts(a) \in 1 .. 2
  BY DEF Parts
<1>2. AsParts(a) \in [1 .. Parts(a) -> Part]
  BY <1>1 DEF AsParts, Part
<1> QED
  BY <1>1, <1>2, SeqDef

(* The least of a set of positions.                                        *)
LEMMA LeastPosition ==
    ASSUME NEW T \in SUBSET Nat, T # {}
    PROVE  \E i \in T : \A j \in T : i <= j
<1>1. PICK i \in T : \A j \in T : ~ (<<j, i>> \in OpToRel(<, Nat))
  BY NatLessThanWellFounded, WFMin
<1>2. ASSUME NEW j \in T PROVE i <= j
  <2>1. ~(j < i)
    BY <1>1 DEF OpToRel
  <2> QED
    BY <2>1
<1> QED
  BY <1>2

LEMMA StopIsPosition ==
    ASSUME NEW b \in Seq(Part), Stops(b) # {}
    PROVE  Stop(b) \in Stops(b) /\ Stop(b) \in 1 .. Len(b)
<1>1. Stops(b) \subseteq 1 .. Len(b) /\ Len(b) \in Nat
  BY LenProperties DEF Stops
<1>2. \E i \in Stops(b) : \A j \in Stops(b) : i <= j
  BY <1>1, LeastPosition
<1> QED
  BY <1>1, <1>2 DEF Stop

LEMMA FrameIsAnswer ==
    ASSUME NEW b \in Seq(Part), HasFrame(b)
    PROVE  Frame(b) \in Answer /\ AfterFrame(b) \in Seq(Part)
<1>1. Stop(b) \in 1 .. Len(b) /\ Len(b) \in Nat
  BY StopIsPosition, LenProperties DEF HasFrame
<1>2. b[Stop(b)] \in Part
  BY <1>1, ElementOfSeq
<1>3. Parts(Frame(b)) \in 1 .. 2
  BY <1>2, PartsTyped DEF Frame
<1>4. SubSeq(b, Stop(b) + Parts(Frame(b)), Len(b)) \in Seq(Part)
  BY <1>1, <1>3, PartOfSeq
<1> QED
  BY <1>2, <1>4 DEF Frame, AfterFrame, Part

LEMMA AwaitingMoreTyped ==
    ASSUME NEW b \in Seq(Part)
    PROVE  AwaitingMore(b) \in Seq(Part)
<1>1. CASE Stops(b) = {}
  BY <1>1, EmptySeq DEF AwaitingMore
<1>2. CASE Stops(b) # {}
  <2>1. Stop(b) \in 1 .. Len(b) /\ Len(b) \in Nat
    BY <1>2, StopIsPosition, LenProperties
  <2>2. SubSeq(b, Stop(b), Len(b)) \in Seq(Part)
    BY <2>1, PartOfSeq
  <2> QED
    BY <1>2, <2>2 DEF AwaitingMore
<1> QED
  BY <1>1, <1>2

-----------------------------------------------------------------------------
LEMMA InitInv == Init => JbdInv
<1> SUFFICES ASSUME Init PROVE JbdInv
  OBVIOUS
<1>1. \A S : <<>> \in Seq(S)
  BY EmptySeq
<1>2. TypeOK
  BY <1>1 DEF Init, TypeOK, NoData
<1>3. OtherFetKnown
  BY DEF Init, OtherFetKnown, Switches, Range
<1> QED
  BY <1>2, <1>3 DEF Init, JbdInv

(* Where the requests and what was seen stay, so does OtherFetKnown.       *)
LEMMA SameRequests ==
    ASSUME OtherFetKnown, requests' = requests,
           \A f \in Fets : seen[f] \subseteq seen'[f]
    PROVE  OtherFetKnown'
BY DEF OtherFetKnown, Switches

(* What is appended to the requests switches only to what was seen.        *)
LEMMA OneMoreRequest ==
    ASSUME TypeOK, OtherFetKnown, NEW r, Write(r),
           \A f \in Fets : seen[f] \subseteq seen'[f],
           r.reg = "mosfet" => \A f \in Fets : r.on[f] \in seen'[f]
    PROVE  OtherFetKnown'
<1> SUFFICES ASSUME NEW q \in Switches', NEW f \in Fets PROVE q.on[f] \in seen'[f]
  BY DEF OtherFetKnown
<1>1. q \in Range(Append(requests, r)) /\ q.reg = "mosfet"
  BY DEF Switches, Write
<1>2. q \in Range(requests) \/ q = r
  BY <1>1, AppendedRange DEF TypeOK
<1>3. CASE q \in Range(requests)
  BY <1>1, <1>3 DEF OtherFetKnown, Switches
<1>4. CASE q = r
  BY <1>1, <1>4
<1> QED
  BY <1>2, <1>3, <1>4

LEMMA OneRequestLess ==
    ASSUME TypeOK, OtherFetKnown, requests # <<>>, requests' = Tail(requests),
           seen' = seen
    PROVE  OtherFetKnown'
<1>1. Switches' \subseteq Switches
  BY TailRange DEF TypeOK, Switches
<1> QED
  BY <1>1 DEF OtherFetKnown

-----------------------------------------------------------------------------
(* One lemma for each group of actions.                                    *)

LEMMA OpenInv == JbdInv /\ Open => JbdInv'
<1> SUFFICES ASSUME JbdInv, Open PROVE JbdInv'
  OBVIOUS
<1>1. \A r \in Switches : r \in Request /\ r.reg = "mosfet"
  <2> SUFFICES ASSUME NEW r \in Switches PROVE r \in Request
    BY DEF Switches
  <2>1. PICK i \in DOMAIN requests : r = requests[i]
    BY DEF Switches, Range
  <2> QED
    BY <2>1, LenProperties, ElementOfSeq DEF JbdInv, TypeOK
<1>2. seen' \in [Fets -> SUBSET BOOLEAN]
  BY <1>1 DEF Open, Request, Registers
<1>3. TypeOK'
  BY <1>2, EmptySeq DEF Open, JbdInv, TypeOK, NoData
<1>4. OtherFetKnown'
  BY DEF Open, OtherFetKnown, Switches
<1> QED
  BY <1>3, <1>4 DEF JbdInv, Open

LEMMA LinkInv == JbdInv /\ (Close \/ Lose) => JbdInv'
<1> SUFFICES ASSUME JbdInv, Close \/ Lose PROVE JbdInv'
  OBVIOUS
<1>1. requests' = requests /\ seen' = seen /\ known' = known /\ reported' = reported
  BY DEF Close, Lose, linkVars, asmVars, historyVars
<1>2. OtherFetKnown'
  BY <1>1, SameRequests DEF JbdInv
<1>3. CASE Close
  <2>1. TypeOK'
    BY <1>3, EmptySeq DEF Close, JbdInv, TypeOK, asmVars, historyVars, Registers
  <2> QED
    BY <1>1, <1>2, <1>3, <2>1 DEF Close, JbdInv, Told
<1>4. CASE Lose
  <2>1. air' \in Seq(Part)
    BY <1>4, RemovedFromSeq DEF Lose, JbdInv, TypeOK
  <2>2. TypeOK'
    BY <1>4, <2>1 DEF Lose, JbdInv, TypeOK, linkVars, asmVars, historyVars
  <2> QED
    BY <1>1, <1>2, <1>4, <2>2 DEF Lose, JbdInv, Told, linkVars
<1> QED
  BY <1>3, <1>4

(* The parts that a read takes, keeps back and leaves.                     *)
LEMMA CutTyped ==
    ASSUME NEW S, NEW s \in Seq(S), NEW n \in Nat, n <= Len(s)
    PROVE  /\ SubSeq(s, 1, Fitting(n)) \in Seq(S)
           /\ SubSeq(s, MaxRead + 1, n) \in Seq(S)
           /\ SubSeq(s, n + 1, Len(s)) \in Seq(S)
<1>1. Len(s) \in Nat
  BY LenProperties
<1>2. Fitting(n) \in Nat /\ Fitting(n) <= Len(s)
  BY <1>1, JbdAssumption DEF Fitting
<1>3. MaxRead + 1 \in Nat \ {0} /\ n + 1 \in Nat \ {0}
  BY JbdAssumption
<1>4. SubSeq(s, 1, Fitting(n)) \in Seq(S)
  BY <1>2, PartOfSeq
<1> QED
  BY <1>1, <1>3, <1>4, PartOfSeq

LEMMA ReadInv == JbdInv /\ Read => JbdInv'
<1> SUFFICES ASSUME JbdInv, Read PROVE JbdInv'
  OBVIOUS
<1>1. leftover \in Seq(Part) /\ air \in Seq(Part) /\ buf \in Seq(Part)
  BY DEF JbdInv, TypeOK
<1>2. Len(leftover) \in Nat /\ Len(air) \in Nat /\ DOMAIN air = 1 .. Len(air)
  BY <1>1, LenProperties
<1>3. ASSUME leftover # <<>> PROVE {air', leftover', buf'} \subseteq Seq(Part)
  <2>1. /\ SubSeq(leftover, 1, Fitting(Len(leftover))) \in Seq(Part)
        /\ SubSeq(leftover, MaxRead + 1, Len(leftover)) \in Seq(Part)
    BY <1>1, <1>2, CutTyped
  <2>2. /\ buf' = buf \o SubSeq(leftover, 1, Fitting(Len(leftover)))
        /\ leftover' = SubSeq(leftover, MaxRead + 1, Len(leftover))
        /\ air' = air
    BY <1>3 DEF Read
  <2>3. buf' \in Seq(Part)
    BY <1>1, <2>1, <2>2, ConcatProperties
  <2> QED
    BY <1>1, <2>1, <2>2, <2>3
<1>4. ASSUME leftover = <<>> PROVE {air', leftover', buf'} \subseteq Seq(Part)
  <2>1. PICK k \in DOMAIN air :
          /\ buf' = buf \o SubSeq(air, 1, Fitting(k))
          /\ leftover' = SubSeq(air, MaxRead + 1, k)
          /\ air' = SubSeq(air, k + 1, Len(air))
    BY <1>4 DEF Read
  <2>2. k \in Nat /\ k <= Len(air)
    BY <1>2
  <2>3. /\ SubSeq(air, 1, Fitting(k)) \in Seq(Part)
        /\ SubSeq(air, MaxRead + 1, k) \in Seq(Part)
        /\ SubSeq(air, k + 1, Len(air)) \in Seq(Part)
    BY <1>1, <2>2, CutTyped
  <2>4. buf' \in Seq(Part)
    BY <1>1, <2>1, <2>3, ConcatProperties
  <2> QED
    BY <2>1, <2>3, <2>4
<1>5. {air', leftover', buf'} \subseteq Seq(Part)
  BY <1>3, <1>4
<1>6. requests' = requests /\ seen' = seen
  BY DEF Read, historyVars
<1>7. OtherFetKnown'
  BY <1>6, SameRequests DEF JbdInv
<1>8. TypeOK'
  BY <1>5 DEF Read, historyVars, JbdInv, TypeOK
<1> QED
  BY <1>7, <1>8 DEF Read, historyVars, JbdInv, Told

LEMMA BmsInv == JbdInv /\ (BmsRead \/ BmsSwitch) => JbdInv'
<1> SUFFICES ASSUME JbdInv, BmsRead \/ BmsSwitch PROVE JbdInv'
  OBVIOUS
<1> USE DEF JbdInv
<1>1. requests # <<>> /\ requests' = Tail(requests) /\ seen' = seen
  BY DEF BmsRead, BmsSwitch, historyVars
<1>2. Head(requests) \in Request /\ Tail(requests) \in Seq(Request)
  BY <1>1, HeadTailProperties DEF TypeOK
<1>3. OtherFetKnown'
  BY <1>1, OneRequestLess
<1>4. \A a \in Answer : Notified(a) \in Seq(Part)
  BY AnswerParts, ConcatProperties DEF Notified, TypeOK
<1>5. CASE BmsRead
  <2>1. (IF Head(requests).reg = "basic" THEN [reg |-> "basic", fets |-> fets]
                                         ELSE [reg |-> "cells"]) \in Answer
    BY DEF TypeOK, Answer
  <2> QED
    BY <1>2, <1>3, <1>4, <1>5, <2>1
    DEF BmsRead, TypeOK, linkVars, asmVars, historyVars, Told
<1>6. CASE BmsSwitch
  <2>1. [reg |-> "mosfet"] \in Answer
    BY DEF Answer
  <2>2. Head(requests).on \in [Fets -> BOOLEAN]
    BY <1>2, <1>6 DEF BmsSwitch, Request, Registers
  <2> QED
    BY <1>2, <1>3, <1>4, <1>6, <2>1, <2>2
    DEF BmsSwitch, TypeOK, linkVars, asmVars, historyVars, Told
<1> QED
  BY <1>5, <1>6

LEMMA ReadBasicInv == JbdInv /\ ReadBasic => JbdInv'
<1> SUFFICES ASSUME JbdInv, ReadBasic PROVE JbdInv'
  OBVIOUS
<1> USE DEF JbdInv
<1>1. Write([reg |-> "basic"]) /\ seen' = seen
  BY DEF ReadBasic, historyVars
<1>2. OtherFetKnown'
  BY <1>1, OneMoreRequest
<1>3. [reg |-> "basic"] \in Request
  BY DEF Request, Registers
<1>4. TypeOK'
  BY <1>3, EmptySeq DEF ReadBasic, Write, TypeOK, asmVars, historyVars, Registers
<1> QED
  BY <1>2, <1>4 DEF ReadBasic, Write, historyVars, Told

(* From here on the client knows what it was told.                         *)
LEMMA BasicReadInv == JbdInv /\ BasicRead => JbdInv'
<1> SUFFICES ASSUME JbdInv, BasicRead PROVE JbdInv'
  OBVIOUS
<1> USE DEF JbdInv
<1>1. HasFrame(buf) /\ Frame(buf).reg = "basic" /\ buf' = AfterFrame(buf)
  BY DEF BasicRead, Accepts, Pops
<1>2. Frame(buf) \in Answer /\ buf' \in Seq(Part)
  BY <1>1, FrameIsAnswer DEF TypeOK
<1>3. Frame(buf).fets \in [Fets -> BOOLEAN]
  BY <1>1, <1>2 DEF Answer
<1>4. known' \in [Fets -> BOOLEAN]
  BY <1>3 DEF BasicRead
<1>5. seen' = [f \in Fets |-> seen[f] \cup {known'[f]}]
  BY DEF BasicRead
<1>6. seen' \in [Fets -> SUBSET BOOLEAN] /\ Told'
  BY <1>4, <1>5 DEF TypeOK, Told
<1>7. Write([reg |-> "cells"]) /\ [reg |-> "cells"] \in Request
  BY DEF BasicRead, Request, Registers
<1>8. OtherFetKnown'
  BY <1>5, <1>7, OneMoreRequest
<1>9. {air', leftover', buf'} \subseteq Seq(Part) /\ requests' \in Seq(Request)
  BY <1>2, <1>7, EmptySeq DEF BasicRead, Write, TypeOK
<1>10. {fets', known', asked'} \subseteq [Fets -> BOOLEAN]
  BY <1>4 DEF BasicRead, TypeOK
<1>11. /\ {open', popping', reported', late'} \subseteq BOOLEAN
       /\ wanted' \in Registers /\ ~popping'
  BY DEF BasicRead, Write, TypeOK, Registers
<1>12. TypeOK'
  BY <1>6, <1>9, <1>10, <1>11 DEF TypeOK
<1>13. open'
  BY DEF BasicRead, Write, Accepts
<1> QED
  BY <1>6, <1>8, <1>12, <1>13

LEMMA RequestInv ==
    JbdInv /\ (CellsRead \/ Skip \/ Refused \/ NoFrame \/ GiveUp) => JbdInv'
<1> SUFFICES ASSUME JbdInv, CellsRead \/ Skip \/ Refused \/ NoFrame \/ GiveUp
             PROVE  JbdInv'
  OBVIOUS
<1> USE DEF JbdInv
<1>1. /\ requests' = requests /\ seen' = seen /\ known' = known /\ open' = open
      /\ asked' = asked /\ fets' = fets /\ air' = air /\ leftover' = leftover
  BY DEF CellsRead, Skip, Refused, NoFrame, GiveUp, linkVars, asmVars, historyVars
<1>2. OtherFetKnown'
  BY <1>1, SameRequests
<1>3. buf' \in Seq(Part)
  <2>1. CASE CellsRead \/ Skip \/ Refused
    BY <2>1, FrameIsAnswer DEF CellsRead, Skip, Refused, Accepts, Pops, TypeOK
  <2>2. CASE NoFrame
    BY <2>2, AwaitingMoreTyped DEF NoFrame, TypeOK
  <2>3. CASE GiveUp
    BY <2>3 DEF GiveUp, asmVars, TypeOK
  <2> QED
    BY <2>1, <2>2, <2>3
<1>4. TypeOK'
  <2>1. {popping', reported', late'} \subseteq BOOLEAN
    BY DEF CellsRead, Skip, Refused, NoFrame, GiveUp, asmVars, historyVars, TypeOK
  <2>2. wanted' \in {wanted, "none"} /\ (popping' => popping /\ wanted' = wanted)
    BY DEF CellsRead, Skip, Refused, NoFrame, GiveUp, asmVars, TypeOK
  <2> QED
    BY <1>1, <1>3, <2>1, <2>2 DEF TypeOK
<1>5. Told => Told'
  BY <1>1 DEF Told
<1>6. /\ reported' \/ wanted' = "cells" => reported \/ wanted = "cells"
      /\ wanted' # "none" => wanted # "none"
  BY DEF CellsRead, Skip, Refused, NoFrame, GiveUp, historyVars
<1> QED
  BY <1>1, <1>2, <1>4, <1>5, <1>6

(* A toggle combines what was asked with what the client was told.         *)
LEMMA ToggleInv ==
    ASSUME ~Blind, JbdInv, NEW f \in Fets, NEW on \in BOOLEAN, Toggle(f, on)
    PROVE  JbdInv'
<1> USE DEF JbdInv
<1> DEFINE r == [reg |-> "mosfet", on |-> Combined(f, on)]
<1>1. Told
  BY DEF Toggle
<1>2. Combined(f, on) \in [Fets -> BOOLEAN]
  BY DEF Combined, TypeOK
<1>3. seen' \in [Fets -> SUBSET BOOLEAN] /\ \A g \in Fets : seen[g] \subseteq seen'[g]
  BY DEF Toggle, TypeOK
<1>4. \A g \in Fets : Combined(f, on)[g] \in seen'[g]
  BY <1>1 DEF Toggle, Combined, Told, TypeOK
<1>5. Told'
  BY <1>4 DEF Toggle, Told
<1>6. Write(r) /\ r \in Request
  BY <1>2 DEF Toggle, Request
<1>7. OtherFetKnown'
  BY <1>3, <1>4, <1>6, OneMoreRequest
<1>8. asked' \in [Fets -> BOOLEAN]
  BY DEF Toggle, TypeOK
<1>9. TypeOK'
  BY <1>2, <1>3, <1>6, <1>8, EmptySeq DEF Toggle, Write, TypeOK, asmVars
<1> QED
  BY <1>5, <1>7, <1>9 DEF Toggle, Write

-----------------------------------------------------------------------------
(* The invariant the theorem rests on, every type with it.                 *)
THEOREM JbdInvariant ==
    ASSUME ~Blind
    PROVE  Spec => []JbdInv
<1>1. JbdInv /\ [Next]_vars => JbdInv'
  <2> SUFFICES ASSUME JbdInv, [Next]_vars PROVE JbdInv'
    OBVIOUS
  <2>1. CASE UNCHANGED vars
    BY <2>1 DEF vars, linkVars, asmVars, historyVars, JbdInv, TypeOK, Told,
                OtherFetKnown, Switches
  <2>2. ASSUME NEW f \in Fets, NEW on \in BOOLEAN, Toggle(f, on) PROVE JbdInv'
    BY <2>2, ToggleInv
  <2> QED
    BY <2>1, <2>2, OpenInv, LinkInv, ReadInv, BmsInv, ReadBasicInv, BasicReadInv,
       RequestInv DEF Next
<1> QED
  BY <1>1, InitInv, PTL DEF Spec

(* Whatever order answers come in, in whatever parts, and whatever was lost *)
(* or given up, no FET is told what was neither reported of it nor asked:   *)
(* Combined (bms.rs:87-98) never falls back on the state of a new client.   *)
THEOREM OtherFetReported ==
    ASSUME ~Blind
    PROVE  Spec => []OtherFetKnown
<1>1. JbdInv => OtherFetKnown
  BY DEF JbdInv
<1> QED
  BY <1>1, JbdInvariant, PTL
-----------------------------------------------------------------------------
(* What holds until a read is given up.  The answers with the FETs that    *)
(* are under way, in the order the parts of all answers were sent: the     *)
(* assembler's buffer, what the last read left over, and the air.          *)

Basic(p) == p.of.reg = "basic"
Only(s, V) == \A i \in DOMAIN s : Basic(s[i]) => s[i].of.fets \in V

Ordered(s) ==
    \A i, j \in DOMAIN s : i < j /\ Basic(s[i]) /\ Basic(s[j]) => s[i].part < s[j].part

Below(s, t) ==
    \A i \in DOMAIN s, j \in DOMAIN t :
      Basic(s[i]) /\ Basic(t[j]) => s[i].part < t[j].part

(* At most one such answer, of FETs in V.                                  *)
OneAnswer(V) ==
    /\ Only(buf, V) /\ Only(leftover, V) /\ Only(air, V)
    /\ Ordered(buf) /\ Ordered(leftover) /\ Ordered(air)
    /\ Below(buf, leftover) /\ Below(buf, air) /\ Below(leftover, air)

(* The last switch under way, or the FETs if there is none, is as asked.   *)
LastAsAsked ==
    /\ (\A i \in DOMAIN requests : requests[i].reg # "mosfet") => fets = asked
    /\ \A i \in DOMAIN requests :
         /\ requests[i].reg = "mosfet"
         /\ \A j \in DOMAIN requests : i < j => requests[j].reg # "mosfet"
         => requests[i].on = asked

(* A question for the FETs comes behind every switch, and its answer is    *)
(* not under way yet.                                                      *)
Asking ==
    \A i \in DOMAIN requests : requests[i].reg = "basic" =>
      /\ \A j \in DOMAIN requests : i < j => requests[j].reg \notin {"basic", "mosfet"}
      /\ OneAnswer({})

NotAsking == \A i \in DOMAIN requests : requests[i].reg # "basic"

InTime ==
    /\ ~open => air = <<>>
    /\ ~late =>
         /\ LastAsAsked
         /\ reported \/ wanted = "cells" => known = asked
         /\ open /\ wanted = "basic" => Asking /\ OneAnswer({asked})
         /\ open /\ wanted # "basic" => NotAsking /\ OneAnswer({})

(* A row that is part of another, d places on.                             *)
Drawn(new, old, d) == \A i \in DOMAIN new : i + d \in DOMAIN old /\ new[i] = old[i + d]

LEMMA DrawnFrom ==
    ASSUME NEW s \in Seq(Part), NEW m \in Nat \ {0}, NEW n \in Nat, n <= Len(s)
    PROVE  /\ DOMAIN SubSeq(s, m, n) \subseteq Nat
           /\ Drawn(SubSeq(s, m, n), s, m - 1)
<1>1. /\ SubSeq(s, m, n) \in Seq(Part)
      /\ Len(SubSeq(s, m, n)) = IF m <= n THEN n - m + 1 ELSE 0
      /\ \A i \in 1 .. n - m + 1 : SubSeq(s, m, n)[i] = s[m + i - 1]
  <2>1. \A i \in m .. n : s[i] \in Part
    BY ElementOfSeq
  <2>2. QED
    BY <2>1, SubSeqProperties
<1> DEFINE t == SubSeq(s, m, n)
<1>2. DOMAIN t = 1 .. Len(t) /\ DOMAIN s = 1 .. Len(s) /\ Len(s) \in Nat
  BY <1>1, LenProperties
<1> HIDE DEF t
<1>3. ASSUME NEW i \in DOMAIN t
      PROVE  i \in Nat /\ i + (m - 1) \in DOMAIN s /\ t[i] = s[i + (m - 1)]
  <2>1. i \in 1 .. n - m + 1
    BY <1>1, <1>2 DEF t
  <2>2. t[i] = s[m + i - 1] /\ m + i - 1 = i + (m - 1)
    BY <1>1, <2>1 DEF t
  <2>3. i + (m - 1) \in DOMAIN s
    BY <1>2, <2>1
  <2>4. QED
    BY <2>1, <2>2, <2>3
<1>4. QED
  BY <1>3 DEF Drawn, t

LEMMA DrawnKeeps ==
    ASSUME NEW s, NEW t, NEW d \in Nat, Drawn(t, s, d), DOMAIN t \subseteq Nat
    PROVE  /\ \A V : Only(s, V) => Only(t, V)
           /\ Ordered(s) => Ordered(t)
           /\ \A u : Below(s, u) => Below(t, u)
           /\ \A u : Below(u, s) => Below(u, t)
<1>1. \A V : Only(s, V) => Only(t, V)
  BY DEF Drawn, Only
<1>2. \A u : Below(s, u) => Below(t, u)
  BY DEF Drawn, Below
<1>3. \A u : Below(u, s) => Below(u, t)
  BY DEF Drawn, Below
<1>4. ASSUME Ordered(s), NEW i \in DOMAIN t, NEW j \in DOMAIN t, i < j,
             Basic(t[i]), Basic(t[j])
      PROVE  t[i].part < t[j].part
  <2>1. i + d < j + d
    BY <1>4
  <2>2. QED
    BY <1>4, <2>1 DEF Drawn, Ordered
<1>5. QED
  BY <1>1, <1>2, <1>3, <1>4 DEF Ordered

LEMMA CutKeeps ==
    ASSUME NEW s \in Seq(Part), NEW m \in Nat \ {0}, NEW n \in Nat, n <= Len(s)
    PROVE  /\ \A V : Only(s, V) => Only(SubSeq(s, m, n), V)
           /\ Ordered(s) => Ordered(SubSeq(s, m, n))
           /\ \A u : Below(s, u) => Below(SubSeq(s, m, n), u)
           /\ \A u : Below(u, s) => Below(u, SubSeq(s, m, n))
<1>1. m - 1 \in Nat
  OBVIOUS
<1>2. QED
  BY <1>1, DrawnFrom, DrawnKeeps

LEMMA CutApart ==
    ASSUME NEW s \in Seq(Part), Ordered(s), NEW k \in Nat, k <= Len(s),
           NEW m \in Nat, k < m, NEW n \in Nat, n <= Len(s)
    PROVE  Below(SubSeq(s, 1, k), SubSeq(s, m, n))
<1> DEFINE a == SubSeq(s, 1, k)
           b == SubSeq(s, m, n)
<1>1. Drawn(a, s, 0) /\ Drawn(b, s, m - 1)
  BY DrawnFrom
<1>2. /\ DOMAIN a \subseteq 1 .. k
      /\ DOMAIN b \subseteq Nat \ {0}
  <2>1. \A i \in 1 .. k : s[i] \in Part
    BY ElementOfSeq
  <2>2. \A i \in m .. n : s[i] \in Part
    BY ElementOfSeq
  <2>3. a \in Seq(Part) /\ Len(a) = IF 1 <= k THEN k - 1 + 1 ELSE 0
    BY <2>1, SubSeqProperties
  <2>4. b \in Seq(Part)
    BY <2>2, SubSeqProperties
  <2>5. DOMAIN a = 1 .. Len(a) /\ DOMAIN b = 1 .. Len(b) /\ Len(b) \in Nat
    BY <2>3, <2>4, LenProperties
  <2> HIDE DEF a, b
  <2>6. QED
    BY <2>3, <2>5
<1> HIDE DEF a, b
<1>3. ASSUME NEW i \in DOMAIN a, NEW j \in DOMAIN b, Basic(a[i]), Basic(b[j])
      PROVE  a[i].part < b[j].part
  <2>1. i \in 1 .. k /\ j \in Nat \ {0}
    BY <1>2
  <2>2. i + 0 \in DOMAIN s /\ a[i] = s[i + 0] /\ i + 0 = i
    BY <1>1, <2>1 DEF Drawn
  <2>3. j + (m - 1) \in DOMAIN s /\ b[j] = s[j + (m - 1)]
    BY <1>1 DEF Drawn
  <2>4. i < j + (m - 1)
    BY <2>1
  <2>5. QED
    BY <1>3, <2>2, <2>3, <2>4 DEF Ordered
<1>4. QED
  BY <1>3 DEF Below, a, b

LEMMA JoinKeeps ==
    ASSUME NEW s \in Seq(Part), NEW t \in Seq(Part)
    PROVE  /\ \A V : Only(s, V) /\ Only(t, V) => Only(s \o t, V)
           /\ Ordered(s) /\ Ordered(t) /\ Below(s, t) => Ordered(s \o t)
           /\ \A u : Below(s, u) /\ Below(t, u) => Below(s \o t, u)
           /\ \A u : Below(u, s) /\ Below(u, t) => Below(u, s \o t)
<1> DEFINE r == s \o t
           n == Len(s)
<1>1. /\ n \in Nat /\ Len(t) \in Nat
      /\ DOMAIN s = 1 .. n /\ DOMAIN t = 1 .. Len(t) /\ DOMAIN r = 1 .. n + Len(t)
      /\ \A i \in 1 .. n : r[i] = s[i]
      /\ \A i \in 1 .. Len(t) : r[n + i] = t[i]
  BY ConcatProperties, LenProperties
<1> HIDE DEF r, n
<1>2. ASSUME NEW i \in DOMAIN r
      PROVE  \/ i \in DOMAIN s /\ r[i] = s[i]
             \/ i - n \in DOMAIN t /\ r[i] = t[i - n] /\ i > n
  <2>1. CASE i <= n
    BY <1>1, <2>1
  <2>2. CASE i > n
    <3>1. i - n \in 1 .. Len(t) /\ n + (i - n) = i
      BY <1>1, <2>2
    <3>2. QED
      BY <1>1, <2>2, <3>1
  <2>3. QED
    BY <1>1, <2>1, <2>2
<1>3. \A V : Only(s, V) /\ Only(t, V) => Only(r, V)
  BY <1>2 DEF Only
<1>4. \A u : Below(s, u) /\ Below(t, u) => Below(r, u)
  BY <1>2 DEF Below
<1>5. \A u : Below(u, s) /\ Below(u, t) => Below(u, r)
  BY <1>2 DEF Below
<1>6. ASSUME Ordered(s), Ordered(t), Below(s, t),
             NEW i \in DOMAIN r, NEW j \in DOMAIN r, i < j, Basic(r[i]), Basic(r[j])
      PROVE  r[i].part < r[j].part
  <2>1. i \in Int /\ j \in Int
    BY <1>1
  <2>2. CASE i \in DOMAIN s /\ r[i] = s[i] /\ j \in DOMAIN s /\ r[j] = s[j]
    BY <1>6, <2>2 DEF Ordered
  <2>3. CASE i \in DOMAIN s /\ r[i] = s[i] /\ j - n \in DOMAIN t /\ r[j] = t[j - n]
    BY <1>6, <2>3 DEF Below
  <2>4. CASE i - n \in DOMAIN t /\ r[i] = t[i - n] /\ j - n \in DOMAIN t /\ r[j] = t[j - n]
    <3>1. i - n < j - n
      BY <1>1, <1>6, <2>1
    <3>2. QED
      BY <1>6, <2>4, <3>1 DEF Ordered
  <2>5. ~(i > n /\ j \in DOMAIN s)
    BY <1>1, <1>6, <2>1
  <2>6. QED
    BY <1>2, <2>2, <2>3, <2>4, <2>5
<1>7. QED
  BY <1>3, <1>4, <1>5, <1>6 DEF Ordered, r


LEMMA NothingKeeps ==
    /\ \A V : Only(<<>>, V)
    /\ Ordered(<<>>)
    /\ \A u : Below(<<>>, u) /\ Below(u, <<>>)
BY DEF Only, Ordered, Below

LEMMA OneOrNone == OneAnswer({}) => \A V : OneAnswer(V)
BY DEF OneAnswer, Only

(* What is taken out of the buffer, or dropped.                            *)
LEMMA BufferKeeps ==
    ASSUME TypeOK, NEW V, OneAnswer(V), air' = air, leftover' \in {leftover, <<>>},
           NEW m \in Nat \ {0}, buf' = buf \/ buf' = SubSeq(buf, m, Len(buf)) \/ buf' = <<>>
    PROVE  OneAnswer(V)'
<1>1. buf \in Seq(Part) /\ Len(buf) \in Nat
  BY LenProperties DEF TypeOK
<1>2. /\ Only(buf', V) /\ Ordered(buf')
      /\ \A u : Below(buf, u) => Below(buf', u)
  <2>1. Only(buf, V) /\ Ordered(buf)
    BY DEF OneAnswer
  <2>2. CASE buf' = buf
    BY <2>1, <2>2
  <2>3. CASE buf' = SubSeq(buf, m, Len(buf))
    BY <1>1, <2>1, <2>3, CutKeeps
  <2>4. CASE buf' = <<>>
    BY <2>4, NothingKeeps
  <2>5. QED
    BY <2>2, <2>3, <2>4
<1>3. /\ Only(leftover', V) /\ Ordered(leftover')
      /\ Below(buf', leftover') /\ Below(leftover', air)
  BY <1>2, NothingKeeps DEF OneAnswer
<1>4. QED
  BY <1>2, <1>3 DEF OneAnswer

LEMMA LoseKeeps ==
    ASSUME TypeOK, NEW V, OneAnswer(V), Lose
    PROVE  OneAnswer(V)'
<1>1. PICK i \in DOMAIN air : air' = RemoveAt(air, i)
  BY DEF Lose
<1>2. air \in Seq(Part) /\ i \in 1 .. Len(air) /\ Len(air) \in Nat
  BY LenProperties DEF TypeOK
<1> DEFINE s == SubSeq(air, 1, i - 1)
           t == SubSeq(air, i + 1, Len(air))
<1>3. s \in Seq(Part) /\ t \in Seq(Part)
  BY <1>2, PartOfSeq
<1>4. /\ Only(s, V) /\ Ordered(s) /\ Only(t, V) /\ Ordered(t)
      /\ \A u : Below(u, air) => Below(u, s) /\ Below(u, t)
  BY <1>2, CutKeeps DEF OneAnswer
<1>5. Below(s, t)
  BY <1>2, CutApart DEF OneAnswer
<1>6. air' = s \o t
  BY <1>1 DEF RemoveAt
<1> HIDE DEF s, t
<1>7. Only(air', V) /\ Ordered(air') /\ \A u : Below(u, air) => Below(u, air')
  BY <1>3, <1>4, <1>5, <1>6, JoinKeeps
<1>8. buf' = buf /\ leftover' = leftover
  BY DEF Lose, linkVars, asmVars
<1>9. QED
  BY <1>7, <1>8 DEF OneAnswer

(* A read moves the front of a row to the buffer, as much as fits, and     *)
(* keeps the rest of what it took.                                         *)
LEMMA FrontMoves ==
    ASSUME NEW b \in Seq(Part), NEW s \in Seq(Part), NEW n \in Nat, n <= Len(s), NEW V,
           Only(b, V), Only(s, V), Ordered(b), Ordered(s), Below(b, s)
    PROVE  LET c == b \o SubSeq(s, 1, Fitting(n))
               l == SubSeq(s, MaxRead + 1, n)
               r == SubSeq(s, n + 1, Len(s))
           IN /\ Only(c, V) /\ Only(l, V) /\ Only(r, V)
              /\ Ordered(c) /\ Ordered(l) /\ Ordered(r)
              /\ Below(c, l) /\ Below(c, r) /\ Below(l, r)
              /\ \A u : Below(b, u) /\ Below(s, u) => Below(c, u) /\ Below(l, u)
<1> DEFINE f == SubSeq(s, 1, Fitting(n))
           l == SubSeq(s, MaxRead + 1, n)
           r == SubSeq(s, n + 1, Len(s))
<1>1. Len(s) \in Nat /\ MaxRead \in Nat \ {0} /\ Fitting(n) \in Nat
  BY LenProperties, JbdAssumption DEF Fitting
<1>2. Fitting(n) <= n /\ Fitting(n) < MaxRead + 1 /\ Fitting(n) <= Len(s)
  BY <1>1 DEF Fitting
<1>3. f \in Seq(Part) /\ l \in Seq(Part) /\ r \in Seq(Part)
  BY CutTyped
<1>4. /\ Only(f, V) /\ Only(l, V) /\ Only(r, V)
      /\ Ordered(f) /\ Ordered(l) /\ Ordered(r)
      /\ Below(b, f) /\ Below(b, l) /\ Below(b, r)
      /\ \A u : Below(s, u) => Below(f, u) /\ Below(l, u)
  <2>1. 1 \in Nat \ {0} /\ MaxRead + 1 \in Nat \ {0} /\ n + 1 \in Nat \ {0}
    BY <1>1
  <2>2. Only(f, V) /\ Ordered(f) /\ Below(b, f) /\ \A u : Below(s, u) => Below(f, u)
    BY <1>1, <1>2, <2>1, CutKeeps
  <2>3. Only(l, V) /\ Ordered(l) /\ Below(b, l) /\ \A u : Below(s, u) => Below(l, u)
    BY <1>1, <2>1, CutKeeps
  <2>4. Only(r, V) /\ Ordered(r) /\ Below(b, r)
    BY <1>1, <2>1, CutKeeps
  <2>5. QED
    BY <2>2, <2>3, <2>4
<1>5. Below(f, l) /\ Below(f, r)
  <2>1. MaxRead + 1 \in Nat /\ n + 1 \in Nat /\ Fitting(n) < n + 1
    BY <1>1, <1>2
  <2>2. QED
    BY <1>1, <1>2, <2>1, CutApart
<1>6. Below(l, r)
  <2> DEFINE w == SubSeq(s, 1, n)
  <2>1. Below(w, r)
    <3>1. n + 1 \in Nat /\ n < n + 1
      OBVIOUS
    <3>2. QED
      BY <1>1, <3>1, CutApart
  <2>2. Drawn(l, s, MaxRead) /\ DOMAIN l \subseteq Nat /\ Drawn(w, s, 0)
    <3>1. MaxRead + 1 \in Nat \ {0} /\ (MaxRead + 1) - 1 = MaxRead /\ 1 - 1 = 0
      BY <1>1
    <3>2. QED
      BY <3>1, DrawnFrom
  <2>3. DOMAIN w = 1 .. n /\ \A i \in 1 .. n : w[i] = s[i]
    <3>1. \A i \in 1 .. n : s[i] \in Part
      BY ElementOfSeq
    <3>2. w \in Seq(Part) /\ Len(w) = (IF 1 <= n THEN n - 1 + 1 ELSE 0)
          /\ \A i \in 1 .. n - 1 + 1 : w[i] = s[1 + i - 1]
      BY <3>1, SubSeqProperties
    <3>3. DOMAIN w = 1 .. Len(w)
      BY <3>2, LenProperties
    <3> HIDE DEF w
    <3>4. QED
      BY <3>2, <3>3
  <2>4. \A i \in DOMAIN l : i + MaxRead \in 1 .. n
    <3>1. MaxRead + 1 \in Nat \ {0}
      BY <1>1
    <3>2. \A i \in MaxRead + 1 .. n : s[i] \in Part
      BY <1>1, ElementOfSeq
    <3>3. Len(l) = IF MaxRead + 1 <= n THEN n - (MaxRead + 1) + 1 ELSE 0
      BY <3>1, <3>2, SubSeqProperties
    <3>4. DOMAIN l = 1 .. Len(l)
      BY <1>3, LenProperties
    <3> HIDE DEF l
    <3>5. QED
      BY <1>1, <3>3, <3>4
  <2> HIDE DEF l, w
  <2>5. Drawn(l, w, MaxRead)
    BY <2>2, <2>3, <2>4 DEF Drawn
  <2>6. QED
    BY <1>1, <2>1, <2>2, <2>5, DrawnKeeps
<1> HIDE DEF f, l, r
<1>7. /\ Only(b \o f, V) /\ Ordered(b \o f)
      /\ \A u : Below(b, u) /\ Below(f, u) => Below(b \o f, u)
  BY <1>3, <1>4, JoinKeeps
<1>8. QED
  BY <1>4, <1>5, <1>6, <1>7 DEF f, l, r

LEMMA ReadKeeps ==
    ASSUME TypeOK, NEW V, OneAnswer(V), Read
    PROVE  OneAnswer(V)'
<1>1. leftover \in Seq(Part) /\ air \in Seq(Part) /\ buf \in Seq(Part)
  BY DEF TypeOK
<1>2. Len(leftover) \in Nat /\ Len(air) \in Nat /\ DOMAIN air = 1 .. Len(air)
  BY <1>1, LenProperties
<1>3. CASE leftover # <<>>
  <2>1. /\ buf' = buf \o SubSeq(leftover, 1, Fitting(Len(leftover)))
        /\ leftover' = SubSeq(leftover, MaxRead + 1, Len(leftover))
        /\ air' = air
    BY <1>3 DEF Read
  <2> DEFINE n == Len(leftover)
  <2>2. /\ Only(buf, V) /\ Only(leftover, V) /\ Ordered(buf) /\ Ordered(leftover)
        /\ Below(buf, leftover) /\ Below(buf, air) /\ Below(leftover, air)
        /\ Only(air, V) /\ Ordered(air)
    BY DEF OneAnswer
  <2>3. n \in Nat /\ n <= Len(leftover)
    BY <1>2
  <2>4. /\ Only(buf', V) /\ Only(leftover', V) /\ Ordered(buf') /\ Ordered(leftover')
        /\ Below(buf', leftover')
        /\ \A u : Below(buf, u) /\ Below(leftover, u) => Below(buf', u) /\ Below(leftover', u)
    BY <1>1, <2>1, <2>2, <2>3, FrontMoves
  <2>5. QED
    BY <2>1, <2>2, <2>4 DEF OneAnswer
<1>4. CASE leftover = <<>>
  <2>1. PICK k \in DOMAIN air :
          /\ buf' = buf \o SubSeq(air, 1, Fitting(k))
          /\ leftover' = SubSeq(air, MaxRead + 1, k)
          /\ air' = SubSeq(air, k + 1, Len(air))
    BY <1>4 DEF Read
  <2>2. k \in Nat /\ k <= Len(air)
    BY <1>2
  <2>3. QED
    BY <1>1, <2>1, <2>2, FrontMoves DEF OneAnswer
<1>5. QED
  BY <1>3, <1>4

(* What the BMS sends comes behind everything else.                        *)
LEMMA SentBehind ==
    ASSUME TypeOK, NEW V, NEW a \in Answer, buf' = buf, leftover' = leftover,
           air' = air \o AsParts(a),
           \/ a.reg # "basic" /\ OneAnswer(V)
           \/ a.reg = "basic" /\ a.fets \in V /\ OneAnswer({})
    PROVE  OneAnswer(V)'
<1> DEFINE s == AsParts(a)
<1>1. air \in Seq(Part) /\ s \in Seq(Part)
  BY AnswerParts DEF TypeOK
<1>2. Only(s, V) /\ Ordered(s)
  BY DEF AsParts, Only, Ordered, Basic
<1>3. OneAnswer(V)
  BY OneOrNone
<1>4. \/ \A i \in DOMAIN s : ~Basic(s[i])
      \/ OneAnswer({})
  BY DEF AsParts, Basic
<1> HIDE DEF s
<1>5. Below(buf, s) /\ Below(leftover, s) /\ Below(air, s)
  BY <1>4 DEF Below, OneAnswer, Only
<1>6. /\ Only(air \o s, V) /\ Ordered(air \o s)
      /\ Below(buf, air \o s) /\ Below(leftover, air \o s)
  BY <1>1, <1>2, <1>3, <1>5, JoinKeeps DEF OneAnswer
<1>7. QED
  BY <1>3, <1>6 DEF OneAnswer, s


(* The frame with the FETs consists of both parts of the one answer, so    *)
(* nothing of it is left.                                                  *)
LEMMA AnswerTaken ==
    ASSUME TypeOK, OneAnswer({asked}), HasFrame(buf), Frame(buf).reg = "basic",
           buf' = AfterFrame(buf), air' = air, leftover' \in {leftover, <<>>}
    PROVE  OneAnswer({})' /\ ~OneAnswer({}) /\ Frame(buf).fets = asked
<1> DEFINE s == Stop(buf)
<1>1. buf \in Seq(Part) /\ air \in Seq(Part) /\ leftover \in Seq(Part)
  BY DEF TypeOK
<1>2. s \in 1 .. Len(buf) /\ Len(buf) \in Nat /\ DOMAIN buf = 1 .. Len(buf)
  BY <1>1, StopIsPosition, LenProperties DEF HasFrame
<1>3. buf[s] \in Part
  BY <1>1, <1>2, ElementOfSeq
<1>4. Decodes(buf, s) /\ Frame(buf) = buf[s].of
  BY DEF HasFrame, Frame
<1>5. /\ buf[s].part = 1 /\ Claims(buf[s]) = 2 /\ Parts(Frame(buf)) = 2
      /\ s + 1 \in DOMAIN buf /\ buf[s + 1] = [of |-> buf[s].of, part |-> 2]
  <2>1. Claims(buf[s]) \in 1 .. 2
    BY <1>3, PartsTyped
  <2>2. buf[s + 1 - 1] = [of |-> buf[s].of, part |-> 1] /\ s + 1 - 1 = s
    BY <1>2, <1>4, <2>1 DEF Decodes
  <2>3. buf[s].part = 1
    BY <2>2
  <2>4. Claims(buf[s]) = 2 /\ Parts(Frame(buf)) = 2
    BY <1>4, <2>3 DEF Claims, Parts
  <2>5. buf[s + 2 - 1] = [of |-> buf[s].of, part |-> 2] /\ s + 2 - 1 <= Len(buf)
    BY <1>4, <2>4 DEF Decodes, Complete
  <2>6. QED
    BY <1>2, <2>3, <2>4, <2>5
<1>6. Basic(buf[s]) /\ Basic(buf[s + 1]) /\ buf[s + 1].part = 2
  BY <1>4, <1>5 DEF Basic
<1>7. Frame(buf).fets = asked /\ ~OneAnswer({})
  BY <1>2, <1>4, <1>6 DEF OneAnswer, Only
<1>8. \A t : t \in Seq(Part) => \A i \in DOMAIN t : ~(2 < t[i].part)
  <2>1. \A p \in Part : ~(2 < p.part)
    BY DEF Part
  <2>2. QED
    BY <2>1, ElementOfSeq, LenProperties
<1>9. Only(air, {}) /\ Only(leftover, {})
  <2>1. Below(buf, air) /\ Below(buf, leftover)
    BY DEF OneAnswer
  <2>2. \A i \in DOMAIN air : Basic(air[i]) => 2 < air[i].part
    BY <1>5, <1>6, <2>1 DEF Below
  <2>3. \A i \in DOMAIN leftover : Basic(leftover[i]) => 2 < leftover[i].part
    BY <1>5, <1>6, <2>1 DEF Below
  <2>4. QED
    BY <1>1, <1>8, <2>2, <2>3 DEF Only
<1>10. buf' = SubSeq(buf, s + 2, Len(buf)) /\ s + 2 \in Nat \ {0}
  BY <1>2, <1>5 DEF AfterFrame
<1> HIDE DEF s
<1>11. Only(buf', {})
  <2>1. Drawn(buf', buf, (s + 2) - 1) /\ DOMAIN buf' \subseteq Nat
    BY <1>1, <1>2, <1>10, DrawnFrom
  <2>2. Len(buf') \in Nat /\ DOMAIN buf' = 1 .. Len(buf')
    BY <1>1, <1>2, <1>10, PartOfSeq, LenProperties
  <2>3. SUFFICES ASSUME NEW i \in DOMAIN buf', Basic(buf'[i]) PROVE FALSE
    BY DEF Only
  <2>4. i + ((s + 2) - 1) \in DOMAIN buf /\ buf'[i] = buf[i + ((s + 2) - 1)]
    BY <2>1 DEF Drawn
  <2>5. s + 1 < i + ((s + 2) - 1)
    BY <1>2, <2>2
  <2>6. Ordered(buf)
    BY DEF OneAnswer
  <2>7. 2 < buf[i + ((s + 2) - 1)].part
    BY <1>5, <1>6, <2>3, <2>4, <2>5, <2>6 DEF Ordered
  <2>8. QED
    BY <1>1, <1>8, <2>4, <2>7
<1>12. /\ Ordered(buf') /\ Ordered(leftover') /\ Ordered(air')
       /\ Below(buf', leftover') /\ Below(buf', air') /\ Below(leftover', air')
  <2>1. ASSUME NEW V, OneAnswer(V)
        PROVE  /\ Ordered(buf') /\ Ordered(leftover') /\ Ordered(air')
               /\ Below(buf', leftover') /\ Below(buf', air') /\ Below(leftover', air')
    <3>1. OneAnswer(V)'
      BY <1>10, <2>1, BufferKeeps
    <3>2. QED
      BY <3>1 DEF OneAnswer
  <2>2. QED
    BY <2>1
<1>13. QED
  BY <1>7, <1>9, <1>11, <1>12, NothingKeeps DEF OneAnswer

(* The requests, as one is answered and as one is added.                   *)
LEMMA RequestTaken ==
    ASSUME TypeOK, requests # <<>>, requests' = Tail(requests)
    PROVE  /\ 1 \in DOMAIN requests /\ Head(requests) = requests[1]
           /\ \A i \in DOMAIN requests' :
                i + 1 \in DOMAIN requests /\ 1 < i + 1 /\ requests'[i] = requests[i + 1]
           /\ \A i, j \in DOMAIN requests' : i < j => i + 1 < j + 1
           /\ \A i \in DOMAIN requests : i = 1 \/ (i - 1 \in DOMAIN requests' /\ (i - 1) + 1 = i)
           /\ \A i \in DOMAIN requests', j \in DOMAIN requests : i + 1 < j => i < j - 1
<1>1. requests \in Seq(Request)
  BY DEF TypeOK
<1> DEFINE n == Len(requests)
<1>2. /\ n \in Nat /\ n >= 1 /\ DOMAIN requests = 1 .. n /\ DOMAIN requests' = 1 .. n - 1
      /\ \A i \in 1 .. n - 1 : requests'[i] = requests[i + 1]
      /\ Head(requests) = requests[1]
  BY <1>1
<1> HIDE DEF n
<1>3. QED
  BY <1>2

LEMMA RequestAdded ==
    ASSUME TypeOK, NEW r, Write(r)
    PROVE  /\ \A i \in DOMAIN requests' :
                \/ i \in DOMAIN requests /\ requests'[i] = requests[i]
                \/ i = Len(requests) + 1 /\ requests'[i] = r
           /\ \A i \in DOMAIN requests :
                i \in DOMAIN requests' /\ i < Len(requests) + 1 /\ requests'[i] = requests[i]
           /\ Len(requests) + 1 \in DOMAIN requests' /\ requests'[Len(requests) + 1] = r
           /\ \A i \in DOMAIN requests' : ~(Len(requests) + 1 < i)
<1>1. requests \in Seq(Request)
  BY DEF TypeOK
<1> DEFINE n == Len(requests)
<1>2. /\ n \in Nat /\ DOMAIN requests = 1 .. n /\ DOMAIN requests' = 1 .. n + 1
      /\ \A i \in 1 .. n : requests'[i] = requests[i]
      /\ requests'[n + 1] = r
  BY <1>1, AppendProperties, LenProperties DEF Write
<1> HIDE DEF n
<1>3. QED
  BY <1>2 DEF n


LEMMA LastServed ==
    ASSUME TypeOK, LastAsAsked, requests # <<>>, requests' = Tail(requests), asked' = asked,
           fets' = IF Head(requests).reg = "mosfet" THEN Head(requests).on ELSE fets
    PROVE  LastAsAsked'
<1>1. /\ 1 \in DOMAIN requests /\ Head(requests) = requests[1]
      /\ \A i \in DOMAIN requests' : i + 1 \in DOMAIN requests /\ requests'[i] = requests[i + 1]
      /\ \A i \in DOMAIN requests : i = 1 \/ (i - 1 \in DOMAIN requests' /\ (i - 1) + 1 = i)
      /\ \A i \in DOMAIN requests', j \in DOMAIN requests : i + 1 < j => i < j - 1
      /\ \A i \in DOMAIN requests' : 1 < i + 1
  BY RequestTaken
<1>2. ASSUME \A i \in DOMAIN requests' : requests'[i].reg # "mosfet"
      PROVE  fets' = asked
  <2>1. \A i \in DOMAIN requests : i = 1 \/ requests[i].reg # "mosfet"
    BY <1>1, <1>2
  <2>2. CASE Head(requests).reg = "mosfet"
    <3>1. \A j \in DOMAIN requests : 1 < j => requests[j].reg # "mosfet"
      BY <2>1
    <3>2. QED
      BY <1>1, <2>2, <3>1 DEF LastAsAsked
  <2>3. CASE Head(requests).reg # "mosfet"
    BY <1>1, <2>1, <2>3 DEF LastAsAsked
  <2>4. QED
    BY <2>2, <2>3
<1>3. ASSUME NEW i \in DOMAIN requests', requests'[i].reg = "mosfet",
             \A j \in DOMAIN requests' : i < j => requests'[j].reg # "mosfet"
      PROVE  requests'[i].on = asked
  <2>1. ASSUME NEW j \in DOMAIN requests, i + 1 < j
        PROVE  requests[j].reg # "mosfet"
    <3>1. i < j - 1 /\ (j - 1 \in DOMAIN requests' /\ (j - 1) + 1 = j)
      BY <1>1, <2>1
    <3>2. QED
      BY <1>1, <1>3, <3>1
  <2>2. QED
    BY <1>1, <1>3, <2>1 DEF LastAsAsked
<1>4. QED
  BY <1>2, <1>3 DEF LastAsAsked

LEMMA LastAdded ==
    ASSUME TypeOK, LastAsAsked, NEW r, Write(r), fets' = fets,
           IF r.reg = "mosfet" THEN r.on = asked' ELSE asked' = asked
    PROVE  LastAsAsked'
<1> DEFINE n == Len(requests) + 1
<1>1. /\ \A i \in DOMAIN requests' :
           \/ i \in DOMAIN requests /\ requests'[i] = requests[i]
           \/ i = n /\ requests'[i] = r
      /\ \A i \in DOMAIN requests :
           i \in DOMAIN requests' /\ i < n /\ requests'[i] = requests[i]
      /\ n \in DOMAIN requests' /\ requests'[n] = r
  BY RequestAdded
<1> HIDE DEF n
<1>2. CASE r.reg = "mosfet"
  BY <1>1, <1>2 DEF LastAsAsked
<1>3. CASE r.reg # "mosfet"
  <2>1. (\A i \in DOMAIN requests' : requests'[i].reg # "mosfet") => fets' = asked'
    BY <1>1, <1>3 DEF LastAsAsked
  <2>2. ASSUME NEW i \in DOMAIN requests', requests'[i].reg = "mosfet",
               \A j \in DOMAIN requests' : i < j => requests'[j].reg # "mosfet"
        PROVE  requests'[i].on = asked'
    BY <1>1, <1>3, <2>2 DEF LastAsAsked
  <2>3. QED
    BY <2>1, <2>2 DEF LastAsAsked
<1>4. QED
  BY <1>2, <1>3

LEMMA AskingServed ==
    ASSUME TypeOK, Asking, requests # <<>>, requests' = Tail(requests),
           OneAnswer({}) /\ Head(requests).reg # "basic" => OneAnswer({})'
    PROVE  Asking'
<1>1. /\ 1 \in DOMAIN requests /\ Head(requests) = requests[1]
      /\ \A i \in DOMAIN requests' :
           i + 1 \in DOMAIN requests /\ 1 < i + 1 /\ requests'[i] = requests[i + 1]
      /\ \A i, j \in DOMAIN requests' : i < j => i + 1 < j + 1
  BY RequestTaken
<1>2. ASSUME NEW i \in DOMAIN requests', requests'[i].reg = "basic"
      PROVE  /\ \A j \in DOMAIN requests' :
                  i < j => requests'[j].reg \notin {"basic", "mosfet"}
             /\ OneAnswer({})'
  <2>1. /\ i + 1 \in DOMAIN requests /\ requests[i + 1].reg = "basic" /\ 1 < i + 1
        /\ \A j \in DOMAIN requests : i + 1 < j => requests[j].reg \notin {"basic", "mosfet"}
        /\ OneAnswer({})
    BY <1>1, <1>2 DEF Asking
  <2>2. requests[1].reg # "basic"
    BY <1>1, <2>1 DEF Asking
  <2>3. QED
    BY <1>1, <2>1, <2>2
<1>3. QED
  BY <1>2 DEF Asking


LEMMA InTimeStart == Init => InTime
<1> SUFFICES ASSUME Init PROVE InTime
  OBVIOUS
<1>1. LastAsAsked
  BY DEF Init, LastAsAsked
<1>2. QED
  BY <1>1 DEF Init, InTime

(* Where only the rows change, nothing more may be in them.                *)
LEMMA RowsInTime ==
    ASSUME InTime, \A V : OneAnswer(V) => OneAnswer(V)', ~open => air' = <<>>,
           UNCHANGED <<requests, fets, asked, open, wanted, late, known, reported>>
    PROVE  InTime'
<1>1. LastAsAsked => LastAsAsked'
  BY DEF LastAsAsked
<1>2. Asking => Asking'
  BY DEF Asking
<1>3. NotAsking => NotAsking'
  BY DEF NotAsking
<1>4. OneAnswer({asked}) => OneAnswer({asked})'
  <2>1. ASSUME NEW v, v = asked PROVE OneAnswer({asked}) => OneAnswer({v})'
    BY <2>1
  <2>2. QED
    BY <2>1
<1>5. QED
  BY <1>1, <1>2, <1>3, <1>4 DEF InTime

LEMMA LinkInTime ==
    ASSUME JbdInv, InTime, Open \/ Close \/ Lose
    PROVE  InTime'
<1>1. TypeOK /\ (~open => wanted = "none")
  BY DEF JbdInv
<1>2. /\ requests' = requests /\ fets' = fets /\ asked' = asked
      /\ LastAsAsked => LastAsAsked'
  BY DEF Open, Close, Lose, historyVars, LastAsAsked
<1>3. CASE Open
  <2>1. /\ air' = <<>> /\ buf' = <<>> /\ leftover' = <<>> /\ wanted' = "none" /\ open'
        /\ ~reported'
    BY <1>1, <1>3 DEF Open, InTime
  <2>2. OneAnswer({})'
    BY <2>1, NothingKeeps DEF OneAnswer
  <2>3. SUFFICES ASSUME ~late' PROVE LastAsAsked' /\ NotAsking'
    BY <2>1, <2>2 DEF InTime
  <2>4. ~late /\ \A r \in Range(requests) : r.reg \notin Registers
    BY <1>3, <2>3 DEF Open
  <2>5. NotAsking'
    BY <1>2, <2>4 DEF NotAsking, Range, Registers
  <2>6. QED
    BY <1>2, <2>4, <2>5 DEF InTime
<1>4. CASE Close
  <2>1. /\ air' = <<>> /\ ~open' /\ wanted' = "none" /\ late' = late /\ known' = known
        /\ reported' = reported
    BY <1>4 DEF Close, historyVars
  <2>2. QED
    BY <1>2, <2>1 DEF InTime
<1>5. CASE Lose
  <2>1. /\ open' = open /\ wanted' = wanted /\ late' = late /\ known' = known
        /\ reported' = reported /\ air # <<>>
    BY <1>5 DEF Lose, linkVars, historyVars
  <2>2. \A V : OneAnswer(V) => OneAnswer(V)'
    BY <1>1, <1>5, LoseKeeps
  <2>3. ~open => air' = <<>>
    BY <2>1 DEF InTime
  <2>4. QED
    BY <1>2, <2>1, <2>2, <2>3, RowsInTime
<1>6. QED
  BY <1>3, <1>4, <1>5


LEMMA ReadInTime ==
    ASSUME JbdInv, InTime, Read
    PROVE  InTime'
<1>1. TypeOK /\ open
  BY DEF JbdInv, Read
<1>2. \A V : OneAnswer(V) => OneAnswer(V)'
  BY <1>1, ReadKeeps
<1>3. UNCHANGED <<requests, fets, asked, open, wanted, late, known, reported>>
  BY DEF Read, historyVars
<1>4. QED
  BY <1>1, <1>2, <1>3, RowsInTime

(* The BMS, which is asked for its FETs when it has done what was asked of *)
(* it before.                                                              *)
LEMMA BmsInTime ==
    ASSUME JbdInv, InTime, BmsRead \/ BmsSwitch
    PROVE  InTime'
<1>1. TypeOK
  BY DEF JbdInv
<1>2. /\ requests # <<>> /\ requests' = Tail(requests)
      /\ UNCHANGED <<buf, leftover, asked, open, wanted, late, known, reported>>
      /\ fets' = IF Head(requests).reg = "mosfet" THEN Head(requests).on ELSE fets
  BY DEF BmsRead, BmsSwitch, linkVars, asmVars, historyVars, Registers
<1>3. PICK a \in Answer :
        /\ air' = Notified(a)
        /\ a.reg = Head(requests).reg
        /\ a.reg = "basic" => a.fets = fets
  <2>1. CASE BmsRead /\ Head(requests).reg = "basic"
    <3>1. [reg |-> "basic", fets |-> fets] \in Answer
      BY <1>1 DEF Answer, TypeOK
    <3>2. QED
      BY <2>1, <3>1 DEF BmsRead
  <2>2. CASE BmsRead /\ Head(requests).reg # "basic"
    <3>1. [reg |-> "cells"] \in Answer /\ Head(requests).reg = "cells"
      BY <2>2 DEF Answer, BmsRead, Registers
    <3>2. QED
      BY <2>2, <3>1 DEF BmsRead
  <2>3. CASE BmsSwitch
    <3>1. [reg |-> "mosfet"] \in Answer
      BY DEF Answer
    <3>2. QED
      BY <2>3, <3>1 DEF BmsSwitch
  <2>4. QED
    BY <2>1, <2>2, <2>3
<1>4. ~open => air' = <<>>
  BY <1>3 DEF Notified, InTime
<1>5. LastAsAsked => LastAsAsked'
  BY <1>1, <1>2, LastServed
<1>6. SUFFICES ASSUME ~late, open
               PROVE  /\ wanted = "basic" => Asking' /\ OneAnswer({asked})'
                      /\ wanted # "basic" => NotAsking' /\ OneAnswer({})'
  BY <1>2, <1>4, <1>5 DEF InTime
<1>7. air' = air \o AsParts(a)
  BY <1>3, <1>6 DEF Notified
<1>8. /\ 1 \in DOMAIN requests /\ Head(requests) = requests[1]
      /\ \A i \in DOMAIN requests' :
           i + 1 \in DOMAIN requests /\ 1 < i + 1 /\ requests'[i] = requests[i + 1]
      /\ \A i \in DOMAIN requests : i = 1 \/ (i - 1 \in DOMAIN requests' /\ (i - 1) + 1 = i)
  BY <1>1, <1>2, RequestTaken
<1>9. a.reg # "basic" => \A V : OneAnswer(V) => OneAnswer(V)'
  BY <1>1, <1>2, <1>7, SentBehind
<1>10. CASE wanted # "basic"
  <2>1. NotAsking /\ OneAnswer({})
    BY <1>6, <1>10 DEF InTime
  <2>2. a.reg # "basic"
    BY <1>3, <1>8, <2>1 DEF NotAsking
  <2>3. NotAsking'
    BY <1>8, <2>1 DEF NotAsking
  <2>4. QED
    BY <1>9, <1>10, <2>1, <2>2, <2>3
<1>11. CASE wanted = "basic"
  <2>1. Asking /\ OneAnswer({asked}) /\ LastAsAsked
    BY <1>6, <1>11 DEF InTime
  <2>2. Asking'
    BY <1>1, <1>2, <1>3, <1>9, <2>1, AskingServed
  <2>3. CASE a.reg # "basic"
    <3>1. ASSUME NEW v, v = asked PROVE OneAnswer({v})'
      BY <1>9, <2>1, <2>3, <3>1
    <3>2. QED
      BY <1>2, <1>11, <2>2, <3>1
  <2>4. CASE a.reg = "basic"
    <3>1. /\ OneAnswer({})
          /\ \A j \in DOMAIN requests : 1 < j => requests[j].reg \notin {"basic", "mosfet"}
      BY <1>3, <1>8, <2>1, <2>4 DEF Asking
    <3>2. \A j \in DOMAIN requests : requests[j].reg # "mosfet"
      <4>1. \A j \in DOMAIN requests : j = 1 \/ 1 < j
        BY <1>1, LenProperties DEF TypeOK
      <4>2. QED
        BY <1>3, <1>8, <2>4, <3>1, <4>1
    <3>3. a.fets = asked
      BY <1>3, <2>1, <2>4, <3>2 DEF LastAsAsked
    <3>4. ASSUME NEW v, v = asked PROVE OneAnswer({v})'
      BY <1>1, <1>2, <1>7, <2>4, <3>1, <3>3, <3>4, SentBehind
    <3>5. QED
      BY <1>2, <1>11, <2>2, <3>4
  <2>5. QED
    BY <2>3, <2>4
<1>12. QED
  BY <1>10, <1>11


(* A write, when nothing of the FETs is under way.                         *)
LEMMA WriteInTime ==
    ASSUME TypeOK, InTime, ~late => NotAsking /\ OneAnswer({}), open, NEW r, Write(r),
           fets' = fets, late' = late, air' = air, buf' = buf,
           \/ /\ r.reg = "mosfet" /\ r.on = asked' /\ wanted' = "none"
              /\ ~late => known' = asked'
           \/ /\ r.reg = "basic" /\ asked' = asked /\ wanted' = "basic"
              /\ known' = known /\ reported' = reported
    PROVE  InTime'
<1>1. SUFFICES ASSUME ~late PROVE InTime'
  BY DEF InTime, Write
<1>2. /\ LastAsAsked
      /\ reported => known = asked
  BY <1>1 DEF InTime
<1>3. LastAsAsked'
  BY <1>2, LastAdded
<1>4. leftover' = <<>> /\ open' = open
  BY DEF Write
<1>5. OneAnswer({})'
  <2>1. 1 \in Nat \ {0}
    OBVIOUS
  <2>2. QED
    BY <1>1, <1>4, <2>1, BufferKeeps
<1>6. \A V : OneAnswer(V)'
  BY <1>5 DEF OneAnswer, Only
<1>7. /\ \A i \in DOMAIN requests' :
           \/ i \in DOMAIN requests /\ requests'[i] = requests[i]
           \/ i = Len(requests) + 1 /\ requests'[i] = r
      /\ \A i \in DOMAIN requests' : ~(Len(requests) + 1 < i)
  BY RequestAdded
<1>8. r.reg = "mosfet" => NotAsking'
  BY <1>1, <1>7 DEF NotAsking
<1>9. r.reg = "basic" => Asking'
  <2>1. \A i \in DOMAIN requests' :
          requests'[i].reg = "basic" => i = Len(requests) + 1
    BY <1>1, <1>7 DEF NotAsking
  <2>2. QED
    BY <1>5, <1>7, <2>1 DEF Asking
<1>10. QED
  BY <1>1, <1>2, <1>3, <1>4, <1>6, <1>8, <1>9 DEF InTime

LEMMA ReadBasicInTime ==
    ASSUME JbdInv, InTime, ReadBasic
    PROVE  InTime'
<1> DEFINE r == [reg |-> "basic"]
<1>1. /\ TypeOK /\ open /\ wanted = "none" /\ Write(r) /\ wanted' = "basic"
      /\ UNCHANGED <<fets, late, air, buf, asked, known, reported>>
  BY DEF JbdInv, ReadBasic, asmVars, historyVars
<1>2. ~late => NotAsking /\ OneAnswer({})
  BY <1>1 DEF InTime
<1>3. r.reg = "basic"
  OBVIOUS
<1> HIDE DEF r
<1>4. QED
  BY <1>1, <1>2, <1>3, WriteInTime

(* A toggle is of what the client knows, which is what was asked.          *)
LEMMA ToggleInTime ==
    ASSUME ~Blind, JbdInv, InTime, NEW f \in Fets, NEW on \in BOOLEAN, Toggle(f, on)
    PROVE  InTime'
<1> DEFINE r == [reg |-> "mosfet", on |-> Combined(f, on)]
<1>1. /\ TypeOK /\ open /\ wanted = "none" /\ reported /\ Write(r) /\ wanted' = wanted
      /\ UNCHANGED <<fets, late, air, buf, reported>>
      /\ known' = Combined(f, on) /\ asked' = [asked EXCEPT ![f] = on]
  BY DEF JbdInv, Toggle, asmVars
<1>2. r.reg = "mosfet" /\ r.on = known'
  BY <1>1
<1>3. ~late => known' = asked'
  BY <1>1 DEF InTime, Combined
<1>4. ~late => NotAsking /\ OneAnswer({})
  BY <1>1 DEF InTime
<1> HIDE DEF r
<1>5. CASE late
  BY <1>1, <1>5 DEF InTime, Write
<1>6. CASE ~late
  BY <1>1, <1>2, <1>3, <1>4, <1>6, WriteInTime
<1>7. QED
  BY <1>5, <1>6

(* A frame that is taken for the answer to the request.                    *)
LEMMA AcceptedInTime ==
    ASSUME JbdInv, InTime, BasicRead \/ CellsRead \/ Refused
    PROVE  InTime'
<1>1. /\ TypeOK /\ open /\ HasFrame(buf) /\ buf' = AfterFrame(buf) /\ Frame(buf).reg = wanted
      /\ UNCHANGED <<fets, air, asked, late, open>> /\ leftover' \in {leftover, <<>>}
      /\ wanted \in Registers
  BY DEF JbdInv, BasicRead, CellsRead, Refused, Accepts, Pops, linkVars, historyVars, Write,
         TypeOK, Registers
<1>2. SUFFICES ASSUME ~late
               PROVE  /\ LastAsAsked' /\ NotAsking' /\ OneAnswer({})'
                      /\ reported' \/ wanted' = "cells" => known' = asked
                      /\ wanted' # "basic"
  BY <1>1 DEF InTime
<1>3. LastAsAsked
  BY <1>2 DEF InTime
<1>4. CASE wanted = "basic"
  <2>1. Asking /\ OneAnswer({asked})
    BY <1>1, <1>2, <1>4 DEF InTime
  <2>2. OneAnswer({})' /\ ~OneAnswer({}) /\ Frame(buf).fets = asked
    BY <1>1, <1>4, <2>1, AnswerTaken
  <2>3. NotAsking
    BY <2>1, <2>2 DEF Asking, NotAsking
  <2>4. CASE BasicRead
    <3> DEFINE r == [reg |-> "cells"]
    <3>1. Write(r) /\ wanted' = "cells" /\ known' = [f \in Fets |-> Frame(buf).fets[f]]
      BY <2>4 DEF BasicRead
    <3>2. r.reg = "cells"
      OBVIOUS
    <3> HIDE DEF r
    <3>3. LastAsAsked'
      BY <1>1, <1>3, <3>1, <3>2, LastAdded
    <3>4. NotAsking'
      BY <1>1, <2>3, <3>1, <3>2, RequestAdded DEF NotAsking
    <3>5. known' = asked
      BY <1>1, <2>2, <3>1 DEF TypeOK
    <3>6. QED
      BY <2>2, <3>1, <3>3, <3>4, <3>5
  <2>5. CASE Refused
    <3>1. requests' = requests /\ wanted' = "none" /\ known' = known /\ reported' = reported
      BY <2>5 DEF Refused
    <3>2. LastAsAsked' /\ NotAsking'
      BY <1>1, <1>3, <2>3, <3>1 DEF LastAsAsked, NotAsking
    <3>3. QED
      BY <1>2, <2>2, <3>1, <3>2 DEF InTime
  <2>6. QED
    BY <1>4, <2>4, <2>5 DEF CellsRead
<1>5. CASE wanted = "cells"
  <2>1. NotAsking /\ OneAnswer({}) /\ known = asked
    BY <1>1, <1>2, <1>5 DEF InTime
  <2>2. requests' = requests /\ wanted' = "none" /\ known' = known
    BY <1>5 DEF BasicRead, CellsRead, Refused, historyVars
  <2>3. LastAsAsked' /\ NotAsking'
    BY <1>1, <1>3, <2>1, <2>2 DEF LastAsAsked, NotAsking
  <2>4. OneAnswer({})'
    <3> DEFINE m == Stop(buf) + Parts(Frame(buf))
    <3>1. Stop(buf) \in 1 .. Len(buf) /\ Len(buf) \in Nat
      BY <1>1, StopIsPosition, LenProperties DEF HasFrame, TypeOK
    <3>2. Parts(Frame(buf)) \in 1 .. 2
      BY DEF Parts
    <3>3. m \in Nat \ {0} /\ buf' = SubSeq(buf, m, Len(buf))
      BY <1>1, <3>1, <3>2 DEF AfterFrame
    <3> HIDE DEF m
    <3>4. QED
      BY <1>1, <2>1, <3>3, BufferKeeps
  <2>5. QED
    BY <2>1, <2>2, <2>3, <2>4
<1>6. QED
  BY <1>1, <1>4, <1>5 DEF Registers

(* A frame that is none, or of another register.                           *)
LEMMA SkippedInTime ==
    ASSUME JbdInv, InTime, Skip \/ NoFrame \/ GiveUp
    PROVE  InTime'
<1>1. TypeOK /\ (~open => wanted = "none")
  BY DEF JbdInv
<1>2. CASE GiveUp
  BY <1>1, <1>2 DEF GiveUp, linkVars, InTime
<1>3. CASE Skip \/ NoFrame
  <2>1. UNCHANGED <<requests, fets, asked, open, wanted, late, known, reported, air, leftover>>
    BY <1>3 DEF Skip, NoFrame, linkVars, historyVars
  <2>2. buf \in Seq(Part) /\ Len(buf) \in Nat
    BY <1>1, LenProperties DEF TypeOK
  <2>3. \E m \in Nat \ {0} : buf' = SubSeq(buf, m, Len(buf)) \/ buf' = <<>>
    <3>1. CASE Skip
      <4>1. HasFrame(buf) /\ buf' = AfterFrame(buf)
        BY <3>1 DEF Skip, Pops
      <4>2. Stop(buf) \in 1 .. Len(buf)
        BY <2>2, <4>1, StopIsPosition DEF HasFrame
      <4>3. Parts(Frame(buf)) \in 1 .. 2
        BY DEF Parts
      <4>4. Stop(buf) + Parts(Frame(buf)) \in Nat \ {0}
        BY <4>2, <4>3
      <4>5. QED
        BY <4>1, <4>4 DEF AfterFrame
    <3>2. CASE NoFrame
      <4>1. buf' = AwaitingMore(buf)
        BY <3>2 DEF NoFrame
      <4>2. CASE Stops(buf) = {}
        <5>1. buf' = <<>> /\ 1 \in Nat \ {0}
          BY <4>1, <4>2 DEF AwaitingMore
        <5>2. QED
          BY <5>1
      <4>3. CASE Stops(buf) # {}
        <5>1. Stop(buf) \in Nat \ {0}
          BY <2>2, <4>3, StopIsPosition
        <5>2. QED
          BY <4>1, <4>3, <5>1 DEF AwaitingMore
      <4>4. QED
        BY <4>2, <4>3
    <3>3. QED
      BY <1>3, <3>1, <3>2
  <2>4. \A V : OneAnswer(V) => OneAnswer(V)'
    BY <1>1, <2>1, <2>3, BufferKeeps
  <2>5. ~open => air' = <<>>
    BY <2>1 DEF InTime
  <2>6. QED
    BY <2>1, <2>4, <2>5, RowsInTime
<1>4. QED
  BY <1>2, <1>3

(* Until a read is given up, every switch that is asked through the window *)
(* ends up executed and no other FET moves with it: the BMS is as the user *)
(* wants it once no request is under way, whatever is lost or refused and  *)
(* however often the connection is opened anew (bms.rs:79-98).             *)
THEOREM EndsAsAsked ==
    ASSUME ~Blind
    PROVE  Spec => []AsAsked
<1>1. JbdInv /\ InTime /\ [Next]_vars => InTime'
  <2> SUFFICES ASSUME JbdInv, InTime, [Next]_vars PROVE InTime'
    OBVIOUS
  <2>1. CASE UNCHANGED vars
    BY <2>1 DEF vars, linkVars, asmVars, historyVars, InTime, LastAsAsked, Asking, NotAsking,
                OneAnswer
  <2>2. ASSUME NEW f \in Fets, NEW on \in BOOLEAN, Toggle(f, on) PROVE InTime'
    BY <2>2, ToggleInTime
  <2>3. QED
    BY <2>1, <2>2, LinkInTime, ReadInTime, BmsInTime, ReadBasicInTime, AcceptedInTime,
       SkippedInTime DEF Next
<1>2. InTime => AsAsked
  BY DEF InTime, LastAsAsked, AsAsked
<1>3. QED
  BY <1>1, <1>2, InTimeStart, JbdInvariant, PTL DEF Spec


=============================================================================
