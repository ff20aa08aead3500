---------------------------- MODULE EcoFlowProofs ----------------------------
(***************************************************************************)
(* Proofs about the EcoFlow client: it believes itself authorised only     *)
(* when the device has accepted its secret, and it stays in step with the  *)
(* row of frames, for handshakes and reads of any length and for any cut   *)
(* of the frames into notifications.                                       *)
(***************************************************************************)
EXTENDS EcoFlow, SequenceTheorems, WellFoundedInduction, TLAPS

-----------------------------------------------------------------------------
(* Places in a buffer.                                                     *)

LEMMA Regroup ==
    ASSUME NEW x \in Seq(Parts), NEW y \in Seq(Parts), NEW z \in Seq(Parts)
    PROVE  (x \o y) \o z = x \o (y \o z)
  BY ConcatAssociative, SMT

LEMMA LeastPlace ==
    ASSUME NEW T \in SUBSET Nat, T # {}
    PROVE  Min(T) \in T
<1>1. PICK i \in T : \A j \in T : ~ (<<j, i>> \in OpToRel(<, Nat))
  BY NatLessThanWellFounded, WFMin
<1>2. ASSUME NEW j \in T PROVE i <= j
  <2>1. ~(j < i)
    BY <1>1 DEF OpToRel
  <2>2. QED
    BY <2>1
<1>3. QED
  BY <1>2 DEF Min

LEMMA GreatestPlace ==
    ASSUME NEW l \in Nat, NEW T \in SUBSET (0 .. l), T # {}
    PROVE  Max(T) \in T
<1> DEFINE U == {l - x : x \in T}
<1>1. U \in SUBSET Nat /\ U # {}
  <2>1. \A x \in T : l - x \in Nat
    OBVIOUS
  <2>2. QED
    BY <2>1
<1>2. PICK u \in U : \A j \in U : ~ (<<j, u>> \in OpToRel(<, Nat))
  BY <1>1, NatLessThanWellFounded, WFMin
<1>3. PICK x \in T : u = l - x
  BY <1>2
<1>4. ASSUME NEW y \in T PROVE x >= y
  <2>1. l - y \in U /\ l - y \in Nat /\ u \in Nat
    BY <1>1
  <2>2. ~(l - y < u)
    BY <1>2, <2>1 DEF OpToRel
  <2>3. QED
    BY <1>3, <2>2
<1>5. QED
  BY <1>4 DEF Max

(* The splitter cuts no more than there is.                                *)
LEMMA CutWithin ==
    ASSUME NEW b \in Seq(Parts)
    PROVE  Cut(b) \in Nat /\ 2 * Cut(b) <= Len(b) /\ Len(b) \in Nat
<1> DEFINE l == Len(b) \div 2
           S == {m \in 0 .. l : \A i \in 1 .. m : b[2 * i - 1].piece = "head"}
<1>1. Len(b) \in Nat /\ l \in Nat /\ 2 * l <= Len(b)
  OBVIOUS
<1>2. S \in SUBSET (0 .. l) /\ 0 \in S
  BY <1>1
<1>3. Max(S) \in S
  <2> HIDE DEF S, l
  <2>1. QED
    BY <1>1, <1>2, GreatestPlace
<1>4. Cut(b) = Max(S)
  BY DEF Cut
<1>5. QED
  BY <1>1, <1>3, <1>4

(* A frame found in the buffer is there.                                   *)
LEMMA FoundInside ==
    ASSUME NEW b \in Seq(Parts), NEW T \in SUBSET Frames(b), T # {}
    PROVE  /\ Min(T) \in T /\ 2 * Min(T) \in 1 .. Len(b)
           /\ b[2 * Min(T)] \in Parts
<1>1. T \in SUBSET Nat
  BY CutWithin DEF Frames
<1>2. Min(T) \in T
  BY <1>1, LeastPlace
<1>3. 2 * Min(T) \in 1 .. Len(b)
  <2> DEFINE i == Min(T)
             c == Cut(b)
  <2>1. i \in 1 .. c
    BY <1>2 DEF Frames
  <2>2. c \in Nat /\ 2 * c <= Len(b) /\ Len(b) \in Nat
    BY CutWithin
  <2> HIDE DEF i, c
  <2>3. 2 * i \in 1 .. Len(b)
    BY <2>1, <2>2
  <2>4. QED
    BY <2>3 DEF i
<1>4. QED
  BY <1>2, <1>3

-----------------------------------------------------------------------------
(* The row of frames.                                                      *)

Pair(x, y) ==
    /\ x = [kind |-> y.kind, n |-> y.n, piece |-> "head"]
    /\ y = [kind |-> y.kind, n |-> y.n, piece |-> "tail"]

(* s is a row of whole frames.                                             *)
Row(s) ==
    \E m \in Nat : Len(s) = 2 * m /\ \A i \in 1 .. m : Pair(s[2 * i - 1], s[2 * i])

LEMMA ValidPair ==
    ASSUME NEW b \in Seq(Parts), NEW i \in Nat \ {0}, 2 * i <= Len(b)
    PROVE  Valid(b, i) <=> Pair(b[2 * i - 1], b[2 * i])
<1> DEFINE s == SubSeq(b, 2 * i - 1, 2 * i)
           f == Frame(b[2 * i].kind, b[2 * i].n)
<1>1. \A j \in 2 * i - 1 .. 2 * i : b[j] \in Parts
  <2>1. Len(b) \in Nat
    OBVIOUS
  <2>2. QED
    BY <2>1
<1>2. /\ s \in Seq(Parts)
      /\ Len(s) = (IF 2 * i - 1 <= 2 * i THEN 2 * i - (2 * i - 1) + 1 ELSE 0)
      /\ \A j \in 1 .. 2 * i - (2 * i - 1) + 1 : s[j] = b[(2 * i - 1) + j - 1]
  BY <1>1, SubSeqProperties
<1>3. Len(s) = 2 /\ s[1] = b[2 * i - 1] /\ s[2] = b[2 * i]
  <2>1. /\ 2 * i - (2 * i - 1) + 1 = 2 /\ 2 * i - 1 <= 2 * i
        /\ (2 * i - 1) + 1 - 1 = 2 * i - 1 /\ (2 * i - 1) + 2 - 1 = 2 * i
    OBVIOUS
  <2>2. Len(s) = 2 /\ \A j \in 1 .. 2 : s[j] = b[(2 * i - 1) + j - 1]
    <3> HIDE DEF s
    <3>1. QED
      BY <1>2, <2>1
  <2>3. 1 \in 1 .. 2 /\ 2 \in 1 .. 2
    OBVIOUS
  <2>4. s[1] = b[(2 * i - 1) + 1 - 1] /\ s[2] = b[(2 * i - 1) + 2 - 1]
    <3> HIDE DEF s
    <3>1. QED
      BY <2>2, <2>3
  <2> HIDE DEF s
  <2>5. QED
    BY <2>1, <2>2, <2>4
<1>4. /\ Len(f) = 2 /\ f \in Seq({f[1], f[2]})
      /\ f[1] = [kind |-> b[2 * i].kind, n |-> b[2 * i].n, piece |-> "head"]
      /\ f[2] = [kind |-> b[2 * i].kind, n |-> b[2 * i].n, piece |-> "tail"]
  BY DEF Frame
<1>5. s = f <=> s[1] = f[1] /\ s[2] = f[2]
  <2>1. s = <<s[1], s[2]>>
    <3> HIDE DEF s
    <3>1. QED
      BY <1>2, <1>3
  <2>2. f = <<f[1], f[2]>>
    BY <1>4 DEF Frame
  <2> HIDE DEF s, f
  <2>3. QED
    BY <2>1, <2>2
<1>6. QED
  BY <1>3, <1>4, <1>5 DEF Valid, Pair

LEMMA RowMeans ==
    ASSUME NEW b \in Seq(Parts), Row(b)
    PROVE  Len(b) = 2 * Cut(b) /\ \A i \in 1 .. Cut(b) : Valid(b, i)
<1>1. PICK m \in Nat : Len(b) = 2 * m /\ \A i \in 1 .. m : Pair(b[2 * i - 1], b[2 * i])
  BY DEF Row
<1> DEFINE S == {k \in 0 .. Len(b) \div 2 : \A i \in 1 .. k : b[2 * i - 1].piece = "head"}
<1>2. Len(b) \div 2 = m
  BY <1>1
<1>3. m \in S
  <2>1. \A i \in 1 .. m : b[2 * i - 1].piece = "head"
    <3>1. ASSUME NEW x, NEW y, Pair(x, y)
          PROVE  x.piece = "head"
      BY <3>1 DEF Pair
    <3>2. QED
      BY <1>1, <3>1
  <2>2. m \in 0 .. Len(b) \div 2
    BY <1>2
  <2>3. QED
    BY <2>1, <2>2
<1>4. \A y \in S : m >= y
  BY <1>2
<1>5. Max(S) = m
  <2>1. S \in SUBSET Nat
    BY <1>2
  <2> HIDE DEF S
  <2>2. \A x \in S : (\A y \in S : x >= y) => x = m
    <3>1. SUFFICES ASSUME NEW x \in S, \A y \in S : x >= y
                   PROVE  x = m
      OBVIOUS
    <3>2. x >= m /\ m >= x /\ x \in Nat
      BY <1>3, <1>4, <2>1, <3>1
    <3>3. QED
      BY <3>2
  <2>3. QED
    BY <1>3, <1>4, <2>2 DEF Max
<1>6. Cut(b) = m
  BY <1>5 DEF Cut
<1>7. QED
  BY <1>1, <1>6, ValidPair

(* Whole frames taken off the front leave a row.                           *)
LEMMA RowShift ==
    ASSUME NEW s, Row(s), NEW c \in Nat, NEW t, Len(s) \in Nat, Len(t) \in Nat,
           Len(s) = Len(t) + 2 * c, \A i \in 1 .. Len(t) : t[i] = s[2 * c + i]
    PROVE  Row(t)
<1>1. PICK m \in Nat : Len(s) = 2 * m /\ \A i \in 1 .. m : Pair(s[2 * i - 1], s[2 * i])
  BY DEF Row
<1>2. m - c \in Nat /\ Len(t) = 2 * (m - c)
  BY <1>1
<1>3. ASSUME NEW i \in 1 .. m - c
      PROVE  Pair(t[2 * i - 1], t[2 * i])
  <2>1. /\ c + i \in 1 .. m
        /\ 2 * i - 1 \in 1 .. Len(t) /\ 2 * i \in 1 .. Len(t)
        /\ 2 * c + (2 * i - 1) = 2 * (c + i) - 1 /\ 2 * c + 2 * i = 2 * (c + i)
    <3>1. i \in Nat /\ i >= 1 /\ i <= m - c /\ m \in Nat /\ c \in Nat
      BY <1>1, <1>2
    <3> DEFINE l == Len(t)
    <3>2. l = 2 * (m - c) /\ l \in Nat
      BY <1>2
    <3> HIDE DEF l
    <3>3. 2 * i - 1 \in 1 .. l /\ 2 * i \in 1 .. l
      BY <3>1, <3>2
    <3>4. QED
      BY <3>1, <3>3 DEF l
  <2>2. QED
    BY <1>1, <2>1
<1>4. QED
  BY <1>2, <1>3 DEF Row

(* One more frame makes the row longer.                                    *)
LEMMA RowSend ==
    ASSUME NEW b \in Seq(Parts), NEW a \in Seq(Parts), Row(b \o a), NEW kind, NEW n,
           Frame(kind, n) \in Seq(Parts)
    PROVE  Row(b \o (a \o Frame(kind, n)))
<1> DEFINE f == Frame(kind, n)
           s == b \o a
           t == b \o (a \o f)
<1>1. /\ Len(f) = 2
      /\ f[1] = [kind |-> kind, n |-> n, piece |-> "head"]
      /\ f[2] = [kind |-> kind, n |-> n, piece |-> "tail"]
  BY DEF Frame
<1>2. Pair(f[1], f[2])
  BY <1>1 DEF Pair
<1>3. t = s \o f /\ s \in Seq(Parts) /\ f \in Seq(Parts)
  <2>1. s \in Seq(Parts) /\ f \in Seq(Parts)
    OBVIOUS
  <2>2. s \o f = t
    BY Regroup, Zenon
  <2> HIDE DEF f, s, t
  <2>3. QED
    BY <2>1, <2>2
<1> HIDE DEF f, s, t
<1>4. /\ Len(t) = Len(s) + 2 /\ Len(s) \in Nat
      /\ \A i \in 1 .. Len(s) : t[i] = s[i]
      /\ t[Len(s) + 1] = f[1] /\ t[Len(s) + 2] = f[2]
  <2>1. /\ Len(t) = Len(s) + Len(f)
        /\ \A i \in 1 .. Len(s) : t[i] = s[i]
        /\ \A i \in Len(s) + 1 .. Len(s) + Len(f) : t[i] = f[i - Len(s)]
    BY <1>3
  <2>2. Len(s) \in Nat
    BY <1>3
  <2>3. /\ Len(s) + 1 \in Len(s) + 1 .. Len(s) + Len(f) /\ (Len(s) + 1) - Len(s) = 1
        /\ Len(s) + 2 \in Len(s) + 1 .. Len(s) + Len(f) /\ (Len(s) + 2) - Len(s) = 2
    BY <1>1, <2>2
  <2>4. QED
    BY <1>1, <2>1, <2>2, <2>3
<1>5. PICK m \in Nat : Len(s) = 2 * m /\ \A i \in 1 .. m : Pair(s[2 * i - 1], s[2 * i])
  BY DEF Row, s
<1>6. ASSUME NEW i \in 1 .. m + 1
      PROVE  Pair(t[2 * i - 1], t[2 * i])
  <2>1. CASE i \in 1 .. m
    <3>1. 2 * i - 1 \in 1 .. Len(s) /\ 2 * i \in 1 .. Len(s)
      BY <1>5, <2>1
    <3>2. QED
      BY <1>4, <1>5, <2>1, <3>1
  <2>2. CASE i = m + 1
    <3>1. 2 * i - 1 = Len(s) + 1 /\ 2 * i = Len(s) + 2
      BY <1>5, <2>2
    <3>2. QED
      BY <1>2, <1>4, <3>1
  <2>3. QED
    BY <2>1, <2>2
<1>7. m + 1 \in Nat /\ Len(t) = 2 * (m + 1)
  BY <1>4, <1>5
<1>8. QED
  BY <1>6, <1>7 DEF Row, t, f

-----------------------------------------------------------------------------
(* The invariant.                                                          *)

Order == <<"pubkey", "keyinfo", "auth_status", "auth">>

(* The requests written by a stage.                                        *)
Place == [pubkey |-> 1, keyinfo |-> 2, auth_status |-> 3, auth |-> 4, ready |-> 4]

(* What the device has not answered yet is the end of the requests.        *)
Asked ==
    /\ Len(requests) <= Place[stage]
    /\ \A j \in 1 .. Len(requests) : requests[j] = Order[Place[stage] - Len(requests) + j]

(* The device judges the secret last.                                      *)
Judged == last \in {"granted", "refused"} => requests = <<>> /\ Place[stage] = 4

(* What can be among the first s frames of a device whose last answer was  *)
(* l.                                                                      *)
Heard(l, s) == {p \in Parts : p.n <= s /\ (p.kind = "granted" => l = "granted")}

EcoInv ==
    /\ TypeOK
    /\ Asked /\ Judged
    /\ buf \in Seq(Heard(last, sent)) /\ air \in Seq(Heard(last, sent))
    /\ ReadyGranted
    /\ ~torn /\ call # "closed" => Row(buf \o air)

LEMMA HeardParts ==
    ASSUME NEW l, NEW n, NEW q \in Seq(Heard(l, n))
    PROVE  q \in Seq(Parts)
<1>1. Heard(l, n) \subseteq Parts
  BY DEF Heard
<1>2. QED
  BY <1>1

LEMMA PartOfSeq ==
    ASSUME NEW S, NEW s \in Seq(S), NEW m \in 0 .. Len(s)
    PROVE  /\ SubSeq(s, 1, m) \in Seq(S) /\ SubSeq(s, m + 1, Len(s)) \in Seq(S)
           /\ Len(SubSeq(s, 1, m)) = m /\ Len(SubSeq(s, m + 1, Len(s))) = Len(s) - m
           /\ \A i \in 1 .. m : SubSeq(s, 1, m)[i] = s[i]
           /\ \A i \in 1 .. Len(s) - m : SubSeq(s, m + 1, Len(s))[i] = s[m + i]
<1> DEFINE h == SubSeq(s, 1, m)
           r == SubSeq(s, m + 1, Len(s))
<1>1. (\A i \in 1 .. Len(s) : s[i] \in S) /\ Len(s) \in Nat /\ m \in Nat /\ m <= Len(s)
  OBVIOUS
<1>2. /\ r \in Seq(S)
      /\ Len(r) = IF m + 1 <= Len(s) THEN Len(s) - (m + 1) + 1 ELSE 0
      /\ \A i \in 1 .. Len(s) - (m + 1) + 1 : r[i] = s[(m + 1) + i - 1]
  BY <1>1, SubSeqProperties
<1>3. /\ h \in Seq(S)
      /\ Len(h) = IF 1 <= m THEN m - 1 + 1 ELSE 0
      /\ \A i \in 1 .. m - 1 + 1 : h[i] = s[1 + i - 1]
  BY <1>1, SubSeqProperties
<1> HIDE DEF h, r
<1>4. \A i \in 1 .. Len(s) - m : r[i] = s[m + i]
  <2>1. SUFFICES ASSUME NEW i \in 1 .. Len(s) - m
                 PROVE  r[i] = s[m + i]
    OBVIOUS
  <2>2. i \in 1 .. Len(s) - (m + 1) + 1 /\ (m + 1) + i - 1 = m + i
    BY <1>1
  <2>3. QED
    BY <1>2, <2>2
<1>5. \A i \in 1 .. m : h[i] = s[i]
  <2>1. SUFFICES ASSUME NEW i \in 1 .. m
                 PROVE  h[i] = s[i]
    OBVIOUS
  <2>2. i \in 1 .. m - 1 + 1 /\ 1 + i - 1 = i
    BY <1>1
  <2>3. QED
    BY <1>3, <2>2
<1>6. Len(r) = Len(s) - m /\ Len(h) = m
  BY <1>1, <1>2, <1>3
<1>7. QED
  BY <1>2, <1>3, <1>4, <1>5, <1>6 DEF h, r

LEMMA JoinOf ==
    ASSUME NEW S, NEW s \in Seq(S), NEW t \in Seq(S)
    PROVE  /\ s \o t \in Seq(S) /\ Len(s \o t) = Len(s) + Len(t)
           /\ Len(s) \in Nat /\ Len(t) \in Nat
           /\ \A i \in 1 .. Len(s) : (s \o t)[i] = s[i]
           /\ \A i \in Len(s) + 1 .. Len(s) + Len(t) : (s \o t)[i] = t[i - Len(s)]
  OBVIOUS

(* A notification moves from what is under way to the buffer.              *)
LEMMA NotifiedParts ==
    ASSUME NEW S \in SUBSET Parts, NEW a \in Seq(S), NEW q \in Seq(S), NEW n \in 1 .. Len(a)
    PROVE  /\ q \o SubSeq(a, 1, n) \in Seq(S) /\ SubSeq(a, n + 1, Len(a)) \in Seq(S)
           /\ (q \o SubSeq(a, 1, n)) \o SubSeq(a, n + 1, Len(a)) = q \o a
<1> DEFINE h == SubSeq(a, 1, n)
           r == SubSeq(a, n + 1, Len(a))
<1>1. n \in 0 .. Len(a) /\ Len(a) \in Nat
  OBVIOUS
<1>2. /\ h \in Seq(S) /\ r \in Seq(S) /\ Len(h) = n /\ Len(r) = Len(a) - n
      /\ \A i \in 1 .. n : h[i] = a[i]
      /\ \A i \in 1 .. Len(a) - n : r[i] = a[n + i]
  BY <1>1, PartOfSeq
<1> HIDE DEF h, r
<1>3. h \o r = a
  <2> DEFINE s == h \o r
  <2>1. /\ s \in Seq(S) /\ Len(s) = Len(a)
        /\ \A i \in 1 .. n : s[i] = h[i]
        /\ \A i \in n + 1 .. Len(a) : s[i] = r[i - n]
    <3>1. /\ s \in Seq(S) /\ Len(s) = Len(h) + Len(r)
          /\ \A i \in 1 .. Len(h) : s[i] = h[i]
          /\ \A i \in Len(h) + 1 .. Len(h) + Len(r) : s[i] = r[i - Len(h)]
      <4>1. h \in Seq(S) /\ r \in Seq(S)
        BY <1>2
      <4>2. QED
        BY <4>1, JoinOf
    <3>2. Len(h) + Len(r) = Len(a) /\ Len(h) = n
      BY <1>1, <1>2
    <3> HIDE DEF s
    <3>3. QED
      BY <3>1, <3>2
  <2> HIDE DEF s
  <2>2. \A i \in 1 .. Len(a) : s[i] = a[i]
    <3>1. SUFFICES ASSUME NEW i \in 1 .. Len(a)
                   PROVE  s[i] = a[i]
      OBVIOUS
    <3>2. CASE i \in 1 .. n
      BY <1>2, <2>1, <3>2
    <3>3. CASE i \in n + 1 .. Len(a)
      <4>1. i - n \in 1 .. Len(a) - n /\ n + (i - n) = i
        BY <1>1, <3>3
      <4>2. QED
        BY <1>2, <2>1, <3>3, <4>1
    <3>4. QED
      BY <1>1, <3>2, <3>3
  <2>3. s = a
    BY <2>1, <2>2, SeqEqual
  <2>4. QED
    BY <2>3 DEF s
<1>4. (q \o h) \o r = q \o (h \o r)
  <2>1. h \in Seq(Parts) /\ r \in Seq(Parts) /\ q \in Seq(Parts)
    BY <1>2
  <2> HIDE DEF h, r
  <2>2. QED
    BY <2>1, Regroup, Zenon
<1>5. q \o h \in Seq(S)
  BY <1>2
<1>6. QED
  BY <1>2, <1>3, <1>4, <1>5 DEF h, r

(* What the splitter leaves.                                               *)
LEMMA RestParts ==
    ASSUME NEW S \in SUBSET Parts, NEW b \in Seq(S), NEW r \in Seq(S)
    PROVE  /\ Rest(b) \in Seq(S)
           /\ Row(b \o r) => Row(Rest(b) \o r)
<1> DEFINE c == Cut(b)
           d == Rest(b)
           t == d \o r
           s == b \o r
<1>1. b \in Seq(Parts) /\ r \in Seq(Parts)
  OBVIOUS
<1>2. c \in Nat /\ 2 * c <= Len(b) /\ Len(b) \in Nat
  BY <1>1, CutWithin
<1> HIDE DEF c
<1>3. /\ d \in Seq(S) /\ Len(d) = Len(b) - 2 * c
      /\ \A i \in 1 .. Len(b) - 2 * c : d[i] = b[2 * c + i]
  <2>1. 2 * c \in 0 .. Len(b)
    BY <1>2
  <2>2. d = SubSeq(b, 2 * c + 1, Len(b))
    BY DEF Rest, c
  <2> HIDE DEF d
  <2>3. QED
    BY <2>1, <2>2, PartOfSeq
<1> HIDE DEF d
<1>4. /\ Len(s) = Len(b) + Len(r) /\ Len(r) \in Nat
      /\ \A i \in 1 .. Len(b) : s[i] = b[i]
      /\ \A i \in Len(b) + 1 .. Len(b) + Len(r) : s[i] = r[i - Len(b)]
  BY <1>1
<1>5. /\ Len(t) = Len(d) + Len(r)
      /\ \A i \in 1 .. Len(d) : t[i] = d[i]
      /\ \A i \in Len(d) + 1 .. Len(d) + Len(r) : t[i] = r[i - Len(d)]
  <2>1. d \in Seq(S) /\ r \in Seq(S)
    BY <1>3
  <2>2. QED
    BY <2>1, JoinOf
<1> HIDE DEF s, t
<1>6. \A i \in 1 .. Len(t) : t[i] = s[2 * c + i]
  <2>1. SUFFICES ASSUME NEW i \in 1 .. Len(t)
                 PROVE  t[i] = s[2 * c + i]
    OBVIOUS
  <2>2. CASE i \in 1 .. Len(d)
    <3>1. 2 * c + i \in 1 .. Len(b) /\ i \in 1 .. Len(b) - 2 * c
      BY <1>2, <1>3, <2>2
    <3>2. QED
      BY <1>3, <1>4, <1>5, <2>2, <3>1
  <2>3. CASE i \in Len(d) + 1 .. Len(d) + Len(r)
    <3>1. /\ 2 * c + i \in Len(b) + 1 .. Len(b) + Len(r)
          /\ (2 * c + i) - Len(b) = i - Len(d)
      BY <1>2, <1>3, <1>4, <2>3
    <3>2. QED
      BY <1>4, <1>5, <2>3, <3>1
  <2>4. QED
    <3>1. Len(d) \in Nat
      BY <1>2, <1>3
    <3>2. QED
      BY <1>4, <1>5, <2>2, <2>3, <3>1
<1>7. Len(s) \in Nat /\ Len(t) \in Nat /\ Len(s) = Len(t) + 2 * c
  BY <1>2, <1>3, <1>4, <1>5
<1>8. Row(s) => Row(t)
  BY <1>2, <1>6, <1>7, RowShift
<1>9. QED
  BY <1>3, <1>8 DEF d, s, t

-----------------------------------------------------------------------------
(* The device's steps.                                                     *)

LEMMA SendKeeps ==
    ASSUME EcoInv, NEW kind \in Answers \cup Pushes, Send(kind), NEW l,
           air \in Seq(Heard(l, sent)), kind = "granted" => l = "granted"
    PROVE  /\ air' \in Seq(Heard(l, sent')) /\ air' \in Seq(Parts) /\ sent' \in Nat
           /\ Heard(l, sent) \subseteq Heard(l, sent')
           /\ Row(buf \o air) => Row(buf \o air')
<1> DEFINE f == Frame(kind, sent + 1)
<1>1. sent + 1 \in Nat /\ air' = air \o f /\ sent' = sent + 1
  BY DEF Send, EcoInv, TypeOK
<1>2. /\ f[1] \in Parts /\ f[2] \in Parts
      /\ f[1] \in Heard(l, sent + 1) /\ f[2] \in Heard(l, sent + 1)
      /\ f = <<f[1], f[2]>>
  BY <1>1 DEF Frame, Parts, Heard
<1>3. f \in Seq(Heard(l, sent + 1)) /\ f \in Seq(Parts)
  BY <1>2 DEF Frame
<1>4. air \in Seq(Parts) /\ buf \in Seq(Parts)
  BY HeardParts DEF EcoInv
<1>5. Heard(l, sent) \subseteq Heard(l, sent + 1)
  BY DEF Heard, Parts, EcoInv, TypeOK
<1> HIDE DEF f
<1>6. air \o f \in Seq(Heard(l, sent + 1)) /\ air \o f \in Seq(Parts)
  <2>1. air \in Seq(Heard(l, sent + 1))
    BY <1>5
  <2>2. QED
    BY <1>3, <1>4, <2>1
<1>7. Row(buf \o air) => Row(buf \o (air \o f))
  BY <1>3, <1>4, RowSend DEF f
<1>8. QED
  BY <1>1, <1>5, <1>6, <1>7

(* The request answered next.                                              *)
LEMMA NextRequest ==
    ASSUME EcoInv, requests # <<>>
    PROVE  /\ Head(requests) \in {"pubkey", "keyinfo", "auth_status", "auth"}
           /\ Tail(requests) \in Seq(Stages)
           /\ Len(Tail(requests)) = Len(requests) - 1 /\ Len(requests) \in Nat
           /\ \A j \in 1 .. Len(requests) - 1 :
                Tail(requests)[j] = Order[Place[stage] - (Len(requests) - 1) + j]
           /\ Head(requests) = "auth" => Tail(requests) = <<>> /\ Place[stage] = 4
           /\ Place[stage] \in 1 .. 4
<1>1. /\ requests \in Seq(Stages) /\ stage \in Stages
      /\ Len(requests) <= Place[stage]
      /\ \A j \in 1 .. Len(requests) : requests[j] = Order[Place[stage] - Len(requests) + j]
  BY DEF EcoInv, TypeOK, Asked
<1> DEFINE l == Len(requests)
           p == Place[stage]
<1>2. /\ l \in Nat /\ l >= 1 /\ Head(requests) = requests[1]
      /\ Tail(requests) \in Seq(Stages) /\ Len(Tail(requests)) = l - 1
      /\ \A j \in 1 .. l - 1 : Tail(requests)[j] = requests[j + 1]
  BY <1>1
<1>3. p \in 1 .. 4 /\ l <= p
  BY <1>1 DEF Stages, Place
<1>4. /\ Order[1] = "pubkey" /\ Order[2] = "keyinfo" /\ Order[3] = "auth_status"
      /\ Order[4] = "auth"
  BY DEF Order
<1>5. \A j \in 1 .. l : requests[j] = Order[p - l + j]
  BY <1>1
<1> HIDE DEF l, p, Order
<1>6. Head(requests) = Order[p - l + 1]
  BY <1>2, <1>5
<1>7. p - l + 1 \in {1, 2, 3, 4} /\ (p - l + 1 = 4 => l = 1 /\ p = 4)
  BY <1>2, <1>3
<1>8. Head(requests) \in {"pubkey", "keyinfo", "auth_status", "auth"}
      /\ (Head(requests) = "auth" => l = 1 /\ p = 4)
  BY <1>4, <1>6, <1>7
<1>9. l = 1 => Tail(requests) = <<>>
  <2>1. \A s \in Seq(Stages) : Len(s) = 0 => s = <<>>
    OBVIOUS
  <2>2. l = 1 => Len(Tail(requests)) = 0
    BY <1>2
  <2>3. QED
    BY <1>2, <2>1, <2>2
<1>10. ASSUME NEW j \in 1 .. l - 1
       PROVE  Tail(requests)[j] = Order[p - (l - 1) + j]
  <2>1. j + 1 \in 1 .. l /\ p - l + (j + 1) = p - (l - 1) + j
    BY <1>2, <1>3
  <2>2. QED
    BY <1>2, <1>5, <2>1
<1>11. QED
  BY <1>2, <1>3, <1>8, <1>9, <1>10 DEF l, p

LEMMA AnswerKeeps ==
    ASSUME EcoInv, Answer
    PROVE  EcoInv'
<1>1. /\ requests # <<>> /\ requests' = Tail(requests)
      /\ stage' = stage /\ call' = call /\ rounds' = rounds /\ buf' = buf /\ soc' = soc
      /\ answer' = answer /\ torn' = torn
  BY DEF Answer, clientVars
<1>2. PICK kind \in IF Head(requests) = "auth" THEN {"granted", "refused"}
                    ELSE {Head(requests)} :
         Send(kind) /\ last' = kind /\ faulty' = (faulty \/ kind = "refused")
  BY DEF Answer
<1>3. /\ kind \in Answers
      /\ kind \in {"granted", "refused"} <=> Head(requests) = "auth"
  BY <1>1, <1>2, NextRequest DEF Answers, Stages
<1>4. last \notin {"granted", "refused"} /\ stage # "ready"
  BY <1>1 DEF EcoInv, Judged, ReadyGranted
<1>5. Heard(last, sent) \subseteq Heard(kind, sent)
  BY <1>4 DEF Heard
<1>6. air \in Seq(Heard(kind, sent)) /\ buf \in Seq(Heard(kind, sent))
  BY <1>5 DEF EcoInv
<1>7. /\ air' \in Seq(Heard(kind, sent')) /\ air' \in Seq(Parts) /\ sent' \in Nat
      /\ buf' \in Seq(Heard(kind, sent'))
      /\ Row(buf \o air) => Row(buf \o air')
  BY <1>1, <1>2, <1>3, <1>6, SendKeeps
<1>8. TypeOK'
  <2>1. Tail(requests) \in Seq(Stages)
    BY <1>1, NextRequest
  <2>2. faulty' \in BOOLEAN
    BY <1>2 DEF EcoInv, TypeOK
  <2>3. QED
    BY <1>1, <1>2, <1>3, <1>7, <2>1, <2>2 DEF EcoInv, TypeOK
<1>9. Asked'
  <2>1. /\ Len(Tail(requests)) = Len(requests) - 1 /\ Len(requests) \in Nat
        /\ \A j \in 1 .. Len(requests) - 1 :
             Tail(requests)[j] = Order[Place[stage] - (Len(requests) - 1) + j]
        /\ Place[stage] \in 1 .. 4
    BY <1>1, NextRequest
  <2>2. Len(requests) <= Place[stage]
    BY DEF EcoInv, Asked
  <2>3. QED
    BY <1>1, <2>1, <2>2 DEF Asked
<1>10. Judged'
  BY <1>1, <1>2, <1>3, NextRequest DEF Judged
<1>11. QED
  BY <1>1, <1>2, <1>4, <1>6, <1>7, <1>8, <1>9, <1>10 DEF EcoInv, ReadyGranted

(* A repeated answer, telemetry, or a notification lost.                   *)
LEMMA DeviceKeeps ==
    ASSUME EcoInv, Repeat \/ Push \/ Lose
    PROVE  EcoInv'
<1>1. /\ stage' = stage /\ call' = call /\ rounds' = rounds /\ buf' = buf /\ soc' = soc
      /\ answer' = answer /\ requests' = requests /\ last' = last
      /\ faulty' \in BOOLEAN /\ torn' \in BOOLEAN /\ (torn' \/ torn' = torn)
  <2>1. torn \in BOOLEAN /\ faulty \in BOOLEAN
    BY DEF EcoInv, TypeOK
  <2>2. CASE Repeat
    BY <2>1, <2>2 DEF Repeat, clientVars
  <2>3. CASE Push
    BY <2>1, <2>3 DEF Push, clientVars
  <2>4. CASE Lose
    BY <2>1, <2>4 DEF Lose, clientVars
  <2>5. QED
    BY <2>2, <2>3, <2>4
<1>2. /\ air' \in Seq(Heard(last, sent')) /\ buf' \in Seq(Heard(last, sent'))
      /\ air' \in Seq(Parts) /\ sent' \in Nat
      /\ ~torn' /\ call # "closed" => Row(buf \o air')
  <2>1. CASE Lose
    <3>1. air # <<>> /\ air' = Tail(air) /\ torn' = TRUE /\ sent' = sent
      BY <2>1 DEF Lose
    <3>2. /\ air \in Seq(Heard(last, sent)) /\ air \in Seq(Parts) /\ sent \in Nat
          /\ buf \in Seq(Heard(last, sent))
      BY HeardParts DEF EcoInv, TypeOK
    <3>3. QED
      BY <1>1, <3>1, <3>2
  <2>2. CASE Repeat \/ Push
    <3>1. PICK kind \in {last} \cup Pushes :
             Send(kind) /\ torn' = torn /\ kind \in Answers \cup Pushes
      BY <2>2 DEF Repeat, Push, EcoInv, TypeOK
    <3>2. kind = "granted" => last = "granted"
      BY DEF Pushes
    <3>3. air \in Seq(Heard(last, sent)) /\ buf \in Seq(Heard(last, sent))
      BY DEF EcoInv
    <3>4. /\ air' \in Seq(Heard(last, sent')) /\ air' \in Seq(Parts) /\ sent' \in Nat
          /\ Heard(last, sent) \subseteq Heard(last, sent')
          /\ Row(buf \o air) => Row(buf \o air')
      BY <3>1, <3>2, <3>3, SendKeeps
    <3>5. buf' \in Seq(Heard(last, sent'))
      BY <1>1, <3>3, <3>4
    <3>6. QED
      BY <3>1, <3>4, <3>5 DEF EcoInv
  <2>3. QED
    BY <2>1, <2>2
<1>3. TypeOK'
  BY <1>1, <1>2 DEF EcoInv, TypeOK
<1>4. Asked' /\ Judged' /\ ReadyGranted'
  BY <1>1 DEF EcoInv, Asked, Judged, ReadyGranted
<1>5. QED
  BY <1>1, <1>2, <1>3, <1>4 DEF EcoInv

-----------------------------------------------------------------------------
(* The client's steps.                                                     *)

(* A stage is over: the next request is the next in order.                 *)
LEMMA AdvanceAsked ==
    ASSUME EcoInv, NEW next,
           \/ stage = "pubkey" /\ next = "keyinfo"
           \/ stage = "keyinfo" /\ next = "auth_status"
           \/ stage = "auth_status" /\ next = "auth",
           stage' = next, requests' = Append(requests, next)
    PROVE  Asked' /\ requests' \in Seq(Stages) /\ next \in Stages
           /\ last \notin {"granted", "refused"} /\ stage' # "ready"
<1>1. /\ requests \in Seq(Stages) /\ Len(requests) <= Place[stage]
      /\ \A j \in 1 .. Len(requests) : requests[j] = Order[Place[stage] - Len(requests) + j]
  BY DEF EcoInv, TypeOK, Asked
<1>2. next \in Stages /\ stage \in Stages
  BY DEF Stages
<1> DEFINE l == Len(requests)
           p == Place[stage]
           r == Append(requests, next)
<1>3. /\ l \in Nat /\ r \in Seq(Stages) /\ Len(r) = l + 1 /\ r[l + 1] = next
      /\ \A j \in 1 .. l : r[j] = requests[j]
  BY <1>1, <1>2
<1>4. p \in 1 .. 3 /\ Place[next] = p + 1 /\ Order[p + 1] = next
  BY DEF Place, Order
<1>5. l <= p
  BY <1>1
<1>6. \A j \in 1 .. l : requests[j] = Order[p - l + j]
  BY <1>1
<1> HIDE DEF l, p, r
<1>7. ASSUME NEW j \in 1 .. l + 1
      PROVE  r[j] = Order[(p + 1) - (l + 1) + j]
  <2>1. CASE j = l + 1
    <3>1. (p + 1) - (l + 1) + j = p + 1
      BY <1>3, <1>4, <2>1
    <3>2. QED
      BY <1>3, <1>4, <2>1, <3>1
  <2>2. CASE j # l + 1
    <3>1. j \in 1 .. l /\ (p + 1) - (l + 1) + j = p - l + j
      BY <1>3, <1>4, <2>2
    <3>2. QED
      BY <1>3, <1>6, <3>1
  <2>3. QED
    BY <2>1, <2>2
<1>8. Asked'
  <2>1. Len(r) <= Place[next]
    BY <1>3, <1>4, <1>5
  <2>2. \A j \in 1 .. Len(r) : r[j] = Order[Place[next] - Len(r) + j]
    BY <1>3, <1>4, <1>7
  <2>3. requests' = r /\ stage' = next
    BY DEF r
  <2>4. QED
    BY <2>1, <2>2, <2>3 DEF Asked
<1>9. last \notin {"granted", "refused"}
  BY DEF EcoInv, Judged, Place
<1>10. QED
  BY <1>2, <1>3, <1>8, <1>9 DEF r

(* What was granted was heard.                                             *)
LEMMA GrantHeard ==
    ASSUME NEW l, NEW n, NEW b \in Seq(Heard(l, n)), NEW T \in SUBSET Frames(b), T # {},
           KindAt(b, Min(T)) = "granted"
    PROVE  l = "granted"
<1>1. b \in Seq(Parts)
  BY HeardParts
<1>2. 2 * Min(T) \in 1 .. Len(b)
  BY <1>1, FoundInside
<1>3. b[2 * Min(T)] \in Heard(l, n)
  BY <1>2
<1>4. QED
  BY <1>3 DEF KindAt, Heard

(* What a notification can do to the handshake.                            *)
LEMMA ShakeOutcomes ==
    ASSUME NEW b, OnNotification(b) \/ (GoOn(b) /\ UNCHANGED <<stage, requests>>)
    PROVE  \/ /\ GoOn(b) \/ GoOn(Rest(b))
              /\ stage' = stage /\ requests' = requests
           \/ Fail /\ requests' = requests
           \/ /\ GoOn(Rest(b))
              /\ \E next : /\ stage' = next /\ requests' = Append(requests, next)
                           /\ \/ stage = "pubkey" /\ next = "keyinfo"
                              \/ stage = "keyinfo" /\ next = "auth_status"
                              \/ stage = "auth_status" /\ next = "auth"
           \/ /\ stage = "auth"
              /\ \E T \in SUBSET Frames(b) : T # {} /\ KindAt(b, Min(T)) = "granted"
              /\ stage' = "ready" /\ call' = "idle" /\ rounds' = 0 /\ buf' = <<>>
              /\ torn' = (torn \/ Rest(b) # <<>>)
              /\ soc' = soc /\ answer' = answer /\ requests' = requests
<1>1. CASE GoOn(b) /\ UNCHANGED <<stage, requests>>
  BY <1>1
<1>2. CASE OnNotification(b)
  <2> DEFINE first == KindAt(b, Min(Frames(b)))
  <2>1. \/ stage = "pubkey" /\ Advance(b, "keyinfo")
        \/ stage = "keyinfo" /\ Advance(b, "auth_status")
        \/ stage = "auth_status" /\ Advance(b, "auth")
        \/ stage = "auth" /\ OnAuth(b)
        \/ Fail /\ UNCHANGED requests
    <3> HIDE DEF first
    <3>1. CASE stage = "pubkey"
      BY <1>2, <3>1 DEF OnNotification
    <3>2. CASE stage = "keyinfo"
      BY <1>2, <3>2 DEF OnNotification
    <3>3. CASE stage = "auth_status"
      BY <1>2, <3>3 DEF OnNotification
    <3>4. CASE stage = "auth"
      BY <1>2, <3>4 DEF OnNotification
    <3>5. CASE stage \notin {"pubkey", "keyinfo", "auth_status", "auth"}
      BY <1>2, <3>5 DEF OnNotification
    <3>6. QED
      BY <3>1, <3>2, <3>3, <3>4, <3>5
  <2>2. CASE \/ stage = "pubkey" /\ Advance(b, "keyinfo")
             \/ stage = "keyinfo" /\ Advance(b, "auth_status")
             \/ stage = "auth_status" /\ Advance(b, "auth")
    BY <2>2 DEF Advance
  <2>3. CASE stage = "auth" /\ OnAuth(b)
    <3> DEFINE replies == {i \in Packets(b) : KindAt(b, i) \in {"granted", "refused"}}
    <3>1. \/ GoOn(Rest(b)) /\ UNCHANGED <<stage, requests>>
          \/ Fail /\ UNCHANGED requests
          \/ /\ replies # {} /\ KindAt(b, Min(replies)) # "refused"
             /\ stage' = "ready" /\ call' = "idle" /\ rounds' = 0 /\ buf' = <<>>
             /\ torn' = (torn \/ Rest(b) # <<>>)
             /\ soc' = soc /\ answer' = answer /\ requests' = requests
      <4>1. CASE replies = {}
        BY <2>3, <4>1 DEF OnAuth
      <4>2. CASE replies # {} /\ KindAt(b, Min(replies)) = "refused"
        BY <2>3, <4>2 DEF OnAuth
      <4>3. CASE replies # {} /\ KindAt(b, Min(replies)) # "refused"
        BY <2>3, <4>3 DEF OnAuth
      <4>4. QED
        BY <4>1, <4>2, <4>3
    <3>2. replies \in SUBSET Frames(b) /\ replies \in SUBSET Nat
      BY DEF Packets, Frames
    <3>3. replies # {} => Min(replies) \in replies
      <4> HIDE DEF replies
      <4>1. QED
        BY <3>2, LeastPlace
    <3>4. replies # {} => KindAt(b, Min(replies)) \in {"granted", "refused"}
      BY <3>3
    <3> HIDE DEF replies
    <3>5. QED
      BY <2>3, <3>1, <3>2, <3>4
  <2>4. CASE Fail /\ UNCHANGED requests
    BY <2>4
  <2>5. QED
    BY <2>1, <2>2, <2>3, <2>4
<1>3. QED
  BY <1>1, <1>2

(* The notification taken, and what is left of it.                         *)
LEMMA Taken ==
    ASSUME EcoInv, NEW n \in Notified
    PROVE  LET b == buf \o SubSeq(air, 1, n)
               r == SubSeq(air, n + 1, Len(air))
           IN /\ b \in Seq(Heard(last, sent)) /\ r \in Seq(Heard(last, sent))
              /\ Rest(b) \in Seq(Heard(last, sent))
              /\ Row(buf \o air) => Row(b \o r) /\ Row(Rest(b) \o r)
<1> DEFINE S == Heard(last, sent)
           b == buf \o SubSeq(air, 1, n)
           r == SubSeq(air, n + 1, Len(air))
<1>1. S \in SUBSET Parts /\ buf \in Seq(S) /\ air \in Seq(S)
  BY DEF Heard, EcoInv
<1>2. n \in 1 .. Len(air)
  <2>1. Len(air) \in Nat
    BY <1>1
  <2>2. QED
    BY <2>1 DEF Notified
<1> HIDE DEF S
<1>3. b \in Seq(S) /\ r \in Seq(S) /\ b \o r = buf \o air
  BY <1>1, <1>2, NotifiedParts
<1> HIDE DEF b, r
<1>4. Rest(b) \in Seq(S) /\ (Row(b \o r) => Row(Rest(b) \o r))
  BY <1>1, <1>3, RestParts
<1>5. QED
  BY <1>3, <1>4 DEF S, b, r

LEMMA ShakeKeeps ==
    ASSUME EcoInv, Shake
    PROVE  EcoInv'
<1> DEFINE S == Heard(last, sent)
<1>1. PICK n \in Notified :
         LET b == buf \o SubSeq(air, 1, n)
         IN /\ air' = SubSeq(air, n + 1, Len(air))
            /\ IF Frames(b) = {}
                 THEN GoOn(b) /\ UNCHANGED <<stage, requests>>
                 ELSE OnNotification(b)
  BY DEF Shake
<1> DEFINE b == buf \o SubSeq(air, 1, n)
           r == SubSeq(air, n + 1, Len(air))
<1>2. /\ call = "connect" /\ last' = last /\ sent' = sent /\ faulty' = faulty /\ air' = r
      /\ OnNotification(b) \/ (GoOn(b) /\ UNCHANGED <<stage, requests>>)
  BY <1>1 DEF Shake
<1>3. /\ b \in Seq(S) /\ r \in Seq(S) /\ Rest(b) \in Seq(S)
      /\ ~torn => Row(b \o r) /\ Row(Rest(b) \o r)
  <2>1. ~torn => Row(buf \o air)
    BY <1>2 DEF EcoInv
  <2>2. QED
    BY <2>1, Taken
<1> HIDE DEF b, r
<1>4. b \in Seq(Parts) /\ r \in Seq(Parts) /\ Rest(b) \in Seq(Parts)
  BY <1>3, HeardParts
<1>5. /\ stage \in Stages /\ rounds \in Nat /\ {buf, air} \subseteq Seq(Parts) /\ soc \in Nat
      /\ answer \in {"none", "fresh", "old"} /\ requests \in Seq(Stages)
      /\ last \in Answers \cup {"none"} /\ sent \in Nat
      /\ torn \in BOOLEAN /\ faulty \in BOOLEAN
      /\ buf \in Seq(S) /\ Asked /\ Judged /\ ReadyGranted
  BY DEF EcoInv, TypeOK
<1>6. ASSUME NEW q \in {b, Rest(b)}, GoOn(q)
      PROVE  /\ call' \in {"connect", "closed"} /\ rounds' \in Nat
             /\ buf' \in Seq(Parts) /\ buf' \in Seq(S)
             /\ soc' = soc /\ answer' = answer /\ torn' = torn
             /\ ~torn' => Row(buf' \o air')
  <2>1. /\ buf' = q /\ rounds' = rounds + 1 /\ call' \in {call, "closed"}
        /\ soc' = soc /\ answer' = answer /\ torn' = torn
    BY <1>6 DEF GoOn
  <2>2. QED
    BY <1>2, <1>3, <1>4, <1>5, <2>1
<1>7. CASE /\ GoOn(b) \/ GoOn(Rest(b))
           /\ stage' = stage /\ requests' = requests
  <2>1. /\ call' \in {"connect", "closed"} /\ rounds' \in Nat
        /\ buf' \in Seq(Parts) /\ buf' \in Seq(S)
        /\ soc' = soc /\ answer' = answer /\ torn' = torn
        /\ ~torn' => Row(buf' \o air')
    BY <1>6, <1>7
  <2>2. TypeOK'
    BY <1>2, <1>4, <1>5, <1>7, <2>1 DEF TypeOK
  <2>3. Asked' /\ Judged' /\ ReadyGranted'
    BY <1>2, <1>5, <1>7 DEF Asked, Judged, ReadyGranted
  <2>4. QED
    BY <1>2, <1>3, <2>1, <2>2, <2>3 DEF EcoInv
<1>8. CASE Fail /\ requests' = requests
  <2>1. /\ call' = "closed" /\ stage' = stage /\ rounds' = rounds /\ buf' = buf
        /\ soc' = soc /\ answer' = answer /\ torn' = torn
    BY <1>8 DEF Fail
  <2>2. TypeOK'
    BY <1>2, <1>4, <1>5, <1>8, <2>1 DEF TypeOK
  <2>3. Asked' /\ Judged' /\ ReadyGranted'
    BY <1>2, <1>5, <1>8, <2>1 DEF Asked, Judged, ReadyGranted
  <2>4. QED
    BY <1>2, <1>3, <1>5, <2>1, <2>2, <2>3 DEF EcoInv
<1>9. CASE /\ GoOn(Rest(b))
           /\ \E next : /\ stage' = next /\ requests' = Append(requests, next)
                        /\ \/ stage = "pubkey" /\ next = "keyinfo"
                           \/ stage = "keyinfo" /\ next = "auth_status"
                           \/ stage = "auth_status" /\ next = "auth"
  <2>1. /\ call' \in {"connect", "closed"} /\ rounds' \in Nat
        /\ buf' \in Seq(Parts) /\ buf' \in Seq(S)
        /\ soc' = soc /\ answer' = answer /\ torn' = torn
        /\ ~torn' => Row(buf' \o air')
    BY <1>6, <1>9
  <2>2. /\ Asked' /\ requests' \in Seq(Stages) /\ stage' \in Stages
        /\ last \notin {"granted", "refused"} /\ stage' # "ready"
    BY <1>9, AdvanceAsked
  <2>3. TypeOK'
    BY <1>2, <1>4, <1>5, <2>1, <2>2 DEF TypeOK
  <2>4. Judged' /\ ReadyGranted'
    BY <1>2, <2>2 DEF Judged, ReadyGranted
  <2>5. QED
    BY <1>2, <1>3, <2>1, <2>2, <2>3, <2>4 DEF EcoInv
<1>10. CASE /\ stage = "auth"
            /\ \E T \in SUBSET Frames(b) : T # {} /\ KindAt(b, Min(T)) = "granted"
            /\ stage' = "ready" /\ call' = "idle" /\ rounds' = 0 /\ buf' = <<>>
            /\ torn' = (torn \/ Rest(b) # <<>>)
            /\ soc' = soc /\ answer' = answer /\ requests' = requests
  <2>1. last = "granted"
    BY <1>3, <1>10, GrantHeard
  <2>2. ~torn' => Row(buf' \o air')
    <3>1. SUFFICES ASSUME ~torn'
                   PROVE  Row(<<>> \o r)
      BY <1>2, <1>10
    <3>2. ~torn /\ Rest(b) = <<>>
      BY <1>10, <3>1
    <3>3. QED
      BY <1>3, <3>2
  <2>3. torn' \in BOOLEAN /\ <<>> \in Seq(Parts) /\ <<>> \in Seq(S)
    BY <1>10
  <2>4. TypeOK'
    BY <1>2, <1>4, <1>5, <1>10, <2>3 DEF TypeOK, Stages
  <2>5. Asked' /\ Judged' /\ ReadyGranted'
    BY <1>2, <1>5, <1>10, <2>1 DEF Asked, Judged, ReadyGranted, Place
  <2>6. QED
    BY <1>2, <1>3, <1>10, <2>2, <2>3, <2>4, <2>5 DEF EcoInv
<1>11. QED
  BY <1>2, <1>7, <1>8, <1>9, <1>10, ShakeOutcomes

(* The newest SOC is one the device has sent.                              *)
LEMMA NewestSent ==
    ASSUME NEW l, NEW s \in Nat, NEW b \in Seq(Heard(l, s))
    PROVE  Newest(b) \in 0 .. s
<1> DEFINE T == {0} \cup {b[2 * i].n : i \in {j \in Packets(b) : KindAt(b, j) = "soc"}}
<1>1. b \in Seq(Parts)
  BY HeardParts
<1>2. ASSUME NEW i \in Packets(b)
      PROVE  b[2 * i].n \in 0 .. s
  <2>1. i \in 1 .. Cut(b)
    BY DEF Packets, Frames
  <2> DEFINE c == Cut(b)
             k == Len(b)
  <2>2. c \in Nat /\ 2 * c <= k /\ k \in Nat
    BY <1>1, CutWithin
  <2>3. i \in 1 .. c
    BY <2>1
  <2> HIDE DEF c, k
  <2>4. 2 * i \in 1 .. k
    BY <2>2, <2>3
  <2>5. b[2 * i] \in Heard(l, s)
    BY <2>4 DEF k
  <2>6. QED
    BY <2>5 DEF Heard, Parts
<1>3. T \in SUBSET (0 .. s) /\ T # {}
  BY <1>2
<1>4. Newest(b) = Max(T)
  BY DEF Newest
<1> HIDE DEF T
<1>5. QED
  BY <1>3, <1>4, GreatestPlace

(* A read keeps its types, whatever it took.                               *)
LEMMA TookTyped ==
    ASSUME TypeOK, call = "read", NEW newest \in Nat, Took(newest)
    PROVE  /\ call' \in {"idle", "read"} /\ rounds' \in Nat /\ soc' \in Nat
           /\ answer' \in {"none", "fresh", "old"}
<1>1. soc' \in Nat
  BY DEF Took, TypeOK
<1>2. CASE soc' # 0 \/ rounds + 1 = Window
  <2>1. /\ call' = "idle" /\ rounds' = 0
        /\ answer' = CASE soc' = 0 -> "none"
                       [] newest = 0 /\ answer = "none" -> "old"
                       [] OTHER -> "fresh"
    BY <1>2 DEF Took
  <2>2. answer' \in {"none", "fresh", "old"}
    <3>1. CASE newest = 0 /\ answer = "none"
      BY <2>1, <3>1
    <3>2. CASE ~(newest = 0 /\ answer = "none")
      BY <2>1, <3>2
    <3>3. QED
      BY <3>1, <3>2
  <2>3. QED
    BY <1>1, <2>1, <2>2
<1>3. CASE ~(soc' # 0 \/ rounds + 1 = Window)
  <2>1. rounds' = rounds + 1 /\ call' = call /\ answer' = answer
    BY <1>3 DEF Took
  <2>2. QED
    BY <1>1, <2>1 DEF TypeOK
<1>4. QED
  BY <1>2, <1>3

LEMMA ReadPacketsKeeps ==
    ASSUME EcoInv, ReadPackets
    PROVE  EcoInv'
<1> DEFINE S == Heard(last, sent)
<1>1. PICK n \in Notified :
         LET b == buf \o SubSeq(air, 1, n)
         IN /\ air' = SubSeq(air, n + 1, Len(air))
            /\ buf' = Rest(b)
            /\ Took(Newest(b))
  BY DEF ReadPackets
<1> DEFINE b == buf \o SubSeq(air, 1, n)
           r == SubSeq(air, n + 1, Len(air))
<1>2. /\ call = "read" /\ air' = r /\ buf' = Rest(b) /\ Took(Newest(b))
      /\ stage' = stage /\ requests' = requests /\ last' = last /\ sent' = sent
      /\ torn' = torn /\ faulty' = faulty
  BY <1>1 DEF ReadPackets
<1>3. /\ b \in Seq(S) /\ r \in Seq(S) /\ Rest(b) \in Seq(S)
      /\ ~torn => Row(Rest(b) \o r)
  <2>1. ~torn => Row(buf \o air)
    BY <1>2 DEF EcoInv
  <2>2. QED
    BY <2>1, Taken
<1> HIDE DEF b, r
<1>4. r \in Seq(Parts) /\ Rest(b) \in Seq(Parts)
  BY <1>3, HeardParts
<1>5. TypeOK /\ sent \in Nat
  BY DEF EcoInv, TypeOK
<1>6. Newest(b) \in Nat
  <2>1. Newest(b) \in 0 .. sent
    BY <1>3, <1>5, NewestSent
  <2>2. QED
    BY <1>5, <2>1
<1>7. /\ call' \in {"idle", "read"} /\ rounds' \in Nat /\ soc' \in Nat
      /\ answer' \in {"none", "fresh", "old"}
  BY <1>2, <1>5, <1>6, TookTyped
<1>8. TypeOK'
  BY <1>2, <1>4, <1>5, <1>7 DEF TypeOK
<1>9. Asked' /\ Judged' /\ ReadyGranted'
  BY <1>2 DEF EcoInv, Asked, Judged, ReadyGranted
<1>10. QED
  BY <1>2, <1>3, <1>8, <1>9 DEF EcoInv

(* The steps that leave the buffer and the device alone.                   *)
LEMMA CallKeeps ==
    ASSUME EcoInv,
           ShakeSilent \/ BeginRead \/ ReadSilent \/ GivenUp \/ Disconnect \/ UNCHANGED vars
    PROVE  EcoInv'
<1>1. TypeOK
  BY DEF EcoInv
<1>2. /\ stage' = stage /\ buf' = buf /\ requests' = requests /\ last' = last
      /\ air' = air /\ sent' = sent /\ torn' = torn
      /\ faulty' \in BOOLEAN /\ rounds' \in Nat /\ soc' \in Nat
      /\ answer' \in {"none", "fresh", "old"}
      /\ call' \in {"connect", "idle", "read", "closed"}
      /\ call' # "closed" => call # "closed"
  <2>1. CASE ShakeSilent
    BY <1>1, <2>1 DEF ShakeSilent, Fail, deviceVars, TypeOK
  <2>2. CASE BeginRead
    BY <1>1, <2>2 DEF BeginRead, deviceVars, TypeOK
  <2>3. CASE ReadSilent
    <3>1. /\ call = "read" /\ Took(0) /\ stage' = stage /\ buf' = buf
          /\ requests' = requests /\ last' = last /\ air' = air /\ sent' = sent
          /\ torn' = torn /\ faulty' = faulty
      BY <2>3 DEF ReadSilent, deviceVars
    <3>2. /\ call' \in {"idle", "read"} /\ rounds' \in Nat /\ soc' \in Nat
          /\ answer' \in {"none", "fresh", "old"}
      BY <1>1, <3>1, TookTyped
    <3>3. faulty \in BOOLEAN
      BY <1>1 DEF TypeOK
    <3>4. QED
      BY <3>1, <3>2, <3>3
  <2>4. CASE GivenUp
    BY <1>1, <2>4 DEF GivenUp, deviceVars, TypeOK
  <2>5. CASE Disconnect
    BY <1>1, <2>5 DEF Disconnect, deviceVars, TypeOK
  <2>6. CASE UNCHANGED vars
    BY <1>1, <2>6 DEF vars, clientVars, deviceVars, TypeOK
  <2>7. QED
    BY <2>1, <2>2, <2>3, <2>4, <2>5, <2>6
<1>3. TypeOK'
  BY <1>1, <1>2 DEF TypeOK
<1>4. Asked' /\ Judged' /\ ReadyGranted'
  BY <1>2 DEF EcoInv, Asked, Judged, ReadyGranted
<1>5. QED
  BY <1>2, <1>3, <1>4 DEF EcoInv

(* Every session begins with the first request and nothing heard.          *)
Start ==
    /\ stage = "pubkey" /\ call = "connect" /\ rounds = 0 /\ buf = <<>> /\ soc = 0
    /\ answer = "none" /\ requests = <<"pubkey">> /\ last = "none" /\ air = <<>>
    /\ sent = 0 /\ torn = FALSE /\ faulty \in BOOLEAN

LEMMA FreshStart == Start => EcoInv
<1> SUFFICES ASSUME Start
             PROVE  EcoInv
  OBVIOUS
<1> USE DEF Start
<1>1. <<>> \in Seq(Parts) /\ <<>> \in Seq(Heard(last, sent))
  OBVIOUS
<1>2. requests \in Seq(Stages) /\ Len(requests) = 1 /\ requests[1] = "pubkey"
  BY DEF Stages
<1>3. TypeOK
  BY <1>1, <1>2 DEF TypeOK, Stages
<1>4. Asked
  <2>1. ASSUME NEW j \in 1 .. 1
        PROVE  requests[j] = Order[Place[stage] - 1 + j]
    <3>1. j = 1 /\ Place[stage] = 1
      BY DEF Place
    <3>2. Place[stage] - 1 + j = 1
      BY <3>1
    <3>3. QED
      BY <1>2, <3>1, <3>2 DEF Order
  <2>2. QED
    BY <1>2, <2>1 DEF Asked, Place
<1>5. Row(<<>> \o <<>>)
  <2>1. Len(<<>> \o <<>>) = 2 * 0
    OBVIOUS
  <2>2. QED
    BY <2>1 DEF Row
<1>6. Judged /\ ReadyGranted
  BY DEF Judged, ReadyGranted
<1>7. QED
  BY <1>1, <1>3, <1>4, <1>5, <1>6 DEF EcoInv

LEMMA EcoStart == Init => EcoInv
  BY FreshStart DEF Init, Start

LEMMA ReconnectKeeps == EcoInv /\ Reconnect => EcoInv'
<1>1. EcoInv /\ Reconnect => Start'
  BY DEF Reconnect, EcoInv, TypeOK, Start
<1>2. QED
  BY <1>1, FreshStart, PTL

LEMMA EcoStep == EcoInv /\ [Next]_vars => EcoInv'
<1> SUFFICES ASSUME EcoInv, [Next]_vars
             PROVE  EcoInv'
  OBVIOUS
<1>1. CASE Answer
  BY <1>1, AnswerKeeps
<1>2. CASE Repeat \/ Push \/ Lose
  BY <1>2, DeviceKeeps
<1>3. CASE Shake
  BY <1>3, ShakeKeeps
<1>4. CASE ReadPackets
  BY <1>4, ReadPacketsKeeps
<1>5. CASE Reconnect
  BY <1>5, ReconnectKeeps
<1>6. CASE ShakeSilent \/ BeginRead \/ ReadSilent \/ GivenUp \/ Disconnect \/ UNCHANGED vars
  BY <1>6, CallKeeps
<1>7. QED
  BY <1>1, <1>2, <1>3, <1>4, <1>5, <1>6 DEF Next

LEMMA EcoAlways == Spec => []EcoInv
  BY EcoStart, EcoStep, PTL DEF Spec

(* The types of the client and the device hold in every state the          *)
(* handshake and the reads reach (session.rs, bms.rs).                     *)
THEOREM EcoTypeCorrect == Spec => []TypeOK
<1>1. EcoInv => TypeOK
  BY DEF EcoInv
<1>2. QED
  BY <1>1, EcoAlways, PTL

(* The client is ready only when the device has accepted its secret, for   *)
(* any number of repeated, pushed or lost frames (session.rs:89-168): the  *)
(* stages that take any first frame as their answer cannot run ahead of    *)
(* the secret, since "granted" is said only in answer to it.               *)
THEOREM ReadyOnlyWhenGranted == Spec => []ReadyGranted
<1>1. EcoInv => ReadyGranted
  BY DEF EcoInv
<1>2. QED
  BY <1>1, EcoAlways, PTL

(* Unless a part was lost, the reads stay in step with the frames, however *)
(* notifications cut them and whichever read is dropped (bms.rs:97-105).   *)
THEOREM StaysInStep == Spec => []InStep
<1>1. EcoInv => InStep
  <2>1. SUFFICES ASSUME EcoInv, ~torn, call # "closed"
                 PROVE  LET b == buf \o air
                        IN /\ Len(b) = 2 * Cut(b)
                           /\ \A i \in 1 .. Cut(b) : Valid(b, i)
    BY DEF InStep
  <2>2. Row(buf \o air) /\ buf \o air \in Seq(Parts)
    BY <2>1 DEF EcoInv, TypeOK
  <2>3. QED
    BY <2>2, RowMeans
<1>2. QED
  BY <1>1, EcoAlways, PTL

=============================================================================
