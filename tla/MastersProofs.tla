--------------------------- MODULE MastersProofs ----------------------------
(***************************************************************************)
(* Proofs about the clients of Masters and their adapters: how old an      *)
(* answer can be that a block is decoded from, and that it is the block's  *)
(* own, for streams of any length and any number of calls given up.        *)
(***************************************************************************)
EXTENDS Adapters, SequenceTheorems, TLAPS

(* What the families ask for.                                              *)
LEMMA AskedKinds ==
    ASSUME family \in BleFamilies \cup SerialFamilies
    PROVE  /\ Len(Asks) \in Nat \ {0}
           /\ \A n \in 1 .. Len(Asks) : Asks[n] \in SUBSET Kinds
           /\ "echo" \notin Kinds /\ "refusal" \notin Kinds
           /\ family # "sok_ee" => \A n \in 1 .. Len(Asks) : \A k, l \in Asks[n] : k = l
           /\ family = "sok_ee" =>
                 Len(Asks) = 2 /\ Asks[1] = {"info", "temp"} /\ Asks[2] = {"cap", "cells"}
           /\ family \in Tellable \ {"sok_ee"} => Len(Asks) = 1 /\ Asks[1] = Kinds
<1> USE DEF BleFamilies, SerialFamilies, Tellable
<1>1. /\ family = "renogy" => Asks = Renogy
      /\ family = "seplos" => Asks = Seplos
      /\ family = "pace" => Asks = Pace
      /\ family = "bluetti" => Asks = Bluetti
      /\ family = "sok_abc" => Asks = SokAbc
      /\ family = "sok_ee" => Asks = SokEe
      /\ family = "jackery" => Asks = Jackery
      /\ family = "pylontech_rs485" => Asks = PylontechRs485
  BY DEF Asks
<1>2. CASE family = "renogy"
  <2>1. Asks = <<{"cells"}, {"temps"}, {"info"}, {"model"}>>
    BY <1>1, <1>2 DEF Renogy
  <2>2. Len(Asks) = 4 /\ DOMAIN Asks = {1, 2, 3, 4} /\ 1 .. Len(Asks) = {1, 2, 3, 4}
        /\ Asks[1] = {"cells"} /\ Asks[2] = {"temps"} /\ Asks[3] = {"info"} /\ Asks[4] = {"model"}
    BY <2>1
  <2>3. Kinds = {"cells", "temps", "info", "model"}
    BY <2>2 DEF Kinds
  <2>4. QED
    BY <1>2, <2>2, <2>3
<1>3. CASE family = "seplos"
  <2>1. Asks = <<{"pia"}, {"pib"}>>
    BY <1>1, <1>3 DEF Seplos
  <2>2. Len(Asks) = 2 /\ DOMAIN Asks = {1, 2} /\ 1 .. Len(Asks) = {1, 2}
        /\ Asks[1] = {"pia"} /\ Asks[2] = {"pib"}
    BY <2>1
  <2>3. Kinds = {"pia", "pib"}
    BY <2>2 DEF Kinds
  <2>4. QED
    BY <1>3, <2>2, <2>3
<1>4. CASE family = "pace"
  <2>1. Asks = <<{"pack"}>>
    BY <1>1, <1>4 DEF Pace
  <2>2. Len(Asks) = 1 /\ DOMAIN Asks = {1} /\ 1 .. Len(Asks) = {1}
        /\ Asks[1] = {"pack"}
    BY <2>1
  <2>3. Kinds = {"pack"}
    BY <2>2 DEF Kinds
  <2>4. QED
    BY <1>4, <2>2, <2>3
<1>5. CASE family = "bluetti"
  <2>1. Asks = <<{"core"}, {"battery"}>>
    BY <1>1, <1>5 DEF Bluetti
  <2>2. Len(Asks) = 2 /\ DOMAIN Asks = {1, 2} /\ 1 .. Len(Asks) = {1, 2}
        /\ Asks[1] = {"core"} /\ Asks[2] = {"battery"}
    BY <2>1
  <2>3. Kinds = {"core", "battery"}
    BY <2>2 DEF Kinds
  <2>4. QED
    BY <1>5, <2>2, <2>3
<1>6. CASE family = "sok_abc"
  <2>1. Asks = <<{"telemetry"}>>
    BY <1>1, <1>6 DEF SokAbc
  <2>2. Len(Asks) = 1 /\ DOMAIN Asks = {1} /\ 1 .. Len(Asks) = {1}
        /\ Asks[1] = {"telemetry"}
    BY <2>1
  <2>3. Kinds = {"telemetry"}
    BY <2>2 DEF Kinds
  <2>4. QED
    BY <1>6, <2>2, <2>3
<1>7. CASE family = "sok_ee"
  <2>1. Asks = <<{"info", "temp"}, {"cap", "cells"}>>
    BY <1>1, <1>7 DEF SokEe
  <2>2. Len(Asks) = 2 /\ DOMAIN Asks = {1, 2} /\ 1 .. Len(Asks) = {1, 2}
        /\ Asks[1] = {"info", "temp"} /\ Asks[2] = {"cap", "cells"}
    BY <2>1
  <2>3. Kinds = {"info", "temp", "cap", "cells"}
    BY <2>2 DEF Kinds
  <2>4. QED
    BY <1>7, <2>2, <2>3
<1>8. CASE family = "jackery"
  <2>1. Asks = <<{"status"}>>
    BY <1>1, <1>8 DEF Jackery
  <2>2. Len(Asks) = 1 /\ DOMAIN Asks = {1} /\ 1 .. Len(Asks) = {1}
        /\ Asks[1] = {"status"}
    BY <2>1
  <2>3. Kinds = {"status"}
    BY <2>2 DEF Kinds
  <2>4. QED
    BY <1>8, <2>2, <2>3
<1>9. CASE family = "pylontech_rs485"
  <2>1. Asks = <<{"analog"}>>
    BY <1>1, <1>9 DEF PylontechRs485
  <2>2. Len(Asks) = 1 /\ DOMAIN Asks = {1} /\ 1 .. Len(Asks) = {1}
        /\ Asks[1] = {"analog"}
    BY <2>1
  <2>3. Kinds = {"analog"}
    BY <2>2 DEF Kinds
  <2>4. QED
    BY <1>9, <2>2, <2>3
<1>10. QED
  BY <1>2, <1>3, <1>4, <1>5, <1>6, <1>7, <1>8, <1>9

-----------------------------------------------------------------------------
(* The order of parts: an answer is never overtaken, and Last ends it.     *)

Last(p) == p.piece \notin {"head", "junk"} /\ ~(family = "sok_ee" /\ p.kind \in {"info", "cap"})

Before(p, r) == p.age >= r.age /\ (Last(p) => p.age > r.age)

Sorted(q) == \A j \in 1 .. Len(q) : \A i \in 1 .. j - 1 : Before(q[i], q[j])

Ahead(q, r) == \A i \in 1 .. Len(q), j \in 1 .. Len(r) : Before(q[i], r[j])

(* b collected, l received, a still to come.                               *)
Stream(b, l, a) ==
    /\ Sorted(l) /\ Sorted(a)
    /\ Ahead(b, l) /\ Ahead(b, a) /\ Ahead(l, a)

LEMMA StreamEmpty == Stream(<<>>, <<>>, <<>>)
  BY DEF Stream, Sorted, Ahead

LEMMA StreamForget ==
    ASSUME NEW b, NEW l, NEW a, Stream(b, l, a)
    PROVE  Stream(<<>>, l, a) /\ Stream(<<>>, <<>>, a) /\ Stream(<<>>, l, <<>>)
           /\ Stream(b, l, <<>>)
  BY DEF Stream, Sorted, Ahead

LEMMA StreamArrive ==
    ASSUME NEW P, NEW b \in Seq(P), NEW l \in Seq(P), NEW a \in Seq(P), a # <<>>,
           Stream(b, l, a)
    PROVE  Stream(b, Append(l, Head(a)), Tail(a)) /\ Stream(b, l, Tail(a))
<1>1. /\ Len(a) \in Nat /\ Len(a) >= 1 /\ Head(a) = a[1]
      /\ Len(Tail(a)) = Len(a) - 1
      /\ \A i \in 1 .. Len(Tail(a)) : Tail(a)[i] = a[i + 1]
  OBVIOUS
<1>2. /\ Len(Append(l, Head(a))) = Len(l) + 1 /\ Len(l) \in Nat
      /\ Append(l, Head(a))[Len(l) + 1] = a[1]
      /\ \A i \in 1 .. Len(l) : Append(l, Head(a))[i] = l[i]
  BY <1>1
<1>3. Sorted(Tail(a)) /\ Ahead(b, Tail(a)) /\ Ahead(l, Tail(a))
  BY <1>1 DEF Stream, Sorted, Ahead
<1>4. Sorted(Append(l, Head(a)))
  <2>1. ASSUME NEW j \in 1 .. Len(l) + 1, NEW i \in 1 .. j - 1
        PROVE  Before(Append(l, Head(a))[i], Append(l, Head(a))[j])
    <3>1. i \in 1 .. Len(l) /\ 1 \in 1 .. Len(a)
      BY <1>1, <1>2
    <3>2. CASE j = Len(l) + 1
      BY <1>2, <3>1, <3>2 DEF Stream, Ahead
    <3>3. CASE j # Len(l) + 1
      <4>1. j \in 1 .. Len(l)
        BY <1>2, <3>3
      <4>2. QED
        BY <1>2, <3>1, <4>1 DEF Stream, Sorted
    <3>4. QED
      BY <3>2, <3>3
  <2>2. QED
    BY <1>2, <2>1 DEF Sorted
<1>5. Ahead(b, Append(l, Head(a)))
  <2>1. ASSUME NEW i \in 1 .. Len(b), NEW j \in 1 .. Len(l) + 1
        PROVE  Before(b[i], Append(l, Head(a))[j])
    <3>1. 1 \in 1 .. Len(a) /\ (j = Len(l) + 1 \/ j \in 1 .. Len(l))
      BY <1>1, <1>2
    <3>2. QED
      BY <1>2, <3>1 DEF Stream, Ahead
  <2>2. QED
    BY <1>2, <2>1 DEF Ahead
<1>6. Ahead(Append(l, Head(a)), Tail(a))
  <2>1. ASSUME NEW i \in 1 .. Len(l) + 1, NEW j \in 1 .. Len(Tail(a))
        PROVE  Before(Append(l, Head(a))[i], Tail(a)[j])
    <3>1. /\ j + 1 \in 1 .. Len(a) /\ 1 \in 1 .. (j + 1) - 1
          /\ Tail(a)[j] = a[j + 1]
          /\ (i = Len(l) + 1 \/ i \in 1 .. Len(l))
      BY <1>1, <1>2
    <3>2. QED
      BY <1>2, <3>1 DEF Stream, Sorted, Ahead
  <2>2. QED
    BY <1>2, <2>1 DEF Ahead
<1>7. QED
  BY <1>3, <1>4, <1>5, <1>6 DEF Stream

(* The part about to arrive is garbled: it keeps its place and no longer   *)
(* ends an answer.                                                         *)
LEMMA StreamGarble ==
    ASSUME NEW P, NEW b \in Seq(P), NEW l \in Seq(P), NEW a \in Seq(P), a # <<>>,
           Stream(b, l, a), NEW g, g.age = a[1].age, ~Last(g)
    PROVE  Stream(b, l, <<g>> \o Tail(a))
<1> DEFINE c == <<g>> \o Tail(a)
<1>1. /\ Len(a) \in Nat /\ Len(a) >= 1 /\ Len(c) = Len(a)
      /\ c[1] = g /\ \A i \in 2 .. Len(a) : c[i] = a[i]
  <2>1. /\ Len(a) \in Nat /\ Len(a) >= 1 /\ Tail(a) \in Seq(P)
        /\ Len(Tail(a)) = Len(a) - 1
        /\ \A i \in 1 .. Len(a) - 1 : Tail(a)[i] = a[i + 1]
    OBVIOUS
  <2> DEFINE t == Tail(a)
  <2> HIDE DEF t
  <2>2. /\ Len(c) = 1 + Len(t) /\ c[1] = g
        /\ \A i \in 2 .. 1 + Len(t) : c[i] = t[i - 1]
    BY <2>1 DEF t
  <2>3. \A i \in 2 .. Len(a) : i - 1 \in 1 .. Len(a) - 1 /\ (i - 1) + 1 = i
    BY <2>1
  <2>4. QED
    BY <2>1, <2>2, <2>3 DEF t
<1> HIDE DEF c
<1>2. \A x : Before(x, a[1]) => Before(x, g)
  BY DEF Before
<1>3. \A x : Before(a[1], x) => Before(g, x)
  BY DEF Before
<1>4. ASSUME NEW i \in 1 .. Len(c)
      PROVE  i \in 1 .. Len(a) /\ (c[i] = a[i] \/ (i = 1 /\ c[i] = g))
  <2>1. i \in 1 .. Len(a) /\ (i = 1 \/ i \in 2 .. Len(a))
    BY <1>1
  <2>2. CASE i = 1
    BY <1>1, <2>1, <2>2
  <2>3. CASE i \in 2 .. Len(a)
    BY <1>1, <2>1, <2>3
  <2>4. QED
    BY <2>1, <2>2, <2>3
<1>5. Sorted(c)
  <2>1. ASSUME NEW j \in 1 .. Len(c), NEW i \in 1 .. j - 1
        PROVE  Before(c[i], c[j])
    <3>1. i \in 1 .. Len(c) /\ j # 1 /\ Before(a[i], a[j])
      BY <1>1 DEF Stream, Sorted
    <3>2. QED
      BY <1>3, <1>4, <3>1
  <2>2. QED
    BY <2>1 DEF Sorted
<1>6. Ahead(b, c) /\ Ahead(l, c)
  BY <1>2, <1>4 DEF Stream, Ahead
<1>7. QED
  BY <1>5, <1>6 DEF Stream, c

(* What is left of a sequence without its first n elements.                *)
LEMMA RestOf ==
    ASSUME NEW P, NEW q \in Seq(P), NEW n \in 0 .. Len(q)
    PROVE  /\ SubSeq(q, n + 1, Len(q)) \in Seq(P) /\ SubSeq(q, 1, n) \in Seq(P)
           /\ Len(SubSeq(q, n + 1, Len(q))) = Len(q) - n
           /\ Len(SubSeq(q, 1, n)) = n
           /\ \A i \in 1 .. Len(q) - n : SubSeq(q, n + 1, Len(q))[i] = q[n + i]
           /\ \A i \in 1 .. n : SubSeq(q, 1, n)[i] = q[i]
<1>1. \A i \in 1 .. Len(q) : q[i] \in P
  OBVIOUS
<1>2. Len(q) \in Nat /\ n \in Nat /\ n <= Len(q)
  OBVIOUS
<1> DEFINE r == SubSeq(q, n + 1, Len(q))
           h == SubSeq(q, 1, n)
<1>3. /\ r \in Seq(P)
      /\ Len(r) = IF n + 1 <= Len(q) THEN Len(q) - (n + 1) + 1 ELSE 0
      /\ \A i \in 1 .. Len(q) - (n + 1) + 1 : r[i] = q[(n + 1) + i - 1]
  BY <1>1, <1>2, SubSeqProperties
<1>4. /\ h \in Seq(P)
      /\ Len(h) = IF 1 <= n THEN n - 1 + 1 ELSE 0
      /\ \A i \in 1 .. n - 1 + 1 : h[i] = q[1 + i - 1]
  BY <1>1, <1>2, SubSeqProperties
<1> HIDE DEF r, h
<1>5. \A i \in 1 .. Len(q) - n : r[i] = q[n + i]
  <2>1. SUFFICES ASSUME NEW i \in 1 .. Len(q) - n
                 PROVE  r[i] = q[n + i]
    OBVIOUS
  <2>2. i \in 1 .. Len(q) - (n + 1) + 1 /\ (n + 1) + i - 1 = n + i
    BY <1>2
  <2>3. QED
    BY <1>3, <2>2
<1>6. \A i \in 1 .. n : h[i] = q[i]
  <2>1. SUFFICES ASSUME NEW i \in 1 .. n
                 PROVE  h[i] = q[i]
    OBVIOUS
  <2>2. i \in 1 .. n - 1 + 1 /\ 1 + i - 1 = i
    BY <1>2
  <2>3. QED
    BY <1>4, <2>2
<1>7. Len(r) = Len(q) - n /\ Len(h) = n
  BY <1>2, <1>3, <1>4
<1>8. QED
  BY <1>3, <1>4, <1>5, <1>6, <1>7 DEF r, h

LEMMA StreamRest ==
    ASSUME NEW P, NEW b \in Seq(P), NEW l \in Seq(P), NEW a \in Seq(P),
           NEW d \in 0 .. Len(l), Stream(b, l, a)
    PROVE  Stream(b, SubSeq(l, d + 1, Len(l)), a)
<1> DEFINE r == SubSeq(l, d + 1, Len(l))
<1>1. /\ Len(r) = Len(l) - d /\ Len(l) \in Nat
      /\ \A i \in 1 .. Len(l) - d : r[i] = l[d + i]
  BY RestOf
<1> HIDE DEF r
<1>2. ASSUME NEW j \in 1 .. Len(r)
      PROVE  /\ d + j \in 1 .. Len(l) /\ r[j] = l[d + j]
             /\ \A i \in 1 .. j - 1 : d + i \in 1 .. (d + j) - 1 /\ r[i] = l[d + i]
  BY <1>1
<1>3. Sorted(r)
  BY <1>2 DEF Stream, Sorted
<1>4. Ahead(b, r) /\ Ahead(r, a)
  BY <1>2 DEF Stream, Ahead
<1>5. QED
  BY <1>3, <1>4 DEF Stream, r

LEMMA StreamTake ==
    ASSUME NEW P, NEW b \in Seq(P), NEW l \in Seq(P), NEW a \in Seq(P),
           NEW n \in 1 .. Len(l), Stream(b, l, a)
    PROVE  Stream(b \o SubSeq(l, 1, n), SubSeq(l, n + 1, Len(l)), a)
<1> DEFINE r == SubSeq(l, n + 1, Len(l))
           h == SubSeq(l, 1, n)
           c == b \o h
<1>1. /\ Len(r) = Len(l) - n /\ Len(l) \in Nat /\ Len(h) = n /\ h \in Seq(P)
      /\ \A i \in 1 .. Len(l) - n : r[i] = l[n + i]
      /\ \A i \in 1 .. n : h[i] = l[i]
      /\ Stream(b, r, a)
  BY RestOf, StreamRest
<1>2. /\ Len(c) = Len(b) + n /\ Len(b) \in Nat
      /\ \A i \in 1 .. Len(b) : c[i] = b[i]
      /\ \A i \in Len(b) + 1 .. Len(b) + n : c[i] = h[i - Len(b)]
  BY <1>1
<1> HIDE DEF r, h, c
<1>3. ASSUME NEW i \in 1 .. Len(c)
      PROVE  \/ i \in 1 .. Len(b) /\ c[i] = b[i]
             \/ i - Len(b) \in 1 .. n /\ c[i] = l[i - Len(b)]
  <2>1. i \in 1 .. Len(b) \/ (i \in Len(b) + 1 .. Len(b) + n /\ i - Len(b) \in 1 .. n)
    BY <1>2
  <2>2. QED
    BY <1>1, <1>2, <2>1
<1>4. Ahead(c, a)
  <2>1. ASSUME NEW i \in 1 .. Len(c), NEW j \in 1 .. Len(a)
        PROVE  Before(c[i], a[j])
    <3>1. i - Len(b) \in 1 .. n => i - Len(b) \in 1 .. Len(l)
      BY <1>1, <1>2
    <3>2. QED
      BY <1>3, <3>1 DEF Stream, Ahead
  <2>2. QED
    BY <2>1 DEF Ahead
<1>5. Ahead(c, r)
  <2>1. ASSUME NEW i \in 1 .. Len(c), NEW j \in 1 .. Len(r)
        PROVE  Before(c[i], r[j])
    <3>1. /\ n + j \in 1 .. Len(l) /\ r[j] = l[n + j]
          /\ \A m \in 1 .. n : m \in 1 .. (n + j) - 1
      BY <1>1
    <3>2. QED
      BY <1>3, <3>1 DEF Stream, Sorted, Ahead
  <2>2. QED
    BY <2>1 DEF Ahead
<1>6. Stream(c, r, a)
  BY <1>1, <1>4, <1>5 DEF Stream
<1>7. QED
  BY <1>6 DEF r, h, c

-----------------------------------------------------------------------------
(* One more request is written.                                            *)

Older(p) == [p EXCEPT !.age = @ + 1]

LEMMA OlderPart ==
    ASSUME NEW p \in Parts
    PROVE  /\ Older(p) \in Parts /\ Older(p).age = p.age + 1 /\ p.age \in Nat
           /\ Older(p).kind = p.kind /\ Older(p).piece = p.piece
  BY DEF Parts, Older

LEMMA AgedParts ==
    ASSUME NEW q \in Seq(Parts)
    PROVE  /\ Aged(q) \in Seq(Parts) /\ Len(Aged(q)) = Len(q) /\ Len(q) \in Nat
           /\ \A i \in 1 .. Len(q) : Aged(q)[i] = Older(q[i]) /\ q[i] \in Parts
<1>1. DOMAIN q = 1 .. Len(q) /\ Len(q) \in Nat /\ \A i \in 1 .. Len(q) : q[i] \in Parts
  OBVIOUS
<1>2. Aged(q) = [i \in 1 .. Len(q) |-> Older(q[i])]
  BY <1>1 DEF Aged, Older
<1>3. Aged(q) \in [1 .. Len(q) -> Parts]
  BY <1>1, <1>2, OlderPart
<1>4. Aged(q) \in Seq(Parts)
  BY <1>1, <1>3, SeqDef
<1>5. QED
  BY <1>1, <1>2, <1>4

(* A new answer comes behind all the earlier ones.                         *)
LEMMA StreamSend ==
    ASSUME NEW l \in Seq(Parts), NEW a \in Seq(Parts), NEW r \in Seq(Parts),
           Stream(<<>>, l, a), Sorted(r), \A i \in 1 .. Len(r) : r[i].age = 0
    PROVE  Stream(<<>>, Aged(l), Aged(a) \o r)
<1>1. /\ Aged(l) \in Seq(Parts) /\ Len(Aged(l)) = Len(l) /\ Len(l) \in Nat
      /\ \A i \in 1 .. Len(l) : Aged(l)[i] = Older(l[i]) /\ l[i] \in Parts
  BY AgedParts
<1>2. /\ Aged(a) \in Seq(Parts) /\ Len(Aged(a)) = Len(a) /\ Len(a) \in Nat
      /\ \A i \in 1 .. Len(a) : Aged(a)[i] = Older(a[i]) /\ a[i] \in Parts
  BY AgedParts
<1>3. ASSUME NEW p \in Parts, NEW t \in Parts
      PROVE  /\ Before(p, t) => Before(Older(p), Older(t))
             /\ t.age = 0 => Before(Older(p), t)
  <2>1. /\ Older(p).age = p.age + 1 /\ Older(t).age = t.age + 1
        /\ p.age \in Nat /\ t.age \in Nat /\ (Last(Older(p)) <=> Last(p))
    BY OlderPart DEF Last
  <2>2. QED
    BY <2>1 DEF Before
<1> DEFINE g == Aged(a)
           c == g \o r
<1>4. /\ Len(c) = Len(a) + Len(r) /\ Len(r) \in Nat
      /\ \A i \in 1 .. Len(a) : c[i] = Older(a[i])
      /\ \A i \in Len(a) + 1 .. Len(a) + Len(r) : c[i] = r[i - Len(a)]
      /\ \A i \in 1 .. Len(r) : r[i] \in Parts
  <2>1. g \in Seq(Parts) /\ Len(g) = Len(a)
        /\ \A i \in 1 .. Len(a) : g[i] = Older(a[i])
    BY <1>2
  <2> HIDE DEF g
  <2>2. /\ Len(c) = Len(g) + Len(r) /\ Len(r) \in Nat /\ Len(g) \in Nat
        /\ \A i \in 1 .. Len(g) : c[i] = g[i]
        /\ \A i \in Len(g) + 1 .. Len(g) + Len(r) : c[i] = r[i - Len(g)]
    BY <2>1
  <2>3. \A i \in 1 .. Len(r) : r[i] \in Parts
    OBVIOUS
  <2>4. QED
    BY <2>1, <2>2, <2>3
<1> HIDE DEF c
<1>5. ASSUME NEW j \in 1 .. Len(c)
      PROVE  \/ j \in 1 .. Len(a) /\ c[j] = Older(a[j])
             \/ /\ j - Len(a) \in 1 .. Len(r) /\ c[j] = r[j - Len(a)]
                /\ c[j].age = 0 /\ c[j] \in Parts
  <2>1. \/ j \in 1 .. Len(a)
        \/ j \in Len(a) + 1 .. Len(a) + Len(r) /\ j - Len(a) \in 1 .. Len(r)
    BY <1>2, <1>4
  <2>2. QED
    BY <1>4, <2>1
<1>6. Sorted(Aged(l))
  BY <1>1, <1>3 DEF Stream, Sorted
<1>7. Ahead(Aged(l), c)
  <2>1. ASSUME NEW i \in 1 .. Len(l), NEW j \in 1 .. Len(c)
        PROVE  Before(Aged(l)[i], c[j])
    BY <1>1, <1>2, <1>3, <1>5 DEF Stream, Ahead
  <2>2. QED
    BY <1>1, <2>1 DEF Ahead
<1>8. Sorted(c)
  <2>1. ASSUME NEW j \in 1 .. Len(c), NEW i \in 1 .. j - 1
        PROVE  Before(c[i], c[j])
    <3>1. i \in 1 .. Len(c)
      BY <1>2, <1>4
    <3>2. CASE j \in 1 .. Len(a)
      <4>1. i \in 1 .. Len(a)
        BY <1>2, <3>2
      <4>2. QED
        BY <1>2, <1>3, <1>4, <3>2, <4>1 DEF Stream, Sorted
    <3>3. CASE j - Len(a) \in 1 .. Len(r) /\ c[j] = r[j - Len(a)]
               /\ c[j].age = 0 /\ c[j] \in Parts
      <4>1. CASE i \in 1 .. Len(a) /\ c[i] = Older(a[i])
        BY <1>2, <1>3, <3>3, <4>1
      <4>2. CASE i - Len(a) \in 1 .. Len(r) /\ c[i] = r[i - Len(a)]
        <5>1. i - Len(a) \in 1 .. (j - Len(a)) - 1
          BY <1>2, <4>2
        <5>2. QED
          BY <3>3, <4>2, <5>1 DEF Sorted
      <4>3. QED
        BY <1>5, <3>1, <4>1, <4>2
    <3>4. QED
      BY <1>5, <3>2, <3>3
  <2>2. QED
    BY <2>1 DEF Sorted
<1>9. QED
  BY <1>6, <1>7, <1>8 DEF Stream, Ahead, c

-----------------------------------------------------------------------------
(* The parts that can be under way.                                        *)

(* How a part of each kind travels, and which families send it.            *)
Sent(p) ==
    /\ p \in Parts
    /\ p.kind = "echo" => Switches
    /\ p.kind = "refusal" => family \notin {"jackery", "sok_ee"}
    /\ p.piece = "junk" => family = "pylontech_rs485"
    /\ IF p.kind \in {"echo", "refusal"} \/ family \in {"sok_ee", "pylontech_rs485"}
         THEN p.piece \in {"whole", "junk"} ELSE p.piece \in {"head", "tail"}

(* An answer to request n.                                                 *)
Answers(n, p) == Sent(p) /\ p.age = 0 /\ p.kind \in Asks[n] \cup {"refusal"}

LEMMA ResponseParts ==
    ASSUME family \in BleFamilies \cup SerialFamilies, NEW n \in 1 .. Len(Asks),
           NEW r \in Responses(Asks[n])
    PROVE  /\ r \in Seq({p \in Parts : Answers(n, p)})
           /\ Sorted(r) /\ r \in Seq(Parts) /\ \A i \in 1 .. Len(r) : r[i].age = 0
<1>1. Asks[n] \subseteq Kinds
  BY AskedKinds
<1>2. "echo" \notin Kinds /\ "refusal" \notin Kinds
  BY AskedKinds
<1>3. ASSUME NEW k \in Asks[n] \cup {"refusal"}, NEW piece \in {"head", "tail", "whole", "junk"}
      PROVE  /\ Part(k, piece) \in Parts /\ Part(k, piece).age = 0
             /\ Part(k, piece).kind = k /\ Part(k, piece).piece = piece
    BY <1>1 DEF Part, Parts
<1>4. CASE r = <<>>
  BY <1>4 DEF Sorted
<1>5. CASE r \in Refusals
  <2>1. r = <<Part("refusal", "whole")>> /\ family \notin {"jackery", "sok_ee"}
    BY <1>5 DEF Refusals
  <2>2. Answers(n, Part("refusal", "whole"))
    BY <1>3, <2>1 DEF Answers, Sent
  <2>3. QED
    BY <1>3, <2>1, <2>2 DEF Sorted
<1>6. CASE r \in AnswerTo(Asks[n]) /\ family = "sok_ee"
  <2>1. PICK k \in Asks[n] \cap {"info", "cap"}, l \in Asks[n] \cap {"temp", "cells"} :
           r = <<Part(k, "whole"), Part(l, "whole")>>
    BY <1>6 DEF AnswerTo
  <2>2. Answers(n, Part(k, "whole")) /\ Answers(n, Part(l, "whole"))
    BY <1>1, <1>2, <1>3, <1>6 DEF Answers, Sent
  <2>3. Before(Part(k, "whole"), Part(l, "whole"))
    BY <1>3, <1>6 DEF Before, Last
  <2>4. Sorted(r)
    BY <2>1, <2>3 DEF Sorted
  <2>5. QED
    BY <1>3, <2>1, <2>2, <2>4
<1>7. CASE r \in AnswerTo(Asks[n]) /\ family = "pylontech_rs485"
  <2>1. PICK k \in Asks[n] : \/ r = <<Part(k, "whole")>>
                             \/ r = <<Part(k, "junk"), Part(k, "whole")>>
    BY <1>7 DEF AnswerTo
  <2>2. Answers(n, Part(k, "whole")) /\ Answers(n, Part(k, "junk"))
    BY <1>1, <1>2, <1>3, <1>7 DEF Answers, Sent
  <2>3. Before(Part(k, "junk"), Part(k, "whole"))
    BY <1>3 DEF Before, Last
  <2>4. CASE r = <<Part(k, "whole")>>
    BY <1>3, <2>2, <2>4 DEF Sorted
  <2>5. CASE r = <<Part(k, "junk"), Part(k, "whole")>>
    <3>1. Sorted(r)
      BY <2>3, <2>5 DEF Sorted
    <3>2. QED
      BY <1>3, <2>2, <2>5, <3>1
  <2>6. QED
    BY <2>1, <2>4, <2>5
<1>8. CASE r \in AnswerTo(Asks[n]) /\ family \notin {"sok_ee", "pylontech_rs485"}
  <2>1. PICK k \in Asks[n] : r = <<Part(k, "head"), Part(k, "tail")>>
    BY <1>8 DEF AnswerTo
  <2>2. Answers(n, Part(k, "head")) /\ Answers(n, Part(k, "tail"))
    BY <1>1, <1>2, <1>3, <1>8 DEF Answers, Sent
  <2>3. Before(Part(k, "head"), Part(k, "tail"))
    BY <1>3 DEF Before, Last
  <2>4. Sorted(r)
    BY <2>1, <2>3 DEF Sorted
  <2>5. QED
    BY <1>3, <2>1, <2>2, <2>4
<1>9. QED
  BY <1>4, <1>5, <1>6, <1>7, <1>8 DEF Responses

-----------------------------------------------------------------------------
(* The invariant.                                                          *)

(* Ages are bounded by the requests missed while no switch was made, and   *)
(* before the first request is missed.                                     *)
Timely(m) == ~Switches \/ m = 0

(* What can be under way in a call c, at request n, after m missed ones:   *)
(* between two calls nothing of the last request, and before the first     *)
(* missed one only the answer to the request at hand.                      *)
Due(c, n, m) ==
    {p \in Parts :
        /\ Sent(p)
        /\ Timely(m) => p.age < (IF c = "idle" THEN m ELSE m + 1)
        /\ m = 0 => IF c = "read" THEN p.kind \in Asks[n] \cup {"refusal"}
                                  ELSE p.kind = "echo"}

(* What the snapshot g was decoded from.                                   *)
Sound(g, m) ==
    /\ DOMAIN g \subseteq Kinds
    /\ \A k \in DOMAIN g :
         /\ g[k] \in Parts
         /\ Timely(m) => g[k].age <= m
         /\ m = 0 \/ family \in Tellable => g[k].kind = k

(* The frames collected by header for request n are among the parts b.     *)
Headed(c, n, b, g) ==
    family = "sok_ee" /\ c = "read" =>
        /\ n = 1 => DOMAIN g \subseteq Asks[1]
        /\ \A k \in DOMAIN g \cap Asks[n] :
             g[k].kind = k /\ \E i \in 1 .. Len(b) : b[i] = g[k]

Good(c, n, b, l, a, g, r, m) ==
    /\ c \in {"idle", "read", "switch"}
    /\ n \in 1 .. Len(Asks) /\ r \in 0 .. Rounds /\ m \in Nat
    /\ Stream(b, l, a)
    /\ b \in Seq(Due(c, n, m)) /\ l \in Seq(Due(c, n, m)) /\ a \in Seq(Due(c, n, m))
    /\ c # "read" \/ family = "pylontech_rs485" => b = <<>>
    /\ c = "switch" => Switches
    /\ Sound(g, m)
    /\ Headed(c, n, b, g)

(* A serial port is never being looked for.                                *)
Known == LinkTypeOK /\ (~Ble => stage \in {"closed", "open"})

Inv == Known /\ Good(call, block, buf, line, air, got, rounds, missed)

LEMMA KnownFamily == Known => family \in BleFamilies \cup SerialFamilies
  BY DEF Known, LinkTypeOK

LEMMA DueParts ==
    ASSUME NEW c, NEW n, NEW m, NEW q \in Seq(Due(c, n, m))
    PROVE  q \in Seq(Parts)
<1>1. Due(c, n, m) \subseteq Parts
  BY DEF Due
<1>2. QED
  BY <1>1

(* What is left between two calls may belong to an earlier request of any  *)
(* call from then on.                                                      *)
LEMMA OlderDue ==
    ASSUME NEW n, NEW k, NEW m \in Nat, NEW p \in Due("idle", n, m)
    PROVE  /\ \A c : c # "idle" => Older(p) \in Due(c, k, m)
           /\ p \in Due("idle", k, m)
<1>1. p \in Parts /\ Sent(p) /\ (Timely(m) => p.age < m)
  BY DEF Due
<1>2. /\ Older(p) \in Parts /\ Older(p).age = p.age + 1 /\ p.age \in Nat
      /\ Older(p).kind = p.kind /\ Older(p).piece = p.piece
  BY <1>1, OlderPart
<1>3. m # 0
  BY <1>1, <1>2 DEF Timely
<1>4. Sent(Older(p))
  BY <1>1, <1>2 DEF Sent
<1>5. QED
  BY <1>1, <1>2, <1>3, <1>4 DEF Due

LEMMA NothingSound ==
    /\ \A m : Sound(NoBlocks, m)
    /\ \A c, n, b : Headed(c, n, b, NoBlocks)
  BY DEF Sound, Headed, NoBlocks

(* The next request of a read.                                             *)
LEMMA RequestGood ==
    ASSUME Known, NEW n \in 1 .. Len(Asks), NEW k, NEW m \in Nat,
           NEW l \in Seq(Due("idle", k, m)), NEW a \in Seq(Due("idle", k, m)),
           NEW d \in 0 .. Len(l), NEW r \in Responses(Asks[n]),
           NEW g, Sound(g, m), Headed("read", n, <<>>, g), NEW b, Stream(b, l, a)
    PROVE  Good("read", n, <<>>, Aged(SubSeq(l, d + 1, Len(l))), Aged(a) \o r, g, 0, m)
<1> DEFINE D == Due("read", n, m)
           I == Due("idle", k, m)
           s == SubSeq(l, d + 1, Len(l))
<1>1. s \in Seq(I)
  BY RestOf
<1>2. l \in Seq(Parts) /\ a \in Seq(Parts) /\ s \in Seq(Parts)
  BY <1>1, DueParts
<1>3. Stream(<<>>, s, a)
  <2>1. Stream(<<>>, l, a)
    BY StreamForget
  <2>2. <<>> \in Seq(Parts)
    OBVIOUS
  <2>3. QED
    BY <1>2, <2>1, <2>2, StreamRest
<1>4. /\ r \in Seq({p \in Parts : Answers(n, p)})
      /\ Sorted(r) /\ r \in Seq(Parts) /\ \A i \in 1 .. Len(r) : r[i].age = 0
  BY KnownFamily, ResponseParts
<1>5. Stream(<<>>, Aged(s), Aged(a) \o r)
  BY <1>2, <1>3, <1>4, StreamSend
<1>6. {p \in Parts : Answers(n, p)} \subseteq D
  BY DEF Due, Answers, Sent
<1>7. r \in Seq(D)
  BY <1>4, <1>6
<1>8. \A p \in I : Older(p) \in D
  BY OlderDue
<1>9. ASSUME NEW q \in Seq(I), q \in Seq(Parts)
      PROVE  Aged(q) \in Seq(D)
  <2>1. /\ Aged(q) \in Seq(Parts) /\ Len(Aged(q)) = Len(q) /\ Len(q) \in Nat
        /\ \A i \in 1 .. Len(q) : Aged(q)[i] = Older(q[i])
    BY <1>9, AgedParts
  <2>2. \A i \in 1 .. Len(q) : q[i] \in I
    BY <1>9
  <2>3. \A i \in 1 .. Len(q) : Aged(q)[i] \in D
    BY <1>8, <2>1, <2>2
  <2>4. QED
    BY <2>1, <2>3, SeqDef
<1>10. Aged(s) \in Seq(D) /\ Aged(a) \in Seq(D)
  BY <1>1, <1>2, <1>9
<1>11. Aged(a) \o r \in Seq(D)
  BY <1>7, <1>10
<1>12. 0 \in 0 .. Rounds
  BY MastersAssumption
<1>13. QED
  BY <1>5, <1>10, <1>11, <1>12 DEF Good

(* A call has ended.                                                       *)
LEMMA IdleGood ==
    ASSUME Known, NEW k, NEW m \in Nat, NEW n \in 1 .. Len(Asks), NEW r \in 0 .. Rounds,
           NEW l \in Seq(Due("idle", k, m)), NEW a \in Seq(Due("idle", k, m)),
           NEW g, Sound(g, m), NEW b, Stream(b, l, a)
    PROVE  Good("idle", n, <<>>, l, a, g, r, m)
<1>1. Due("idle", k, m) \subseteq Due("idle", n, m)
  BY OlderDue
<1>2. l \in Seq(Due("idle", n, m)) /\ a \in Seq(Due("idle", n, m))
  BY <1>1
<1>3. Stream(<<>>, l, a)
  BY StreamForget
<1>4. QED
  BY <1>2, <1>3 DEF Good, Headed

LEMMA FirstBlock == Known => 1 \in 1 .. Len(Asks) /\ 0 \in 0 .. Rounds
  BY KnownFamily, AskedKinds, MastersAssumption

(* A request is written or the read ends: what is still under way then is  *)
(* of earlier requests.                                                    *)
LEMMA ProceedGood ==
    ASSUME Known, call = "read", block \in 1 .. Len(Asks), NEW k,
           NEW rest \in Seq(Due("idle", k, missed')), air \in Seq(Due("idle", k, missed')),
           missed' \in Nat, NEW b, Stream(b, rest, air), Proceed(rest),
           Sound(got', missed'),
           family = "sok_ee" => DOMAIN got' \subseteq UNION {Asks[i] : i \in 1 .. block}
    PROVE  Good(call', block', buf', line', air', got', rounds', missed')
<1>1. CASE /\ block < Len(Asks) /\ block' = block + 1
           /\ \E r \in Responses(Asks[block + 1]) : air' = Aged(air) \o r
           /\ \E d \in {x \in Dropped : x <= Len(rest)} :
                line' = Aged(SubSeq(rest, d + 1, Len(rest)))
           /\ buf' = <<>> /\ rounds' = 0 /\ call' = call
  <2>1. PICK r \in Responses(Asks[block + 1]) : air' = Aged(air) \o r
    BY <1>1
  <2>2. PICK d \in Dropped : /\ d <= Len(rest)
                             /\ line' = Aged(SubSeq(rest, d + 1, Len(rest)))
    BY <1>1
  <2>3. d \in 0 .. Len(rest)
    <3>1. d \in Nat
      BY <2>2 DEF Dropped
    <3>2. QED
      BY <2>2, <3>1
  <2>4. block + 1 \in 1 .. Len(Asks) /\ block + 1 # 1
    BY <1>1, KnownFamily, AskedKinds
  <2>5. Headed("read", block + 1, <<>>, got')
    <3>1. SUFFICES ASSUME family = "sok_ee"
                   PROVE  DOMAIN got' \cap Asks[block + 1] = {}
      BY <2>4 DEF Headed
    <3>2. Len(Asks) = 2 /\ Asks[1] = {"info", "temp"} /\ Asks[2] = {"cap", "cells"}
      BY <3>1, KnownFamily, AskedKinds
    <3>3. block = 1
      BY <1>1, <3>2
    <3>4. DOMAIN got' \subseteq {"info", "temp"}
      BY <3>1, <3>2, <3>3
    <3>5. QED
      BY <3>2, <3>3, <3>4
  <2>6. QED
    BY <1>1, <2>1, <2>2, <2>3, <2>4, <2>5, RequestGood
<1>2. CASE Return /\ line' = rest /\ air' = air
  BY <1>2, IdleGood, FirstBlock DEF Return
<1>3. QED
  BY <1>1, <1>2 DEF Proceed

-----------------------------------------------------------------------------
(* What a chunk is taken for.                                              *)

(* The frames collected by header are those of this request, and no older  *)
(* than the others.                                                        *)
LEMMA CollectedGood ==
    ASSUME Known, call = "read", block \in 1 .. Len(Asks), missed \in Nat,
           Sound(got, missed), Headed("read", block, buf, got),
           buf \in Seq(Parts), NEW h \in Seq(Due("read", block, missed)), h # <<>>
    PROVE  /\ Sound(Collected(buf \o h), missed)
           /\ Headed("read", block, buf \o h, Collected(buf \o h))
           /\ Asks[block] \subseteq DOMAIN Collected(buf \o h) /\ family = "sok_ee"
                => \A k \in Asks[block] : \E i \in 1 .. Len(buf \o h) : (buf \o h)[i].kind = k
<1> DEFINE b == buf \o h
           D == Due("read", block, missed)
           f == Collected(b)
<1>1. CASE family # "sok_ee"
  BY <1>1 DEF Collected, Headed
<1>2. CASE family = "sok_ee"
  <2>1. /\ Len(b) = Len(buf) + Len(h) /\ Len(buf) \in Nat /\ Len(h) \in Nat /\ Len(h) >= 1
        /\ \A i \in 1 .. Len(buf) : b[i] = buf[i]
        /\ b[Len(b)] = h[Len(h)] /\ h[Len(h)] \in D
  <3>1. h \in Seq(Parts)
    BY DueParts
  <3>2. Len(h) \in 1 .. Len(h) /\ Len(h) \in Nat
    OBVIOUS
  <3>3. QED
    BY <3>1, <3>2
  <2> DEFINE x == b[Len(b)]
             wanted == {x.kind} \cap Asks[block]
  <2>2. f = [k \in DOMAIN got \cup wanted |-> IF k \in wanted THEN x ELSE got[k]]
    BY <1>2 DEF Collected
  <2>3. x \in Parts /\ (Timely(missed) => x.age <= missed)
    <3>1. x \in D
      BY <2>1
    <3>2. x \in Parts /\ (Timely(missed) => x.age < missed + 1)
      BY <3>1 DEF Due
    <3>3. QED
      BY <3>2 DEF Parts
  <2>4. Asks[block] \subseteq Kinds
    BY KnownFamily, AskedKinds
  <2>5. Len(b) \in 1 .. Len(b) /\ \A i \in 1 .. Len(buf) : i \in 1 .. Len(b)
    BY <2>1
  <2> HIDE DEF b, f, x
  <2>6. Sound(f, missed)
    BY <1>2, <2>2, <2>3, <2>4 DEF Sound
  <2>7. \A k \in DOMAIN f \cap Asks[block] :
           f[k].kind = k /\ \E i \in 1 .. Len(b) : b[i] = f[k]
    BY <1>2, <2>1, <2>2, <2>5 DEF Headed, x
  <2>8. block = 1 => DOMAIN f \subseteq Asks[1]
    BY <1>2, <2>2 DEF Headed
  <2>9. Headed("read", block, b, f)
    BY <2>7, <2>8 DEF Headed
  <2>10. Asks[block] \subseteq DOMAIN f
            => \A k \in Asks[block] : \E i \in 1 .. Len(b) : b[i].kind = k
    BY <2>7
  <2>11. QED
    BY <2>6, <2>9, <2>10 DEF b, f
<1>3. QED
  BY <1>1, <1>2

(* What is accepted ends an answer.                                        *)
LEMMA AcceptEnds ==
    ASSUME Known, block \in 1 .. Len(Asks), NEW f,
           NEW b \in Seq(Due("read", block, missed)), b # <<>>,
           "accept" \in Outcomes(b, f),
           Asks[block] \subseteq DOMAIN f /\ family = "sok_ee"
             => \A k \in Asks[block] : \E i \in 1 .. Len(b) : b[i].kind = k
    PROVE  /\ \E i \in 1 .. Len(b) : Last(b[i])
           /\ family # "sok_ee" /\ (family = "pylontech_rs485" => Len(b) = 1)
                => b[1].kind # "refusal"
<1>1. /\ Len(b) \in Nat /\ Len(b) >= 1 /\ 1 \in 1 .. Len(b) /\ Len(b) \in 1 .. Len(b)
      /\ \A i \in 1 .. Len(b) : b[i] \in Due("read", block, missed)
  OBVIOUS
<1>2. \A i \in 1 .. Len(b) : Sent(b[i])
  BY <1>1 DEF Due
<1>3. ASSUME NEW i \in 1 .. Len(b), b[i].piece \notin {"head", "junk"}, family # "sok_ee"
      PROVE  Last(b[i])
  BY <1>3 DEF Last
<1>4. CASE family = "jackery"
  <2>1. CASE WholeAnswer(b)
    <3>1. Len(b) = 2 /\ b[2] = [b[1] EXCEPT !.piece = "tail"] /\ b[1] \in Parts
      BY <1>1, <2>1 DEF WholeAnswer, Due
    <3>2. b[2].piece = "tail"
      BY <3>1 DEF Parts
    <3>3. QED
      BY <1>1, <1>2, <1>3, <1>4, <3>1, <3>2 DEF Sent
  <2>2. CASE Len(b) = 1 /\ b[1].piece = "whole"
    BY <1>1, <1>2, <1>3, <1>4, <2>2 DEF Sent
  <2>3. QED
    BY <1>4, <2>1, <2>2 DEF Outcomes, CipherOutcomes
<1>5. CASE family = "pylontech_rs485"
  <2>1. b[1].piece # "junk" /\ b[1].kind # "refusal"
    BY <1>5 DEF Outcomes, LineOutcomes, Legible
  <2>2. Last(b[1])
    BY <1>1, <1>2, <1>3, <1>5, <2>1 DEF Sent
  <2>3. QED
    BY <1>1, <1>5, <2>1, <2>2
<1>6. CASE family = "sok_ee"
  <2>1. Asks[block] \subseteq DOMAIN f
    BY <1>6 DEF Outcomes, HeaderOutcomes
  <2>2. PICK k \in Asks[block] : k \in {"temp", "cells"}
    <3>1. Len(Asks) = 2 /\ Asks[1] = {"info", "temp"} /\ Asks[2] = {"cap", "cells"}
      BY <1>6, KnownFamily, AskedKinds
    <3>2. block = 1 \/ block = 2
      BY <3>1
    <3>3. QED
      BY <3>1, <3>2
  <2>3. PICK i \in 1 .. Len(b) : b[i].kind = k
    BY <1>6, <2>1, <2>2
  <2>4. Last(b[i])
    BY <1>2, <1>6, <2>2, <2>3 DEF Last, Sent
  <2>5. QED
    BY <1>6, <2>4
<1>7. CASE family \notin {"jackery", "pylontech_rs485", "sok_ee"}
  <2>1. Len(b) >= 2 /\ WholeAnswer(SubSeq(b, 1, 2))
    BY <1>7 DEF Outcomes, LengthOutcomes
  <2>2. SubSeq(b, 1, 2)[1] = b[1] /\ SubSeq(b, 1, 2)[2] = b[2]
    <3>1. \A i \in 1 .. 2 : SubSeq(b, 1, 2)[i] = b[i]
      BY <1>1, <2>1, RestOf
    <3>2. QED
      BY <3>1
  <2>3. b[1].piece = "head" /\ b[2] = [b[1] EXCEPT !.piece = "tail"] /\ b[1] \in Parts
    BY <1>1, <2>1, <2>2 DEF WholeAnswer, Due
  <2>4. b[2].piece = "tail" /\ 2 \in 1 .. Len(b)
    BY <1>1, <2>1, <2>3 DEF Parts
  <2>5. QED
    BY <1>1, <1>2, <1>3, <1>7, <2>3, <2>4 DEF Sent
<1>8. QED
  BY <1>4, <1>5, <1>6, <1>7

(* After the end of an answer is read only later ones are under way.       *)
LEMMA LaterOnly ==
    ASSUME NEW c, c # "idle", NEW n, NEW m \in Nat, NEW b \in Seq(Due(c, n, m)),
           NEW l \in Seq(Due(c, n, m)), NEW a \in Seq(Due(c, n, m)),
           Stream(b, l, a), NEW i \in 1 .. Len(b), Last(b[i])
    PROVE  l \in Seq(Due("idle", n, m)) /\ a \in Seq(Due("idle", n, m))
<1>1. ASSUME NEW p \in Due(c, n, m), Before(b[i], p)
      PROVE  p \in Due("idle", n, m)
  <2>1. b[i] \in Due(c, n, m)
    OBVIOUS
  <2>2. /\ b[i].age \in Nat /\ p.age \in Nat /\ b[i].age > p.age /\ p \in Parts /\ Sent(p)
        /\ Timely(m) => b[i].age < m + 1
    BY <1>1, <2>1 DEF Due, Parts, Before
  <2>3. Timely(m) => p.age < m /\ m # 0
    BY <2>2
  <2>4. Timely(0)
    BY DEF Timely
  <2>5. QED
    BY <2>2, <2>3, <2>4 DEF Due
<1>2. \A j \in 1 .. Len(l) : l[j] \in Due("idle", n, m)
  BY <1>1 DEF Stream, Ahead
<1>3. \A j \in 1 .. Len(a) : a[j] \in Due("idle", n, m)
  BY <1>1 DEF Stream, Ahead
<1>4. QED
  BY <1>2, <1>3, SeqDef

(* What a block is decoded from.                                           *)
LEMMA DecodedGood ==
    ASSUME Known, call = "read", block \in 1 .. Len(Asks), missed \in Nat,
           Sound(got, missed), Headed("read", block, buf, got), buf \in Seq(Parts),
           family = "pylontech_rs485" => buf = <<>>,
           NEW h \in Seq(Due("read", block, missed)), h # <<>>,
           family = "pylontech_rs485" => Len(h) = 1,
           buf \o h \in Seq(Due("read", block, missed)),
           "accept" \in Outcomes(buf \o h, Collected(buf \o h))
    PROVE  /\ Sound(Decoded(buf \o h), missed)
           /\ family = "sok_ee" => DOMAIN Decoded(buf \o h) \subseteq UNION {Asks[i] : i \in 1 .. block}
           /\ \E i \in 1 .. Len(buf \o h) : Last((buf \o h)[i])
<1> DEFINE b == buf \o h
           D == Due("read", block, missed)
<1>1. /\ Sound(Collected(b), missed)
      /\ Headed("read", block, b, Collected(b))
      /\ Asks[block] \subseteq DOMAIN Collected(b) /\ family = "sok_ee"
           => \A k \in Asks[block] : \E i \in 1 .. Len(b) : b[i].kind = k
  BY CollectedGood
<1>2. b # <<>> /\ (family = "pylontech_rs485" => Len(b) = 1)
  <2>1. Len(h) \in Nat /\ Len(h) >= 1 /\ h \in Seq(Parts)
    BY DueParts
  <2>2. Len(b) = Len(buf) + Len(h) /\ Len(buf) \in Nat /\ b \in Seq(Parts)
    BY <2>1
  <2>3. family = "pylontech_rs485" => Len(buf) = 0 /\ Len(h) = 1
    OBVIOUS
  <2>4. Len(<<>>) = 0
    OBVIOUS
  <2> DEFINE x == Len(b)
             y == Len(buf)
             z == Len(h)
  <2>5. x = y + z /\ y \in Nat /\ z \in Nat /\ z >= 1
        /\ (family = "pylontech_rs485" => y = 0 /\ z = 1)
    BY <2>1, <2>2, <2>3
  <2> HIDE DEF b, x, y, z
  <2>6. x >= 1 /\ (family = "pylontech_rs485" => x = 1)
    BY <2>5
  <2>7. QED
    BY <2>4, <2>6 DEF x
<1>3. /\ \E i \in 1 .. Len(b) : Last(b[i])
      /\ family # "sok_ee" => b[1].kind # "refusal"
  BY <1>1, <1>2, AcceptEnds
<1> HIDE DEF b
<1>4. CASE family = "sok_ee"
  <2>1. Decoded(b) = Collected(b)
    BY <1>4 DEF Decoded
  <2>2. DOMAIN Collected(b) \subseteq UNION {Asks[i] : i \in 1 .. block}
    <3>1. Len(Asks) = 2 /\ Asks[1] = {"info", "temp"} /\ Asks[2] = {"cap", "cells"}
      BY <1>4, KnownFamily, AskedKinds
    <3>2. CASE block = 1
      BY <1>1, <1>4, <3>2 DEF Headed
    <3>3. CASE block = 2
      <4>1. Kinds = {"info", "temp", "cap", "cells"}
        BY <1>4 DEF Kinds, Asks, SokEe
      <4>2. 1 \in 1 .. block /\ 2 \in 1 .. block
        BY <3>3
      <4>3. QED
        BY <1>1, <3>1, <4>1, <4>2 DEF Sound
    <3>4. QED
      BY <3>1, <3>2, <3>3
  <2>3. QED
    BY <1>1, <1>3, <1>4, <2>1, <2>2 DEF b
<1>5. CASE family # "sok_ee"
  <2>1. Decoded(b) = [k \in DOMAIN got \cup Asks[block] |->
                        IF k \in Asks[block] THEN b[1] ELSE got[k]]
    BY <1>5 DEF Decoded
  <2>2. b[1] \in D
    BY <1>2 DEF b
  <2>3. b[1] \in Parts /\ (Timely(missed) => b[1].age <= missed) /\ Sent(b[1])
        /\ (missed = 0 => b[1].kind \in Asks[block] \cup {"refusal"})
    BY <2>2 DEF Due, Parts
  <2>4. /\ Asks[block] \subseteq Kinds
        /\ \A k, l \in Asks[block] : k = l
        /\ "echo" \notin Kinds /\ "refusal" \notin Kinds
        /\ family \in Tellable => Asks[block] = Kinds
    BY <1>5, KnownFamily, AskedKinds
  <2>5. missed = 0 \/ family \in Tellable => b[1].kind \in Asks[block]
    <3>1. CASE missed = 0
      BY <1>3, <1>5, <2>3, <3>1
    <3>2. CASE family \in Tellable
      <4>1. b[1].kind # "echo"
        BY <2>3, <3>2 DEF Sent, Switches, Tellable
      <4>2. b[1].kind \in {"echo", "refusal"} \cup Kinds
        BY <2>3 DEF Parts
      <4>3. QED
        BY <1>3, <1>5, <2>4, <3>2, <4>1, <4>2
    <3>3. QED
      BY <3>1, <3>2
  <2>6. Sound(Decoded(b), missed)
    BY <2>1, <2>3, <2>4, <2>5 DEF Sound
  <2>7. QED
    BY <1>3, <1>5, <2>6 DEF b
<1>6. QED
  BY <1>4, <1>5

-----------------------------------------------------------------------------
(* The steps.                                                              *)

StillGood == Good(call', block', buf', line', air', got', rounds', missed')

(* What was under way belongs to an earlier request.                       *)
LEMMA AgedDue ==
    ASSUME NEW c, c # "idle", NEW n, NEW k, NEW m \in Nat, NEW q \in Seq(Due("idle", k, m))
    PROVE  Aged(q) \in Seq(Due(c, n, m)) /\ Aged(q) \in Seq(Parts)
<1>1. q \in Seq(Parts)
  BY DueParts
<1>2. /\ Aged(q) \in Seq(Parts) /\ Len(Aged(q)) = Len(q) /\ Len(q) \in Nat
      /\ \A i \in 1 .. Len(q) : Aged(q)[i] = Older(q[i])
  BY <1>1, AgedParts
<1>3. \A i \in 1 .. Len(q) : q[i] \in Due("idle", k, m)
  OBVIOUS
<1>4. \A i \in 1 .. Len(q) : Aged(q)[i] \in Due(c, n, m)
  BY <1>2, <1>3, OlderDue
<1>5. QED
  BY <1>2, <1>4, SeqDef

(* After a request without its answer everything under way is late.        *)
LEMMA MissedDue ==
    ASSUME NEW c, NEW n, NEW k, NEW m \in Nat, NEW q \in Seq(Due(c, n, m))
    PROVE  q \in Seq(Due("idle", k, m + 1))
<1>1. ASSUME NEW p \in Due(c, n, m)
      PROVE  p \in Due("idle", k, m + 1)
  <2>1. /\ p \in Parts /\ Sent(p) /\ p.age \in Nat
        /\ Timely(m) => p.age < m + 1
    BY DEF Due, Parts
  <2>2. m + 1 # 0 /\ (Timely(m + 1) => Timely(m))
    BY DEF Timely
  <2>3. QED
    BY <2>1, <2>2 DEF Due
<1>2. QED
  BY <1>1

LEMMA BeginReadGood ==
    ASSUME Inv, BeginRead
    PROVE  StillGood
<1>1. /\ call = "idle" /\ call' = "read" /\ block' = 1 /\ got' = NoBlocks /\ missed' = missed
      /\ buf' = <<>> /\ rounds' = 0
  BY DEF BeginRead, MayCall, Request
<1>2. PICK r \in Responses(Asks[1]) : air' = Aged(air) \o r
  BY DEF BeginRead, Request
<1>3. PICK d \in Dropped : line' = Aged(SubSeq(line, d + 1, Len(line)))
  BY DEF BeginRead, Request
<1>4. /\ line \in Seq(Due("idle", block, missed)) /\ air \in Seq(Due("idle", block, missed))
      /\ missed \in Nat /\ Stream(buf, line, air) /\ Known
  BY <1>1 DEF Inv, Good
<1>5. d \in 0 .. Len(line)
  <2>1. Len(line) \in Nat
    BY <1>4
  <2>2. QED
    BY <1>3, <2>1 DEF Dropped
<1>6. Good("read", 1, <<>>, Aged(SubSeq(line, d + 1, Len(line))), Aged(air) \o r, NoBlocks, 0, missed)
  BY <1>2, <1>4, <1>5, FirstBlock, NothingSound, RequestGood
<1>7. QED
  BY <1>1, <1>2, <1>3, <1>6 DEF StillGood

LEMMA BeginSwitchGood ==
    ASSUME Inv, BeginSwitch
    PROVE  StillGood
<1> DEFINE e == Part("echo", "whole")
           r == <<e>>
           D == Due("switch", block, missed)
<1>1. /\ call = "idle" /\ call' = "switch" /\ Switches
      /\ air' = Aged(air) \o r /\ line' = Aged(line) /\ buf' = <<>> /\ rounds' = 0
      /\ block' = block /\ got' = got /\ missed' = missed
  BY DEF BeginSwitch, MayCall
<1>2. /\ line \in Seq(Due("idle", block, missed)) /\ air \in Seq(Due("idle", block, missed))
      /\ missed \in Nat /\ Stream(buf, line, air) /\ Known /\ block \in 1 .. Len(Asks)
      /\ Sound(got, missed)
  BY <1>1 DEF Inv, Good
<1>3. line \in Seq(Parts) /\ air \in Seq(Parts) /\ Stream(<<>>, line, air)
  BY <1>2, DueParts, StreamForget
<1>4. e \in Parts /\ e.age = 0 /\ e.kind = "echo" /\ e.piece = "whole"
  BY DEF Part, Parts
<1>5. e \in D
  <2>1. Sent(e)
    BY <1>1, <1>4 DEF Sent
  <2>2. QED
    BY <1>2, <1>4, <2>1 DEF Due
<1>6. r \in Seq(D) /\ r \in Seq(Parts) /\ Sorted(r) /\ \A i \in 1 .. Len(r) : r[i].age = 0
  BY <1>4, <1>5 DEF Sorted
<1>7. Stream(<<>>, Aged(line), Aged(air) \o r)
  BY <1>3, <1>6, StreamSend
<1>8. Aged(line) \in Seq(D) /\ Aged(air) \in Seq(D)
  BY <1>2, AgedDue
<1>9. Aged(air) \o r \in Seq(D)
  BY <1>6, <1>8
<1>10. 0 \in 0 .. Rounds
  BY <1>2, FirstBlock
<1>11. Good("switch", block, <<>>, Aged(line), Aged(air) \o r, got, 0, missed)
  BY <1>1, <1>2, <1>7, <1>8, <1>9, <1>10 DEF Good, Headed
<1>12. QED
  BY <1>1, <1>11 DEF StillGood

(* A part comes in, or is lost, or all of them are.                        *)
LEMMA AirGood ==
    ASSUME Inv, UNCHANGED clientVars,
           \/ Arrive \/ Lose \/ Garble
           \/ air' = <<>> /\ line' = line
           \/ air' = air /\ line' = line
    PROVE  StillGood
<1> DEFINE D == Due(call, block, missed)
<1>1. /\ line \in Seq(D) /\ air \in Seq(D) /\ buf \in Seq(D)
      /\ Stream(buf, line, air)
  BY DEF Inv, Good
<1>2. line \in Seq(Parts) /\ air \in Seq(Parts) /\ buf \in Seq(Parts)
  BY <1>1, DueParts
<1>3. line' \in Seq(D) /\ air' \in Seq(D) /\ Stream(buf, line', air')
  <2> HIDE DEF D
  <2>1. CASE Arrive \/ Lose
    <3>1. /\ air # <<>> /\ air' = Tail(air)
          /\ line' = Append(line, Head(air)) \/ line' = line
      BY <2>1 DEF Arrive, Lose
    <3>2. Head(air) \in D /\ Tail(air) \in Seq(D)
      BY <1>1, <3>1
    <3>3. Append(line, Head(air)) \in Seq(D)
      BY <1>1, <3>2
    <3>4. Stream(buf, Append(line, Head(air)), Tail(air)) /\ Stream(buf, line, Tail(air))
      BY <1>1, <1>2, <3>1, StreamArrive
    <3>5. QED
      BY <1>1, <3>1, <3>2, <3>3, <3>4
  <2>2. CASE air' = <<>> /\ line' = line
    <3>1. Stream(buf, line, <<>>) /\ <<>> \in Seq(D)
      BY <1>1, StreamForget
    <3>2. QED
      BY <1>1, <2>2, <3>1
  <2>3. CASE air' = air /\ line' = line
    BY <1>1, <2>3
  <2>4. CASE Garble
    <3> DEFINE p == air[1]
               g == [p EXCEPT !.piece = "junk"]
    <3>1. /\ family = "pylontech_rs485" /\ air # <<>> /\ line' = line
          /\ air' = <<g>> \o Tail(air)
      BY <2>4, <1>1 DEF Garble
    <3>2. p \in D /\ p \in Parts
      BY <1>1, <1>2, <3>1
    <3>3. /\ g \in Parts /\ g.age = p.age /\ g.kind = p.kind /\ g.piece = "junk"
          /\ p.age \in Nat
      BY <3>2 DEF Parts
    <3> HIDE DEF g
    <3>4. Sent(g)
      <4>1. Sent(p)
        BY <3>2 DEF D, Due
      <4>2. QED
        BY <3>1, <3>3, <4>1 DEF Sent
    <3>5. g \in D
      BY <3>2, <3>3, <3>4 DEF D, Due
    <3>6. air' \in Seq(D)
      BY <1>1, <3>1, <3>5
    <3>7. Stream(buf, line, air')
      <4>1. ~Last(g) /\ g.age = air[1].age
        BY <3>3 DEF Last
      <4>2. QED
        BY <1>1, <1>2, <3>1, <4>1, StreamGarble
    <3>8. QED
      BY <1>1, <3>1, <3>6, <3>7
  <2>5. QED
    BY <2>1, <2>2, <2>3, <2>4
<1>4. Good(call, block, buf, line', air', got, rounds, missed)
  BY <1>3 DEF Inv, Good
<1>5. QED
  BY <1>4 DEF StillGood, clientVars

(* A request ends without its answer.                                      *)
LEMMA MissGood ==
    ASSUME Inv, call # "idle", NEW rest \in Seq(Due(call, block, missed)), NEW b,
           Stream(b, rest, air), Miss(rest)
    PROVE  StillGood
<1>1. /\ Known /\ missed \in Nat /\ block \in 1 .. Len(Asks) /\ Sound(got, missed)
      /\ air \in Seq(Due(call, block, missed))
  BY DEF Inv, Good
<1>2. missed' = missed + 1 /\ missed' \in Nat
  BY <1>1 DEF Miss
<1>3. rest \in Seq(Due("idle", block, missed')) /\ air \in Seq(Due("idle", block, missed'))
  BY <1>1, <1>2, MissedDue
<1>4. CASE call = "read" /\ block \in Optional
  <2>1. Proceed(rest) /\ got' = got
    BY <1>4 DEF Miss
  <2>2. family = "bluetti"
    BY <1>4 DEF Optional
  <2>3. Sound(got', missed')
    BY <1>1, <1>2, <2>1, <2>2 DEF Sound, Timely, Switches, Parts
  <2>4. QED
    BY <1>1, <1>2, <1>3, <1>4, <2>1, <2>2, <2>3, ProceedGood DEF StillGood
<1>5. CASE ~(call = "read" /\ block \in Optional)
  <2>1. Return /\ got' = NoBlocks /\ line' = rest /\ air' = air
    BY <1>5 DEF Miss
  <2>2. QED
    BY <1>1, <1>2, <1>3, <2>1, NothingSound, IdleGood, FirstBlock DEF StillGood, Return
<1>6. QED
  BY <1>4, <1>5

(* A chunk is read.                                                        *)
LEMMA ReceiveGood ==
    ASSUME Inv, Receive
    PROVE  StillGood
<1> DEFINE D == Due("read", block, missed)
<1>1. call = "read" /\ line # <<>>
  BY DEF Receive
<1>2. /\ Known /\ missed \in Nat /\ block \in 1 .. Len(Asks) /\ Sound(got, missed)
      /\ Headed("read", block, buf, got) /\ rounds \in 0 .. Rounds
      /\ line \in Seq(D) /\ air \in Seq(D) /\ buf \in Seq(D) /\ Stream(buf, line, air)
      /\ family = "pylontech_rs485" => buf = <<>>
  BY <1>1 DEF Inv, Good
<1>3. PICK n \in Chunks :
         LET rest == SubSeq(line, n + 1, Len(line))
             b == buf \o SubSeq(line, 1, n)
             outcomes == Outcomes(b, Collected(b))
         IN \/ /\ "more" \in outcomes
               /\ rounds + 1 < Rounds
               /\ got' = Collected(b)
               /\ buf' = (IF family = "pylontech_rs485" THEN <<>> ELSE b)
               /\ rounds' = rounds + 1
               /\ line' = rest
               /\ UNCHANGED <<air, call, block, missed>>
            \/ /\ "more" \in outcomes
               /\ rounds + 1 = Rounds
               /\ Miss(rest)
            \/ /\ "error" \in outcomes
               /\ Miss(rest)
            \/ /\ "accept" \in outcomes
               /\ got' = Decoded(b)
               /\ Proceed(rest)
               /\ UNCHANGED missed
  BY DEF Receive
<1>4. n \in 1 .. Len(line) /\ (family = "pylontech_rs485" => n = 1)
  <2>1. Len(line) \in Nat /\ Len(line) >= 1
    BY <1>1, <1>2
  <2>2. QED
    BY <1>3, <2>1 DEF Chunks
<1>5. line \in Seq(Parts) /\ air \in Seq(Parts) /\ buf \in Seq(Parts)
  BY <1>2, DueParts
<1> DEFINE h == SubSeq(line, 1, n)
           rest == SubSeq(line, n + 1, Len(line))
           b == buf \o h
           outcomes == Outcomes(b, Collected(b))
           kept == IF family = "pylontech_rs485" THEN <<>> ELSE b
<1>6. h \in Seq(D) /\ rest \in Seq(D) /\ Len(h) = n
  <2> HIDE DEF D
  <2>1. n \in 0 .. Len(line)
    BY <1>4
  <2>2. QED
    BY <1>2, <2>1, RestOf
<1>7. h # <<>> /\ (family = "pylontech_rs485" => Len(h) = 1)
  <2>1. Len(<<>>) = 0
    OBVIOUS
  <2> HIDE DEF h
  <2>2. QED
    BY <1>4, <1>6, <2>1
<1>8. b \in Seq(D)
  <2> HIDE DEF D, h
  <2>1. QED
    BY <1>2, <1>6
<1>9. Stream(b, rest, air)
  BY <1>2, <1>4, <1>5, StreamTake
<1>10. /\ Sound(Collected(b), missed)
       /\ Headed("read", block, b, Collected(b))
  <2> HIDE DEF h
  <2>1. QED
    BY <1>1, <1>2, <1>5, <1>6, <1>7, CollectedGood
<1>11. \/ /\ "more" \in outcomes
          /\ rounds + 1 < Rounds
          /\ got' = Collected(b)
          /\ buf' = kept
          /\ rounds' = rounds + 1
          /\ line' = rest
          /\ air' = air /\ call' = call /\ block' = block /\ missed' = missed
       \/ Miss(rest)
       \/ /\ "accept" \in outcomes
          /\ got' = Decoded(b)
          /\ Proceed(rest)
          /\ missed' = missed
  BY <1>3
<1> HIDE DEF h, rest, b, outcomes, kept
<1>12. CASE /\ "more" \in outcomes
            /\ rounds + 1 < Rounds
            /\ got' = Collected(b)
            /\ buf' = kept
            /\ rounds' = rounds + 1
            /\ line' = rest
            /\ air' = air /\ call' = call /\ block' = block /\ missed' = missed
  <2>1. rounds + 1 \in 0 .. Rounds
    BY <1>2, <1>12, MastersAssumption
  <2>2. CASE family # "pylontech_rs485"
    <3>1. Good("read", block, b, rest, air, Collected(b), rounds + 1, missed)
      BY <1>2, <1>6, <1>8, <1>9, <1>10, <2>1, <2>2 DEF Good
    <3>2. QED
      BY <1>1, <1>12, <2>2, <3>1 DEF StillGood, kept
  <2>3. CASE family = "pylontech_rs485"
    <3>1. Stream(<<>>, rest, air) /\ <<>> \in Seq(D)
      BY <1>9, StreamForget
    <3>2. Headed("read", block, <<>>, Collected(b))
      BY <2>3 DEF Headed
    <3>3. Good("read", block, <<>>, rest, air, Collected(b), rounds + 1, missed)
      BY <1>2, <1>6, <1>10, <2>1, <3>1, <3>2 DEF Good
    <3>4. QED
      BY <1>1, <1>12, <2>3, <3>3 DEF StillGood, kept
  <2>4. QED
    BY <2>2, <2>3
<1>13. CASE Miss(rest)
  <2>1. rest \in Seq(Due(call, block, missed)) /\ call # "idle"
    BY <1>1, <1>6
  <2>2. QED
    BY <1>9, <1>13, <2>1, MissGood
<1>14. CASE /\ "accept" \in outcomes
            /\ got' = Decoded(b)
            /\ Proceed(rest)
            /\ missed' = missed
  <2>1. "accept" \in Outcomes(buf \o h, Collected(buf \o h)) /\ buf \o h \in Seq(D) /\ b = buf \o h
    BY <1>8, <1>14 DEF outcomes, b
  <2>2. /\ Sound(Decoded(b), missed)
        /\ family = "sok_ee" => DOMAIN Decoded(b) \subseteq UNION {Asks[i] : i \in 1 .. block}
        /\ \E i \in 1 .. Len(b) : Last(b[i])
    BY <1>1, <1>2, <1>5, <1>6, <1>7, <2>1, DecodedGood
  <2>3. PICK i \in 1 .. Len(b) : Last(b[i])
    BY <2>2
  <2>4. rest \in Seq(Due("idle", block, missed)) /\ air \in Seq(Due("idle", block, missed))
    BY <1>2, <1>6, <1>8, <1>9, <2>3, LaterOnly
  <2>5. QED
    BY <1>1, <1>2, <1>9, <1>14, <2>2, <2>4, ProceedGood DEF StillGood
<1>15. QED
  BY <1>11, <1>12, <1>13, <1>14

(* Nothing came: the read waits on, or the request is missed.              *)
LEMMA SilenceGood ==
    ASSUME Inv, Silence
    PROVE  StillGood
<1>1. call = "read" /\ line = <<>>
  BY DEF Silence
<1>2. CASE /\ rounds + 1 < Rounds /\ rounds' = rounds + 1
           /\ UNCHANGED <<air, line, call, block, buf, got, missed>>
  <2>1. rounds + 1 \in 0 .. Rounds
    BY <1>2, MastersAssumption DEF Inv, Good
  <2>2. Good(call, block, buf, line, air, got, rounds + 1, missed)
    BY <2>1 DEF Inv, Good
  <2>3. QED
    BY <1>2, <2>2 DEF StillGood
<1>3. CASE Miss(<<>>)
  <2>1. Stream(buf, <<>>, air) /\ call # "idle"
    BY <1>1 DEF Inv, Good
  <2>2. <<>> \in Seq(Due(call, block, missed))
    OBVIOUS
  <2>3. QED
    BY <1>3, <2>1, <2>2, MissGood
<1>4. QED
  BY <1>2, <1>3 DEF Silence

(* A switch reads one frame, or none.                                      *)
LEMMA DrainGood ==
    ASSUME Inv, Drain \/ DrainNothing
    PROVE  StillGood
<1> DEFINE D == Due("switch", block, missed)
<1>1. call = "switch"
  BY DEF Drain, DrainNothing
<1>2. /\ Known /\ missed \in Nat /\ block \in 1 .. Len(Asks) /\ Sound(got, missed)
      /\ line \in Seq(D) /\ air \in Seq(D) /\ buf = <<>> /\ Stream(buf, line, air)
      /\ Switches
  BY <1>1 DEF Inv, Good
<1>3. CASE Drain
  <2>1. /\ line # <<>> /\ line' = Tail(line) /\ Return /\ air' = air
        /\ got' = got /\ missed' = missed
    BY <1>3 DEF Drain
  <2> DEFINE first == SubSeq(line, 1, 1)
             rest == SubSeq(line, 2, Len(line))
             b == buf \o first
  <2>2. line \in Seq(Parts) /\ air \in Seq(Parts) /\ <<>> \in Seq(Parts) /\ <<>> \in Seq(D)
    BY <1>2, DueParts
  <2>3. 1 \in 1 .. Len(line) /\ 1 \in 0 .. Len(line)
    <3>1. Len(line) \in Nat /\ Len(line) >= 1
      BY <2>1, <2>2
    <3>2. QED
      BY <3>1
  <2>4. /\ first \in Seq(D) /\ rest \in Seq(D) /\ Len(first) = 1 /\ first[1] = line[1]
        /\ line[1] \in D
    <3> HIDE DEF D
    <3>1. QED
      BY <1>2, <2>3, RestOf
  <2>5. Stream(b, rest, air)
    <3>1. Stream(b, SubSeq(line, 1 + 1, Len(line)), air)
      BY <1>2, <2>2, <2>3, StreamTake
    <3>2. QED
      BY <3>1
  <2>6. line' = rest
    <3>1. Tail(line) = SubSeq(line, 2, Len(line))
      BY <2>1, <2>2
    <3>2. QED
      BY <2>1, <3>1
  <2>7. b \in Seq(D) /\ b = first
    <3> HIDE DEF D, first
    <3>1. <<>> \o first = first
      BY <2>4
    <3>2. QED
      BY <1>2, <2>4, <3>1
  <2> HIDE DEF first, rest, b
  <2>8. CASE missed = 0
    <3>1. Last(b[1]) /\ 1 \in 1 .. Len(b)
      <4> HIDE DEF D
      <4>1. b[1] \in D /\ 1 \in 1 .. Len(b)
        <5>1. Len(b) = 1 /\ b[1] = line[1]
          BY <2>4, <2>7
        <5>2. QED
          BY <2>4, <5>1
      <4>2. Sent(b[1]) /\ b[1].kind = "echo"
        BY <2>8, <4>1 DEF D, Due
      <4>3. QED
        BY <1>2, <4>1, <4>2 DEF Sent, Last, Switches
    <3>2. rest \in Seq(Due("idle", block, missed)) /\ air \in Seq(Due("idle", block, missed))
      BY <1>2, <2>4, <2>5, <2>7, <3>1, LaterOnly
    <3>3. QED
      BY <1>2, <2>1, <2>5, <2>6, <3>2, IdleGood, FirstBlock DEF StillGood, Return
  <2>9. CASE missed # 0
    <3>1. D \subseteq Due("idle", block, missed)
      BY <1>2, <2>9 DEF Due, Timely
    <3>2. rest \in Seq(Due("idle", block, missed)) /\ air \in Seq(Due("idle", block, missed))
      BY <1>2, <2>4, <3>1
    <3>3. QED
      BY <1>2, <2>1, <2>5, <2>6, <3>2, IdleGood, FirstBlock DEF StillGood, Return
  <2>10. QED
    BY <2>8, <2>9
<1>4. CASE DrainNothing
  <2>1. Miss(<<>>) /\ line = <<>>
    BY <1>4 DEF DrainNothing
  <2>2. Stream(buf, <<>>, air) /\ call # "idle"
    BY <1>1, <1>2, <2>1
  <2>3. <<>> \in Seq(Due(call, block, missed))
    OBVIOUS
  <2>4. QED
    BY <2>1, <2>2, <2>3, MissGood
<1>5. QED
  BY <1>3, <1>4

(* The caller gives up, or lets go of the client.                          *)
LEMMA EndGood ==
    ASSUME Inv, GivenUp \/ Disconnect
    PROVE  StillGood
<1>1. /\ Known /\ missed \in Nat /\ block \in 1 .. Len(Asks) /\ rounds \in 0 .. Rounds
      /\ line \in Seq(Due(call, block, missed)) /\ air \in Seq(Due(call, block, missed))
      /\ Stream(buf, line, air)
  BY DEF Inv, Good
<1>2. CASE GivenUp
  <2>1. /\ missed' = missed + 1 /\ missed' \in Nat /\ Return /\ got' = NoBlocks
        /\ line' = line /\ air' = air
    BY <1>1, <1>2 DEF GivenUp
  <2>2. line \in Seq(Due("idle", block, missed')) /\ air \in Seq(Due("idle", block, missed'))
    BY <1>1, <2>1, MissedDue
  <2>3. QED
    BY <1>1, <2>1, <2>2, NothingSound, IdleGood, FirstBlock DEF StillGood, Return
<1>3. CASE Disconnect
  <2>1. /\ call = "idle" /\ line' = <<>> /\ got' = NoBlocks
        /\ call' = call /\ block' = block /\ buf' = buf /\ rounds' = rounds
        /\ \/ air' = <<>> /\ missed' = 0
           \/ air' = air /\ missed' = missed
    BY <1>3 DEF Disconnect
  <2>2. buf = <<>>
    BY <2>1 DEF Inv, Good
  <2>3. Stream(buf, <<>>, air) /\ Stream(buf, <<>>, <<>>)
    <3>1. Stream(<<>>, <<>>, air)
      BY <1>1, StreamForget
    <3>2. QED
      BY <2>2, <3>1, StreamEmpty
  <2>4. air' \in Seq(Due("idle", block, missed')) /\ missed' \in Nat
        /\ <<>> \in Seq(Due("idle", block, missed'))
    <3>1. \A m : <<>> \in Seq(Due("idle", block, m))
      OBVIOUS
    <3>2. missed' \in Nat
      BY <1>1, <2>1
    <3>3. CASE air' = <<>>
      BY <3>1, <3>2, <3>3
    <3>4. CASE air' = air /\ missed' = missed
      BY <1>1, <2>1, <3>1, <3>2, <3>4
    <3>5. QED
      BY <2>1, <3>3, <3>4
  <2>5. Stream(buf, <<>>, air')
    BY <2>1, <2>3
  <2>6. Good("idle", block, <<>>, <<>>, air', NoBlocks, rounds, missed')
    BY <1>1, <2>4, <2>5, NothingSound, IdleGood
  <2>7. QED
    BY <2>1, <2>2, <2>6 DEF StillGood
<1>4. QED
  BY <1>2, <1>3

-----------------------------------------------------------------------------
(* The invariant of the clients.                                           *)

LEMMA ListenGood ==
    ASSUME Inv, Listen
    PROVE  StillGood
  BY ReceiveGood, SilenceGood, DrainGood DEF Listen

(* The family of a client never changes, and what the invariant says of a  *)
(* state depends on nothing else.                                          *)
LEMMA SameFamily ==
    ASSUME family' = family, StillGood
    PROVE  Good(call, block, buf, line, air, got, rounds, missed)'
<1>1. Asks' = Asks
  BY DEF Asks
<1>2. Kinds' = Kinds
  BY <1>1 DEF Kinds
<1>3. Parts' = Parts /\ (Switches' <=> Switches)
  BY <1>2 DEF Parts, Switches
<1>4. Stream(buf, line, air)' <=> Stream(buf', line', air')
  BY DEF Stream, Sorted, Ahead, Before, Last
<1>5. Due(call, block, missed)' = Due(call', block', missed')
  BY <1>1, <1>2, <1>3 DEF Due, Sent, Timely
<1>6. Sound(got, missed)' <=> Sound(got', missed')
  BY <1>2, <1>3 DEF Sound, Timely
<1>7. Headed(call, block, buf, got)' <=> Headed(call', block', buf', got')
  BY <1>1 DEF Headed
<1>8. QED
  BY <1>1, <1>3, <1>4, <1>5, <1>6, <1>7 DEF Good, StillGood

LEMMA LinkSteps ==
    ASSUME Known, UNCHANGED linkVars \/ Close \/ PeerLost \/ StartOpen \/ FoundTarget
                         \/ RadioUp \/ Connected \/ Opened \/ OpenGivenUp \/ OpenPort
    PROVE  Known' /\ family' = family
<1> USE DEF Known, LinkTypeOK, Stages, Ble
<1>1. CASE UNCHANGED linkVars
  BY <1>1 DEF linkVars
<1>2. CASE Close \/ PeerLost
  <2>1. radio' \in {FALSE, radio} /\ family' = family /\ stage' \in {stage, "closed"}
    BY <1>2 DEF Close, PeerLost
  <2>2. CASE radio' = FALSE
    BY <2>1, <2>2
  <2>3. CASE radio' = radio
    BY <2>1, <2>3
  <2>4. QED
    BY <2>1, <2>2, <2>3
<1>3. CASE StartOpen \/ FoundTarget \/ Connected \/ Opened \/ OpenGivenUp \/ OpenPort
  BY <1>3 DEF StartOpen, FoundTarget, Connected, Opened, OpenGivenUp, OpenPort
<1>4. CASE RadioUp
  BY <1>4 DEF RadioUp
<1>5. QED
  BY <1>1, <1>2, <1>3, <1>4

LEMMA InvInit == Init => Inv
<1> SUFFICES ASSUME Init
             PROVE  Inv
  OBVIOUS
<1>1. /\ LinkInit /\ air = <<>> /\ line = <<>> /\ call = "idle" /\ block = 1 /\ buf = <<>>
      /\ rounds = 0 /\ got = NoBlocks /\ missed = 0
  BY DEF Init, MastersInit
<1>2. Known
  BY <1>1 DEF LinkInit, Known, LinkTypeOK, Stages, Ble
<1>3. <<>> \in Seq(Due("idle", 1, 0))
  OBVIOUS
<1>4. Good("idle", 1, <<>>, <<>>, <<>>, NoBlocks, 0, 0)
  BY <1>2, <1>3, FirstBlock, NothingSound, StreamEmpty, IdleGood
<1>5. QED
  BY <1>1, <1>2, <1>4 DEF Inv

LEMMA InvStep == Inv /\ [Next]_vars => Inv'
<1> SUFFICES ASSUME Inv, [Next]_vars
             PROVE  Inv'
  OBVIOUS
<1>1. CASE CallStatus
  <2>1. BeginRead /\ UNCHANGED linkVars
    BY <1>1 DEF CallStatus, BeginRead
  <2>2. QED
    BY <2>1, BeginReadGood, LinkSteps, SameFamily DEF Inv
<1>2. CASE Execute
  <2>1. BeginSwitch /\ UNCHANGED linkVars
    BY <1>2 DEF Execute, BeginSwitch
  <2>2. QED
    BY <2>1, BeginSwitchGood, LinkSteps, SameFamily DEF Inv
<1>3. CASE Answered
  <2>1. Listen /\ UNCHANGED linkVars
    BY <1>3 DEF Answered, Listen, Receive, Silence, Drain, DrainNothing
  <2>2. QED
    BY <2>1, ListenGood, LinkSteps, SameFamily DEF Inv
<1>4. CASE Connect
  <2>1. UNCHANGED clientVars /\ air' = air /\ line' = line
    BY <1>4 DEF Connect, Opening
  <2>2. StartOpen \/ FoundTarget \/ RadioUp \/ Connected \/ Opened \/ OpenGivenUp \/ OpenPort
    BY <1>4 DEF Connect, Opening
  <2>3. QED
    BY <2>1, <2>2, AirGood, LinkSteps, SameFamily DEF Inv
<1>5. CASE DropAdapter
  <2>1. Disconnect /\ Close
    BY <1>5 DEF DropAdapter, Disconnect
  <2>2. QED
    BY <2>1, EndGood, LinkSteps, SameFamily DEF Inv
<1>6. CASE Around
  <2>1. CASE Arrive \/ Lose \/ Garble
    <3>1. UNCHANGED linkVars /\ UNCHANGED clientVars
      BY <2>1 DEF Arrive, Lose, Garble
    <3>2. QED
      BY <2>1, <3>1, AirGood, LinkSteps, SameFamily DEF Inv
  <2>2. CASE GivenUp
    <3>1. UNCHANGED linkVars
      BY <2>2 DEF GivenUp
    <3>2. QED
      BY <2>2, <3>1, EndGood, LinkSteps, SameFamily DEF Inv
  <2>3. CASE BatteryLost
    <3>1. PeerLost /\ air' = <<>> /\ line' = line /\ UNCHANGED clientVars
      BY <2>3 DEF BatteryLost
    <3>2. QED
      BY <3>1, AirGood, LinkSteps, SameFamily DEF Inv
  <2>4. QED
    BY <1>6, <2>1, <2>2, <2>3 DEF Around
<1>7. CASE UNCHANGED vars
  <2>1. UNCHANGED clientVars /\ air' = air /\ line' = line /\ UNCHANGED linkVars
    BY <1>7 DEF vars, mastersVars
  <2>2. QED
    BY <2>1, AirGood, LinkSteps, SameFamily DEF Inv
<1>8. QED
  BY <1>1, <1>2, <1>3, <1>4, <1>5, <1>6, <1>7 DEF Next

LEMMA Invariant == Spec => []Inv
  BY InvInit, InvStep, PTL DEF Spec

LEMMA InvTypes == Inv => TypeOK
<1> SUFFICES ASSUME Inv
             PROVE  TypeOK
  OBVIOUS
<1>1. /\ LinkTypeOK /\ call \in {"idle", "read", "switch"} /\ block \in 1 .. Len(Asks)
      /\ rounds \in 0 .. Rounds /\ missed \in Nat
  BY DEF Inv, Good, Known
<1>2. air \in Seq(Parts) /\ line \in Seq(Parts) /\ buf \in Seq(Parts)
  BY DueParts DEF Inv, Good
<1>3. DOMAIN got \subseteq Kinds /\ \A k \in DOMAIN got : got[k] \in Parts
  BY DEF Inv, Good, Sound
<1>4. QED
  BY <1>1, <1>2, <1>3 DEF TypeOK

(* Everything a client keeps has its type.                                 *)
THEOREM MastersTypeCorrect == Spec => []TypeOK
  BY Invariant, InvTypes, PTL

(* However many calls are given up, and however late, lost in part or      *)
(* refused their answers are, no block of a snapshot is decoded from an    *)
(* answer older than the requests missed.                                  *)
THEOREM LagAlwaysBounded == Spec => []LagBounded
<1>1. Inv => LagBounded
  BY DEF Inv, Good, Sound, LagBounded, Timely
<1>2. QED
  BY <1>1, Invariant, PTL

(* A client whose answers tell their kind, or that asks for one block      *)
(* only, never decodes an answer as another block.                         *)
THEOREM KindsAlwaysKept == Spec => []KindsKept
<1>1. Inv => KindsKept
  BY DEF Inv, Good, Sound, KindsKept
<1>2. QED
  BY <1>1, Invariant, PTL

-----------------------------------------------------------------------------
(* The name.                                                               *)

(* A name taken with nothing missed is that of its block.                  *)
ModelInv ==
    model.clean /\ model.from \in Kinds => model.part.kind = model.from /\ model.part.age = 0

(* A name that is not read off a block is none of theirs.                  *)
LEMMA NoBlockNames ==
    ASSUME family \in BleFamilies \cup SerialFamilies
    PROVE  "nowhere" \notin Kinds /\ "advertised" \notin Kinds
<1>1. \A i \in DOMAIN Asks : "nowhere" \notin Asks[i] /\ "advertised" \notin Asks[i]
  BY DEF BleFamilies, SerialFamilies, Asks, Renogy, Seplos, Pace, Bluetti, SokAbc, SokEe,
         Jackery, PylontechRs485
<1>2. QED
  BY <1>1 DEF Kinds

(* The block that names a battery is never an optional one.                *)
LEMMA NamedByMandatory ==
    ASSUME family \in BleFamilies \cup SerialFamilies, NEW i \in DOMAIN Names,
           Names[i] \in Kinds
    PROVE  Names[i] \in Mandatory
<1>1. CASE family = "bluetti"
  <2>1. Asks = <<{"core"}, {"battery"}>> /\ Names = <<"core", "name">>
    BY <1>1 DEF Asks, Bluetti, Names, BluettiNames
  <2>2. DOMAIN Asks = {1, 2} /\ Asks[1] = {"core"} /\ Asks[2] = {"battery"}
        /\ DOMAIN Names = {1, 2} /\ Names[1] = "core" /\ Names[2] = "name"
    BY <2>1
  <2>3. Kinds = {"core", "battery"}
    BY <2>2 DEF Kinds
  <2>4. Names[i] = "core"
    BY <2>2, <2>3
  <2>5. 1 \in DOMAIN Asks \ Optional
    BY <1>1, <2>2 DEF Optional
  <2>6. QED
    BY <2>2, <2>4, <2>5 DEF Mandatory
<1>2. CASE family # "bluetti"
  <2>1. Optional = {}
    BY <1>2 DEF Optional
  <2>2. QED
    BY <2>1 DEF Mandatory, Kinds
<1>3. QED
  BY <1>1, <1>2

(* With nothing missed every block is decoded from its own answer.         *)
LEMMA SoundOwn ==
    ASSUME NEW g, Sound(g, 0)
    PROVE  \A k \in DOMAIN g : g[k].kind = k /\ g[k].age = 0
  BY DEF Sound, Timely, Parts

LEMMA RefreshKeeps ==
    ASSUME Inv, ModelInv, Refresh, StillGood
    PROVE  model'.clean /\ model'.from \in Kinds
             => model'.part.kind = model'.from /\ model'.part.age = 0
<1>1. CASE model' = model
  BY <1>1 DEF ModelInv
<1>2. CASE model' # model
  <2>1. StatusReturned /\ \E known : Named(known)
    BY <1>2 DEF Refresh
  <2>2. PICK i \in DOMAIN Names :
           model' = IF Names[i] \in Kinds
                      THEN [from |-> Names[i], part |-> got'[Names[i]], clean |-> missed' = 0]
                      ELSE [Nameless EXCEPT !.from = Names[i]]
    BY <1>2, <2>1 DEF Named
  <2>3. CASE Names[i] \in Kinds
    <3>1. /\ model'.from = Names[i] /\ model'.part = got'[Names[i]]
          /\ model'.clean <=> missed' = 0
      BY <2>2, <2>3
    <3>2. Names[i] \in DOMAIN got'
      <4>1. Mandatory \subseteq DOMAIN got'
        BY <2>1 DEF StatusReturned, Whole
      <4>2. QED
        BY <2>3, <4>1, KnownFamily, NamedByMandatory DEF Inv
    <3>3. Sound(got', missed')
      BY DEF StillGood, Good
    <3>4. QED
      BY <3>1, <3>2, <3>3, SoundOwn
  <2>4. CASE Names[i] \notin Kinds
    <3>1. model'.from = Names[i]
      BY <2>2, <2>4 DEF Nameless
    <3>2. QED
      BY <2>4, <3>1
  <2>5. QED
    BY <2>3, <2>4
<1>3. QED
  BY <1>1, <1>2

LEMMA ModelStep == Inv /\ ModelInv /\ [Next]_vars => ModelInv'
<1> SUFFICES ASSUME Inv, ModelInv, [Next]_vars
             PROVE  ModelInv'
  OBVIOUS
<1>1. Kinds' = Kinds
  <2>1. family' = family
    BY DEF Next, vars, mastersVars, linkVars, CallStatus, BeginRead, Execute, BeginSwitch,
           Answered, Listen, Receive, Silence, Drain, DrainNothing, Connect, Opening,
           StartOpen, FoundTarget, RadioUp, Connected, Opened, OpenGivenUp, OpenPort,
           DropAdapter, Disconnect, Close, Around, Arrive, Lose, Garble, GivenUp, BatteryLost, PeerLost
  <2>2. QED
    BY <2>1 DEF Kinds, Asks
<1>2. CASE model' = model
  BY <1>1, <1>2 DEF ModelInv
<1>3. CASE model' = Nameless \/ model' = Wrapped
  <2>1. model'.from \in {"nowhere", "advertised"}
    BY <1>3 DEF Nameless, Wrapped
  <2>2. QED
    BY <1>1, <2>1, KnownFamily, NoBlockNames DEF ModelInv, Inv
<1>4. CASE Answered
  <2>1. StillGood /\ Refresh
    BY <1>4, ListenGood DEF Answered
  <2>2. QED
    BY <1>1, <2>1, RefreshKeeps DEF ModelInv
<1>5. QED
  BY <1>2, <1>3, <1>4 DEF Next, vars, CallStatus, Execute, Connect, DropAdapter, Around

LEMMA OwnNow == Inv /\ ModelInv => StatusOwn
<1> SUFFICES ASSUME Inv, ModelInv
             PROVE  StatusOwn
  OBVIOUS
<1>1. ASSUME missed = 0, NEW flow \in Flows, NEW split \in BOOLEAN,
             NEW r \in DOMAIN Status(flow, split)
      PROVE  Own(Status(flow, split)[r])
  <2> DEFINE blocks == BlocksOf(Shows(flow, split)[r])
  <2>1. blocks \subseteq DOMAIN got /\ Status(flow, split)[r] = Restrict(got, blocks)
    BY <1>1 DEF Status
  <2> HIDE DEF blocks
  <2>2. Sound(got, 0)
    BY <1>1 DEF Inv, Good
  <2>3. QED
    BY <2>1, <2>2, SoundOwn DEF Own, Restrict
<1>2. model.clean /\ model.from \in Kinds => Own([k \in {model.from} |-> model.part])
  BY DEF ModelInv, Own
<1>3. QED
  BY <1>1, <1>2 DEF StatusOwn

(* As long as every request got an answer that was accepted, every reading *)
(* of a status comes from the answers to the requests of that very call,   *)
(* each block from its own; and a name taken then is that of the battery.  *)
THEOREM StatusAlwaysOwn == Spec => []StatusOwn
<1>1. Init => ModelInv
  <2>1. Init => model.from = "nowhere" /\ family \in BleFamilies \cup SerialFamilies
    BY DEF Init, Nameless, MastersInit, LinkInit
  <2>2. QED
    BY <2>1, NoBlockNames DEF ModelInv
<1>2. QED
  BY <1>1, Invariant, ModelStep, OwnNow, PTL DEF Spec

=============================================================================
