---------------------------- MODULE OpeningProofs ----------------------------
(***************************************************************************)
(* Proofs about opening a battery: which entry a discovery lists and a     *)
(* query opens, and that the credential a battery is opened with is kept.  *)
(*                                                                         *)
(* The list a discovery returns is that of its scans and of the ports, put *)
(* together once and not changed again (Settled).  The first entry of an   *)
(* id is in it (FirstKept), and no two devices have an id in common, so a  *)
(* device is listed for every scan that took it.  A port that did not      *)
(* answer at its own probe is known to be silent (Probed).                 *)
(*                                                                         *)
(* For credentials, Kept says nothing while the file is rewritten, so it   *)
(* needs to be known what a thread will leave there: the map of its        *)
(* program, which nobody changes while the thread is at work (OneWriter),  *)
(* with what it saves in it (TextIsMap).  A program that has not read      *)
(* the file has no thread at work (Working), so reading it does not change *)
(* a map under one.                                                        *)
(***************************************************************************)
EXTENDS Discovery, Credentials, FiniteSetTheorems, WellFoundedInduction, TLAPS

Own(p) == <<Family[p], Baud[p]>>
WiredEntry(p) == Entry(Family[p], p, Label[p])

(* The list is put together once, of all the scans and ports.              *)
Settled == stage # "discover" => ~Scanning /\ ports = <<>> /\ list = Merge

(* A port whose own probe is made is to be probed yet, silent, or listed;  *)
(* the first is silent once its own probe has gone by.                     *)
Probed ==
    /\ attempt \in Nat \ {0}
    /\ attempt = 1 \/ attempt <= Len(Probes)
    /\ ports \in Seq(Ports)
    /\ \A p \in Ports : Own(p) \in ToSet(Probes) =>
           p \in ToSet(ports) \cup silent \/ WiredEntry(p) \in wired
    /\ ports # <<>> => \A i \in 1 .. attempt - 1 :
           Probes[i] = Own(Head(ports)) => Head(ports) \in silent

WiredOnly == wired \subseteq {WiredEntry(p) : p \in Ports}

(* What is opened is the only match of the query.                          *)
Picked ==
    stage \in {"connect", "opened"} => chosen = Match(query) /\ \E e \in chosen : chosen = {e}

DiscoveryInv == Settled /\ Probed /\ WiredOnly /\ Picked

-----------------------------------------------------------------------------
(* The order of the backends, and the ids.                                 *)

LEMMA ChainRank ==
    ASSUME NEW i \in DOMAIN Chain
    PROVE  Rank(Chain[i]) = i
<1>1. i \in 1 .. 8 /\ Len(Order) = 8
  BY DEF Chain, Order
<1>2. \A j \in 1 .. 8 : Order[j] = Order[i] => j = i
  BY <1>1 DEF Order
<1>3. QED
  BY <1>1, <1>2 DEF Rank, Chain

LEMMA InChain ==
    ASSUME NEW b \in Features
    PROVE  Rank(b) \in DOMAIN Chain /\ Chain[Rank(b)] = b
<1>1. PICK i \in DOMAIN Order : Order[i] = b
  BY FeaturesAssumption DEF ToSet
<1>2. QED
  BY <1>1, ChainRank DEF Chain

LEMMA IdIsOwn == \A b, d : IdBy(b, d) \in IdsOf(d)
  BY DEF IdBy, IdsOf

LEMMA EntryOfScan ==
    ASSUME NEW b, NEW e \in Entries(b)
    PROVE  /\ e.device \in Mine(b) /\ e.device \in Radios /\ b \in Features
           /\ e.backend = b
           /\ e.id = IdBy(b, e.device)
  BY DEF Entries, Entry, Mine

LEMMA EntryOfPort ==
    ASSUME WiredOnly, NEW e \in wired
    PROVE  /\ e.device \in Ports
           /\ e.backend = Family[e.device]
           /\ e.id = IdBy(e.backend, e.device)
           /\ e = WiredEntry(e.device)
  BY DEF WiredOnly, WiredEntry, Entry

(* Who has an id of another is the other.                                  *)
LEMMA SameDevice ==
    ASSUME NEW b, NEW c, NEW d \in Devices, NEW e \in Devices, IdBy(b, d) = IdBy(c, e)
    PROVE  d = e
<1>1. IdBy(b, d) \in IdsOf(d) \cap IdsOf(e)
  BY IdIsOwn
<1>2. QED
  BY <1>1, DeviceAssumption

(* Of the entries of an id, the first scan's is in the list.               *)
LEMMA FirstKept ==
    ASSUME NEW i \in DOMAIN Chain, NEW e \in Entries(Chain[i])
    PROVE  \E j \in 1 .. i : \E f \in Entries(Chain[j]) : f.id = e.id /\ f \in Merge
<1> DEFINE T == {j \in 1 .. i : \E f \in Entries(Chain[j]) : f.id = e.id}
<1>1. i \in 1 .. 8 /\ DOMAIN Chain = 1 .. 8
  BY DEF Chain, Order
<1>2. T \in SUBSET Nat /\ i \in T
  BY <1>1
<1>3. PICK j \in T : \A k \in T : ~ (<<k, j>> \in OpToRel(<, Nat))
  <2> HIDE DEF T
  <2>1. QED
    BY <1>2, NatLessThanWellFounded, WFMin
<1>4. ASSUME NEW k \in T PROVE ~(k < j)
  BY <1>2, <1>3 DEF OpToRel
<1>5. PICK f \in Entries(Chain[j]) : f.id = e.id
  OBVIOUS
<1>6. ASSUME NEW g \in Before(j) PROVE g.id # f.id
  <2>1. PICK k \in 1 .. j - 1 : g \in Entries(Chain[k])
    BY DEF Before
  <2>2. k \in 1 .. i /\ k < j
    BY <1>1, <1>2
  <2>3. QED
    BY <1>4, <1>5, <2>1, <2>2
<1>7. f \in Merge
  <2>1. j \in DOMAIN Chain
    BY <1>1
  <2>2. Unlisted(Before(j), f)
    BY <1>6 DEF Unlisted
  <2>3. QED
    BY <1>5, <2>1, <2>2 DEF Merge
<1>8. QED
  BY <1>5, <1>7

(* Where an entry of the list is from.                                     *)
LEMMA Listed ==
    ASSUME NEW e \in Merge
    PROVE  \/ \E i \in DOMAIN Chain : e \in Entries(Chain[i]) /\ Unlisted(Before(i), e)
           \/ e \in wired
  BY DEF Merge

LEMMA MineListed ==
    ASSUME NEW b \in Features, NEW d \in Mine(b)
    PROVE  \E e \in Merge :
              e.device = d /\ Rank(e.backend) <= Rank(b) /\ d \in Mine(e.backend)
<1> DEFINE e == Entry(b, d, LabelBy(b, d))
           i == Rank(b)
<1>1. i \in DOMAIN Chain /\ Chain[i] = b
  BY InChain
<1>2. e \in Entries(Chain[i]) /\ e.id = IdBy(b, d) /\ d \in Devices
  BY <1>1 DEF Entries, Entry, Mine, Devices
<1> HIDE DEF e, i
<1>3. PICK j \in 1 .. i : \E f \in Entries(Chain[j]) : f.id = e.id /\ f \in Merge
  BY <1>1, <1>2, FirstKept
<1>4. PICK f \in Entries(Chain[j]) : f.id = e.id /\ f \in Merge
  BY <1>3
<1>5. j \in DOMAIN Chain /\ j <= i
  BY <1>1 DEF Chain, Order
<1>6. /\ f.device \in Mine(Chain[j]) /\ f.device \in Devices
      /\ f.backend = Chain[j] /\ Chain[j] \in Features
      /\ f.id = IdBy(Chain[j], f.device)
  BY EntryOfScan DEF Devices
<1>7. f.device = d
  BY <1>2, <1>4, <1>6, SameDevice
<1>8. Rank(f.backend) <= Rank(b)
  BY <1>5, <1>6, ChainRank DEF i
<1>9. QED
  BY <1>4, <1>6, <1>7, <1>8

-----------------------------------------------------------------------------
(* The probes of the ports.                                                *)

LEMMA ProbeAt ==
    ASSUME NEW R, NEW b, NEW r, <<b, r>> \in R
    PROVE  At(b, r) \in Seq(R)
<1>1. << <<b, r>> >> \in Seq(R) /\ <<>> \in Seq(R)
  OBVIOUS
<1>2. QED
  BY <1>1 DEF At

LEMMA ProbeAtEvery ==
    ASSUME NEW R, NEW b, \A r \in Nat : <<b, r>> \in R
    PROVE  AtEvery(b) \in Seq(R)
<1> DEFINE n == Len(SerialBauds)
           s == [i \in 1 .. n |-> <<b, SerialBauds[i]>>]
<1>1. n \in Nat /\ \A i \in 1 .. n : SerialBauds[i] \in Nat
  BY DeviceAssumption
<1>2. \A i \in 1 .. n : <<b, SerialBauds[i]>> \in R
  BY <1>1
<1>3. s \in [1 .. n -> R]
  BY <1>2, Zenon
<1>4. <<>> \in Seq(R)
  OBVIOUS
<1> HIDE DEF s
<1>5. s \in Seq(R)
  BY <1>1, <1>3
<1>6. QED
  BY <1>4, <1>5 DEF AtEvery, s

LEMMA ProbesAreSeq == \E R : Probes \in Seq(R)
<1> DEFINE R == {"jk", "jbd", "daly", "pylontech-rs485", "seplos", "pace", "vedirect"} \X Nat
<1>1. /\ <<"daly", 9600>> \in R /\ <<"pylontech-rs485", 115200>> \in R
      /\ <<"seplos", 19200>> \in R /\ <<"pace", 9600>> \in R /\ <<"vedirect", 19200>> \in R
  OBVIOUS
<1> HIDE DEF R
<1>2. /\ At("daly", 9600) \in Seq(R) /\ At("pylontech-rs485", 115200) \in Seq(R)
      /\ At("seplos", 19200) \in Seq(R) /\ At("pace", 9600) \in Seq(R)
      /\ At("vedirect", 19200) \in Seq(R)
  BY <1>1, ProbeAt
<1>3. AtEvery("jk") \in Seq(R) /\ AtEvery("jbd") \in Seq(R)
  <2>1. ASSUME NEW b \in {"jk", "jbd"} PROVE AtEvery(b) \in Seq(R)
    <3>1. \A r \in Nat : <<b, r>> \in R
      BY DEF R
    <3>2. QED
      BY <3>1, ProbeAtEvery
  <2>2. QED
    BY <2>1
<1>4. \A s, t \in Seq(R) : s \o t \in Seq(R)
  OBVIOUS
<1>5. AtEvery("jk") \o AtEvery("jbd") \o At("daly", 9600) \in Seq(R)
  BY <1>2, <1>3, <1>4
<1>6. QED
  BY <1>2, <1>4, <1>5 DEF Probes

(* Every port is in the row it is probed in.                               *)
LEMMA AllInRow ==
    ASSUME NEW s \in SetToSeqs(Ports)
    PROVE  s \in Seq(Ports) /\ ToSet(s) = Ports
<1> DEFINE n == Cardinality(Ports)
<1>1. n \in Nat /\ IsFiniteSet(Ports)
  BY DeviceAssumption, FS_CardinalityType
<1>2. s \in [1 .. n -> Ports] /\ \A i, j \in 1 .. n : i # j => s[i] # s[j]
  BY DEF SetToSeqs
<1>3. s \in Injection(1 .. n, Ports)
  BY <1>2 DEF Injection, IsInjective
<1>4. Cardinality(1 .. n) = Cardinality(Ports)
  BY <1>1, FS_Interval
<1>5. s \in Surjection(1 .. n, Ports)
  BY <1>1, <1>3, <1>4, FS_Injection
<1>6. \A p \in Ports : \E i \in 1 .. n : s[i] = p
  BY <1>5 DEF Surjection
<1>7. QED
  BY <1>1, <1>2, <1>6 DEF ToSet

-----------------------------------------------------------------------------
(* The invariant.                                                          *)

LEMMA DiscoveryInitInv == DiscoveryInit => DiscoveryInv
<1> SUFFICES ASSUME DiscoveryInit PROVE DiscoveryInv
  OBVIOUS
<1>1. Settled /\ WiredOnly /\ Picked
  BY DEF DiscoveryInit, Settled, WiredOnly, Picked
<1>2. ports \in Seq(Ports) /\ ToSet(ports) = Ports /\ attempt = 1
  BY AllInRow DEF DiscoveryInit
<1>3. Probed
  BY <1>2 DEF Probed
<1>4. QED
  BY <1>1, <1>3 DEF DiscoveryInv

LEMMA MergeKept ==
    ASSUME UNCHANGED <<scan, read, wired>>
    PROVE  Merge' = Merge
<1>1. \A b, d : LabelBy(b, d)' = LabelBy(b, d)
  BY DEF LabelBy
<1>2. \A b : Mine(b)' = Mine(b)
  BY DEF Mine
<1>3. \A b : Entries(b)' = Entries(b)
  BY <1>1, <1>2 DEF Entries
<1>4. \A n : Before(n)' = Before(n)
  BY <1>3 DEF Before
<1>5. QED
  BY <1>3, <1>4 DEF Merge, Unlisted

LEMMA SettledStep == Settled /\ [DiscoveryNext]_discoveryVars => Settled'
<1> SUFFICES ASSUME Settled, [DiscoveryNext]_discoveryVars PROVE Settled'
  OBVIOUS
<1>1. ASSUME UNCHANGED <<scan, read, wired, ports, list>>, stage # "discover" PROVE Settled'
  BY <1>1, MergeKept DEF Settled, Scanning
<1>2. ASSUME stage = "discover", stage' = stage PROVE Settled'
  BY <1>2 DEF Settled
<1>3. CASE UNCHANGED discoveryVars
  BY <1>1, <1>2, <1>3 DEF discoveryVars, radio, serial
<1>4. ASSUME Scanning, stage' = stage PROVE Settled'
  BY <1>2, <1>4 DEF Settled
<1>5. ASSUME NEW d \in Radios, Advertise(d) PROVE Settled'
  BY <1>4, <1>5 DEF Advertise
<1>6. ASSUME NEW b \in Features, NEW d \in Radios, Read(b, d) PROVE Settled'
  BY <1>4, <1>6 DEF Read, Scanning
<1>7. ASSUME NEW b \in Features, EndScan(b) PROVE Settled'
  BY <1>4, <1>7 DEF EndScan, Scanning
<1>8. ASSUME NEW b \in Features, FailScan(b) PROVE Settled'
  BY <1>4, <1>8 DEF FailScan, Scanning
<1>9. ASSUME ProbeAnswered \/ ProbeSilent PROVE Settled'
  BY <1>2, <1>9 DEF ProbeAnswered, ProbeSilent, Settled
<1>10. ASSUME Discover PROVE Settled'
  BY <1>10, MergeKept DEF Discover, Settled, Scanning, radio, serial
<1>11. ASSUME Resolve \/ Connect PROVE Settled'
  BY <1>1, <1>11 DEF Resolve, Connect, radio, serial
<1>12. QED
  BY <1>3, <1>5, <1>6, <1>7, <1>8, <1>9, <1>10, <1>11 DEF DiscoveryNext

LEMMA WiredOnlyStep ==
    WiredOnly /\ ports \in Seq(Ports) /\ [DiscoveryNext]_discoveryVars => WiredOnly'
<1> SUFFICES ASSUME WiredOnly, ports \in Seq(Ports), [DiscoveryNext]_discoveryVars
             PROVE  WiredOnly'
  OBVIOUS
<1>1. CASE wired' = wired
  BY <1>1 DEF WiredOnly
<1>2. CASE ProbeAnswered
  <2>1. Head(ports) \in Ports
    BY <1>2 DEF ProbeAnswered
  <2>2. QED
    BY <1>2, <2>1 DEF ProbeAnswered, WiredOnly, WiredEntry
<1>3. ProbeAnswered \/ wired' = wired
  BY DEF DiscoveryNext, discoveryVars, serial, Advertise, Read, EndScan, FailScan, ProbeSilent,
         Discover, Resolve, Connect
<1>4. QED
  BY <1>1, <1>2, <1>3

(* Passing over the first port, or to its next probe.                      *)
LEMMA ProbedStep == Probed /\ [DiscoveryNext]_discoveryVars => Probed'
<1> SUFFICES ASSUME Probed, [DiscoveryNext]_discoveryVars PROVE Probed'
  OBVIOUS
<1> DEFINE h == Head(ports)
<1>1. /\ attempt \in Nat \ {0}
      /\ attempt = 1 \/ attempt <= Len(Probes)
      /\ ports \in Seq(Ports)
      /\ Len(Probes) \in Nat /\ DOMAIN Probes = 1 .. Len(Probes)
  BY ProbesAreSeq DEF Probed
<1>2. ASSUME ports # <<>>
      PROVE  /\ h \in Ports /\ Tail(ports) \in Seq(Ports)
             /\ ToSet(ports) = {h} \cup ToSet(Tail(ports))
  <2>1. /\ h = ports[1] /\ h \in Ports /\ Tail(ports) \in Seq(Ports)
        /\ DOMAIN ports = 1 .. Len(ports) /\ 1 \in DOMAIN ports
        /\ DOMAIN Tail(ports) = 1 .. Len(ports) - 1 /\ Len(ports) \in Nat
        /\ \A i \in 1 .. Len(ports) - 1 : Tail(ports)[i] = ports[i + 1]
    BY <1>1, <1>2
  <2>2. \A i \in DOMAIN ports : i = 1 \/ (i - 1 \in DOMAIN Tail(ports) /\ i = i - 1 + 1)
    BY <2>1
  <2>3. \A i \in DOMAIN Tail(ports) : i + 1 \in DOMAIN ports
    BY <2>1
  <2>4. QED
    BY <2>1, <2>2, <2>3 DEF ToSet
<1>3. ASSUME UNCHANGED serial PROVE Probed'
  BY <1>3 DEF Probed, serial
<1>4. ASSUME ProbeAnswered PROVE Probed'
  <2>1. /\ ports # <<>> /\ attempt' = 1 /\ ports' = Tail(ports) /\ silent' = silent
        /\ wired' = wired \cup {WiredEntry(h)}
    BY <1>4 DEF ProbeAnswered, WiredEntry
  <2>2. QED
    BY <1>1, <1>2, <2>1 DEF Probed
<1>5. ASSUME ProbeSilent PROVE Probed'
  <2>1. /\ ports # <<>> /\ wired' = wired /\ silent \subseteq silent'
        /\ Probes[attempt] = Own(h) => h \in silent'
        /\ IF attempt < Len(Probes)
             THEN attempt' = attempt + 1 /\ ports' = ports
             ELSE attempt' = 1 /\ ports' = Tail(ports)
    BY <1>5 DEF ProbeSilent, Fits, Own
  <2>2. \A i \in 1 .. attempt : Probes[i] = Own(h) => h \in silent'
    <3>1. \A i \in 1 .. attempt : i = attempt \/ i \in 1 .. attempt - 1
      BY <1>1
    <3>2. QED
      BY <2>1, <3>1 DEF Probed
  <2>3. CASE attempt < Len(Probes)
    BY <1>1, <2>1, <2>2, <2>3 DEF Probed
  <2>4. CASE ~(attempt < Len(Probes))
    <3>1. Own(h) \in ToSet(Probes) => h \in silent'
      <4>1. 1 .. Len(Probes) \subseteq 1 .. attempt
        BY <1>1, <2>4
      <4>2. QED
        BY <1>1, <2>2, <4>1 DEF ToSet
    <3>2. attempt' = 1 /\ ports' = Tail(ports) /\ ports' \in Seq(Ports)
      BY <1>2, <2>1, <2>4
    <3>3. \A p \in Ports : Own(p) \in ToSet(Probes) =>
              p \in ToSet(ports') \cup silent' \/ WiredEntry(p) \in wired'
      BY <1>2, <2>1, <3>1, <3>2 DEF Probed
    <3>4. QED
      BY <3>2, <3>3 DEF Probed
  <2>5. QED
    BY <2>3, <2>4
<1>6. ProbeAnswered \/ ProbeSilent \/ UNCHANGED serial
  BY DEF DiscoveryNext, discoveryVars, Advertise, Read, EndScan, FailScan,
         Discover, Resolve, Connect
<1>7. QED
  BY <1>3, <1>4, <1>5, <1>6

LEMMA PickedStep == Picked /\ [DiscoveryNext]_discoveryVars => Picked'
<1> SUFFICES ASSUME Picked, [DiscoveryNext]_discoveryVars PROVE Picked'
  OBVIOUS
<1>1. \A q : list' = list => Match(q)' = Match(q)
  BY DEF Match, Exact, Begun, Called
<1>2. ASSUME UNCHANGED <<query, chosen, list>>, stage' = stage \/ Connect PROVE Picked'
  BY <1>1, <1>2 DEF Picked, Connect
<1>3. ASSUME Discover PROVE Picked'
  BY <1>3 DEF Picked, Discover
<1>4. ASSUME Resolve PROVE Picked'
  <2>1. list' = list /\ chosen' = Match(query')
    BY <1>4 DEF Resolve
  <2>2. chosen' = Match(query)'
    BY <2>1 DEF Match, Exact, Begun, Called
  <2>3. stage' \in {"connect", "opened"} => \E e \in chosen' : chosen' = {e}
    BY <1>4 DEF Resolve
  <2>4. QED
    BY <2>2, <2>3 DEF Picked
<1>5. \/ Discover \/ Resolve
      \/ UNCHANGED <<query, chosen, list>> /\ (stage' = stage \/ Connect)
  BY DEF DiscoveryNext, discoveryVars, Advertise, Read, EndScan, FailScan,
         ProbeAnswered, ProbeSilent, Connect
<1>6. QED
  BY <1>2, <1>3, <1>4, <1>5

LEMMA DiscoveryStep == DiscoveryInv /\ [DiscoveryNext]_discoveryVars => DiscoveryInv'
<1> SUFFICES ASSUME DiscoveryInv, [DiscoveryNext]_discoveryVars PROVE DiscoveryInv'
  OBVIOUS
<1>1. ports \in Seq(Ports)
  BY DEF DiscoveryInv, Probed
<1>2. QED
  BY <1>1, SettledStep, WiredOnlyStep, ProbedStep, PickedStep DEF DiscoveryInv

(* The list, the row of ports and the choice are what discover, probe and  *)
(* resolve of src/discovery.rs make them, for any devices and backends.    *)
THEOREM DiscoveryInvariant == DiscoverySpec => []DiscoveryInv
  BY DiscoveryInitInv, DiscoveryStep, PTL DEF DiscoverySpec

-----------------------------------------------------------------------------
(* What is claimed is listed, and what is chosen fits.                     *)

LEMMA ClaimedHolds == DiscoveryInv => Claimed
<1> SUFFICES ASSUME DiscoveryInv, stage # "discover", NEW b \in Features, NEW d \in Mine(b)
             PROVE  \E e \in list : e.device = d /\ Rank(e.backend) <= Rank(b)
  BY DEF Claimed
<1>1. list = Merge
  BY DEF DiscoveryInv, Settled
<1>2. QED
  BY <1>1, MineListed

(* A device that a scan took for its own is listed once all scans are over *)
(* (discover, 246-273), whatever devices, ports and backends there are.    *)
THEOREM ClaimedAlways == DiscoverySpec => []Claimed
  BY DiscoveryInvariant, ClaimedHolds, PTL

(* When nothing was missed an entry is of the backend its device answers.  *)
LEMMA EntryFits ==
    ASSUME Distinguishable, WiredOnly, Complete, NEW e \in Merge
    PROVE  e.backend = Family[e.device] /\ e.device \in Devices
                /\ e.id = IdBy(e.backend, e.device)
<1>1. CASE e \in wired
  BY <1>1, EntryOfPort DEF Devices
<1>2. ASSUME NEW i \in DOMAIN Chain, e \in Entries(Chain[i]), Unlisted(Before(i), e)
      PROVE  e.backend = Family[e.device] /\ e.device \in Devices
                  /\ e.id = IdBy(e.backend, e.device)
  <2> DEFINE d == e.device
             b == Chain[i]
             f == Family[d]
             g == Entry(f, d, LabelBy(f, d))
  <2>1. d \in Mine(b) /\ d \in Radios /\ b \in Features /\ e.backend = b /\ e.id = IdBy(b, d)
    BY <1>2, EntryOfScan
  <2>2. Recognised(b, Marks[d])
    BY <2>1 DEF Complete
  <2>3. f \in Features /\ Rank(f) <= Rank(b) /\ IdBy(f, d) = IdBy(b, d)
    BY <2>1, <2>2 DEF Distinguishable
  <2>4. d \in Mine(f)
    BY <2>1, <2>3 DEF Distinguishable, Complete
  <2>5. Rank(f) \in DOMAIN Chain /\ Chain[Rank(f)] = f /\ Rank(b) = i
    BY <2>3, InChain, ChainRank
  <2>6. g \in Entries(f) /\ g.id = e.id
    BY <2>1, <2>3, <2>4 DEF Entries, Entry
  <2>7. Rank(f) = i
    <3>1. SUFFICES ASSUME Rank(f) # i PROVE FALSE
      OBVIOUS
    <3>2. Rank(f) \in 1 .. i - 1
      BY <2>3, <2>5, <3>1 DEF Chain, Order
    <3>3. g \in Before(i)
      BY <2>5, <2>6, <3>2 DEF Before
    <3>4. QED
      BY <1>2, <2>6, <3>3 DEF Unlisted
  <2>8. QED
    BY <2>1, <2>5, <2>7 DEF Devices
<1>3. QED
  BY <1>1, <1>2, Listed

(* When nothing was missed all that are around are listed.                 *)
LEMMA PresentListed ==
    ASSUME Distinguishable, DiscoveryInv, stage # "discover", Complete, NEW d \in Present
    PROVE  \E e \in list : e.device = d /\ e.id = IdBy(Family[d], d)
<1>1. list = Merge /\ ports = <<>> /\ WiredOnly /\ Probed /\ silent = {}
  BY DEF DiscoveryInv, Settled, Complete
<1>2. CASE d \in Radios /\ Family[d] \in Features
  <2>1. d \in Mine(Family[d])
    BY <1>2 DEF Distinguishable, Complete
  <2>2. PICK e \in Merge : e.device = d
    BY <1>2, <2>1, MineListed
  <2>3. QED
    BY <1>1, <2>2, EntryFits
<1>3. CASE d \in Ports /\ Family[d] \in Wired
  <2> DEFINE e == WiredEntry(d)
  <2>1. Own(d) \in ToSet(Probes)
    BY <1>3 DEF Distinguishable, Own
  <2>2. d \notin ToSet(ports)
    BY <1>1 DEF ToSet
  <2>3. e \in wired
    BY <1>1, <1>3, <2>1, <2>2 DEF Probed
  <2>4. e.device = d /\ e.id = IdBy(Family[d], d)
    BY DEF WiredEntry, Entry
  <2>5. ASSUME NEW g \in Before(Len(Chain) + 1) PROVE g.id # e.id
    <3>1. PICK i \in 1 .. Len(Chain) + 1 - 1 : g \in Entries(Chain[i])
      BY DEF Before
    <3>2. g.device \in Radios /\ g.id = IdBy(Chain[i], g.device)
      BY <3>1, EntryOfScan
    <3>3. SUFFICES ASSUME g.id = e.id PROVE FALSE
      OBVIOUS
    <3>4. g.device = d
      BY <1>3, <2>4, <3>2, <3>3, SameDevice DEF Devices
    <3>5. QED
      BY <1>3, <3>2, <3>4, DeviceAssumption
  <2>6. e \in Merge
    BY <2>3, <2>5 DEF Merge, Unlisted
  <2>7. QED
    BY <1>1, <2>4, <2>6
<1>4. QED
  BY <1>2, <1>3 DEF Present

LEMMA ChosenFitsHolds ==
    ASSUME Distinguishable, DiscoveryInv
    PROVE  ChosenFits
<1> SUFFICES ASSUME stage \in {"connect", "opened"}, Complete, NEW e \in chosen
             PROVE  /\ e.backend = Family[e.device]
                    /\ e.id # query =>
                         \A d \in Present : IsPrefix(query, IdBy(Family[d], d)) => d = e.device
  BY DEF ChosenFits
<1>1. list = Merge /\ WiredOnly /\ stage # "discover"
  BY DEF DiscoveryInv, Settled
<1>2. chosen = Match(query) /\ chosen = {e}
  BY DEF DiscoveryInv, Picked
<1>3. chosen \subseteq list
  BY <1>2 DEF Match, Exact, Begun, Called
<1>4. e.backend = Family[e.device]
  BY <1>1, <1>3, EntryFits
<1>5. ASSUME e.id # query, NEW d \in Present, IsPrefix(query, IdBy(Family[d], d))
      PROVE  d = e.device
  <2>1. PICK f \in list : f.device = d /\ f.id = IdBy(Family[d], d)
    BY <1>1, PresentListed
  <2>2. f \in Begun(query)
    BY <1>5, <2>1 DEF Begun
  <2>3. Exact(query) = {}
    BY <1>2, <1>5 DEF Match, Exact
  <2>4. chosen = Begun(query)
    BY <1>2, <2>2, <2>3 DEF Match
  <2>5. QED
    BY <1>2, <2>1, <2>2, <2>4
<1>6. QED
  BY <1>4, <1>5

(* Among any devices that can be told apart, a discovery that missed       *)
(* nothing has a query open the battery it names with the backend that     *)
(* battery answers to (resolve, 530-556).                                  *)
THEOREM ChosenAlwaysFits == Distinguishable => (DiscoverySpec => []ChosenFits)
<1> SUFFICES ASSUME Distinguishable PROVE DiscoverySpec => []ChosenFits
  OBVIOUS
<1>1. DiscoveryInv => ChosenFits
  BY ChosenFitsHolds
<1>2. QED
  BY <1>1, DiscoveryInvariant, PTL

-----------------------------------------------------------------------------
(* Credentials.                                                            *)

OneWriter ==
    \A p \in Programs, t, u \in Threads :
        pc[p][t] # "idle" /\ pc[p][u] # "idle" => t = u

TextIsMap ==
    \A p \in Programs, t \in Threads :
        pc[p][t] # "idle" => /\ text[p][t] = cache[p]
                             /\ saving[p][t] \subseteq cache[p]

Working ==
    \A p \in Programs, t \in Threads : pc[p][t] # "idle" => p \in opened

CredInv == TypeOK /\ OneWriter /\ TextIsMap /\ Working /\ Kept

-----------------------------------------------------------------------------
(* What the operations on maps return.                                     *)
LEMMA MapsOfLines ==
    /\ \A map \in SUBSET Lines : \A keys : Without(map, keys) \in SUBSET map
    /\ \A front, behind \in SUBSET Lines :
         Then(front, behind) \in SUBSET Lines /\ behind \subseteq Then(front, behind)
    /\ \A map \in SUBSET Lines : \A other : Unopposed(map, other) \in SUBSET map
    /\ \A lines \in SUBSET Lines : Partly(lines) => file' \in SUBSET Lines
    /\ \A k \in Keys, v \in Values : {<<k, v>>} \in SUBSET Lines
<1>1. \A map, keys : Without(map, keys) \in SUBSET map
  BY DEF Without
<1>2. \A lines \in SUBSET Lines : Partly(lines) => file' \in SUBSET Lines
  <2>1. SUFFICES ASSUME NEW lines \in SUBSET Lines, Partly(lines)
                 PROVE  file' \in SUBSET Lines
    OBVIOUS
  <2>2. PICK whole \in SUBSET lines :
           \/ file' = whole
           \/ \E c \in lines \ whole : file' = whole \cup {<<c[1], Stump>>}
    BY <2>1 DEF Partly
  <2>3. \A c \in lines : <<c[1], Stump>> \in Lines
    BY DEF Lines
  <2>4. QED
    BY <2>2, <2>3
<1>3. \A front, behind \in SUBSET Lines :
         Then(front, behind) \in SUBSET Lines /\ behind \subseteq Then(front, behind)
  BY <1>1 DEF Then
<1>4. \A map, other : Unopposed(map, other) \in SUBSET map
  BY DEF Unopposed
<1>5. \A k \in Keys, v \in Values : {<<k, v>>} \in SUBSET Lines
  BY DEF Lines
<1>6. QED
  BY <1>1, <1>2, <1>3, <1>4, <1>5

LEMMA InitTypes == Init => TypeOK
<1> SUFFICES ASSUME Init PROVE TypeOK
  OBVIOUS
<1>1. file \in SUBSET Lines /\ safe = file
  BY DEF Init, Lines
<1>2. {} \in SUBSET Lines
  OBVIOUS
<1>3. QED
  BY <1>1, <1>2 DEF Init, TypeOK

LEMMA TypeStep == TypeOK /\ [Next]_vars => TypeOK'
<1> SUFFICES ASSUME TypeOK, [Next]_vars PROVE TypeOK'
  OBVIOUS
<1> USE DEF TypeOK
<1>1. CASE UNCHANGED vars
  BY <1>1 DEF vars
<1>2. ASSUME NEW p \in Programs, Open(p) PROVE TypeOK'
  BY <1>2 DEF Open
<1>3. ASSUME NEW p \in Programs, Stop(p) PROVE TypeOK'
  <2>1. file' \in SUBSET Lines /\ safe' \in SUBSET Lines
    <3>1. \A t \in Threads : Partly(text[p][t]) => file' \in SUBSET Lines
      BY MapsOfLines
    <3>2. QED
      BY <1>3, <3>1 DEF Stop
  <2> QED
    BY <1>3, <2>1 DEF Stop
<1>4. ASSUME NEW p \in Programs, NEW t \in Threads, NEW k \in Keys, NEW v \in Values,
             Save(p, t, k, v)
      PROVE  TypeOK'
  <2>1. /\ Then(cache[p], {<<k, v>>}) \in SUBSET Lines /\ {<<k, v>>} \in SUBSET Lines
        /\ Without(safe, {k}) \in SUBSET Lines
    BY MapsOfLines
  <2>2. QED
    BY <1>4, <2>1 DEF Save, MayChange, BeginFlush
<1>5. ASSUME NEW p \in Programs, NEW t \in Threads, NEW k \in Keys, Delete(p, t, k)
      PROVE  TypeOK'
  <2>1. Without(cache[p], {k}) \in SUBSET Lines /\ Without(safe, {k}) \in SUBSET Lines
    BY MapsOfLines
  <2>2. QED
    BY <1>5, <2>1 DEF Delete, MayChange, BeginFlush
<1>6. ASSUME NEW p \in Programs, NEW t \in Threads, Truncate(p, t) PROVE TypeOK'
  BY <1>6 DEF Truncate
<1>7. ASSUME NEW p \in Programs, NEW t \in Threads, Written(p, t) PROVE TypeOK'
  <2>1. file' \in SUBSET Lines
    BY <1>7, MapsOfLines DEF Written
  <2>2. safe' \in SUBSET Lines
    <3>1. (safe \cap cache[p]) \cup saving[p][t] \in SUBSET Lines
      OBVIOUS
    <3>2. QED
      BY <1>7, <3>1, MapsOfLines DEF Written
  <2>3. QED
    BY <1>7, <2>1, <2>2 DEF Written, Finish
<1>8. ASSUME NEW p \in Programs, NEW t \in Threads, NotOpened(p, t) PROVE TypeOK'
  BY <1>8 DEF NotOpened, Finish
<1>9. ASSUME NEW p \in Programs, NEW t \in Threads, HalfWritten(p, t) PROVE TypeOK'
  <2>1. file' \in SUBSET Lines /\ safe' = {}
    <3>1. text[p][t] \in SUBSET Lines
      OBVIOUS
    <3>2. QED
      BY <1>9, <3>1, MapsOfLines DEF HalfWritten
  <2>2. QED
    BY <1>9, <2>1 DEF HalfWritten, Finish
<1> QED
  BY <1>1, <1>2, <1>3, <1>4, <1>5, <1>6, <1>7, <1>8, <1>9 DEF Next

LEMMA InitInv == Init => CredInv
BY InitTypes DEF Init, CredInv, OneWriter, TextIsMap, Working, Kept

-----------------------------------------------------------------------------
(* A change begins only where no thread of the program is at work.         *)
LEMMA ChangeKeepsLock ==
    ASSUME CredInv, NEW p \in Programs, NEW t \in Threads,
           NEW map \in SUBSET Lines, NEW saved \in SUBSET map,
           MayChange(p, t), BeginFlush(p, t, map),
           saving' = [saving EXCEPT ![p][t] = saved]
    PROVE  OneWriter' /\ TextIsMap' /\ (Rewriting' => Rewriting) /\ (Rewriting => Rewriting')
<1> USE DEF CredInv, TypeOK, MayChange, BeginFlush
<1>1. OneWriter'
  BY DEF OneWriter
<1>2. TextIsMap'
  BY DEF TextIsMap
<1>3. Rewriting' <=> Rewriting
  BY DEF Rewriting
<1> QED
  BY <1>1, <1>2, <1>3

(* A thread that ends its work leaves those of the others as they were.    *)
LEMMA FinishKeepsLock ==
    ASSUME CredInv, NEW p \in Programs, NEW t \in Threads, Finish(p, t)
    PROVE  OneWriter' /\ TextIsMap'
<1> USE DEF CredInv, TypeOK, Finish
<1>1. OneWriter'
  BY DEF OneWriter
<1>2. TextIsMap'
  BY DEF TextIsMap
<1> QED
  BY <1>1, <1>2

-----------------------------------------------------------------------------
LEMMA OpenInv ==
    ASSUME CredInv, NEW p \in Programs, Open(p)
    PROVE  OneWriter' /\ TextIsMap' /\ Working' /\ Kept'
<1> USE DEF CredInv, TypeOK, Open
<1>1. OneWriter' /\ Working'
  BY DEF OneWriter, Working
<1>2. TextIsMap'
  BY DEF TextIsMap, Working
<1>3. Kept'
  BY DEF Kept, Rewriting
<1> QED
  BY <1>1, <1>2, <1>3

LEMMA SaveInv ==
    ASSUME CredInv, NEW p \in Programs, NEW t \in Threads, NEW k \in Keys, NEW v \in Values,
           Save(p, t, k, v)
    PROVE  OneWriter' /\ TextIsMap' /\ Working' /\ Kept'
<1>1. OneWriter' /\ TextIsMap' /\ (Rewriting' <=> Rewriting)
  <2>1. /\ Then(cache[p], {<<k, v>>}) \in SUBSET Lines
        /\ {<<k, v>>} \in SUBSET Then(cache[p], {<<k, v>>})
    <3>1. cache[p] \in SUBSET Lines /\ {<<k, v>>} \in SUBSET Lines
      BY MapsOfLines DEF CredInv, TypeOK
    <3>2. QED
      BY <3>1, MapsOfLines
  <2>2. /\ MayChange(p, t)
        /\ BeginFlush(p, t, Then(cache[p], {<<k, v>>}))
        /\ saving' = [saving EXCEPT ![p][t] = {<<k, v>>}]
    BY DEF Save
  <2> QED
    BY <2>1, <2>2, ChangeKeepsLock
<1>2. Working'
  BY DEF Save, MayChange, BeginFlush, CredInv, TypeOK, Working
<1>3. Kept'
  BY <1>1, MapsOfLines DEF Save, CredInv, TypeOK, Kept
<1> QED
  BY <1>1, <1>2, <1>3

LEMMA DeleteInv ==
    ASSUME CredInv, NEW p \in Programs, NEW t \in Threads, NEW k \in Keys, Delete(p, t, k)
    PROVE  OneWriter' /\ TextIsMap' /\ Working' /\ Kept'
<1>1. OneWriter' /\ TextIsMap' /\ (Rewriting' <=> Rewriting)
  <2>1. /\ Without(cache[p], {k}) \in SUBSET Lines
        /\ {} \in SUBSET Without(cache[p], {k})
    BY MapsOfLines DEF CredInv, TypeOK
  <2>2. /\ MayChange(p, t)
        /\ BeginFlush(p, t, Without(cache[p], {k}))
        /\ saving' = [saving EXCEPT ![p][t] = {}]
    BY DEF Delete
  <2> QED
    BY <2>1, <2>2, ChangeKeepsLock
<1>2. Working'
  BY DEF Delete, MayChange, BeginFlush, CredInv, TypeOK, Working
<1>3. Kept'
  BY <1>1, MapsOfLines DEF Delete, CredInv, TypeOK, Kept
<1> QED
  BY <1>1, <1>2, <1>3

LEMMA TruncateInv ==
    ASSUME CredInv, NEW p \in Programs, NEW t \in Threads, Truncate(p, t)
    PROVE  OneWriter' /\ TextIsMap' /\ Working' /\ Kept'
<1> USE DEF CredInv, TypeOK, Truncate
<1>1. OneWriter' /\ Working'
  BY DEF OneWriter, Working
<1>2. TextIsMap'
  BY DEF TextIsMap
<1>3. Rewriting'
  BY DEF Rewriting
<1> QED
  BY <1>1, <1>2, <1>3 DEF Kept

(* What is left is the map, and what was saved of it is in it, where       *)
(* another program has written no other value.                             *)
LEMMA WrittenInv ==
    ASSUME CredInv, NEW p \in Programs, NEW t \in Threads, Written(p, t)
    PROVE  OneWriter' /\ TextIsMap' /\ Working' /\ Kept'
<1>1. OneWriter' /\ TextIsMap'
  BY FinishKeepsLock DEF Written
<1>2. Working'
  BY DEF Written, Finish, CredInv, TypeOK, Working
<1>3. text[p][t] = cache[p] /\ saving[p][t] \subseteq cache[p]
  BY DEF Written, CredInv, TextIsMap
<1>4. safe' \subseteq file'
  <2>1. PICK rest \in SUBSET file : file' = Then(text[p][t], rest)
    BY DEF Written
  <2>2. SUFFICES ASSUME NEW c \in safe'
                 PROVE  c \in file'
    OBVIOUS
  <2>3. c \in text[p][t] /\ \A d \in file : c[1] = d[1] => c = d
    BY <1>3 DEF Written, Unopposed
  <2>4. CASE c[1] \in KeysOf(rest)
    BY <2>1, <2>3, <2>4 DEF KeysOf, Then
  <2>5. CASE c[1] \notin KeysOf(rest)
    BY <2>1, <2>3, <2>5 DEF Then, Without
  <2>6. QED
    BY <2>4, <2>5
<1> QED
  BY <1>1, <1>2, <1>4 DEF Kept

LEMMA NotOpenedInv ==
    ASSUME CredInv, NEW p \in Programs, NEW t \in Threads, NotOpened(p, t)
    PROVE  OneWriter' /\ TextIsMap' /\ Working' /\ Kept'
<1>1. OneWriter' /\ TextIsMap'
  BY FinishKeepsLock DEF NotOpened
<1>2. Working'
  BY DEF NotOpened, Finish, CredInv, TypeOK, Working
<1>3. Rewriting => Rewriting'
  BY DEF NotOpened, Finish, CredInv, TypeOK, Rewriting
<1> QED
  BY <1>1, <1>2, <1>3 DEF NotOpened, CredInv, Kept

LEMMA HalfWrittenInv ==
    ASSUME CredInv, NEW p \in Programs, NEW t \in Threads, HalfWritten(p, t)
    PROVE  OneWriter' /\ TextIsMap' /\ Working' /\ Kept'
<1>1. OneWriter' /\ TextIsMap'
  BY FinishKeepsLock DEF HalfWritten
<1>2. Working'
  BY DEF HalfWritten, Finish, CredInv, TypeOK, Working
<1> QED
  BY <1>1, <1>2 DEF HalfWritten, Kept

LEMMA StopInv ==
    ASSUME CredInv, NEW p \in Programs, Stop(p)
    PROVE  OneWriter' /\ TextIsMap' /\ Working' /\ Kept'
<1>1. OneWriter' /\ Working'
  BY DEF Stop, CredInv, TypeOK, OneWriter, Working
<1>2. TextIsMap'
  BY DEF Stop, CredInv, TypeOK, TextIsMap
<1>3. CASE \A t \in Threads : pc[p][t] # "truncated"
  <2>1. Rewriting => Rewriting'
    BY <1>3 DEF Stop, CredInv, TypeOK, Rewriting
  <2>2. file' = file /\ safe' = safe
    BY <1>3 DEF Stop
  <2> QED
    BY <1>1, <1>2, <2>1, <2>2 DEF CredInv, Kept
<1>4. CASE \E t \in Threads : pc[p][t] = "truncated"
  BY <1>1, <1>2, <1>4 DEF Stop, Kept
<1> QED
  BY <1>3, <1>4

LEMMA StepInv == CredInv /\ [Next]_vars => CredInv'
<1> SUFFICES ASSUME CredInv, [Next]_vars PROVE CredInv'
  OBVIOUS
<1>1. TypeOK'
  BY TypeStep DEF CredInv
<1>2. CASE UNCHANGED vars
  BY <1>1, <1>2 DEF vars, CredInv, OneWriter, TextIsMap, Working, Kept, Rewriting
<1>3. ASSUME NEW p \in Programs, Open(p) \/ Stop(p) PROVE CredInv'
  BY <1>1, <1>3, OpenInv, StopInv DEF CredInv
<1>4. ASSUME NEW p \in Programs, NEW t \in Threads, NEW k \in Keys,
             (\E v \in Values : Save(p, t, k, v)) \/ Delete(p, t, k)
      PROVE  CredInv'
  BY <1>1, <1>4, SaveInv, DeleteInv DEF CredInv
<1>5. ASSUME NEW p \in Programs, NEW t \in Threads,
             Truncate(p, t) \/ Written(p, t) \/ NotOpened(p, t) \/ HalfWritten(p, t)
      PROVE  CredInv'
  BY <1>1, <1>5, TruncateInv, WrittenInv, NotOpenedInv, HalfWrittenInv DEF CredInv
<1> QED
  BY <1>2, <1>3, <1>4, <1>5 DEF Next

(* The invariant the theorem rests on.                                     *)
THEOREM CredentialsInvariant == Spec => []CredInv
BY InitInv, StepInv, PTL DEF Spec

(* A credential whose save has returned is in the file whenever nobody     *)
(* rewrites it, for any number of programs and threads.                    *)
THEOREM CredentialsKept == Spec => []Kept
<1>1. CredInv => Kept
  BY DEF CredInv
<1> QED
  BY <1>1, CredentialsInvariant, PTL
=============================================================================
