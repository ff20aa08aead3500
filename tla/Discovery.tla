------------------------------ MODULE Discovery ------------------------------
(***************************************************************************)
(* Finding a battery and opening it (src/discovery.rs, and the scan of     *)
(* each backend's crate).  All Bluetooth scans and the serial probe run at *)
(* once.  A scan looks at one peripheral after the other, each time at     *)
(* what the adapter has heard of it so far, which only grows; the answer   *)
(* may be missed.  The results are put together in one order, the first of *)
(* an id being kept, and the user's query picks one entry to be opened.    *)
(***************************************************************************)
EXTENDS Naturals, Sequences, FiniteSets, SequencesExt

CONSTANTS
    Features,     \* the Bluetooth backends compiled in
    Wired,        \* the serial backends compiled in
    Radios,       \* Bluetooth devices around
    Ports,        \* serial ports that look like a UART adapter
    Family,       \* the backend a device answers to, per radio and port
    Marks,        \* what a radio advertises
    Baud,         \* the baud rate of the device on a port
    Id,           \* the id btleplug or the system gives, a sequence of tokens
    Mac,          \* the address, for the radios whose address is known
    Label,        \* the name or model, a sequence of tokens
    SerialBauds,  \* DiscoverOptions.serial_bauds
    Queries       \* what the user may ask for

Devices == Radios \cup Ports
IdsOf(d) == {Id[d]} \cup {Mac[e] : e \in {d} \cap DOMAIN Mac}

(* A device has ids of its own, and ports are few.                         *)
ASSUME DeviceAssumption ==
    /\ Radios \cap Ports = {}
    /\ IsFiniteSet(Ports)
    /\ \A d, e \in Devices : IdsOf(d) \cap IdsOf(e) # {} => d = e
    /\ SerialBauds \in Seq(Nat)

VARIABLES
    heard,   \* marks of each radio that the adapter knows
    scan,    \* of each feature: "running", "done" or "failed"
    read,    \* read[b][d]: "no" (not yet), "other", "mine", "unnamed" (mine too)
    ports,   \* ports still to probe, the first being probed
    attempt, \* the number of the probe of the first port
    wired,   \* entries of the ports that answered, a set
    silent,  \* history: ports that did not answer their own probe
    list,    \* what discover returned, a set of entries
    query,   \* what the user asked for
    chosen,  \* the entries that match the query
    stage    \* "discover", "resolve", "connect", then "opened" or "error"

radio == <<heard, scan, read>>
serial == <<ports, attempt, wired, silent>>
discoveryVars == <<radio, serial, list, query, chosen, stage>>

(***************************************************************************)
(* What each scan takes for a device of its own.                           *)
(***************************************************************************)
RecognisedByAnker(marks) == marks \cap {"svc_ff09", "name_anker"} # {}
RecognisedBySok(marks) == "name_sok" \in marks
RecognisedByRenogy(marks) == "name_renogy" \in marks
RecognisedByBluetti(marks) == "name_bluetti" \in marks
RecognisedByJackery(marks) == {"mfr_jackery", "svcdata_jackery"} \subseteq marks
RecognisedByEcoflow(marks) == "mfr_ecoflow" \in marks
RecognisedByJk(marks) == marks \cap {"svc_ffe0", "name_jk"} # {}
RecognisedByJbd(marks) == marks \cap {"svc_ff00", "name_jbd"} # {}

Recognised(b, marks) ==
    \/ b = "anker" /\ RecognisedByAnker(marks)
    \/ b = "sok" /\ RecognisedBySok(marks)
    \/ b = "renogy" /\ RecognisedByRenogy(marks)
    \/ b = "bluetti" /\ RecognisedByBluetti(marks)
    \/ b = "jackery" /\ RecognisedByJackery(marks)
    \/ b = "ecoflow" /\ RecognisedByEcoflow(marks)
    \/ b = "jk" /\ RecognisedByJk(marks)
    \/ b = "jbd" /\ RecognisedByJbd(marks)

Names == {"name_anker", "name_sok", "name_renogy", "name_bluetti", "name_jk", "name_jbd",
          "name"}

(* Entries.  Only anker_solix names a device by its address when it can.   *)
IdBy(b, d) == IF b = "anker" /\ d \in DOMAIN Mac THEN Mac[d] ELSE Id[d]
Entry(b, d, label) == [device |-> d, backend |-> b, id |-> IdBy(b, d), label |-> label]

(***************************************************************************)
(* The serial probes, in order: JK and JBD at every rate of the options,   *)
(* the others at a rate of their own.                                      *)
(***************************************************************************)
AtEvery(b) == IF b \in Wired THEN [i \in 1..Len(SerialBauds) |-> <<b, SerialBauds[i]>>]
              ELSE <<>>
At(b, rate) == IF b \in Wired THEN << <<b, rate>> >> ELSE <<>>
Probes ==
    AtEvery("jk") \o AtEvery("jbd") \o At("daly", 9600) \o At("pylontech-rs485", 115200)
      \o At("seplos", 19200) \o At("pace", 9600) \o At("vedirect", 19200)

(***************************************************************************)
(* Discovery.                                                              *)
(***************************************************************************)
DiscoveryInit ==
    /\ heard \in [Radios -> SUBSET UNION {Marks[d] : d \in Radios}]
    /\ \A d \in Radios : heard[d] \subseteq Marks[d]
    /\ scan = [b \in Features |-> "running"]
    /\ read = [b \in Features |-> [d \in Radios |-> "no"]]
    /\ ports \in SetToSeqs(Ports)
    /\ attempt = 1
    /\ wired = {}
    /\ silent = {}
    /\ list = {}
    /\ query = <<>>
    /\ chosen = {}
    /\ stage = "discover"

Scanning == \E b \in Features : scan[b] = "running"

(* The adapter hears more of a radio.                                      *)
Advertise(d) ==
    /\ Scanning
    /\ \E m \in Marks[d] \ heard[d] : heard' = [heard EXCEPT ![d] = @ \cup {m}]
    /\ UNCHANGED <<scan, read, serial, list, query, chosen, stage>>

(* Scan b asks for the properties of d and, when they come, looks at them. *)
Read(b, d) ==
    /\ scan[b] = "running"
    /\ read[b][d] = "no"
    /\ \E known \in {heard[d], {}} :
         read' = [read EXCEPT ![b][d] =
             IF ~Recognised(b, known) THEN "other"
             ELSE IF known \cap Names = {} THEN "unnamed" ELSE "mine"]
    /\ UNCHANGED <<heard, scan, serial, list, query, chosen, stage>>

EndScan(b) ==
    /\ scan[b] = "running"
    /\ \A d \in Radios : read[b][d] # "no"
    /\ scan' = [scan EXCEPT ![b] = "done"]
    /\ UNCHANGED <<heard, read, serial, list, query, chosen, stage>>

(* No adapter, or an error on the way: the scan finds nothing at all.  For *)
(* anker_solix an error on one peripheral is enough.                       *)
FailScan(b) ==
    /\ scan[b] = "running"
    /\ scan' = [scan EXCEPT ![b] = "failed"]
    /\ read' = [read EXCEPT ![b] = [d \in Radios |-> "no"]]
    /\ UNCHANGED <<heard, serial, list, query, chosen, stage>>

(* The next attempt on the port.  Only the device's own protocol at its    *)
(* own rate can be answered, and even that may come too late or find the   *)
(* port in use.                                                            *)
Fits(p) == Probes[attempt] = <<Family[p], Baud[p]>>

ProbeAnswered ==
    /\ ports # <<>>
    /\ Fits(Head(ports))
    /\ wired' = wired \cup {Entry(Family[Head(ports)], Head(ports), Label[Head(ports)])}
    /\ ports' = Tail(ports)
    /\ attempt' = 1
    /\ UNCHANGED <<radio, silent, list, query, chosen, stage>>

ProbeSilent ==
    /\ ports # <<>>
    /\ silent' = silent \cup {p \in {Head(ports)} : Fits(p)}
    /\ IF attempt < Len(Probes)
         THEN attempt' = attempt + 1 /\ UNCHANGED ports
         ELSE attempt' = 1 /\ ports' = Tail(ports)
    /\ UNCHANGED <<radio, wired, list, query, chosen, stage>>

(***************************************************************************)
(* Putting together, choosing, opening.                                    *)
(***************************************************************************)
Order == <<"anker", "sok", "renogy", "bluetti", "jackery", "ecoflow", "jk", "jbd">>
Rank(b) == CHOOSE i \in 1..Len(Order) : Order[i] = b

(* A backend that scans has a place in the order.                          *)
ASSUME FeaturesAssumption == Features \subseteq ToSet(Order)

\* Mutant of Chain: the backends in the order of the alphabet.
ChainByName == <<"anker", "bluetti", "ecoflow", "jackery", "jbd", "jk", "renogy", "sok">>
Chain == Order

Mine(b) == {d \in Radios : b \in Features /\ scan[b] = "done" /\ read[b][d] \in {"mine", "unnamed"}}

(* A device without a name gets the backend's; one of Anker's, none.       *)
LabelBy(b, d) ==
    IF read[b][d] = "mine" THEN Label[d] ELSE IF b = "anker" THEN <<>> ELSE <<b>>

(* What a scan returned, and those before the n-th together.               *)
Entries(b) == {Entry(b, d, LabelBy(b, d)) : d \in Mine(b)}
Before(n) == UNION {Entries(Chain[i]) : i \in 1..n - 1}

(* The first of an id is kept.  The entries of one scan have different     *)
(* ids, so their order is immaterial; those of the ports come last.        *)
Unlisted(found, e) == \A f \in found : f.id # e.id
Merge ==
    {e \in wired : Unlisted(Before(Len(Chain) + 1), e)}
    \cup UNION {{e \in Entries(Chain[i]) : Unlisted(Before(i), e)} : i \in DOMAIN Chain}

Discover ==
    /\ stage = "discover"
    /\ ~Scanning
    /\ ports = <<>>
    /\ list' = Merge
    /\ stage' = "resolve"
    /\ UNCHANGED <<radio, serial, query, chosen>>

Within(q, label) ==
    \E i \in 0..Len(label) - Len(q) : SubSeq(label, i + 1, i + Len(q)) = q

Exact(q) == {e \in list : e.id = q}
Begun(q) == {e \in list : IsPrefix(q, e.id)}
Called(q) == {e \in list : Within(q, e.label)}

\* Mutant of Match: an id that the query begins is as good as any other.
MatchFirst(q) ==
    IF Exact(q) # {} THEN Exact(q)
    ELSE IF Begun(q) # {} THEN {CHOOSE e \in Begun(q) : TRUE}
    ELSE Called(q)

(* An exact id, else the ids it begins, else the labels it is in.          *)
Match(q) ==
    IF Exact(q) # {} THEN Exact(q) ELSE IF Begun(q) # {} THEN Begun(q) ELSE Called(q)

Resolve ==
    /\ stage = "resolve"
    /\ query' \in Queries
    /\ chosen' = Match(query')
    /\ stage' = IF \E e \in chosen' : chosen' = {e} THEN "connect" ELSE "error"
    /\ UNCHANGED <<radio, serial, list>>

(* The backend of the entry opens its device, which may fail; only the     *)
(* backend the device answers to can succeed.                              *)
Connect ==
    /\ stage = "connect"
    /\ stage' \in {"error"} \cup {"opened" : e \in {c \in chosen : c.backend = Family[c.device]}}
    /\ UNCHANGED <<radio, serial, list, query, chosen>>

DiscoveryNext ==
    \/ \E d \in Radios : Advertise(d)
    \/ \E b \in Features : (\E d \in Radios : Read(b, d)) \/ EndScan(b) \/ FailScan(b)
    \/ ProbeAnswered
    \/ ProbeSilent
    \/ Discover
    \/ Resolve
    \/ Connect

DiscoverySpec == DiscoveryInit /\ [][DiscoveryNext]_discoveryVars

(***************************************************************************)
(* Properties.                                                             *)
(***************************************************************************)
(* A device that a finished scan took for its own is listed, whatever      *)
(* became of the other scans, and under that backend unless one that goes  *)
(* first took it too (the join and the merge of discover, 246-273).        *)
Claimed ==
    stage # "discover" => \A b \in Features : \A d \in Mine(b) :
            \E e \in list : e.device = d /\ Rank(e.backend) <= Rank(b)

(* No scan failed or missed anything of a device, and no port was silent.  *)
Complete ==
    /\ \A b \in Features : scan[b] = "done"
    /\ \A b \in Features : Mine(b) = {d \in Radios : Recognised(b, Marks[d])}
    /\ silent = {}

(* What the devices around must be for the backends to be told apart: the  *)
(* scan of a radio's own backend takes it, none that goes before does, and *)
(* none that does gives it another id; a port's device is at a rate that   *)
(* is probed.                                                              *)
Distinguishable ==
    /\ \A d \in Radios, b \in Features : Recognised(b, Marks[d]) =>
           /\ Family[d] \in Features
           /\ Rank(Family[d]) <= Rank(b)
           /\ IdBy(Family[d], d) = IdBy(b, d)
    /\ \A d \in Radios : Family[d] \in Features => Recognised(Family[d], Marks[d])
    /\ \A p \in Ports : Family[p] \in Wired => <<Family[p], Baud[p]>> \in ToSet(Probes)

Present == {d \in Radios : Family[d] \in Features} \cup {p \in Ports : Family[p] \in Wired}

(* After a complete discovery a query opens a battery with the backend it  *)
(* answers to; and one of the id asked for or, where there is none, the    *)
(* only one whose id the query begins, if any (resolve, 530-556).          *)
ChosenFits ==
    stage \in {"connect", "opened"} /\ Complete => \A e \in chosen :
        /\ e.backend = Family[e.device]
        /\ e.id # query =>
               \A d \in Present : IsPrefix(query, IdBy(Family[d], d)) => d = e.device
=============================================================================
