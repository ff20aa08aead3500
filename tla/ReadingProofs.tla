----------------------------- MODULE ReadingProofs -----------------------------
(***************************************************************************)
(* Proofs about readings: what a follower shows of a battery, and what the *)
(* Pylontech backends return, is of one reading.                           *)
(*                                                                         *)
(* StatusStream keeps its follower up to date, for any elements, values    *)
(* and alarms.  FollowerCatchesUp is not inductive: the folding of a set   *)
(* of updates chooses one for each element, so the queue must be known to  *)
(* hold only values of the last reading (QueueOfReading), and an element   *)
(* that is not queued must be known to the follower already (KnownOrQueued *)
(* -- Diff leaves out what the reading before had, and the follower may    *)
(* rely on that only because a new stream starts from nothing).            *)
(*                                                                         *)
(* A Pylontech reading is of one answer or round because what was read,    *)
(* what waits and what is still to come always make up the answer to the   *)
(* command under way (InStep), or a stretch of the round (InTurn, Fed).    *)
(***************************************************************************)
EXTENDS StatusStream, Pylontech, SequenceTheorems, TLAPS

QueueOfReading ==
    \A u \in queue :
        /\ OfPart(u) => u.id \in Present(prev) /\ u.value = prev.parts[u.id]
        /\ ~OfPart(u) => u.raised = prev.alarms

KnownOrQueued ==
    \A i \in Present(prev) :
        \/ live.parts[i] = prev.parts[i]
        \/ PartOf(i, prev.parts[i]) \in queue

StreamInv == TypeOK /\ QueueOfReading /\ KnownOrQueued

-----------------------------------------------------------------------------
(* The two kinds of update.                                                *)

LEMMA PartUpdate ==
    ASSUME NEW i \in Ids, NEW v \in Values
    PROVE  /\ PartOf(i, v) \in StatusUpdate
           /\ OfPart(PartOf(i, v))
           /\ PartOf(i, v).id = i
           /\ PartOf(i, v).value = v
BY DEF PartOf, StatusUpdate, OfPart

LEMMA AlarmUpdate ==
    ASSUME NEW A \in SUBSET Alarms
    PROVE  /\ AlarmsOf(A) \in StatusUpdate
           /\ ~OfPart(AlarmsOf(A))
           /\ AlarmsOf(A).raised = A
BY DEF AlarmsOf, StatusUpdate, OfPart

LEMMA UpdateParts ==
    ASSUME NEW u \in StatusUpdate
    PROVE  /\ OfPart(u) => u.id \in Ids /\ u.value \in Values
           /\ ~OfPart(u) => u.raised \in SUBSET Alarms
BY DEF StatusUpdate, OfPart

LEMMA EmptySnapshot == Empty \in Snapshot /\ Present(Empty) = {}
BY DEF Empty, Snapshot, Present

(* What a diff holds.                                                      *)
LEMMA DiffHolds ==
    ASSUME NEW new \in Snapshot, NEW old \in Snapshot
    PROVE  /\ Diff(new, old) \subseteq StatusUpdate
           /\ \A u \in Diff(new, old) :
                /\ OfPart(u) => u.id \in Present(new) /\ u.value = new.parts[u.id]
                /\ ~OfPart(u) => u.raised = new.alarms
           /\ \A i \in Present(new) :
                new.parts[i] # old.parts[i] => PartOf(i, new.parts[i]) \in Diff(new, old)
           /\ new.alarms # old.alarms => AlarmsOf(new.alarms) \in Diff(new, old)
<1>1. \A i \in Present(new) : i \in Ids /\ new.parts[i] \in Values
  BY DEF Present, Snapshot
<1>2. new.alarms \in SUBSET Alarms
  BY DEF Snapshot
<1>3. ASSUME NEW u \in Diff(new, old)
      PROVE  \/ \E i \in Present(new) : u = PartOf(i, new.parts[i])
             \/ u = AlarmsOf(new.alarms)
  BY <1>3 DEF Diff
<1>4. ASSUME NEW u \in Diff(new, old)
      PROVE  /\ u \in StatusUpdate
             /\ OfPart(u) => u.id \in Present(new) /\ u.value = new.parts[u.id]
             /\ ~OfPart(u) => u.raised = new.alarms
  <2>1. CASE u = AlarmsOf(new.alarms)
    BY <2>1, <1>2, AlarmUpdate
  <2>2. CASE \E i \in Present(new) : u = PartOf(i, new.parts[i])
    <3>1. PICK i \in Present(new) : u = PartOf(i, new.parts[i])
      BY <2>2
    <3>. QED
      BY <3>1, <1>1, PartUpdate
  <2>. QED
    BY <1>3, <2>1, <2>2
<1>5. \A i \in Present(new) :
        new.parts[i] # old.parts[i] => PartOf(i, new.parts[i]) \in Diff(new, old)
  BY DEF Diff
<1>6. new.alarms # old.alarms => AlarmsOf(new.alarms) \in Diff(new, old)
  BY DEF Diff
<1>. QED
  BY <1>4, <1>5, <1>6

(* What folding a queue of one reading comes to.                           *)
LEMMA FoldHolds ==
    ASSUME StreamInv
    PROVE  /\ ApplyAll(live, queue) \in Snapshot
           /\ \A i \in Present(prev) :
                ApplyAll(live, queue).parts[i] = prev.parts[i]
           /\ (\E u \in queue : ~OfPart(u)) =>
                ApplyAll(live, queue).alarms = prev.alarms
           /\ ~(\E u \in queue : ~OfPart(u)) =>
                ApplyAll(live, queue).alarms = live.alarms
<1>. DEFINE Of(i) == \E u \in queue : OfPart(u) /\ u.id = i
            Pick(i) == CHOOSE u \in queue : OfPart(u) /\ u.id = i
            Waits == \E u \in queue : ~OfPart(u)
            PickA == CHOOSE u \in queue : ~OfPart(u)
            Parts == [i \in Ids |-> IF Of(i) THEN Pick(i).value ELSE live.parts[i]]
            Raised == IF Waits THEN PickA.raised ELSE live.alarms
<1>1. ApplyAll(live, queue) = [parts |-> Parts, alarms |-> Raised]
  BY DEF ApplyAll
<1>2. /\ ApplyAll(live, queue).parts = Parts
      /\ ApplyAll(live, queue).alarms = Raised
  BY <1>1
<1>3. queue \subseteq StatusUpdate /\ live \in Snapshot /\ prev \in Snapshot
  BY DEF StreamInv, TypeOK
<1>4. ASSUME NEW i \in Ids, Of(i)
      PROVE  Pick(i) \in queue /\ OfPart(Pick(i)) /\ Pick(i).id = i
  BY <1>4
<1>5. ASSUME NEW i \in Ids, Of(i)
      PROVE  Pick(i).value = prev.parts[i] /\ Pick(i).value \in Values
  <2>1. Pick(i) \in queue /\ OfPart(Pick(i)) /\ Pick(i).id = i
    BY <1>4, <1>5
  <2>2. Pick(i).value = prev.parts[Pick(i).id]
    BY <2>1 DEF StreamInv, QueueOfReading
  <2>3. Pick(i).value \in Values
    BY <2>1, <1>3, UpdateParts
  <2>. QED
    BY <2>1, <2>2, <2>3
<1>6. Parts \in [Ids -> Values \cup {Absent}]
  <2>1. \A i \in Ids : live.parts[i] \in Values \cup {Absent}
    BY <1>3 DEF Snapshot
  <2>2. ASSUME NEW i \in Ids
        PROVE  (IF Of(i) THEN Pick(i).value ELSE live.parts[i])
                 \in Values \cup {Absent}
    BY <2>1, <1>5
  <2>. HIDE DEF Of, Pick
  <2>. QED
    BY <2>2
<1>7. Waits => PickA \in queue /\ ~OfPart(PickA)
  OBVIOUS
<1>8. Waits => PickA.raised = prev.alarms
  BY <1>7 DEF StreamInv, QueueOfReading
<1>9. Raised \in SUBSET Alarms
  <2>1. live.alarms \in SUBSET Alarms /\ prev.alarms \in SUBSET Alarms
    BY <1>3 DEF Snapshot
  <2>. HIDE DEF Waits, PickA
  <2>. QED
    BY <2>1, <1>8
<1>10. ASSUME NEW i \in Present(prev)
       PROVE  Parts[i] = prev.parts[i]
  <2>1. i \in Ids /\ prev.parts[i] \in Values
    BY <1>3 DEF Present, Snapshot
  <2>2. CASE Of(i)
    BY <2>1, <2>2, <1>5
  <2>3. CASE ~Of(i)
    <3>1. PartOf(i, prev.parts[i]) \notin queue
      BY <2>1, <2>3, PartUpdate
    <3>2. live.parts[i] = prev.parts[i]
      BY <3>1 DEF StreamInv, KnownOrQueued
    <3>. QED
      BY <2>1, <2>3, <3>2
  <2>. QED
    BY <2>2, <2>3
<1>11. ApplyAll(live, queue) \in Snapshot
  BY <1>1, <1>6, <1>9 DEF Snapshot
<1>. HIDE DEF Parts, Raised
<1>12. (Waits => Raised = prev.alarms) /\ (~Waits => Raised = live.alarms)
  BY <1>8 DEF Raised
<1>. QED
  BY <1>2, <1>10, <1>11, <1>12

-----------------------------------------------------------------------------
LEMMA StreamInit == Init => StreamInv
<1>. SUFFICES ASSUME Init PROVE StreamInv
  OBVIOUS
<1>1. TypeOK
  BY EmptySnapshot DEF Init, TypeOK
<1>2. QueueOfReading /\ KnownOrQueued
  BY EmptySnapshot DEF Init, QueueOfReading, KnownOrQueued
<1>. QED
  BY <1>1, <1>2 DEF StreamInv

(* A new stream begins: nothing is read of it yet, nothing is queued.      *)
LEMMA SubscribeKeeps == StreamInv /\ Subscribe => StreamInv'
<1>. SUFFICES ASSUME StreamInv, Subscribe PROVE StreamInv'
  OBVIOUS
<1>1. TypeOK'
  BY EmptySnapshot DEF StreamInv, TypeOK, Subscribe
<1>2. Present(prev') = {} /\ queue' = {}
  BY EmptySnapshot DEF Subscribe
<1>3. QueueOfReading' /\ KnownOrQueued'
  BY <1>2 DEF QueueOfReading, KnownOrQueued
<1>. QED
  BY <1>1, <1>3 DEF StreamInv

(* A reading: what it changes is queued, what it leaves is known already.  *)
LEMMA ReadKeeps == StreamInv /\ Read => StreamInv'
<1>. SUFFICES ASSUME StreamInv, Read PROVE StreamInv'
  OBVIOUS
<1>1. /\ device \in Snapshot /\ prev \in Snapshot
      /\ live \in Snapshot /\ shown \in Snapshot
  BY DEF StreamInv, TypeOK
<1>2. /\ queue = {} /\ queue' = Diff(device, prev) /\ prev' = device
      /\ device' = device /\ live' = live /\ shown' = shown /\ stream' = "open"
      /\ monitor' = monitor
  BY DEF Read
<1>3. TypeOK'
  BY <1>1, <1>2, DiffHolds DEF StreamInv, TypeOK
<1>4. QueueOfReading'
  BY <1>1, <1>2, DiffHolds DEF QueueOfReading
<1>5. ASSUME NEW i \in Present(device)
      PROVE  \/ live.parts[i] = device.parts[i]
             \/ PartOf(i, device.parts[i]) \in Diff(device, prev)
  <2>1. CASE device.parts[i] # prev.parts[i]
    BY <1>1, <2>1, DiffHolds
  <2>2. CASE device.parts[i] = prev.parts[i]
    <3>1. i \in Present(prev)
      BY <2>2 DEF Present
    <3>. QED
      BY <1>2, <2>2, <3>1 DEF StreamInv, KnownOrQueued
  <2>. QED
    BY <2>1, <2>2
<1>6. KnownOrQueued'
  BY <1>2, <1>5 DEF KnownOrQueued
<1>. QED
  BY <1>3, <1>4, <1>6 DEF StreamInv

(* The window folds the whole queue.                                       *)
LEMMA FollowKeeps == StreamInv /\ Follow => StreamInv'
<1>. SUFFICES ASSUME StreamInv, Follow PROVE StreamInv'
  OBVIOUS
<1>1. /\ live' = ApplyAll(live, queue) /\ shown' = live' /\ queue' = {}
      /\ device' = device /\ stream' = stream /\ prev' = prev
      /\ monitor' = monitor
  BY DEF Follow
<1>2. live' \in Snapshot /\ \A i \in Present(prev) : live'.parts[i] = prev.parts[i]
  BY <1>1, FoldHolds
<1>3. TypeOK'
  BY <1>1, <1>2 DEF StreamInv, TypeOK
<1>4. QueueOfReading' /\ KnownOrQueued'
  BY <1>1, <1>2 DEF QueueOfReading, KnownOrQueued
<1>. QED
  BY <1>3, <1>4 DEF StreamInv

(* The monitor folds one update: its element becomes that of the reading,  *)
(* the others stay known or queued.                                        *)
LEMMA TakeKeeps == StreamInv /\ Take => StreamInv'
<1>. SUFFICES ASSUME StreamInv, Take PROVE StreamInv'
  OBVIOUS
<1>1. PICK u \in queue : live' = Apply(live, u) /\ queue' = queue \ {u}
  BY DEF Take
<1>2. /\ device' = device /\ stream' = stream /\ prev' = prev
      /\ shown' = shown /\ monitor' = monitor
  BY DEF Take
<1>3. u \in StatusUpdate /\ live \in Snapshot /\ prev \in Snapshot
  BY <1>1 DEF StreamInv, TypeOK
<1>4. /\ OfPart(u) => u.id \in Present(prev) /\ u.value = prev.parts[u.id]
      /\ ~OfPart(u) => u.raised = prev.alarms
  BY <1>1 DEF StreamInv, QueueOfReading
<1>5. live' \in Snapshot
  <2>1. CASE OfPart(u)
    BY <1>1, <1>3, <2>1, UpdateParts DEF Apply, Snapshot
  <2>2. CASE ~OfPart(u)
    BY <1>1, <1>3, <2>2, UpdateParts DEF Apply, Snapshot
  <2>. QED
    BY <2>1, <2>2
<1>6. TypeOK'
  BY <1>1, <1>2, <1>5 DEF StreamInv, TypeOK
<1>7. QueueOfReading'
  BY <1>1, <1>2 DEF StreamInv, QueueOfReading
<1>8. ASSUME NEW i \in Present(prev)
      PROVE  \/ live'.parts[i] = prev.parts[i]
             \/ PartOf(i, prev.parts[i]) \in queue'
  <2>1. i \in Ids /\ prev.parts[i] \in Values
    BY <1>3 DEF Present, Snapshot
  <2>2. \/ live.parts[i] = prev.parts[i]
        \/ PartOf(i, prev.parts[i]) \in queue
    BY DEF StreamInv, KnownOrQueued
  <2>3. CASE OfPart(u) /\ u.id = i
    <3>1. live'.parts[i] = u.value
      BY <1>1, <1>3, <2>1, <2>3 DEF Apply, Snapshot
    <3>. QED
      BY <1>4, <2>3, <3>1
  <2>4. CASE ~(OfPart(u) /\ u.id = i)
    <3>1. live'.parts[i] = live.parts[i]
      <4>1. CASE OfPart(u)
        BY <1>1, <1>3, <2>1, <2>4, <4>1 DEF Apply, Snapshot
      <4>2. CASE ~OfPart(u)
        BY <1>1, <1>3, <4>2 DEF Apply, Snapshot
      <4>. QED
        BY <4>1, <4>2
    <3>2. PartOf(i, prev.parts[i]) # u
      BY <2>1, <2>4, PartUpdate
    <3>. QED
      BY <1>1, <2>2, <3>1, <3>2
  <2>. QED
    BY <2>3, <2>4
<1>9. KnownOrQueued'
  BY <1>2, <1>8 DEF KnownOrQueued
<1>. QED
  BY <1>6, <1>7, <1>9 DEF StreamInv

LEMMA StreamStep == StreamInv /\ [Next]_vars => StreamInv'
<1>. SUFFICES ASSUME StreamInv, [Next]_vars PROVE StreamInv'
  OBVIOUS
<1>. USE DEF StreamInv
<1>1. CASE UNCHANGED <<monitor, stream, prev, queue, live, shown>> /\ device' \in Snapshot
  BY <1>1 DEF TypeOK, QueueOfReading, KnownOrQueued
<1>2. CASE /\ UNCHANGED <<monitor, device, prev, queue, live, shown>>
           /\ stream' \in {"none", "ended"}
  BY <1>2 DEF TypeOK, QueueOfReading, KnownOrQueued
<1>3. CASE UNCHANGED <<monitor, device, stream, prev, queue, live>> /\ shown' = live
  BY <1>3 DEF TypeOK, QueueOfReading, KnownOrQueued
<1>4. CASE UNCHANGED vars
  BY <1>4 DEF vars, TypeOK, QueueOfReading, KnownOrQueued
<1>5. CASE DeviceChanges
  BY <1>1, <1>5 DEF DeviceChanges
<1>6. CASE Subscribe
  BY <1>6, SubscribeKeeps
<1>7. CASE Read
  BY <1>7, ReadKeeps
<1>8. CASE ReadFails \/ StopFollowing
  BY <1>2, <1>8 DEF ReadFails, StopFollowing
<1>9. CASE Follow
  BY <1>9, FollowKeeps
<1>10. CASE Take
  BY <1>10, TakeKeeps
<1>11. CASE PrintDue
  BY <1>3, <1>11 DEF PrintDue
<1>. QED
  BY <1>4, <1>5, <1>6, <1>7, <1>8, <1>9, <1>10, <1>11 DEF Next

(* The invariant holds in every state.                                     *)
THEOREM StreamCorrect == Spec => []StreamInv
BY StreamInit, StreamStep, PTL DEF Spec

(* No update of the last reading is lost to the follower, whatever was     *)
(* interrupted, failed or dropped before (battery.rs:79-84).               *)
THEOREM CatchesUp == Spec => []FollowerCatchesUp
<1>1. StreamInv => FollowerCatchesUp
  BY FoldHolds DEF FollowerCatchesUp, Covers
<1>. QED
  BY <1>1, StreamCorrect, PTL

(* What the window is sent is of one reading (worker.rs:136-142).          *)
THEOREM WindowShownWhole == Spec => ShownWhole
<1>1. StreamInv /\ [Next]_vars =>
        [~monitor /\ shown' # shown => Covers(shown', prev)]_vars
  <2>. SUFFICES ASSUME StreamInv, Next, ~monitor, shown' # shown
                PROVE  Covers(shown', prev)
    BY DEF vars
  <2>1. Follow
    BY DEF Next, DeviceChanges, Subscribe, Read, ReadFails, StopFollowing,
           Take, PrintDue
  <2>2. shown' = ApplyAll(live, queue)
    BY <2>1 DEF Follow
  <2>. QED
    BY <2>2, FoldHolds DEF Covers
<1>. QED
  BY <1>1, StreamCorrect, PTL DEF Spec, ShownWhole

-----------------------------------------------------------------------------
(* The alarms.  That they are known or queued holds for the monitor only:  *)
(* its one stream starts from nothing when the monitor holds nothing.      *)
AlarmsKnownOrQueued ==
    /\ stream \in {"none", "fresh"} =>
         queue = {} /\ live.alarms = {} /\ prev.alarms = {}
    /\ stream = "open" =>
         \/ live.alarms = prev.alarms
         \/ AlarmsOf(prev.alarms) \in queue

LEMMA AlarmsStep ==
    ASSUME monitor, StreamInv, AlarmsKnownOrQueued, [Next]_vars
    PROVE  AlarmsKnownOrQueued'
<1>1. /\ device \in Snapshot /\ prev \in Snapshot /\ live \in Snapshot
      /\ queue \subseteq StatusUpdate
  BY DEF StreamInv, TypeOK
<1>2. CASE UNCHANGED <<stream, prev, queue, live>>
  BY <1>2 DEF AlarmsKnownOrQueued
<1>3. CASE Subscribe
  <2>1. Empty.alarms = {}
    BY DEF Empty
  <2>. QED
    BY <1>3, <2>1 DEF Subscribe, AlarmsKnownOrQueued
<1>4. CASE Read
  <2>1. /\ queue = {} /\ queue' = Diff(device, prev) /\ prev' = device
        /\ live' = live /\ stream' = "open" /\ stream \in {"fresh", "open"}
    BY <1>4 DEF Read
  <2>2. live.alarms = prev.alarms
    BY <2>1 DEF AlarmsKnownOrQueued
  <2>3. device.alarms # prev.alarms => AlarmsOf(device.alarms) \in queue'
    BY <1>1, <2>1, DiffHolds
  <2>. QED
    BY <2>1, <2>2, <2>3 DEF AlarmsKnownOrQueued
<1>5. CASE ReadFails
  BY <1>5 DEF ReadFails, AlarmsKnownOrQueued
<1>6. CASE Take
  <2>1. PICK u \in queue : live' = Apply(live, u) /\ queue' = queue \ {u}
    BY <1>6 DEF Take
  <2>2. prev' = prev /\ stream' = stream
    BY <1>6 DEF Take
  <2>3. stream \notin {"none", "fresh"}
    BY <2>1 DEF AlarmsKnownOrQueued
  <2>4. CASE OfPart(u)
    <3>1. live'.alarms = live.alarms
      BY <1>1, <2>1, <2>4 DEF Apply, Snapshot
    <3>2. prev.alarms \in SUBSET Alarms
      BY <1>1 DEF Snapshot
    <3>3. AlarmsOf(prev.alarms) # u
      BY <2>4, <3>2, AlarmUpdate
    <3>. QED
      BY <2>1, <2>2, <2>3, <3>1, <3>3 DEF AlarmsKnownOrQueued
  <2>5. CASE ~OfPart(u)
    <3>1. live'.alarms = u.raised
      BY <1>1, <2>1, <2>5 DEF Apply, Snapshot
    <3>2. u.raised = prev.alarms
      BY <2>1, <2>5 DEF StreamInv, QueueOfReading
    <3>. QED
      BY <2>2, <2>3, <3>1, <3>2 DEF AlarmsKnownOrQueued
  <2>. QED
    BY <2>4, <2>5
<1>. QED
  BY <1>2, <1>3, <1>4, <1>5, <1>6
  DEF Next, DeviceChanges, StopFollowing, Follow, PrintDue, vars

(* The monitor shows an alarm while it is raised and takes it back when it *)
(* is not (battery.rs:81-84, types.rs:647-653).                            *)
THEOREM MonitorAlarms == Spec => []AlarmsMaintained
<1>. DEFINE AlarmsInv == monitor => AlarmsKnownOrQueued
<1>1. Init => AlarmsInv
  BY DEF Init, AlarmsKnownOrQueued, Empty
<1>2. StreamInv /\ AlarmsInv /\ [Next]_vars => AlarmsInv'
  <2>1. [Next]_vars => monitor' = monitor
    BY DEF Next, DeviceChanges, Subscribe, Read, ReadFails, StopFollowing,
           Follow, Take, PrintDue, vars
  <2>. QED
    BY <2>1, AlarmsStep
<1>3. StreamInv /\ AlarmsInv => AlarmsMaintained
  <2>. SUFFICES ASSUME StreamInv, AlarmsKnownOrQueued, stream = "open"
                PROVE  ApplyAll(live, queue).alarms = prev.alarms
    BY DEF AlarmsMaintained
  <2>1. CASE \E u \in queue : ~OfPart(u)
    BY <2>1, FoldHolds
  <2>2. CASE ~(\E u \in queue : ~OfPart(u))
    <3>1. prev.alarms \in SUBSET Alarms
      BY DEF StreamInv, TypeOK, Snapshot
    <3>2. AlarmsOf(prev.alarms) \notin queue
      BY <2>2, <3>1, AlarmUpdate
    <3>. QED
      BY <2>2, <3>2, FoldHolds DEF AlarmsKnownOrQueued
  <2>. QED
    BY <2>1, <2>2
<1>. HIDE DEF AlarmsInv
<1>. QED
  BY <1>1, <1>2, <1>3, StreamCorrect, PTL DEF Spec

-----------------------------------------------------------------------------
(* The console of a Pylontech pack.                                        *)

Commands == {"info", "bat", "stat"}
Pieces == [of : Commands, part : {1, 2}]

ConsoleTypes ==
    /\ at \in {"idle"} \cup Commands
    /\ owed \in Seq(Pieces) /\ line \in Seq(Pieces) /\ taken \in Seq(Pieces)
    /\ late \in BOOLEAN
    /\ at = "idle" => taken = <<>>

(* Unless a command was cut short, what was read, what arrived and what is *)
(* still to come make up the answer to the command under way.              *)
InStep ==
    ~late => /\ at = "idle" => line = <<>> /\ owed = <<>>
             /\ at # "idle" => taken \o line \o owed = Output(at)
             /\ at = "stat" => frame = Cells

ConsoleInv == ConsoleTypes /\ InStep /\ CellsOnce

(* The CAN bus.  Turn: the places of the round; Arc(i, e): those after i   *)
(* and before e, going round.                                              *)
Turn == 1 .. Len(Round)
Following(i) == IF i = Len(Round) THEN 1 ELSE i + 1
Arc(i, e) == IF i < e THEN i + 1 .. e - 1 ELSE (i + 1 .. Len(Round)) \cup (1 .. e - 1)
Place(k) == CHOOSE i \in Turn : Round[i] = k
Needed == {i \in Turn : Round[i] \in {"soc", "volts"}}
Kinds(S) == {Round[i] : i \in S}

(* The place of the frame the pack sends next, and of the one that is read *)
(* next, with whether one was lost before it.                              *)
Coming == IF owed = <<>> THEN 1 ELSE Len(Round) + 1 - Len(owed)
Expected == IF line = <<>> THEN Coming ELSE Place(line[1].kind)
Gap == IF line = <<>> THEN lost ELSE line[1].gap

BusTypes ==
    /\ at \in {"idle", "can"}
    /\ owed \in Seq(ToSet(Round)) /\ Len(owed) <= Len(Round)
    /\ \A j \in 1 .. Len(owed) : owed[j] = Round[Len(Round) - Len(owed) + j]
    /\ line \in Seq([kind : ToSet(Round), gap : BOOLEAN])
    /\ lost \in BOOLEAN /\ torn \in BOOLEAN /\ synced \in BOOLEAN

(* Frames without a gap between them follow one another in the round.      *)
InTurn ==
    /\ \A i \in 1 .. Len(line) - 1 :
           ~line[i + 1].gap => Place(line[i + 1].kind) = Following(Place(line[i].kind))
    /\ line # <<>> /\ ~lost => Coming = Following(Place(line[Len(line)].kind))

(* Between two collections the next frame follows one that completes a     *)
(* reading; during one, what was fed is all from there to the next frame.  *)
Fed ==
    /\ at = "idle" /\ synced /\ ~Gap => \E i \in Needed : Expected = Following(i)
    /\ at = "can" /\ synced /\ ~torn /\ ~Gap =>
           \E i \in Needed : state = Kinds(Arc(i, Expected))
    /\ at = "can" => ~Coherent(state)

BusInv == BusTypes /\ InTurn /\ Fed /\ RoundWhole

PackInv ==
    /\ via \in {"cli", "can"}
    /\ via = "cli" => ConsoleInv
    /\ via = "can" => BusInv

-----------------------------------------------------------------------------
(* Texts of the console.                                                   *)

LEMMA OutputIsText ==
    ASSUME NEW c \in Commands
    PROVE  /\ Output(c) \in Seq(Pieces) /\ Len(Output(c)) = 2
           /\ Output(c)[1] = [of |-> c, part |-> 1]
           /\ Output(c)[2] = [of |-> c, part |-> 2]
<1>1. [of |-> c, part |-> 1] \in Pieces /\ [of |-> c, part |-> 2] \in Pieces
  BY DEF Pieces
<1>2. QED
  BY <1>1 DEF Output

LEMMA Regroup ==
    ASSUME NEW x \in Seq(Pieces), NEW y \in Seq(Pieces), NEW z \in Seq(Pieces)
    PROVE  (x \o y) \o z = x \o (y \o z)
  BY ConcatAssociative, SMT

LEMMA Joined ==
    ASSUME NEW x \in Seq(Pieces), NEW y \in Seq(Pieces)
    PROVE  x \o y \in Seq(Pieces) /\ Len(x \o y) = Len(x) + Len(y)
  OBVIOUS

(* A read takes the front of what arrived.                                 *)
LEMMA ReadSplits ==
    ASSUME NEW l \in Seq(Pieces), NEW n \in 1 .. Len(l)
    PROVE  /\ SubSeq(l, 1, n) \in Seq(Pieces) /\ SubSeq(l, n + 1, Len(l)) \in Seq(Pieces)
           /\ l = SubSeq(l, 1, n) \o SubSeq(l, n + 1, Len(l))
           /\ Len(SubSeq(l, 1, n)) # 0 /\ Len(SubSeq(l, 1, n)) \in Nat
<1>1. Len(l) \in Nat /\ n \in Nat \ {0} /\ n <= Len(l)
  OBVIOUS
<1>2. /\ SubSeq(l, 1, n) \in Seq(Pieces) /\ SubSeq(l, n + 1, Len(l)) \in Seq(Pieces)
      /\ Len(SubSeq(l, 1, n)) = n
  BY <1>1
<1>3. SubSeq(l, 1, n) \o SubSeq(l, n + 1, Len(l)) = SubSeq(l, 1, Len(l))
  BY <1>1, ConcatAdjacentSubSeq
<1>4. SubSeq(l, 1, Len(l)) = l
  BY SubSeqFull
<1>5. QED
  BY <1>1, <1>2, <1>3, <1>4

(* What ends with the prompt is the whole answer.                          *)
LEMMA EndsWhole ==
    ASSUME NEW c \in Commands, NEW u \in Seq(Pieces), NEW r \in Seq(Pieces),
           NEW o \in Seq(Pieces), Len(u) # 0, u \o r \o o = Output(c), Ends(u)
    PROVE  u = Output(c) /\ r = <<>> /\ o = <<>>
<1>1. /\ Len(u) \in Nat /\ Len(r) \in Nat /\ Len(o) \in Nat /\ u \o r \in Seq(Pieces)
      /\ Len(u \o r \o o) = Len(u) + Len(r) + Len(o)
  OBVIOUS
<1>2. Len(u) + Len(r) + Len(o) = 2
  BY <1>1, OutputIsText
<1>3. \A i \in 1 .. Len(u) : u[i] = Output(c)[i]
  <2> DEFINE ur == u \o r
  <2>1. ur \in Seq(Pieces) /\ Len(ur) = Len(u) + Len(r) /\ \A i \in 1 .. Len(u) : ur[i] = u[i]
    OBVIOUS
  <2> HIDE DEF ur
  <2>2. \A i \in 1 .. Len(ur) : (ur \o o)[i] = ur[i]
    BY <2>1
  <2>3. \A i \in 1 .. Len(u) : (ur \o o)[i] = u[i]
    BY <1>1, <2>1, <2>2
  <2>4. QED
    BY <2>3 DEF ur
<1>4. Len(u) = 2
  <2>1. SUFFICES ASSUME Len(u) = 1 PROVE FALSE
    <3>1. \A i, j, k \in Nat : i # 0 /\ i + j + k = 2 => i = 1 \/ i = 2
      OBVIOUS
    <3>2. QED
      BY <1>1, <1>2, <3>1, Zenon
  <2>2. u[1] = [of |-> c, part |-> 1]
    <3>1. u[1] = Output(c)[1]
      BY <1>3, <2>1
    <3>2. QED
      BY <3>1, OutputIsText, Zenon
  <2>3. u[1].part = 2
    BY <2>1 DEF Ends
  <2>4. QED
    BY <2>2, <2>3
<1>5. r = <<>> /\ o = <<>>
  BY <1>1, <1>2, <1>4
<1>6. u \o r \o o = u
  BY <1>5
<1>7. QED
  BY <1>5, <1>6

LEMMA RowsOfAnswer == Has(Output("bat"), "bat") /\ Rows(Output("bat")) = Cells
<1> DEFINE o == Output("bat")
<1>1. /\ DOMAIN o = 1 .. 2 /\ o[1] = [of |-> "bat", part |-> 1]
      /\ o[2] = [of |-> "bat", part |-> 2]
  <2>1. o \in Seq(Pieces) /\ Len(o) = 2
    BY OutputIsText DEF Commands
  <2>2. QED
    BY <2>1, OutputIsText DEF Commands
<1> HIDE DEF o
<1>2. {j \in DOMAIN o : o[j].of = "bat"} = 1 .. 2
  BY <1>1
<1>3. Has(o, "bat")
  BY <1>1 DEF Has
<1>4. Rows(o) = [i \in 1 .. 2 |-> o[i].part]
  BY <1>2 DEF Rows
<1>5. [i \in 1 .. 2 |-> o[i].part] = <<1, 2>>
  BY <1>1
<1>6. QED
  BY <1>3, <1>4, <1>5 DEF Cells, o

-----------------------------------------------------------------------------
(* Steps at the console.                                                   *)

LEMMA AnswerOnly ==
    ASSUME NEW c \in Commands
    PROVE  <<>> \o <<>> \o (<<>> \o Output(c)) = Output(c)
  BY OutputIsText

(* The end of a command, with its text and what is left unread.            *)
LEMMA OverKeeps ==
    ASSUME via = "cli", ConsoleInv, at \in Commands,
           NEW text \in Seq(Pieces), NEW rest \in Seq(Pieces), Over(text, rest),
           late' \in BOOLEAN,
           ~late' => /\ text = Output(at) /\ rest = <<>> /\ owed = <<>>
                     /\ at = "stat" => frame = Cells
    PROVE  ConsoleInv'
<1>1. /\ line' = rest /\ taken' = <<>> /\ via' = via
      /\ OverInfo(text) \/ OverBat(text) \/ OverStat(text)
  BY DEF Over
<1>2. /\ owed \in Seq(Pieces) /\ <<>> \in Seq(Pieces)
      /\ \A c \in Commands : owed \o Output(c) \in Seq(Pieces)
  <2>1. owed \in Seq(Pieces) /\ <<>> \in Seq(Pieces)
    BY DEF ConsoleInv, ConsoleTypes
  <2>2. \A c \in Commands : Output(c) \in Seq(Pieces)
    BY OutputIsText
  <2>3. QED
    BY <2>1, <2>2
<1>3. CASE OverInfo(text)
  <2>1. /\ at' = "bat" /\ owed' = owed \o Output("bat")
        /\ UNCHANGED <<reading, life, marred>>
    BY <1>3 DEF OverInfo
  <2>2. ConsoleTypes'
    BY <1>1, <1>2, <2>1 DEF ConsoleTypes, Commands
  <2>3. InStep'
    BY <1>1, <2>1, AnswerOnly DEF InStep, Commands
  <2>4. CellsOnce'
    BY <1>1, <2>1 DEF CellsOnce, ConsoleInv
  <2>5. QED
    BY <2>2, <2>3, <2>4 DEF ConsoleInv
<1>4. CASE OverBat(text)
  <2>1. at = "bat" /\ UNCHANGED <<life, marred>>
    BY <1>4 DEF OverBat
  <2>2. ~late' => Has(text, "bat") /\ Rows(text) = Cells
    BY <2>1, RowsOfAnswer
  <2>3. CASE at' = "idle" /\ owed' = owed /\ reading' = reading /\ ~Has(text, "bat")
    <3>1. ConsoleTypes'
      BY <1>1, <1>2, <2>3 DEF ConsoleTypes
    <3>2. InStep'
      BY <2>2, <2>3 DEF InStep
    <3>3. CellsOnce'
      BY <1>1, <2>1, <2>3 DEF CellsOnce, ConsoleInv
    <3>4. QED
      BY <3>1, <3>2, <3>3 DEF ConsoleInv
  <2>4. CASE /\ at' = "stat" /\ owed' = owed \o Output("stat") /\ frame' = Rows(text)
             /\ reading' = reading
    <3>1. ConsoleTypes'
      BY <1>1, <1>2, <2>4 DEF ConsoleTypes, Commands
    <3>2. InStep'
      BY <1>1, <2>2, <2>4, AnswerOnly DEF InStep, Commands
    <3>3. CellsOnce'
      BY <1>1, <2>1, <2>4 DEF CellsOnce, ConsoleInv
    <3>4. QED
      BY <3>1, <3>2, <3>3 DEF ConsoleInv
  <2>5. CASE at' = "idle" /\ reading' = Reading(Rows(text)) /\ owed' = owed
    <3>1. ConsoleTypes'
      BY <1>1, <1>2, <2>5 DEF ConsoleTypes
    <3>2. InStep'
      BY <1>1, <2>5 DEF InStep
    <3>3. reading'.late = late' /\ reading'.cells = Rows(text)
      BY <2>5 DEF Reading
    <3>4. CellsOnce'
      BY <1>1, <2>1, <2>2, <3>3 DEF CellsOnce, ConsoleInv
    <3>5. QED
      BY <3>1, <3>2, <3>4 DEF ConsoleInv
  <2>6. QED
    BY <1>4, <2>3, <2>4, <2>5 DEF OverBat
<1>5. CASE OverStat(text)
  <2>1. /\ at = "stat" /\ at' = "idle" /\ owed' = owed /\ marred' = late'
        /\ reading' = Reading(frame)
        /\ life' = IF Has(text, "stat") THEN "known" ELSE "none"
    BY <1>5 DEF OverStat
  <2>2. ConsoleTypes'
    BY <1>1, <1>2, <2>1 DEF ConsoleTypes
  <2>3. InStep'
    BY <1>1, <2>1 DEF InStep
  <2>4. reading'.late = late' /\ reading'.cells = frame
    BY <2>1 DEF Reading
  <2>5. life' = "none" => marred'
    <3>1. Has(Output("stat"), "stat")
      <4>1. 1 \in DOMAIN Output("stat") /\ Output("stat")[1].of = "stat"
        BY OutputIsText DEF Commands
      <4>2. QED
        BY <4>1 DEF Has
    <3>2. QED
      BY <2>1, <3>1
  <2>6. CellsOnce'
    BY <2>1, <2>4, <2>5 DEF CellsOnce
  <2>7. QED
    BY <2>2, <2>3, <2>6 DEF ConsoleInv
<1>6. QED
  BY <1>1, <1>3, <1>4, <1>5

LEMMA PieceKeeps ==
    ASSUME via = "cli", ConsoleInv, Piece
    PROVE  ConsoleInv'
<1>1. /\ owed \in Seq(Pieces) /\ line \in Seq(Pieces) /\ taken \in Seq(Pieces) /\ owed # <<>>
      /\ owed' = Tail(owed) /\ line' = Append(line, Head(owed))
      /\ UNCHANGED <<via, at, taken, reading, info, frame, life, late, marred>>
  BY DEF Piece, ConsoleInv, ConsoleTypes, cli
<1>2. ConsoleTypes'
  BY <1>1 DEF ConsoleInv, ConsoleTypes
<1>3. taken' \o line' \o owed' = taken \o line \o owed
  <2> DEFINE h == <<Head(owed)>>
             r == Tail(owed)
  <2>1. taken \in Seq(Pieces)
    BY <1>1
  <2>2. line \in Seq(Pieces)
    BY <1>1
  <2>3. h \in Seq(Pieces)
    BY <1>1
  <2>4. r \in Seq(Pieces)
    BY <1>1
  <2>5. line' = line \o h
    BY <1>1, AppendIsConcat
  <2>6. owed = h \o r /\ owed' = r
    BY <1>1
  <2> HIDE DEF h, r
  <2>7. taken \o line \in Seq(Pieces)
    BY <2>1, <2>2
  <2>8. (taken \o line) \o h = taken \o (line \o h)
    BY <2>1, <2>2, <2>3, Regroup, Zenon
  <2>9. ((taken \o line) \o h) \o r = (taken \o line) \o (h \o r)
    BY <2>3, <2>4, <2>7, Regroup, Zenon
  <2>10. QED
    BY <1>1, <2>5, <2>6, <2>8, <2>9, Zenon
<1>4. InStep'
  BY <1>1, <1>3 DEF InStep, ConsoleInv
<1>5. CellsOnce'
  BY <1>1 DEF CellsOnce, ConsoleInv
<1>6. QED
  BY <1>2, <1>4, <1>5 DEF ConsoleInv

LEMMA BeginStatusKeeps ==
    ASSUME via = "cli", ConsoleInv, BeginStatus
    PROVE  ConsoleInv'
<1>1. /\ owed \in Seq(Pieces) /\ line \in Seq(Pieces) /\ taken = <<>> /\ late \in BOOLEAN
      /\ at = "idle" /\ at' \in Commands /\ at' # "stat"
      /\ owed' = owed \o Output(at') /\ late' = (late /\ ~Quiet)
      /\ reading' = None /\ UNCHANGED <<via, line, taken, life, marred>>
  BY DEF BeginStatus, ConsoleInv, ConsoleTypes, Commands
<1>2. Output(at') \in Seq(Pieces)
  BY <1>1, OutputIsText
<1>3. owed' \in Seq(Pieces)
  BY <1>1, <1>2
<1>4. ConsoleTypes'
  BY <1>1, <1>3 DEF ConsoleTypes, Commands
<1>5. ~late' => line = <<>> /\ owed = <<>>
  BY <1>1 DEF ConsoleInv, InStep, Quiet
<1>6. InStep'
  BY <1>1, <1>5, AnswerOnly DEF InStep, Commands
<1>7. CellsOnce'
  BY <1>1 DEF CellsOnce, ConsoleInv
<1>8. QED
  BY <1>4, <1>6, <1>7 DEF ConsoleInv

LEMMA ReadPortKeeps ==
    ASSUME via = "cli", ConsoleInv, NEW n \in 1 .. Len(line), ReadPort(n)
    PROVE  ConsoleInv'
<1>1. /\ owed \in Seq(Pieces) /\ line \in Seq(Pieces) /\ taken \in Seq(Pieces)
      /\ late \in BOOLEAN /\ at \in Commands /\ late' = late
      /\ ~late => taken \o line \o owed = Output(at) /\ (at = "stat" => frame = Cells)
  BY DEF ReadPort, ConsoleInv, ConsoleTypes, InStep, Commands
<1>2. PICK a \in Seq(Pieces), r \in Seq(Pieces) :
          /\ line = a \o r /\ Len(a) # 0 /\ Len(a) \in Nat
          /\ a = SubSeq(line, 1, n) /\ r = SubSeq(line, n + 1, Len(line))
  BY <1>1, ReadSplits
<1> DEFINE u == taken \o a
<1>3. /\ Ends(u) => Over(u, r)
      /\ ~Ends(u) => /\ taken' = u /\ line' = r
                     /\ UNCHANGED <<via, at, owed, reading, frame, life, marred>>
  BY <1>2 DEF ReadPort
<1> HIDE DEF u
<1>4. /\ u \in Seq(Pieces) /\ Len(u) # 0
       /\ u \o r \o owed = taken \o line \o owed
  <2>1. taken \o a \in Seq(Pieces) /\ (taken \o a) \o r = taken \o (a \o r)
    <3>1. taken \in Seq(Pieces)
      BY <1>1
    <3>2. taken \o a \in Seq(Pieces)
      BY <3>1, Joined
    <3>3. (taken \o a) \o r = taken \o (a \o r)
      BY <3>1, Regroup, Zenon
    <3>4. QED
      BY <3>2, <3>3
  <2>2. Len(taken \o a) = Len(taken) + Len(a) /\ Len(taken) \in Nat
    BY <1>1, Joined
  <2>3. Len(taken \o a) # 0
    BY <1>2, <2>2
  <2>4. QED
    BY <1>2, <2>1, <2>3, Zenon DEF u
<1>5. CASE Ends(u)
  <2>1. ~late' => /\ u = Output(at) /\ r = <<>> /\ owed = <<>>
                  /\ at = "stat" => frame = Cells
    BY <1>1, <1>5, <1>4, EndsWhole
  <2>2. QED
    BY <1>1, <1>3, <1>5, <1>4, <2>1, OverKeeps
<1>6. CASE ~Ends(u)
  <2>1. ConsoleTypes'
    BY <1>1, <1>3, <1>6, <1>4 DEF ConsoleTypes, Commands
  <2>2. InStep'
    BY <1>1, <1>3, <1>6, <1>4 DEF InStep, Commands
  <2>3. CellsOnce'
    BY <1>1, <1>3, <1>6 DEF CellsOnce, ConsoleInv
  <2>4. QED
    BY <2>1, <2>2, <2>3 DEF ConsoleInv
<1>7. QED
  BY <1>5, <1>6

LEMMA CutShortKeeps ==
    ASSUME via = "cli", ConsoleInv, CutShort
    PROVE  ConsoleInv'
<1>1. /\ line \in Seq(Pieces) /\ taken \in Seq(Pieces) /\ at \in Commands /\ late' = TRUE
      /\ Over(taken, line)
  BY DEF CutShort, ConsoleInv, ConsoleTypes, Commands
<1>2. QED
  BY <1>1, OverKeeps

LEMMA AbandonKeeps ==
    ASSUME via = "cli", ConsoleInv, PortError \/ GivenUp
    PROVE  ConsoleInv'
<1>1. /\ at' = "idle" /\ late' = TRUE /\ taken' = <<>>
      /\ UNCHANGED <<via, owed, line, life, marred>>
      /\ reading' \in {reading, Reading(frame)}
  BY DEF PortError, GivenUp
<1>2. ConsoleTypes'
  BY <1>1 DEF ConsoleInv, ConsoleTypes
<1>3. InStep'
  BY <1>1 DEF InStep
<1>4. Reading(frame).late = late'
  BY DEF Reading
<1>5. CellsOnce'
  BY <1>1, <1>4 DEF CellsOnce, ConsoleInv
<1>6. QED
  BY <1>2, <1>3, <1>5 DEF ConsoleInv

LEMMA ConsoleStep ==
    ASSUME via = "cli", ConsoleInv, [PackNext]_packVars
    PROVE  via' = "cli" /\ ConsoleInv'
<1>1. via' = via
  BY DEF PackNext, packVars, Piece, BeginStatus, LifeDue, ReadPort, CutShort, PortError, GivenUp,
         SendRound, Frame, BeginCollect, ReadFrame, CollectTimeout, Over
<1>2. CASE UNCHANGED packVars
  BY <1>2 DEF packVars, ConsoleInv, ConsoleTypes, InStep, CellsOnce
<1>3. CASE LifeDue
  BY <1>3 DEF LifeDue, ConsoleInv, ConsoleTypes, InStep, CellsOnce
<1>4. ASSUME NEW n \in 1 .. Len(line), ReadPort(n) PROVE ConsoleInv'
  BY <1>4, ReadPortKeeps
<1>5. ~(SendRound \/ Frame \/ BeginCollect \/ ReadFrame \/ CollectTimeout)
  BY DEF SendRound, Frame, BeginCollect, ReadFrame, CollectTimeout,
         ConsoleInv, ConsoleTypes, Commands
<1>6. QED
  BY <1>1, <1>2, <1>3, <1>4, <1>5, PieceKeeps, BeginStatusKeeps, CutShortKeeps, AbandonKeeps
     DEF PackNext

-----------------------------------------------------------------------------
(* The round of frames.                                                    *)

LEMMA RoundIsRow ==
    /\ Len(Round) \in Nat \ {0} /\ Turn = DOMAIN Round
    /\ \A i \in Turn : Round[i] \in ToSet(Round)
    /\ \A k \in ToSet(Round) : \E i \in Turn : Round[i] = k
    /\ ToSet(Round) = Kinds(Turn)
<1>1. Len(Round) \in Nat /\ DOMAIN Round = Turn
  BY RoundAssumption DEF Turn
<1>2. ToSet(Round) # {}
  BY RoundAssumption
<1>3. Turn # {}
  BY <1>1, <1>2 DEF ToSet
<1>4. Len(Round) # 0
  BY <1>1, <1>3 DEF Turn
<1>5. QED
  BY <1>1, <1>4 DEF ToSet, Kinds

LEMMA PlaceFound ==
    /\ \A i \in Turn : Place(Round[i]) = i
    /\ \A k \in ToSet(Round) : Place(k) \in Turn /\ Round[Place(k)] = k
<1>1. \A i, j \in Turn : Round[i] = Round[j] => i = j
  BY RoundAssumption, RoundIsRow
<1>2. ASSUME NEW i \in Turn PROVE Place(Round[i]) = i
  BY <1>1 DEF Place
<1>3. ASSUME NEW k \in ToSet(Round) PROVE Place(k) \in Turn /\ Round[Place(k)] = k
  <2>1. \E i \in Turn : Round[i] = k
    BY RoundIsRow
  <2>2. QED
    BY <2>1 DEF Place
<1>4. QED
  BY <1>2, <1>3

LEMMA FollowingInTurn == \A i \in Turn : Following(i) \in Turn
  BY RoundIsRow DEF Turn, Following

(* A stretch of the round begins empty, grows by its end, and is the whole *)
(* round when it ends where it began.                                      *)
LEMMA ArcBegins ==
    ASSUME NEW i \in Turn
    PROVE  Arc(i, Following(i)) = {}
<1>1. Len(Round) \in Nat \ {0} /\ i \in 1 .. Len(Round)
  BY RoundIsRow DEF Turn
<1>2. QED
  BY <1>1 DEF Arc, Following

LEMMA ArcGrows ==
    ASSUME NEW i \in Turn, NEW e \in Turn, i # e
    PROVE  Arc(i, Following(e)) = Arc(i, e) \cup {e}
<1>1. Len(Round) \in Nat \ {0} /\ i \in 1 .. Len(Round) /\ e \in 1 .. Len(Round)
  BY RoundIsRow DEF Turn
<1>2. CASE i < e
  <2>1. CASE e = Len(Round)
    BY <1>1, <1>2, <2>1 DEF Arc, Following
  <2>2. CASE e # Len(Round)
    BY <1>1, <1>2, <2>2 DEF Arc, Following
  <2>3. QED
    BY <2>1, <2>2
<1>3. CASE e < i
  <2>1. Following(e) = e + 1 /\ ~(i < e) /\ ~(i < e + 1)
    BY <1>1, <1>3 DEF Following
  <2>2. 1 .. e + 1 - 1 = (1 .. e - 1) \cup {e}
    BY <1>1
  <2>3. QED
    BY <2>1, <2>2 DEF Arc
<1>4. QED
  BY <1>1, <1>2, <1>3

LEMMA ArcCloses ==
    ASSUME NEW i \in Turn
    PROVE  Arc(i, i) \cup {i} = Turn
<1>1. Len(Round) \in Nat \ {0} /\ i \in 1 .. Len(Round)
  BY RoundIsRow DEF Turn
<1>2. Arc(i, i) = (i + 1 .. Len(Round)) \cup (1 .. i - 1)
  BY <1>1 DEF Arc
<1>3. QED
  BY <1>1, <1>2 DEF Turn

LEMMA ArcWithout ==
    ASSUME NEW i \in Turn, NEW e \in Turn
    PROVE  i \notin Arc(i, e) /\ Arc(i, e) \subseteq Turn
<1>1. Len(Round) \in Nat \ {0} /\ i \in 1 .. Len(Round) /\ e \in 1 .. Len(Round)
  BY RoundIsRow DEF Turn
<1>2. QED
  BY <1>1 DEF Arc, Turn

LEMMA KindsOf ==
    ASSUME NEW S \in SUBSET Turn, NEW i \in Turn
    PROVE  /\ Kinds(S \cup {i}) = Kinds(S) \cup {Round[i]}
           /\ Round[i] \in Kinds(S) => i \in S
<1>1. \A j \in Turn : Round[j] = Round[i] => j = i
  BY RoundAssumption, RoundIsRow
<1>2. QED
  BY <1>1 DEF Kinds

-----------------------------------------------------------------------------
(* The frames that are sent and wait.                                      *)

LEMMA ComingFrame ==
    ASSUME BusTypes
    PROVE  /\ Coming \in Turn
           /\ owed # <<>> => /\ Head(owed) = Round[Coming] /\ Head(owed) \in ToSet(Round)
                             /\ Tail(owed) \in Seq(ToSet(Round))
                             /\ Len(Tail(owed)) = Len(owed) - 1 /\ Len(owed) \in Nat \ {0}
<1>1. /\ owed \in Seq(ToSet(Round)) /\ Len(owed) \in Nat /\ Len(owed) <= Len(Round)
      /\ \A j \in 1 .. Len(owed) : owed[j] = Round[Len(Round) - Len(owed) + j]
      /\ Len(Round) \in Nat \ {0}
  BY RoundIsRow DEF BusTypes
<1>2. CASE owed = <<>>
  BY <1>1, <1>2 DEF Coming, Turn
<1>3. CASE owed # <<>>
  <2>1. /\ Len(owed) # 0 /\ Head(owed) = owed[1] /\ Head(owed) \in ToSet(Round)
        /\ Tail(owed) \in Seq(ToSet(Round)) /\ Len(Tail(owed)) = Len(owed) - 1
    BY <1>1, <1>3
  <2>2. owed[1] = Round[Len(Round) - Len(owed) + 1]
    BY <1>1, <2>1
  <2>3. Coming = Len(Round) - Len(owed) + 1 /\ Coming \in 1 .. Len(Round)
    BY <1>1, <1>3, <2>1 DEF Coming
  <2>4. QED
    BY <1>1, <2>1, <2>2, <2>3 DEF Turn
<1>4. QED
  BY <1>2, <1>3

LEMMA ComingNext ==
    ASSUME BusTypes, owed # <<>>, owed' = Tail(owed)
    PROVE  /\ Coming' = Following(Coming)
           /\ owed' \in Seq(ToSet(Round)) /\ Len(owed') <= Len(Round)
           /\ \A j \in 1 .. Len(owed') : owed'[j] = Round[Len(Round) - Len(owed') + j]
<1>1. /\ owed \in Seq(ToSet(Round)) /\ Len(owed) \in Nat \ {0} /\ Len(owed) <= Len(Round)
      /\ \A j \in 1 .. Len(owed) : owed[j] = Round[Len(Round) - Len(owed) + j]
      /\ Len(Round) \in Nat \ {0}
      /\ owed' \in Seq(ToSet(Round)) /\ Len(owed') = Len(owed) - 1
  BY RoundIsRow, ComingFrame DEF BusTypes
<1>2. \A j \in 1 .. Len(owed) - 1 : owed'[j] = owed[j + 1]
  BY <1>1
<1>3. ASSUME NEW j \in 1 .. Len(owed') PROVE owed'[j] = Round[Len(Round) - Len(owed') + j]
  <2>1. j \in 1 .. Len(owed) - 1 /\ j + 1 \in 1 .. Len(owed)
    BY <1>1
  <2>2. owed'[j] = Round[Len(Round) - Len(owed) + (j + 1)]
    BY <1>1, <1>2, <2>1
  <2>3. Len(Round) - Len(owed) + (j + 1) = Len(Round) - Len(owed') + j
    BY <1>1
  <2>4. QED
    BY <2>2, <2>3
<1>4. owed' = <<>> <=> Len(owed) = 1
  <2>1. owed' = <<>> <=> Len(owed') = 0
    BY <1>1, EmptySeq
  <2>2. QED
    BY <1>1, <2>1
<1>5. Coming = Len(Round) + 1 - Len(owed)
  BY DEF Coming
<1>6. Coming' = IF Len(owed) = 1 THEN 1 ELSE Len(Round) + 1 - (Len(owed) - 1)
  BY <1>1, <1>4 DEF Coming
<1>7. Coming' = Following(Coming)
  BY <1>1, <1>5, <1>6 DEF Following
<1>8. QED
  BY <1>1, <1>3, <1>7

LEMMA FramesInLine ==
    ASSUME BusTypes
    PROVE  /\ Len(line) \in Nat /\ (line = <<>> <=> Len(line) = 0)
           /\ \A i \in 1 .. Len(line) : line[i] \in [kind : ToSet(Round), gap : BOOLEAN]
           /\ line # <<>> =>
                /\ 1 \in 1 .. Len(line) /\ Head(line) = line[1]
                /\ Tail(line) \in Seq([kind : ToSet(Round), gap : BOOLEAN])
                /\ Len(Tail(line)) = Len(line) - 1
                /\ \A i \in 1 .. Len(line) - 1 : Tail(line)[i] = line[i + 1]
<1> DEFINE F == [kind : ToSet(Round), gap : BOOLEAN]
<1>1. line \in Seq(F)
  BY DEF BusTypes
<1> HIDE DEF F
<1>2. QED
  <2>1. /\ Len(line) \in Nat /\ (line = <<>> <=> Len(line) = 0)
        /\ \A i \in 1 .. Len(line) : line[i] \in F
    BY <1>1
  <2>2. ASSUME line # <<>>
        PROVE  /\ 1 \in 1 .. Len(line) /\ Head(line) = line[1]
               /\ Tail(line) \in Seq(F) /\ Len(Tail(line)) = Len(line) - 1
               /\ \A i \in 1 .. Len(line) - 1 : Tail(line)[i] = line[i + 1]
    BY <1>1, <2>1, <2>2
  <2>3. QED
    BY <2>1, <2>2 DEF F

LEMMA ExpectedInTurn ==
    ASSUME BusTypes
    PROVE  Expected \in Turn /\ Gap \in BOOLEAN
<1>1. CASE line = <<>>
  BY <1>1, ComingFrame DEF Expected, Gap, BusTypes
<1>2. CASE line # <<>>
  <2>1. line[1] \in [kind : ToSet(Round), gap : BOOLEAN]
    BY <1>2, FramesInLine
  <2>2. QED
    BY <1>2, <2>1, PlaceFound DEF Expected, Gap
<1>3. QED
  BY <1>1, <1>2

-----------------------------------------------------------------------------
(* Steps of the bus and of a collection.                                   *)

LEMMA FedKept ==
    ASSUME Fed, UNCHANGED <<at, synced, torn, state>>, Gap' = Gap, ~Gap => Expected' = Expected
    PROVE  Fed'
<1>1. \A S : Kinds(S)' = Kinds(S) /\ \A i : Arc(i, Expected)' = Arc(i, Expected')
  BY DEF Kinds, Arc
<1>2. QED
  BY <1>1 DEF Fed, Coherent, Needed

LEMMA RoundWholeKept ==
    ASSUME RoundWhole, UNCHANGED <<via, reading>>
    PROVE  RoundWhole'
  BY DEF RoundWhole

LEMMA InTurnKept ==
    ASSUME InTurn, line' = line, lost' \/ (lost' = lost /\ Coming' = Coming)
    PROVE  InTurn'
<1>1. \A k : Place(k)' = Place(k) /\ Following(k)' = Following(k)
  BY DEF Place, Following, Turn
<1>2. ASSUME NEW i \in 1 .. Len(line') - 1, ~line'[i + 1].gap
      PROVE  Place(line'[i + 1].kind) = Following(Place(line'[i].kind))
  BY <1>2 DEF InTurn
<1>3. ASSUME line' # <<>>, ~lost'
      PROVE  Coming' = Following(Place(line'[Len(line')].kind))
  BY <1>3 DEF InTurn
<1>4. QED
  BY <1>1, <1>2, <1>3 DEF InTurn

LEMMA FrontKept ==
    ASSUME line' = line,
           line # <<>> \/ (lost' = lost /\ Coming' = Coming)
    PROVE  Expected' = Expected /\ Gap' = Gap
<1>1. \A k : Place(k)' = Place(k)
  BY DEF Place, Turn
<1>2. QED
  BY <1>1 DEF Expected, Gap

LEMMA SendRoundKeeps ==
    ASSUME via = "can", BusInv, SendRound
    PROVE  BusInv'
<1>1. /\ owed = <<>> /\ owed' = Round
      /\ UNCHANGED <<via, at, line, reading, state, lost, torn, synced>>
  BY DEF SendRound, can
<1>2. Round \in Seq(ToSet(Round)) /\ Len(Round) \in Nat \ {0}
  <2>1. Len(Round) \in Nat \ {0} /\ \A i \in 1 .. Len(Round) : Round[i] \in ToSet(Round)
    BY RoundIsRow DEF Turn
  <2>2. Round \in [1 .. Len(Round) -> STRING]
    BY RoundAssumption
  <2>3. Round \in [1 .. Len(Round) -> ToSet(Round)]
    BY <2>1, <2>2
  <2>4. QED
    BY <2>1, <2>3
<1>3. BusTypes'
  BY <1>1, <1>2 DEF BusInv, BusTypes
<1>4. Coming' = Coming
  BY <1>1, <1>2 DEF Coming
<1>5. InTurn'
  BY <1>1, <1>4, InTurnKept DEF BusInv
<1>6. Expected' = Expected /\ Gap' = Gap
  BY <1>1, <1>4, FrontKept
<1>7. Fed' /\ RoundWhole'
  BY <1>1, <1>6, FedKept, RoundWholeKept DEF BusInv
<1>8. QED
  BY <1>3, <1>5, <1>7 DEF BusInv

LEMMA FrameKeeps ==
    ASSUME via = "can", BusInv, Frame
    PROVE  BusInv'
<1> DEFINE f == [kind |-> Head(owed), gap |-> lost]
           F == [kind : ToSet(Round), gap : BOOLEAN]
<1>1. /\ owed # <<>> /\ owed' = Tail(owed) /\ lost' = (Len(line) = Capacity)
      /\ line' = IF lost' THEN line ELSE Append(line, f)
      /\ UNCHANGED <<via, at, reading, state, torn, synced>>
  BY DEF Frame
<1>2. /\ BusTypes /\ InTurn /\ Fed /\ RoundWhole
      /\ line \in Seq(F) /\ Len(line) \in Nat /\ lost \in BOOLEAN /\ lost' \in BOOLEAN
  BY <1>1 DEF BusInv, BusTypes
<1>3. Head(owed) = Round[Coming] /\ Coming \in Turn /\ f \in F /\ Place(f.kind) = Coming
  BY <1>1, <1>2, ComingFrame, PlaceFound
<1>4. /\ Coming' = Following(Coming)
      /\ owed' \in Seq(ToSet(Round)) /\ Len(owed') <= Len(Round)
      /\ \A j \in 1 .. Len(owed') : owed'[j] = Round[Len(Round) - Len(owed') + j]
  BY <1>1, <1>2, ComingNext
<1> HIDE DEF f, F
<1>5. CASE lost'
  <2>1. line' = line
    BY <1>1, <1>5
  <2>2. BusTypes'
    BY <1>1, <1>2, <1>4, <2>1 DEF BusTypes
  <2>3. InTurn'
    BY <1>2, <1>5, <2>1, InTurnKept
  <2>4. CASE line = <<>> /\ ~lost
    <3>1. Gap' /\ ~Gap
      BY <1>5, <2>1, <2>4 DEF Gap
    <3>2. Fed'
      BY <1>1, <1>2, <3>1 DEF Fed, Coherent
    <3>3. QED
      BY <1>1, <1>2, <2>2, <2>3, <3>2, RoundWholeKept DEF BusInv
  <2>5. CASE line # <<>> \/ lost
    <3>1. Gap' = Gap /\ (~Gap => Expected' = Expected)
      <4>1. CASE line # <<>>
        BY <2>1, <4>1, FrontKept
      <4>2. CASE line = <<>> /\ lost
        BY <1>2, <1>5, <2>1, <4>2 DEF Gap
      <4>3. QED
        BY <2>5, <4>1, <4>2
    <3>2. Fed'
      BY <1>1, <1>2, <3>1, FedKept
    <3>3. QED
      BY <1>1, <1>2, <2>2, <2>3, <3>2, RoundWholeKept DEF BusInv
  <2>6. QED
    BY <1>2, <2>4, <2>5
<1>6. CASE ~lost'
  <2>1. /\ line' = Append(line, f) /\ line' \in Seq(F) /\ line' # <<>>
        /\ Len(line') = Len(line) + 1 /\ line'[Len(line) + 1] = f
        /\ \A i \in 1 .. Len(line) : line'[i] = line[i]
    BY <1>1, <1>2, <1>3, <1>6
  <2>2. BusTypes'
    BY <1>1, <1>2, <1>4, <2>1 DEF BusTypes, F
  <2>3. \A k : Place(k)' = Place(k) /\ Following(k)' = Following(k)
    BY DEF Place, Following, Turn
  <2>4. f.gap = lost
    BY DEF f
  <2>5. ASSUME NEW i \in 1 .. Len(line), ~line'[i + 1].gap
        PROVE  Place(line'[i + 1].kind) = Following(Place(line'[i].kind))
    <3>1. CASE i = Len(line)
      <4>1. line # <<>> /\ line'[i + 1] = f /\ line'[i] = line[Len(line)]
        BY <1>2, <2>1, <3>1
      <4>2. QED
        BY <1>2, <1>3, <2>4, <2>5, <4>1 DEF InTurn
    <3>2. CASE i # Len(line)
      <4>1. i \in 1 .. Len(line) - 1 /\ i + 1 \in 1 .. Len(line)
        BY <1>2, <3>2
      <4>2. line'[i] = line[i] /\ line'[i + 1] = line[i + 1]
        BY <2>1, <4>1
      <4>3. QED
        BY <1>2, <2>5, <4>1, <4>2 DEF InTurn
    <3>3. QED
      BY <3>1, <3>2
  <2>6. InTurn'
    <3>1. Len(line') - 1 = Len(line)
      BY <1>2, <2>1
    <3>2. Coming' = Following(Place(line'[Len(line')].kind))
      BY <1>3, <1>4, <2>1
    <3>3. QED
      BY <2>3, <2>5, <3>1, <3>2 DEF InTurn
  <2>7. Gap' = Gap /\ Expected' = Expected
    <3>1. CASE line = <<>>
      <4>1. line'[1] = f
        BY <2>1, <3>1
      <4>2. QED
        BY <1>3, <2>1, <2>3, <2>4, <3>1, <4>1 DEF Gap, Expected
    <3>2. CASE line # <<>>
      <4>1. line'[1] = line[1]
        BY <1>2, <2>1, <3>2
      <4>2. QED
        BY <2>1, <2>3, <3>2, <4>1 DEF Gap, Expected
    <3>3. QED
      BY <3>1, <3>2
  <2>8. QED
    BY <1>1, <1>2, <2>2, <2>6, <2>7, FedKept, RoundWholeKept DEF BusInv
<1>7. QED
  BY <1>2, <1>5, <1>6

LEMMA BeginCollectKeeps ==
    ASSUME via = "can", BusInv, BeginCollect
    PROVE  BusInv'
<1>1. /\ at = "idle" /\ at' = "can" /\ state' = {} /\ torn' = FALSE /\ reading' = None
      /\ UNCHANGED <<via, owed, line, lost, synced>>
  BY DEF BeginCollect
<1>2. BusTypes'
  BY <1>1 DEF BusInv, BusTypes
<1>3. InTurn'
  BY <1>1, InTurnKept DEF BusInv, Coming
<1>4. Expected' = Expected /\ Gap' = Gap
  BY <1>1, FrontKept DEF Coming
<1>5. ASSUME synced, ~Gap
      PROVE  \E i \in Needed : state' = Kinds(Arc(i, Expected))
  <2>1. PICK i \in Needed : Expected = Following(i)
    BY <1>1, <1>5 DEF BusInv, Fed
  <2>2. Kinds(Arc(i, Expected)) = {}
    BY <2>1, ArcBegins DEF Kinds, Needed
  <2>3. QED
    BY <1>1, <2>2
<1>6. \A S : Kinds(S)' = Kinds(S) /\ \A i : Arc(i, Expected)' = Arc(i, Expected')
  BY DEF Kinds, Arc
<1>7. ~Coherent(state')
  BY <1>1 DEF Coherent
<1>8. Fed'
  BY <1>1, <1>4, <1>5, <1>6, <1>7 DEF Fed, Needed, Turn, Coherent
<1>9. RoundWhole'
  BY <1>1 DEF RoundWhole
<1>10. QED
  BY <1>2, <1>3, <1>8, <1>9 DEF BusInv

LEMMA CollectTimeoutKeeps ==
    ASSUME via = "can", BusInv, CollectTimeout
    PROVE  BusInv'
<1>1. /\ at' = "idle" /\ synced' = FALSE
      /\ reading' \in {reading, [kinds |-> state, whole |-> FALSE]}
      /\ UNCHANGED <<via, owed, line, state, lost, torn>>
  BY DEF CollectTimeout
<1>2. BusTypes' /\ InTurn'
  <2>1. BusTypes'
    BY <1>1 DEF BusInv, BusTypes
  <2>2. InTurn'
    BY <1>1, InTurnKept DEF BusInv, Coming
  <2>3. QED
    BY <2>1, <2>2
<1>3. Fed'
  BY <1>1 DEF Fed
<1>4. RoundWhole'
  BY <1>1 DEF BusInv, RoundWhole
<1>5. QED
  BY <1>2, <1>3, <1>4 DEF BusInv

(* The frame that is read, and the one that is read after it.              *)
LEMMA FrameRead ==
    ASSUME BusTypes, InTurn, line # <<>>, line' = Tail(line),
           UNCHANGED <<owed, lost>>
    PROVE  /\ line' \in Seq([kind : ToSet(Round), gap : BOOLEAN]) /\ InTurn'
           /\ Head(line).kind = Round[Expected] /\ Head(line).gap = Gap
           /\ ~Gap' => Expected' = Following(Expected)
<1> DEFINE F == [kind : ToSet(Round), gap : BOOLEAN]
<1>1. /\ Len(line) \in Nat \ {0} /\ Head(line) = line[1] /\ line[1] \in F
      /\ line' \in Seq(F) /\ Len(line') = Len(line) - 1
      /\ \A i \in 1 .. Len(line) - 1 : line'[i] = line[i + 1]
      /\ line' = <<>> <=> Len(line) = 1
  <2>1. line' = <<>> <=> Len(line') = 0
    BY FramesInLine, EmptySeq
  <2>2. QED
    BY <2>1, FramesInLine
<1>2. \A k : Place(k)' = Place(k) /\ Following(k)' = Following(k)
  BY DEF Place, Following, Turn
<1>3. Coming' = Coming
  BY DEF Coming
<1>4. Head(line).kind = Round[Expected] /\ Head(line).gap = Gap
  BY <1>1, PlaceFound DEF Expected, Gap
<1>5. InTurn'
  <2>1. ASSUME NEW i \in 1 .. Len(line') - 1, ~line'[i + 1].gap
        PROVE  Place(line'[i + 1].kind) = Following(Place(line'[i].kind))
    <3>1. /\ i \in 1 .. Len(line) - 1 /\ i + 1 \in 1 .. Len(line) - 1
      BY <1>1
    <3>2. line'[i] = line[i + 1] /\ line'[i + 1] = line[(i + 1) + 1]
      BY <1>1, <3>1
    <3>3. QED
      BY <2>1, <3>1, <3>2 DEF InTurn
  <2>2. ASSUME line' # <<>>, ~lost'
        PROVE  Coming' = Following(Place(line'[Len(line')].kind))
    <3>1. Len(line) - 1 \in 1 .. Len(line) - 1 /\ (Len(line) - 1) + 1 = Len(line)
      BY <1>1, <2>2
    <3>2. line'[Len(line')] = line[Len(line)]
      BY <1>1, <3>1
    <3>3. QED
      BY <1>3, <2>2, <3>2 DEF InTurn
  <2>3. QED
    BY <1>2, <2>1, <2>2 DEF InTurn
<1>6. ASSUME ~Gap' PROVE Expected' = Following(Expected)
  <2>1. Expected = Place(line[1].kind)
    BY DEF Expected
  <2>2. CASE line' = <<>>
    <3>1. Len(line) = 1
      BY <1>1, <2>2
    <3>2. Expected' = Coming /\ ~lost
      BY <1>3, <1>6, <2>2 DEF Expected, Gap
    <3>3. QED
      BY <2>1, <3>1, <3>2 DEF InTurn
  <2>3. CASE line' # <<>>
    <3>1. 1 \in 1 .. Len(line) - 1 /\ line'[1] = line[1 + 1]
      BY <1>1, <2>3
    <3>2. Expected' = Place(line[1 + 1].kind) /\ ~line[1 + 1].gap
      BY <1>2, <1>6, <2>3, <3>1 DEF Expected, Gap
    <3>3. QED
      BY <2>1, <3>1, <3>2 DEF InTurn
  <2>4. QED
    BY <2>2, <2>3
<1>7. QED
  BY <1>1, <1>4, <1>5, <1>6

LEMMA ReadFrameKeeps ==
    ASSUME via = "can", BusInv, ReadFrame
    PROVE  BusInv'
<1> DEFINE e == Expected
<1>1. /\ at = "can" /\ line # <<>> /\ line' = Tail(line)
      /\ state' = state \cup {Head(line).kind} /\ torn' = (torn \/ Head(line).gap)
      /\ UNCHANGED <<via, owed, lost>>
  BY DEF ReadFrame
<1>2. /\ BusTypes /\ InTurn /\ Fed /\ RoundWhole /\ e \in Turn /\ Gap \in BOOLEAN
      /\ torn \in BOOLEAN /\ synced \in BOOLEAN
  BY ExpectedInTurn DEF BusInv, BusTypes
<1>3. /\ line' \in Seq([kind : ToSet(Round), gap : BOOLEAN]) /\ InTurn'
      /\ Head(line).kind = Round[e] /\ Head(line).gap = Gap
      /\ ~Gap' => Expected' = Following(e)
  BY <1>1, <1>2, FrameRead
<1>4. ~Coherent(state) /\ state' = state \cup {Round[e]} /\ torn' = (torn \/ Gap)
  BY <1>1, <1>2, <1>3 DEF Fed
<1>5. ASSUME synced, ~torn'
      PROVE  \E i \in Needed : state = Kinds(Arc(i, e))
  BY <1>1, <1>2, <1>4, <1>5 DEF Fed
<1>6. \A S : Kinds(S)' = Kinds(S) /\ \A i : Arc(i, Expected)' = Arc(i, Expected')
  BY DEF Kinds, Arc
<1> HIDE DEF e
<1>7. CASE Coherent(state')
  <2>1. /\ reading' = [kinds |-> state', whole |-> synced /\ ~torn']
        /\ at' = "idle" /\ synced' = TRUE
    BY <1>7 DEF ReadFrame
  <2>2. BusTypes'
    BY <1>1, <1>2, <1>3, <2>1 DEF BusTypes
  <2>3. e \in Needed
    BY <1>2, <1>4, <1>7 DEF Coherent, Needed
  <2>4. Fed'
    BY <1>3, <2>1, <2>3 DEF Fed, Needed, Turn, Following
  <2>5. ASSUME synced, ~torn' PROVE state' = ToSet(Round)
    <3>1. PICK i \in Needed : state = Kinds(Arc(i, e))
      BY <1>5, <2>5
    <3>2. i \in Turn /\ Round[i] \in state'
      BY <1>7 DEF Coherent, Needed
    <3>3. /\ Arc(i, e) \in SUBSET Turn /\ i \notin Arc(i, e)
          /\ state' = Kinds(Arc(i, e) \cup {e})
      BY <1>2, <1>4, <3>1, <3>2, ArcWithout, KindsOf
    <3>4. i = e
      <4>1. Arc(i, e) \cup {e} \in SUBSET Turn
        BY <1>2, <3>3
      <4>2. i \in Arc(i, e) \cup {e}
        BY <3>2, <3>3, <4>1, KindsOf
      <4>3. QED
        BY <3>3, <4>2
    <3>5. Arc(i, e) \cup {e} = Turn
      BY <3>2, <3>4, ArcCloses
    <3>6. QED
      BY <3>3, <3>5, RoundIsRow
  <2>6. RoundWhole'
    BY <2>1, <2>5 DEF RoundWhole
  <2>7. QED
    BY <1>3, <2>2, <2>4, <2>6 DEF BusInv
<1>8. CASE ~Coherent(state')
  <2>1. UNCHANGED <<reading, at, synced>>
    BY <1>8 DEF ReadFrame
  <2>2. BusTypes'
    BY <1>1, <1>2, <1>3, <2>1 DEF BusTypes
  <2>3. ASSUME synced, ~torn', ~Gap'
        PROVE  \E i \in Needed : state' = Kinds(Arc(i, Expected'))
    <3>1. PICK i \in Needed : state = Kinds(Arc(i, e))
      BY <1>5, <2>3
    <3>2. i \in Turn /\ Arc(i, e) \in SUBSET Turn
      BY <1>2, ArcWithout DEF Needed
    <3>3. state' = Kinds(Arc(i, e) \cup {e})
      BY <1>2, <1>4, <3>1, <3>2, KindsOf
    <3>4. i # e
      <4>1. SUFFICES ASSUME i = e PROVE Coherent(state')
        BY <1>8
      <4>2. state' = ToSet(Round)
        BY <3>2, <3>3, <4>1, ArcCloses, RoundIsRow
      <4>3. QED
        BY <4>2, RoundAssumption DEF Coherent
    <3>5. Arc(i, Expected') = Arc(i, e) \cup {e}
      BY <1>2, <1>3, <2>3, <3>2, <3>4, ArcGrows
    <3>6. QED
      BY <3>3, <3>5
  <2>4. Fed'
    BY <1>1, <1>6, <1>8, <2>1, <2>3 DEF Fed, Needed, Turn, Coherent
  <2>5. RoundWhole'
    BY <1>1, <1>2, <2>1, RoundWholeKept
  <2>6. QED
    BY <1>3, <2>2, <2>4, <2>5 DEF BusInv
<1>9. QED
  BY <1>7, <1>8

LEMMA BusStep ==
    ASSUME via = "can", BusInv, [PackNext]_packVars
    PROVE  via' = "can" /\ BusInv'
<1>1. via' = via
  BY DEF PackNext, packVars, Piece, BeginStatus, LifeDue, ReadPort, CutShort, PortError, GivenUp,
         SendRound, Frame, BeginCollect, ReadFrame, CollectTimeout, Over
<1>2. CASE UNCHANGED packVars
  <2>1. UNCHANGED <<via, at, owed, line, reading, state, lost, torn, synced>>
    BY <1>2 DEF packVars
  <2>2. Coming' = Coming
    BY <2>1 DEF Coming
  <2>3. BusTypes' /\ InTurn' /\ Expected' = Expected /\ Gap' = Gap
    <3>1. BusTypes'
      BY <2>1 DEF BusInv, BusTypes
    <3>2. InTurn'
      BY <2>1, <2>2, InTurnKept DEF BusInv
    <3>3. Expected' = Expected /\ Gap' = Gap
      BY <2>1, <2>2, FrontKept
    <3>4. QED
      BY <3>1, <3>2, <3>3
  <2>4. QED
    BY <2>1, <2>3, FedKept, RoundWholeKept DEF BusInv
<1>3. at \notin Commands
  BY DEF BusInv, BusTypes, Commands
<1>4. ~(Piece \/ BeginStatus \/ LifeDue \/ CutShort \/ PortError \/ GivenUp)
  BY <1>3 DEF Piece, BeginStatus, LifeDue, CutShort, PortError, GivenUp, Commands
<1>5. \A n : ~ReadPort(n)
  BY <1>3 DEF ReadPort, Commands
<1>6. QED
  BY <1>1, <1>2, <1>4, <1>5, SendRoundKeeps, FrameKeeps, BeginCollectKeeps, ReadFrameKeeps,
     CollectTimeoutKeeps DEF PackNext

-----------------------------------------------------------------------------
(* Of one pack, whichever way it is read.                                  *)

LEMMA PackInitInv == PackInit => PackInv
<1> SUFFICES ASSUME PackInit PROVE PackInv
  OBVIOUS
<1>1. /\ via \in {"cli", "can"} /\ at = "idle" /\ owed = <<>> /\ line = <<>> /\ taken = <<>>
      /\ reading = None /\ life = "unread" /\ late = FALSE /\ lost = FALSE /\ torn = FALSE
      /\ synced = FALSE
  BY DEF PackInit
<1>2. ConsoleInv
  <2>1. \A S : <<>> \in Seq(S)
    BY EmptySeq
  <2>2. ConsoleTypes
    BY <1>1, <2>1 DEF ConsoleTypes
  <2>3. InStep /\ CellsOnce
    BY <1>1 DEF InStep, CellsOnce
  <2>4. QED
    BY <2>2, <2>3 DEF ConsoleInv
<1>3. BusTypes
  <2>1. \A S : <<>> \in Seq(S)
    BY EmptySeq
  <2>2. owed \in Seq(ToSet(Round)) /\ line \in Seq([kind : ToSet(Round), gap : BOOLEAN])
    BY <1>1, <2>1
  <2>3. Len(owed) = 0
    BY <1>1
  <2>4. Len(owed) <= Len(Round) /\ 1 .. Len(owed) = {}
    BY <2>3, RoundIsRow
  <2>5. \A j \in 1 .. Len(owed) : owed[j] = Round[Len(Round) - Len(owed) + j]
    BY <2>4, Zenon
  <2>6. QED
    BY <1>1, <2>2, <2>4, <2>5, Zenon DEF BusTypes
<1>4. InTurn /\ Fed /\ RoundWhole
  BY <1>1 DEF InTurn, Fed, RoundWhole
<1>5. QED
  BY <1>1, <1>2, <1>3, <1>4 DEF PackInv, BusInv

LEMMA PackStepInv == PackInv /\ [PackNext]_packVars => PackInv'
  BY ConsoleStep, BusStep DEF PackInv

(* What is owed, waits and was read is in step with the console's answer   *)
(* or the round of frames, for a round of any frames and any bounds.       *)
THEOREM PackInvariant == PackSpec => []PackInv
  BY PackInitInv, PackStepInv, PTL DEF PackSpec

(* However the console's output is cut into reads, a reading that is not   *)
(* late has each cell once (command, 81-107; status, 233-268).             *)
THEOREM CellsAlwaysOnce == PackSpec => []CellsOnce
<1>1. PackInv => CellsOnce
  BY DEF PackInv, ConsoleInv, CellsOnce
<1>2. QED
  BY <1>1, PackInvariant, PTL

(* A CAN reading that follows a complete one, and from which no frame was  *)
(* lost, has every frame of a round, whatever the round (collect,          *)
(* 231-253).                                                               *)
THEOREM RoundAlwaysWhole == PackSpec => []RoundWhole
<1>1. PackInv => RoundWhole
  BY DEF PackInv, BusInv, RoundWhole
<1>2. QED
  BY <1>1, PackInvariant, PTL
================================================================================
