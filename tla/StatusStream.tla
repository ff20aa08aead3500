---------------------------- MODULE StatusStream ----------------------------
(***************************************************************************)
(* Incremental status (types.rs diff and apply), the streams built from it *)
(* (Battery::updates of battery.rs, and the same loop in the streams of    *)
(* backends/jk.rs, anker.rs and victron.rs) and the two programs that fold *)
(* a stream into a snapshot: the window's follow (worker.rs) and the       *)
(* monitor command of the CLI.  A snapshot maps the ids of its sensors,    *)
(* switches, ports, cells and settings to values, and has a set of alarms. *)
(***************************************************************************)
EXTENDS FiniteSets

CONSTANTS
    Ids,        \* the elements a battery can report; ids are distinct
    Values,
    Absent,     \* the element is not in the snapshot
    Alarms      \* alarms a battery can raise

ASSUME StreamAssumption == Absent \notin Values

VARIABLES
    monitor, \* TRUE: the CLI's monitor, FALSE: the window; it never changes
    device,  \* what the battery would report now
    stream,  \* "none", "fresh" (prev is None), "open" or "ended"
    prev,    \* the snapshot the next reading is compared with
    queue,   \* updates of the last reading not yet taken
    live,    \* the follower's folded snapshot
    shown    \* the last snapshot sent to the window, or printed

vars == <<monitor, device, stream, prev, queue, live, shown>>

Snapshot == [parts : [Ids -> Values \cup {Absent}], alarms : SUBSET Alarms]

(* BatteryStatus::default, and the diff base of a stream's first reading.  *)
Empty == [parts |-> [i \in Ids |-> Absent], alarms |-> {}]

StatusUpdate == [id : Ids, value : Values] \cup [raised : SUBSET Alarms]

PartOf(i, v) == [id |-> i, value |-> v]
AlarmsOf(A) == [raised |-> A]
OfPart(u) == "id" \in DOMAIN u

Present(s) == {i \in Ids : s.parts[i] # Absent}

-----------------------------------------------------------------------------
\* Mutants of Diff: a changed value is not sent; an emptied alarm list is not.
DiffNew(new, old) ==
    {PartOf(i, new.parts[i]) : i \in Present(new) \ Present(old)}
    \cup {AlarmsOf(A) : A \in {new.alarms} \ {old.alarms}}

DiffRaised(new, old) ==
    {PartOf(i, new.parts[i]) :
        i \in {j \in Present(new) : new.parts[j] # old.parts[j]}}
    \cup {AlarmsOf(A) : A \in {new.alarms} \ {old.alarms, {}}}

(* diff: the elements of new that old lacks or has otherwise, one update   *)
(* each, then the alarms when they differ.  Nothing is said of an element  *)
(* that went away.  The updates of one diff have different targets, so     *)
(* their order is immaterial and a diff is a set.                          *)
Diff(new, old) ==
    {PartOf(i, new.parts[i]) :
        i \in {j \in Present(new) : new.parts[j] # old.parts[j]}}
    \cup {AlarmsOf(A) : A \in {new.alarms} \ {old.alarms}}

(* apply, for one update and for a set of updates with different targets.  *)
Apply(s, u) ==
    IF OfPart(u)
      THEN [s EXCEPT !.parts[u.id] = u.value]
      ELSE [s EXCEPT !.alarms = u.raised]

ApplyAll(s, U) ==
    [parts  |-> [i \in Ids |->
                   IF \E u \in U : OfPart(u) /\ u.id = i
                     THEN (CHOOSE u \in U : OfPart(u) /\ u.id = i).value
                     ELSE s.parts[i]],
     alarms |-> IF \E u \in U : ~OfPart(u)
                  THEN (CHOOSE u \in U : ~OfPart(u)).raised
                  ELSE s.alarms]

-----------------------------------------------------------------------------
Init ==
    /\ monitor \in BOOLEAN
    /\ device \in Snapshot
    /\ stream = "none"
    /\ prev = Empty
    /\ queue = {}
    /\ live = Empty
    /\ shown = Empty

DeviceChanges ==
    /\ device' \in Snapshot
    /\ UNCHANGED <<monitor, stream, prev, queue, live, shown>>

(* A new stream knows nothing of the one before.  The window makes one     *)
(* whenever it follows again; the monitor makes one and stops with it.     *)
Subscribe ==
    /\ stream = "none"
    /\ stream' = "fresh"
    /\ prev' = Empty
    /\ queue' = {}
    /\ UNCHANGED <<monitor, device, live, shown>>

(* A reading is taken only when the updates of the last one are used up.   *)
Read ==
    /\ stream \in {"fresh", "open"}
    /\ queue = {}
    /\ queue' = Diff(device, prev)
    /\ prev' = device
    /\ stream' = "open"
    /\ UNCHANGED <<monitor, device, live, shown>>

(* The error is given once and the stream ends.  A follower that drains    *)
(* what is ready drops the error and sees only the end.                    *)
ReadFails ==
    /\ stream \in {"fresh", "open"}
    /\ queue = {}
    /\ stream' = "ended"
    /\ UNCHANGED <<monitor, device, prev, queue, live, shown>>

\* Mutant of StopFollowing: the end of the stream is not looked at.
StopFollowingAsked ==
    /\ ~monitor
    /\ stream \in {"fresh", "open"}
    /\ queue = {}
    /\ stream' = "none"
    /\ UNCHANGED <<monitor, device, prev, queue, live, shown>>

(* follow: the error or the end returns to the task, and so does a         *)
(* command; the stream is dropped and live is kept.  Nothing is awaited    *)
(* between a reading and its folding, so no update is lost with it.        *)
StopFollowing ==
    /\ ~monitor
    /\ stream # "none"
    /\ queue = {}
    /\ stream' = "none"
    /\ UNCHANGED <<monitor, device, prev, queue, live, shown>>

\* Mutant of Follow: what is ready behind the first update is not awaited.
FollowFirst ==
    /\ ~monitor
    /\ \E u \in queue :
         /\ live' = Apply(live, u)
         /\ queue' = queue \ {u}
    /\ shown' = live'
    /\ UNCHANGED <<monitor, device, stream, prev>>

(* follow: the first update and all that are ready behind it, at once.     *)
Follow ==
    /\ ~monitor
    /\ queue # {}
    /\ live' = ApplyAll(live, queue)
    /\ shown' = live'
    /\ queue' = {}
    /\ UNCHANGED <<monitor, device, stream, prev>>

(* monitor: one update at a time; when the interval is over, what is       *)
(* folded so far is printed, even between two updates of one reading.      *)
Take ==
    /\ monitor
    /\ \E u \in queue :
         /\ live' = Apply(live, u)
         /\ queue' = queue \ {u}
    /\ UNCHANGED <<monitor, device, stream, prev, shown>>

PrintDue ==
    /\ monitor
    /\ stream = "open"
    /\ shown # live
    /\ shown' = live
    /\ UNCHANGED <<monitor, device, stream, prev, queue, live>>

Next ==
    \/ DeviceChanges
    \/ Subscribe \/ Read \/ ReadFails \/ StopFollowing
    \/ Follow \/ Take \/ PrintDue

(* The follower's loop keeps polling its stream, and a battery that        *)
(* reports at all succeeds again and again (an assumption on the battery). *)
Fairness ==
    /\ WF_vars(Subscribe)
    /\ WF_vars(StopFollowing /\ stream = "ended")
    /\ WF_vars(Follow)
    /\ WF_vars(Take)
    /\ WF_vars(PrintDue)
    /\ SF_vars(Read)

Spec == Init /\ [][Next]_vars
FairSpec == Spec /\ Fairness
-----------------------------------------------------------------------------
(* Types: among them, that an update always carries a value, never the     *)
(* absence of one (types.rs:690-705).                                      *)
TypeOK ==
    /\ monitor \in BOOLEAN
    /\ {device, prev, live, shown} \subseteq Snapshot
    /\ stream \in {"none", "fresh", "open", "ended"}
    /\ queue \in SUBSET StatusUpdate

(* t has every element of s, as s has it.                                  *)
Covers(t, s) == \A i \in Present(s) : t.parts[i] = s.parts[i]

(* Folding what is still queued brings the follower to the last reading,   *)
(* also when earlier streams failed or were dropped for a command and live *)
(* was kept from them (battery.rs:79-84, worker.rs:131-142).               *)
FollowerCatchesUp == Covers(ApplyAll(live, queue), prev)

(* Every snapshot sent to the window is whole: what it shows of the        *)
(* elements present comes from one reading, never part old and part new    *)
(* (worker.rs:136-142).                                                    *)
ShownWhole == [][~monitor /\ shown' # shown => Covers(shown', prev)]_vars

(* Applying each update maintains the alarms: each one is shown while it   *)
(* is raised and taken back when it is not (battery.rs:81-84,              *)
(* types.rs:647-653).  This holds as long as one stream is followed, in    *)
(* the monitor.  In the window it does not: a second stream whose first    *)
(* reading has no alarm does not take back the alarms of the first.        *)
AlarmsMaintained ==
    monitor /\ stream = "open" => ApplyAll(live, queue).alarms = prev.alarms

(* Once the battery settles, what it reports is shown and stays shown,     *)
(* whatever failed or was interrupted before.                              *)
Settles ==
    \A s \in Snapshot :
        <>[](device = s /\ (monitor => stream # "ended"))
            => <>[]Covers(shown, s)
=============================================================================
