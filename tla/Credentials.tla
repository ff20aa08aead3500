---------------------------- MODULE Credentials -----------------------------
(***************************************************************************)
(* The credential file (src/credentials.rs).  Each program has its own     *)
(* FileStore: a map read once, when the program first needs it, and        *)
(* written out whole after every change, in place and while the map is     *)
(* locked.  Programs know nothing of each other, may be killed at any      *)
(* moment, and a failed write is not reported.  A map is the set of its    *)
(* credentials, each a key and a value.                                    *)
(***************************************************************************)
EXTENDS FiniteSets

CONSTANTS
    Programs,  \* the command line, the window
    Threads,   \* of a program, that use its store
    Keys,
    Values,    \* the credentials that are saved
    Stump      \* what is left of a value cut short

ASSUME CredentialsAssumption == Stump \notin Values

VARIABLES
    opened,  \* programs that have read the file
    cache,   \* FileStore.cache of each program
    pc,      \* per thread: "idle", "flushing" (map locked) or "truncated"
    text,    \* the lines the thread writes
    saving,  \* what the save the thread has not returned from saves
    file,    \* what load_file reads of the file
    safe     \* history: credentials saved, and not undone by anyone

vars == <<opened, cache, pc, text, saving, file, safe>>

Lines == Keys \X (Values \cup {Stump})

KeysOf(map) == {c[1] : c \in map}
Without(map, keys) == {c \in map : c[1] \notin keys}

(* A key has one value in a map.                                           *)
IsMap(map) == \A c, d \in map : c[1] = d[1] => c = d

(* What load_file reads of the lines of one map and then of another: the   *)
(* last line of a key.                                                     *)
Then(front, behind) == Without(front, KeysOf(behind)) \cup behind

(* The credentials of a map that another one has no other value for.       *)
Unopposed(map, other) == {c \in map : \A d \in other : c[1] = d[1] => c = d}

Init ==
    /\ opened = {}
    /\ cache = [p \in Programs |-> {}]
    /\ pc = [p \in Programs |-> [t \in Threads |-> "idle"]]
    /\ text = [p \in Programs |-> [t \in Threads |-> {}]]
    /\ saving = [p \in Programs |-> [t \in Threads |-> {}]]
    /\ file \in {map \in SUBSET (Keys \X Values) : IsMap(map)}
    /\ safe = file

(* FileStore::new; a file under rewriting is read as far as it is there.   *)
Open(p) ==
    /\ p \notin opened
    /\ opened' = opened \cup {p}
    /\ cache' = [cache EXCEPT ![p] = file]
    /\ UNCHANGED <<pc, text, saving, file, safe>>

\* Mutant of MayChange: the map is unlocked before it is written out.
MayChangeUnlocked(p, t) ==
    /\ p \in opened
    /\ pc[p][t] = "idle"

(* The map's lock is free: it is held until the change is written out.     *)
MayChange(p, t) ==
    /\ p \in opened
    /\ \A u \in Threads : pc[p][u] = "idle"

(* The map has been changed; flush puts its lines together.                *)
BeginFlush(p, t, map) ==
    /\ cache' = [cache EXCEPT ![p] = map]
    /\ text' = [text EXCEPT ![p][t] = map]
    /\ pc' = [pc EXCEPT ![p][t] = "flushing"]

(* The value saved replaces the one there was.                             *)
Save(p, t, k, v) ==
    /\ MayChange(p, t)
    /\ BeginFlush(p, t, Then(cache[p], {<<k, v>>}))
    /\ saving' = [saving EXCEPT ![p][t] = {<<k, v>>}]
    /\ safe' = Without(safe, {k})
    /\ UNCHANGED <<opened, file>>

(* Nothing is written when the key is not there.                           *)
Delete(p, t, k) ==
    /\ MayChange(p, t)
    /\ k \in KeysOf(cache[p])
    /\ BeginFlush(p, t, Without(cache[p], {k}))
    /\ saving' = [saving EXCEPT ![p][t] = {}]
    /\ safe' = Without(safe, {k})
    /\ UNCHANGED <<opened, file>>

(* fs::write opens the file and cuts it to nothing.  Another program's     *)
(* credentials that are not in this one's map are lost from here on.       *)
Truncate(p, t) ==
    /\ pc[p][t] = "flushing"
    /\ \A u \in Threads : pc[p][u] # "truncated"
    /\ file' = {}
    /\ pc' = [pc EXCEPT ![p][t] = "truncated"]
    /\ safe' = safe \cap cache[p]
    /\ UNCHANGED <<opened, cache, text, saving>>

Finish(p, t) ==
    /\ pc' = [pc EXCEPT ![p][t] = "idle"]
    /\ text' = [text EXCEPT ![p][t] = {}]
    /\ saving' = [saving EXCEPT ![p][t] = {}]
    /\ UNCHANGED <<opened, cache>>

(* Written; what another program wrote since the cut stays where it is     *)
(* longer, and counts where it has another value for a key.                *)
Written(p, t) ==
    /\ pc[p][t] = "truncated"
    /\ \E rest \in SUBSET file : file' = Then(text[p][t], rest)
    /\ safe' = Unopposed((safe \cap cache[p]) \cup saving[p][t], file)
    /\ Finish(p, t)

(* The file cannot be opened: save returns as if it had been written.      *)
NotOpened(p, t) ==
    /\ pc[p][t] = "flushing"
    /\ UNCHANGED <<file, safe>>
    /\ Finish(p, t)

(* A write that stops half-way, at a line's end or in its value.           *)
Partly(lines) ==
    \E whole \in SUBSET lines :
        \/ file' = whole
        \/ \E c \in lines \ whole : file' = whole \cup {<<c[1], Stump>>}

(* Unreported: the disk is full.                                           *)
HalfWritten(p, t) ==
    /\ pc[p][t] = "truncated"
    /\ Partly(text[p][t])
    /\ safe' = {}
    /\ Finish(p, t)

(* The program ends or is killed, a write under way with it.               *)
Stop(p) ==
    /\ p \in opened
    /\ opened' = opened \ {p}
    /\ cache' = [cache EXCEPT ![p] = {}]
    /\ pc' = [pc EXCEPT ![p] = [t \in Threads |-> "idle"]]
    /\ text' = [text EXCEPT ![p] = [t \in Threads |-> {}]]
    /\ saving' = [saving EXCEPT ![p] = [t \in Threads |-> {}]]
    /\ \/ /\ \A t \in Threads : pc[p][t] # "truncated"
          /\ UNCHANGED <<file, safe>>
       \/ /\ \E t \in Threads : pc[p][t] = "truncated" /\ Partly(text[p][t])
          /\ safe' = {}

Next ==
    \E p \in Programs :
        \/ Open(p) \/ Stop(p)
        \/ \E t \in Threads :
             \/ \E k \in Keys : (\E v \in Values : Save(p, t, k, v)) \/ Delete(p, t, k)
             \/ Truncate(p, t) \/ Written(p, t)
             \/ NotOpened(p, t) \/ HalfWritten(p, t)

Spec == Init /\ [][Next]_vars
-----------------------------------------------------------------------------
TypeOK ==
    /\ opened \subseteq Programs
    /\ cache \in [Programs -> SUBSET Lines]
    /\ pc \in [Programs -> [Threads -> {"idle", "flushing", "truncated"}]]
    /\ text \in [Programs -> [Threads -> SUBSET Lines]]
    /\ saving \in [Programs -> [Threads -> SUBSET Lines]]
    /\ {file, safe} \subseteq SUBSET Lines

Rewriting == \E p \in Programs, t \in Threads : pc[p][t] = "truncated"

(* A credential whose save has returned is in the file, with the value     *)
(* saved last, whenever nobody rewrites it: also after a restart and       *)
(* whichever threads saved at the same time -- unless it was deleted, the  *)
(* write itself failed or was killed, or another program that had not read *)
(* it has written since or at the same time (credentials.rs:96-107,        *)
(* 126-138).                                                               *)
Kept == ~Rewriting => safe \subseteq file
=============================================================================
