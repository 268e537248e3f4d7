---------------------------- MODULE Preferences ------------------------------
(***************************************************************************)
(* SharedPreferences of src/jni.c: a map in memory that is saved lazily,   *)
(* at most once per window, by whoever touches it after the window ended,  *)
(* by commit and by the flush of the exit path.                            *)
(*                                                                         *)
(* One lock serialises every call, and a save keeps it from its first to   *)
(* its last step, so that only the clock and a crash come in between.      *)
(* Time is the age of the last flush, as time() sees it: the clock of a    *)
(* handheld may also be set back.                                          *)
(***************************************************************************)
EXTENDS Integers, FiniteSets

CONSTANTS
    Keys, Values, None,
    MaxPrefs,    \* MAX_PREFS
    Window       \* PREFS_FLUSH_SECONDS

ASSUME PreferencesAssumption ==
    /\ IsFiniteSet(Keys)
    /\ None \notin Values
    /\ MaxPrefs \in Nat
    /\ Window \in Nat \ {0}

VARIABLES
    loaded,      \* preferences_loaded
    table,       \* the entries, when they are loaded
    dirty,       \* preferences_dirty
    age,         \* now - preferences_last_flush, NeverFlushed while that is 0
    pc,          \* where the save that holds the lock is
    synced,      \* the temporary file has reached the disk
    file,        \* shared-preferences.bin, as the running system sees it
    survivors,   \* what it may hold after a power cut
    unapplied    \* keys edited since the last apply, commit or touch

vars == <<loaded, table, dirty, age, pc, synced, file, survivors, unapplied>>
disk == <<file, survivors>>

Maps == [Keys -> Values \cup {None}]
NeverFlushed == Window + 1
Torn == [k \in {} |-> None]     \* a file without all of its bytes
Empty == [k \in Keys |-> None]

\* preferences_load_locked, the first thing every call does.
mem == IF loaded THEN table ELSE file

Entries(m) == {k \in Keys : m[k] # None}

Fits(m) == Cardinality(Entries(m)) <= MaxPrefs

-------------------------------------------------------------------------------
Init ==
    /\ loaded = FALSE
    /\ table = Empty
    /\ dirty = FALSE
    /\ age = NeverFlushed
    /\ pc = "idle"
    /\ synced = FALSE
    /\ file \in {m \in Maps : Fits(m)}
    /\ survivors = {file}
    /\ unapplied = {}

\* Mutant: every touch starts the window again.
TouchDebounced ==
    /\ dirty' = TRUE
    /\ age' = 0
    /\ pc' = IF age # NeverFlushed /\ age >= Window THEN "write" ELSE "idle"

\* preferences_touch_locked: marks the map, and saves it when the window ended.
Touch ==
    /\ dirty' = TRUE
    /\ age' = IF age = NeverFlushed THEN 0 ELSE age
    /\ pc' = IF age # NeverFlushed /\ age >= Window THEN "write" ELSE "idle"

\* getInt, contains, st_prefs_get_string and the like only load the file.
Get ==
    /\ pc = "idle"
    /\ loaded' = TRUE
    /\ table' = mem
    /\ UNCHANGED <<dirty, age, pc, synced, disk, unapplied>>

\* putInt, putFloat, putString, putBoolean: a full table drops the entry.
Put(k, v) ==
    LET m == [mem EXCEPT ![k] = v]
    IN /\ pc = "idle"
       /\ loaded' = TRUE
       /\ IF Fits(m) THEN table' = m /\ unapplied' = unapplied \cup {k}
                     ELSE table' = mem /\ UNCHANGED unapplied
       /\ UNCHANGED <<dirty, age, pc, synced, disk>>

Remove(k) ==
    /\ pc = "idle"
    /\ loaded' = TRUE
    /\ table' = [mem EXCEPT ![k] = None]
    /\ unapplied' = unapplied \cup {k}
    /\ UNCHANGED <<dirty, age, pc, synced, disk>>

Clear ==
    /\ pc = "idle"
    /\ loaded' = TRUE
    /\ table' = Empty
    /\ unapplied' = {}
    /\ Touch
    /\ UNCHANGED <<synced, disk>>

\* st_prefs_set_string, the port's own writes.
SetString(k, v) ==
    LET m == [mem EXCEPT ![k] = v]
    IN /\ pc = "idle"
       /\ loaded' = TRUE
       /\ IF Fits(m) THEN table' = m /\ unapplied' = {} /\ Touch
                     ELSE table' = mem /\ UNCHANGED <<unapplied, dirty, age, pc>>
       /\ UNCHANGED <<synced, disk>>

Apply ==
    /\ pc = "idle"
    /\ loaded' = TRUE
    /\ table' = mem
    /\ unapplied' = {}
    /\ Touch
    /\ UNCHANGED <<synced, disk>>

Commit ==
    /\ pc = "idle"
    /\ loaded' = TRUE
    /\ table' = mem
    /\ unapplied' = {}
    /\ dirty' = TRUE
    /\ pc' = "write"
    /\ UNCHANGED <<age, synced, disk>>

\* st_prefs_flush on the way out.
Flush ==
    /\ pc = "idle"
    /\ dirty
    /\ pc' = "write"
    /\ UNCHANGED <<loaded, table, dirty, age, synced, disk, unapplied>>

(***************************************************************************)
(* preferences_save_locked.                                                *)
(***************************************************************************)
\* Mutant: the temporary file is renamed before it has reached the disk.
WriteNoSync ==
    /\ pc = "write"
    /\ pc' = "rename"
    /\ synced' = FALSE
    /\ UNCHANGED <<loaded, table, dirty, age, disk, unapplied>>

Write ==
    /\ pc = "write"
    /\ pc' = "sync"
    /\ synced' = FALSE
    /\ UNCHANGED <<loaded, table, dirty, age, disk, unapplied>>

Sync ==
    /\ pc = "sync"
    /\ pc' = "rename"
    /\ synced' = TRUE
    /\ UNCHANGED <<loaded, table, dirty, age, disk, unapplied>>

\* The rename, and what preferences_flush_locked does after a save.
Rename ==
    /\ pc = "rename"
    /\ pc' = "idle"
    /\ file' = table
    /\ survivors' = survivors \cup {table} \cup (IF synced THEN {} ELSE {Torn})
    /\ dirty' = FALSE
    /\ age' = 0
    /\ UNCHANGED <<loaded, table, synced, unapplied>>

\* Mutant: a save that failed counts as one.
SaveFailsCleanly ==
    /\ pc # "idle"
    /\ pc' = "idle"
    /\ dirty' = FALSE
    /\ age' = 0
    /\ UNCHANGED <<loaded, table, synced, disk, unapplied>>

\* Any step may fail: the temporary file is removed and the map stays dirty.
SaveFails ==
    /\ pc # "idle"
    /\ pc' = "idle"
    /\ UNCHANGED <<loaded, table, dirty, age, synced, disk, unapplied>>

Saving == Write \/ Sync \/ Rename

(***************************************************************************)
(* The world around the process.                                           *)
(***************************************************************************)
Tick ==
    /\ age # NeverFlushed
    /\ age < Window
    /\ age' = age + 1
    /\ UNCHANGED <<loaded, table, dirty, pc, synced, disk, unapplied>>

ClockSetBack ==
    /\ age # NeverFlushed
    /\ age' \in {a \in -1..Window : a < age}
    /\ UNCHANGED <<loaded, table, dirty, pc, synced, disk, unapplied>>

Settle ==
    /\ survivors' = {file}
    /\ UNCHANGED <<loaded, table, dirty, age, pc, synced, file, unapplied>>

\* A new process finds nothing but the file.
NewProcess ==
    /\ loaded' = FALSE
    /\ table' = Empty
    /\ dirty' = FALSE
    /\ age' = NeverFlushed
    /\ pc' = "idle"
    /\ synced' = FALSE
    /\ unapplied' = {}

\* _exit, a signal or a crash.
Kill == NewProcess /\ UNCHANGED disk

PowerCut ==
    /\ file' \in survivors
    /\ survivors' = {file'}
    /\ NewProcess

Next ==
    \/ \E k \in Keys, v \in Values : Put(k, v) \/ SetString(k, v)
    \/ \E k \in Keys : Remove(k)
    \/ Get
    \/ Clear
    \/ Apply
    \/ Commit
    \/ Flush
    \/ Saving
    \/ SaveFails
    \/ Tick
    \/ ClockSetBack
    \/ Settle
    \/ Kill
    \/ PowerCut

Fairness == WF_vars(Saving)

Spec == Init /\ [][Next]_vars /\ Fairness

-------------------------------------------------------------------------------
(***************************************************************************)
(* Properties                                                              *)
(***************************************************************************)
\* Every variable keeps its type, and the table never has more entries than
\* its array.
TypeOK ==
    /\ loaded \in BOOLEAN
    /\ table \in Maps
    /\ Cardinality(Entries(table)) <= MaxPrefs
    /\ dirty \in BOOLEAN
    /\ age \in -1..NeverFlushed
    /\ pc \in {"idle", "write", "sync", "rename"}
    /\ synced \in BOOLEAN
    /\ file \in Maps
    /\ survivors \subseteq Maps
    /\ unapplied \subseteq Keys
    /\ pc # "idle" => loaded

\* A map that is not marked dirty has nothing to save: every key that was not
\* edited since the last apply has the value of the file.  A failed save, a
\* full table or an edit between two saves must not lose the mark.
CleanMeansSaved ==
    pc = "idle" /\ ~dirty => \A k \in Keys \ unapplied : mem[k] = file[k]

\* The file is always one whole map the memory has had, whatever step of a
\* save is cut off, and a power cut leaves the old one or the new one.
Store == INSTANCE PrefStore
StoreSpec == Store!Spec

\* A game that goes on applying its changes has them saved, provided that
\* saves do not fail for ever, that the clock runs and is not set back for
\* ever: the window does end, and the next touch saves.
SavedInTime ==
    (/\ WF_vars(Tick) /\ WF_vars(Apply)
     /\ <>[][~SaveFails /\ ~ClockSetBack]_vars)
        => []<>(~dirty)
===============================================================================
