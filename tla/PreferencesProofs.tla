-------------------------- MODULE PreferencesProofs --------------------------
(***************************************************************************)
(* The preferences implement PrefStore, and a clean map is a saved one,    *)
(* for any finite set of keys, any values, capacity and window.            *)
(***************************************************************************)
EXTENDS Preferences, FiniteSetTheorems, TLAPS

\* A map that fits the table.
Good(m) == m \in Maps /\ Cardinality(Entries(m)) <= MaxPrefs

\* What a save in progress and a process that has not loaded anything know,
\* and that every map a power cut may leave fits the table.
Inv ==
    /\ TypeOK
    /\ CleanMeansSaved
    /\ pc # "idle" => dirty
    /\ pc = "rename" => synced
    /\ ~loaded => ~dirty /\ pc = "idle" /\ unapplied = {}
    /\ Good(file)
    /\ \A m \in survivors : Good(m)

(***************************************************************************)
(* Maps and what they hold.                                                *)
(***************************************************************************)
LEMMA EmptyGood == Good(Empty)
<1>1. Entries(Empty) = {}
  BY DEF Entries, Empty
<1>2. Cardinality({}) = 0
  BY FS_EmptySet
<1>3. Empty \in Maps
  BY DEF Empty, Maps
<1> QED  BY <1>1, <1>2, <1>3, PreferencesAssumption DEF Good

LEMMA RemoveGood ==
    ASSUME NEW m, Good(m), NEW k \in Keys
    PROVE  Good([m EXCEPT ![k] = None])
<1> DEFINE r == [m EXCEPT ![k] = None]
<1>1. r \in Maps
  BY DEF Good, Maps
<1>2. Entries(r) \subseteq Entries(m)
  BY DEF Good, Maps, Entries
<1>3. IsFiniteSet(Entries(m))
  <2>1. Entries(m) \subseteq Keys
    BY DEF Entries
  <2> QED  BY <2>1, FS_Subset, PreferencesAssumption
<1>4. /\ Cardinality(Entries(r)) <= Cardinality(Entries(m))
      /\ Cardinality(Entries(r)) \in Nat
      /\ Cardinality(Entries(m)) \in Nat
  BY <1>2, <1>3, FS_Subset, FS_CardinalityType
<1> QED  BY <1>1, <1>4, PreferencesAssumption DEF Good

LEMMA PutGood ==
    ASSUME NEW m \in Maps, NEW k \in Keys, NEW v \in Values, Fits([m EXCEPT ![k] = v])
    PROVE  Good([m EXCEPT ![k] = v])
  BY DEF Good, Maps, Fits

LEMMA MemGood == Inv => Good(mem)
  BY DEF Inv, TypeOK, Good, mem

\* What a touch leaves behind.
LEMMA TouchOK ==
    ASSUME Inv, Touch
    PROVE  dirty' = TRUE /\ age' \in -1..NeverFlushed /\ pc' \in {"idle", "write"}
  BY PreferencesAssumption DEF Touch, Inv, TypeOK, NeverFlushed

(***************************************************************************)
(* Inv is inductive.                                                       *)
(***************************************************************************)
LEMMA InitInv == Init => Inv
<1> SUFFICES ASSUME Init PROVE Inv
  OBVIOUS
<1>1. Good(file) /\ Good(table) /\ survivors = {file}
  BY EmptyGood DEF Init, Good, Fits
<1>2. TypeOK
  <2>1. age \in -1..NeverFlushed
    BY PreferencesAssumption DEF Init, NeverFlushed
  <2> QED  BY <1>1, <2>1 DEF Init, TypeOK, Good
<1>3. CleanMeansSaved
  BY DEF Init, CleanMeansSaved, mem
<1> QED  BY <1>1, <1>2, <1>3 DEF Init, Inv

\* A call of the program: the table it leaves is good, a key it changed is
\* marked or the map is dirty, and the disk is not touched.
LEMMA CallOK ==
    ASSUME Inv, pc = "idle", loaded' = TRUE, Good(table'), UNCHANGED <<synced, disk>>,
           dirty' \in BOOLEAN, age' \in -1..NeverFlushed, pc' \in {"idle", "write"},
           unapplied' \subseteq Keys,
           pc' = "write" => dirty',
           ~dirty' => ~dirty /\ \A k \in Keys \ unapplied' :
                                   k \notin unapplied /\ table'[k] = mem[k]
    PROVE  Inv'
<1>1. TypeOK'
  BY DEF Inv, TypeOK, Good, disk
<1>2. CleanMeansSaved'
  BY DEF Inv, CleanMeansSaved, mem, disk
<1>3. Good(file)' /\ \A m \in survivors' : Good(m)
  BY DEF Inv, disk, Good
<1> QED  BY <1>1, <1>2, <1>3 DEF Inv, disk, TypeOK

\* The clock, the kernel and a save that gives up change nothing that Inv
\* relates.
LEMMA QuietOK ==
    ASSUME Inv, UNCHANGED <<loaded, table, dirty, synced, file, unapplied>>,
           survivors' \subseteq survivors \cup {file},
           age' \in -1..NeverFlushed,
           pc' = pc \/ (pc # "idle" /\ pc' = "idle")
    PROVE  Inv'
<1>1. TypeOK'
  BY DEF Inv, TypeOK
<1>2. CleanMeansSaved'
  BY DEF Inv, CleanMeansSaved, mem
<1>3. Good(file)' /\ \A m \in survivors' : Good(m)
  BY DEF Inv, Good
<1> QED  BY <1>1, <1>2, <1>3 DEF Inv

LEMMA NewProcessOK ==
    ASSUME Inv, NewProcess, file' \in {file} \cup survivors,
           survivors' \in {survivors, {file'}}
    PROVE  Inv'
<1>1. Good(file') /\ \A m \in survivors' : Good(m)
  BY DEF Inv
<1>2. Good(table')
  BY EmptyGood DEF NewProcess
<1>3. TypeOK'
  <2>1. age' \in -1..NeverFlushed
    BY PreferencesAssumption DEF NewProcess, NeverFlushed
  <2> QED  BY <1>1, <1>2, <2>1 DEF NewProcess, TypeOK, Good
<1>4. CleanMeansSaved'
  BY DEF NewProcess, CleanMeansSaved, mem
<1>5. Good(file)'
  BY <1>1 DEF Good
<1> QED  BY <1>1, <1>3, <1>4, <1>5 DEF NewProcess, Inv

LEMMA NextInv == Inv /\ [Next]_vars => Inv'
<1> SUFFICES ASSUME Inv, [Next]_vars PROVE Inv'
  OBVIOUS
<1>m. Good(mem) /\ mem \in Maps
  BY MemGood DEF Good
<1>t. dirty \in BOOLEAN /\ age \in -1..NeverFlushed /\ unapplied \subseteq Keys
  BY DEF Inv, TypeOK
<1>1. ASSUME NEW k \in Keys, NEW v \in Values, Put(k, v)
      PROVE  Inv'
  <2>1. CASE Fits([mem EXCEPT ![k] = v])
    <3>1. /\ table' = [mem EXCEPT ![k] = v] /\ unapplied' = unapplied \cup {k}
          /\ pc = "idle" /\ loaded' = TRUE
          /\ UNCHANGED <<dirty, age, pc, synced, disk>>
      BY <1>1, <2>1 DEF Put
    <3>2. Good(table')
      BY <2>1, <3>1, <1>m, PutGood
    <3>3. \A j \in Keys \ unapplied' : j \notin unapplied /\ table'[j] = mem[j]
      BY <3>1, <1>m DEF Maps
    <3> QED  BY <1>t, <3>1, <3>2, <3>3, CallOK
  <2>2. CASE ~Fits([mem EXCEPT ![k] = v])
    <3>1. /\ table' = mem /\ unapplied' = unapplied
          /\ pc = "idle" /\ loaded' = TRUE
          /\ UNCHANGED <<dirty, age, pc, synced, disk>>
      BY <1>1, <2>2 DEF Put
    <3> QED  BY <1>m, <1>t, <3>1, CallOK
  <2> QED  BY <2>1, <2>2
<1>2. ASSUME NEW k \in Keys, NEW v \in Values, SetString(k, v)
      PROVE  Inv'
  <2>1. CASE Fits([mem EXCEPT ![k] = v])
    <3>1. /\ table' = [mem EXCEPT ![k] = v] /\ unapplied' = {} /\ Touch
          /\ pc = "idle" /\ loaded' = TRUE
          /\ UNCHANGED <<synced, disk>>
      BY <1>2, <2>1 DEF SetString
    <3>2. Good(table')
      BY <2>1, <3>1, <1>m, PutGood
    <3> QED  BY <3>1, <3>2, TouchOK, CallOK
  <2>2. CASE ~Fits([mem EXCEPT ![k] = v])
    <3>1. /\ table' = mem /\ unapplied' = unapplied
          /\ pc = "idle" /\ loaded' = TRUE
          /\ UNCHANGED <<dirty, age, pc, synced, disk>>
      BY <1>2, <2>2 DEF SetString
    <3> QED  BY <1>m, <1>t, <3>1, CallOK
  <2> QED  BY <2>1, <2>2
<1>3. ASSUME NEW k \in Keys, Remove(k)
      PROVE  Inv'
  <2>1. /\ table' = [mem EXCEPT ![k] = None] /\ unapplied' = unapplied \cup {k}
        /\ pc = "idle" /\ loaded' = TRUE
        /\ UNCHANGED <<dirty, age, pc, synced, disk>>
    BY <1>3 DEF Remove
  <2>2. Good(table')
    BY <2>1, <1>m, RemoveGood
  <2>3. \A j \in Keys \ unapplied' : j \notin unapplied /\ table'[j] = mem[j]
    BY <2>1, <1>m DEF Maps
  <2> QED  BY <1>t, <2>1, <2>2, <2>3, CallOK
<1>4. CASE Clear
  <2>1. /\ table' = Empty /\ unapplied' = {} /\ Touch
        /\ pc = "idle" /\ loaded' = TRUE /\ UNCHANGED <<synced, disk>>
    BY <1>4 DEF Clear
  <2> QED  BY <2>1, EmptyGood, TouchOK, CallOK
<1>5. CASE Apply
  <2>1. /\ table' = mem /\ unapplied' = {} /\ Touch
        /\ pc = "idle" /\ loaded' = TRUE /\ UNCHANGED <<synced, disk>>
    BY <1>5 DEF Apply
  <2> QED  BY <2>1, <1>m, TouchOK, CallOK
<1>6. CASE Commit
  <2>1. /\ table' = mem /\ unapplied' = {} /\ dirty' = TRUE /\ pc' = "write"
        /\ age' = age /\ pc = "idle" /\ loaded' = TRUE /\ UNCHANGED <<synced, disk>>
    BY <1>6 DEF Commit
  <2> QED  BY <1>t, <2>1, <1>m, CallOK
<1>7. CASE Flush
  BY <1>7 DEF Flush, Inv, TypeOK, CleanMeansSaved, disk, Good, mem
<1>8. CASE Write
  BY <1>8 DEF Write, Inv, TypeOK, CleanMeansSaved, disk, Good, mem
<1>9. CASE Sync
  BY <1>9 DEF Sync, Inv, TypeOK, CleanMeansSaved, disk, Good, mem
<1>10. CASE Rename
  <2>1. /\ loaded /\ synced /\ Good(table)
    BY <1>10 DEF Rename, Inv, TypeOK, Good
  <2>2. /\ file' = table /\ survivors' = survivors \cup {table}
        /\ pc' = "idle" /\ dirty' = FALSE /\ age' = 0
        /\ UNCHANGED <<loaded, table, synced, unapplied>>
    BY <1>10, <2>1 DEF Rename
  <2>3. TypeOK'
    <3>1. age' \in -1..NeverFlushed
      BY <2>2, PreferencesAssumption DEF NeverFlushed
    <3> QED  BY <2>1, <2>2, <3>1 DEF Inv, TypeOK, Good
  <2>4. CleanMeansSaved'
    BY <2>1, <2>2 DEF CleanMeansSaved, mem
  <2>5. Good(file)' /\ \A m \in survivors' : Good(m)
    BY <2>1, <2>2 DEF Inv, Good
  <2> QED  BY <2>1, <2>2, <2>3, <2>4, <2>5 DEF Inv
<1>11. CASE SaveFails
  BY <1>t, <1>11, QuietOK DEF SaveFails, disk
<1>12. CASE Tick
  <2>1. age' \in -1..NeverFlushed
    BY <1>t, <1>12, PreferencesAssumption DEF Tick, NeverFlushed
  <2> QED  BY <2>1, <1>12, QuietOK DEF Tick, disk
<1>13. CASE ClockSetBack
  <2>1. age' \in -1..NeverFlushed
    BY <1>t, <1>13, PreferencesAssumption DEF ClockSetBack, NeverFlushed
  <2> QED  BY <2>1, <1>13, QuietOK DEF ClockSetBack, disk
<1>14. CASE Settle
  BY <1>t, <1>14, QuietOK DEF Settle
<1>15. CASE Kill
  BY <1>15, NewProcessOK DEF Kill, disk
<1>16. CASE PowerCut
  BY <1>16, NewProcessOK DEF PowerCut
<1>17. CASE UNCHANGED vars
  BY <1>t, <1>17, QuietOK DEF vars
<1>18. CASE Get
  <2>1. /\ table' = mem /\ pc = "idle" /\ loaded' = TRUE
        /\ UNCHANGED <<dirty, age, pc, synced, disk, unapplied>>
    BY <1>18 DEF Get
  <2> QED  BY <1>m, <1>t, <2>1, CallOK
<1> QED
  BY <1>1, <1>2, <1>3, <1>4, <1>5, <1>6, <1>7, <1>8, <1>9, <1>10, <1>11, <1>12,
     <1>13, <1>14, <1>15, <1>16, <1>17, <1>18 DEF Next, Saving

LEMMA Invariance == Spec => []Inv
  BY InitInv, NextInv, PTL DEF Spec

(***************************************************************************)
(* The properties.                                                         *)
(***************************************************************************)
\* Every variable keeps its type and the table never outgrows its array.
THEOREM PreferencesTypeCorrect == Spec => []TypeOK
<1>1. Inv => TypeOK
  BY DEF Inv
<1> QED  BY <1>1, Invariance, PTL

\* A map that is not marked dirty has nothing applied left to save.
THEOREM CleanIsSaved == Spec => []CleanMeansSaved
<1>1. Inv => CleanMeansSaved
  BY DEF Inv
<1> QED  BY <1>1, Invariance, PTL

\* The file is replaced by whole maps only: the preferences implement the
\* abstract store, each step of the code being a step of the store or none.
THEOREM ImplementsStore == Spec => StoreSpec
<1>1. Init => Store!Init
  BY EmptyGood DEF Init, Store!Init, mem, Maps, Store!Maps
<1>2. Inv /\ Inv' /\ [Next]_vars => [Store!Next]_<<mem, file, survivors>>
  <2> SUFFICES ASSUME Inv, Inv', [Next]_vars
               PROVE  [Store!Next]_<<mem, file, survivors>>
    OBVIOUS
  <2>m. mem \in Store!Maps /\ mem' \in Store!Maps
    BY MemGood DEF Inv, TypeOK, Good, Maps, Store!Maps, mem
  <2>1. ASSUME UNCHANGED disk PROVE [Store!Next]_<<mem, file, survivors>>
    BY <2>1, <2>m DEF disk, Store!Next, Store!Edit
  <2>2. CASE Rename
    <3>1. /\ file' = table /\ survivors' = survivors \cup {table}
          /\ mem = table /\ mem' = table
      BY <2>2 DEF Rename, Inv, TypeOK, mem
    <3> QED  BY <3>1 DEF Store!Next, Store!Save
  <2>3. CASE Settle
    BY <2>3 DEF Settle, Store!Next, Store!Settle, mem
  <2>4. CASE PowerCut
    <3>1. file' \in survivors /\ survivors' = {file'} /\ mem' = file'
      BY <2>4 DEF PowerCut, NewProcess, mem
    <3> QED  BY <3>1 DEF Store!Next, Store!Restart
  <2>5. CASE Kill
    BY <2>1, <2>5 DEF Kill
  <2>6. CASE UNCHANGED vars
    BY <2>1, <2>6 DEF vars, disk
  <2>7. ASSUME NEW k \in Keys, NEW v \in Values, Put(k, v) \/ SetString(k, v)
        PROVE  UNCHANGED disk
    BY <2>7 DEF Put, SetString
  <2>8. CASE Get \/ Clear \/ Apply \/ Commit \/ Flush \/ Write \/ Sync \/ SaveFails
    BY <2>1, <2>8 DEF Get, Clear, Apply, Commit, Flush, Write, Sync, SaveFails
  <2>9. CASE Tick \/ ClockSetBack \/ \E k \in Keys : Remove(k)
    BY <2>1, <2>9 DEF Tick, ClockSetBack, Remove
  <2> QED
    BY <2>1, <2>2, <2>3, <2>4, <2>5, <2>6, <2>7, <2>8, <2>9 DEF Next, Saving
<1> QED  BY <1>1, <1>2, Invariance, PTL DEF Spec, StoreSpec, Store!Spec
===============================================================================
