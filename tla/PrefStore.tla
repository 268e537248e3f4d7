----------------------------- MODULE PrefStore -------------------------------
(***************************************************************************)
(* What the preferences promise: a map in memory, a file that at any time  *)
(* holds one whole map the memory has had, and a process that starts again *)
(* from the file.                                                          *)
(***************************************************************************)
CONSTANTS
    Keys,
    Values,
    None       \* the key has no value

VARIABLES
    mem,       \* the map the program reads
    file,      \* the map in the file, as the running system sees it
    survivors  \* the maps the file may hold after a power cut

Maps == [Keys -> Values \cup {None}]

Init ==
    /\ file \in Maps
    /\ mem = file
    /\ survivors = {file}

\* The program changes its map; the file is not touched.
Edit ==
    /\ mem' \in Maps
    /\ UNCHANGED <<file, survivors>>

\* The whole map replaces the file, which a power cut may still undo.
Save ==
    /\ file' = mem
    /\ survivors' = survivors \cup {mem}
    /\ UNCHANGED mem

\* The kernel has written everything back.
Settle ==
    /\ survivors' = {file}
    /\ UNCHANGED <<mem, file>>

\* The process ends, or the power does.
Restart ==
    /\ file' \in {file} \cup survivors
    /\ survivors' \in {survivors, {file'}}
    /\ mem' = file'

Next == Edit \/ Save \/ Settle \/ Restart

Spec == Init /\ [][Next]_<<mem, file, survivors>>
===============================================================================
