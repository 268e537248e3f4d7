---------------------------- MODULE JniReferences ----------------------------
(***************************************************************************)
(* What the reclaiming of JNI objects promises the guest: an object lives  *)
(* as long as a global reference to it is held, for ever once the adapter  *)
(* keeps it, and for the frame it was made in and the Grace frames after.  *)
(* Collecting is allowed in no other case and due in none, and an object   *)
(* comes into being only where none lives.                                 *)
(***************************************************************************)
EXTENDS Naturals

CONSTANTS
    Addr,
    Grace

VARIABLES
    alive,   \* the objects that have not been collected
    held,    \* how many global references the guest holds to each
    kept,    \* what the adapter keeps
    age      \* frame boundaries since each was made, up to Grace + 1

Init ==
    /\ alive = {} /\ kept = {}
    /\ held = [o \in Addr |-> 0]
    /\ age = [o \in Addr |-> 0]

\* An object is made: kept from the start, or with a local reference.
Create(o) ==
    /\ o \notin alive
    /\ alive' = alive \cup {o}
    /\ kept' \in {kept, kept \cup {o}}
    /\ held' = [held EXCEPT ![o] = 0]
    /\ age' = [age EXCEPT ![o] = 0]

Promote(o) ==
    /\ o \in alive
    /\ held' = [held EXCEPT ![o] = @ + 1]
    /\ UNCHANGED <<alive, kept, age>>

Drop(o) ==
    /\ o \in alive /\ held[o] > 0
    /\ held' = [held EXCEPT ![o] = @ - 1]
    /\ UNCHANGED <<alive, kept, age>>

Keep(o) ==
    /\ o \in alive
    /\ kept' = kept \cup {o}
    /\ UNCHANGED <<alive, held, age>>

Frame ==
    /\ age' = [o \in Addr |-> IF age[o] > Grace THEN age[o] ELSE age[o] + 1]
    /\ UNCHANGED <<alive, held, kept>>

Collect(o) ==
    /\ o \in alive \ kept
    /\ held[o] = 0 /\ age[o] > Grace
    /\ alive' = alive \ {o}
    /\ UNCHANGED <<held, kept, age>>

Next ==
    \/ Frame
    \/ \E o \in Addr :
          Create(o) \/ Promote(o) \/ Drop(o) \/ Keep(o) \/ Collect(o)

Spec == Init /\ [][Next]_<<alive, held, kept, age>>
=============================================================================
