------------------------- MODULE CountingSemaphores -------------------------
(***************************************************************************)
(* What the guest may expect of its semaphores, each named by an address:  *)
(* a post adds one, a wait takes one as soon as there is one, and an init  *)
(* never takes back a post that came before it: it only raises the count   *)
(* to the value asked for.                                                 *)
(***************************************************************************)
EXTENDS Naturals

CONSTANTS Threads, Sems, Nothing,
          Values     \* initial values an init may ask for

VARIABLES
    value,   \* what each semaphore holds
    wants    \* the semaphore each thread is waiting for, or Nothing

Init ==
    /\ value = [a \in Sems |-> 0]
    /\ wants = [t \in Threads |-> Nothing]

Ask(t, a) ==
    /\ wants[t] = Nothing
    /\ wants' = [wants EXCEPT ![t] = a]
    /\ UNCHANGED value

Take(t) ==
    /\ wants[t] # Nothing
    /\ value[wants[t]] > 0
    /\ value' = [value EXCEPT ![wants[t]] = @ - 1]
    /\ wants' = [wants EXCEPT ![t] = Nothing]

\* The end of a timed wait.
GiveUp(t) ==
    /\ wants[t] # Nothing
    /\ wants' = [wants EXCEPT ![t] = Nothing]
    /\ UNCHANGED value

TryTake(a) ==
    /\ value[a] > 0
    /\ value' = [value EXCEPT ![a] = @ - 1]
    /\ UNCHANGED wants

Post(a) ==
    /\ value' = [value EXCEPT ![a] = @ + 1]
    /\ UNCHANGED wants

Raise(a) ==
    /\ \E v \in Values :
          v > value[a] /\ value' = [value EXCEPT ![a] = v]
    /\ UNCHANGED wants

Next ==
    \/ \E t \in Threads : Take(t) \/ GiveUp(t) \/ \E a \in Sems : Ask(t, a)
    \/ \E a \in Sems : Post(a) \/ Raise(a) \/ TryTake(a)

vars == <<value, wants>>

Spec == Init /\ [][Next]_vars /\ \A t \in Threads : WF_vars(Take(t))

=============================================================================
