---------------------------- MODULE PthreadBridge ----------------------------
(***************************************************************************)
(* The guest's mutexes, conditions and semaphores on top of the host's     *)
(* (pthread_bridge.c), called by any number of guest threads.              *)
(*                                                                         *)
(* A mutex and a condition of the guest are handles: its memory holds a    *)
(* mark and the address of a host object, made at the first use, which is  *)
(* looked for once without the lock of the bridge and once with it.  A     *)
(* semaphore of the guest is too small for that and is found by its        *)
(* address in a table.                                                     *)
(*                                                                         *)
(* The guest here is a fair user: it enters a section under the mutex,     *)
(* waits in it for a flag that another thread raises and signals without   *)
(* taking the mutex, posts and waits on semaphores, and initialises or     *)
(* destroys a handle only when nobody uses it.                             *)
(***************************************************************************)
EXTENDS Integers, Sequences, SequencesExt

CONSTANTS
    Threads, Nobody,
    Sems, Nothing,     \* addresses of guest semaphores
    SemMax,            \* SEM_MAX: entries of the table
    Values,            \* initial values given to sem_init
    MaxCalls           \* bound: calls the guest begins

ASSUME BridgeAssumption ==
    /\ Nobody \notin Threads /\ Nothing \notin Sems
    /\ SemMax \in Nat /\ MaxCalls \in Nat /\ Values \subseteq Nat

VARIABLES
    word,      \* the guest's memory of a handle: mark and host object
    lock,      \* bridge_lock
    made,      \* host objects made so far; an object is its number
    owner,     \* who holds each host mutex
    sleepers,  \* who sleeps on each host condition
    at,        \* where a thread is in the guest's program
    op, step,  \* the call it is making and where in the bridge it is
    handle,    \* the handle being resolved
    object,    \* the host objects it resolved
    flag,      \* the condition of the guest's program
    table,     \* sems: the address of each entry
    count,     \* the value of each entry's host semaphore
    waitsFor,  \* the address a thread waits for in sem_wait
    calls

handles == <<word, lock, made, owner, sleepers, handle, object, flag>>
sems    == <<table, count, waitsFor>>
vars    == <<handles, sems, at, op, step, calls>>

Handles == {"mutex", "cond"}
\* 0 is NULL; a handle is made afresh once, and once more for every call that
\* wipes it.
Objects == 0 .. MaxCalls + 2
Blank   == [mark |-> FALSE, real |-> 0]

Idle(t)    == at[t] = "idle" /\ step[t] = "none"
Within(t)  == at[t] = "inside"    \* holds the guest's mutex, as it believes
CountCall  == calls < MaxCalls /\ calls' = calls + 1

-------------------------------------------------------------------------------
(* slot: the host object of a handle.                                      *)

Resolve(t, o, h) ==
    /\ op' = [op EXCEPT ![t] = o]
    /\ step' = [step EXCEPT ![t] = "look"]
    /\ handle' = [handle EXCEPT ![t] = h]

Step(t, from, to) == step[t] = from /\ step' = [step EXCEPT ![t] = to]

Live(h) == word[h].mark /\ word[h].real # 0

\* The answer of slot.  pthread_cond_timedwait resolves its condition first
\* and its mutex after that.
Resolved(t) ==
    /\ object' = [object EXCEPT ![t][handle[t]] = word[handle[t]].real]
    /\ IF op[t] = "sleep" /\ handle[t] = "cond"
       THEN /\ step' = [step EXCEPT ![t] = "look"]
            /\ handle' = [handle EXCEPT ![t] = "mutex"]
       ELSE /\ step' = [step EXCEPT ![t] = "run"]
            /\ UNCHANGED handle

\* The first look takes no lock and is not ordered: it may miss what another
\* thread has just stored, but finds nothing that is not there.
Look(t) ==
    /\ step[t] = "look"
    /\ \/ Live(handle[t]) /\ Resolved(t)
       \/ Step(t, "look", "lock") /\ UNCHANGED <<handle, object>>
    /\ UNCHANGED <<word, lock, made, owner, sleepers, flag, at, op, calls, sems>>

Lock(t) ==
    /\ lock = Nobody /\ lock' = t
    /\ Step(t, "lock", "make")
    /\ UNCHANGED <<word, made, owner, sleepers, handle, object, flag, at, op,
                   calls, sems>>

\* Mutant: the second look is left out.
MissingAlways(h) == TRUE

Missing(h) == ~Live(h)

Make(t) ==
    /\ IF Missing(handle[t])
       THEN /\ made' = made + 1
            /\ word' = [word EXCEPT ![handle[t]].real = made + 1]
            /\ Step(t, "make", "mark")
       ELSE /\ Step(t, "make", "unlock")
            /\ UNCHANGED <<word, made>>
    /\ UNCHANGED <<lock, owner, sleepers, handle, object, flag, at, op, calls, sems>>

Mark(t) ==
    /\ Step(t, "mark", "unlock")
    /\ word' = [word EXCEPT ![handle[t]].mark = TRUE]
    /\ UNCHANGED <<lock, made, owner, sleepers, handle, object, flag, at, op,
                   calls, sems>>

Unlock(t) ==
    /\ step[t] = "unlock"
    /\ lock' = Nobody
    /\ Resolved(t)
    /\ UNCHANGED <<word, made, owner, sleepers, flag, at, op, calls, sems>>

-------------------------------------------------------------------------------
(* The calls on the resolved objects.                                      *)

Return(t, where) ==
    /\ step' = [step EXCEPT ![t] = "none"]
    /\ at' = [at EXCEPT ![t] = where]

RunFrame == UNCHANGED <<word, lock, made, handle, object, flag, op, calls, sems>>

Running(t, o) == step[t] = "run" /\ op[t] = o

MutexLock(t) ==
    /\ Running(t, "lock")
    /\ owner[object[t]["mutex"]] = Nobody
    /\ owner' = [owner EXCEPT ![object[t]["mutex"]] = t]
    /\ Return(t, "inside")
    /\ UNCHANGED sleepers /\ RunFrame

MutexUnlock(t) ==
    /\ Running(t, "unlock")
    /\ owner' = [owner EXCEPT ![object[t]["mutex"]] = Nobody]
    /\ Return(t, "idle")
    /\ UNCHANGED sleepers /\ RunFrame

\* b_cond_wait gives up the mutex and sleeps at most 50 ms.
CondWait(t) ==
    /\ Running(t, "sleep")
    /\ owner' = [owner EXCEPT ![object[t]["mutex"]] = Nobody]
    /\ sleepers' = [sleepers EXCEPT ![object[t]["cond"]] = @ \cup {t}]
    /\ step' = [step EXCEPT ![t] = "asleep"]
    /\ at' = [at EXCEPT ![t] = "awaiting"]
    /\ RunFrame

\* Mutant: it sleeps until it is woken.
CeilingNone(t) == FALSE

Ceiling(t) == step[t] = "asleep"

TimesOut(t) ==
    /\ Ceiling(t)
    /\ Step(t, "asleep", "awake")
    /\ sleepers' = [sleepers EXCEPT ![object[t]["cond"]] = @ \ {t}]
    /\ UNCHANGED <<owner, at>> /\ RunFrame

\* Awake, it takes the mutex again; a timeout is reported as a wakeup.
Reacquire(t) ==
    /\ step[t] = "awake"
    /\ owner[object[t]["mutex"]] = Nobody
    /\ owner' = [owner EXCEPT ![object[t]["mutex"]] = t]
    /\ Return(t, "inside")
    /\ UNCHANGED sleepers /\ RunFrame

CondSignal(t) ==
    /\ Running(t, "signal")
    /\ LET asleep == sleepers[object[t]["cond"]]
       IN IF asleep = {}
          THEN Return(t, "idle") /\ UNCHANGED sleepers
          ELSE \E u \in asleep :
                 /\ sleepers' = [sleepers EXCEPT ![object[t]["cond"]] = @ \ {u}]
                 /\ step' = [step EXCEPT ![t] = "none", ![u] = "awake"]
                 /\ at' = [at EXCEPT ![t] = "idle"]
    /\ UNCHANGED owner /\ RunFrame

CondBroadcast(t) ==
    /\ Running(t, "broadcast")
    /\ LET asleep == sleepers[object[t]["cond"]]
       IN step' = [u \in Threads |-> IF u = t THEN "none"
                                     ELSE IF u \in asleep THEN "awake" ELSE step[u]]
    /\ sleepers' = [sleepers EXCEPT ![object[t]["cond"]] = {}]
    /\ at' = [at EXCEPT ![t] = "idle"]
    /\ UNCHANGED owner /\ RunFrame

\* b_mutex_init, b_cond_init: the handle has been resolved, nothing is left.
InitDone(t) ==
    /\ Running(t, "init")
    /\ Return(t, "idle")
    /\ UNCHANGED <<owner, sleepers>> /\ RunFrame

-------------------------------------------------------------------------------
(* The guest.                                                              *)

GuestFrame == UNCHANGED <<lock, made, owner, sleepers, object, sems>>

Enter(t) ==
    /\ Idle(t) /\ CountCall
    /\ Resolve(t, "lock", "mutex")
    /\ at' = [at EXCEPT ![t] = "entering"]
    /\ UNCHANGED <<word, flag>> /\ GuestFrame

\* Inside, it leaves with the flag, or sleeps until it is raised.
Leave(t) ==
    /\ Within(t) /\ step[t] = "none" /\ flag
    /\ flag' = FALSE
    /\ Resolve(t, "unlock", "mutex")
    /\ UNCHANGED <<word, at, calls>> /\ GuestFrame

Sleep(t) ==
    /\ Within(t) /\ step[t] = "none" /\ ~flag
    /\ Resolve(t, "sleep", "cond")
    /\ UNCHANGED <<word, flag, at, calls>> /\ GuestFrame

Announce(t) ==
    /\ Idle(t) /\ CountCall
    /\ flag' = TRUE
    /\ \E o \in {"signal", "broadcast"} : Resolve(t, o, "cond")
    /\ at' = [at EXCEPT ![t] = "signalling"]
    /\ UNCHANGED word /\ GuestFrame

Unused == \A t \in Threads : Idle(t)

\* pthread_mutex_init and the like: the memory is wiped, then resolved.
InitHandle(t, h) ==
    /\ Idle(t) /\ Unused /\ CountCall
    /\ word' = [word EXCEPT ![h] = Blank]
    /\ Resolve(t, "init", h)
    /\ at' = [at EXCEPT ![t] = "entering"]
    /\ UNCHANGED flag /\ GuestFrame

DestroyHandle(t, h) ==
    /\ Idle(t) /\ Unused /\ Live(h) /\ CountCall
    /\ word' = [word EXCEPT ![h] = Blank]
    /\ UNCHANGED <<flag, at, op, step, handle>> /\ GuestFrame

-------------------------------------------------------------------------------
(* Semaphores: S and the calls around it.                                  *)

Known(a) == a \in ToSet(table)
Entry(a) == CHOOSE i \in DOMAIN table : table[i] = a

AtLeast(n, v) == IF n < v THEN v ELSE n

\* Mutant: an init makes a fresh semaphore of the one that is there.
RaisedFresh(n, v) == v

\* "Do not drop posts that arrived before this init."
Raised(n, v) == AtLeast(n, v)

Value(a) == IF Known(a) THEN count[Entry(a)] ELSE 0

\* S(a, v, creating), and the entry's count after the call that looked it up
\* has added n.  Without an entry and without room, the semaphore it answers
\* is known to this call alone.
Find(a, v, creating, n) ==
    IF Known(a)
    THEN /\ count' = [count EXCEPT ![Entry(a)] =
                        n + IF creating THEN Raised(@, v) ELSE @]
         /\ UNCHANGED table
    ELSE IF Len(table) < SemMax
    THEN table' = Append(table, a) /\ count' = Append(count, v + n)
    ELSE UNCHANGED <<table, count>>

SemFrame == UNCHANGED <<handles, at, op>>

SemInit(t, a, v) ==
    /\ Idle(t) /\ lock = Nobody /\ CountCall
    /\ Find(a, v, TRUE, 0)
    /\ UNCHANGED <<waitsFor, step>> /\ SemFrame

\* The post follows S: nothing comes between that another thread could tell.
SemPost(t, a) ==
    /\ Idle(t) /\ lock = Nobody /\ CountCall
    /\ Find(a, 0, FALSE, 1)
    /\ UNCHANGED <<waitsFor, step>> /\ SemFrame

SemWait(t, a) ==
    /\ Idle(t) /\ lock = Nobody /\ CountCall
    /\ Find(a, 0, FALSE, 0)
    /\ waitsFor' = [waitsFor EXCEPT ![t] = a]
    /\ \E how \in {"waiting", "waiting a while"} : step' = [step EXCEPT ![t] = how]
    /\ SemFrame

\* The entry was looked for before: an address without one waits for ever on
\* a semaphore of its own.
SemTake(t) ==
    /\ step[t] \in {"waiting", "waiting a while"}
    /\ Value(waitsFor[t]) > 0
    /\ count' = [count EXCEPT ![Entry(waitsFor[t])] = @ - 1]
    /\ waitsFor' = [waitsFor EXCEPT ![t] = Nothing]
    /\ step' = [step EXCEPT ![t] = "none"]
    /\ UNCHANGED <<table, calls>> /\ SemFrame

\* sem_timedwait
SemTimesOut(t) ==
    /\ Step(t, "waiting a while", "none")
    /\ waitsFor' = [waitsFor EXCEPT ![t] = Nothing]
    /\ UNCHANGED <<table, count, calls>> /\ SemFrame

\* sem_trywait takes one or fails; a failure changes nothing but the table.
SemTryWait(t, a) ==
    /\ Idle(t) /\ lock = Nobody /\ CountCall
    /\ Find(a, 0, FALSE, IF Value(a) > 0 THEN -1 ELSE 0)
    /\ UNCHANGED <<waitsFor, step>> /\ SemFrame

-------------------------------------------------------------------------------
Init ==
    /\ word = [h \in Handles |-> Blank]
    /\ lock = Nobody /\ made = 0
    /\ owner = [o \in Objects |-> Nobody]
    /\ sleepers = [o \in Objects |-> {}]
    /\ at = [t \in Threads |-> "idle"]
    /\ op = [t \in Threads |-> "none"]
    /\ step = [t \in Threads |-> "none"]
    /\ handle = [t \in Threads |-> "mutex"]
    /\ object = [t \in Threads |-> [h \in Handles |-> 0]]
    /\ flag = FALSE
    /\ table = <<>> /\ count = <<>>
    /\ waitsFor = [t \in Threads |-> Nothing]
    /\ calls = 0

\* What a thread does once a call has begun, or while it is inside.
Proceed(t) ==
    \/ Look(t) \/ Lock(t) \/ Make(t) \/ Mark(t) \/ Unlock(t)
    \/ MutexLock(t) \/ MutexUnlock(t) \/ CondWait(t) \/ TimesOut(t)
    \/ Reacquire(t) \/ CondSignal(t) \/ CondBroadcast(t) \/ InitDone(t)
    \/ Leave(t) \/ Sleep(t)

Begin(t) ==
    \/ Enter(t) \/ Announce(t)
    \/ \E h \in Handles : InitHandle(t, h) \/ DestroyHandle(t, h)

SemCall(t) ==
    \E a \in Sems :
       \/ \E v \in Values : SemInit(t, a, v)
       \/ SemPost(t, a) \/ SemWait(t, a) \/ SemTryWait(t, a)

Next ==
    \E t \in Threads :
       Proceed(t) \/ Begin(t) \/ SemCall(t) \/ SemTake(t) \/ SemTimesOut(t)

\* A thread inside a call goes on; the guest begins no call it must.
Fairness == \A t \in Threads : WF_vars(Proceed(t)) /\ WF_vars(SemTake(t))

Spec == Init /\ [][Next]_vars /\ Fairness

-------------------------------------------------------------------------------
(* Properties.                                                             *)

\* The positions of a thread in slot, and in the calls around it.
InSlot == {"look", "lock", "make", "mark", "unlock"}
Waiting == {"waiting", "waiting a while"}

\* Types: the table has one entry per address, with a value each.
TypeOK ==
    /\ word \in [Handles -> [mark : BOOLEAN, real : Nat]]
    /\ lock \in Threads \cup {Nobody}
    /\ made \in Nat
    /\ owner \in [Objects -> Threads \cup {Nobody}]
    /\ sleepers \in [Objects -> SUBSET Threads]
    /\ at \in [Threads -> {"idle", "entering", "inside", "awaiting", "signalling"}]
    /\ op \in [Threads -> {"none", "lock", "unlock", "sleep", "signal", "broadcast",
                           "init"}]
    /\ step \in [Threads -> InSlot \cup Waiting \cup {"none", "run", "asleep", "awake"}]
    /\ handle \in [Threads -> Handles]
    /\ object \in [Threads -> [Handles -> Objects]]
    /\ flag \in BOOLEAN
    /\ table \in Seq(Sems) /\ count \in Seq(Nat) /\ Len(count) = Len(table)
    /\ IsInjective(table)
    /\ waitsFor \in [Threads -> Sems \cup {Nothing}]
    /\ calls \in 0 .. MaxCalls

\* Two threads that meet the same fresh handle get the same host mutex: the
\* guest's section never holds two of them.
Exclusive == \A t, u \in Threads : Within(t) /\ Within(u) => t = u

\* "a lost wakeup shows up as a slow frame instead of a permanent freeze": a
\* thread asleep while the flag is up comes back, even if the signal was sent
\* before it slept or to another object.
NoFreeze ==
    \A t \in Threads :
       at[t] = "awaiting" /\ flag ~> at[t] # "awaiting" \/ ~flag

\* The table implements counting semaphores, as long as it has room: no init
\* takes back a post that came before it, each post is taken once, and nobody
\* waits for ever on a semaphore that has value.
Semaphores ==
    INSTANCE CountingSemaphores
    WITH value <- [a \in Sems |-> Value(a)], wants <- waitsFor

Semantics == Semaphores!Spec

=============================================================================
