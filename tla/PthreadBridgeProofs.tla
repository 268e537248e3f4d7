------------------------- MODULE PthreadBridgeProofs -------------------------
(***************************************************************************)
(* What holds of the bridge for any number of threads, semaphores and      *)
(* calls: its types, that the guest's section has one thread in it         *)
(* although the handles are made at their first use by whoever comes       *)
(* first, and that the table is a set of counting semaphores as long as it *)
(* has room.  The invariant says why: an object of a handle is made under  *)
(* the lock, becomes visible with its mark, and is wiped only when nobody  *)
(* has resolved it; so whoever holds the mutex of a handle holds the one   *)
(* object that is in the guest's memory now.                               *)
(***************************************************************************)
EXTENDS PthreadBridge, FiniteSetTheorems, TLAPS

\* What is known of a handle.
Made(h) == IF word[h].real = 0 THEN 0 ELSE 1

HandlesOK ==
    /\ \A h \in Handles : /\ word[h].real = 0 => ~word[h].mark
                          /\ word[h].real <= made
    /\ made <= calls + Made("mutex") + Made("cond")

\* Where a thread is in the bridge and where it is in the guest's program.
Position(t) ==
    /\ step[t] \in {"none"} \cup Waiting =>
           at[t] = "idle" \/ (step[t] = "none" /\ at[t] = "inside")
    /\ step[t] \in {"asleep", "awake"} => at[t] = "awaiting" /\ op[t] = "sleep"
    /\ step[t] \in InSlot \cup {"run"} =>
           /\ at[t] \in {"entering", "inside", "signalling"}
           /\ (at[t] = "inside") <=> (op[t] \in {"unlock", "sleep"})
           /\ op[t] \in {"lock", "unlock"} => handle[t] = "mutex"
    /\ step[t] = "run" /\ op[t] = "sleep" => handle[t] = "mutex"
    /\ (waitsFor[t] # Nothing) <=> (step[t] \in Waiting)

Positions == \A t \in Threads : Position(t)

\* The lock of the bridge is held from the second look on; what it guards.
Locked ==
    \A t \in Threads :
        /\ step[t] \in {"make", "mark", "unlock"} => lock = t
        /\ step[t] = "mark" => word[handle[t]].real # 0
        /\ step[t] = "unlock" => Live(handle[t])

\* An object without its mark is being marked.
Pending ==
    \A h \in Handles : word[h].real # 0 /\ ~word[h].mark =>
        \E t \in Threads : step[t] = "mark" /\ handle[t] = h

HasMutex(t) ==
    \/ step[t] = "run" /\ op[t] \in {"lock", "unlock", "sleep"}
    \/ step[t] \in {"asleep", "awake"}

\* Whoever resolved the mutex has the one object of the handle, and whoever is
\* inside owns it.
SharedBy(t) == HasMutex(t) => Live("mutex") /\ object[t]["mutex"] = word["mutex"].real

OwnedBy(t) == Within(t) => Live("mutex") /\ owner[word["mutex"].real] = t

Shared == \A t \in Threads : SharedBy(t) /\ OwnedBy(t)

Asleep ==
    \A o \in Objects : \A u \in sleepers[o] : step[u] = "asleep" /\ object[u]["cond"] = o

IInv == TypeOK /\ HandlesOK /\ Positions /\ Locked /\ Pending /\ Shared /\ Asleep

-------------------------------------------------------------------------------
LEMMA RealInObjects ==
    ASSUME IInv, NEW h \in Handles
    PROVE  word[h].real \in Objects
  BY BridgeAssumption DEF IInv, TypeOK, HandlesOK, Made, Objects, Handles

LEMMA SharedFrame ==
    ASSUME IInv, NEW u \in Threads, UNCHANGED word,
           step'[u] = step[u], op'[u] = op[u], object'[u] = object[u]
    PROVE  SharedBy(u)'
  BY DEF IInv, Shared, SharedBy, HasMutex, Live

LEMMA OwnedFrame ==
    ASSUME IInv, NEW u \in Threads, UNCHANGED <<word, owner>>, at'[u] = at[u]
    PROVE  OwnedBy(u)'
  BY DEF IInv, Shared, OwnedBy, Within, Live

LEMMA ResolvedOK ==
    ASSUME IInv, NEW t \in Threads, Resolved(t), Live(handle[t]), step[t] \in InSlot,
           UNCHANGED <<word, owner, at, op>>
    PROVE  /\ handle' \in [Threads -> Handles]
           /\ object' \in [Threads -> [Handles -> Objects]]
           /\ \A u \in Threads : SharedBy(u)' /\ OwnedBy(u)'
<1>1. handle' \in [Threads -> Handles] /\ object' \in [Threads -> [Handles -> Objects]]
  BY RealInObjects DEF IInv, TypeOK, Resolved, Handles
<1>2. ASSUME NEW u \in Threads PROVE OwnedBy(u)'
  BY <1>2, OwnedFrame
<1>3. ASSUME NEW u \in Threads PROVE SharedBy(u)'
  <2>1. CASE u # t
    BY <2>1, SharedFrame DEF IInv, TypeOK, Resolved
  <2>2. CASE op[t] = "sleep" /\ handle[t] = "cond"
    <3>1. step'[t] = "look"
      BY <2>2 DEF IInv, TypeOK, Resolved
    <3> QED BY <3>1, <2>1 DEF SharedBy, HasMutex
  <2>3. CASE op[t] # "sleep" /\ handle[t] = "cond"
    <3>1. step'[t] = "run" /\ op'[t] \notin {"lock", "unlock", "sleep"}
      BY <2>3 DEF IInv, TypeOK, Positions, Position, InSlot, Resolved
    <3> QED BY <3>1, <2>1 DEF SharedBy, HasMutex
  <2>4. CASE handle[t] = "mutex"
    <3>1. object'[t]["mutex"] = word["mutex"].real
      BY <2>4 DEF IInv, TypeOK, Resolved, Handles
    <3> QED BY <3>1, <2>1, <2>4 DEF SharedBy, Live
  <2> QED BY <2>1, <2>2, <2>3, <2>4 DEF IInv, TypeOK, Handles
<1> QED BY <1>1, <1>2, <1>3

LEMMA PositionFrame ==
    ASSUME IInv, NEW u \in Threads, step'[u] = step[u], op'[u] = op[u],
           at'[u] = at[u], handle'[u] = handle[u], waitsFor'[u] = waitsFor[u]
    PROVE  Position(u)'
  BY DEF IInv, Positions, Position

LEMMA ResolvedPositions ==
    ASSUME IInv, NEW t \in Threads, Resolved(t), step[t] \in InSlot,
           UNCHANGED <<at, op, waitsFor>>
    PROVE  /\ step' \in [Threads -> InSlot \cup Waiting \cup {"none", "run", "asleep", "awake"}]
           /\ step'[t] \in {"look", "run"}
           /\ \A u \in Threads \ {t} : step'[u] = step[u]
           /\ Positions'
<1>1. /\ step'[t] \in {"look", "run"}
      /\ \A u \in Threads \ {t} : step'[u] = step[u] /\ handle'[u] = handle[u]
  BY DEF IInv, TypeOK, Resolved
<1>2. step' \in [Threads -> InSlot \cup Waiting \cup {"none", "run", "asleep", "awake"}]
  BY DEF IInv, TypeOK, Resolved, InSlot
<1>3. Position(t)'
  <2>1. CASE op[t] = "sleep" /\ handle[t] = "cond"
    <3>1. step'[t] = "look" /\ handle'[t] = "mutex"
      BY <2>1 DEF IInv, TypeOK, Resolved
    <3> QED BY <3>1, <2>1 DEF IInv, Positions, Position, InSlot, Waiting
  <2>2. CASE ~(op[t] = "sleep" /\ handle[t] = "cond")
    <3>1. step'[t] = "run" /\ handle'[t] = handle[t] /\ handle[t] \in Handles
      BY <2>2 DEF IInv, TypeOK, Resolved
    <3> QED BY <3>1, <2>2 DEF IInv, Positions, Position, InSlot, Waiting, Handles
  <2> QED BY <2>1, <2>2
<1>4. ASSUME NEW u \in Threads \ {t} PROVE Position(u)'
  BY <1>1, <1>4, PositionFrame
<1> QED BY <1>1, <1>2, <1>3, <1>4 DEF Positions

\* What a step of t leaves alone.
Others(t) ==
    \A u \in Threads \ {t} :
        /\ step'[u] = step[u] /\ op'[u] = op[u] /\ at'[u] = at[u]
        /\ handle'[u] = handle[u] /\ object'[u] = object[u]
        /\ waitsFor'[u] = waitsFor[u]

LEMMA FrameOK ==
    ASSUME IInv, NEW t \in Threads, Others(t),
           UNCHANGED <<word, lock, made, owner, sleepers>>, calls' >= calls,
           TypeOK', Position(t)', SharedBy(t)', OwnedBy(t)',
           step[t] \notin {"asleep", "mark"}, step'[t] \notin {"make", "mark", "unlock"}
    PROVE  IInv'
<1>1. HandlesOK'
  <2>1. calls \in Nat /\ calls' \in Nat /\ made \in Nat
    BY BridgeAssumption DEF IInv, TypeOK
  <2>2. UNCHANGED <<Made("mutex"), Made("cond")>> /\ Made("mutex") \in Nat /\ Made("cond") \in Nat
    BY DEF Made
  <2> QED BY <2>1, <2>2 DEF IInv, HandlesOK
<1>2. Positions'
  BY PositionFrame DEF Others, Positions
<1>3. Shared'
  BY SharedFrame, OwnedFrame DEF Others, Shared
<1>4. Locked'
  BY DEF IInv, Locked, Live, Others
<1>5. Asleep'
  <2>1. ASSUME NEW o \in Objects, NEW u \in sleepers[o] PROVE u \in Threads \ {t}
    BY <2>1 DEF IInv, TypeOK, Asleep
  <2> QED BY <2>1 DEF IInv, TypeOK, Asleep, Others
<1>6. Pending'
  BY DEF IInv, Pending, Others
<1> QED BY <1>1, <1>2, <1>3, <1>4, <1>5, <1>6 DEF IInv

LEMMA LookOK ==
    ASSUME IInv, NEW t \in Threads, Look(t)
    PROVE  IInv'
<1>1. CASE Live(handle[t]) /\ Resolved(t)
  <2>1. /\ UNCHANGED <<word, lock, made, owner, sleepers, flag, at, op, calls, waitsFor>>
        /\ UNCHANGED sems /\ step[t] = "look"
    BY <1>1 DEF Look, sems
  <2>2. Positions' /\ step'[t] \in {"look", "run"} /\ \A u \in Threads \ {t} : step'[u] = step[u]
    BY <1>1, <2>1, ResolvedPositions DEF InSlot
  <2>3. Others(t)
    BY <1>1, <2>1, <2>2 DEF IInv, TypeOK, Resolved, Others
  <2>4. TypeOK'
    BY <1>1, <2>1, ResolvedOK, ResolvedPositions DEF IInv, TypeOK, sems, InSlot
  <2>5. SharedBy(t)' /\ OwnedBy(t)'
    BY <1>1, <2>1, ResolvedOK DEF InSlot
  <2>6. calls' >= calls
    BY <2>1 DEF IInv, TypeOK
  <2> QED BY <2>1, <2>2, <2>3, <2>4, <2>5, <2>6, FrameOK DEF Positions
<1>2. CASE Step(t, "look", "lock") /\ UNCHANGED <<handle, object>>
  <2>1. TypeOK'
    BY <1>2 DEF IInv, TypeOK, Look, Step, InSlot, sems
  <2>2. Others(t) /\ step[t] = "look" /\ step'[t] = "lock" /\ calls' >= calls
        /\ UNCHANGED <<word, lock, made, owner, sleepers>>
    BY <1>2 DEF IInv, TypeOK, Look, Step, sems, Others
  <2>3. Position(t)'
    BY <1>2, <2>2 DEF IInv, Positions, Position, Look, InSlot, Waiting, sems
  <2>4. SharedBy(t)' /\ OwnedBy(t)'
    BY <2>2, OwnedFrame DEF Look, SharedBy, HasMutex
  <2> QED BY <2>1, <2>2, <2>3, <2>4, FrameOK
<1> QED BY <1>1, <1>2 DEF Look

LEMMA InitDoneOK ==
    ASSUME IInv, NEW t \in Threads, InitDone(t)
    PROVE  IInv'
<1>1. /\ Others(t) /\ step[t] = "run" /\ step'[t] = "none" /\ calls' >= calls
      /\ at'[t] = "idle" /\ UNCHANGED <<word, lock, made, owner, sleepers, waitsFor>>
  BY DEF IInv, TypeOK, InitDone, Running, Return, RunFrame, sems, Others
<1>2. TypeOK'
  BY DEF IInv, TypeOK, InitDone, Running, Return, RunFrame, sems
<1>3. Position(t)'
  BY <1>1 DEF IInv, Positions, Position, InSlot, Waiting
<1>4. SharedBy(t)' /\ OwnedBy(t)'
  BY <1>1 DEF SharedBy, HasMutex, OwnedBy, Within
<1> QED BY <1>1, <1>2, <1>3, <1>4, FrameOK

LEMMA EnterOK ==
    ASSUME IInv, NEW t \in Threads, Enter(t)
    PROVE  IInv'
<1>1. /\ Others(t) /\ step[t] = "none" /\ step'[t] = "look" /\ calls' >= calls
      /\ op'[t] = "lock" /\ at'[t] = "entering" /\ handle'[t] = "mutex"
      /\ UNCHANGED <<word, lock, made, owner, sleepers, waitsFor>>
  BY BridgeAssumption
     DEF IInv, TypeOK, Enter, Idle, CountCall, Resolve, GuestFrame, sems, Others
<1>2. TypeOK'
  BY BridgeAssumption
     DEF IInv, TypeOK, Enter, Idle, CountCall, Resolve, GuestFrame, sems, InSlot, Handles
<1>3. Position(t)'
  BY <1>1 DEF IInv, Positions, Position, InSlot, Waiting
<1>4. SharedBy(t)' /\ OwnedBy(t)'
  BY <1>1 DEF SharedBy, HasMutex, OwnedBy, Within
<1> QED BY <1>1, <1>2, <1>3, <1>4, FrameOK

LEMMA LeaveOK ==
    ASSUME IInv, NEW t \in Threads, Leave(t)
    PROVE  IInv'
<1>1. /\ Others(t) /\ step[t] = "none" /\ step'[t] = "look" /\ calls' >= calls
      /\ op'[t] = "unlock" /\ at[t] = "inside" /\ UNCHANGED at /\ handle'[t] = "mutex"
      /\ UNCHANGED <<word, lock, made, owner, sleepers, waitsFor>>
  BY DEF IInv, TypeOK, Leave, Within, Resolve, GuestFrame, sems, Others
<1>2. TypeOK'
  BY DEF IInv, TypeOK, Leave, Within, Resolve, GuestFrame, sems, InSlot, Handles
<1>3. Position(t)'
  BY <1>1 DEF IInv, Positions, Position, InSlot, Waiting
<1>4. SharedBy(t)' /\ OwnedBy(t)'
  BY <1>1, OwnedFrame DEF SharedBy, HasMutex
<1> QED BY <1>1, <1>2, <1>3, <1>4, FrameOK

LEMMA SleepOK ==
    ASSUME IInv, NEW t \in Threads, Sleep(t)
    PROVE  IInv'
<1>1. /\ Others(t) /\ step[t] = "none" /\ step'[t] = "look" /\ calls' >= calls
      /\ op'[t] = "sleep" /\ at[t] = "inside" /\ UNCHANGED at /\ handle'[t] = "cond"
      /\ UNCHANGED <<word, lock, made, owner, sleepers, waitsFor>>
  BY DEF IInv, TypeOK, Sleep, Within, Resolve, GuestFrame, sems, Others
<1>2. TypeOK'
  BY DEF IInv, TypeOK, Sleep, Within, Resolve, GuestFrame, sems, InSlot, Handles
<1>3. Position(t)'
  BY <1>1 DEF IInv, Positions, Position, InSlot, Waiting
<1>4. SharedBy(t)' /\ OwnedBy(t)'
  BY <1>1, OwnedFrame DEF SharedBy, HasMutex
<1> QED BY <1>1, <1>2, <1>3, <1>4, FrameOK

LEMMA AnnounceOK ==
    ASSUME IInv, NEW t \in Threads, Announce(t)
    PROVE  IInv'
<1>1. PICK o \in {"signal", "broadcast"} : Resolve(t, o, "cond")
  BY DEF Announce
<1>2. /\ Others(t) /\ step[t] = "none" /\ step'[t] = "look" /\ calls' >= calls
      /\ op'[t] = o /\ at'[t] = "signalling" /\ handle'[t] = "cond"
      /\ UNCHANGED <<word, lock, made, owner, sleepers, waitsFor>>
  BY <1>1, BridgeAssumption
     DEF IInv, TypeOK, Announce, Idle, CountCall, Resolve, GuestFrame, sems, Others
<1>3. TypeOK'
  BY <1>1, BridgeAssumption
     DEF IInv, TypeOK, Announce, Idle, CountCall, Resolve, GuestFrame, sems, InSlot, Handles
<1>4. Position(t)'
  BY <1>2 DEF IInv, Positions, Position, InSlot, Waiting
<1>5. SharedBy(t)' /\ OwnedBy(t)'
  BY <1>2 DEF SharedBy, HasMutex, OwnedBy, Within
<1> QED BY <1>2, <1>3, <1>4, <1>5, FrameOK

LEMMA LockOK ==
    ASSUME IInv, NEW t \in Threads, Lock(t)
    PROVE  IInv'
<1>1. /\ Others(t) /\ step[t] = "lock" /\ step'[t] = "make"
      /\ lock = Nobody /\ lock' = t
      /\ UNCHANGED <<word, made, owner, sleepers, handle, object, op, at, calls, waitsFor>>
  BY DEF IInv, TypeOK, Lock, Step, sems, Others
<1>2. TypeOK'
  BY DEF IInv, TypeOK, Lock, Step, sems, InSlot
<1>3. HandlesOK'
  BY <1>1 DEF IInv, HandlesOK, Made
<1>4. Positions'
  <2>1. Position(t)'
    BY <1>1 DEF IInv, Positions, Position, InSlot, Waiting
  <2> QED BY <1>1, <2>1, PositionFrame DEF Others, Positions
<1>5. Locked'
  BY <1>1, BridgeAssumption DEF IInv, Locked, Live, Others
<1>6. Shared'
  <2>1. SharedBy(t)'
    BY <1>1 DEF SharedBy, HasMutex
  <2> QED BY <1>1, <2>1, SharedFrame, OwnedFrame DEF Others, Shared
<1>7. Asleep'
  BY <1>1 DEF IInv, TypeOK, Asleep, Others
<1>8. Pending'
  BY <1>1 DEF IInv, Pending, Others
<1> QED BY <1>2, <1>3, <1>4, <1>5, <1>6, <1>7, <1>8 DEF IInv

\* A handle that somebody uses is not made again.
LEMMA MakeOK ==
    ASSUME IInv, NEW t \in Threads, Make(t)
    PROVE  IInv'
<1>0. /\ Others(t) /\ step[t] = "make" /\ lock = t /\ handle[t] \in Handles
      /\ UNCHANGED <<lock, owner, sleepers, handle, object, op, at, calls, waitsFor>>
  BY DEF IInv, TypeOK, Locked, Make, Step, sems, Others
<1>1. CASE Live(handle[t])
  <2>1. UNCHANGED <<word, made>> /\ step'[t] = "unlock"
    BY <1>1 DEF IInv, TypeOK, Make, Missing, Step
  <2>2. TypeOK'
    BY <1>1 DEF IInv, TypeOK, Make, Missing, Step, sems, InSlot
  <2>3. HandlesOK'
    BY <1>0, <2>1 DEF IInv, HandlesOK, Made
  <2>4. Positions'
    <3>1. Position(t)'
      BY <1>0, <2>1 DEF IInv, Positions, Position, InSlot, Waiting
    <3> QED BY <1>0, <3>1, PositionFrame DEF Others, Positions
  <2>5. Locked'
    BY <1>0, <1>1, <2>1 DEF IInv, Locked, Live, Others
  <2>6. Shared'
    <3>1. SharedBy(t)'
      BY <2>1 DEF SharedBy, HasMutex
    <3> QED BY <1>0, <2>1, <3>1, SharedFrame, OwnedFrame DEF Others, Shared
  <2>7. Asleep'
    BY <1>0 DEF IInv, TypeOK, Asleep, Others
  <2>8. Pending'
    BY <1>0, <2>1 DEF IInv, Pending, Others
  <2> QED BY <2>2, <2>3, <2>4, <2>5, <2>6, <2>7, <2>8 DEF IInv
<1>2. CASE ~Live(handle[t])
  <2>1. /\ made' = made + 1 /\ step'[t] = "mark" /\ made \in Nat
        /\ word' = [word EXCEPT ![handle[t]].real = made + 1]
    BY <1>2 DEF IInv, TypeOK, Make, Missing, Step
  <2>2. word[handle[t]].real = 0
    BY <1>0, <1>2, BridgeAssumption DEF IInv, Locked, Pending, Live
  <2>3. /\ word' \in [Handles -> [mark : BOOLEAN, real : Nat]]
        /\ word'[handle[t]].real = made + 1
        /\ word'[handle[t]].mark = word[handle[t]].mark
        /\ \A h \in Handles \ {handle[t]} : word'[h] = word[h]
    <3>1. word \in [Handles -> [mark : BOOLEAN, real : Nat]] /\ made + 1 \in Nat
      BY <2>1 DEF IInv, TypeOK
    <3> QED BY <1>0, <2>1, <3>1
  <2>4. ~word[handle[t]].mark
    BY <1>0, <2>2 DEF IInv, HandlesOK
  <2>5. TypeOK'
    <3>1. made' \in Nat /\ step' = [step EXCEPT ![t] = "mark"]
      BY <1>2, <2>1 DEF Make, Missing, Step
    <3> QED BY <1>0, <2>3, <3>1 DEF IInv, TypeOK, Make, sems, InSlot
  <2>6. HandlesOK'
    <3>1. calls \in Nat /\ made \in Nat
      BY BridgeAssumption DEF IInv, TypeOK
    <3>2. CASE handle[t] = "mutex"
      <4>1. Made("mutex") = 0 /\ Made("mutex")' = 1 /\ UNCHANGED Made("cond")
        BY <2>2, <2>3, <3>1, <3>2 DEF Made, Handles
      <4> QED BY <1>0, <2>1, <2>3, <2>4, <3>1, <3>2, <4>1 DEF IInv, TypeOK, HandlesOK, Made
    <3>3. CASE handle[t] = "cond"
      <4>1. Made("cond") = 0 /\ Made("cond")' = 1 /\ UNCHANGED Made("mutex")
        BY <2>2, <2>3, <3>1, <3>3 DEF Made, Handles
      <4> QED BY <1>0, <2>1, <2>3, <2>4, <3>1, <3>3, <4>1 DEF IInv, TypeOK, HandlesOK, Made
    <3> QED BY <1>0, <3>2, <3>3 DEF Handles
  <2>7. Positions'
    <3>1. Position(t)'
      BY <1>0, <2>1 DEF IInv, Positions, Position, InSlot, Waiting
    <3> QED BY <1>0, <3>1, PositionFrame DEF Others, Positions
  <2>8. Locked'
    BY <1>0, <2>1, <2>3, <2>4, BridgeAssumption DEF IInv, TypeOK, Locked, Live, Others
  <2>9. Shared'
    <3>1. ~Live("mutex") \/ word'["mutex"] = word["mutex"]
      BY <2>2, <2>3 DEF Live, Handles
    <3>2. SharedBy(t)'
      BY <2>1 DEF SharedBy, HasMutex
    <3>3. OwnedBy(t)'
      BY <1>0, <3>1 DEF IInv, Shared, OwnedBy, Within, Live
    <3>4. ASSUME NEW u \in Threads \ {t} PROVE SharedBy(u)' /\ OwnedBy(u)'
      BY <1>0, <3>1, <3>4 DEF IInv, Shared, SharedBy, OwnedBy, HasMutex, Within, Live, Others
    <3> QED BY <3>2, <3>3, <3>4 DEF Shared
  <2>10. Asleep'
    BY <1>0 DEF IInv, TypeOK, Asleep, Others
  <2>11. Pending'
    <3> SUFFICES ASSUME NEW h \in Handles, word'[h].real # 0, ~word'[h].mark
                 PROVE  \E u \in Threads : step'[u] = "mark" /\ handle'[u] = h
      BY DEF Pending
    <3>1. CASE h = handle[t]
      BY <1>0, <2>1, <3>1
    <3>2. CASE h # handle[t]
      <4>1. word[h].real # 0 /\ ~word[h].mark
        BY <2>3, <3>2
      <4>2. PICK u \in Threads : step[u] = "mark"
        BY <4>1 DEF IInv, Pending
      <4> QED BY <1>0, <4>2 DEF IInv, Locked
    <3> QED BY <3>1, <3>2
  <2> QED BY <2>5, <2>6, <2>7, <2>8, <2>9, <2>10, <2>11 DEF IInv
<1> QED BY <1>1, <1>2

LEMMA MarkOK ==
    ASSUME IInv, NEW t \in Threads, Mark(t)
    PROVE  IInv'
<1>1. /\ Others(t) /\ step[t] = "mark" /\ step'[t] = "unlock" /\ lock = t /\ handle[t] \in Handles
      /\ UNCHANGED <<lock, made, owner, sleepers, handle, object, op, at, calls, waitsFor>>
  BY DEF IInv, TypeOK, Locked, Mark, Step, sems, Others
<1>2. /\ word' \in [Handles -> [mark : BOOLEAN, real : Nat]]
      /\ \A h \in Handles : word'[h].real = word[h].real
      /\ \A h \in Handles : word'[h].mark = (word[h].mark \/ h = handle[t])
      /\ word[handle[t]].real # 0
  BY <1>1 DEF IInv, TypeOK, Mark, Locked
<1>3. TypeOK'
  BY <1>2 DEF IInv, TypeOK, Mark, Step, sems, InSlot
<1>4. HandlesOK'
  BY <1>1, <1>2 DEF IInv, HandlesOK, Made, Handles
<1>5. Positions'
  <2>1. Position(t)'
    BY <1>1 DEF IInv, Positions, Position, InSlot, Waiting
  <2> QED BY <1>1, <2>1, PositionFrame DEF Others, Positions
<1>6. Locked'
  BY <1>1, <1>2 DEF IInv, TypeOK, Locked, Live, Others
<1>7. Shared'
  <2>1. word'["mutex"].real = word["mutex"].real /\ (Live("mutex") => Live("mutex")')
    BY <1>2 DEF Live, Handles
  <2>2. SharedBy(t)'
    BY <1>1 DEF SharedBy, HasMutex
  <2>3. OwnedBy(t)'
    BY <1>1, <2>1 DEF IInv, Shared, OwnedBy, Within
  <2>4. ASSUME NEW u \in Threads \ {t} PROVE SharedBy(u)' /\ OwnedBy(u)'
    BY <1>1, <2>1, <2>4 DEF IInv, Shared, SharedBy, OwnedBy, HasMutex, Within, Others
  <2> QED BY <2>2, <2>3, <2>4 DEF Shared
<1>8. Asleep'
  BY <1>1 DEF IInv, TypeOK, Asleep, Others
<1>9. Pending'
  <2> SUFFICES ASSUME NEW h \in Handles, word'[h].real # 0, ~word'[h].mark PROVE FALSE
    BY DEF Pending
  <2>1. h # handle[t] /\ word[h].real # 0 /\ ~word[h].mark
    BY <1>2
  <2>2. PICK u \in Threads : step[u] = "mark" /\ handle[u] = h
    BY <2>1 DEF IInv, Pending
  <2> QED BY <1>1, <2>1, <2>2 DEF IInv, Locked
<1> QED BY <1>3, <1>4, <1>5, <1>6, <1>7, <1>8, <1>9 DEF IInv

LEMMA UnlockOK ==
    ASSUME IInv, NEW t \in Threads, Unlock(t)
    PROVE  IInv'
<1>1. /\ UNCHANGED <<word, made, owner, sleepers, flag, at, op, calls, waitsFor>>
      /\ UNCHANGED sems /\ step[t] = "unlock" /\ lock = t /\ lock' = Nobody
      /\ Live(handle[t]) /\ Resolved(t)
  BY DEF IInv, Locked, Unlock, sems
<1>2. Positions' /\ step'[t] \in {"look", "run"} /\ \A u \in Threads \ {t} : step'[u] = step[u]
  BY <1>1, ResolvedPositions DEF InSlot
<1>3. Others(t)
  BY <1>1, <1>2 DEF IInv, TypeOK, Resolved, Others
<1>4. TypeOK'
  BY <1>1, ResolvedOK, ResolvedPositions DEF IInv, TypeOK, sems, InSlot
<1>5. HandlesOK'
  BY <1>1 DEF IInv, HandlesOK, Made
<1>6. Shared'
  BY <1>1, ResolvedOK DEF Shared, InSlot
<1>7. Locked'
  BY <1>1, <1>2, <1>3, BridgeAssumption DEF IInv, Locked, Others
<1>8. Asleep'
  <2>1. ASSUME NEW o \in Objects, NEW u \in sleepers[o] PROVE u \in Threads \ {t}
    BY <1>1, <2>1 DEF IInv, TypeOK, Asleep
  <2> QED BY <1>1, <1>3, <2>1 DEF IInv, Asleep, Others
<1>9. Pending'
  BY <1>1, <1>3 DEF IInv, Pending, Others
<1> QED BY <1>2, <1>4, <1>5, <1>6, <1>7, <1>8, <1>9 DEF IInv

\* A step outside slot leaves the handles alone.
LEMMA QuietOK ==
    ASSUME IInv, NEW t \in Threads, Others(t),
           UNCHANGED <<word, lock, made, calls>>,
           step[t] # "mark", step'[t] \notin {"make", "mark", "unlock"}
    PROVE  /\ HandlesOK' /\ Locked' /\ Pending'
           /\ step[t] # "asleep" /\ UNCHANGED sleepers => Asleep'
<1>1. HandlesOK'
  BY DEF IInv, HandlesOK, Made
<1>2. Locked'
  BY DEF IInv, Locked, Live, Others
<1>3. Pending'
  BY DEF IInv, Pending, Others
<1>4. ASSUME step[t] # "asleep", UNCHANGED sleepers PROVE Asleep'
  <2>1. ASSUME NEW o \in Objects, NEW u \in sleepers[o] PROVE u \in Threads \ {t}
    BY <1>4, <2>1 DEF IInv, TypeOK, Asleep
  <2> QED BY <1>4, <2>1 DEF IInv, Asleep, Others
<1> QED BY <1>1, <1>2, <1>3, <1>4

\* What a thread that owns the mutex keeps the others from.
LEMMA InsideAlone ==
    ASSUME IInv, NEW t \in Threads, NEW u \in Threads, Within(t), Within(u)
    PROVE  t = u
  BY DEF IInv, Shared, OwnedBy

LEMMA MutexLockOK ==
    ASSUME IInv, NEW t \in Threads, MutexLock(t)
    PROVE  IInv'
<1>1. /\ Others(t) /\ step[t] = "run" /\ op[t] = "lock" /\ step'[t] = "none"
      /\ at'[t] = "inside" /\ owner[object[t]["mutex"]] = Nobody
      /\ owner' = [owner EXCEPT ![object[t]["mutex"]] = t]
      /\ UNCHANGED <<word, lock, made, sleepers, handle, object, op, calls, waitsFor>>
  BY DEF IInv, TypeOK, MutexLock, Running, Return, RunFrame, sems, Others
<1>2. Live("mutex") /\ object[t]["mutex"] = word["mutex"].real /\ word["mutex"].real \in Objects
  BY <1>1, RealInObjects DEF IInv, Shared, SharedBy, HasMutex, Handles
<1>3. TypeOK'
  BY <1>2 DEF IInv, TypeOK, MutexLock, Running, Return, RunFrame, sems
<1>4. Shared'
  <2>1. OwnedBy(t)'
    BY <1>1, <1>2 DEF IInv, TypeOK, OwnedBy, Live
  <2>2. SharedBy(t)'
    BY <1>1 DEF SharedBy, HasMutex
  <2>3. ASSUME NEW u \in Threads \ {t} PROVE ~Within(u)'
    BY <1>1, <1>2, <2>3, BridgeAssumption DEF IInv, Shared, OwnedBy, Within, Others
  <2>4. ASSUME NEW u \in Threads \ {t} PROVE SharedBy(u)' /\ OwnedBy(u)'
    BY <1>1, <2>3, <2>4, SharedFrame DEF OwnedBy, Others
  <2> QED BY <2>1, <2>2, <2>4 DEF Shared
<1>5. Positions'
  <2>1. Position(t)'
    BY <1>1 DEF IInv, Positions, Position, InSlot, Waiting
  <2> QED BY <1>1, <2>1, PositionFrame DEF Others, Positions
<1>6. HandlesOK' /\ Locked' /\ Pending' /\ Asleep'
  BY <1>1, QuietOK
<1> QED BY <1>3, <1>4, <1>5, <1>6 DEF IInv

LEMMA MutexUnlockOK ==
    ASSUME IInv, NEW t \in Threads, MutexUnlock(t)
    PROVE  IInv'
<1>1. /\ Others(t) /\ step[t] = "run" /\ op[t] = "unlock" /\ step'[t] = "none"
      /\ at'[t] = "idle"
      /\ owner' = [owner EXCEPT ![object[t]["mutex"]] = Nobody]
      /\ UNCHANGED <<word, lock, made, sleepers, handle, object, op, calls, waitsFor>>
  BY DEF IInv, TypeOK, MutexUnlock, Running, Return, RunFrame, sems, Others
<1>2. Within(t)
  BY <1>1 DEF IInv, Positions, Position, Within
<1>3. TypeOK'
  BY DEF IInv, TypeOK, MutexUnlock, Running, Return, RunFrame, sems
<1>4. Shared'
  <2>1. SharedBy(t)' /\ OwnedBy(t)'
    BY <1>1 DEF SharedBy, HasMutex, OwnedBy, Within
  <2>2. ASSUME NEW u \in Threads \ {t} PROVE ~Within(u)'
    BY <1>1, <1>2, <2>2, InsideAlone DEF Within, Others
  <2>3. ASSUME NEW u \in Threads \ {t} PROVE SharedBy(u)' /\ OwnedBy(u)'
    BY <1>1, <2>2, <2>3, SharedFrame DEF OwnedBy, Others
  <2> QED BY <2>1, <2>3 DEF Shared
<1>5. Positions'
  <2>1. Position(t)'
    BY <1>1 DEF IInv, Positions, Position, InSlot, Waiting
  <2> QED BY <1>1, <2>1, PositionFrame DEF Others, Positions
<1>6. HandlesOK' /\ Locked' /\ Pending' /\ Asleep'
  BY <1>1, QuietOK
<1> QED BY <1>3, <1>4, <1>5, <1>6 DEF IInv

LEMMA ReacquireOK ==
    ASSUME IInv, NEW t \in Threads, Reacquire(t)
    PROVE  IInv'
<1>1. /\ Others(t) /\ step[t] = "awake" /\ step'[t] = "none"
      /\ at'[t] = "inside" /\ owner[object[t]["mutex"]] = Nobody
      /\ owner' = [owner EXCEPT ![object[t]["mutex"]] = t]
      /\ UNCHANGED <<word, lock, made, sleepers, handle, object, op, calls, waitsFor>>
  BY DEF IInv, TypeOK, Reacquire, Return, RunFrame, sems, Others
<1>2. Live("mutex") /\ object[t]["mutex"] = word["mutex"].real /\ word["mutex"].real \in Objects
  BY <1>1, RealInObjects DEF IInv, Shared, SharedBy, HasMutex, Handles
<1>3. TypeOK'
  BY <1>2 DEF IInv, TypeOK, Reacquire, Return, RunFrame, sems
<1>4. Shared'
  <2>1. OwnedBy(t)'
    BY <1>1, <1>2 DEF IInv, TypeOK, OwnedBy, Live
  <2>2. SharedBy(t)'
    BY <1>1 DEF SharedBy, HasMutex
  <2>3. ASSUME NEW u \in Threads \ {t} PROVE ~Within(u)'
    BY <1>1, <1>2, <2>3, BridgeAssumption DEF IInv, Shared, OwnedBy, Within, Others
  <2>4. ASSUME NEW u \in Threads \ {t} PROVE SharedBy(u)' /\ OwnedBy(u)'
    BY <1>1, <2>3, <2>4, SharedFrame DEF OwnedBy, Others
  <2> QED BY <2>1, <2>2, <2>4 DEF Shared
<1>5. Positions'
  <2>1. Position(t)'
    BY <1>1 DEF IInv, Positions, Position, InSlot, Waiting
  <2> QED BY <1>1, <2>1, PositionFrame DEF Others, Positions
<1>6. HandlesOK' /\ Locked' /\ Pending' /\ Asleep'
  BY <1>1, QuietOK
<1> QED BY <1>3, <1>4, <1>5, <1>6 DEF IInv

LEMMA CondWaitOK ==
    ASSUME IInv, NEW t \in Threads, CondWait(t)
    PROVE  IInv'
<1>1. /\ Others(t) /\ step[t] = "run" /\ op[t] = "sleep" /\ step'[t] = "asleep"
      /\ at'[t] = "awaiting"
      /\ owner' = [owner EXCEPT ![object[t]["mutex"]] = Nobody]
      /\ sleepers' = [sleepers EXCEPT ![object[t]["cond"]] = @ \cup {t}]
      /\ UNCHANGED <<word, lock, made, handle, object, op, calls, waitsFor>>
  BY DEF IInv, TypeOK, CondWait, Running, RunFrame, sems, Others
<1>2. Within(t)
  BY <1>1 DEF IInv, Positions, Position, Within
<1>3. TypeOK'
  BY DEF IInv, TypeOK, CondWait, Running, RunFrame, sems
<1>4. Shared'
  <2>1. SharedBy(t)'
    BY <1>1 DEF IInv, Shared, SharedBy, HasMutex, Live
  <2>2. OwnedBy(t)'
    BY <1>1 DEF OwnedBy, Within
  <2>3. ASSUME NEW u \in Threads \ {t} PROVE ~Within(u)'
    BY <1>1, <1>2, <2>3, InsideAlone DEF Within, Others
  <2>4. ASSUME NEW u \in Threads \ {t} PROVE SharedBy(u)' /\ OwnedBy(u)'
    BY <1>1, <2>3, <2>4, SharedFrame DEF OwnedBy, Others
  <2> QED BY <2>1, <2>2, <2>4 DEF Shared
<1>5. Positions'
  <2>1. Position(t)'
    BY <1>1 DEF IInv, Positions, Position, InSlot, Waiting
  <2> QED BY <1>1, <2>1, PositionFrame DEF Others, Positions
<1>6. HandlesOK' /\ Locked' /\ Pending'
  BY <1>1, QuietOK
<1>7. Asleep'
  <2>1. ASSUME NEW o \in Objects, NEW u \in sleepers'[o]
        PROVE  step'[u] = "asleep" /\ object'[u]["cond"] = o
    <3>1. u \in sleepers[o] \/ (u = t /\ o = object[t]["cond"])
      BY <1>1, <2>1 DEF IInv, TypeOK
    <3>2. u \in sleepers[o] => u \in Threads /\ u # t
      BY <1>1 DEF IInv, TypeOK, Asleep
    <3> QED BY <1>1, <3>1, <3>2 DEF IInv, Asleep, Others
  <2> QED BY <2>1 DEF Asleep
<1> QED BY <1>3, <1>4, <1>5, <1>6, <1>7 DEF IInv

LEMMA TimesOutOK ==
    ASSUME IInv, NEW t \in Threads, TimesOut(t)
    PROVE  IInv'
<1>1. /\ Others(t) /\ step[t] = "asleep" /\ step'[t] = "awake"
      /\ sleepers' = [sleepers EXCEPT ![object[t]["cond"]] = @ \ {t}]
      /\ UNCHANGED <<word, lock, made, owner, at, handle, object, op, calls, waitsFor>>
  BY DEF IInv, TypeOK, TimesOut, Ceiling, Step, RunFrame, sems, Others
<1>2. TypeOK'
  BY DEF IInv, TypeOK, TimesOut, Ceiling, Step, RunFrame, sems
<1>3. Shared'
  <2>1. SharedBy(t)'
    BY <1>1 DEF IInv, Shared, SharedBy, HasMutex, Live
  <2> QED BY <1>1, <2>1, SharedFrame, OwnedFrame DEF Others, Shared
<1>4. Positions'
  <2>1. Position(t)'
    BY <1>1 DEF IInv, Positions, Position, InSlot, Waiting
  <2> QED BY <1>1, <2>1, PositionFrame DEF Others, Positions
<1>5. HandlesOK' /\ Locked' /\ Pending'
  BY <1>1, QuietOK
<1>6. Asleep'
  <2>1. ASSUME NEW o \in Objects, NEW u \in sleepers'[o]
        PROVE  step'[u] = "asleep" /\ object'[u]["cond"] = o
    <3>1. u \in sleepers[o] /\ (o = object[t]["cond"] => u # t)
      BY <1>1, <2>1 DEF IInv, TypeOK
    <3>2. u \in Threads /\ u # t
      BY <1>1, <3>1 DEF IInv, TypeOK, Asleep
    <3> QED BY <1>1, <3>1, <3>2 DEF IInv, Asleep, Others
  <2> QED BY <2>1 DEF Asleep
<1> QED BY <1>2, <1>3, <1>4, <1>5, <1>6 DEF IInv

\* A signal moves one sleeper, or none.
LEMMA CondSignalOK ==
    ASSUME IInv, NEW t \in Threads, CondSignal(t)
    PROVE  IInv'
<1> DEFINE o == object[t]["cond"]
<1>1. /\ step[t] = "run" /\ op[t] = "signal" /\ o \in Objects
      /\ UNCHANGED <<word, lock, made, owner, handle, object, flag, op, calls, sems, waitsFor>>
  BY DEF IInv, TypeOK, CondSignal, Running, RunFrame, sems, Handles
<1>2. CASE sleepers[o] = {}
  <2>1. /\ Others(t) /\ step'[t] = "none" /\ at'[t] = "idle" /\ UNCHANGED sleepers
    BY <1>1, <1>2 DEF IInv, TypeOK, CondSignal, Return, Others
  <2>2. TypeOK'
    BY <1>1, <1>2 DEF IInv, TypeOK, CondSignal, Return, sems
  <2>3. Position(t)'
    BY <1>1, <2>1 DEF IInv, Positions, Position, InSlot, Waiting
  <2>4. SharedBy(t)' /\ OwnedBy(t)' /\ calls' >= calls
    BY <1>1, <2>1 DEF IInv, TypeOK, SharedBy, HasMutex, OwnedBy, Within
  <2> QED BY <1>1, <2>1, <2>2, <2>3, <2>4, FrameOK
<1>3. CASE sleepers[o] # {}
  <2>1. PICK u \in sleepers[o] :
           /\ sleepers' = [sleepers EXCEPT ![o] = @ \ {u}]
           /\ step' = [step EXCEPT ![t] = "none", ![u] = "awake"]
           /\ at' = [at EXCEPT ![t] = "idle"]
    BY <1>3 DEF CondSignal
  <2>2. u \in Threads /\ step[u] = "asleep" /\ u # t /\ object[u]["cond"] = o
    BY <1>1 DEF IInv, TypeOK, Asleep
  <2>3. /\ step'[t] = "none" /\ at'[t] = "idle"
        /\ step'[u] = "awake" /\ at'[u] = at[u]
        /\ \A x \in Threads \ {t, u} : step'[x] = step[x] /\ at'[x] = at[x]
    BY <2>1, <2>2 DEF IInv, TypeOK
  <2>4. TypeOK'
    BY <1>1, <2>1, <2>2 DEF IInv, TypeOK, sems
  <2>5. HandlesOK' /\ Locked' /\ Pending'
    <3>1. HandlesOK'
      BY <1>1 DEF IInv, HandlesOK, Made
    <3>2. Locked'
      BY <1>1, <2>3 DEF IInv, Locked, Live
    <3>3. Pending'
      BY <1>1, <2>2, <2>3 DEF IInv, Pending
    <3> QED BY <3>1, <3>2, <3>3
  <2>6. Positions'
    <3>1. Position(t)'
      BY <1>1, <2>3 DEF IInv, Positions, Position, InSlot, Waiting
    <3>2. Position(u)'
      BY <1>1, <2>2, <2>3 DEF IInv, Positions, Position, InSlot, Waiting
    <3>3. ASSUME NEW x \in Threads \ {t, u} PROVE Position(x)'
      BY <1>1, <2>3, <3>3, PositionFrame
    <3> QED BY <3>1, <3>2, <3>3 DEF Positions
  <2>7. Shared'
    <3>1. SharedBy(t)' /\ OwnedBy(t)'
      BY <2>3 DEF SharedBy, HasMutex, OwnedBy, Within
    <3>2. SharedBy(u)' /\ OwnedBy(u)'
      BY <1>1, <2>2, <2>3, OwnedFrame DEF IInv, Shared, SharedBy, HasMutex, Live
    <3>3. ASSUME NEW x \in Threads \ {t, u} PROVE SharedBy(x)' /\ OwnedBy(x)'
      BY <1>1, <2>3, <3>3, SharedFrame, OwnedFrame
    <3> QED BY <3>1, <3>2, <3>3 DEF Shared
  <2>8. Asleep'
    <3>1. ASSUME NEW p \in Objects, NEW x \in sleepers'[p]
          PROVE  step'[x] = "asleep" /\ object'[x]["cond"] = p
      <4>1. x \in sleepers[p] /\ (p = o => x # u)
        BY <2>1, <3>1 DEF IInv, TypeOK
      <4>2. x \in Threads \ {t, u} /\ step[x] = "asleep" /\ object[x]["cond"] = p
        BY <1>1, <2>2, <4>1 DEF IInv, TypeOK, Asleep
      <4> QED BY <1>1, <2>3, <4>2
    <3> QED BY <3>1 DEF Asleep
  <2> QED BY <2>4, <2>5, <2>6, <2>7, <2>8 DEF IInv
<1> QED BY <1>2, <1>3

LEMMA CondBroadcastOK ==
    ASSUME IInv, NEW t \in Threads, CondBroadcast(t)
    PROVE  IInv'
<1> DEFINE o == object[t]["cond"]
<1> DEFINE woken == sleepers[o]
<1>1. /\ step[t] = "run" /\ op[t] = "broadcast" /\ o \in Objects
      /\ UNCHANGED <<word, lock, made, owner, handle, object, flag, op, calls, sems, waitsFor>>
      /\ sleepers' = [sleepers EXCEPT ![o] = {}] /\ at' = [at EXCEPT ![t] = "idle"]
      /\ step' = [x \in Threads |-> IF x = t THEN "none"
                                    ELSE IF x \in woken THEN "awake" ELSE step[x]]
  BY DEF IInv, TypeOK, CondBroadcast, Running, RunFrame, sems, Handles
<1>2. /\ woken \subseteq Threads \ {t}
      /\ \A x \in woken : step[x] = "asleep" /\ object[x]["cond"] = o
  BY <1>1 DEF IInv, TypeOK, Asleep
<1> HIDE DEF o, woken
<1>3. /\ step'[t] = "none" /\ at'[t] = "idle"
      /\ \A x \in woken : step'[x] = "awake" /\ at'[x] = at[x]
      /\ \A x \in Threads \ ({t} \cup woken) : step'[x] = step[x] /\ at'[x] = at[x]
  BY <1>1, <1>2 DEF IInv, TypeOK
<1>4. TypeOK'
  <2>1. step' \in [Threads -> InSlot \cup Waiting \cup {"none", "run", "asleep", "awake"}]
    BY <1>1 DEF IInv, TypeOK
  <2>2. sleepers' \in [Objects -> SUBSET Threads]
    BY <1>1 DEF IInv, TypeOK
  <2>3. at' \in [Threads -> {"idle", "entering", "inside", "awaiting", "signalling"}]
    BY <1>1 DEF IInv, TypeOK
  <2> QED BY <1>1, <2>1, <2>2, <2>3 DEF IInv, TypeOK, sems
<1>5. HandlesOK'
  BY <1>1 DEF IInv, HandlesOK, Made
<1>6. Locked'
  BY <1>1, <1>2, <1>3 DEF IInv, Locked, Live
<1>7. Pending'
  <2>1. ASSUME NEW u \in Threads, step[u] = "mark" PROVE step'[u] = "mark"
    BY <1>1, <1>2, <1>3, <2>1
  <2> QED BY <1>1, <2>1 DEF IInv, Pending
<1>8. Positions'
  <2>1. Position(t)'
    BY <1>1, <1>3 DEF IInv, Positions, Position, InSlot, Waiting
  <2>2. ASSUME NEW x \in woken PROVE Position(x)'
    <3>1. x \in Threads /\ step[x] = "asleep" /\ step'[x] = "awake" /\ UNCHANGED <<at[x], op[x], waitsFor[x]>>
      BY <1>1, <1>2, <1>3, <2>2
    <3> QED BY <3>1 DEF IInv, Positions, Position, InSlot, Waiting
  <2>3. ASSUME NEW x \in Threads \ ({t} \cup woken) PROVE Position(x)'
    BY <1>1, <1>3, <2>3, PositionFrame
  <2> QED BY <2>1, <2>2, <2>3 DEF Positions
<1>9. Shared'
  <2>1. SharedBy(t)' /\ OwnedBy(t)'
    BY <1>3 DEF SharedBy, HasMutex, OwnedBy, Within
  <2>2. ASSUME NEW x \in woken PROVE SharedBy(x)' /\ OwnedBy(x)'
    <3>1. x \in Threads /\ OwnedBy(x)'
      BY <1>1, <1>2, <1>3, <2>2, OwnedFrame
    <3>2. SharedBy(x)'
      BY <1>1, <1>2, <1>3, <2>2, <3>1 DEF IInv, Shared, SharedBy, HasMutex, Live
    <3> QED BY <3>1, <3>2
  <2>3. ASSUME NEW x \in Threads \ ({t} \cup woken) PROVE SharedBy(x)' /\ OwnedBy(x)'
    BY <1>1, <1>3, <2>3, SharedFrame, OwnedFrame
  <2> QED BY <2>1, <2>2, <2>3 DEF Shared
<1>10. Asleep'
  <2>1. ASSUME NEW p \in Objects, NEW x \in sleepers'[p]
        PROVE  step'[x] = "asleep" /\ object'[x]["cond"] = p
    <3>1. p # o /\ x \in sleepers[p]
      BY <1>1, <2>1 DEF IInv, TypeOK
    <3>2. x \in Threads /\ step[x] = "asleep" /\ object[x]["cond"] = p
      BY <3>1 DEF IInv, TypeOK, Asleep
    <3>3. x \notin {t} \cup woken
      BY <1>1, <1>2, <3>1, <3>2
    <3> QED BY <1>1, <1>3, <3>2, <3>3
  <2> QED BY <2>1 DEF Asleep
<1> QED BY <1>4, <1>5, <1>6, <1>7, <1>8, <1>9, <1>10 DEF IInv

\* A handle is wiped only when nobody uses it.
LEMMA Wiped ==
    ASSUME IInv, NEW t \in Threads, NEW h \in Handles, Unused, calls' = calls + 1,
           word' = [word EXCEPT ![h] = Blank],
           UNCHANGED <<made, owner, sleepers, object>>,
           \A u \in Threads \ {t} : step'[u] = "none" /\ at'[u] = "idle",
           step'[t] \in {"none", "look"}, at'[t] \in {"idle", "entering"}
    PROVE  HandlesOK' /\ Locked' /\ Pending' /\ Shared' /\ Asleep'
<1>1. HandlesOK'
  <2>1. /\ word'[h].real = 0 /\ ~word'[h].mark
        /\ \A g \in Handles \ {h} : word'[g] = word[g]
    BY DEF IInv, TypeOK, Blank
  <2>2. /\ calls \in Nat /\ made \in Nat
        /\ Made("mutex") + Made("cond") <= Made("mutex")' + Made("cond")' + 1
        /\ Made("mutex")' \in Nat /\ Made("cond")' \in Nat
        /\ Made("mutex") \in Nat /\ Made("cond") \in Nat
    BY <2>1, BridgeAssumption DEF IInv, TypeOK, Made, Handles
  <2> QED BY <2>1, <2>2 DEF IInv, HandlesOK
<1>2. Locked'
  BY DEF Locked
<1>3. Pending'
  <2> SUFFICES ASSUME NEW g \in Handles, word'[g].real # 0, ~word'[g].mark PROVE FALSE
    BY DEF Pending
  <2>1. word[g].real # 0 /\ ~word[g].mark
    BY DEF IInv, TypeOK, Blank
  <2> QED BY <2>1 DEF IInv, Pending, Unused, Idle
<1>4. Shared'
  BY DEF Shared, SharedBy, OwnedBy, HasMutex, Within
<1>5. Asleep'
  <2>1. ASSUME NEW o \in Objects PROVE sleepers[o] = {}
    BY <2>1 DEF IInv, TypeOK, Asleep, Unused, Idle
  <2> QED BY <2>1 DEF Asleep
<1> QED BY <1>1, <1>2, <1>3, <1>4, <1>5

LEMMA InitHandleOK ==
    ASSUME IInv, NEW t \in Threads, NEW h \in Handles, InitHandle(t, h)
    PROVE  IInv'
<1>1. /\ Others(t) /\ step[t] = "none" /\ step'[t] = "look" /\ calls' = calls + 1
      /\ op'[t] = "init" /\ at'[t] = "entering" /\ handle'[t] = h
      /\ word' = [word EXCEPT ![h] = Blank]
      /\ UNCHANGED <<lock, made, owner, sleepers, object, waitsFor>>
  BY DEF IInv, TypeOK, InitHandle, Idle, CountCall, Resolve, GuestFrame, sems, Others
<1>2. TypeOK'
  BY BridgeAssumption
     DEF IInv, TypeOK, InitHandle, Idle, CountCall, Resolve, GuestFrame, sems, InSlot, Blank
<1>3. Positions'
  <2>1. Position(t)'
    BY <1>1 DEF IInv, Positions, Position, InSlot, Waiting
  <2> QED BY <1>1, <2>1, PositionFrame DEF Others, Positions
<1>4. HandlesOK' /\ Locked' /\ Pending' /\ Shared' /\ Asleep'
  <2>1. Unused
    BY DEF InitHandle
  <2>2. \A u \in Threads \ {t} : step'[u] = "none" /\ at'[u] = "idle"
    BY <1>1, <2>1 DEF Unused, Idle, Others
  <2> QED BY <1>1, <2>1, <2>2, Wiped
<1> QED BY <1>2, <1>3, <1>4 DEF IInv

LEMMA DestroyHandleOK ==
    ASSUME IInv, NEW t \in Threads, NEW h \in Handles, DestroyHandle(t, h)
    PROVE  IInv'
<1>1. /\ Others(t) /\ step[t] = "none" /\ calls' = calls + 1 /\ at[t] = "idle"
      /\ word' = [word EXCEPT ![h] = Blank]
      /\ UNCHANGED <<lock, made, owner, sleepers, object, waitsFor, step, at, op, handle>>
  BY DEF IInv, TypeOK, DestroyHandle, Idle, CountCall, GuestFrame, sems, Others
<1>2. TypeOK'
  BY BridgeAssumption
     DEF IInv, TypeOK, DestroyHandle, Idle, CountCall, GuestFrame, sems, Blank
<1>3. Positions'
  BY <1>1, PositionFrame DEF Positions
<1>4. HandlesOK' /\ Locked' /\ Pending' /\ Shared' /\ Asleep'
  <2>1. Unused
    BY DEF DestroyHandle
  <2>2. \A u \in Threads \ {t} : step'[u] = "none" /\ at'[u] = "idle"
    BY <1>1, <2>1 DEF Unused, Idle, Others
  <2> QED BY <1>1, <2>1, <2>2, Wiped
<1> QED BY <1>2, <1>3, <1>4 DEF IInv

(***************************************************************************)
(* The table of semaphores.                                                *)
(***************************************************************************)
LEMMA EntryOK ==
    ASSUME IInv, NEW i \in DOMAIN table
    PROVE  /\ Known(table[i]) /\ Entry(table[i]) = i
           /\ Value(table[i]) = count[i] /\ count[i] \in Nat
<1>1. Known(table[i])
  BY DEF Known, ToSet
<1>2. Entry(table[i]) = i
  BY DEF Entry, IInv, TypeOK, IsInjective
<1>3. count[i] \in Nat
  BY DEF IInv, TypeOK
<1> QED BY <1>1, <1>2, <1>3 DEF Value

LEMMA KnownOK ==
    ASSUME IInv, NEW a \in Sems, Known(a)
    PROVE  /\ Entry(a) \in DOMAIN table /\ table[Entry(a)] = a
           /\ Entry(a) \in DOMAIN count /\ Value(a) = count[Entry(a)]
<1>1. PICK i \in DOMAIN table : table[i] = a
  BY DEF Known, ToSet
<1>2. Entry(a) = i
  BY <1>1, EntryOK
<1>3. DOMAIN count = DOMAIN table
  BY DEF IInv, TypeOK
<1> QED BY <1>1, <1>2, <1>3 DEF Value

LEMMA ValueType == ASSUME IInv, NEW a \in Sems PROVE Value(a) \in Nat
  BY KnownOK, EntryOK DEF Value

\* What the table holds after one entry was set.
LEMMA SetCount ==
    ASSUME IInv, NEW a \in Sems, Known(a), NEW n \in Nat,
           UNCHANGED table, count' = [count EXCEPT ![Entry(a)] = n]
    PROVE  /\ count' \in Seq(Nat) /\ Len(count') = Len(table')
           /\ \A b \in Sems : Value(b)' = IF b = a THEN n ELSE Value(b)
<1>1. /\ Entry(a) \in DOMAIN count /\ Entry(a) \in DOMAIN table /\ table[Entry(a)] = a
      /\ count \in Seq(Nat) /\ Len(count) = Len(table)
  BY KnownOK DEF IInv, TypeOK
<1>2. count' \in Seq(Nat) /\ Len(count') = Len(table') /\ DOMAIN count' = DOMAIN count
  BY <1>1
<1>3. ASSUME NEW b \in Sems PROVE Value(b)' = IF b = a THEN n ELSE Value(b)
  <2>1. Known(b)' <=> Known(b)
    BY DEF Known
  <2>2. Entry(b)' = Entry(b)
    BY DEF Entry
  <2>3. CASE Known(b)
    <3>1. Entry(b) \in DOMAIN count /\ table[Entry(b)] = b
      BY <2>3, KnownOK DEF IInv, TypeOK
    <3>2. Entry(b) = Entry(a) <=> b = a
      BY <1>1, <3>1
    <3> QED BY <1>1, <2>1, <2>2, <2>3, <3>1, <3>2 DEF Value
  <2>4. CASE ~Known(b)
    BY <2>1, <2>4 DEF Value
  <2> QED BY <2>3, <2>4
<1> QED BY <1>2, <1>3

\* What it holds after an entry was added.
LEMMA AddEntry ==
    ASSUME IInv, NEW a \in Sems, ~Known(a), NEW n \in Nat,
           table' = Append(table, a), count' = Append(count, n)
    PROVE  /\ table' \in Seq(Sems) /\ count' \in Seq(Nat) /\ Len(count') = Len(table')
           /\ IsInjective(table')
           /\ \A b \in Sems : Value(b)' = IF b = a THEN n ELSE Value(b)
<1>1. /\ table \in Seq(Sems) /\ count \in Seq(Nat) /\ Len(count) = Len(table)
      /\ IsInjective(table)
  BY DEF IInv, TypeOK
<1>2. /\ table' \in Seq(Sems) /\ count' \in Seq(Nat) /\ Len(count') = Len(table')
      /\ Len(table') = Len(table) + 1
      /\ table'[Len(table) + 1] = a /\ count'[Len(table) + 1] = n
      /\ \A i \in DOMAIN table : table'[i] = table[i] /\ count'[i] = count[i]
      /\ DOMAIN table' = DOMAIN table \cup {Len(table) + 1}
      /\ Len(table) + 1 \notin DOMAIN table
  BY <1>1
<1>3. \A i \in DOMAIN table : table[i] # a
  BY DEF Known, ToSet
<1>4. IsInjective(table')
  BY <1>1, <1>2, <1>3 DEF IsInjective
<1>5. ASSUME NEW b \in Sems PROVE Value(b)' = IF b = a THEN n ELSE Value(b)
  <2>1. \A i \in DOMAIN table' : table'[i] = b => Entry(b)' = i
    BY <1>4 DEF Entry, IsInjective
  <2>2. CASE b = a
    <3>1. Known(b)' /\ Entry(b)' = Len(table) + 1
      BY <1>2, <2>1, <2>2 DEF Known, ToSet
    <3> QED BY <1>2, <2>2, <3>1 DEF Value
  <2>3. CASE b # a /\ Known(b)
    <3>1. Entry(b) \in DOMAIN table /\ table[Entry(b)] = b /\ Value(b) = count[Entry(b)]
      BY <2>3, KnownOK
    <3>2. Known(b)' /\ Entry(b)' = Entry(b)
      BY <1>2, <2>1, <3>1 DEF Known, ToSet
    <3> QED BY <1>2, <2>3, <3>1, <3>2 DEF Value
  <2>4. CASE b # a /\ ~Known(b)
    <3>1. ~Known(b)'
      BY <1>2, <2>4 DEF Known, ToSet
    <3> QED BY <2>4, <3>1 DEF Value
  <2> QED BY <2>2, <2>3, <2>4
<1> QED BY <1>2, <1>4, <1>5

\* What S and the call around it do to the values.
After(a, v, creating, n) ==
    IF Known(a) THEN n + IF creating THEN Raised(Value(a), v) ELSE Value(a) ELSE v + n

LEMMA FindOK ==
    ASSUME IInv, NEW a \in Sems, NEW v \in Nat, NEW creating \in BOOLEAN, NEW n \in Int,
           Find(a, v, creating, n), After(a, v, creating, n) \in Nat
    PROVE  /\ table' \in Seq(Sems) /\ count' \in Seq(Nat) /\ Len(count') = Len(table')
           /\ IsInjective(table')
           /\ Known(a) \/ Len(table) < SemMax =>
                 \A b \in Sems : Value(b)' = IF b = a THEN After(a, v, creating, n) ELSE Value(b)
<1>1. CASE Known(a)
  <2>1. count' = [count EXCEPT ![Entry(a)] = After(a, v, creating, n)] /\ UNCHANGED table
    BY <1>1, KnownOK DEF Find, After
  <2> QED BY <1>1, <2>1, SetCount DEF IInv, TypeOK
<1>2. CASE ~Known(a) /\ Len(table) < SemMax
  <2>1. table' = Append(table, a) /\ count' = Append(count, After(a, v, creating, n))
    BY <1>2 DEF Find, After
  <2> QED BY <1>2, <2>1, AddEntry
<1>3. CASE ~Known(a) /\ ~(Len(table) < SemMax)
  BY <1>3 DEF Find, IInv, TypeOK
<1> QED BY <1>1, <1>2, <1>3

\* A call on a semaphore touches neither handles nor other threads.
LEMMA SemFrameOK ==
    ASSUME IInv, NEW t \in Threads, UNCHANGED <<handles, at, op>>,
           table' \in Seq(Sems), count' \in Seq(Nat), Len(count') = Len(table'),
           IsInjective(table'), calls' \in 0 .. MaxCalls, calls' >= calls,
           waitsFor' \in [Threads -> Sems \cup {Nothing}],
           step'[t] \in Waiting \cup {"none"},
           step' = [step EXCEPT ![t] = step'[t]],
           \A u \in Threads \ {t} : waitsFor'[u] = waitsFor[u],
           (waitsFor'[t] # Nothing) <=> (step'[t] \in Waiting),
           step[t] \in Waiting \cup {"none"}, at[t] = "idle"
    PROVE  IInv'
<1> DEFINE S == InSlot \cup Waiting \cup {"none", "run", "asleep", "awake"}
<1>0. step'[t] \in Waiting \cup {"none"} /\ step' \in [Threads -> S]
  <2>1. step \in [Threads -> S] /\ step'[t] \in S
    BY DEF IInv, TypeOK
  <2> QED BY <2>1
<1>1. TypeOK'
  <2> HIDE DEF S
  <2>1. table' \in Seq(Sems) /\ count' \in Seq(Nat) /\ Len(count') = Len(table') /\ IsInjective(table')
    OBVIOUS
  <2>2. UNCHANGED <<word, lock, made, owner, sleepers, at, op, handle, object, flag>>
    BY DEF handles
  <2> QED BY <1>0, <2>1, <2>2 DEF IInv, TypeOK, S
<1>2. Others(t) /\ UNCHANGED <<word, lock, made, owner, sleepers>> /\ at'[t] = "idle"
  BY DEF IInv, TypeOK, handles, Others
<1>3. Position(t)'
  BY <1>0, <1>2 DEF Position, InSlot, Waiting
<1>4. SharedBy(t)' /\ OwnedBy(t)'
  BY <1>0, <1>2 DEF SharedBy, HasMutex, OwnedBy, Within, Waiting
<1> QED BY <1>0, <1>1, <1>2, <1>3, <1>4, FrameOK DEF Waiting

LEMMA SemInitOK ==
    ASSUME IInv, NEW t \in Threads, NEW a \in Sems, NEW v \in Values, SemInit(t, a, v)
    PROVE  IInv'
<1>1. v \in Nat /\ After(a, v, TRUE, 0) \in Nat
  BY BridgeAssumption, ValueType DEF After, Raised, AtLeast
<1>2. /\ table' \in Seq(Sems) /\ count' \in Seq(Nat) /\ Len(count') = Len(table')
      /\ IsInjective(table')
  <2>1. Find(a, v, TRUE, 0)
    BY DEF SemInit
  <2>2. 0 \in Int
    OBVIOUS
  <2> QED BY <1>1, <2>1, <2>2, FindOK
<1>3. Idle(t) /\ UNCHANGED <<waitsFor, step, handles, at, op>> /\ calls' \in 0 .. MaxCalls /\ calls' >= calls
  BY BridgeAssumption DEF SemInit, SemFrame, CountCall, IInv, TypeOK
<1>4. (waitsFor[t] # Nothing) <=> (step[t] \in Waiting)
  BY DEF IInv, Positions, Position
<1> QED BY <1>2, <1>3, <1>4, SemFrameOK DEF Idle, IInv, TypeOK

LEMMA SemPostOK ==
    ASSUME IInv, NEW t \in Threads, NEW a \in Sems, SemPost(t, a)
    PROVE  IInv'
<1>1. After(a, 0, FALSE, 1) \in Nat
  BY ValueType DEF After
<1>2. /\ table' \in Seq(Sems) /\ count' \in Seq(Nat) /\ Len(count') = Len(table')
      /\ IsInjective(table')
  <2>1. Find(a, 0, FALSE, 1)
    BY DEF SemPost
  <2>2. 0 \in Nat /\ 1 \in Int
    OBVIOUS
  <2> QED BY <1>1, <2>1, <2>2, FindOK
<1>3. Idle(t) /\ UNCHANGED <<waitsFor, step, handles, at, op>> /\ calls' \in 0 .. MaxCalls /\ calls' >= calls
  BY BridgeAssumption DEF SemPost, SemFrame, CountCall, IInv, TypeOK
<1>4. (waitsFor[t] # Nothing) <=> (step[t] \in Waiting)
  BY DEF IInv, Positions, Position
<1> QED BY <1>2, <1>3, <1>4, SemFrameOK DEF Idle, IInv, TypeOK

LEMMA SemTryWaitOK ==
    ASSUME IInv, NEW t \in Threads, NEW a \in Sems, SemTryWait(t, a)
    PROVE  IInv'
<1> DEFINE n == IF Value(a) > 0 THEN -1 ELSE 0
<1>1. After(a, 0, FALSE, n) \in Nat /\ n \in Int
  BY ValueType DEF After, Value
<1>2. /\ table' \in Seq(Sems) /\ count' \in Seq(Nat) /\ Len(count') = Len(table')
      /\ IsInjective(table')
  BY <1>1, FindOK DEF SemTryWait
<1>3. Idle(t) /\ UNCHANGED <<waitsFor, step, handles, at, op>> /\ calls' \in 0 .. MaxCalls /\ calls' >= calls
  BY BridgeAssumption DEF SemTryWait, SemFrame, CountCall, IInv, TypeOK
<1>4. (waitsFor[t] # Nothing) <=> (step[t] \in Waiting)
  BY DEF IInv, Positions, Position
<1> QED BY <1>2, <1>3, <1>4, SemFrameOK DEF Idle, IInv, TypeOK

LEMMA SemWaitOK ==
    ASSUME IInv, NEW t \in Threads, NEW a \in Sems, SemWait(t, a)
    PROVE  IInv'
<1>1. After(a, 0, FALSE, 0) \in Nat
  BY ValueType DEF After
<1>2. /\ table' \in Seq(Sems) /\ count' \in Seq(Nat) /\ Len(count') = Len(table')
      /\ IsInjective(table')
  <2>1. Find(a, 0, FALSE, 0)
    BY DEF SemWait
  <2>2. 0 \in Nat /\ 0 \in Int
    OBVIOUS
  <2> QED BY <1>1, <2>1, <2>2, FindOK
<1>3. /\ Idle(t) /\ UNCHANGED <<handles, at, op>> /\ calls' \in 0 .. MaxCalls /\ calls' >= calls
      /\ waitsFor' = [waitsFor EXCEPT ![t] = a]
  <2>1. Idle(t) /\ UNCHANGED <<handles, at, op>> /\ CountCall
    BY DEF SemWait, SemFrame
  <2>2. waitsFor' = [waitsFor EXCEPT ![t] = a]
    BY DEF SemWait
  <2>3. calls' \in 0 .. MaxCalls /\ calls' >= calls
    BY <2>1, BridgeAssumption DEF CountCall, IInv, TypeOK
  <2> QED BY <2>1, <2>2, <2>3
<1>4. /\ waitsFor' \in [Threads -> Sems \cup {Nothing}] /\ waitsFor'[t] = a /\ a # Nothing
      /\ \A u \in Threads \ {t} : waitsFor'[u] = waitsFor[u]
  BY <1>3, BridgeAssumption DEF IInv, TypeOK
<1>5. step'[t] \in Waiting /\ step' = [step EXCEPT ![t] = step'[t]]
  BY DEF SemWait, IInv, TypeOK, Waiting
<1> QED BY <1>2, <1>3, <1>4, <1>5, SemFrameOK DEF Idle

LEMMA SemTakeOK ==
    ASSUME IInv, NEW t \in Threads, SemTake(t)
    PROVE  IInv'
<1>1. /\ waitsFor[t] \in Sems /\ step[t] \in Waiting /\ at[t] = "idle"
  BY DEF IInv, TypeOK, Positions, Position, SemTake, Waiting
<1>2. Known(waitsFor[t]) /\ Value(waitsFor[t]) - 1 \in Nat
  <2>1. Value(waitsFor[t]) > 0
    BY DEF SemTake
  <2>2. Value(waitsFor[t]) \in Nat
    BY <1>1, ValueType
  <2>3. Known(waitsFor[t])
    BY <2>1 DEF Value
  <2> QED BY <2>1, <2>2, <2>3
<1>3. /\ UNCHANGED table
      /\ count' = [count EXCEPT ![Entry(waitsFor[t])] = Value(waitsFor[t]) - 1]
  BY <1>1, <1>2, KnownOK DEF SemTake
<1>4. /\ table' \in Seq(Sems) /\ count' \in Seq(Nat) /\ Len(count') = Len(table')
      /\ IsInjective(table')
  BY <1>1, <1>2, <1>3, SetCount DEF IInv, TypeOK
<1>5. /\ waitsFor' \in [Threads -> Sems \cup {Nothing}] /\ waitsFor'[t] = Nothing
      /\ \A u \in Threads \ {t} : waitsFor'[u] = waitsFor[u]
      /\ step'[t] = "none" /\ step' = [step EXCEPT ![t] = step'[t]]
  BY DEF SemTake, IInv, TypeOK
<1>6. UNCHANGED <<handles, at, op, calls>> /\ calls' \in 0 .. MaxCalls /\ calls' >= calls
  <2>1. UNCHANGED <<handles, at, op, calls>>
    BY DEF SemTake, SemFrame
  <2>2. calls \in 0 .. MaxCalls
    BY DEF IInv, TypeOK
  <2> QED BY <2>1, <2>2, BridgeAssumption
<1> QED BY <1>1, <1>4, <1>5, <1>6, SemFrameOK DEF Waiting

LEMMA SemTimesOutOK ==
    ASSUME IInv, NEW t \in Threads, SemTimesOut(t)
    PROVE  IInv'
<1>1. step[t] \in Waiting /\ at[t] = "idle"
  BY DEF IInv, TypeOK, Positions, Position, SemTimesOut, Step, Waiting
<1>2. /\ waitsFor' \in [Threads -> Sems \cup {Nothing}] /\ waitsFor'[t] = Nothing
      /\ \A u \in Threads \ {t} : waitsFor'[u] = waitsFor[u]
      /\ step'[t] = "none" /\ step' = [step EXCEPT ![t] = step'[t]]
  BY DEF SemTimesOut, Step, IInv, TypeOK
<1>3. UNCHANGED <<handles, at, op, calls, table, count>> /\ calls' \in 0 .. MaxCalls /\ calls' >= calls
  <2>1. UNCHANGED <<handles, at, op, calls, table, count>>
    BY DEF SemTimesOut, SemFrame
  <2>2. calls \in 0 .. MaxCalls
    BY DEF IInv, TypeOK
  <2> QED BY <2>1, <2>2, BridgeAssumption
<1>4. /\ table' \in Seq(Sems) /\ count' \in Seq(Nat) /\ Len(count') = Len(table')
      /\ IsInjective(table')
  BY <1>3 DEF IInv, TypeOK
<1> QED BY <1>1, <1>2, <1>3, <1>4, SemFrameOK DEF Waiting

(***************************************************************************)
(* IInv is an invariant.                                                   *)
(***************************************************************************)
LEMMA InitInv == Init => IInv
<1> SUFFICES ASSUME Init PROVE IInv
  OBVIOUS
<1>1. TypeOK
  <2>1. IsInjective(<<>>) /\ 0 \in Objects /\ 0 \in 0 .. MaxCalls
    BY BridgeAssumption DEF IsInjective, Objects
  <2> QED BY <2>1 DEF Init, TypeOK, Blank, Handles, InSlot
<1>2. HandlesOK
  BY DEF Init, HandlesOK, Made, Blank, Handles
<1>3. Positions
  BY DEF Init, Positions, Position, InSlot, Waiting
<1>4. Locked /\ Pending
  BY DEF Init, Locked, Pending, Blank
<1>5. Shared
  BY DEF Init, Shared, SharedBy, OwnedBy, HasMutex, Within
<1>6. Asleep
  BY DEF Init, Asleep
<1> QED BY <1>1, <1>2, <1>3, <1>4, <1>5, <1>6 DEF IInv

LEMMA NextInv == IInv /\ [Next]_vars => IInv'
<1> SUFFICES ASSUME IInv, [Next]_vars PROVE IInv'
  OBVIOUS
<1>1. ASSUME NEW t \in Threads, Proceed(t) PROVE IInv'
  BY <1>1, LookOK, LockOK, MakeOK, MarkOK, UnlockOK, MutexLockOK, MutexUnlockOK,
     CondWaitOK, TimesOutOK, ReacquireOK, CondSignalOK, CondBroadcastOK, InitDoneOK,
     LeaveOK, SleepOK DEF Proceed
<1>2. ASSUME NEW t \in Threads, Begin(t) PROVE IInv'
  BY <1>2, EnterOK, AnnounceOK, InitHandleOK, DestroyHandleOK DEF Begin
<1>3. ASSUME NEW t \in Threads, SemCall(t) PROVE IInv'
  BY <1>3, SemInitOK, SemPostOK, SemWaitOK, SemTryWaitOK DEF SemCall
<1>4. ASSUME NEW t \in Threads, SemTake(t) \/ SemTimesOut(t) PROVE IInv'
  BY <1>4, SemTakeOK, SemTimesOutOK
<1>5. CASE UNCHANGED vars
  BY <1>5 DEF vars, handles, sems, IInv, TypeOK, HandlesOK, Made, Positions, Position,
              Locked, Pending, Shared, SharedBy, OwnedBy, HasMutex, Within, Live, Asleep
<1> QED BY <1>1, <1>2, <1>3, <1>4, <1>5 DEF Next

LEMMA InvHolds == Spec => []IInv
  BY InitInv, NextInv, PTL DEF Spec

\* Every handle, thread and table keeps its type (slot, S and their callers).
THEOREM BridgeTypeCorrect == Spec => []TypeOK
<1>1. IInv => TypeOK
  BY DEF IInv
<1> QED BY <1>1, InvHolds, PTL

\* However many threads meet a fresh handle at once, there is one host mutex
\* and one thread in the guest's section (slot, b_mutex_lock, b_cond_wait).
THEOREM SectionsExclude == Spec => []Exclusive
<1>1. IInv => Exclusive
  BY InsideAlone DEF Exclusive
<1> QED BY <1>1, InvHolds, PTL

(***************************************************************************)
(* The table implements counting semaphores while it has room.             *)
(***************************************************************************)

\* Addresses are in the table once each: what is not there fits.
LEMMA Room ==
    ASSUME IInv, IsFiniteSet(Sems), Cardinality(Sems) <= SemMax,
           NEW a \in Sems, ~Known(a)
    PROVE  Len(table) < SemMax
<1> DEFINE Rest == Sems \ {a}
<1>1. /\ table \in Seq(Sems) /\ Len(table) \in Nat
      /\ DOMAIN table = 1 .. Len(table) /\ IsInjective(table)
  BY DEF IInv, TypeOK
<1>2. \A i \in 1 .. Len(table) : table[i] \in Rest
  BY <1>1 DEF Known, ToSet
<1>3. table \in [1 .. Len(table) -> Rest]
  BY <1>1, <1>2
<1>4. table \in Injection(1 .. Len(table), Rest)
  BY <1>1, <1>3 DEF Injection, IsInjective
<1>5. IsFiniteSet(Rest) /\ Cardinality(Rest) = Cardinality(Sems) - 1
  BY FS_RemoveElement
<1>6. Cardinality(1 .. Len(table)) = Len(table)
  BY <1>1, FS_Interval
<1>7. Len(table) <= Cardinality(Rest)
  <2> HIDE DEF Rest
  <2> QED BY <1>4, <1>5, <1>6, FS_Injection
<1>8. Cardinality(Sems) \in Nat
  BY FS_CardinalityType
<1> QED BY <1>1, <1>5, <1>7, <1>8, BridgeAssumption

\* A call that leaves the table and the waits alone is a stutter.
LEMMA Stutter ==
    ASSUME UNCHANGED sems PROVE UNCHANGED Semaphores!vars
<1>1. \A a \in Sems : Value(a)' = Value(a)
  BY DEF sems, Value, Known, Entry
<1> QED BY <1>1 DEF Semaphores!vars, sems

\* What a call that looked a semaphore up has done to the counts.
LEMMA Found ==
    ASSUME IInv, IsFiniteSet(Sems), Cardinality(Sems) <= SemMax,
           NEW a \in Sems, NEW v \in Nat, NEW creating \in BOOLEAN, NEW n \in Int,
           Find(a, v, creating, n), After(a, v, creating, n) \in Nat
    PROVE  [b \in Sems |-> Value(b)]' =
              [[b \in Sems |-> Value(b)] EXCEPT ![a] = After(a, v, creating, n)]
<1>1. Known(a) \/ Len(table) < SemMax
  BY Room
<1>2. \A b \in Sems : Value(b)' = IF b = a THEN After(a, v, creating, n) ELSE Value(b)
  BY <1>1, FindOK
<1> QED BY <1>2

LEMMA SemStep ==
    ASSUME IInv, IsFiniteSet(Sems), Cardinality(Sems) <= SemMax, [Next]_vars
    PROVE  [Semaphores!Next]_(Semaphores!vars)
<1> DEFINE value == [b \in Sems |-> Value(b)]
<1>0. ASSUME NEW a \in Sems PROVE value[a] = Value(a) /\ Value(a) \in Nat
  BY <1>0, ValueType
<1>1. CASE UNCHANGED sems
  BY <1>1, Stutter
<1>2. ASSUME NEW t \in Threads, NEW a \in Sems, NEW v \in Values, SemInit(t, a, v)
      PROVE  Semaphores!Raise(a) \/ UNCHANGED Semaphores!vars
  <2> DEFINE w == After(a, v, TRUE, 0)
  <2>1. v \in Nat /\ w \in Nat /\ 0 \in Int /\ Find(a, v, TRUE, 0) /\ UNCHANGED waitsFor
    <3>1. v \in Nat /\ w \in Nat /\ 0 \in Int
      BY BridgeAssumption, ValueType DEF After, Raised, AtLeast
    <3> QED BY <1>2, <3>1 DEF SemInit
  <2>2. value' = [value EXCEPT ![a] = w]
    BY <2>1, Found
  <2>3. w = Value(a) \/ (w = v /\ v > Value(a))
    BY <2>1, ValueType DEF After, Raised, AtLeast, Value
  <2>4. CASE w = Value(a)
    BY <2>1, <2>2, <2>4 DEF Semaphores!vars
  <2>5. CASE w = v /\ v > Value(a)
    BY <2>1, <2>2, <2>5 DEF Semaphores!Raise
  <2> QED BY <2>3, <2>4, <2>5
<1>3. ASSUME NEW t \in Threads, NEW a \in Sems, SemPost(t, a)
      PROVE  Semaphores!Post(a)
  <2>1. /\ After(a, 0, FALSE, 1) = Value(a) + 1 /\ After(a, 0, FALSE, 1) \in Nat
        /\ 0 \in Nat /\ 1 \in Int
    BY ValueType DEF After, Value
  <2>2. Find(a, 0, FALSE, 1) /\ UNCHANGED waitsFor
    BY <1>3 DEF SemPost
  <2>3. value' = [value EXCEPT ![a] = Value(a) + 1]
    BY <2>1, <2>2, Found
  <2> QED BY <2>2, <2>3 DEF Semaphores!Post
<1>4. ASSUME NEW t \in Threads, NEW a \in Sems, SemWait(t, a)
      PROVE  Semaphores!Ask(t, a)
  <2>1. /\ After(a, 0, FALSE, 0) = Value(a) /\ After(a, 0, FALSE, 0) \in Nat
        /\ 0 \in Nat /\ 0 \in Int
    BY ValueType DEF After, Value
  <2>2. Find(a, 0, FALSE, 0) /\ waitsFor' = [waitsFor EXCEPT ![t] = a]
    BY <1>4 DEF SemWait
  <2>3. value' = [value EXCEPT ![a] = Value(a)]
    <3>1. value' = [value EXCEPT ![a] = After(a, 0, FALSE, 0)]
      BY <2>1, <2>2, Found
    <3> QED BY <2>1, <3>1
  <2>4. waitsFor[t] = Nothing
    BY <1>4 DEF SemWait, Idle, IInv, Positions, Position, Waiting
  <2> QED BY <2>2, <2>3, <2>4 DEF Semaphores!Ask
<1>5. ASSUME NEW t \in Threads, NEW a \in Sems, SemTryWait(t, a)
      PROVE  Semaphores!TryTake(a) \/ UNCHANGED Semaphores!vars
  <2> DEFINE n == IF Value(a) > 0 THEN -1 ELSE 0
  <2>1. /\ After(a, 0, FALSE, n) = Value(a) + n /\ After(a, 0, FALSE, n) \in Nat
        /\ 0 \in Nat /\ n \in Int
    BY ValueType DEF After, Value
  <2>2. Find(a, 0, FALSE, n) /\ UNCHANGED waitsFor
    BY <1>5 DEF SemTryWait
  <2>3. value' = [value EXCEPT ![a] = Value(a) + n]
    BY <2>1, <2>2, Found
  <2>4. CASE Value(a) > 0
    <3>1. value' = [value EXCEPT ![a] = Value(a) - 1]
      BY <2>3, <2>4, ValueType
    <3> QED BY <2>2, <2>4, <3>1 DEF Semaphores!TryTake
  <2>5. CASE ~(Value(a) > 0)
    <3>1. value' = [value EXCEPT ![a] = Value(a)]
      <4>1. Value(a) + n = Value(a)
        BY <2>5, ValueType
      <4> QED BY <2>3, <4>1
    <3> QED BY <2>2, <3>1 DEF Semaphores!vars
  <2> QED BY <2>4, <2>5
<1>6. ASSUME NEW t \in Threads, SemTake(t)
      PROVE  Semaphores!Take(t)
  <2> DEFINE a == waitsFor[t]
  <2>1. a \in Sems /\ a # Nothing
    BY <1>6, BridgeAssumption DEF SemTake, IInv, TypeOK, Positions, Position, Waiting
  <2>2. Value(a) > 0 /\ Value(a) \in Nat
    BY <1>6, <2>1, ValueType DEF SemTake
  <2>3. Known(a) /\ Value(a) - 1 \in Nat
    BY <2>2 DEF Value
  <2>4. /\ count' = [count EXCEPT ![Entry(a)] = Value(a) - 1] /\ UNCHANGED table
        /\ waitsFor' = [waitsFor EXCEPT ![t] = Nothing]
    BY <1>6, <2>1, <2>3, KnownOK DEF SemTake
  <2>5. \A b \in Sems : Value(b)' = IF b = a THEN Value(a) - 1 ELSE Value(b)
    <3> HIDE DEF a
    <3> QED BY <2>1, <2>3, <2>4, SetCount
  <2>6. value' = [value EXCEPT ![a] = Value(a) - 1]
    BY <2>1, <2>5
  <2> QED BY <2>1, <2>2, <2>4, <2>6 DEF Semaphores!Take
<1>7. ASSUME NEW t \in Threads, SemTimesOut(t)
      PROVE  Semaphores!GiveUp(t)
  <2>1. waitsFor[t] # Nothing
    BY <1>7 DEF SemTimesOut, Step, IInv, Positions, Position, Waiting
  <2>2. value' = value
    <3>1. UNCHANGED <<table, count>>
      BY <1>7 DEF SemTimesOut
    <3>2. \A b \in Sems : Value(b)' = Value(b)
      BY <3>1 DEF Value, Known, Entry
    <3> QED BY <3>2
  <2> QED BY <1>7, <2>1, <2>2 DEF SemTimesOut, Semaphores!GiveUp
<1>8. ASSUME NEW t \in Threads, Proceed(t) \/ Begin(t) PROVE UNCHANGED sems
  <2>1. ASSUME Proceed(t) PROVE UNCHANGED sems
    BY <2>1 DEF Proceed, Look, Lock, Make, Mark, Unlock, MutexLock, MutexUnlock, CondWait,
           TimesOut, Reacquire, CondSignal, CondBroadcast, InitDone, Leave, Sleep,
           RunFrame, GuestFrame
  <2>2. ASSUME Begin(t) PROVE UNCHANGED sems
    BY <2>2 DEF Begin, Enter, Announce, InitHandle, DestroyHandle, GuestFrame
  <2> QED BY <1>8, <2>1, <2>2
<1>9. CASE UNCHANGED vars
  BY <1>1, <1>9 DEF vars
<1> QED
  <2> HIDE DEF value
  <2> QED BY <1>1, <1>2, <1>3, <1>4, <1>5, <1>6, <1>7, <1>8, <1>9
          DEF Next, SemCall, Semaphores!Next

\* However many threads call at once, a table with room for every address is
\* a set of counting semaphores: no init takes a post back, no post is lost
\* or taken twice (S and the calls around it).
THEOREM ImplementsSemaphores ==
    ASSUME IsFiniteSet(Sems), Cardinality(Sems) <= SemMax
    PROVE  Spec => Semaphores!Init /\ [][Semaphores!Next]_(Semaphores!vars)
<1>1. Init => Semaphores!Init
  BY DEF Init, Semaphores!Init, Value, Known, ToSet
<1>2. IInv /\ [Next]_vars => [Semaphores!Next]_(Semaphores!vars)
  BY SemStep
<1> QED BY <1>1, <1>2, InvHolds, PTL DEF Spec

==============================================================================
