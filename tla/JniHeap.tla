------------------------------- MODULE JniHeap -------------------------------
(***************************************************************************)
(* The JNI object heap of src/src/jni.c: reference counting of global      *)
(* references, per-frame birth buckets, tombstones and the quarantine that *)
(* delays the reuse of a structure.                                        *)
(*                                                                         *)
(* A jobj is its address.  Its boolean fields are sets of addresses        *)
(* (immortal, pinned, dead, armed), its born_next pointer is link, and its *)
(* payload is a single reference, child: a field or an array element is    *)
(* what the collector looks at.  Sections under jni_born_lock are one      *)
(* step, except the frame boundary, which walks its bucket one object at a *)
(* time while unlocked code runs beside it; code outside the lock is cut   *)
(* where another thread can interleave.                                    *)
(***************************************************************************)
EXTENDS Naturals, Sequences

CONSTANTS
    Addr,           \* addresses of jobj structures calloc can return
    Nil,            \* the null pointer
    Loop,           \* the thread of the frame loop
    Workers,        \* guest threads other than the frame loop
    Types,          \* {"plain"} or {"plain", "class"}: is O_CLASS distinguished
    Grace,          \* JNI_FRAME_GRACE
    QuarantineCap,  \* ST_JNI_QUARANTINE, 0 when its calloc failed
    MaxGlobals,     \* bound: NewGlobalRef is called below this many references
    Calls,          \* the calls the threads of this instance make
    Stale           \* may the guest name a reference it no longer holds

CallNames == {"New", "NewGlobalRef", "DeleteGlobalRef", "SetChild", "Keep"}

ASSUME HeapAssumption ==
    /\ Nil \notin Addr
    /\ Loop \notin Workers
    /\ Types \in {{"plain"}, {"plain", "class"}}
    /\ Grace \in Nat
    /\ QuarantineCap \in Nat
    /\ MaxGlobals \in Nat \ {0}
    /\ Calls \subseteq CallNames
    /\ Stale \in BOOLEAN

VARIABLES
    started,     \* jni_runtime_started
    frame,       \* jni_frame, folded so that frame % Ring is kept
    used,        \* jobj_live: every structure ever handed out
    immortal, pinned, dead, armed,
    type, globals, child, link,
    head,        \* jni_born
    quarantine,  \* jni_quarantine, oldest first
    pool,        \* jni_pool, most recent first
    cursor, ahead, \* o and next of the walk of st_jni_frame_boundary
    pc, arg, val, reg, \* per thread: point of the call, its objects, its register
    owned,       \* history: global references the guest holds
    age,         \* history: frame boundaries since birth, up to Grace + 1
    dangling     \* history: objects whose reference was collected under them

flagVars  == <<immortal, pinned, dead>>
listVars  == <<armed, link, head>>
graveVars == <<quarantine, pool>>
walkVars  == <<cursor, ahead>>
ghostVars == <<owned, age, dangling>>
callVars  == <<pc, arg, val, reg>>
heapVars == <<started, frame, used, flagVars, listVars, type, globals, child,
              graveVars>>
vars == <<heapVars, walkVars, callVars, ghostVars>>

Threads  == {Loop} \cup Workers
Ring     == Grace + 2
Buckets  == 0 .. Ring - 1
Ref      == Addr \cup {Nil}
Known    == used \cup {Nil}

\* The boundary owns jni_born_lock while it walks a bucket.
Walking  == pc[Loop] \in {"walk", "test"}
LockFree == ~Walking

Protected(o) == o \in immortal \/ o \in pinned

(***************************************************************************)
(* Frames grow without bound; only frame % Ring and frame >= Grace are     *)
(* read, so a frame past the first full turn is folded back by one turn.   *)
(***************************************************************************)
NextFrame == IF frame + 1 = Grace + Ring THEN Grace ELSE frame + 1
Bucket(f) == f % Ring

Init ==
    /\ started = FALSE
    /\ frame = 0
    /\ used = {} /\ immortal = {} /\ pinned = {} /\ dead = {} /\ armed = {}
    /\ type = [o \in Addr |-> "plain"]
    /\ globals = [o \in Addr |-> 0]
    /\ child = [o \in Addr |-> Nil]
    /\ link = [o \in Addr |-> Nil]
    /\ head = [b \in Buckets |-> Nil]
    /\ quarantine = <<>> /\ pool = <<>>
    /\ cursor = Nil /\ ahead = Nil
    /\ pc = [t \in Threads |-> "idle"]
    /\ arg = [t \in Threads |-> Nil]
    /\ val = [t \in Threads |-> Nil]
    /\ reg = [t \in Threads |-> 0]
    /\ owned = [o \in Addr |-> 0]
    /\ age = [o \in Addr |-> 0]
    /\ dangling = {}

(***************************************************************************)
(* What a guest call may name: a global reference it holds, something the  *)
(* adapter kept, or a local reference of the last Grace frames.  Stale     *)
(* guests go on naming any structure they were ever given.                 *)
(***************************************************************************)
Named(o) ==
    /\ o \in used
    /\ Stale \/ owned[o] > 0 \/ o \in immortal \/ age[o] <= Grace

(***************************************************************************)
(* jni_pin from a set of roots: everything reachable through objects that  *)
(* are neither pinned nor immortal, down to depth 8.                       *)
(***************************************************************************)
PinRoots(roots) == {o \in roots \ {Nil} : ~Protected(o)}
Deeper(S) == S \cup PinRoots({child[p] : p \in S})
PinSet(roots) ==
    Deeper(Deeper(Deeper(Deeper(Deeper(Deeper(Deeper(PinRoots(roots))))))))

\* A call goes on to another point, or returns and its locals are gone.
Goto(t, point) == pc' = [pc EXCEPT ![t] = point]
Return(t) ==
    /\ Goto(t, "idle")
    /\ arg' = [arg EXCEPT ![t] = Nil]
    /\ val' = [val EXCEPT ![t] = Nil]
    /\ reg' = [reg EXCEPT ![t] = 0]

\* jni_arm_locked on an object that passed its guard.
LinkIn(o) ==
    /\ link' = [link EXCEPT ![o] = head[Bucket(frame)]]
    /\ head' = [head EXCEPT ![Bucket(frame)] = o]
    /\ armed' = armed \cup {o}

-----------------------------------------------------------------------------
\* st_jni_freeze_immortals, called once before the frame loop.
Freeze ==
    /\ ~started
    /\ started' = TRUE
    /\ UNCHANGED <<frame, used, flagVars, listVars, type, globals, child,
                   graveVars, walkVars, callVars, ghostVars>>

\* The structure new_obj takes: the pool first, then the allocator.
Allocate(o) ==
    \/ pool # <<>> /\ o = Head(pool) /\ pool' = Tail(pool)
    \/ pool = <<>> /\ o \in Addr \ used /\ UNCHANGED pool

\* new_obj: memset, register, and arm unless the object is born immortal.
NewObj(t, ty) ==
    /\ pc[t] = "idle" /\ LockFree
    /\ \E o \in Addr :
         /\ Allocate(o)
         /\ used' = used \cup {o}
         /\ immortal' = IF started THEN immortal \ {o} ELSE immortal \cup {o}
         /\ pinned' = pinned \ {o}
         /\ dead' = dead \ {o}
         /\ type' = [type EXCEPT ![o] = ty]
         /\ globals' = [globals EXCEPT ![o] = 0]
         /\ child' = [child EXCEPT ![o] = Nil]
         /\ IF started
            THEN LinkIn(o)
            ELSE /\ armed' = armed \ {o}
                 /\ link' = [link EXCEPT ![o] = Nil]
                 /\ UNCHANGED head
         /\ owned' = [owned EXCEPT ![o] = 0]
         /\ age' = [age EXCEPT ![o] = 0]
         /\ dangling' = dangling \ {o}
    /\ UNCHANGED <<started, frame, quarantine, walkVars, callVars>>

-----------------------------------------------------------------------------
\* j_NewGlobalRef, first the registry check under the lock ...
NewGlobalRef(t, o) ==
    /\ pc[t] = "idle" /\ LockFree /\ Named(o)
    /\ owned[o] < MaxGlobals /\ globals[o] < MaxGlobals
    /\ Goto(t, "incLoad")
    /\ arg' = [arg EXCEPT ![t] = o]
    /\ UNCHANGED <<heapVars, walkVars, val, reg, ghostVars>>

\* ... then globals++, outside any lock ...
IncLoad(t) ==
    /\ pc[t] = "incLoad"
    /\ reg' = [reg EXCEPT ![t] = globals[arg[t]]]
    /\ Goto(t, "incStore")
    /\ UNCHANGED <<heapVars, walkVars, arg, val, ghostVars>>

IncStore(t) ==
    /\ pc[t] = "incStore"
    /\ globals' = [globals EXCEPT ![arg[t]] = reg[t] + 1]
    /\ owned' = [owned EXCEPT ![arg[t]] = @ + 1]
    /\ reg' = [reg EXCEPT ![t] = 0]
    /\ Goto(t, "pinKids")
    /\ UNCHANGED <<started, frame, used, flagVars, listVars, type, child,
                   graveVars, walkVars, arg, val, age, dangling>>

\* Mutant: promotion forgets the children.
PinKidsNothing(t) ==
    /\ pc[t] = "pinKids" /\ LockFree
    /\ Return(t)
    /\ UNCHANGED <<heapVars, walkVars, ghostVars>>

\* ... and jni_pin_children, which st_jni_keep also ends with.
PinKids(t) ==
    /\ pc[t] = "pinKids" /\ LockFree
    /\ pinned' = pinned \cup PinSet({child[arg[t]]})
    /\ Return(t)
    /\ UNCHANGED <<started, frame, used, immortal, dead, listVars, type,
                   globals, child, graveVars, walkVars, ghostVars>>

\* j_DeleteGlobalRef: the registry check ...
DeleteGlobalRef(t, o) ==
    /\ pc[t] = "idle" /\ LockFree /\ Named(o)
    /\ Stale \/ owned[o] > 0
    /\ owned' = [owned EXCEPT ![o] = IF @ > 0 THEN @ - 1 ELSE 0]
    /\ Goto(t, "decLoad")
    /\ arg' = [arg EXCEPT ![t] = o]
    /\ UNCHANGED <<heapVars, walkVars, val, reg, age, dangling>>

\* ... globals > 0 && --globals == 0, outside any lock ...
DecLoad(t) ==
    /\ pc[t] = "decLoad"
    /\ IF globals[arg[t]] > 0
       THEN /\ reg' = [reg EXCEPT ![t] = globals[arg[t]]]
            /\ Goto(t, "decStore")
            /\ UNCHANGED <<arg, val>>
       ELSE Return(t)
    /\ UNCHANGED <<heapVars, walkVars, ghostVars>>

DecStore(t) ==
    /\ pc[t] = "decStore"
    /\ globals' = [globals EXCEPT ![arg[t]] = reg[t] - 1]
    /\ IF reg[t] = 1
       THEN /\ Goto(t, "arm")
            /\ reg' = [reg EXCEPT ![t] = 0]
            /\ UNCHANGED <<arg, val>>
       ELSE Return(t)
    /\ UNCHANGED <<started, frame, used, flagVars, listVars, type, child,
                   graveVars, walkVars, ghostVars>>

\* Mutant: the last reference drops and nobody arms the object.
ArmTestNever(t) ==
    /\ pc[t] = "arm"
    /\ Return(t)
    /\ UNCHANGED <<heapVars, walkVars, ghostVars>>

\* ... and jni_arm: its unlocked guard, then jni_arm_locked.
ArmTest(t) ==
    /\ pc[t] = "arm"
    /\ IF Protected(arg[t]) \/ arg[t] \in armed
       THEN Return(t)
       ELSE Goto(t, "armLocked") /\ UNCHANGED <<arg, val, reg>>
    /\ UNCHANGED <<heapVars, walkVars, ghostVars>>

ArmLocked(t) ==
    /\ pc[t] = "armLocked" /\ LockFree
    /\ IF Protected(arg[t]) \/ arg[t] \in armed
       THEN UNCHANGED listVars
       ELSE LinkIn(arg[t])
    /\ Return(t)
    /\ UNCHANGED <<started, frame, used, flagVars, type, globals, child,
                   graveVars, walkVars, ghostVars>>

-----------------------------------------------------------------------------
\* object_set_object and j_SetObjectArrayElement store the reference ...
SetChild(t, o, v) ==
    /\ pc[t] = "idle" /\ Named(o) /\ Named(v)
    /\ child' = [child EXCEPT ![o] = v]
    /\ dangling' = IF v \in dead THEN dangling \cup {o} ELSE dangling \ {o}
    /\ Goto(t, "pinChild")
    /\ arg' = [arg EXCEPT ![t] = o]
    /\ val' = [val EXCEPT ![t] = v]
    /\ UNCHANGED <<started, frame, used, flagVars, listVars, type, globals,
                   graveVars, walkVars, reg, owned, age>>

\* ... and then pin it when the container outlives its frame.
PinChild(t) ==
    /\ pc[t] = "pinChild"
    /\ IF Protected(arg[t]) \/ globals[arg[t]] > 0
       THEN /\ LockFree
            /\ pinned' = pinned \cup PinSet({val[t]})
       ELSE UNCHANGED pinned
    /\ Return(t)
    /\ UNCHANGED <<started, frame, used, immortal, dead, listVars, type,
                   globals, child, graveVars, walkVars, ghostVars>>

\* st_jni_keep: immortal without the lock, then the children.
Keep(t, o) ==
    /\ pc[t] = "idle" /\ Named(o)
    /\ immortal' = immortal \cup {o}
    /\ Goto(t, "pinKids")
    /\ arg' = [arg EXCEPT ![t] = o]
    /\ UNCHANGED <<started, frame, used, pinned, dead, listVars, type,
                   globals, child, graveVars, walkVars, val, reg, ghostVars>>

-----------------------------------------------------------------------------
\* The bucket the next frame will be born in.
OldestBucket(f) == Bucket(f + 1)

\* st_jni_frame_boundary takes the lock and detaches the oldest bucket.
Boundary ==
    LET f == NextFrame
        b == OldestBucket(f)
    IN /\ pc[Loop] = "idle" /\ started
       /\ frame' = f
       /\ age' = [o \in Addr |-> IF age[o] > Grace THEN age[o] ELSE age[o] + 1]
       /\ IF f >= Grace
          THEN /\ cursor' = head[b]
               /\ head' = [head EXCEPT ![b] = Nil]
               /\ Goto(Loop, "walk")
          ELSE UNCHANGED <<cursor, head, pc>>
       /\ UNCHANGED <<started, used, flagVars, armed, link, type, globals,
                      child, graveVars, ahead, arg, val, reg, owned, dangling>>

\* One object of the bucket: unlink it and clear armed ...
WalkUnlink ==
    /\ pc[Loop] = "walk" /\ cursor # Nil
    /\ ahead' = link[cursor]
    /\ link' = [link EXCEPT ![cursor] = Nil]
    /\ armed' = armed \ {cursor}
    /\ Goto(Loop, "test")
    /\ UNCHANGED <<started, frame, used, flagVars, head, type, globals, child,
                   graveVars, cursor, arg, val, reg, ghostVars>>

\* jni_tombstone frees the payload ...
Empty(o) ==
    /\ dead' = dead \cup {o}
    /\ type' = [type EXCEPT ![o] = "plain"]
    /\ child' = [child EXCEPT ![o] = Nil]
    /\ dangling' = (dangling \cup {p \in Addr : child[p] = o}) \ {o}

\* ... and enters the quarantine, whose oldest leaves for the pool when it is full.
Enqueue(o) ==
    \/ /\ QuarantineCap = 0
       /\ pool' = <<o>> \o pool
       /\ UNCHANGED quarantine
    \/ /\ QuarantineCap > 0 /\ Len(quarantine) = QuarantineCap
       /\ pool' = <<Head(quarantine)>> \o pool
       /\ quarantine' = Append(Tail(quarantine), o)
    \/ /\ Len(quarantine) < QuarantineCap
       /\ quarantine' = Append(quarantine, o)
       /\ UNCHANGED pool

\* Mutant: jni_tombstone without its o->dead test.
TombstoneTwice(o) == Empty(o) /\ Enqueue(o)

Tombstone(o) ==
    \/ o \notin dead /\ Empty(o) /\ Enqueue(o)
    \/ o \in dead /\ UNCHANGED <<dead, type, child, quarantine, pool, dangling>>

\* Mutant: the sweep forgets the global references.
CollectibleGlobals(o) == ~Protected(o) /\ type[o] # "class"

Collectible(o) == ~Protected(o) /\ globals[o] = 0 /\ type[o] # "class"

\* ... then tombstone it unless something still protects it.
WalkTest ==
    /\ pc[Loop] = "test"
    /\ IF Collectible(cursor)
       THEN Tombstone(cursor)
       ELSE UNCHANGED <<dead, type, child, quarantine, pool, dangling>>
    /\ cursor' = ahead
    /\ ahead' = Nil
    /\ Goto(Loop, "walk")
    /\ UNCHANGED <<started, frame, used, immortal, pinned, listVars, globals,
                   arg, val, reg, owned, age>>

WalkEnd ==
    /\ pc[Loop] = "walk" /\ cursor = Nil
    /\ Return(Loop)
    /\ UNCHANGED <<heapVars, walkVars, ghostVars>>

-----------------------------------------------------------------------------
\* The steps that finish a call already begun.
Continue(t) ==
    \/ IncLoad(t) \/ IncStore(t) \/ PinKids(t)
    \/ DecLoad(t) \/ DecStore(t) \/ ArmTest(t) \/ ArmLocked(t)
    \/ PinChild(t)

\* The calls a guest or the adapter may begin.
Call(t) ==
    \/ "New" \in Calls /\ \E ty \in Types : NewObj(t, ty)
    \/ "NewGlobalRef" \in Calls /\ \E o \in Addr : NewGlobalRef(t, o)
    \/ "DeleteGlobalRef" \in Calls /\ \E o \in Addr : DeleteGlobalRef(t, o)
    \/ "SetChild" \in Calls /\ \E o, v \in Addr : SetChild(t, o, v)
    \/ "Keep" \in Calls /\ \E o \in Addr : Keep(t, o)

BoundaryStep == Boundary \/ WalkUnlink \/ WalkTest \/ WalkEnd

Next ==
    \/ Freeze
    \/ BoundaryStep
    \/ \E t \in Threads : Call(t) \/ Continue(t)

Spec == Init /\ [][Next]_vars

-----------------------------------------------------------------------------
(***************************************************************************)
(* The objects met when following born_next from a reference: the least    *)
(* set that holds it and is closed under the links l.                      *)
(***************************************************************************)
ClosedFrom(S, l, start) ==
    /\ start \in S \cup {Nil}
    /\ \A p \in S : l[p] \in S \cup {Nil}

From(l, start) ==
    {o \in Addr : \A S \in SUBSET Addr : ClosedFrom(S, l, start) => o \in S}

ListFrom(start) == From(link, start)

OnBucket(o, b) == o \in ListFrom(head[b])

CallPoints == {"incLoad", "incStore", "pinKids", "decLoad", "decStore", "arm",
               "armLocked", "pinChild"}

TypeOK ==
    /\ started \in BOOLEAN
    /\ frame \in 0 .. Grace + Ring - 1
    /\ used \subseteq Addr
    /\ immortal \subseteq used /\ pinned \subseteq used
    /\ dead \subseteq used /\ armed \subseteq used
    /\ type \in [Addr -> Types]
    /\ globals \in [Addr -> Nat]
    /\ child \in [Addr -> Known]
    /\ link \in [Addr -> Known]
    /\ head \in [Buckets -> Known]
    /\ quarantine \in Seq(Addr) /\ Len(quarantine) <= QuarantineCap
    /\ pool \in Seq(Addr)
    /\ cursor \in Known /\ ahead \in Known
    /\ pc \in [Threads -> CallPoints \cup {"idle", "walk", "test"}]
    /\ arg \in [Threads -> Known] /\ val \in [Threads -> Known]
    /\ reg \in [Threads -> Nat]
    /\ owned \in [Addr -> Nat]
    /\ age \in [Addr -> 0 .. Grace + 1]
    /\ dangling \subseteq Addr

OnceIn(s)  == \A i, j \in 1 .. Len(s) : s[i] = s[j] => i = j
Members(s) == {s[i] : i \in 1 .. Len(s)}

(***************************************************************************)
(* A structure waits for reuse exactly when it is a tombstone, and it      *)
(* waits once.  Entering the quarantine twice handed the same address out  *)
(* as two objects whose payload was then freed twice (jni.c:263-269).      *)
(***************************************************************************)
QuarantineOnce ==
    /\ OnceIn(quarantine) /\ OnceIn(pool)
    /\ Members(quarantine) \cap Members(pool) = {}
    /\ dead = Members(quarantine) \cup Members(pool)

(***************************************************************************)
(* An object the guest holds a global reference to is never a tombstone    *)
(* (jni.c:4463: none of this reaches global references).                   *)
(***************************************************************************)
GlobalsSurvive == \A o \in Addr : owned[o] > 0 => o \notin dead

(***************************************************************************)
(* A local reference is good for the frame it was made in and the Grace    *)
(* frames after it (jni.c:4458-4461).                                      *)
(***************************************************************************)
LocalGrace == \A o \in used : age[o] <= Grace => o \notin dead

(***************************************************************************)
(* No object is collected under a reference that is still good, global or  *)
(* local.                                                                  *)
(***************************************************************************)
ReferencesGood == GlobalsSurvive /\ LocalGrace

(***************************************************************************)
(* The heap keeps the promise of JniReferences, step by step: what is no   *)
(* tombstone is alive, and only tombstones are made anew (jni.c:101-138).  *)
(***************************************************************************)
Lifetimes == INSTANCE JniReferences WITH alive <- used \ dead, held <- owned,
                                         kept <- immortal
Contract == Lifetimes!Spec

(***************************************************************************)
(* What survives carries what it reaches (jni.c:131-134): no reference of  *)
(* an object that outlives its frame was collected, once the calls on that *)
(* object have returned.                                                   *)
(***************************************************************************)
Outlives(o) == o \in used \ dead /\ (Protected(o) \/ globals[o] > 0)
InCall(o)   == \E t \in Threads : pc[t] # "idle" /\ arg[t] = o
ReachedSurvives == \A o \in dangling : ~Outlives(o) \/ InCall(o)

(***************************************************************************)
(* What the collector does guarantee: once an object outlives its frame    *)
(* and no call on it is under way, no step collects what it refers to.     *)
(***************************************************************************)
ReachedKept ==
    [][\A o \in Addr \ dangling : Outlives(o) /\ ~InCall(o) /\ child'[o] = child[o]
                                  => o \notin dangling']_vars

(***************************************************************************)
(* The last DeleteGlobalRef puts the object into the bucket of the current *)
(* frame (jni.c:114-118, 1233-1237), so that it keeps the whole grace from      *)
(* there on.                                                               *)
(***************************************************************************)
DropRestartsGrace ==
    [][\A t \in Threads :
          pc[t] \in {"arm", "armLocked"} /\ pc'[t] = "idle" /\ ~Protected(arg[t])
          => OnBucket(arg[t], Bucket(frame))']_vars

\* What the boundary has still to walk.
Rest == IF pc[Loop] = "test" THEN ahead ELSE cursor

Pending(o) ==
    \/ o \in ListFrom(Rest)
    \/ \E b \in Buckets : OnBucket(o, b)

(***************************************************************************)
(* Nothing leaks: an object that nothing protects any more is on a bucket  *)
(* a boundary will still empty, or somebody is about to put it there.      *)
(***************************************************************************)
NoLeak ==
    \A o \in used \ dead : Collectible(o) =>
        \/ Pending(o)
        \/ pc[Loop] = "test" /\ cursor = o
        \/ \E t \in Threads : pc[t] \in {"arm", "armLocked"} /\ arg[t] = o

(***************************************************************************)
(* The buckets are disjoint lists and hold exactly the armed objects, so a *)
(* boundary collects neither an object twice nor one of a younger frame.   *)
(***************************************************************************)
BucketsDisjoint ==
    /\ \A o \in armed : Pending(o)
    /\ \A b, c \in Buckets : b # c =>
          ListFrom(head[b]) \cap ListFrom(head[c]) = {}

(***************************************************************************)
(* The buckets lose no object and hold none twice, whoever arms, disarms   *)
(* and walks them.                                                         *)
(***************************************************************************)
BucketsTrue == NoLeak /\ BucketsDisjoint
=============================================================================
