--------------------------- MODULE JniHeapProofs ---------------------------
(***************************************************************************)
(* The heap for any number of addresses, guest threads and calls.  Its     *)
(* types and its quarantine need no hypothesis; that the buckets are true  *)
(* lists needs that no structure is reused while it is armed; and that the *)
(* guest gets the lifetimes JniReferences promises needs that the guest is *)
(* one thread.                                                             *)
(***************************************************************************)
EXTENDS JniHeap, FiniteSetTheorems, TLAPS

(***************************************************************************)
(* Between the steps of a call its locals are set: what the call works on  *)
(* is a structure the heap handed out, the count it is about to decrement  *)
(* is positive, and the sweep holds an object while it decides.            *)
(***************************************************************************)
CallOK ==
    /\ \A t \in Threads : pc[t] \in CallPoints => arg[t] \in used
    /\ \A t \in Threads : pc[t] = "decStore" => reg[t] > 0
    /\ pc[Loop] = "test" => cursor \in used

IInv == TypeOK /\ CallOK /\ QuarantineOnce

-----------------------------------------------------------------------------
(* What the three ways of moving a tombstone do to a sequence. *)

\* Adding a new element in front keeps every element once.
LEMMA PrependOnce ==
    ASSUME NEW A, NEW s \in Seq(A), NEW o \in A, o \notin Members(s), OnceIn(s)
    PROVE  /\ <<o>> \o s \in Seq(A)
           /\ OnceIn(<<o>> \o s)
           /\ Members(<<o>> \o s) = Members(s) \cup {o}
<1> DEFINE r == <<o>> \o s
<1>1. r \in Seq(A) /\ Len(r) = Len(s) + 1
  OBVIOUS
<1>2. r[1] = o /\ \A i \in 1 .. Len(s) : r[i + 1] = s[i]
  OBVIOUS
<1>3. \A i \in 2 .. Len(r) : i - 1 \in 1 .. Len(s) /\ r[i] = s[i - 1]
  BY <1>1, <1>2
<1>4. OnceIn(r)
  BY <1>1, <1>2, <1>3 DEF OnceIn, Members
<1>5. Members(r) = Members(s) \cup {o}
  <2>1. Members(r) \subseteq Members(s) \cup {o}
    BY <1>1, <1>2, <1>3 DEF Members
  <2>2. ASSUME NEW i \in 1 .. Len(s) PROVE s[i] \in Members(r)
    <3>1. i + 1 \in 1 .. Len(r) /\ r[i + 1] = s[i]
      BY <1>1, <1>2
    <3> QED
      BY <3>1 DEF Members
  <2>3. o \in Members(r)
    <3>1. 1 \in 1 .. Len(r)
      BY <1>1
    <3> QED
      BY <3>1, <1>2 DEF Members
  <2> QED
    BY <2>1, <2>2, <2>3 DEF Members
<1> QED
  BY <1>1, <1>4, <1>5

\* So does adding one at the end.
LEMMA AppendOnce ==
    ASSUME NEW A, NEW s \in Seq(A), NEW o \in A, o \notin Members(s), OnceIn(s)
    PROVE  /\ Append(s, o) \in Seq(A)
           /\ OnceIn(Append(s, o))
           /\ Members(Append(s, o)) = Members(s) \cup {o}
<1> DEFINE r == Append(s, o)
<1>1. r \in Seq(A) /\ Len(r) = Len(s) + 1
  OBVIOUS
<1>2. r[Len(s) + 1] = o /\ \A i \in 1 .. Len(s) : r[i] = s[i]
  OBVIOUS
<1>3. OnceIn(r)
  BY <1>1, <1>2 DEF OnceIn, Members
<1>4. Members(r) = Members(s) \cup {o}
  BY <1>1, <1>2 DEF Members
<1> QED
  BY <1>1, <1>3, <1>4

\* Taking the first element leaves the others, each once.
LEMMA TailOnce ==
    ASSUME NEW A, NEW s \in Seq(A), s # <<>>, OnceIn(s)
    PROVE  /\ Tail(s) \in Seq(A) /\ Len(Tail(s)) = Len(s) - 1
           /\ Head(s) \in A /\ Head(s) \in Members(s)
           /\ OnceIn(Tail(s))
           /\ Members(Tail(s)) = Members(s) \ {Head(s)}
<1> DEFINE r == Tail(s)
<1>1. Len(s) \in Nat /\ Len(s) > 0
  OBVIOUS
<1>2. r \in Seq(A) /\ Len(r) = Len(s) - 1
  BY <1>1
<1>3. \A i \in 1 .. Len(r) : i + 1 \in 1 .. Len(s) /\ r[i] = s[i + 1]
  BY <1>1, <1>2
<1>4. Head(s) = s[1] /\ s[1] \in A
  BY <1>1
<1>5. OnceIn(r)
  BY <1>1, <1>2, <1>3 DEF OnceIn
<1>6. Members(r) = Members(s) \ {Head(s)}
  <2>1. ASSUME NEW x \in Members(r) PROVE x \in Members(s) \ {Head(s)}
    BY <1>1, <1>2, <1>3, <1>4 DEF Members, OnceIn
  <2>2. ASSUME NEW x \in Members(s) \ {Head(s)} PROVE x \in Members(r)
    <3>1. PICK i \in 1 .. Len(s) : x = s[i]
      BY DEF Members
    <3>2. i # 1
      BY <3>1, <1>4
    <3>3. i - 1 \in 1 .. Len(r) /\ r[i - 1] = s[i]
      BY <3>2, <1>1, <1>2, <1>3
    <3> QED
      BY <3>1, <3>3 DEF Members
  <2> QED
    BY <2>1, <2>2
<1> QED
  BY <1>1, <1>2, <1>4, <1>5, <1>6 DEF Members

-----------------------------------------------------------------------------
(* Facts about the operators of the model. *)

\* The folded frame stays in range, and so does every bucket.
LEMMA FrameRange ==
    ASSUME frame \in 0 .. Grace + Ring - 1
    PROVE  /\ NextFrame \in 0 .. Grace + Ring - 1
           /\ \A f \in Nat : Bucket(f) \in Buckets
BY HeapAssumption DEF NextFrame, Bucket, Buckets, Ring

\* Pinning reaches only structures the heap handed out.
LEMMA PinSetUsed ==
    ASSUME TypeOK, NEW roots \in SUBSET Known
    PROVE  PinSet(roots) \subseteq used
<1>1. ASSUME NEW S \in SUBSET used PROVE Deeper(S) \subseteq used
  BY HeapAssumption DEF Deeper, PinRoots, TypeOK, Known
<1>2. PinRoots(roots) \subseteq used
  BY DEF PinRoots, Known
<1> QED
  BY <1>1, <1>2 DEF PinSet

\* Linking an object into the current bucket keeps the lists well typed.
LEMMA LinkInType ==
    ASSUME TypeOK, NEW U, used \subseteq U, U \subseteq Addr, NEW o \in U, LinkIn(o)
    PROVE  /\ link' \in [Addr -> U \cup {Nil}]
           /\ head' \in [Buckets -> U \cup {Nil}]
           /\ armed' \subseteq U
<1>1. frame \in Nat /\ Bucket(frame) \in Buckets
  BY FrameRange, HeapAssumption DEF TypeOK, Ring
<1> QED
  BY <1>1 DEF LinkIn, TypeOK, Known

-----------------------------------------------------------------------------
(* Types, and the locals of the calls under way. *)

\* A call that returns is under way no more, and the others go on as they were.
LEMMA ReturnType ==
    ASSUME TypeOK, NEW t \in Threads, Return(t)
    PROVE  /\ pc' \in [Threads -> CallPoints \cup {"idle", "walk", "test"}]
           /\ arg' \in [Threads -> Known] /\ val' \in [Threads -> Known]
           /\ reg' \in [Threads -> Nat]
           /\ pc'[t] = "idle"
           /\ \A u \in Threads \ {t} : pc'[u] = pc[u] /\ arg'[u] = arg[u]
                                        /\ reg'[u] = reg[u]
<1>1. pc' = [pc EXCEPT ![t] = "idle"]
  BY DEF Return, Goto
<1>2. pc' \in [Threads -> CallPoints \cup {"idle", "walk", "test"}]
  BY <1>1 DEF TypeOK
<1>3. /\ arg' \in [Threads -> Known] /\ val' \in [Threads -> Known]
      /\ reg' \in [Threads -> Nat]
  BY DEF Return, TypeOK, Known
<1>4. /\ pc'[t] = "idle"
      /\ \A u \in Threads \ {t} : pc'[u] = pc[u] /\ arg'[u] = arg[u]
                                   /\ reg'[u] = reg[u]
  BY <1>1 DEF Return, TypeOK
<1> QED
  BY <1>2, <1>3, <1>4

\* So is a call that goes on to another of its points.
LEMMA GotoType ==
    ASSUME TypeOK, NEW t \in Threads,
           NEW q \in CallPoints \cup {"idle", "walk", "test"}, Goto(t, q)
    PROVE  /\ pc' \in [Threads -> CallPoints \cup {"idle", "walk", "test"}]
           /\ pc'[t] = q
           /\ \A u \in Threads \ {t} : pc'[u] = pc[u]
BY DEF Goto, TypeOK

LEMMA InitType == Init => TypeOK /\ CallOK
<1> SUFFICES ASSUME Init PROVE TypeOK /\ CallOK
  OBVIOUS
<1>1. used = {} /\ Known = {Nil}
  BY DEF Init, Known
<1>2. frame \in 0 .. Grace + Ring - 1
  BY HeapAssumption DEF Init, Ring
<1>a. started \in BOOLEAN
  BY DEF Init
<1>3. /\ immortal \subseteq used /\ pinned \subseteq used
      /\ dead \subseteq used /\ armed \subseteq used /\ dangling \subseteq Addr
  BY DEF Init
<1>4. /\ type \in [Addr -> Types] /\ globals \in [Addr -> Nat]
      /\ child \in [Addr -> Known] /\ link \in [Addr -> Known]
      /\ head \in [Buckets -> Known] /\ owned \in [Addr -> Nat]
  BY <1>1, HeapAssumption DEF Init
<1>5. age \in [Addr -> 0 .. Grace + 1]
  BY HeapAssumption DEF Init
<1>6. /\ quarantine \in Seq(Addr) /\ Len(quarantine) <= QuarantineCap
      /\ pool \in Seq(Addr)
  BY HeapAssumption DEF Init
<1>7. /\ pc \in [Threads -> CallPoints \cup {"idle", "walk", "test"}]
      /\ arg \in [Threads -> Known] /\ val \in [Threads -> Known]
      /\ reg \in [Threads -> Nat] /\ cursor \in Known /\ ahead \in Known
  BY <1>1 DEF Init
<1>8. CallOK
  BY DEF Init, CallOK, CallPoints, Threads
<1> QED
  BY <1>1, <1>2, <1>a, <1>3, <1>4, <1>5, <1>6, <1>7, <1>8 DEF TypeOK

LEMMA NewObjType ==
    ASSUME TypeOK, CallOK, NEW t \in Threads, NEW ty \in Types, NewObj(t, ty)
    PROVE  TypeOK' /\ CallOK'
<1>1. PICK o \in Addr :
        /\ Allocate(o)
        /\ used' = used \cup {o}
        /\ immortal' = IF started THEN immortal \ {o} ELSE immortal \cup {o}
        /\ pinned' = pinned \ {o}
        /\ dead' = dead \ {o}
        /\ type' = [type EXCEPT ![o] = ty]
        /\ globals' = [globals EXCEPT ![o] = 0]
        /\ child' = [child EXCEPT ![o] = Nil]
        /\ IF started
           THEN LinkIn(o)
           ELSE /\ armed' = armed \ {o}
                /\ link' = [link EXCEPT ![o] = Nil]
                /\ UNCHANGED head
        /\ owned' = [owned EXCEPT ![o] = 0]
        /\ age' = [age EXCEPT ![o] = 0]
        /\ dangling' = dangling \ {o}
  BY DEF NewObj
<1>2. /\ link' \in [Addr -> Known'] /\ head' \in [Buckets -> Known']
      /\ armed' \subseteq used'
  <2>1. CASE started
    BY <1>1, <2>1, LinkInType DEF TypeOK, Known
  <2>2. CASE ~started
    BY <1>1, <2>2 DEF TypeOK, Known
  <2> QED
    BY <2>1, <2>2
<1>3. pool' \in Seq(Addr)
  <2>1. pool \in Seq(Addr) /\ (pool # <<>> => Tail(pool) \in Seq(Addr))
    BY DEF TypeOK
  <2> QED
    BY <1>1, <2>1 DEF Allocate
<1>4. UNCHANGED <<started, frame, quarantine, cursor, ahead, pc, arg, val, reg>>
  BY DEF NewObj, walkVars, callVars
<1>5. TypeOK'
  <2>1. used \subseteq used' /\ used' \subseteq Addr /\ Known \subseteq Known'
    BY <1>1 DEF TypeOK, Known
  <2>2. /\ immortal' \subseteq used' /\ pinned' \subseteq used'
        /\ dead' \subseteq used' /\ dangling' \subseteq Addr
    BY <1>1 DEF TypeOK
  <2>3. /\ type' \in [Addr -> Types] /\ globals' \in [Addr -> Nat]
        /\ child' \in [Addr -> Known'] /\ owned' \in [Addr -> Nat]
    BY <1>1, <2>1 DEF TypeOK, Known
  <2>4. age' \in [Addr -> 0 .. Grace + 1]
    BY <1>1, HeapAssumption DEF TypeOK
  <2>5. /\ cursor' \in Known' /\ ahead' \in Known'
        /\ arg' \in [Threads -> Known'] /\ val' \in [Threads -> Known']
    BY <1>4, <2>1 DEF TypeOK
  <2> QED
    BY <1>2, <1>3, <1>4, <2>1, <2>2, <2>3, <2>4, <2>5 DEF TypeOK
<1>6. CallOK'
  BY <1>1, <1>4 DEF CallOK
<1> QED
  BY <1>5, <1>6

LEMMA SmallStepType ==
    ASSUME TypeOK, CallOK, NEW t \in Threads
    PROVE  /\ IncLoad(t)   => TypeOK' /\ CallOK'
           /\ IncStore(t)  => TypeOK' /\ CallOK'
           /\ DecLoad(t)   => TypeOK' /\ CallOK'
           /\ DecStore(t)  => TypeOK' /\ CallOK'
           /\ ArmTest(t)   => TypeOK' /\ CallOK'
           /\ ArmLocked(t) => TypeOK' /\ CallOK'
           /\ PinKids(t)   => TypeOK' /\ CallOK'
           /\ PinChild(t)  => TypeOK' /\ CallOK'
<1> USE DEF heapVars, flagVars, listVars, graveVars, walkVars, ghostVars
<1> used \subseteq Addr /\ Nil \notin Addr /\ Loop \in Threads
  BY HeapAssumption DEF TypeOK, Threads
<1> DEFINE AtCall == pc[t] \in CallPoints /\ arg[t] \in Addr /\ reg[t] \in Nat
                     /\ globals[arg[t]] \in Nat /\ owned[arg[t]] \in Nat
<1>0. ASSUME pc[t] \in CallPoints PROVE AtCall
  BY <1>0 DEF TypeOK, CallOK
<1>1. ASSUME IncLoad(t) PROVE TypeOK' /\ CallOK'
  <2>1. AtCall
    BY <1>0, <1>1 DEF IncLoad, CallPoints
  <2>2. /\ pc' \in [Threads -> CallPoints \cup {"idle", "walk", "test"}]
        /\ pc'[t] = "incStore"
        /\ \A u \in Threads \ {t} : pc'[u] = pc[u]
    BY <1>1, GotoType DEF IncLoad, CallPoints
  <2>3. TypeOK'
    BY <1>1, <2>1, <2>2 DEF IncLoad, TypeOK, Known
  <2>4. CallOK'
    BY <1>1, <2>1, <2>2 DEF IncLoad, TypeOK, CallOK
  <2> QED
    BY <2>3, <2>4
<1>2. ASSUME IncStore(t) PROVE TypeOK' /\ CallOK'
  <2>1. AtCall
    BY <1>0, <1>2 DEF IncStore, CallPoints
  <2>2. /\ pc' \in [Threads -> CallPoints \cup {"idle", "walk", "test"}]
        /\ pc'[t] = "pinKids"
        /\ \A u \in Threads \ {t} : pc'[u] = pc[u]
    BY <1>2, GotoType DEF IncStore, CallPoints
  <2>a. /\ globals' \in [Addr -> Nat] /\ owned' \in [Addr -> Nat]
        /\ reg' \in [Threads -> Nat]
    BY <1>2, <2>1 DEF IncStore, TypeOK
  <2>3. TypeOK'
    BY <1>2, <2>a, <2>2 DEF IncStore, TypeOK, Known
  <2>4. CallOK'
    BY <1>2, <2>1, <2>2 DEF IncStore, TypeOK, CallOK
  <2> QED
    BY <2>3, <2>4
<1>3. ASSUME DecLoad(t) PROVE TypeOK' /\ CallOK'
  <2>1. AtCall
    BY <1>0, <1>3 DEF DecLoad, CallPoints
  <2>2. CASE globals[arg[t]] > 0
    <3>1. /\ pc' \in [Threads -> CallPoints \cup {"idle", "walk", "test"}]
          /\ pc'[t] = "decStore"
          /\ \A u \in Threads \ {t} : pc'[u] = pc[u]
      BY <1>3, <2>2, GotoType DEF DecLoad, CallPoints
    <3>2. TypeOK'
      BY <1>3, <2>1, <2>2, <3>1 DEF DecLoad, TypeOK, Known
    <3>3. CallOK'
      BY <1>3, <2>1, <2>2, <3>1 DEF DecLoad, TypeOK, CallOK
    <3> QED
      BY <3>2, <3>3
  <2>3. CASE ~(globals[arg[t]] > 0)
    <3>1. Return(t)
      BY <1>3, <2>3 DEF DecLoad
    <3>2. TypeOK' /\ CallOK'
      BY <1>3, <3>1, ReturnType DEF DecLoad, TypeOK, CallOK, Known, CallPoints
    <3> QED
      BY <3>2
  <2> QED
    BY <2>2, <2>3
<1>4. ASSUME DecStore(t) PROVE TypeOK' /\ CallOK'
  <2>1. AtCall /\ reg[t] - 1 \in Nat
    BY <1>0, <1>4 DEF DecStore, CallPoints, CallOK
  <2>2. globals' \in [Addr -> Nat]
    BY <1>4, <2>1 DEF DecStore, TypeOK
  <2>3. CASE reg[t] = 1
    <3>1. /\ pc' \in [Threads -> CallPoints \cup {"idle", "walk", "test"}]
          /\ pc'[t] = "arm"
          /\ \A u \in Threads \ {t} : pc'[u] = pc[u]
      BY <1>4, <2>3, GotoType DEF DecStore, CallPoints
    <3>a. reg' \in [Threads -> Nat]
      <4>1. reg' = [reg EXCEPT ![t] = 0]
        BY <1>4, <2>3 DEF DecStore
      <4> QED
        BY <4>1 DEF TypeOK
    <3>2. TypeOK'
      BY <1>4, <2>2, <2>3, <3>1, <3>a DEF DecStore, TypeOK, Known
    <3>3. CallOK'
      BY <1>4, <2>1, <2>3, <3>1 DEF DecStore, TypeOK, CallOK, CallPoints
    <3> QED
      BY <3>2, <3>3
  <2>4. CASE reg[t] # 1
    <3>1. Return(t)
      BY <1>4, <2>4 DEF DecStore
    <3>2. TypeOK' /\ CallOK'
      BY <1>4, <2>2, <3>1, ReturnType DEF DecStore, TypeOK, CallOK, Known, CallPoints
    <3> QED
      BY <3>2
  <2> QED
    BY <2>3, <2>4
<1>5. ASSUME ArmTest(t) PROVE TypeOK' /\ CallOK'
  <2>1. CASE Return(t)
    BY <1>5, <2>1, ReturnType DEF ArmTest, TypeOK, CallOK, Known, CallPoints
  <2>2. CASE Goto(t, "armLocked") /\ UNCHANGED <<arg, val, reg>>
    <3>1. /\ pc' \in [Threads -> CallPoints \cup {"idle", "walk", "test"}]
          /\ pc'[t] = "armLocked"
          /\ \A u \in Threads \ {t} : pc'[u] = pc[u]
      BY <2>2, GotoType DEF CallPoints
    <3> QED
      BY <1>5, <2>2, <3>1 DEF ArmTest, TypeOK, CallOK, Known, CallPoints
  <2> QED
    BY <1>5, <2>1, <2>2 DEF ArmTest
<1>6. ASSUME ArmLocked(t) PROVE TypeOK' /\ CallOK'
  <2>1. arg[t] \in used
    BY <1>6 DEF ArmLocked, CallOK, CallPoints
  <2>2. /\ link' \in [Addr -> Known] /\ head' \in [Buckets -> Known]
        /\ armed' \subseteq used
    <3>1. CASE LinkIn(arg[t])
      BY <2>1, <3>1, LinkInType DEF Known
    <3>2. CASE UNCHANGED listVars
      BY <3>2 DEF TypeOK
    <3> QED
      BY <1>6, <3>1, <3>2 DEF ArmLocked
  <2> QED
    BY <1>6, <2>2, ReturnType DEF ArmLocked, TypeOK, CallOK, Known, CallPoints
<1>7. ASSUME PinKids(t) PROVE TypeOK' /\ CallOK'
  <2>1. child[arg[t]] \in Known
    BY <1>7 DEF PinKids, CallOK, CallPoints, TypeOK
  <2>2. PinSet({child[arg[t]]}) \subseteq used
    BY <2>1, PinSetUsed
  <2> QED
    BY <1>7, <2>2, ReturnType DEF PinKids, TypeOK, CallOK, Known, CallPoints
<1>8. ASSUME PinChild(t) PROVE TypeOK' /\ CallOK'
  <2>1. PinSet({val[t]}) \subseteq used
    <3>1. {val[t]} \in SUBSET Known
      BY DEF TypeOK
    <3> QED
      BY <3>1, PinSetUsed
  <2> QED
    BY <1>8, <2>1, ReturnType DEF PinChild, TypeOK, CallOK, Known, CallPoints
<1> QED
  BY <1>1, <1>2, <1>3, <1>4, <1>5, <1>6, <1>7, <1>8

LEMMA CallType ==
    ASSUME TypeOK, CallOK, NEW t \in Threads, NEW o \in Addr
    PROVE  /\ NewGlobalRef(t, o)    => TypeOK' /\ CallOK'
           /\ DeleteGlobalRef(t, o) => TypeOK' /\ CallOK'
           /\ Keep(t, o)            => TypeOK' /\ CallOK'
           /\ \A v \in Addr : SetChild(t, o, v) => TypeOK' /\ CallOK'
<1> USE DEF heapVars, flagVars, listVars, graveVars, walkVars, ghostVars, Goto, Named
<1>1. ASSUME NewGlobalRef(t, o) PROVE TypeOK' /\ CallOK'
  BY <1>1 DEF NewGlobalRef, TypeOK, CallOK, Known, CallPoints
<1>2. ASSUME DeleteGlobalRef(t, o) PROVE TypeOK' /\ CallOK'
  BY <1>2 DEF DeleteGlobalRef, TypeOK, CallOK, Known, CallPoints
<1>3. ASSUME Keep(t, o) PROVE TypeOK' /\ CallOK'
  BY <1>3 DEF Keep, TypeOK, CallOK, Known, CallPoints
<1>4. ASSUME NEW v \in Addr, SetChild(t, o, v) PROVE TypeOK' /\ CallOK'
  <2>1. /\ o \in used /\ v \in used /\ dangling' \subseteq Addr
        /\ child' \in [Addr -> Known]
    BY <1>4 DEF SetChild, TypeOK, Known
  <2>2. TypeOK'
    BY <1>4, <2>1 DEF SetChild, TypeOK, Known, CallPoints
  <2>3. CallOK'
    BY <1>4, <2>1 DEF SetChild, TypeOK, CallOK, CallPoints
  <2> QED
    BY <2>2, <2>3
<1> QED
  BY <1>1, <1>2, <1>3, <1>4

LEMMA BoundaryType ==
    ASSUME TypeOK, CallOK
    PROVE  /\ Freeze     => TypeOK' /\ CallOK'
           /\ Boundary   => TypeOK' /\ CallOK'
           /\ WalkUnlink => TypeOK' /\ CallOK'
           /\ WalkTest   => TypeOK' /\ CallOK'
           /\ WalkEnd    => TypeOK' /\ CallOK'
<1> USE DEF heapVars, flagVars, listVars, graveVars, walkVars, callVars, ghostVars,
            Goto, Return
<1> Loop \in Threads
  BY DEF Threads
<1>1. ASSUME Freeze PROVE TypeOK' /\ CallOK'
  BY <1>1 DEF Freeze, TypeOK, CallOK, Known
<1>2. ASSUME Boundary PROVE TypeOK' /\ CallOK'
  <2>1. NextFrame \in 0 .. Grace + Ring - 1 /\ NextFrame + 1 \in Nat
    BY FrameRange, HeapAssumption DEF TypeOK, Ring
  <2>2. OldestBucket(NextFrame) \in Buckets
    BY <2>1, FrameRange DEF OldestBucket, TypeOK
  <2>3. age' \in [Addr -> 0 .. Grace + 1]
    BY <1>2, HeapAssumption DEF Boundary, TypeOK
  <2>4. /\ cursor' \in Known /\ head' \in [Buckets -> Known]
        /\ pc' \in [Threads -> CallPoints \cup {"idle", "walk", "test"}]
    <3>1. CASE NextFrame >= Grace
      <4>1. Goto(Loop, "walk") /\ cursor' = head[OldestBucket(NextFrame)]
            /\ head' = [head EXCEPT ![OldestBucket(NextFrame)] = Nil]
        BY <1>2, <3>1 DEF Boundary
      <4>2. pc' \in [Threads -> CallPoints \cup {"idle", "walk", "test"}]
        BY <4>1, GotoType
      <4> QED
        BY <2>2, <4>1, <4>2 DEF TypeOK, Known
    <3>2. CASE ~(NextFrame >= Grace)
      BY <1>2, <3>2 DEF Boundary, TypeOK
    <3> QED
      BY <3>1, <3>2
  <2>5. TypeOK'
    BY <1>2, <2>1, <2>3, <2>4 DEF Boundary, TypeOK, Known
  <2>6. CallOK'
    BY <1>2 DEF Boundary, TypeOK, CallOK, CallPoints
  <2> QED
    BY <2>5, <2>6
<1>3. ASSUME WalkUnlink PROVE TypeOK' /\ CallOK'
  BY <1>3 DEF WalkUnlink, TypeOK, CallOK, Known, CallPoints
<1>4. ASSUME WalkTest PROVE TypeOK' /\ CallOK'
  <2>1. cursor \in used
    BY <1>4 DEF WalkTest, CallOK
  <2>2. /\ dead' \subseteq used /\ type' \in [Addr -> Types]
        /\ child' \in [Addr -> Known] /\ dangling' \subseteq Addr
    <3>1. CASE Empty(cursor)
      BY <2>1, <3>1, HeapAssumption DEF Empty, TypeOK, Known
    <3>2. CASE UNCHANGED <<dead, type, child, dangling>>
      BY <3>2 DEF TypeOK
    <3> QED
      BY <1>4, <3>1, <3>2 DEF WalkTest, Tombstone
  <2>3. /\ quarantine' \in Seq(Addr) /\ Len(quarantine') <= QuarantineCap
        /\ pool' \in Seq(Addr)
    <3>1. CASE Enqueue(cursor)
      <4>0. cursor \in Addr /\ quarantine \in Seq(Addr) /\ pool \in Seq(Addr)
        BY <2>1 DEF TypeOK
      <4>1. CASE pool' = <<cursor>> \o pool /\ UNCHANGED quarantine
        BY <4>0, <4>1 DEF TypeOK
      <4>2. CASE /\ QuarantineCap > 0 /\ Len(quarantine) = QuarantineCap
                 /\ pool' = <<Head(quarantine)>> \o pool
                 /\ quarantine' = Append(Tail(quarantine), cursor)
        <5>1. /\ Tail(quarantine) \in Seq(Addr) /\ Head(quarantine) \in Addr
              /\ Len(Tail(quarantine)) = Len(quarantine) - 1
          BY <4>0, <4>2, HeapAssumption
        <5>2. /\ quarantine' \in Seq(Addr)
              /\ Len(quarantine') = Len(quarantine)
          BY <4>0, <4>2, <5>1
        <5> QED
          BY <4>0, <4>2, <5>1, <5>2 DEF TypeOK
      <4>3. CASE /\ Len(quarantine) < QuarantineCap
                 /\ quarantine' = Append(quarantine, cursor)
                 /\ UNCHANGED pool
        <5>1. quarantine' \in Seq(Addr) /\ Len(quarantine') = Len(quarantine) + 1
          BY <4>0, <4>3
        <5> QED
          BY <4>0, <4>3, <5>1, HeapAssumption
      <4> QED
        BY <3>1, <4>1, <4>2, <4>3 DEF Enqueue
    <3>2. CASE UNCHANGED <<quarantine, pool>>
      BY <3>2 DEF TypeOK
    <3> QED
      BY <1>4, <3>1, <3>2 DEF WalkTest, Tombstone
  <2>4. TypeOK'
    BY <1>4, <2>2, <2>3 DEF WalkTest, TypeOK, Known
  <2>5. CallOK'
    BY <1>4 DEF WalkTest, TypeOK, CallOK, CallPoints
  <2> QED
    BY <2>4, <2>5
<1>5. ASSUME WalkEnd PROVE TypeOK' /\ CallOK'
  BY <1>5 DEF WalkEnd, TypeOK, CallOK, Known, CallPoints
<1> QED
  BY <1>1, <1>2, <1>3, <1>4, <1>5

-----------------------------------------------------------------------------
(* The tombstones and the structures that wait for reuse. *)

\* new_obj takes a structure that waits for reuse off the pool, or a fresh one.
LEMMA NewObjOnce ==
    ASSUME TypeOK, QuarantineOnce, NEW t \in Threads, NEW ty \in Types, NewObj(t, ty)
    PROVE  QuarantineOnce'
<1>1. PICK o \in Addr : Allocate(o) /\ dead' = dead \ {o}
  BY DEF NewObj
<1>2. quarantine' = quarantine
  BY DEF NewObj
<1>3. CASE pool # <<>> /\ o = Head(pool) /\ pool' = Tail(pool)
  <2>1. /\ o \in Members(pool) /\ OnceIn(pool')
        /\ Members(pool') = Members(pool) \ {o}
    BY <1>3, TailOnce DEF TypeOK, QuarantineOnce
  <2> QED
    BY <1>1, <1>2, <2>1 DEF QuarantineOnce
<1>4. CASE pool = <<>> /\ o \in Addr \ used /\ UNCHANGED pool
  <2>1. dead' = dead
    BY <1>1, <1>4 DEF TypeOK
  <2> QED
    BY <1>2, <1>4, <2>1 DEF QuarantineOnce
<1> QED
  BY <1>1, <1>3, <1>4 DEF Allocate

\* A tombstone enters the quarantine or the pool once; the oldest moves on.
LEMMA WalkTestOnce ==
    ASSUME TypeOK, CallOK, QuarantineOnce, WalkTest
    PROVE  QuarantineOnce'
<1>1. cursor \in Addr /\ quarantine \in Seq(Addr) /\ pool \in Seq(Addr)
  BY DEF WalkTest, CallOK, TypeOK
<1>2. CASE UNCHANGED <<dead, quarantine, pool>>
  BY <1>2 DEF QuarantineOnce
<1>3. CASE cursor \notin dead /\ Empty(cursor) /\ Enqueue(cursor)
  <2>1. /\ dead' = dead \cup {cursor}
        /\ cursor \notin Members(quarantine) /\ cursor \notin Members(pool)
    BY <1>3 DEF Empty, QuarantineOnce
  <2>2. CASE pool' = <<cursor>> \o pool /\ UNCHANGED quarantine
    <3>1. OnceIn(pool') /\ Members(pool') = Members(pool) \cup {cursor}
      BY <1>1, <2>1, <2>2, PrependOnce DEF QuarantineOnce
    <3> QED
      BY <2>1, <2>2, <3>1 DEF QuarantineOnce
  <2>3. CASE /\ QuarantineCap > 0 /\ Len(quarantine) = QuarantineCap
             /\ pool' = <<Head(quarantine)>> \o pool
             /\ quarantine' = Append(Tail(quarantine), cursor)
    <3> DEFINE aged == Head(quarantine)
    <3>1. quarantine # <<>>
      BY <1>1, <2>3, HeapAssumption
    <3>2. /\ Tail(quarantine) \in Seq(Addr)
          /\ aged \in Addr /\ aged \in Members(quarantine)
          /\ OnceIn(Tail(quarantine))
          /\ Members(Tail(quarantine)) = Members(quarantine) \ {aged}
      BY <1>1, <3>1, TailOnce DEF QuarantineOnce
    <3>3. aged \notin Members(pool)
      BY <3>2 DEF QuarantineOnce
    <3>4. OnceIn(pool') /\ Members(pool') = Members(pool) \cup {aged}
      BY <1>1, <2>3, <3>2, <3>3, PrependOnce DEF QuarantineOnce
    <3>5. cursor \notin Members(Tail(quarantine))
      BY <2>1, <3>2
    <3>6. /\ OnceIn(quarantine')
          /\ Members(quarantine') = (Members(quarantine) \ {aged}) \cup {cursor}
      <4> DEFINE rest == Tail(quarantine)
      <4>1. /\ OnceIn(Append(rest, cursor))
            /\ Members(Append(rest, cursor)) = Members(rest) \cup {cursor}
        <5>1. rest \in Seq(Addr) /\ OnceIn(rest) /\ cursor \notin Members(rest)
          BY <3>2, <3>5
        <5> HIDE DEF rest
        <5> QED
          BY <1>1, <5>1, AppendOnce
      <4> QED
        BY <2>3, <3>2, <4>1
    <3>7. aged # cursor
      BY <2>1, <3>2
    <3>8. /\ Members(quarantine') \cap Members(pool') = {}
          /\ dead' = Members(quarantine') \cup Members(pool')
      BY <2>1, <3>2, <3>4, <3>6, <3>7 DEF QuarantineOnce
    <3> QED
      BY <3>4, <3>6, <3>8 DEF QuarantineOnce
  <2>4. CASE quarantine' = Append(quarantine, cursor) /\ UNCHANGED pool
    <3>1. /\ OnceIn(quarantine')
          /\ Members(quarantine') = Members(quarantine) \cup {cursor}
      BY <1>1, <2>1, <2>4, AppendOnce DEF QuarantineOnce
    <3> QED
      BY <2>1, <2>4, <3>1 DEF QuarantineOnce
  <2> QED
    BY <1>3, <2>2, <2>3, <2>4 DEF Enqueue
<1> QED
  BY <1>2, <1>3 DEF WalkTest, Tombstone

-----------------------------------------------------------------------------
\* The invariant holds initially.
LEMMA InitInv == Init => IInv
<1> SUFFICES ASSUME Init PROVE QuarantineOnce
  BY InitType DEF IInv
<1> QED
  BY DEF Init, QuarantineOnce, OnceIn, Members

\* Every step of the heap preserves it.
LEMMA StepInv == IInv /\ [Next]_vars => IInv'
<1> SUFFICES ASSUME IInv, [Next]_vars PROVE IInv'
  OBVIOUS
<1> USE DEF IInv
<1> DEFINE GraveSame == UNCHANGED <<dead, quarantine, pool>>
<1>0. GraveSame => QuarantineOnce'
  BY DEF QuarantineOnce
<1>1. CASE Freeze
  <2>1. GraveSame
    BY <1>1 DEF Freeze, flagVars, graveVars
  <2> QED
    BY <1>0, <1>1, <2>1, BoundaryType
<1>2. CASE BoundaryStep
  <2>1. Boundary \/ WalkUnlink \/ WalkEnd => GraveSame
    BY DEF Boundary, WalkUnlink, WalkEnd, heapVars, flagVars, graveVars
  <2> QED
    BY <1>0, <1>2, <2>1, BoundaryType, WalkTestOnce DEF BoundaryStep
<1>3. ASSUME NEW t \in Threads, Call(t) PROVE IInv'
  <2>1. ASSUME NEW ty \in Types, NewObj(t, ty) PROVE IInv'
    BY <2>1, NewObjType, NewObjOnce
  <2>2. ASSUME NEW o \in Addr,
               \/ NewGlobalRef(t, o) \/ DeleteGlobalRef(t, o) \/ Keep(t, o)
               \/ \E v \in Addr : SetChild(t, o, v)
        PROVE  IInv'
    <3>1. GraveSame
      BY <2>2 DEF NewGlobalRef, DeleteGlobalRef, Keep, SetChild, heapVars, flagVars,
                  graveVars
    <3> QED
      BY <1>0, <2>2, <3>1, CallType
  <2> QED
    BY <1>3, <2>1, <2>2 DEF Call
<1>4. ASSUME NEW t \in Threads, Continue(t) PROVE IInv'
  <2>1. GraveSame
    BY <1>4 DEF Continue, IncLoad, IncStore, PinKids, DecLoad, DecStore, ArmTest,
                ArmLocked, PinChild, heapVars, flagVars, graveVars
  <2> QED
    BY <1>0, <1>4, <2>1, SmallStepType DEF Continue
<1>5. CASE UNCHANGED vars
  <2> USE <1>5 DEF vars, heapVars, flagVars, listVars, graveVars, walkVars, callVars,
                   ghostVars
  <2>1. TypeOK' /\ GraveSame
    BY DEF TypeOK, Known
  <2>2. CallOK'
    BY DEF CallOK
  <2> QED
    BY <1>0, <2>1, <2>2
<1> QED
  BY <1>1, <1>2, <1>3, <1>4, <1>5 DEF Next

(***************************************************************************)
(* Whatever the guest threads do, every pointer the heap holds is null or  *)
(* a structure it handed out, and the counts stay natural numbers.         *)
(***************************************************************************)
THEOREM TypeCorrect == Spec => []TypeOK
<1>1. IInv => TypeOK
  BY DEF IInv
<1> QED
  BY InitInv, StepInv, <1>1, PTL DEF Spec

(***************************************************************************)
(* For every number of guest threads, every capacity of the quarantine and *)
(* every interleaving of the unlocked counting with the boundary, the      *)
(* structures that wait for reuse are the tombstones, each of them once:   *)
(* jni_tombstone never hands a structure to two owners.                    *)
(***************************************************************************)
THEOREM QuarantineCorrect == Spec => []QuarantineOnce
<1>1. IInv => QuarantineOnce
  BY DEF IInv
<1> QED
  BY InitInv, StepInv, <1>1, PTL DEF Spec

-----------------------------------------------------------------------------
(* The lists of objects: the least sets that are closed under their links.  *)

\* What is met from a reference holds it and all that its members link to.
LEMMA FromClosed ==
    ASSUME NEW l \in [Addr -> Ref], NEW s \in Ref
    PROVE  From(l, s) \subseteq Addr /\ ClosedFrom(From(l, s), l, s)
<1>1. s \in From(l, s) \cup {Nil}
  BY DEF From, ClosedFrom, Ref
<1>2. ASSUME NEW p \in From(l, s) PROVE l[p] \in From(l, s) \cup {Nil}
  <2>1. p \in Addr /\ l[p] \in Ref
    BY DEF From
  <2>2. ASSUME NEW S \in SUBSET Addr, ClosedFrom(S, l, s) PROVE l[p] \in S \cup {Nil}
    <3>1. p \in S
      BY <2>2 DEF From
    <3> QED
      BY <2>2, <3>1 DEF ClosedFrom
  <2> QED
    BY <2>1, <2>2 DEF From, Ref
<1> QED
  BY <1>1, <1>2 DEF From, ClosedFrom

\* It is the least such set.
LEMMA FromLeast ==
    ASSUME NEW l, NEW s, NEW S \in SUBSET Addr, ClosedFrom(S, l, s)
    PROVE  From(l, s) \subseteq S
BY DEF From

\* Nothing is met from the null pointer.
LEMMA FromNil ==
    ASSUME NEW l
    PROVE  From(l, Nil) = {}
<1>1. ClosedFrom({}, l, Nil)
  BY DEF ClosedFrom
<1> QED
  BY <1>1, FromLeast

\* Links of objects that are not on a list do not matter to it.
LEMMA FromSame ==
    ASSUME NEW l \in [Addr -> Ref], NEW m \in [Addr -> Ref], NEW s \in Ref,
           \A p \in From(l, s) : m[p] = l[p]
    PROVE  From(m, s) = From(l, s)
<1>1. From(m, s) \subseteq From(l, s)
  <2>1. From(l, s) \in SUBSET Addr /\ ClosedFrom(From(l, s), m, s)
    BY FromClosed DEF ClosedFrom
  <2> QED
    BY <2>1, FromLeast
<1>2. From(l, s) \subseteq From(m, s)
  <2>1. From(m, s) \in SUBSET Addr /\ ClosedFrom(From(m, s), l, s)
    BY <1>1, FromClosed DEF ClosedFrom
  <2> QED
    BY <2>1, FromLeast
<1> QED
  BY <1>1, <1>2

\* A list is its first object and what that links to.
LEMMA FromFirst ==
    ASSUME NEW l \in [Addr -> Ref], NEW s \in Addr
    PROVE  From(l, s) = {s} \cup From(l, l[s])
<1>1. s \in Ref /\ l[s] \in Ref
  BY DEF Ref
<1>2. From(l, s) \subseteq {s} \cup From(l, l[s])
  <2> DEFINE S == {s} \cup From(l, l[s])
  <2>1. S \in SUBSET Addr /\ ClosedFrom(S, l, s)
    BY <1>1, FromClosed DEF ClosedFrom
  <2> HIDE DEF S
  <2>2. From(l, s) \subseteq S
    BY <2>1, FromLeast
  <2> QED
    BY <2>2 DEF S
<1>3. s \in From(l, s) /\ ClosedFrom(From(l, s), l, l[s]) /\ From(l, s) \in SUBSET Addr
  <2>1. s # Nil
    BY HeapAssumption
  <2> QED
    BY <1>1, <2>1, FromClosed DEF ClosedFrom
<1>4. From(l, l[s]) \subseteq From(l, s)
  BY <1>3, FromLeast
<1> QED
  BY <1>2, <1>3, <1>4

\* What is met past an object of a list is on the list.
LEMMA FromTail ==
    ASSUME NEW l \in [Addr -> Ref], NEW s \in Ref, NEW p \in From(l, s)
    PROVE  From(l, l[p]) \subseteq From(l, s)
<1>1. From(l, s) \in SUBSET Addr /\ ClosedFrom(From(l, s), l, l[p])
  BY FromClosed DEF ClosedFrom
<1> QED
  BY <1>1, FromLeast

\* Redirecting the link of an object leaves every list it is not on as it was.
LEMMA FromElsewhere ==
    ASSUME NEW l \in [Addr -> Ref], NEW o \in Addr, NEW x \in Ref,
           NEW s \in Ref, o \notin From(l, s)
    PROVE  From([l EXCEPT ![o] = x], s) = From(l, s)
<1> DEFINE m == [l EXCEPT ![o] = x]
<1>1. m \in [Addr -> Ref]
  OBVIOUS
<1>2. \A p \in From(l, s) : m[p] = l[p]
  BY DEF From
<1> HIDE DEF m
<1>3. From(m, s) = From(l, s)
  BY <1>1, <1>2, FromSame
<1> QED
  BY <1>3 DEF m

\* An object linked in front of a list it is not on comes first on it.
LEMMA FromPush ==
    ASSUME NEW l \in [Addr -> Ref], NEW o \in Addr, NEW h \in Ref, o \notin From(l, h)
    PROVE  From([l EXCEPT ![o] = h], o) = {o} \cup From(l, h)
<1> DEFINE m == [l EXCEPT ![o] = h]
<1>1. m \in [Addr -> Ref] /\ m[o] = h
  OBVIOUS
<1>2. From(m, h) = From(l, h)
  BY FromElsewhere
<1> HIDE DEF m
<1>3. From(m, o) = {o} \cup From(m, m[o])
  BY <1>1, FromFirst
<1>4. From(m, o) = {o} \cup From(l, h)
  BY <1>1, <1>2, <1>3
<1> QED
  BY <1>4 DEF m

-----------------------------------------------------------------------------
(***************************************************************************)
(* How many boundaries ago the objects of bucket b were armed.             *)
(***************************************************************************)
Lag(b) == IF b <= Bucket(frame) THEN Bucket(frame) - b ELSE Bucket(frame) - b + Ring

(***************************************************************************)
(* The armed objects are exactly those on the disjoint, acyclic lists of   *)
(* the buckets and of the walk under way.                                  *)
(***************************************************************************)
ListsOK ==
    /\ \A o \in armed : Pending(o)
    /\ ListFrom(Rest) \subseteq armed
    /\ \A b \in Buckets : ListFrom(head[b]) \subseteq armed \ ListFrom(Rest)
    /\ \A b, c \in Buckets : b # c => ListFrom(head[b]) \cap ListFrom(head[c]) = {}
    /\ \A o \in armed : o \notin ListFrom(link[o])
    /\ ~Walking => cursor = Nil
    /\ pc[Loop] = "test" => cursor \in used \ armed

(***************************************************************************)
(* An object is at least as old as the bucket it is on, so a boundary      *)
(* detaches only objects whose grace is over.                              *)
(***************************************************************************)
AgesOK ==
    /\ \A b \in Buckets : \A o \in ListFrom(head[b]) : Lag(b) <= age[o]
    /\ \A o \in ListFrom(Rest) : age[o] > Grace
    /\ pc[Loop] = "test" => age[cursor] > Grace
    /\ LocalGrace

(***************************************************************************)
(* A structure that nothing protects is armed, under the sweep, or about   *)
(* to be armed by the thread that dropped its last reference.              *)
(***************************************************************************)
Unleaked ==
    \A o \in used \ dead : Collectible(o) =>
        \/ o \in armed
        \/ pc[Loop] = "test" /\ cursor = o
        \/ \E t \in Threads : pc[t] \in {"arm", "armLocked"} /\ arg[t] = o

HeapInv == IInv /\ ListsOK /\ AgesOK /\ Unleaked

(***************************************************************************)
(* A structure is out of the buckets by the time new_obj reuses it: the    *)
(* quarantine is there to put that much time between the two.              *)
(***************************************************************************)
PoolAtRest == Members(pool) \cap armed = {}

\* The pointers of the heap, as the lemmas on lists take them.
LEMMA Pointers ==
    ASSUME TypeOK
    PROVE  /\ link \in [Addr -> Ref] /\ cursor \in Ref /\ ahead \in Ref /\ Rest \in Ref
           /\ \A b \in Buckets : head[b] \in Ref
           /\ \A o \in Addr : link[o] \in Ref
           /\ frame \in Nat /\ Bucket(frame) \in Buckets
           /\ armed \subseteq Addr /\ used \subseteq Addr
<1>1. Known \subseteq Ref
  BY DEF Known, Ref, TypeOK
<1>2. frame \in Nat /\ Bucket(frame) \in Buckets
  BY FrameRange, HeapAssumption DEF TypeOK, Ring
<1> QED
  BY <1>1, <1>2 DEF TypeOK, Rest

\* What follows an armed object on its list is armed.
LEMMA TailArmed ==
    ASSUME TypeOK, ListsOK, NEW p \in armed
    PROVE  ListFrom(link[p]) \subseteq armed
<1>1. link \in [Addr -> Ref] /\ Rest \in Ref /\ \A b \in Buckets : head[b] \in Ref
  BY Pointers
<1>2. CASE p \in ListFrom(Rest)
  <2>1. From(link, link[p]) \subseteq From(link, Rest)
    BY <1>1, <1>2, FromTail DEF ListFrom
  <2> QED
    BY <2>1 DEF ListsOK, ListFrom
<1>3. ASSUME NEW b \in Buckets, OnBucket(p, b) PROVE ListFrom(link[p]) \subseteq armed
  <2>1. From(link, link[p]) \subseteq From(link, head[b])
    <3>1. p \in From(link, head[b]) /\ head[b] \in Ref
      BY <1>1, <1>3 DEF OnBucket, ListFrom
    <3> QED
      BY <1>1, <3>1, FromTail
  <2> QED
    BY <2>1 DEF ListsOK, ListFrom
<1> QED
  BY <1>2, <1>3 DEF ListsOK, Pending

\* A step that touches no list and neither starts nor ends a walk.
LEMMA QuietLists ==
    ASSUME ListsOK, UNCHANGED <<used, armed, link, head, cursor, ahead>>,
           pc'[Loop] = pc[Loop] \/ (LockFree /\ LockFree')
    PROVE  ListsOK' /\ Rest' = Rest
<1>1. Rest' = Rest
  BY DEF Rest, LockFree, Walking
<1>2. Walking' = Walking /\ (pc'[Loop] = "test" <=> pc[Loop] = "test")
  BY DEF LockFree, Walking
<1> QED
  BY <1>1, <1>2 DEF ListsOK, Pending, OnBucket, ListFrom

\* Off the lock nothing is left to walk.
LEMMA NothingLeft ==
    ASSUME ListsOK, LockFree
    PROVE  Rest = Nil /\ ListFrom(Rest) = {}
<1>1. Rest = Nil
  BY DEF ListsOK, LockFree, Walking, Rest
<1> QED
  BY <1>1, FromNil DEF ListFrom

\* Redirecting the link of an object that is not armed changes no list.
LEMMA RelinkLists ==
    ASSUME TypeOK, ListsOK, LockFree, LockFree', NEW o \in Addr \ armed, NEW x \in Ref,
           link' = [link EXCEPT ![o] = x], UNCHANGED <<armed, head, cursor, ahead>>
    PROVE  ListsOK' /\ \A b \in Buckets : ListFrom(head[b])' = ListFrom(head[b])
<1>1. /\ link \in [Addr -> Ref] /\ armed \subseteq Addr
      /\ \A b \in Buckets : head[b] \in Ref
      /\ \A p \in Addr : link[p] \in Ref
  BY Pointers
<1>2. ASSUME NEW s \in Ref, From(link, s) \subseteq armed
      PROVE  From(link', s) = From(link, s)
  <2>1. o \notin From(link, s)
    BY <1>2
  <2> QED
    BY <1>1, <2>1, FromElsewhere
<1>3. \A b \in Buckets : From(link', head[b]) = From(link, head[b])
  BY <1>1, <1>2 DEF ListsOK, ListFrom
<1>4. \A p \in armed : link'[p] = link[p] /\ From(link', link[p]) = From(link, link[p])
  <2>1. \A p \in armed : From(link, link[p]) \subseteq armed
    BY TailArmed DEF ListFrom
  <2> QED
    BY <1>1, <1>2, <2>1
<1>5. Rest = Nil /\ Rest' = Nil /\ From(link', Nil) = {} /\ From(link, Nil) = {}
  BY NothingLeft, FromNil DEF LockFree, Walking, Rest, ListsOK
<1> QED
  BY <1>3, <1>4, <1>5
  DEF ListsOK, Pending, OnBucket, ListFrom, LockFree, Walking

\* Linking in an object that is not armed puts it, and only it, on the current bucket.
LEMMA LinkInLists ==
    ASSUME TypeOK, ListsOK, LockFree, LockFree', NEW o \in Addr \ armed, LinkIn(o),
           UNCHANGED <<cursor, ahead>>
    PROVE  /\ ListsOK'
           /\ \A b \in Buckets : ListFrom(head[b])' =
                ListFrom(head[b]) \cup (IF b = Bucket(frame) THEN {o} ELSE {})
<1> DEFINE c == Bucket(frame)
           h == head[c]
<1>1. /\ link \in [Addr -> Ref] /\ armed \subseteq Addr /\ c \in Buckets
      /\ \A b \in Buckets : head[b] \in Ref
      /\ \A p \in Addr : link[p] \in Ref
  BY Pointers
<1>2. link' = [link EXCEPT ![o] = h] /\ head' = [head EXCEPT ![c] = o]
      /\ armed' = armed \cup {o}
  BY DEF LinkIn
<1>3. ASSUME NEW s \in Ref, From(link, s) \subseteq armed
      PROVE  From(link', s) = From(link, s)
  <2>1. o \notin From(link, s)
    BY <1>3
  <2> QED
    BY <1>1, <1>2, <2>1, FromElsewhere
<1>4. \A b \in Buckets : From(link', head[b]) = From(link, head[b])
                         /\ From(link, head[b]) \subseteq armed
  BY <1>1, <1>3 DEF ListsOK, ListFrom
<1>5. From(link', o) = {o} \cup From(link, h)
  <2>1. o \notin From(link, h) /\ h \in Ref
    BY <1>1, <1>4
  <2> HIDE DEF h
  <2> QED
    BY <1>1, <1>2, <2>1, FromPush
<1>6. head'[c] = o /\ \A b \in Buckets \ {c} : head'[b] = head[b]
  BY <1>1, <1>2 DEF TypeOK
<1>7. \A b \in Buckets : From(link', head'[b]) =
                            From(link, head[b]) \cup (IF b = c THEN {o} ELSE {})
  BY <1>4, <1>5, <1>6
<1>8. \A p \in armed' : p \notin From(link', link'[p])
  <2>1. o \notin From(link', link'[o])
    <3>1. link'[o] = h
      BY <1>1, <1>2
    <3>2. From(link', h) = From(link, h) /\ o \notin From(link, h)
      BY <1>1, <1>4
    <3> QED
      BY <3>1, <3>2
  <2>2. \A p \in armed : p \notin From(link', link'[p])
    <3>1. \A p \in armed : From(link, link[p]) \subseteq armed
      BY TailArmed DEF ListFrom
    <3>2. \A p \in armed : link'[p] = link[p] /\ From(link', link[p]) = From(link, link[p])
      BY <1>1, <1>2, <1>3, <3>1
    <3> QED
      BY <3>2 DEF ListsOK, ListFrom
  <2> QED
    BY <1>2, <2>1, <2>2
<1>9. Rest = Nil /\ Rest' = Nil /\ From(link', Nil) = {} /\ From(link, Nil) = {}
  BY NothingLeft, FromNil DEF LockFree, Walking, Rest, ListsOK
<1> HIDE DEF c, h
<1>10. \A p \in armed' : \E b \in Buckets : p \in From(link', head'[b])
  <2>1. \A p \in armed : \E b \in Buckets : p \in From(link, head[b])
    BY <1>9 DEF ListsOK, Pending, OnBucket, ListFrom
  <2> QED
    BY <1>1, <1>2, <1>7, <2>1
<1>11. \A b \in Buckets : From(link', head'[b]) \subseteq armed'
  BY <1>2, <1>4, <1>7
<1>12. \A a, b \in Buckets : a # b => From(link', head'[a]) \cap From(link', head'[b]) = {}
  <2>1. \A a, b \in Buckets : a # b => From(link, head[a]) \cap From(link, head[b]) = {}
    BY DEF ListsOK, ListFrom
  <2>2. \A b \in Buckets : o \notin From(link, head[b])
    BY <1>4
  <2> QED
    BY <1>7, <2>1, <2>2
<1> QED
  BY <1>7, <1>8, <1>9, <1>10, <1>11, <1>12
  DEF ListsOK, Pending, OnBucket, ListFrom, LockFree, Walking, c

\* The boundary moves a whole bucket to the walk.
LEMMA BoundaryLists ==
    ASSUME TypeOK, ListsOK, Boundary
    PROVE  /\ ListsOK'
           /\ \A b \in Buckets : ListFrom(head[b])' =
                IF NextFrame >= Grace /\ b = OldestBucket(NextFrame)
                THEN {} ELSE ListFrom(head[b])
           /\ ListFrom(Rest)' = IF NextFrame >= Grace
                                THEN ListFrom(head[OldestBucket(NextFrame)]) ELSE {}
<1> DEFINE b0 == OldestBucket(NextFrame)
<1>1. /\ link \in [Addr -> Ref] /\ b0 \in Buckets /\ head \in [Buckets -> Known]
  <2>1. NextFrame \in 0 .. Grace + Ring - 1 /\ NextFrame + 1 \in Nat
    BY FrameRange, HeapAssumption DEF TypeOK, Ring
  <2> QED
    BY <2>1, Pointers, FrameRange DEF OldestBucket, TypeOK
<1>2. /\ pc[Loop] = "idle" /\ armed' = armed /\ link' = link /\ ahead' = ahead
      /\ used' = used
  BY DEF Boundary, flagVars
<1>3. Rest = Nil /\ From(link, Nil) = {} /\ cursor = Nil
  BY <1>2, NothingLeft, FromNil DEF LockFree, Walking, ListsOK
<1> HIDE DEF b0
<1>4. CASE NextFrame >= Grace
  <2>1. cursor' = head[b0] /\ head' = [head EXCEPT ![b0] = Nil] /\ pc'[Loop] = "walk"
    <3>1. Goto(Loop, "walk") /\ pc \in [Threads -> CallPoints \cup {"idle", "walk", "test"}]
      BY <1>4 DEF Boundary, TypeOK
    <3> QED
      BY <1>4, <3>1 DEF Boundary, b0, Goto, Threads
  <2>2. Rest' = head[b0]
    BY <2>1 DEF Rest
  <2>3. head'[b0] = Nil /\ \A b \in Buckets \ {b0} : head'[b] = head[b]
    BY <1>1, <2>1
  <2>4. \A b \in Buckets : From(link', head'[b]) = IF b = b0 THEN {} ELSE From(link, head[b])
    BY <1>2, <1>3, <2>3
  <2>5. From(link', Rest') = From(link, head[b0])
    BY <1>2, <2>2
  <2>6. \A o \in armed : \E b \in Buckets : o \in From(link, head[b])
    BY <1>3 DEF ListsOK, Pending, OnBucket, ListFrom
  <2>7. \A o \in armed' : Pending(o)'
    BY <1>2, <2>4, <2>5, <2>6 DEF Pending, OnBucket, ListFrom
  <2>8. /\ From(link', Rest') \subseteq armed'
        /\ \A b \in Buckets : From(link', head'[b]) \subseteq armed' \ From(link', Rest')
        /\ \A a, b \in Buckets : a # b => From(link', head'[a]) \cap From(link', head'[b]) = {}
    BY <1>1, <1>2, <2>4, <2>5 DEF ListsOK, ListFrom
  <2>9. \A o \in armed' : o \notin From(link', link'[o])
    BY <1>2 DEF ListsOK, ListFrom
  <2> QED
    BY <1>4, <2>1, <2>4, <2>5, <2>7, <2>8, <2>9 DEF ListsOK, ListFrom, Walking, b0
<1>5. CASE ~(NextFrame >= Grace)
  <2>1. UNCHANGED <<cursor, head, pc>>
    BY <1>5 DEF Boundary
  <2> QED
    BY <1>2, <1>3, <1>5, <2>1, QuietLists DEF ListFrom
<1> QED
  BY <1>4, <1>5

\* The walk takes the first object off what is left of its list.
LEMMA WalkUnlinkLists ==
    ASSUME TypeOK, ListsOK, WalkUnlink
    PROVE  /\ ListsOK' /\ cursor \in armed
           /\ \A b \in Buckets : ListFrom(head[b])' = ListFrom(head[b])
           /\ ListFrom(Rest)' = ListFrom(Rest) \ {cursor}
           /\ cursor \in ListFrom(Rest)
<1>1. /\ link \in [Addr -> Ref] /\ cursor \in Addr /\ armed \subseteq Addr
      /\ Rest \in Ref /\ \A b \in Buckets : head[b] \in Ref
      /\ \A o \in Addr : link[o] \in Ref
  BY Pointers DEF WalkUnlink, Ref
<1>2. /\ pc[Loop] = "walk" /\ pc'[Loop] = "test" /\ Rest = cursor /\ Rest' = link[cursor]
      /\ cursor' = cursor /\ head' = head /\ used' = used
      /\ link' = [link EXCEPT ![cursor] = Nil] /\ armed' = armed \ {cursor}
  BY DEF WalkUnlink, Rest, Goto, TypeOK, Threads
<1>3. From(link, cursor) = {cursor} \cup From(link, link[cursor])
  BY <1>1, FromFirst
<1>4. cursor \in armed /\ cursor \in From(link, Rest)
  BY <1>2, <1>3 DEF ListsOK, ListFrom
<1>5. cursor \notin From(link, link[cursor])
  BY <1>4 DEF ListsOK, ListFrom
<1>6. ASSUME NEW s \in Ref, cursor \notin From(link, s)
      PROVE  From(link', s) = From(link, s)
  <2>1. Nil \in Ref
    BY DEF Ref
  <2> QED
    BY <1>1, <1>2, <1>6, <2>1, FromElsewhere
<1>7. From(link', Rest') = From(link, Rest) \ {cursor}
  BY <1>1, <1>2, <1>3, <1>5, <1>6
<1>8. \A b \in Buckets : From(link', head'[b]) = From(link, head[b])
                         /\ From(link, head[b]) \subseteq armed \ From(link, Rest)
  <2>1. \A b \in Buckets : From(link, head[b]) \subseteq armed \ From(link, Rest)
    BY DEF ListsOK, ListFrom
  <2> QED
    BY <1>1, <1>2, <1>4, <1>6, <2>1
<1>9. \A o \in armed' : o \notin From(link', link'[o])
  <2> SUFFICES ASSUME NEW o \in armed' PROVE o \notin From(link', link'[o])
    OBVIOUS
  <2>1. o \in armed /\ o # cursor /\ o \in Addr
    BY <1>1, <1>2
  <2>2. link'[o] = link[o] /\ link[o] \in Ref
    BY <1>1, <1>2, <2>1
  <2>3. cursor \notin From(link, link[o])
    <3>1. CASE o \in From(link, Rest)
      <4>1. o \in From(link, link[cursor])
        BY <1>2, <1>3, <2>1, <3>1
      <4>2. From(link, link[o]) \subseteq From(link, link[cursor])
        <5>1. link[cursor] \in Ref
          BY <1>1
        <5> QED
          BY <1>1, <4>1, <5>1, FromTail
      <4> QED
        BY <1>5, <4>2
    <3>2. ASSUME NEW b \in Buckets, o \in From(link, head[b])
          PROVE  cursor \notin From(link, link[o])
      <4>1. From(link, link[o]) \subseteq From(link, head[b])
        <5>1. head[b] \in Ref
          BY <1>1
        <5> QED
          BY <1>1, <3>2, <5>1, FromTail
      <4> QED
        BY <1>4, <1>8, <4>1
    <3> QED
      BY <2>1, <3>1, <3>2 DEF ListsOK, Pending, OnBucket, ListFrom
  <2>4. o \notin From(link, link[o])
    BY <2>1 DEF ListsOK, ListFrom
  <2> QED
    BY <1>6, <2>2, <2>3, <2>4
<1>10. \A o \in armed' : o \in From(link', Rest') \/ \E b \in Buckets : o \in From(link', head'[b])
  BY <1>2, <1>7, <1>8 DEF ListsOK, Pending, OnBucket, ListFrom
<1>11. /\ From(link', Rest') \subseteq armed'
       /\ \A b \in Buckets : From(link', head'[b]) \subseteq armed' \ From(link', Rest')
       /\ \A a, b \in Buckets : a # b => From(link', head'[a]) \cap From(link', head'[b]) = {}
  <2>1. From(link, Rest) \subseteq armed
        /\ \A a, b \in Buckets : a # b => From(link, head[a]) \cap From(link, head[b]) = {}
    BY DEF ListsOK, ListFrom
  <2> QED
    BY <1>2, <1>4, <1>7, <1>8, <2>1
<1>12. cursor' \in used' \ armed'
  BY <1>2, <1>4 DEF TypeOK
<1> QED
  BY <1>2, <1>4, <1>7, <1>8, <1>9, <1>10, <1>11, <1>12
  DEF ListsOK, Pending, OnBucket, ListFrom, Walking

\* The rest of the walk touches no list.
LEMMA WalkTestLists ==
    ASSUME TypeOK, ListsOK, WalkTest \/ WalkEnd
    PROVE  /\ ListsOK'
           /\ \A b \in Buckets : ListFrom(head[b])' = ListFrom(head[b])
           /\ ListFrom(Rest)' = ListFrom(Rest)
<1>1. UNCHANGED <<armed, link, head, used>>
  BY DEF WalkTest, WalkEnd, heapVars, listVars
<1>2. /\ Rest' = Rest
      /\ (pc'[Loop] = "walk" \/ (pc'[Loop] = "idle" /\ cursor' = Nil))
  <2>1. CASE WalkTest
    BY <2>1 DEF WalkTest, Rest, Goto, TypeOK, Threads
  <2>2. CASE WalkEnd
    BY <2>2 DEF WalkEnd, Rest, Return, Goto, TypeOK, Threads, walkVars
  <2> QED
    BY <2>1, <2>2
<1> QED
  BY <1>1, <1>2 DEF ListsOK, Pending, OnBucket, ListFrom, Walking

-----------------------------------------------------------------------------
(* The ages of the buckets. *)

\* The bucket of a frame of the first two turns.
LEMMA BucketOf ==
    ASSUME NEW f \in 0 .. 2 * Ring - 1
    PROVE  Bucket(f) = IF f < Ring THEN f ELSE f - Ring
<1> DEFINE R == Ring
<1>1. R \in Nat /\ R >= 2
  BY HeapAssumption DEF Ring
<1> HIDE DEF R
<1>2. CASE f < R
  <2>1. f \in Nat /\ f % R = f
    BY <1>1, <1>2 DEF R
  <2> QED
    BY <1>2, <2>1 DEF Bucket, R
<1>3. CASE ~(f < R)
  <2> DEFINE n == f - R
  <2>1. n \in Nat /\ n < R /\ f = n + R
    BY <1>1, <1>3 DEF R
  <2> HIDE DEF n
  <2>2. (n + R) % R = n
    BY <1>1, <2>1
  <2>3. f % R = n
    BY <2>1, <2>2
  <2> QED
    BY <1>3, <2>3 DEF Bucket, R, n
<1> QED
  BY <1>2, <1>3

\* A boundary makes every bucket one boundary older, except the one it begins,
\* and the bucket it detaches has waited for the whole grace.
LEMMA LagStep ==
    ASSUME frame \in 0 .. Grace + Ring - 1, frame' = NextFrame
    PROVE  /\ \A b \in Buckets : /\ Lag(b) \in Nat /\ Lag(b)' \in 0 .. Grace + 1
                                 /\ Lag(b)' = 0 \/ Lag(b)' = Lag(b) + 1
           /\ Lag(OldestBucket(NextFrame)) = Grace
<1>1. Grace \in Nat /\ Ring = Grace + 2
  BY HeapAssumption DEF Ring
<1>2. /\ frame \in 0 .. 2 * Ring - 1 /\ NextFrame \in 0 .. 2 * Ring - 1
      /\ NextFrame + 1 \in 0 .. 2 * Ring - 1
  BY <1>1 DEF NextFrame
<1>3. /\ Bucket(frame) = IF frame < Ring THEN frame ELSE frame - Ring
      /\ Bucket(NextFrame) = IF NextFrame < Ring THEN NextFrame ELSE NextFrame - Ring
      /\ Bucket(NextFrame + 1) =
            IF NextFrame + 1 < Ring THEN NextFrame + 1 ELSE (NextFrame + 1) - Ring
  <2>1. \A f \in 0 .. 2 * Ring - 1 : Bucket(f) = IF f < Ring THEN f ELSE f - Ring
    BY BucketOf
  <2> QED
    BY <1>2, <2>1
<1> DEFINE B == Bucket(frame)
           C == Bucket(NextFrame)
<1>4. /\ B \in 0 .. Ring - 1 /\ C \in 0 .. Ring - 1
      /\ C = IF B = Ring - 1 THEN 0 ELSE B + 1
      /\ Bucket(NextFrame + 1) = IF C = Ring - 1 THEN 0 ELSE C + 1
  BY <1>1, <1>2, <1>3 DEF NextFrame
<1>5. Bucket(frame)' = C
  BY DEF Bucket, Ring
<1> HIDE DEF B, C
<1>6. \A b \in Buckets : /\ Lag(b) = IF b <= B THEN B - b ELSE B - b + Ring
                         /\ Lag(b)' = IF b <= C THEN C - b ELSE C - b + Ring
  BY <1>5 DEF Lag, B, Ring
<1>7. Lag(OldestBucket(NextFrame)) = Grace
  <2> DEFINE D == Bucket(NextFrame + 1)
  <2>1. D \in Buckets /\ D = OldestBucket(NextFrame)
    BY <1>1, <1>4 DEF Buckets, OldestBucket
  <2> HIDE DEF D
  <2>2. D = IF C = Ring - 1 THEN 0 ELSE C + 1
    BY <1>4 DEF D
  <2> QED
    BY <1>1, <1>4, <1>6, <2>1, <2>2
<1>8. ASSUME NEW b \in Buckets
      PROVE  /\ Lag(b) \in Nat /\ Lag(b)' \in 0 .. Grace + 1
             /\ Lag(b)' = 0 \/ Lag(b)' = Lag(b) + 1
  <2>1. b \in 0 .. Ring - 1
    BY DEF Buckets
  <2> QED
    BY <1>1, <1>4, <1>6, <2>1
<1> QED
  BY <1>7, <1>8

\* A step that lets no object age, buries none and moves none.
LEMMA QuietAges ==
    ASSUME AgesOK, UNCHANGED <<frame, used, dead, age>>,
           \A b \in Buckets : ListFrom(head[b])' \subseteq ListFrom(head[b]),
           ListFrom(Rest)' \subseteq ListFrom(Rest),
           pc'[Loop] = "test" => age[cursor'] > Grace
    PROVE  AgesOK'
<1>1. \A b : Lag(b)' = Lag(b)
  BY DEF Lag, Bucket, Ring
<1>2. LocalGrace'
  BY DEF LocalGrace, AgesOK
<1>3. \A b \in Buckets : \A o \in ListFrom(head[b])' : Lag(b)' <= age'[o]
  BY <1>1 DEF AgesOK
<1>4. (\A o \in ListFrom(Rest) : age[o] > Grace)' /\ (pc[Loop] = "test" => age[cursor] > Grace)'
  BY DEF AgesOK
<1> QED
  BY <1>2, <1>3, <1>4 DEF AgesOK

\* Linking into the current bucket: its lag is 0.
LEMMA LinkInAges ==
    ASSUME TypeOK, ListsOK, AgesOK, LockFree, LockFree', NEW o \in Addr \ armed, LinkIn(o),
           UNCHANGED <<frame, cursor, ahead>>,
           age' \in [Addr -> 0 .. Grace + 1],
           \A p \in armed : age'[p] = age[p],
           LocalGrace'
    PROVE  AgesOK'
<1>1. /\ Bucket(frame) \in Buckets /\ Bucket(frame) \in Nat /\ armed \subseteq Addr
  BY Pointers DEF Buckets
<1>2. \A b : Lag(b)' = Lag(b)
  BY DEF Lag, Bucket, Ring
<1>3. Lag(Bucket(frame)) = 0
  BY <1>1 DEF Lag
<1>4. \A b \in Buckets : ListFrom(head[b])' =
                ListFrom(head[b]) \cup (IF b = Bucket(frame) THEN {o} ELSE {})
  BY LinkInLists
<1>5. ASSUME NEW b \in Buckets, NEW p \in ListFrom(head[b])' PROVE Lag(b)' <= age'[p]
  <2>1. CASE p \in ListFrom(head[b])
    BY <1>2, <2>1 DEF AgesOK, ListsOK
  <2>2. CASE b = Bucket(frame) /\ p = o
    <3>1. age'[o] \in 0 .. Grace + 1
      OBVIOUS
    <3> QED
      BY <1>2, <1>3, <2>2, <3>1, HeapAssumption
  <2> QED
    BY <1>4, <2>1, <2>2
<1>6. ListFrom(Rest)' = {} /\ pc'[Loop] # "test"
  <2>1. Rest' = Nil /\ pc'[Loop] # "test"
    BY NothingLeft DEF LockFree, Walking, Rest, ListsOK
  <2> QED
    BY <2>1, FromNil DEF ListFrom
<1> QED
  BY <1>5, <1>6 DEF AgesOK

\* At a boundary every object ages as its bucket does.
LEMMA BoundaryAges ==
    ASSUME TypeOK, ListsOK, AgesOK, Boundary
    PROVE  AgesOK'
<1>1. /\ pc'[Loop] # "test" /\ frame' = NextFrame /\ dead' = dead /\ used' = used
      /\ age' = [o \in Addr |-> IF age[o] > Grace THEN age[o] ELSE age[o] + 1]
  BY DEF Boundary, flagVars, Goto, TypeOK, Threads
<1>2. /\ \A o \in Addr : age[o] \in 0 .. Grace + 1
      /\ \A o \in Addr : age'[o] = IF age[o] > Grace THEN age[o] ELSE age[o] + 1
      /\ Grace \in Nat
  BY <1>1, HeapAssumption DEF TypeOK
<1>3. /\ \A b \in Buckets : /\ Lag(b) \in Nat /\ Lag(b)' \in 0 .. Grace + 1
                            /\ Lag(b)' = 0 \/ Lag(b)' = Lag(b) + 1
      /\ Lag(OldestBucket(NextFrame)) = Grace
  BY <1>1, LagStep DEF TypeOK
<1>4. /\ \A b \in Buckets : ListFrom(head[b])' \subseteq ListFrom(head[b])
      /\ ListFrom(Rest)' = IF NextFrame >= Grace
                           THEN ListFrom(head[OldestBucket(NextFrame)]) ELSE {}
      /\ \A b \in Buckets : ListFrom(head[b]) \subseteq Addr
  <2>1. \A b \in Buckets : ListFrom(head[b]) \subseteq Addr
    BY Pointers, FromClosed DEF ListFrom
  <2> QED
    BY <2>1, BoundaryLists
<1>5. ASSUME NEW b \in Buckets, NEW o \in ListFrom(head[b])' PROVE Lag(b)' <= age'[o]
  <2>1. o \in Addr /\ Lag(b) <= age[o]
    BY <1>4 DEF AgesOK
  <2>2. /\ age[o] \in 0 .. Grace + 1
        /\ age'[o] = IF age[o] > Grace THEN age[o] ELSE age[o] + 1
    BY <1>2, <2>1
  <2>3. /\ Lag(b) \in Nat /\ Lag(b)' \in 0 .. Grace + 1
        /\ Lag(b)' = 0 \/ Lag(b)' = Lag(b) + 1
    BY <1>3
  <2> QED
    BY <1>2, <2>1, <2>2, <2>3
<1>6. ASSUME NEW o \in ListFrom(Rest)' PROVE age'[o] > Grace
  <2> DEFINE b == OldestBucket(NextFrame)
  <2>1. b \in Buckets
    BY FrameRange, HeapAssumption DEF TypeOK, OldestBucket, Ring
  <2>2. o \in ListFrom(head[b])
    BY <1>4
  <2> HIDE DEF b
  <2>3. o \in Addr /\ Lag(b) <= age[o]
    BY <1>4, <2>1, <2>2 DEF AgesOK
  <2>4. Lag(b) = Grace
    BY <1>3 DEF b
  <2>5. /\ age[o] \in 0 .. Grace + 1
        /\ age'[o] = IF age[o] > Grace THEN age[o] ELSE age[o] + 1
    BY <1>2, <2>3
  <2> QED
    BY <1>2, <2>3, <2>4, <2>5
<1>7. LocalGrace'
  <2>1. \A o \in used : age'[o] <= Grace => age[o] <= Grace
    BY <1>2 DEF TypeOK
  <2> QED
    BY <1>1, <2>1 DEF LocalGrace, AgesOK
<1> QED
  BY <1>1, <1>5, <1>6, <1>7 DEF AgesOK

-----------------------------------------------------------------------------
(* Nothing leaks. *)

\* A step of a call that disarms nothing and leaves an object that loses its last
\* reference, or stops arming one, with somebody who arms it.
LEMMA CallUnleaked ==
    ASSUME TypeOK, Unleaked, NEW t \in Threads, pc[t] # "test",
           UNCHANGED <<used, dead, cursor, type>>,
           immortal \subseteq immortal', pinned \subseteq pinned', armed \subseteq armed',
           \A u \in Threads \ {t} : pc'[u] = pc[u] /\ arg'[u] = arg[u],
           pc[t] \in {"arm", "armLocked"} =>
              \/ pc'[t] \in {"arm", "armLocked"} /\ arg'[t] = arg[t]
              \/ arg[t] \in immortal' \cup pinned' \cup armed',
           \A o \in Addr : globals'[o] = 0 =>
              globals[o] = 0 \/ (pc'[t] = "arm" /\ arg'[t] = o)
    PROVE  Unleaked'
<1> SUFFICES ASSUME NEW o \in (used \ dead)', Collectible(o)', o \notin armed',
                    ~(pc'[Loop] = "test" /\ cursor' = o)
             PROVE  \E u \in Threads : pc'[u] \in {"arm", "armLocked"} /\ arg'[u] = o
  BY DEF Unleaked
<1>1. o \in used \ dead /\ o \in Addr /\ o \notin armed /\ o \notin immortal' \cup pinned'
      /\ globals'[o] = 0
  BY DEF Collectible, Protected, TypeOK
<1>2. ~(pc[Loop] = "test" /\ cursor = o)
  BY DEF Threads
<1>3. CASE pc'[t] = "arm" /\ arg'[t] = o
  BY <1>3
<1>4. CASE globals[o] = 0
  <2>1. Collectible(o)
    BY <1>1, <1>4 DEF Collectible, Protected
  <2>2. PICK u \in Threads : pc[u] \in {"arm", "armLocked"} /\ arg[u] = o
    BY <1>1, <1>2, <2>1 DEF Unleaked
  <2>3. CASE u = t
    BY <1>1, <2>2, <2>3
  <2>4. CASE u # t
    BY <2>2, <2>4
  <2> QED
    BY <2>3, <2>4
<1> QED
  BY <1>1, <1>3, <1>4

\* A new object is armed or immortal, and the others are as they were.
LEMMA NewObjUnleaked ==
    ASSUME TypeOK, Unleaked, NEW t \in Threads, NEW ty \in Types, NewObj(t, ty)
    PROVE  Unleaked'
<1>1. PICK o \in Addr :
        /\ Allocate(o)
        /\ used' = used \cup {o}
        /\ immortal' = IF started THEN immortal \ {o} ELSE immortal \cup {o}
        /\ pinned' = pinned \ {o}
        /\ dead' = dead \ {o}
        /\ type' = [type EXCEPT ![o] = ty]
        /\ globals' = [globals EXCEPT ![o] = 0]
        /\ IF started
           THEN LinkIn(o)
           ELSE /\ armed' = armed \ {o}
                /\ link' = [link EXCEPT ![o] = Nil]
                /\ UNCHANGED head
  BY DEF NewObj
<1>2. UNCHANGED <<cursor, pc, arg>>
  BY DEF NewObj, walkVars, callVars
<1>3. ASSUME NEW p \in used \ dead, p # o, Collectible(p)'
      PROVE  /\ Collectible(p) /\ (p \in armed => p \in armed')
  <2>1. p \in Addr /\ type'[p] = type[p] /\ globals'[p] = globals[p]
    BY <1>1, <1>3 DEF TypeOK
  <2>2. /\ p \in immortal => p \in immortal'
        /\ p \in pinned => p \in pinned'
        /\ p \in armed => p \in armed'
    BY <1>1, <1>3 DEF LinkIn
  <2> QED
    BY <1>3, <2>1, <2>2 DEF Collectible, Protected
<1>4. o \in armed' \/ o \in immortal'
  BY <1>1 DEF LinkIn
<1>5. \A p \in (used \ dead)' : p = o \/ p \in used \ dead
  BY <1>1
<1> QED
  BY <1>2, <1>3, <1>4, <1>5 DEF Unleaked, Collectible, Protected

\* The sweep takes an object off its list to test it, and buries what it may.
LEMMA BoundaryUnleaked ==
    ASSUME TypeOK, ListsOK, Unleaked, BoundaryStep
    PROVE  Unleaked'
<1>1. ASSUME Boundary PROVE Unleaked'
  <2>1. /\ pc[Loop] = "idle" /\ UNCHANGED <<used, dead, immortal, pinned, armed, type,
                                            globals, arg>>
        /\ \A u \in Threads : pc[u] \in {"arm", "armLocked"} => pc'[u] = pc[u]
    BY <1>1 DEF Boundary, flagVars, Goto, TypeOK
  <2> QED
    BY <2>1 DEF Unleaked, Collectible, Protected
<1>2. ASSUME WalkUnlink PROVE Unleaked'
  <2>1. /\ pc[Loop] = "walk" /\ UNCHANGED <<used, dead, immortal, pinned, type,
                                            globals, arg, cursor>>
        /\ pc'[Loop] = "test" /\ armed' = armed \ {cursor}
        /\ \A u \in Threads : pc[u] \in {"arm", "armLocked"} => pc'[u] = pc[u]
    BY <1>2 DEF WalkUnlink, flagVars, Goto, TypeOK, Threads
  <2> QED
    BY <2>1 DEF Unleaked, Collectible, Protected
<1>3. ASSUME WalkTest PROVE Unleaked'
  <2>1. /\ pc[Loop] = "test" /\ UNCHANGED <<used, immortal, pinned, globals, arg, armed>>
        /\ \A u \in Threads : pc[u] \in {"arm", "armLocked"} => pc'[u] = pc[u]
    BY <1>3 DEF WalkTest, listVars, Goto, TypeOK
  <2>2. cursor \in used
    BY <2>1 DEF ListsOK
  <2>3. /\ dead \subseteq dead'
        /\ Collectible(cursor) => cursor \in dead'
        /\ \A o \in Addr \ {cursor} : type'[o] = type[o]
        /\ ~Collectible(cursor) => type' = type
    <3>1. CASE Collectible(cursor)
      BY <1>3, <3>1 DEF WalkTest, Tombstone, Empty, TypeOK
    <3>2. CASE ~Collectible(cursor)
      BY <1>3, <3>2 DEF WalkTest
    <3> QED
      BY <3>1, <3>2
  <2>4. \A o \in (used \ dead)' : Collectible(o)' => Collectible(o) /\ o # cursor
    BY <2>1, <2>2, <2>3 DEF Collectible, Protected, TypeOK
  <2> QED
    BY <2>1, <2>3, <2>4 DEF Unleaked
<1>4. ASSUME WalkEnd PROVE Unleaked'
  <2>1. /\ pc[Loop] = "walk" /\ UNCHANGED <<used, dead, immortal, pinned, type, armed,
                                            globals, cursor>>
        /\ \A u \in Threads : pc[u] \in {"arm", "armLocked"} => pc'[u] = pc[u]
                                                               /\ arg'[u] = arg[u]
    BY <1>4 DEF WalkEnd, heapVars, flagVars, listVars, walkVars, Return, Goto, TypeOK
  <2> QED
    BY <2>1 DEF Unleaked, Collectible, Protected
<1> QED
  BY <1>1, <1>2, <1>3, <1>4 DEF BoundaryStep

-----------------------------------------------------------------------------
(* The steps of the calls. *)

\* A call moves between its own points, off those of the walk.
Moves(t) ==
    /\ pc[t] \in CallPoints \cup {"idle"} /\ pc'[t] \in CallPoints \cup {"idle"}
    /\ \A u \in Threads \ {t} : pc'[u] = pc[u] /\ arg'[u] = arg[u]

\* What a step leaves alone that neither makes nor arms nor collects an object.
StillHeap == UNCHANGED <<frame, used, dead, armed, link, head, cursor, ahead, age>>

LEMMA ReturnMoves ==
    ASSUME TypeOK, NEW t \in Threads, pc[t] \in CallPoints, Return(t)
    PROVE  Moves(t) /\ pc'[t] = "idle"
BY ReturnType DEF Moves

LEMMA GotoMoves ==
    ASSUME TypeOK, NEW t \in Threads, pc[t] \in CallPoints \cup {"idle"},
           NEW q \in CallPoints, Goto(t, q),
           UNCHANGED arg \/ \E o \in Addr : arg' = [arg EXCEPT ![t] = o]
    PROVE  Moves(t) /\ pc'[t] = q
<1>1. /\ pc'[t] = q
      /\ \A u \in Threads \ {t} : pc'[u] = pc[u]
  BY GotoType
<1>2. \A u \in Threads \ {t} : arg'[u] = arg[u]
  BY DEF TypeOK
<1> QED
  BY <1>1, <1>2 DEF Moves

\* A call under way never changes whether the boundary holds the lock.
LEMMA MovesLock ==
    ASSUME NEW t \in Threads, Moves(t)
    PROVE  (pc'[Loop] = pc[Loop] \/ (LockFree /\ LockFree')) /\ pc[t] # "test"
           /\ (LockFree => LockFree')
<1>1. CASE t = Loop
  BY <1>1 DEF Moves, LockFree, Walking, CallPoints
<1>2. CASE t # Loop
  <2>1. pc'[Loop] = pc[Loop]
    BY <1>2 DEF Moves, Threads
  <2> QED
    BY <2>1 DEF Moves, LockFree, Walking, CallPoints
<1> QED
  BY <1>1, <1>2

LEMMA StillKept ==
    ASSUME ListsOK, AgesOK, StillHeap, NEW t \in Threads, Moves(t)
    PROVE  ListsOK' /\ AgesOK'
<1>1. pc'[Loop] = pc[Loop] \/ (LockFree /\ LockFree')
  BY MovesLock
<1>2. ListsOK' /\ Rest' = Rest
  BY <1>1, QuietLists DEF StillHeap
<1>3. /\ \A b \in Buckets : ListFrom(head[b])' \subseteq ListFrom(head[b])
      /\ ListFrom(Rest)' \subseteq ListFrom(Rest)
  BY <1>2 DEF StillHeap, ListFrom
<1>4. pc'[Loop] = "test" => age[cursor'] > Grace
  BY <1>1 DEF StillHeap, AgesOK, LockFree, Walking
<1> QED
  BY <1>2, <1>3, <1>4, QuietAges DEF StillHeap

\* The calls that neither make nor arm an object.
LEMMA StillCalls ==
    ASSUME TypeOK, CallOK, ListsOK, AgesOK, Unleaked, NEW t \in Threads,
           \/ IncLoad(t) \/ IncStore(t) \/ PinKids(t) \/ DecLoad(t) \/ DecStore(t)
           \/ ArmTest(t) \/ PinChild(t)
           \/ \E o \in Addr : \/ NewGlobalRef(t, o) \/ DeleteGlobalRef(t, o)
                              \/ Keep(t, o) \/ \E v \in Addr : SetChild(t, o, v)
    PROVE  ListsOK' /\ AgesOK' /\ Unleaked'
<1> USE DEF heapVars, flagVars, listVars, graveVars, walkVars, ghostVars
<1> DEFINE Off(P) == pc[t] \in {"arm", "armLocked"} => P
           Armer  == \/ pc'[t] \in {"arm", "armLocked"} /\ arg'[t] = arg[t]
                     \/ arg[t] \in immortal' \cup pinned' \cup armed'
           Zero   == \A o \in Addr : globals'[o] = 0 =>
                        globals[o] = 0 \/ (pc'[t] = "arm" /\ arg'[t] = o)
           Goal   == /\ StillHeap /\ Moves(t) /\ type' = type
                     /\ immortal \subseteq immortal' /\ pinned \subseteq pinned'
                     /\ Off(Armer) /\ Zero
<1>a. pc[t] \in CallPoints => arg[t] \in Addr
  BY DEF TypeOK, CallOK
<1>1. ASSUME IncLoad(t) PROVE Goal
  <2>1. Moves(t)
    BY <1>1, GotoMoves DEF IncLoad, CallPoints
  <2> QED
    BY <1>1, <2>1 DEF IncLoad, StillHeap
<1>2. ASSUME IncStore(t) PROVE Goal
  <2>1. Moves(t)
    BY <1>2, GotoMoves DEF IncStore, CallPoints
  <2>2. Zero
    <3>1. arg[t] \in Addr /\ reg[t] \in Nat
      BY <1>2, <1>a DEF IncStore, CallPoints, TypeOK
    <3>2. globals'[arg[t]] > 0 /\ \A o \in Addr \ {arg[t]} : globals'[o] = globals[o]
      BY <1>2, <3>1 DEF IncStore, TypeOK
    <3> QED
      BY <3>1, <3>2
  <2> QED
    BY <1>2, <2>1, <2>2 DEF IncStore, StillHeap
<1>3. ASSUME PinKids(t) PROVE Goal
  <2>1. Moves(t)
    BY <1>3, ReturnMoves DEF PinKids, CallPoints
  <2> QED
    BY <1>3, <2>1 DEF PinKids, StillHeap
<1>4. ASSUME DecLoad(t) PROVE Goal
  <2>1. Moves(t)
    BY <1>4, ReturnMoves, GotoMoves DEF DecLoad, CallPoints
  <2> QED
    BY <1>4, <2>1 DEF DecLoad, StillHeap
<1>5. ASSUME DecStore(t) PROVE Goal
  <2>1. arg[t] \in Addr /\ reg[t] \in Nat /\ reg[t] > 0 /\ pc[t] = "decStore"
    BY <1>5, <1>a DEF DecStore, CallPoints, TypeOK, CallOK
  <2>2. /\ globals'[arg[t]] = reg[t] - 1
        /\ \A o \in Addr \ {arg[t]} : globals'[o] = globals[o]
    BY <1>5, <2>1 DEF DecStore, TypeOK
  <2>3. CASE reg[t] = 1
    <3>1. Moves(t) /\ pc'[t] = "arm" /\ arg'[t] = arg[t]
      BY <1>5, <2>3, GotoMoves DEF DecStore, CallPoints
    <3> QED
      BY <1>5, <2>1, <2>2, <3>1 DEF DecStore, StillHeap
  <2>4. CASE reg[t] # 1
    <3>1. Moves(t)
      BY <1>5, <2>4, ReturnMoves DEF DecStore, CallPoints
    <3>2. globals'[arg[t]] > 0
      BY <2>1, <2>2, <2>4
    <3> QED
      BY <1>5, <2>1, <2>2, <3>1, <3>2 DEF DecStore, StillHeap
  <2> QED
    BY <2>3, <2>4
<1>6. ASSUME ArmTest(t) PROVE Goal
  <2>1. CASE Protected(arg[t]) \/ arg[t] \in armed
    <3>1. Moves(t)
      BY <1>6, <2>1, ReturnMoves DEF ArmTest, CallPoints
    <3> QED
      BY <1>6, <2>1, <3>1 DEF ArmTest, StillHeap, Protected
  <2>2. CASE ~(Protected(arg[t]) \/ arg[t] \in armed)
    <3>1. Moves(t) /\ pc'[t] = "armLocked" /\ arg' = arg
      BY <1>6, <2>2, GotoMoves DEF ArmTest, CallPoints
    <3> QED
      BY <1>6, <3>1 DEF ArmTest, StillHeap
  <2> QED
    BY <2>1, <2>2
<1>7. ASSUME PinChild(t) PROVE Goal
  <2>1. Moves(t)
    BY <1>7, ReturnMoves DEF PinChild, CallPoints
  <2> QED
    BY <1>7, <2>1 DEF PinChild, StillHeap
<1>8. ASSUME NEW o \in Addr, NewGlobalRef(t, o) PROVE Goal
  <2>1. Moves(t)
    BY <1>8, GotoMoves DEF NewGlobalRef, CallPoints
  <2> QED
    BY <1>8, <2>1 DEF NewGlobalRef, StillHeap
<1>9. ASSUME NEW o \in Addr, DeleteGlobalRef(t, o) PROVE Goal
  <2>1. Moves(t)
    BY <1>9, GotoMoves DEF DeleteGlobalRef, CallPoints
  <2> QED
    BY <1>9, <2>1 DEF DeleteGlobalRef, StillHeap
<1>10. ASSUME NEW o \in Addr, Keep(t, o) PROVE Goal
  <2>1. Moves(t)
    BY <1>10, GotoMoves DEF Keep, CallPoints
  <2> QED
    BY <1>10, <2>1 DEF Keep, StillHeap
<1>11. ASSUME NEW o \in Addr, NEW v \in Addr, SetChild(t, o, v) PROVE Goal
  <2>1. Moves(t)
    BY <1>11, GotoMoves DEF SetChild, CallPoints
  <2> QED
    BY <1>11, <2>1 DEF SetChild, StillHeap
<1>12. Goal
  <2> HIDE DEF Goal
  <2> QED
    BY <1>1, <1>2, <1>3, <1>4, <1>5, <1>6, <1>7, <1>8, <1>9, <1>10, <1>11
<1>13. Unleaked'
  <2>1. pc[t] # "test"
    BY <1>12, MovesLock
  <2>2. UNCHANGED <<used, dead, cursor, type>> /\ armed \subseteq armed'
        /\ \A u \in Threads \ {t} : pc'[u] = pc[u] /\ arg'[u] = arg[u]
    BY <1>12 DEF StillHeap, Moves
  <2> QED
    BY <1>12, <2>1, <2>2, CallUnleaked
<1> QED
  BY <1>12, <1>13, StillKept

\* jni_arm links in only what is on no list.
LEMMA ArmLockedKept ==
    ASSUME TypeOK, CallOK, ListsOK, AgesOK, Unleaked, NEW t \in Threads, ArmLocked(t)
    PROVE  ListsOK' /\ AgesOK' /\ Unleaked'
<1> USE DEF flagVars, listVars, graveVars, walkVars, ghostVars
<1>1. /\ pc[t] = "armLocked" /\ LockFree /\ arg[t] \in Addr
      /\ UNCHANGED <<frame, used, dead, immortal, pinned, type, globals, cursor, ahead, age>>
  BY DEF ArmLocked, CallPoints, TypeOK, CallOK
<1>2. Moves(t)
  BY ReturnMoves DEF ArmLocked, CallPoints
<1>3. LockFree' /\ pc[t] # "test"
  BY <1>1, <1>2, MovesLock
<1>4. CASE Protected(arg[t]) \/ arg[t] \in armed
  <2>1. UNCHANGED <<armed, link, head>>
    BY <1>4 DEF ArmLocked
  <2>2. ListsOK' /\ AgesOK'
    BY <1>1, <1>2, <2>1, StillKept DEF StillHeap
  <2>3. Unleaked'
    BY <1>1, <1>2, <1>3, <1>4, <2>1, CallUnleaked DEF Moves, Protected
  <2> QED
    BY <2>2, <2>3
<1>5. CASE ~(Protected(arg[t]) \/ arg[t] \in armed)
  <2>1. LinkIn(arg[t]) /\ arg[t] \in Addr \ armed
    BY <1>1, <1>5 DEF ArmLocked
  <2>2. ListsOK'
    BY <1>1, <1>3, <2>1, LinkInLists
  <2>3. AgesOK'
    <3>1. age' \in [Addr -> 0 .. Grace + 1] /\ LocalGrace'
      BY <1>1 DEF TypeOK, AgesOK, LocalGrace
    <3> QED
      BY <1>1, <1>3, <2>1, <3>1, LinkInAges
  <2>4. armed' = armed \cup {arg[t]}
    BY <2>1 DEF LinkIn
  <2>5. Unleaked'
    BY <1>1, <1>2, <1>3, <2>4, CallUnleaked DEF Moves
  <2> QED
    BY <2>2, <2>3, <2>5
<1> QED
  BY <1>4, <1>5

\* new_obj links in only what is on no list, given that nothing it takes from the pool is.
LEMMA NewObjKept ==
    ASSUME TypeOK, CallOK, ListsOK, AgesOK, Unleaked, PoolAtRest,
           NEW t \in Threads, NEW ty \in Types, NewObj(t, ty)
    PROVE  ListsOK' /\ AgesOK' /\ Unleaked'
<1>1. PICK o \in Addr :
        /\ Allocate(o)
        /\ used' = used \cup {o}
        /\ dead' = dead \ {o}
        /\ IF started
           THEN LinkIn(o)
           ELSE /\ armed' = armed \ {o}
                /\ link' = [link EXCEPT ![o] = Nil]
                /\ UNCHANGED head
        /\ age' = [age EXCEPT ![o] = 0]
  BY DEF NewObj
<1>2. LockFree /\ UNCHANGED <<frame, cursor, ahead, pc>>
  BY DEF NewObj, walkVars, callVars
<1>3. LockFree'
  BY <1>2 DEF LockFree, Walking
<1>4. o \notin armed
  <2>1. CASE pool # <<>> /\ o = Head(pool)
    <3>1. o \in Members(pool)
      BY <2>1 DEF Members, TypeOK
    <3> QED
      BY <3>1 DEF PoolAtRest
  <2>2. CASE o \in Addr \ used
    BY <2>2 DEF TypeOK
  <2> QED
    BY <1>1, <2>1, <2>2 DEF Allocate
<1>5. /\ age' \in [Addr -> 0 .. Grace + 1] /\ age'[o] = 0
      /\ \A p \in Addr \ {o} : age'[p] = age[p]
      /\ armed \subseteq Addr
  <2>1. 0 \in 0 .. Grace + 1
    BY HeapAssumption
  <2>2. age \in [Addr -> 0 .. Grace + 1] /\ armed \subseteq Addr
    BY DEF TypeOK
  <2> QED
    BY <1>1, <2>1, <2>2
<1>6. LocalGrace'
  <2>1. \A p \in used' : p = o \/ (p \in used /\ p \in Addr)
    BY <1>1 DEF TypeOK
  <2> QED
    BY <1>1, <1>5, <2>1 DEF LocalGrace, AgesOK
<1>7. \A p \in armed : age'[p] = age[p]
  BY <1>4, <1>5
<1>8. CASE started
  <2>1. LinkIn(o)
    BY <1>1, <1>8
  <2>2. ListsOK'
    BY <1>2, <1>3, <1>4, <2>1, LinkInLists
  <2>3. AgesOK'
    BY <1>2, <1>3, <1>4, <1>5, <1>6, <1>7, <2>1, LinkInAges
  <2> QED
    BY <2>2, <2>3, NewObjUnleaked
<1>9. CASE ~started
  <2>1. /\ link' = [link EXCEPT ![o] = Nil] /\ UNCHANGED <<armed, head>> /\ Nil \in Ref
    BY <1>1, <1>4, <1>9 DEF Ref
  <2>2. ListsOK' /\ \A b \in Buckets : ListFrom(head[b])' = ListFrom(head[b])
    BY <1>2, <1>3, <1>4, <2>1, RelinkLists
  <2>3. AgesOK'
    <3>1. \A b : Lag(b)' = Lag(b)
      BY <1>2 DEF Lag, Bucket, Ring
    <3>2. \A b \in Buckets : \A p \in ListFrom(head[b])' : Lag(b)' <= age'[p]
      <4>1. \A b \in Buckets : ListFrom(head[b]) \subseteq armed
        BY DEF ListsOK
      <4> QED
        BY <1>7, <2>2, <3>1, <4>1 DEF AgesOK
    <3>3. ListFrom(Rest)' = {} /\ pc'[Loop] # "test"
      <4>1. Rest' = Nil /\ pc'[Loop] # "test"
        BY <1>2, NothingLeft DEF LockFree, Walking, Rest
      <4> QED
        BY <4>1, FromNil DEF ListFrom
    <3> QED
      BY <1>6, <3>2, <3>3 DEF AgesOK
  <2> QED
    BY <2>2, <2>3, NewObjUnleaked
<1> QED
  BY <1>8, <1>9

\* A boundary empties one bucket, of objects whose grace is over.
LEMMA BoundaryKept ==
    ASSUME TypeOK, CallOK, ListsOK, AgesOK, Unleaked, BoundaryStep
    PROVE  ListsOK' /\ AgesOK' /\ Unleaked'
<1>1. CASE Boundary
  BY <1>1, BoundaryLists, BoundaryAges, BoundaryUnleaked DEF BoundaryStep
<1>2. CASE WalkUnlink
  <2>1. /\ ListsOK'
        /\ \A b \in Buckets : ListFrom(head[b])' = ListFrom(head[b])
        /\ ListFrom(Rest)' = ListFrom(Rest) \ {cursor} /\ cursor \in ListFrom(Rest)
    BY <1>2, WalkUnlinkLists
  <2>2. UNCHANGED <<frame, used, dead, age, cursor>>
    BY <1>2 DEF WalkUnlink, flagVars, ghostVars
  <2>3. age[cursor'] > Grace
    BY <2>1, <2>2 DEF AgesOK
  <2>4. AgesOK'
    BY <2>1, <2>2, <2>3, QuietAges
  <2> QED
    BY <1>2, <2>1, <2>4, BoundaryUnleaked DEF BoundaryStep
<1>3. CASE WalkTest
  <2>1. /\ ListsOK'
        /\ \A b \in Buckets : ListFrom(head[b])' = ListFrom(head[b])
        /\ ListFrom(Rest)' = ListFrom(Rest)
    BY <1>3, WalkTestLists
  <2>2. /\ UNCHANGED <<frame, used, age>> /\ pc[Loop] = "test" /\ pc'[Loop] = "walk"
        /\ dead' \subseteq dead \cup {cursor}
    BY <1>3 DEF WalkTest, Tombstone, Empty, Goto, TypeOK, Threads
  <2>3. LocalGrace'
    <3>1. age[cursor] > Grace
      BY <2>2 DEF AgesOK
    <3>2. cursor \in Addr /\ age[cursor] \in Nat /\ Grace \in Nat
      BY <2>2, HeapAssumption DEF ListsOK, TypeOK
    <3> QED
      BY <2>2, <3>1, <3>2 DEF LocalGrace, AgesOK
  <2>4. \A b : Lag(b)' = Lag(b)
    BY <2>2 DEF Lag, Bucket, Ring
  <2>5. AgesOK'
    BY <2>1, <2>2, <2>3, <2>4 DEF AgesOK
  <2> QED
    BY <1>3, <2>1, <2>5, BoundaryUnleaked DEF BoundaryStep
<1>4. CASE WalkEnd
  <2>1. /\ ListsOK'
        /\ \A b \in Buckets : ListFrom(head[b])' = ListFrom(head[b])
        /\ ListFrom(Rest)' = ListFrom(Rest)
    BY <1>4, WalkTestLists
  <2>2. UNCHANGED <<frame, used, dead, age>> /\ pc'[Loop] = "idle"
    BY <1>4 DEF WalkEnd, heapVars, flagVars, ghostVars, Return, Goto, TypeOK, Threads
  <2>3. AgesOK'
    BY <2>1, <2>2, QuietAges
  <2> QED
    BY <1>4, <2>1, <2>3, BoundaryUnleaked DEF BoundaryStep
<1> QED
  BY <1>1, <1>2, <1>3, <1>4 DEF BoundaryStep

LEMMA InitHeap == Init => HeapInv
<1> SUFFICES ASSUME Init PROVE HeapInv
  OBVIOUS
<1>1. armed = {} /\ used = {} /\ cursor = Nil /\ pc[Loop] = "idle"
      /\ \A b \in Buckets : head[b] = Nil
  BY DEF Init, Threads
<1>2. Rest = Nil /\ \A l : From(l, Nil) = {}
  BY <1>1, FromNil DEF Rest
<1>3. ListsOK
  BY <1>1, <1>2 DEF ListsOK, ListFrom, Walking
<1>4. AgesOK
  BY <1>1, <1>2 DEF AgesOK, ListFrom, LocalGrace
<1>5. Unleaked
  BY <1>1 DEF Unleaked
<1> QED
  BY <1>3, <1>4, <1>5, InitInv DEF HeapInv

LEMMA StepHeap == HeapInv /\ PoolAtRest /\ [Next]_vars => HeapInv'
<1> SUFFICES ASSUME HeapInv, PoolAtRest, [Next]_vars PROVE ListsOK' /\ AgesOK' /\ Unleaked'
  BY StepInv DEF HeapInv
<1> USE DEF HeapInv, IInv
<1>1. ASSUME UNCHANGED <<frame, used, flagVars, type, globals, listVars, walkVars, callVars,
                         ghostVars>>
      PROVE  ListsOK' /\ AgesOK' /\ Unleaked'
  <2> USE <1>1 DEF flagVars, listVars, walkVars, callVars, ghostVars
  <2>1. ListsOK' /\ Rest' = Rest
    BY QuietLists
  <2>2. AgesOK'
    BY <2>1, QuietAges DEF ListFrom, AgesOK
  <2>3. Unleaked'
    BY DEF Unleaked, Collectible, Protected
  <2> QED
    BY <2>1, <2>2, <2>3
<1>2. CASE Freeze
  BY <1>1, <1>2 DEF Freeze
<1>3. CASE BoundaryStep
  BY <1>3, BoundaryKept
<1>4. ASSUME NEW t \in Threads, Call(t) PROVE ListsOK' /\ AgesOK' /\ Unleaked'
  <2>1. ASSUME NEW ty \in Types, NewObj(t, ty) PROVE ListsOK' /\ AgesOK' /\ Unleaked'
    BY <2>1, NewObjKept
  <2>2. CASE \E o \in Addr : \/ NewGlobalRef(t, o) \/ DeleteGlobalRef(t, o) \/ Keep(t, o)
                             \/ \E v \in Addr : SetChild(t, o, v)
    BY <2>2, StillCalls
  <2> QED
    BY <1>4, <2>1, <2>2 DEF Call
<1>5. ASSUME NEW t \in Threads, Continue(t) PROVE ListsOK' /\ AgesOK' /\ Unleaked'
  BY <1>5, ArmLockedKept, StillCalls DEF Continue
<1>6. CASE UNCHANGED vars
  BY <1>1, <1>6 DEF vars, heapVars
<1> QED
  BY <1>2, <1>3, <1>4, <1>5, <1>6 DEF Next

\* The parts of the invariant say what the checked property says.
LEMMA HeapInvBuckets == HeapInv => BucketsTrue
<1> SUFFICES ASSUME HeapInv PROVE NoLeak /\ BucketsDisjoint
  BY DEF BucketsTrue
<1>1. BucketsDisjoint
  BY DEF HeapInv, ListsOK, BucketsDisjoint
<1>2. NoLeak
  BY DEF HeapInv, ListsOK, Unleaked, NoLeak
<1> QED
  BY <1>1, <1>2

(***************************************************************************)
(* For any number of guest threads, stale guests included: as long as no   *)
(* structure goes back to new_obj while it is still armed, the buckets of  *)
(* jni.c are disjoint lists of exactly the armed objects, and no object    *)
(* that lost its protection is forgotten.                                  *)
(***************************************************************************)
THEOREM BucketsAreTrue == Spec /\ []PoolAtRest => []BucketsTrue
<1>1. Init => HeapInv
  BY InitHeap
<1>2. HeapInv /\ PoolAtRest /\ [Next]_vars => HeapInv'
  BY StepHeap
<1>3. HeapInv => BucketsTrue
  BY HeapInvBuckets
<1> QED
  BY <1>1, <1>2, <1>3, PTL DEF Spec

(***************************************************************************)
(* Under the same condition a local reference is never collected in the    *)
(* frame it was made in nor in the Grace frames after it, whatever the     *)
(* threads do to its object meanwhile.                                     *)
(***************************************************************************)
THEOREM GraceIsKept == Spec /\ []PoolAtRest => []LocalGrace
<1>1. Init => HeapInv
  BY InitHeap
<1>2. HeapInv /\ PoolAtRest /\ [Next]_vars => HeapInv'
  BY StepHeap
<1>3. HeapInv => LocalGrace
  BY DEF HeapInv, AgesOK
<1> QED
  BY <1>1, <1>2, <1>3, PTL DEF Spec

-----------------------------------------------------------------------------
(***************************************************************************)
(* One guest thread, the frame loop itself, that names only references it  *)
(* still holds: the program jni.c was written for.                         *)
(***************************************************************************)
OneThread == Workers = {} /\ ~Stale

(***************************************************************************)
(* Then the count of an object is that of the references the guest holds,  *)
(* one more while a reference is being dropped.                            *)
(***************************************************************************)
Counts ==
    /\ \A o \in Addr : globals[o] = owned[o] +
          (IF pc[Loop] \in {"decLoad", "decStore"} /\ arg[Loop] = o THEN 1 ELSE 0)
    /\ pc[Loop] \in {"incStore", "decStore"} => reg[Loop] = globals[arg[Loop]]

(***************************************************************************)
(* And nothing that is in use is a tombstone.                              *)
(***************************************************************************)
DeadApart ==
    /\ dead \cap armed = {} /\ dead \cap immortal = {}
    /\ \A o \in dead : globals[o] = 0
    /\ pc[Loop] \in CallPoints => arg[Loop] \notin dead
    /\ pc[Loop] \notin CallPoints => arg[Loop] = Nil

Good == Counts /\ DeadApart

\* What the guest may name is no tombstone.
LEMMA NamedAlive ==
    ASSUME OneThread, TypeOK, LocalGrace, Good, NEW o \in Addr, Named(o)
    PROVE  o \in used \ dead
<1>1. owned[o] > 0 => globals[o] > 0
  <2>1. owned[o] \in Nat
    BY DEF TypeOK
  <2> QED
    BY <2>1 DEF Good, Counts
<1> QED
  BY <1>1 DEF Named, OneThread, LocalGrace, Good, DeadApart

LEMMA InitGood == Init => Good
BY HeapAssumption DEF Init, Good, Counts, DeadApart, CallPoints, Threads

\* The calls on an existing object.
LEMMA CallGood ==
    ASSUME OneThread, TypeOK, CallOK, LocalGrace, Good
    PROVE  /\ \A o \in Addr : NewGlobalRef(Loop, o) => Good'
           /\ \A o \in Addr : DeleteGlobalRef(Loop, o) => Good'
           /\ \A o \in Addr : Keep(Loop, o) => Good'
           /\ \A o, v \in Addr : SetChild(Loop, o, v) => Good'
<1> USE DEF heapVars, flagVars, listVars, graveVars, walkVars, ghostVars
<1>0. /\ Loop \in Threads /\ pc \in [Threads -> CallPoints \cup {"idle", "walk", "test"}]
      /\ arg \in [Threads -> Known]
      /\ \A o \in Addr : owned[o] \in Nat /\ globals[o] \in Nat
      /\ \A o \in Addr : Named(o) => o \notin dead
  BY NamedAlive DEF TypeOK, Threads
<1>1. ASSUME NEW o \in Addr, NewGlobalRef(Loop, o) PROVE Good'
  <2>1. pc[Loop] = "idle" /\ pc'[Loop] = "incLoad" /\ arg'[Loop] = o /\ o \notin dead
    BY <1>0, <1>1 DEF NewGlobalRef, Goto
  <2> QED
    BY <1>1, <2>1 DEF NewGlobalRef, Good, Counts, DeadApart, CallPoints
<1>2. ASSUME NEW o \in Addr, DeleteGlobalRef(Loop, o) PROVE Good'
  <2>1. pc[Loop] = "idle" /\ pc'[Loop] = "decLoad" /\ arg'[Loop] = o /\ o \notin dead
    BY <1>0, <1>2 DEF DeleteGlobalRef, Goto
  <2>2. /\ owned[o] > 0 /\ owned'[o] = owned[o] - 1
        /\ \A p \in Addr \ {o} : owned'[p] = owned[p]
    BY <1>0, <1>2 DEF DeleteGlobalRef, OneThread, TypeOK
  <2>3. Counts'
    BY <1>0, <1>2, <2>1, <2>2 DEF DeleteGlobalRef, Good, Counts
  <2>4. DeadApart'
    BY <1>2, <2>1 DEF DeleteGlobalRef, Good, DeadApart, CallPoints
  <2> QED
    BY <2>3, <2>4 DEF Good
<1>3. ASSUME NEW o \in Addr, Keep(Loop, o) PROVE Good'
  <2>1. pc[Loop] = "idle" /\ pc'[Loop] = "pinKids" /\ arg'[Loop] = o /\ o \notin dead
    BY <1>0, <1>3 DEF Keep, Goto
  <2> QED
    BY <1>3, <2>1 DEF Keep, Good, Counts, DeadApart, CallPoints
<1>4. ASSUME NEW o \in Addr, NEW v \in Addr, SetChild(Loop, o, v) PROVE Good'
  <2>1. pc[Loop] = "idle" /\ pc'[Loop] = "pinChild" /\ arg'[Loop] = o /\ o \notin dead
    BY <1>0, <1>4 DEF SetChild, Goto
  <2> QED
    BY <1>4, <2>1 DEF SetChild, Good, Counts, DeadApart, CallPoints
<1> QED
  BY <1>1, <1>2, <1>3, <1>4

\* The steps of a call under way.
LEMMA ContinueGood ==
    ASSUME OneThread, TypeOK, CallOK, Good, Continue(Loop)
    PROVE  Good'
<1> USE DEF heapVars, flagVars, listVars, graveVars, walkVars, ghostVars
<1> DEFINE a == arg[Loop]
<1>0. /\ Loop \in Threads /\ pc \in [Threads -> CallPoints \cup {"idle", "walk", "test"}]
      /\ arg \in [Threads -> Known] /\ reg \in [Threads -> Nat]
      /\ \A o \in Addr : owned[o] \in Nat /\ globals[o] \in Nat
      /\ globals \in [Addr -> Nat] /\ owned \in [Addr -> Nat]
      /\ pc[Loop] \in CallPoints => a \in Addr /\ a \notin dead
  BY DEF TypeOK, Threads, CallOK, Good, DeadApart
<1>r. ASSUME Return(Loop) PROVE pc'[Loop] = "idle" /\ arg'[Loop] = Nil
  BY <1>0, <1>r DEF Return, Goto
<1>1. ASSUME IncLoad(Loop) PROVE Good'
  <2>1. pc[Loop] = "incLoad" /\ pc'[Loop] = "incStore" /\ reg'[Loop] = globals[a]
    BY <1>0, <1>1 DEF IncLoad, Goto
  <2> QED
    BY <1>0, <1>1, <2>1 DEF IncLoad, Good, Counts, DeadApart, CallPoints
<1>2. ASSUME IncStore(Loop) PROVE Good'
  <2>1. /\ pc[Loop] = "incStore" /\ pc'[Loop] = "pinKids" /\ arg' = arg
        /\ a \in Addr /\ a \notin dead /\ reg[Loop] = globals[a]
    BY <1>0, <1>2 DEF IncStore, Goto, Good, Counts, CallPoints
  <2>2. /\ globals'[a] = globals[a] + 1 /\ owned'[a] = owned[a] + 1
        /\ \A p \in Addr \ {a} : globals'[p] = globals[p] /\ owned'[p] = owned[p]
    BY <1>0, <1>2, <2>1 DEF IncStore
  <2>3. Counts'
    BY <1>0, <2>1, <2>2 DEF Good, Counts
  <2>4. DeadApart'
    <3>1. \A p \in dead : p \in Addr /\ p # a
      BY <2>1 DEF TypeOK
    <3> QED
      BY <1>2, <2>1, <2>2, <3>1 DEF IncStore, Good, DeadApart, CallPoints
  <2> QED
    BY <2>3, <2>4 DEF Good
<1>3. ASSUME PinKids(Loop) PROVE Good'
  <2>1. pc[Loop] = "pinKids" /\ pc'[Loop] = "idle" /\ arg'[Loop] = Nil
    BY <1>r, <1>3 DEF PinKids
  <2> QED
    BY <1>3, <2>1 DEF PinKids, Good, Counts, DeadApart, CallPoints
<1>4. ASSUME DecLoad(Loop) PROVE Good'
  <2>1. pc[Loop] = "decLoad" /\ a \in Addr /\ globals[a] > 0
    BY <1>0, <1>4 DEF DecLoad, Good, Counts, CallPoints
  <2>2. reg'[Loop] = globals[a] /\ pc'[Loop] = "decStore" /\ arg' = arg
    BY <1>0, <1>4, <2>1 DEF DecLoad, Goto
  <2> QED
    BY <1>0, <1>4, <2>1, <2>2 DEF DecLoad, Good, Counts, DeadApart, CallPoints
<1>5. ASSUME DecStore(Loop) PROVE Good'
  <2>1. /\ pc[Loop] = "decStore" /\ a \in Addr /\ a \notin dead
        /\ reg[Loop] = globals[a] /\ globals[a] = owned[a] + 1
    BY <1>0, <1>5 DEF DecStore, Good, Counts, CallPoints
  <2>2. /\ globals'[a] = owned[a] /\ \A p \in Addr \ {a} : globals'[p] = globals[p]
        /\ owned' = owned
    BY <1>0, <1>5, <2>1 DEF DecStore
  <2>3. \/ pc'[Loop] = "arm" /\ arg' = arg
        \/ pc'[Loop] = "idle" /\ arg'[Loop] = Nil
    BY <1>0, <1>r, <1>5 DEF DecStore, Goto
  <2>4. Counts'
    BY <1>0, <2>1, <2>2, <2>3 DEF Good, Counts
  <2>5. DeadApart'
    <3>1. \A p \in dead : p \in Addr /\ p # a
      BY <2>1 DEF TypeOK
    <3>2. UNCHANGED <<dead, armed, immortal>>
      BY <1>5 DEF DecStore
    <3> QED
      BY <2>1, <2>2, <2>3, <3>1, <3>2 DEF Good, DeadApart, CallPoints
  <2> QED
    BY <2>4, <2>5 DEF Good
<1>6. ASSUME ArmTest(Loop) PROVE Good'
  <2>1. /\ pc[Loop] = "arm"
        /\ \/ pc'[Loop] = "armLocked" /\ arg' = arg
           \/ pc'[Loop] = "idle" /\ arg'[Loop] = Nil
    BY <1>0, <1>r, <1>6 DEF ArmTest, Goto
  <2> QED
    BY <1>6, <2>1 DEF ArmTest, Good, Counts, DeadApart, CallPoints
<1>7. ASSUME ArmLocked(Loop) PROVE Good'
  <2>1. /\ pc[Loop] = "armLocked" /\ pc'[Loop] = "idle" /\ arg'[Loop] = Nil
        /\ a \notin dead /\ armed' \subseteq armed \cup {a}
    BY <1>0, <1>r, <1>7 DEF ArmLocked, LinkIn, CallPoints
  <2> QED
    BY <1>7, <2>1 DEF ArmLocked, Good, Counts, DeadApart, CallPoints
<1>8. ASSUME PinChild(Loop) PROVE Good'
  <2>1. pc[Loop] = "pinChild" /\ pc'[Loop] = "idle" /\ arg'[Loop] = Nil
    BY <1>r, <1>8 DEF PinChild
  <2> QED
    BY <1>8, <2>1 DEF PinChild, Good, Counts, DeadApart, CallPoints
<1> QED
  BY <1>1, <1>2, <1>3, <1>4, <1>5, <1>6, <1>7, <1>8 DEF Continue

\* A new object is no tombstone, and nobody holds a reference to it.
LEMMA NewObjGood ==
    ASSUME OneThread, TypeOK, Good, NEW ty \in Types, NewObj(Loop, ty)
    PROVE  Good'
<1>1. PICK o \in Addr :
        /\ immortal' = IF started THEN immortal \ {o} ELSE immortal \cup {o}
        /\ dead' = dead \ {o}
        /\ globals' = [globals EXCEPT ![o] = 0]
        /\ IF started THEN LinkIn(o) ELSE armed' = armed \ {o}
        /\ owned' = [owned EXCEPT ![o] = 0]
  BY DEF NewObj
<1>2. pc[Loop] = "idle" /\ UNCHANGED <<pc, arg, reg>>
  BY DEF NewObj, callVars
<1>3. armed' \subseteq armed \cup {o} /\ immortal' \subseteq immortal \cup {o}
  BY <1>1 DEF LinkIn
<1>4. /\ globals'[o] = 0 /\ owned'[o] = 0
      /\ \A p \in Addr \ {o} : globals'[p] = globals[p] /\ owned'[p] = owned[p]
  BY <1>1 DEF TypeOK
<1>5. Counts'
  BY <1>2, <1>4 DEF Good, Counts
<1>6. DeadApart'
  <2>1. \A p \in dead' : p \in Addr /\ p # o /\ p \in dead
    BY <1>1 DEF TypeOK
  <2> QED
    BY <1>2, <1>3, <1>4, <2>1 DEF Good, DeadApart, CallPoints
<1> QED
  BY <1>5, <1>6 DEF Good

\* The sweep buries only what is armed no more, unprotected and unreferenced.
LEMMA BoundaryGood ==
    ASSUME OneThread, TypeOK, ListsOK, Good, BoundaryStep
    PROVE  Good'
<1> USE DEF heapVars, flagVars, listVars, graveVars, walkVars, ghostVars
<1>0. /\ Loop \in Threads /\ pc \in [Threads -> CallPoints \cup {"idle", "walk", "test"}]
      /\ arg \in [Threads -> Known]
  BY DEF TypeOK, Threads
<1>1. ASSUME Boundary PROVE Good'
  <2>1. pc[Loop] = "idle" /\ pc'[Loop] \in {"idle", "walk"}
    BY <1>0, <1>1 DEF Boundary, Goto
  <2> QED
    BY <1>1, <2>1 DEF Boundary, Good, Counts, DeadApart, CallPoints
<1>2. ASSUME WalkUnlink PROVE Good'
  <2>1. pc[Loop] = "walk" /\ pc'[Loop] = "test" /\ armed' \subseteq armed
    BY <1>0, <1>2 DEF WalkUnlink, Goto
  <2> QED
    BY <1>2, <2>1 DEF WalkUnlink, Good, Counts, DeadApart, CallPoints
<1>3. ASSUME WalkTest PROVE Good'
  <2>1. /\ pc[Loop] = "test" /\ pc'[Loop] = "walk"
        /\ UNCHANGED <<globals, owned, arg, reg, immortal, armed>>
    BY <1>0, <1>3 DEF WalkTest, Goto
  <2>2. dead' = dead \/ (Collectible(cursor) /\ dead' = dead \cup {cursor})
    BY <1>3 DEF WalkTest, Tombstone, Empty
  <2>3. \A o \in dead' \ dead : o \notin armed /\ o \notin immortal /\ globals[o] = 0
    BY <2>1, <2>2 DEF ListsOK, Collectible, Protected
  <2> QED
    BY <2>1, <2>3 DEF Good, Counts, DeadApart, CallPoints
<1>4. ASSUME WalkEnd PROVE Good'
  <2>1. pc[Loop] = "walk" /\ pc'[Loop] = "idle" /\ arg'[Loop] = Nil
    BY <1>0, <1>4 DEF WalkEnd, Return, Goto
  <2> QED
    BY <1>4, <2>1 DEF WalkEnd, Good, Counts, DeadApart, CallPoints
<1> QED
  BY <1>1, <1>2, <1>3, <1>4 DEF BoundaryStep

LEMMA GoodPool == IInv /\ Good => PoolAtRest
BY DEF IInv, QuarantineOnce, Good, DeadApart, PoolAtRest

LEMMA StepGood ==
    ASSUME OneThread
    PROVE  HeapInv /\ Good /\ [Next]_vars => HeapInv' /\ Good'
<1> SUFFICES ASSUME HeapInv, Good, [Next]_vars PROVE HeapInv' /\ Good'
  OBVIOUS
<1>0. HeapInv'
  BY GoodPool, StepHeap DEF HeapInv
<1>1. TypeOK /\ CallOK /\ LocalGrace /\ ListsOK
  BY DEF HeapInv, IInv, AgesOK
<1>2. ASSUME Freeze PROVE Good'
  BY <1>2 DEF Freeze, flagVars, listVars, callVars, ghostVars, Good, Counts, DeadApart
<1>3. ASSUME BoundaryStep PROVE Good'
  BY <1>1, <1>3, BoundaryGood
<1>4. ASSUME NEW t \in Threads, Call(t) \/ Continue(t) PROVE Good'
  <2>1. t = Loop
    BY DEF OneThread, Threads
  <2> QED
    BY <1>1, <1>4, <2>1, CallGood, ContinueGood, NewObjGood DEF Call
<1>5. ASSUME UNCHANGED vars PROVE Good'
  BY <1>5 DEF vars, heapVars, flagVars, listVars, callVars, ghostVars, Good, Counts,
              DeadApart
<1> QED
  BY <1>0, <1>2, <1>3, <1>4, <1>5 DEF Next

LEMMA GoodReferences == HeapInv /\ Good => ReferencesGood
<1> SUFFICES ASSUME HeapInv, Good PROVE GlobalsSurvive /\ LocalGrace
  BY DEF ReferencesGood
<1>1. ASSUME NEW o \in Addr, owned[o] > 0 PROVE o \notin dead
  <2>1. owned[o] \in Nat
    BY DEF HeapInv, IInv, TypeOK
  <2> QED
    BY <1>1, <2>1 DEF Good, Counts, DeadApart
<1> QED
  BY <1>1 DEF GlobalsSurvive, HeapInv, AgesOK

(***************************************************************************)
(* With one guest thread, for every number of objects, depth of grace and  *)
(* capacity of the quarantine, none included: no object is collected while *)
(* the guest holds a global reference to it, nor in the grace of a local   *)
(* one.                                                                    *)
(***************************************************************************)
THEOREM ReferencesAreGood == ASSUME OneThread PROVE Spec => []ReferencesGood
<1>1. Init => HeapInv /\ Good
  BY InitHeap, InitGood
<1>2. HeapInv /\ Good /\ [Next]_vars => HeapInv' /\ Good'
  BY StepGood
<1>3. HeapInv /\ Good => ReferencesGood
  BY GoodReferences
<1> QED
  BY <1>1, <1>2, <1>3, PTL DEF Spec

(***************************************************************************)
(* With one guest thread a structure is out of the buckets by the time it  *)
(* is reused even without a quarantine, so the buckets are true.           *)
(***************************************************************************)
THEOREM BucketsTrueAlone == ASSUME OneThread PROVE Spec => []BucketsTrue
<1>1. Init => HeapInv /\ Good
  BY InitHeap, InitGood
<1>2. HeapInv /\ Good /\ [Next]_vars => HeapInv' /\ Good'
  BY StepGood
<1>3. HeapInv => BucketsTrue
  BY HeapInvBuckets
<1> QED
  BY <1>1, <1>2, <1>3, PTL DEF Spec

-----------------------------------------------------------------------------
(* The promise of JniReferences, step by step. *)

\* What the promise speaks of.
promise == <<used \ dead, owned, immortal, age>>

LEMMA InitPromise == Init => Lifetimes!Init
BY DEF Init, Lifetimes!Init

\* What is made anew was no living object.
LEMMA CreatePromise ==
    ASSUME HeapInv, Good, NEW t \in Threads, NEW ty \in Types, NewObj(t, ty)
    PROVE  \E o \in Addr : Lifetimes!Create(o)
<1>1. PICK o \in Addr :
        /\ Allocate(o)
        /\ used' = used \cup {o}
        /\ immortal' = IF started THEN immortal \ {o} ELSE immortal \cup {o}
        /\ dead' = dead \ {o}
        /\ owned' = [owned EXCEPT ![o] = 0]
        /\ age' = [age EXCEPT ![o] = 0]
  BY DEF NewObj
<1>2. TypeOK /\ QuarantineOnce
  BY DEF HeapInv, IInv
<1>3. o \in dead \/ o \notin used
  <2>1. CASE pool # <<>> /\ o = Head(pool)
    <3>1. o \in Members(pool)
      BY <1>2, <2>1 DEF Members, TypeOK
    <3> QED
      BY <1>2, <3>1 DEF QuarantineOnce
  <2> QED
    BY <1>1, <2>1 DEF Allocate
<1>4. o \notin immortal
  BY <1>2, <1>3 DEF Good, DeadApart, TypeOK
<1>5. /\ o \notin used \ dead /\ (used \ dead)' = (used \ dead) \cup {o}
      /\ immortal' \in {immortal, immortal \cup {o}}
  BY <1>1, <1>3, <1>4
<1>6. Lifetimes!Create(o)
  BY <1>1, <1>5 DEF Lifetimes!Create
<1> QED
  BY <1>6

\* What the sweep buries is neither held nor kept, and its grace is over.
LEMMA CollectPromise ==
    ASSUME HeapInv, Good, BoundaryStep
    PROVE  [Lifetimes!Next]_promise
<1> USE DEF heapVars, flagVars, listVars, graveVars, walkVars, ghostVars, promise
<1>1. CASE Boundary
  BY <1>1 DEF Boundary, Lifetimes!Next, Lifetimes!Frame
<1>2. CASE WalkUnlink \/ WalkEnd
  BY <1>2 DEF WalkUnlink, WalkEnd
<1>3. CASE WalkTest
  <2>1. pc[Loop] = "test" /\ UNCHANGED <<used, immortal, owned, age>>
    BY <1>3 DEF WalkTest
  <2>2. cursor \in used /\ cursor \in Addr /\ age[cursor] > Grace
    BY <2>1 DEF HeapInv, IInv, TypeOK, ListsOK, AgesOK
  <2>3. CASE Collectible(cursor) /\ cursor \notin dead /\ Empty(cursor)
    <3>1. owned[cursor] = 0 /\ cursor \notin immortal
      <4>1. globals[cursor] = owned[cursor] /\ globals[cursor] = 0
        <5>1. owned[cursor] \in Nat
          BY <2>2 DEF HeapInv, IInv, TypeOK
        <5> QED
          BY <2>1, <2>2, <2>3, <5>1 DEF Good, Counts, Collectible
      <4> QED
        BY <2>3, <4>1 DEF Collectible, Protected
    <3>2. (used \ dead)' = (used \ dead) \ {cursor}
      BY <2>1, <2>3 DEF Empty
    <3>3. Lifetimes!Collect(cursor)
      BY <2>1, <2>2, <2>3, <3>1, <3>2 DEF Lifetimes!Collect
    <3> QED
      BY <2>2, <3>3 DEF Lifetimes!Next
  <2>4. CASE UNCHANGED dead
    BY <2>1, <2>4
  <2> QED
    BY <1>3, <2>3, <2>4 DEF WalkTest, Tombstone
<1> QED
  BY <1>1, <1>2, <1>3 DEF BoundaryStep

LEMMA StepPromise ==
    ASSUME OneThread
    PROVE  HeapInv /\ Good /\ [Next]_vars => [Lifetimes!Next]_promise
<1> SUFFICES ASSUME HeapInv, Good, [Next]_vars PROVE [Lifetimes!Next]_promise
  OBVIOUS
<1> USE DEF heapVars, flagVars, listVars, graveVars, walkVars, callVars, ghostVars, promise
<1>0. /\ TypeOK /\ CallOK /\ LocalGrace
      /\ \A o \in Addr : Named(o) => o \in used \ dead
  BY NamedAlive DEF HeapInv, IInv, AgesOK
<1>1. CASE Freeze \/ UNCHANGED vars
  BY <1>1 DEF Freeze, vars
<1>2. CASE BoundaryStep
  BY <1>2, CollectPromise
<1>3. ASSUME NEW t \in Threads, Continue(t) PROVE [Lifetimes!Next]_promise
  <2>1. CASE IncStore(t)
    <3>1. t = Loop
      BY DEF OneThread, Threads
    <3>2. arg[t] \in used \ dead /\ arg[t] \in Addr
      BY <1>0, <2>1, <3>1 DEF IncStore, CallOK, CallPoints, Good, DeadApart, TypeOK
    <3>3. Lifetimes!Promote(arg[t])
      BY <2>1, <3>2 DEF IncStore, Lifetimes!Promote
    <3> QED
      BY <3>2, <3>3 DEF Lifetimes!Next
  <2>2. CASE \/ IncLoad(t) \/ PinKids(t) \/ DecLoad(t) \/ DecStore(t) \/ ArmTest(t)
             \/ ArmLocked(t) \/ PinChild(t)
    BY <2>2 DEF IncLoad, PinKids, DecLoad, DecStore, ArmTest, ArmLocked, PinChild
  <2> QED
    BY <1>3, <2>1, <2>2 DEF Continue
<1>4. ASSUME NEW t \in Threads, Call(t) PROVE [Lifetimes!Next]_promise
  <2>1. ASSUME NEW ty \in Types, NewObj(t, ty) PROVE [Lifetimes!Next]_promise
    BY <2>1, CreatePromise DEF Lifetimes!Next
  <2>2. ASSUME NEW o \in Addr, DeleteGlobalRef(t, o) PROVE [Lifetimes!Next]_promise
    <3>1. o \in used \ dead /\ owned[o] > 0 /\ owned' = [owned EXCEPT ![o] = @ - 1]
      BY <1>0, <2>2 DEF DeleteGlobalRef, OneThread, TypeOK
    <3>2. Lifetimes!Drop(o)
      BY <2>2, <3>1 DEF DeleteGlobalRef, Lifetimes!Drop
    <3> QED
      BY <3>2 DEF Lifetimes!Next
  <2>3. ASSUME NEW o \in Addr, Keep(t, o) PROVE [Lifetimes!Next]_promise
    <3>1. Lifetimes!Keep(o)
      BY <1>0, <2>3 DEF Keep, Lifetimes!Keep
    <3> QED
      BY <3>1 DEF Lifetimes!Next
  <2>4. ASSUME NEW o \in Addr, NewGlobalRef(t, o) \/ \E v \in Addr : SetChild(t, o, v)
        PROVE  [Lifetimes!Next]_promise
    BY <2>4 DEF NewGlobalRef, SetChild
  <2> QED
    BY <1>4, <2>1, <2>2, <2>3, <2>4 DEF Call
<1> QED
  BY <1>1, <1>2, <1>3, <1>4 DEF Next

(***************************************************************************)
(* With one guest thread the heap implements JniReferences: whatever walks *)
(* its lists, counts its references and reuses its structures is a step of *)
(* the promise or none.                                                    *)
(***************************************************************************)
THEOREM KeepsTheContract == ASSUME OneThread PROVE Spec => Contract
<1>1. Init => HeapInv /\ Good /\ Lifetimes!Init
  BY InitHeap, InitGood, InitPromise
<1>2. HeapInv /\ Good /\ [Next]_vars => HeapInv' /\ Good'
  BY StepGood
<1>3. HeapInv /\ Good /\ [Next]_vars
        => [Lifetimes!Next]_<<used \ dead, owned, immortal, age>>
  BY StepPromise DEF promise
<1> QED
  BY <1>1, <1>2, <1>3, PTL DEF Spec, Contract, Lifetimes!Spec

-----------------------------------------------------------------------------
(***************************************************************************)
(* jni_pin gives up at depth 8: no unprotected chain of references is      *)
(* longer than what it follows.                                            *)
(***************************************************************************)
Shallow == \A o \in used : Deeper(PinSet({child[o]})) = PinSet({child[o]})

\* The call under way has still to pin what o refers to.
PinDue(o) == pc[Loop] \in {"pinKids", "pinChild"} /\ arg[Loop] = o

(***************************************************************************)
(* What outlives its frame refers only to what does, but for the object of *)
(* the call under way; and a reference is lost only when it is recorded.   *)
(***************************************************************************)
KidsOK ==
    /\ \A p \in Addr \ dangling : child[p] \notin dead
    /\ pc[Loop] = "pinChild" => val[Loop] = child[arg[Loop]]
    /\ \A o \in Addr \ dangling :
          Outlives(o) /\ ~PinDue(o) /\ child[o] # Nil => Protected(child[o])

\* The pinning of a root protects it and, when no chain is too long, all that what it
\* newly protects refers to.
LEMMA PinSetCloses ==
    ASSUME TypeOK, Shallow, NEW a \in used
    PROVE  /\ child[a] # Nil => child[a] \in immortal \cup pinned \cup PinSet({child[a]})
           /\ \A q \in PinSet({child[a]}) : child[q] # Nil =>
                 child[q] \in immortal \cup pinned \cup PinSet({child[a]})
<1> DEFINE P == PinSet({child[a]})
<1>1. \A S : S \subseteq Deeper(S)
  BY DEF Deeper
<1>2. PinRoots({child[a]}) \subseteq P
  <2> HIDE DEF P
  <2> DEFINE r == PinRoots({child[a]})
  <2> HIDE DEF r
  <2>1. P = Deeper(Deeper(Deeper(Deeper(Deeper(Deeper(Deeper(r)))))))
    BY DEF P, r, PinSet
  <2> QED
    BY <1>1, <2>1 DEF r
<1>3. child[a] # Nil => child[a] \in immortal \cup pinned \cup P
  BY <1>2 DEF PinRoots, Protected
<1> HIDE DEF P
<1>4. Deeper(P) = P
  BY DEF Shallow, P
<1>5. ASSUME NEW q \in P, child[q] # Nil PROVE child[q] \in immortal \cup pinned \cup P
  <2>1. child[q] \in PinRoots({child[p] : p \in P}) \/ Protected(child[q])
    BY <1>5 DEF PinRoots
  <2>2. PinRoots({child[p] : p \in P}) \subseteq Deeper(P)
    BY DEF Deeper
  <2> QED
    BY <1>4, <2>1, <2>2 DEF Protected
<1> QED
  BY <1>3, <1>5 DEF P

\* So a call that ends by pinning the children of its object leaves nothing due.
LEMMA PinKidsKept ==
    ASSUME OneThread, TypeOK, CallOK, KidsOK, Shallow,
           pc[Loop] \in {"pinKids", "pinChild"}, Return(Loop),
           UNCHANGED <<used, dead, immortal, child, globals, dangling>>,
           \/ pinned' = pinned \cup PinSet({child[arg[Loop]]})
           \/ pinned' = pinned /\ ~Outlives(arg[Loop])
    PROVE  KidsOK'
<1> DEFINE a == arg[Loop]
           P == PinSet({child[a]})
<1>1. a \in used /\ pc'[Loop] = "idle"
  <2>1. Loop \in Threads
    BY DEF Threads
  <2> QED
    BY <2>1, ReturnType DEF CallOK, CallPoints
<1>2. pinned \subseteq pinned' /\ pinned' \subseteq pinned \cup P
  OBVIOUS
<1>3. ASSUME NEW o \in Addr \ dangling, Outlives(o)', child[o] # Nil
      PROVE  child[o] \in immortal \cup pinned'
  <2>1. o \in used /\ o \notin dead
    BY <1>3 DEF Outlives
  <2>2. CASE Outlives(o) /\ o # a
    BY <1>2, <1>3, <2>2 DEF KidsOK, PinDue, Protected
  <2>3. CASE pinned' = pinned \cup P /\ o = a
    <3>1. child[a] \in immortal \cup pinned \cup P
      BY <1>1, <1>3, <2>3, PinSetCloses
    <3> QED
      BY <2>3, <3>1
  <2>4. CASE pinned' = pinned \cup P /\ o \in P
    <3>1. child[o] \in immortal \cup pinned \cup P
      BY <1>1, <1>3, <2>4, PinSetCloses
    <3> QED
      BY <2>4, <3>1
  <2>5. Outlives(o) \/ (pinned' = pinned \cup P /\ o \in P)
    BY <1>3, <2>1 DEF Outlives, Protected
  <2> QED
    BY <2>2, <2>3, <2>4, <2>5
<1> QED
  BY <1>1, <1>3 DEF KidsOK, Protected, Outlives

\* Calls that neither move a reference nor bury an object, and give what they make
\* outlive its frame to a call that still has to pin.
LEMMA CallKidsKept ==
    ASSUME KidsOK, UNCHANGED <<used, dead, pinned, child, dangling>>,
           pc[Loop] \notin {"pinKids", "pinChild"}, pc'[Loop] # "pinChild",
           immortal \subseteq immortal',
           \A o \in Addr : \/ o \in immortal' => o \in immortal
                           \/ pc'[Loop] = "pinKids" /\ arg'[Loop] = o,
           \A o \in Addr : \/ globals'[o] > 0 => globals[o] > 0
                           \/ pc'[Loop] = "pinKids" /\ arg'[Loop] = o
    PROVE  KidsOK'
<1>1. ASSUME NEW o \in Addr \ dangling, Outlives(o)', ~PinDue(o)', child[o] # Nil
      PROVE  Protected(child[o])'
  <2>1. Outlives(o) /\ ~PinDue(o)
    BY <1>1 DEF Outlives, Protected, PinDue
  <2>2. Protected(child[o])
    BY <1>1, <2>1 DEF KidsOK
  <2> QED
    BY <2>2 DEF Protected
<1> QED
  BY <1>1 DEF KidsOK

LEMMA StepKids ==
    ASSUME OneThread
    PROVE  HeapInv /\ Good /\ KidsOK /\ Shallow /\ [Next]_vars => KidsOK'
<1> SUFFICES ASSUME HeapInv, Good, KidsOK, Shallow, [Next]_vars PROVE KidsOK'
  OBVIOUS
<1> USE DEF heapVars, flagVars, listVars, graveVars, walkVars, callVars, ghostVars
<1>0. /\ TypeOK /\ CallOK /\ LocalGrace /\ ListsOK
      /\ Loop \in Threads /\ pc \in [Threads -> CallPoints \cup {"idle", "walk", "test"}]
      /\ arg \in [Threads -> Known] /\ val \in [Threads -> Known]
      /\ used \subseteq Addr /\ Nil \notin Addr
      /\ \A o \in Addr : Named(o) => o \in used \ dead
  BY NamedAlive, HeapAssumption DEF HeapInv, IInv, AgesOK, TypeOK, Threads
<1>r. ASSUME Return(Loop) PROVE pc'[Loop] = "idle" /\ (val[Loop] = Nil => val' = val)
  BY <1>0, <1>r DEF Return, Goto
<1>1. ASSUME Freeze \/ UNCHANGED vars \/ Boundary \/ WalkUnlink \/ WalkEnd
      PROVE  KidsOK'
  <2>1. UNCHANGED <<used, dead, immortal, pinned, child, dangling, globals>>
    BY <1>1 DEF Freeze, vars, Boundary, WalkUnlink, WalkEnd
  <2>2. \/ UNCHANGED <<pc, arg, val>>
        \/ /\ pc[Loop] \notin {"pinKids", "pinChild"}
           /\ pc'[Loop] \notin {"pinKids", "pinChild"}
    <3>1. CASE Freeze \/ UNCHANGED vars
      BY <3>1 DEF Freeze, vars
    <3>2. CASE Boundary
      BY <1>0, <3>2 DEF Boundary, Goto
    <3>3. CASE WalkUnlink
      BY <1>0, <3>3 DEF WalkUnlink, Goto
    <3>4. CASE WalkEnd
      BY <1>0, <1>r, <3>4 DEF WalkEnd
    <3> QED
      BY <1>1, <3>1, <3>2, <3>3, <3>4
  <2>3. \A o : (Outlives(o)' <=> Outlives(o)) /\ (Protected(o)' <=> Protected(o))
               /\ (PinDue(o)' <=> PinDue(o))
    BY <2>1, <2>2 DEF Outlives, Protected, PinDue
  <2> QED
    BY <2>1, <2>2, <2>3 DEF KidsOK
<1>2. ASSUME WalkTest PROVE KidsOK'
  <2>1. /\ pc[Loop] = "test" /\ pc'[Loop] = "walk" /\ cursor \in Addr
        /\ UNCHANGED <<used, immortal, pinned, globals>>
    BY <1>0, <1>2 DEF WalkTest, Goto, ListsOK
  <2>2. CASE UNCHANGED <<dead, child, dangling>>
    BY <2>1, <2>2 DEF KidsOK, Outlives, Protected, PinDue
  <2>3. CASE Empty(cursor)
    <3>1. /\ dead' = dead \cup {cursor}
          /\ child'[cursor] = Nil /\ \A p \in Addr \ {cursor} : child'[p] = child[p]
          /\ dangling' = (dangling \cup {p \in Addr : child[p] = cursor}) \ {cursor}
          /\ Nil \notin dead'
      BY <1>0, <2>1, <2>3 DEF Empty, TypeOK
    <3>2. \A p \in Addr \ dangling' : p = cursor
             \/ (p \notin dangling /\ child'[p] = child[p] /\ child[p] # cursor)
      BY <3>1
    <3>3. \A p \in Addr \ dangling' : child'[p] \notin dead'
      BY <3>1, <3>2 DEF KidsOK
    <3>4. \A o \in Addr \ dangling' :
             Outlives(o)' /\ child'[o] # Nil => Protected(child[o]) /\ child'[o] = child[o]
      BY <2>1, <3>1, <3>2 DEF KidsOK, Outlives, Protected, PinDue
    <3> QED
      BY <2>1, <3>3, <3>4 DEF KidsOK, Protected
  <2> QED
    BY <1>2, <2>2, <2>3 DEF WalkTest, Tombstone
<1>3. ASSUME NEW ty \in Types, NewObj(Loop, ty) PROVE KidsOK'
  <2>1. PICK o \in Addr :
          /\ Allocate(o)
          /\ used' = used \cup {o}
          /\ immortal' = IF started THEN immortal \ {o} ELSE immortal \cup {o}
          /\ pinned' = pinned \ {o}
          /\ dead' = dead \ {o}
          /\ globals' = [globals EXCEPT ![o] = 0]
          /\ child' = [child EXCEPT ![o] = Nil]
          /\ dangling' = dangling \ {o}
    BY <1>3 DEF NewObj
  <2>2. pc[Loop] = "idle" /\ UNCHANGED <<pc, arg, val>>
    BY <1>3 DEF NewObj
  <2>3. o \in dead \/ o \notin used
    <3>1. CASE pool # <<>> /\ o = Head(pool)
      <4>1. o \in Members(pool)
        BY <1>0, <3>1 DEF Members, TypeOK
      <4> QED
        BY <4>1 DEF HeapInv, IInv, QuarantineOnce
    <3> QED
      BY <2>1, <3>1 DEF Allocate
  <2>4. /\ child'[o] = Nil /\ \A p \in Addr \ {o} : child'[p] = child[p]
        /\ \A p \in Addr \ {o} : globals'[p] = globals[p]
        /\ \A p \in Addr : child[p] \in used \/ child[p] = Nil
        /\ Nil \notin dead'
    BY <1>0, <2>1 DEF TypeOK, Known
  <2>5. \A p \in Addr \ dangling' : child'[p] \notin dead'
    BY <2>1, <2>4 DEF KidsOK
  <2>6. ASSUME NEW p \in Addr \ dangling', Outlives(p)', child'[p] # Nil
        PROVE  Protected(child[p])'
    <3>1. p # o /\ p \notin dangling /\ child'[p] = child[p]
      BY <2>1, <2>4, <2>6
    <3>2. child[p] # o
      BY <2>3, <2>4, <2>6, <3>1, <1>0 DEF KidsOK
    <3>3. Outlives(p) /\ ~PinDue(p)
      BY <2>1, <2>2, <2>4, <2>6, <3>1 DEF Outlives, Protected, PinDue
    <3>4. Protected(child[p])
      BY <2>6, <3>1, <3>3 DEF KidsOK
    <3> QED
      BY <2>1, <3>1, <3>2, <3>4 DEF Protected
  <2> QED
    BY <2>2, <2>5, <2>6 DEF KidsOK
<1>4. ASSUME NEW o \in Addr, NEW v \in Addr, SetChild(Loop, o, v) PROVE KidsOK'
  <2>1. v \in used \ dead /\ dangling' = dangling \ {o}
    BY <1>0, <1>4 DEF SetChild
  <2>2. /\ pc[Loop] = "idle" /\ pc'[Loop] = "pinChild" /\ arg'[Loop] = o /\ val'[Loop] = v
        /\ child'[o] = v /\ \A p \in Addr \ {o} : child'[p] = child[p]
        /\ UNCHANGED <<used, immortal, pinned, dead, globals>>
    BY <1>0, <1>4 DEF SetChild, Goto, TypeOK
  <2>3. \A p \in Addr \ dangling' : child'[p] \notin dead'
    BY <2>1, <2>2 DEF KidsOK
  <2>4. ASSUME NEW p \in Addr \ dangling', Outlives(p)', ~PinDue(p)', child'[p] # Nil
        PROVE  Protected(child[p]) /\ child'[p] = child[p]
    BY <2>1, <2>2, <2>4 DEF KidsOK, Outlives, Protected, PinDue
  <2> QED
    BY <2>2, <2>3, <2>4 DEF KidsOK, Protected
<1>5. ASSUME \/ PinKids(Loop) \/ PinChild(Loop) PROVE KidsOK'
  <2>1. /\ pc[Loop] \in {"pinKids", "pinChild"} /\ Return(Loop)
        /\ UNCHANGED <<used, dead, immortal, child, globals, dangling>>
    BY <1>5 DEF PinKids, PinChild
  <2>2. \/ pinned' = pinned \cup PinSet({child[arg[Loop]]})
        \/ pinned' = pinned /\ ~Outlives(arg[Loop])
    <3>1. CASE PinKids(Loop)
      BY <3>1 DEF PinKids
    <3>2. CASE PinChild(Loop)
      <4>1. val[Loop] = child[arg[Loop]]
        BY <3>2 DEF PinChild, KidsOK
      <4> QED
        BY <3>2, <4>1 DEF PinChild, Outlives
    <3> QED
      BY <1>5, <3>1, <3>2
  <2> QED
    BY <1>0, <2>1, <2>2, PinKidsKept
<1>6. ASSUME \/ \E o \in Addr : NewGlobalRef(Loop, o) \/ DeleteGlobalRef(Loop, o)
                                \/ Keep(Loop, o)
             \/ IncLoad(Loop) \/ IncStore(Loop) \/ DecLoad(Loop) \/ DecStore(Loop)
             \/ ArmTest(Loop) \/ ArmLocked(Loop)
      PROVE  KidsOK'
  <2> DEFINE Due(o) == pc'[Loop] = "pinKids" /\ arg'[Loop] = o
             Quiet  == /\ UNCHANGED <<used, dead, pinned, child, dangling>>
                       /\ pc[Loop] \notin {"pinKids", "pinChild"} /\ pc'[Loop] # "pinChild"
                       /\ immortal \subseteq immortal'
                       /\ \A o \in Addr : (o \in immortal' => o \in immortal) \/ Due(o)
                       /\ \A o \in Addr : (globals'[o] > 0 => globals[o] > 0) \/ Due(o)
  <2>1. ASSUME NEW o \in Addr, NewGlobalRef(Loop, o) \/ DeleteGlobalRef(Loop, o)
        PROVE  Quiet
    BY <1>0, <2>1 DEF NewGlobalRef, DeleteGlobalRef, Goto
  <2>2. ASSUME NEW o \in Addr, Keep(Loop, o) PROVE Quiet
    BY <1>0, <2>2 DEF Keep, Goto
  <2>3. ASSUME IncLoad(Loop) PROVE Quiet
    BY <1>0, <2>3 DEF IncLoad, Goto
  <2>4. ASSUME IncStore(Loop) PROVE Quiet
    <3>1. pc[Loop] = "incStore" /\ pc'[Loop] = "pinKids" /\ arg' = arg
      BY <1>0, <2>4 DEF IncStore, Goto
    <3>2. \A o \in Addr \ {arg[Loop]} : globals'[o] = globals[o]
      BY <1>0, <2>4 DEF IncStore, TypeOK
    <3> QED
      BY <2>4, <3>1, <3>2 DEF IncStore
  <2>5. ASSUME DecLoad(Loop) PROVE Quiet
    BY <1>0, <1>r, <2>5 DEF DecLoad, Goto
  <2>6. ASSUME DecStore(Loop) PROVE Quiet
    <3>1. /\ pc[Loop] = "decStore" /\ pc'[Loop] \in {"arm", "idle"}
          /\ arg[Loop] \in Addr /\ globals[arg[Loop]] > 0
      BY <1>0, <1>r, <2>6 DEF DecStore, Goto, CallOK, CallPoints, Good, Counts
    <3>2. \A o \in Addr \ {arg[Loop]} : globals'[o] = globals[o]
      BY <1>0, <2>6 DEF DecStore, TypeOK
    <3> QED
      BY <2>6, <3>1, <3>2 DEF DecStore
  <2>7. ASSUME ArmTest(Loop) \/ ArmLocked(Loop) PROVE Quiet
    BY <1>0, <1>r, <2>7 DEF ArmTest, ArmLocked, Goto
  <2>8. Quiet
    <3> HIDE DEF Quiet
    <3> QED
      BY <1>6, <2>1, <2>2, <2>3, <2>4, <2>5, <2>6, <2>7
  <2> QED
    BY <2>8, CallKidsKept
<1>7. ASSUME NEW t \in Threads, Call(t) \/ Continue(t) PROVE KidsOK'
  <2>1. t = Loop
    BY DEF OneThread, Threads
  <2> QED
    BY <1>3, <1>4, <1>5, <1>6, <1>7, <2>1 DEF Call, Continue
<1> QED
  BY <1>1, <1>2, <1>7 DEF Next, BoundaryStep

\* Under the invariant the sweep buries nothing that an object of its kind refers to.
LEMMA StepReached ==
    ASSUME OneThread, HeapInv, Good, KidsOK, Next,
           NEW o \in Addr \ dangling, Outlives(o), ~InCall(o), child'[o] = child[o]
    PROVE  o \notin dangling'
<1> USE DEF heapVars, flagVars, listVars, graveVars, walkVars, callVars, ghostVars
<1>0. /\ TypeOK /\ LocalGrace /\ Loop \in Threads /\ Nil \notin Addr
      /\ \A p \in Addr : Named(p) => p \in used \ dead
  BY NamedAlive, HeapAssumption DEF HeapInv, IInv, AgesOK, Threads
<1>1. CASE WalkTest
  <2>1. pc[Loop] = "test" /\ cursor \in Addr
    BY <1>0, <1>1 DEF WalkTest, HeapInv, ListsOK, TypeOK
  <2>2. child[o] # Nil => Protected(child[o])
    BY <2>1 DEF KidsOK, PinDue
  <2>3. CASE Collectible(cursor) /\ Empty(cursor)
    <3>1. child[o] # cursor
      BY <1>0, <2>1, <2>2, <2>3 DEF Collectible
    <3> QED
      BY <2>3, <3>1 DEF Empty
  <2>4. CASE UNCHANGED dangling
    BY <2>4
  <2> QED
    BY <1>1, <2>3, <2>4 DEF WalkTest, Tombstone
<1>2. ASSUME NEW p \in Addr, NEW v \in Addr, SetChild(Loop, p, v) PROVE o \notin dangling'
  BY <1>0, <1>2 DEF SetChild
<1>3. ASSUME NEW ty \in Types, NewObj(Loop, ty) PROVE o \notin dangling'
  BY <1>3 DEF NewObj
<1>4. CASE UNCHANGED dangling
  BY <1>4
<1>5. ASSUME Freeze \/ Boundary \/ WalkUnlink \/ WalkEnd PROVE UNCHANGED dangling
  BY <1>5 DEF Freeze, Boundary, WalkUnlink, WalkEnd
<1>6. ASSUME NEW t \in Threads, Call(t) \/ Continue(t) PROVE o \notin dangling'
  <2>1. t = Loop
    BY DEF OneThread, Threads
  <2>2. ASSUME \/ \E p \in Addr : \/ NewGlobalRef(Loop, p) \/ DeleteGlobalRef(Loop, p)
                                  \/ Keep(Loop, p)
               \/ Continue(Loop)
        PROVE  UNCHANGED dangling
    BY <2>2 DEF NewGlobalRef, DeleteGlobalRef, Keep, Continue, IncLoad, IncStore, PinKids,
                DecLoad, DecStore, ArmTest, ArmLocked, PinChild
  <2> QED
    BY <1>2, <1>3, <1>4, <1>6, <2>1, <2>2 DEF Call
<1> QED
  BY <1>1, <1>4, <1>5, <1>6 DEF Next, BoundaryStep

(***************************************************************************)
(* With one guest thread and no unprotected chain of references longer     *)
(* than jni_pin follows: once an object outlives its frame and no call on  *)
(* it is under way, no step collects what it refers to.                    *)
(***************************************************************************)
THEOREM ReachedIsKept == ASSUME OneThread PROVE Spec /\ []Shallow => ReachedKept
<1> DEFINE J == HeapInv /\ Good /\ KidsOK
           A == \A o \in Addr \ dangling :
                   Outlives(o) /\ ~InCall(o) /\ child'[o] = child[o] => o \notin dangling'
<1>1. Init => J
  <2>1. Init => KidsOK
    BY DEF Init, KidsOK, Outlives, Threads
  <2> QED
    BY <2>1, InitHeap, InitGood
<1>2. J /\ Shallow /\ [Next]_vars => J'
  BY StepGood, StepKids
<1>3. J /\ [Next]_vars => [A]_vars
  <2> SUFFICES ASSUME J, Next PROVE A
    OBVIOUS
  <2> QED
    BY StepReached
<1> HIDE DEF J
<1> QED
  BY <1>1, <1>2, <1>3, PTL DEF Spec, ReachedKept

-----------------------------------------------------------------------------
(* A quarantine with room for every structure hands none out again. *)

Roomy == IsFiniteSet(Addr) /\ Cardinality(Addr) <= QuarantineCap

\* A sequence that holds each element once is as long as the set of its elements.
LEMMA OnceLength ==
    ASSUME NEW A, IsFiniteSet(A), NEW s \in Seq(A), OnceIn(s)
    PROVE  Len(s) <= Cardinality(A)
<1> DEFINE f == [i \in 1 .. Len(s) |-> s[i]]
<1>1. Len(s) \in Nat /\ f \in [1 .. Len(s) -> A]
  OBVIOUS
<1>2. IsFiniteSet(1 .. Len(s)) /\ Cardinality(1 .. Len(s)) = Len(s)
  BY <1>1, FS_Interval
<1>3. Cardinality(A) \in Nat
  BY FS_CardinalityType
<1>4. SUFFICES ASSUME Cardinality(A) < Cardinality(1 .. Len(s)) PROVE FALSE
  BY <1>1, <1>2, <1>3
<1>5. \E x, y \in 1 .. Len(s) : x # y /\ f[x] = f[y]
  <2> HIDE DEF f
  <2> QED
    BY <1>1, <1>2, <1>4, FS_PigeonHole
<1> QED
  BY <1>5 DEF OnceIn

\* So it never overflows into the pool.
LEMMA StepRoomy ==
    ASSUME Roomy
    PROVE  IInv /\ pool = <<>> /\ [Next]_vars => (pool = <<>>)'
<1> SUFFICES ASSUME IInv, pool = <<>>, [Next]_vars PROVE pool' = <<>>
  OBVIOUS
<1> USE DEF heapVars, flagVars, listVars, graveVars, walkVars, callVars, ghostVars
<1>1. CASE WalkTest
  <2>1. CASE cursor \notin dead /\ Enqueue(cursor)
    <3>1. quarantine \in Seq(Addr) /\ cursor \in Addr /\ QuarantineCap \in Nat
      BY <1>1, HeapAssumption DEF IInv, TypeOK, CallOK, WalkTest
    <3>2. /\ Append(quarantine, cursor) \in Seq(Addr) /\ OnceIn(Append(quarantine, cursor))
      BY <2>1, <3>1, AppendOnce DEF IInv, QuarantineOnce
    <3>3. Len(Append(quarantine, cursor)) = Len(quarantine) + 1 /\ Len(quarantine) \in Nat
      BY <3>1
    <3>4. Len(Append(quarantine, cursor)) <= Cardinality(Addr)
      BY <3>2, OnceLength DEF Roomy
    <3>5. Cardinality(Addr) \in Nat
      BY FS_CardinalityType DEF Roomy
    <3>6. Len(quarantine) < QuarantineCap
      BY <3>1, <3>3, <3>4, <3>5 DEF Roomy
    <3> QED
      BY <2>1, <3>1, <3>6 DEF Enqueue
  <2>2. CASE UNCHANGED pool
    BY <2>2
  <2> QED
    BY <1>1, <2>1, <2>2 DEF WalkTest, Tombstone
<1>2. ASSUME NEW t \in Threads, NEW ty \in Types, NewObj(t, ty) PROVE pool' = <<>>
  BY <1>2 DEF NewObj, Allocate
<1>3. CASE UNCHANGED pool
  BY <1>3
<1>4. ASSUME Freeze \/ Boundary \/ WalkUnlink \/ WalkEnd \/ UNCHANGED vars
      PROVE  UNCHANGED pool
  BY <1>4 DEF Freeze, Boundary, WalkUnlink, WalkEnd, vars
<1>5. ASSUME NEW t \in Threads, Call(t) \/ Continue(t) PROVE pool' = <<>>
  <2>1. ASSUME \/ \E p \in Addr : \/ NewGlobalRef(t, p) \/ DeleteGlobalRef(t, p)
                                  \/ Keep(t, p) \/ \E v \in Addr : SetChild(t, p, v)
               \/ Continue(t)
        PROVE  UNCHANGED pool
    BY <2>1 DEF NewGlobalRef, DeleteGlobalRef, Keep, SetChild, Continue, IncLoad, IncStore,
                PinKids, DecLoad, DecStore, ArmTest, ArmLocked, PinChild
  <2> QED
    BY <1>2, <1>3, <1>5, <2>1 DEF Call
<1> QED
  BY <1>1, <1>3, <1>4, <1>5 DEF Next, BoundaryStep

(***************************************************************************)
(* For any number of guest threads: a quarantine with room for every       *)
(* structure of the heap keeps the buckets true, with no further           *)
(* hypothesis; that is what its size is for.                               *)
(***************************************************************************)
THEOREM BucketsTrueRoomy == ASSUME Roomy PROVE Spec => []BucketsTrue
<1> DEFINE J == HeapInv /\ pool = <<>>
<1>1. Init => J
  <2>1. Init => pool = <<>>
    BY DEF Init
  <2> QED
    BY <2>1, InitHeap
<1>2. J => PoolAtRest
  BY DEF PoolAtRest, Members
<1>3. J /\ [Next]_vars => J'
  <2>1. HeapInv => IInv
    BY DEF HeapInv
  <2> QED
    BY <1>2, <2>1, StepHeap, StepRoomy
<1>4. J => BucketsTrue
  BY HeapInvBuckets
<1> HIDE DEF J
<1> QED
  BY <1>1, <1>3, <1>4, PTL DEF Spec

=============================================================================
