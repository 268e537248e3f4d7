---------------------------- MODULE PadSetProofs -----------------------------
(***************************************************************************)
(* Proofs about PadSet, for any set of instances, any number of pads and   *)
(* any window: the safety of what the pre-router makes of SELECT and       *)
(* START, and when the exit is requested.  The invariant speaks of one pad *)
(* at a time, so the work is in lemmas about the operators of Prerouter.   *)
(***************************************************************************)
EXTENDS PadSet, WellFoundedInduction, TLAPS

(***************************************************************************)
(* What every operator of the pre-router keeps of an edge: its press and   *)
(* release in flight, and the press that is still accounted for.           *)
(***************************************************************************)
EdgeOK(p, e) ==
    /\ p.fwd[e] <=> p.state[e] = "forwarded" \/ p.owed[e] # 0
    /\ p.state[e] = "forwarded" => p.owed[e] = 0
    /\ p.flight[e] = IF p.fwd[e] THEN 1 ELSE 0
    /\ p.debt[e] = IF p.state[e] = "retained" THEN 1 ELSE 0

(***************************************************************************)
(* A tap that the sample has forwarded still owes its release, n ticks on. *)
(***************************************************************************)
Shown(p, n) == \A e \in Edges : p.sent[e] = "tap" => p.owed[e] = n

PadOK(p, n) == p \in PadType /\ Shown(p, n) /\ \A e \in Edges : EdgeOK(p, e)

(***************************************************************************)
(* What holds an edge fits whether it is physically down, and one edge at  *)
(* most is retained.                                                       *)
(***************************************************************************)
HeldOK(p, e, down) ==
    IF down THEN p.state[e] # "idle" /\ ~p.tapped[e]
    ELSE p.state[e] = "idle" \/ (p.state[e] = "retained" /\ p.tapped[e])

OrderOK(p) == \E e \in Edges : p.state[e] # "retained"

PadInv(p, held, n) ==
    /\ PadOK(p, n)
    /\ \A e \in Edges : HeldOK(p, e, e \in held)
    /\ OrderOK(p)

-----------------------------------------------------------------------------
(* The operators of Prerouter, one pad at a time.                          *)

LEMMA FlushOwedOK ==
    ASSUME NEW p \in PadType, NEW e \in Edges, \A x \in Edges : EdgeOK(p, x)
    PROVE  LET q == FlushOwed(p, e) IN
           /\ q \in PadType
           /\ \A x \in Edges : EdgeOK(q, x)
           /\ q.owed = [p.owed EXCEPT ![e] = 0]
           /\ q.state = p.state /\ q.tapped = p.tapped /\ q.sent = p.sent
<1> DEFINE q == FlushOwed(p, e)
<1>1. CASE p.owed[e] = 0
    BY <1>1 DEF FlushOwed, PadType
<1>2. CASE p.owed[e] # 0
    <2>1. p.fwd[e] = TRUE /\ p.flight[e] = 1
        BY <1>2 DEF EdgeOK, PadType
    <2>2. q = [p EXCEPT !.fwd[e] = FALSE, !.flight[e] = 0, !.owed[e] = 0]
        BY <1>2, <2>1 DEF FlushOwed, Forward, PadType
    <2>3. q \in PadType
        <3>1. /\ [p.fwd EXCEPT ![e] = FALSE] \in [Edges -> BOOLEAN]
              /\ [p.flight EXCEPT ![e] = 0] \in [Edges -> Int]
              /\ [p.owed EXCEPT ![e] = 0] \in [Edges -> 0..2]
            BY DEF PadType
        <3>2. q = [p EXCEPT !.fwd = [p.fwd EXCEPT ![e] = FALSE],
                            !.flight = [p.flight EXCEPT ![e] = 0],
                            !.owed = [p.owed EXCEPT ![e] = 0]]
            BY <2>2
        <3> QED BY <3>1, <3>2, Zenon DEF PadType
    <2>4. p.state[e] # "forwarded"
        BY <1>2 DEF EdgeOK
    <2> QED
        BY <2>2, <2>3, <2>4 DEF EdgeOK, PadType
<1> QED BY <1>1, <1>2

LEMMA FlushEdgeOK ==
    ASSUME NEW p, NEW e \in Edges, NEW n \in {1, 2}, PadOK(p, n)
    PROVE  LET q == FlushEdge(p, e, n) IN
           /\ PadOK(q, n)
           /\ IF p.state[e] # "retained" THEN q.state = p.state /\ q.tapped = p.tapped
              ELSE /\ q.state = [p.state EXCEPT ![e] =
                                    IF p.tapped[e] THEN "idle" ELSE "forwarded"]
                   /\ q.tapped = [p.tapped EXCEPT ![e] = FALSE]
<1> DEFINE q == FlushEdge(p, e, n)
<1>1. CASE p.state[e] # "retained"
    BY <1>1 DEF FlushEdge
<1>2. CASE p.state[e] = "retained"
    <2> DEFINE r == FlushOwed(p, e)
    <2>1. /\ r \in PadType
          /\ \A x \in Edges : EdgeOK(r, x)
          /\ \A x \in Edges \ {e} : r.sent[x] = "tap" => r.owed[x] = n
          /\ r.owed[e] = 0 /\ r.state = p.state /\ r.tapped = p.tapped
        <3>1. /\ r \in PadType /\ \A x \in Edges : EdgeOK(r, x)
              /\ r.owed = [p.owed EXCEPT ![e] = 0]
              /\ r.state = p.state /\ r.tapped = p.tapped /\ r.sent = p.sent
            BY FlushOwedOK DEF PadOK
        <3> HIDE DEF r
        <3> QED BY <3>1 DEF PadOK, PadType, Shown
    <2> HIDE DEF r
    <2>2. r.flight[e] = 0 /\ r.debt[e] = 1
        BY <1>2, <2>1 DEF EdgeOK
    <2> DEFINE fwd == [r.fwd EXCEPT ![e] = TRUE]
               flight == [r.flight EXCEPT ![e] = 1]
               debt == [r.debt EXCEPT ![e] = 0]
               age == [r.age EXCEPT ![e] = 0]
               tapped == [r.tapped EXCEPT ![e] = FALSE]
               state == [r.state EXCEPT ![e] = IF p.tapped[e] THEN "idle" ELSE "forwarded"]
               owed == [r.owed EXCEPT ![e] = IF p.tapped[e] THEN n ELSE 0]
               sent == [r.sent EXCEPT ![e] = IF p.tapped[e] THEN "tap" ELSE "press"]
    <2>b. Forward(r, e, TRUE) = [r EXCEPT !.fwd = fwd, !.flight = flight]
        BY <2>1, <2>2 DEF Forward, PadType
    <2>c. [Forward(r, e, TRUE) EXCEPT !.debt[e] = @ - 1, !.age[e] = 0, !.tapped[e] = FALSE]
            = [r EXCEPT !.fwd = fwd, !.flight = flight, !.debt = debt, !.age = age,
                        !.tapped = tapped]
        <3>1. r.debt[e] - 1 = 0
            BY <2>2
        <3> QED BY <2>1, <2>b, <3>1 DEF PadType
    <2>3. q = [r EXCEPT !.fwd = fwd, !.flight = flight, !.debt = debt, !.age = age,
                        !.tapped = tapped, !.state = state, !.owed = owed, !.sent = sent]
        <3>1. CASE p.tapped[e]
            BY <1>2, <2>1, <2>c, <3>1 DEF FlushEdge, PadType, r
        <3>2. CASE ~p.tapped[e]
            <4>1. owed = r.owed
                BY <2>1, <3>2 DEF PadType
            <4>2. q = [r EXCEPT !.fwd = fwd, !.flight = flight, !.debt = debt, !.age = age,
                                !.tapped = tapped, !.state = state, !.sent = sent]
                BY <1>2, <2>1, <2>c, <3>2 DEF FlushEdge, PadType, r
            <4> HIDE DEF q, fwd, flight, debt, age, tapped, state, sent, owed
            <4> QED BY <2>1, <4>1, <4>2 DEF PadType
        <3> QED BY <3>1, <3>2
    <2>4. q \in PadType
        <3>1. /\ fwd \in [Edges -> BOOLEAN] /\ tapped \in [Edges -> BOOLEAN]
              /\ age \in [Edges -> 0..Window + 1]
            <4>1. 0 \in 0..Window + 1
                BY WindowAssumption
            <4> QED BY <2>1, <4>1, Zenon DEF PadType
        <3>2. state \in [Edges -> States] /\ sent \in [Edges -> {"none", "tap", "press"}]
            BY <2>1 DEF PadType, States
        <3>3. owed \in [Edges -> 0..2] /\ debt \in [Edges -> Int] /\ flight \in [Edges -> Int]
            BY <2>1 DEF PadType
        <3>4. r \in PadType
            BY <2>1
        <3> HIDE DEF q, fwd, flight, debt, age, tapped, state, sent, owed
        <3> QED BY <2>3, <3>1, <3>2, <3>3, <3>4 DEF PadType
    <2>5. \A x \in Edges : EdgeOK(q, x)
        BY <2>1, <2>3 DEF EdgeOK, PadType
    <2>6. Shown(q, n)
        BY <2>1, <2>3 DEF Shown, PadType
    <2> QED BY <1>2, <2>1, <2>3, <2>4, <2>5, <2>6 DEF PadOK
<1> QED BY <1>1, <1>2

LEMMA ChordOK ==
    ASSUME NEW p, NEW e \in Edges, PadOK(p, 2), p.state[e] = "idle",
           p.state[Other(e)] = "retained"
    PROVE  LET q == Chord(p, e) IN
           /\ PadOK(q, 2)
           /\ q.state = [x \in Edges |-> "consumed"] /\ q.tapped = [x \in Edges |-> FALSE]
<1> DEFINE q == Chord(p, e)
           o == Other(e)
           debt == [p.debt EXCEPT ![o] = 0]
           state == [x \in Edges |-> "consumed"]
           age == [x \in Edges |-> 0]
           tapped == [x \in Edges |-> FALSE]
<1>1. o \in Edges /\ o # e
    BY DEF Other, Edges, SELECT, START
<1>2. p.debt[o] - 1 = 0
    BY <1>1 DEF PadOK, EdgeOK
<1>3. q = [p EXCEPT !.state = state, !.debt = debt, !.age = age, !.tapped = tapped]
    BY <1>1, <1>2 DEF Chord, PadOK, PadType
<1>4. /\ state \in [Edges -> States] /\ age \in [Edges -> 0..Window + 1]
      /\ debt \in [Edges -> Int]
    <2>1. state \in [Edges -> States]
        BY DEF States
    <2>2. age \in [Edges -> 0..Window + 1]
        BY WindowAssumption
    <2>3. debt \in [Edges -> Int]
        BY <1>1 DEF PadOK, PadType
    <2> QED BY <2>1, <2>2, <2>3
<1>5. tapped \in [Edges -> BOOLEAN]
    BY Zenon
<1> HIDE DEF q, o, debt, age
<1>6. q \in PadType
    BY <1>3, <1>4, <1>5, Zenon DEF PadOK, PadType
<1>7. /\ q.fwd = p.fwd /\ q.owed = p.owed /\ q.flight = p.flight /\ q.sent = p.sent
      /\ q.debt = debt /\ q.state = state /\ q.tapped = tapped
    BY <1>3 DEF PadOK, PadType
<1>8. \A x \in Edges : EdgeOK(q, x)
    <2> TAKE x \in Edges
    <2>1. EdgeOK(p, x) /\ p.state[x] # "forwarded"
        BY <1>1 DEF PadOK, o, Edges, SELECT, START, Other
    <2>2. q.debt[x] = 0
        <3>1. CASE x = o
            BY <1>1, <1>7, <3>1 DEF debt, PadOK, PadType
        <3>2. CASE x # o
            <4>1. x = e
                BY <3>2 DEF o, Edges, SELECT, START, Other
            <4> QED BY <1>1, <1>7, <2>1, <4>1 DEF debt, PadOK, PadType, EdgeOK
        <3> QED BY <3>1, <3>2
    <2> QED BY <1>7, <2>1, <2>2 DEF EdgeOK
<1> QED BY <1>6, <1>7, <1>8 DEF PadOK, Shown, q

LEMMA RetainOK ==
    ASSUME NEW p, NEW e \in Edges, PadOK(p, 2), p.state[e] = "idle"
    PROVE  LET q == Retain(p, e) IN
           /\ PadOK(q, 2)
           /\ q.state = [p.state EXCEPT ![e] = "retained"]
           /\ q.tapped = [p.tapped EXCEPT ![e] = FALSE]
<1> DEFINE q == Retain(p, e)
           state == [p.state EXCEPT ![e] = "retained"]
           debt == [p.debt EXCEPT ![e] = 1]
           age == [p.age EXCEPT ![e] = 0]
           tapped == [p.tapped EXCEPT ![e] = FALSE]
<1>1. p.debt[e] + 1 = 1
    BY DEF PadOK, EdgeOK
<1>2. q = [p EXCEPT !.state = state, !.debt = debt, !.age = age, !.tapped = tapped]
    BY <1>1 DEF Retain, PadOK, PadType
<1>3. /\ state \in [Edges -> States] /\ age \in [Edges -> 0..Window + 1]
      /\ debt \in [Edges -> Int]
    BY WindowAssumption DEF States, PadOK, PadType
<1>4. tapped \in [Edges -> BOOLEAN]
    BY Zenon DEF PadOK, PadType
<1> HIDE DEF q
<1>5. q \in PadType
    BY <1>2, <1>3, <1>4, Zenon DEF PadOK, PadType
<1>6. /\ q.fwd = p.fwd /\ q.owed = p.owed /\ q.flight = p.flight /\ q.sent = p.sent
      /\ q.debt = debt /\ q.state = state /\ q.tapped = tapped
    BY <1>2 DEF PadOK, PadType
<1>7. \A x \in Edges : EdgeOK(q, x)
    BY <1>6 DEF PadOK, PadType, EdgeOK
<1> QED BY <1>5, <1>6, <1>7 DEF PadOK, Shown, q

LEMMA PressOK ==
    ASSUME NEW p, NEW e \in Edges, NEW held \in SUBSET Edges, e \notin held,
           PadInv(p, held, 2)
    PROVE  PadInv(Press(p, e), held \cup {e}, 2)
<1> DEFINE o == Other(e)
           again == p.state[e] = "retained" /\ p.tapped[e]
           clear == IF again THEN FlushEdge(p, e, 2) ELSE p
           q == Press(p, e)
<1>1. o \in Edges /\ o # e /\ Edges = {e, o}
    BY DEF Other, Edges, SELECT, START
<1>2. /\ PadOK(clear, 2) /\ clear.state[e] = "idle"
      /\ clear.state[o] = p.state[o] /\ clear.tapped[o] = p.tapped[o]
    <2>1. CASE again
        <3>1. PadOK(p, 2) /\ p.state[e] = "retained" /\ p.tapped[e]
            BY <2>1 DEF PadInv
        <3>2. /\ PadOK(clear, 2)
              /\ clear.state = [p.state EXCEPT ![e] = "idle"]
              /\ clear.tapped = [p.tapped EXCEPT ![e] = FALSE]
            BY <2>1, <3>1, FlushEdgeOK
        <3> HIDE DEF clear
        <3> QED BY <1>1, <3>1, <3>2 DEF PadOK, PadType
    <2>2. CASE ~again
        BY <2>2 DEF PadInv, HeldOK
    <2> QED BY <2>1, <2>2
<1>3. HeldOK(p, o, o \in held)
    BY <1>1 DEF PadInv
<1>4. q = IF CompletesChord(clear, e) THEN Chord(clear, e)
          ELSE Retain(FlushEdge(clear, o, 2), e)
    BY <1>2 DEF Press
<1> HIDE DEF q, clear, o
<1>5. CASE CompletesChord(clear, e)
    <2>1. clear.state[o] = "retained" /\ ~clear.tapped[o]
        BY <1>5 DEF CompletesChord, o
    <2>2. /\ PadOK(q, 2)
          /\ q.state = [x \in Edges |-> "consumed"] /\ q.tapped = [x \in Edges |-> FALSE]
        BY <1>2, <1>4, <1>5, <2>1, ChordOK DEF o
    <2>3. o \in held
        BY <1>2, <1>3, <2>1 DEF HeldOK
    <2>4. \A x \in Edges : x \in held \cup {e}
        BY <1>1, <2>3
    <2>5. \A x \in Edges : HeldOK(q, x, x \in held \cup {e})
        BY <2>2, <2>4 DEF HeldOK
    <2>6. OrderOK(q)
        BY <2>2 DEF OrderOK
    <2> QED BY <2>2, <2>5, <2>6 DEF PadInv, q
<1>6. CASE ~CompletesChord(clear, e)
    <2> DEFINE r == FlushEdge(clear, o, 2)
    <2>1. /\ PadOK(r, 2)
          /\ IF clear.state[o] # "retained" THEN r.state = clear.state /\ r.tapped = clear.tapped
             ELSE /\ r.state = [clear.state EXCEPT ![o] =
                                   IF clear.tapped[o] THEN "idle" ELSE "forwarded"]
                  /\ r.tapped = [clear.tapped EXCEPT ![o] = FALSE]
        BY <1>1, <1>2, FlushEdgeOK
    <2> HIDE DEF r
    <2>2. r.state[e] = "idle" /\ r.state[o] # "retained"
        BY <1>1, <1>2, <2>1 DEF PadOK, PadType
    <2>3. /\ PadOK(q, 2)
          /\ q.state = [r.state EXCEPT ![e] = "retained"]
          /\ q.tapped = [r.tapped EXCEPT ![e] = FALSE]
        BY <1>4, <1>6, <2>1, <2>2, RetainOK DEF r
    <2>4. HeldOK(q, e, TRUE)
        BY <2>1, <2>3 DEF HeldOK, PadOK, PadType
    <2>5. HeldOK(q, o, o \in held)
        <3>1. q.state[o] = r.state[o] /\ q.tapped[o] = r.tapped[o]
            BY <1>1, <2>1, <2>3 DEF PadOK, PadType
        <3>2. CASE clear.state[o] # "retained"
            BY <1>2, <1>3, <2>1, <3>1, <3>2 DEF HeldOK
        <3>3. CASE clear.state[o] = "retained"
            BY <1>1, <1>2, <1>3, <2>1, <3>1, <3>3 DEF HeldOK, PadOK, PadType
        <3> QED BY <3>2, <3>3
    <2>6. OrderOK(q)
        BY <1>1, <2>1, <2>2, <2>3 DEF OrderOK, PadOK, PadType
    <2>7. \A x \in Edges : HeldOK(q, x, x \in held \cup {e})
        <3>1. (e \in held \cup {e}) = TRUE
            OBVIOUS
        <3>2. (o \in held \cup {e}) = (o \in held)
            BY <1>1
        <3> QED BY <1>1, <2>4, <2>5, <3>1, <3>2
    <2> QED BY <2>3, <2>6, <2>7 DEF PadInv, q
<1> QED BY <1>5, <1>6 DEF q

LEMMA ReleaseOK ==
    ASSUME NEW p, NEW e \in Edges, NEW held \in SUBSET Edges, e \in held,
           PadInv(p, held, 2)
    PROVE  PadInv(Release(p, e), held \ {e}, 2)
<1> DEFINE q == Release(p, e)
<1>0. p \in PadType /\ HeldOK(p, e, TRUE)
    BY DEF PadInv, PadOK
<1>1. CASE p.state[e] = "retained"
    <2> DEFINE tapped == [p.tapped EXCEPT ![e] = TRUE]
    <2>1. q = [p EXCEPT !.tapped = tapped]
        BY <1>1 DEF Release
    <2>2. tapped \in [Edges -> BOOLEAN]
        BY <1>0, Zenon DEF PadType
    <2>3. q \in PadType
        BY <1>0, <2>1, <2>2, Zenon DEF PadType
    <2>4. /\ q.fwd = p.fwd /\ q.owed = p.owed /\ q.flight = p.flight /\ q.sent = p.sent
          /\ q.debt = p.debt /\ q.state = p.state /\ q.tapped = tapped
        BY <1>0, <2>1 DEF PadType
    <2> HIDE DEF q
    <2>5. \A x \in Edges : EdgeOK(q, x)
        BY <1>0, <1>1, <2>4 DEF PadInv, PadOK, EdgeOK, PadType
    <2>6. \A x \in Edges : HeldOK(q, x, x \in held \ {e})
        BY <1>0, <1>1, <2>4 DEF PadInv, HeldOK, PadType
    <2>7. Shown(q, 2)
        BY <2>4 DEF PadInv, PadOK, Shown
    <2>8. OrderOK(q)
        BY <1>0, <1>1, <2>4 DEF PadInv, OrderOK, PadType
    <2> QED BY <2>3, <2>5, <2>6, <2>7, <2>8 DEF PadInv, PadOK, q
<1>2. CASE p.state[e] = "forwarded"
    <2> DEFINE fwd == [p.fwd EXCEPT ![e] = FALSE]
               flight == [p.flight EXCEPT ![e] = 0]
               state == [p.state EXCEPT ![e] = "idle"]
    <2>1. p.flight[e] + (-1) = 0
        BY <1>2 DEF PadInv, PadOK, EdgeOK
    <2>2. q = [p EXCEPT !.fwd = fwd, !.flight = flight, !.state = state]
        BY <1>0, <1>2, <2>1 DEF Release, Forward, PadType
    <2>3. fwd \in [Edges -> BOOLEAN]
        BY <1>0, Zenon DEF PadType
    <2>4. state \in [Edges -> States] /\ flight \in [Edges -> Int]
        BY <1>0 DEF PadType, States
    <2>5. q \in PadType
        BY <1>0, <2>2, <2>3, <2>4, Zenon DEF PadType
    <2>6. /\ q.fwd = fwd /\ q.owed = p.owed /\ q.flight = flight /\ q.sent = p.sent
          /\ q.debt = p.debt /\ q.state = state /\ q.tapped = p.tapped
        BY <1>0, <2>2 DEF PadType
    <2> HIDE DEF q
    <2>7. \A x \in Edges : EdgeOK(q, x)
        BY <1>0, <1>2, <2>6 DEF PadInv, PadOK, EdgeOK, PadType
    <2>8. \A x \in Edges : HeldOK(q, x, x \in held \ {e})
        BY <1>0, <1>2, <2>6 DEF PadInv, HeldOK, PadType
    <2>9. Shown(q, 2)
        BY <2>6 DEF PadInv, PadOK, Shown
    <2>10. OrderOK(q)
        BY <1>0, <1>2, <2>6 DEF PadInv, OrderOK, PadType
    <2> QED BY <2>5, <2>7, <2>8, <2>9, <2>10 DEF PadInv, PadOK, q
<1>3. CASE p.state[e] = "consumed"
    <2> DEFINE state == [p.state EXCEPT ![e] = "idle"]
    <2>1. q = [p EXCEPT !.state = state]
        BY <1>3 DEF Release
    <2>2. state \in [Edges -> States]
        BY <1>0 DEF PadType, States
    <2>3. q \in PadType
        BY <1>0, <2>1, <2>2, Zenon DEF PadType
    <2>4. /\ q.fwd = p.fwd /\ q.owed = p.owed /\ q.flight = p.flight /\ q.sent = p.sent
          /\ q.debt = p.debt /\ q.state = state /\ q.tapped = p.tapped
        BY <1>0, <2>1 DEF PadType
    <2> HIDE DEF q
    <2>5. \A x \in Edges : EdgeOK(q, x)
        BY <1>0, <1>3, <2>4 DEF PadInv, PadOK, EdgeOK, PadType
    <2>6. \A x \in Edges : HeldOK(q, x, x \in held \ {e})
        BY <1>0, <1>3, <2>4 DEF PadInv, HeldOK, PadType
    <2>7. Shown(q, 2)
        BY <2>4 DEF PadInv, PadOK, Shown
    <2>8. OrderOK(q)
        BY <1>0, <1>3, <2>4 DEF PadInv, OrderOK, PadType
    <2> QED BY <2>3, <2>5, <2>6, <2>7, <2>8 DEF PadInv, PadOK, q
<1>4. p.state[e] \in {"retained", "forwarded", "consumed"}
    BY <1>0 DEF PadType, States, HeldOK
<1> QED BY <1>1, <1>2, <1>3, <1>4

LEMMA PayOwedOK ==
    ASSUME NEW p \in PadType, NEW e \in Edges, \A x \in Edges : EdgeOK(p, x),
           p.sent[e] = "tap" => p.owed[e] = 2
    PROVE  LET q == PayOwed(p, e) IN
           /\ q \in PadType /\ \A x \in Edges : EdgeOK(q, x)
           /\ q.sent[e] = "tap" => q.owed[e] = 1
           /\ \A x \in Edges \ {e} : q.owed[x] = p.owed[x]
           /\ q.state = p.state /\ q.tapped = p.tapped /\ q.sent = p.sent
<1> DEFINE q == PayOwed(p, e)
<1>1. CASE p.owed[e] = 2
    <2> DEFINE owed == [p.owed EXCEPT ![e] = 1]
    <2>1. q = [p EXCEPT !.owed = owed]
        BY <1>1 DEF PayOwed
    <2>2. owed \in [Edges -> 0..2]
        BY DEF PadType
    <2>3. q \in PadType
        BY <2>1, <2>2, Zenon DEF PadType
    <2>4. /\ q.fwd = p.fwd /\ q.owed = owed /\ q.flight = p.flight /\ q.sent = p.sent
          /\ q.debt = p.debt /\ q.state = p.state /\ q.tapped = p.tapped
        BY <2>1 DEF PadType
    <2> HIDE DEF q
    <2>5. \A x \in Edges : EdgeOK(q, x)
        BY <1>1, <2>4 DEF EdgeOK, PadType
    <2> QED BY <2>3, <2>4, <2>5 DEF PadType, q
<1>2. CASE p.owed[e] # 2
    <2>1. q = FlushOwed(p, e) /\ p.sent[e] # "tap"
        BY <1>2 DEF PayOwed
    <2>2. /\ q \in PadType /\ \A x \in Edges : EdgeOK(q, x)
          /\ q.owed = [p.owed EXCEPT ![e] = 0]
          /\ q.state = p.state /\ q.tapped = p.tapped /\ q.sent = p.sent
        BY <2>1, FlushOwedOK
    <2> HIDE DEF q
    <2> QED BY <2>1, <2>2 DEF PadType, q
<1> QED BY <1>1, <1>2

LEMMA ExpireOK ==
    ASSUME NEW p, NEW e \in Edges, NEW held, PadInv(p, held, 1)
    PROVE  PadInv(Expire(p, e), held, 1)
<1> DEFINE q == FlushEdge(p, e, 1)
<1>1. /\ PadOK(q, 1)
      /\ IF p.state[e] # "retained" THEN q.state = p.state /\ q.tapped = p.tapped
         ELSE /\ q.state = [p.state EXCEPT ![e] = IF p.tapped[e] THEN "idle" ELSE "forwarded"]
              /\ q.tapped = [p.tapped EXCEPT ![e] = FALSE]
    BY FlushEdgeOK DEF PadInv
<1> HIDE DEF q
<1>2. \A x \in Edges : HeldOK(p, x, x \in held)
    BY DEF PadInv
<1>3. PadInv(q, held, 1)
    <2>1. CASE p.state[e] # "retained"
        BY <1>1, <2>1 DEF PadInv, HeldOK, OrderOK
    <2>2. CASE p.state[e] = "retained"
        <3>1. ASSUME NEW x \in Edges \ {e} PROVE HeldOK(q, x, x \in held)
            BY <1>1, <1>2, <2>2, <3>1 DEF HeldOK, PadInv, PadOK, PadType
        <3>2. HeldOK(q, e, e \in held)
            BY <1>1, <1>2, <2>2 DEF HeldOK, PadInv, PadOK, PadType
        <3>3. OrderOK(q)
            BY <1>1, <2>2 DEF OrderOK, PadInv, PadOK, PadType
        <3> QED BY <1>1, <3>1, <3>2, <3>3 DEF PadInv
    <2> QED BY <2>1, <2>2
<1> QED BY <1>3 DEF Expire, q

LEMMA TickOK ==
    ASSUME NEW p, NEW held, PadInv(p, held, 2)
    PROVE  PadInv(Tick(p), held, 1)
<1> DEFINE one == PayOwed(p, SELECT)
           two == PayOwed(one, START)
           first == IF two.age[START] > two.age[SELECT] THEN START ELSE SELECT
<1>0. SELECT \in Edges /\ START \in Edges /\ SELECT # START /\ Edges = {SELECT, START}
    BY DEF Edges, SELECT, START
<1>1. /\ one \in PadType /\ \A x \in Edges : EdgeOK(one, x)
      /\ one.sent[SELECT] = "tap" => one.owed[SELECT] = 1
      /\ one.owed[START] = p.owed[START]
      /\ one.state = p.state /\ one.tapped = p.tapped /\ one.sent = p.sent
    BY <1>0, PayOwedOK DEF PadInv, PadOK, Shown
<1> HIDE DEF one
<1>2. /\ two \in PadType /\ \A x \in Edges : EdgeOK(two, x)
      /\ two.sent[START] = "tap" => two.owed[START] = 1
      /\ two.owed[SELECT] = one.owed[SELECT]
      /\ two.state = one.state /\ two.tapped = one.tapped /\ two.sent = one.sent
    <2>1. one.sent[START] = "tap" => one.owed[START] = 2
        BY <1>0, <1>1 DEF PadInv, PadOK, Shown
    <2> QED BY <1>0, <1>1, <2>1, PayOwedOK
<1> HIDE DEF two
<1>3. PadInv(two, held, 1)
    <2>1. Shown(two, 1)
        BY <1>0, <1>1, <1>2 DEF Shown
    <2> QED BY <1>1, <1>2, <2>1 DEF PadInv, PadOK, HeldOK, OrderOK
<1>4. first \in Edges /\ Other(first) \in Edges
    BY DEF Edges, SELECT, START, Other
<1> HIDE DEF first
<1>5. Tick(p) = Expire(Expire(two, first), Other(first))
    BY DEF Tick, one, two, first
<1> QED BY <1>3, <1>4, <1>5, ExpireOK

LEMMA AdvanceOK ==
    ASSUME NEW p, NEW held, NEW dt \in Nat, PadInv(p, held, 1)
    PROVE  PadInv(Advance(p, dt), held, 2)
<1> DEFINE q == Advance(p, dt)
           Aged(e) == IF p.state[e] = "retained" THEN p.age[e] + dt ELSE 0
           age == [e \in Edges |-> IF Aged(e) > Window THEN Window + 1 ELSE Aged(e)]
           sent == [e \in Edges |-> "none"]
<1>1. p \in PadType
    BY DEF PadInv, PadOK
<1>2. q = [p EXCEPT !.sent = sent, !.age = age]
    BY DEF Advance
<1>3. age \in [Edges -> 0..Window + 1]
    <2> SUFFICES ASSUME NEW e \in Edges
                 PROVE  (IF Aged(e) > Window THEN Window + 1 ELSE Aged(e)) \in 0..Window + 1
        OBVIOUS
    <2>1. Aged(e) \in Nat
        BY <1>1, WindowAssumption DEF PadType
    <2> HIDE DEF Aged
    <2> QED BY <2>1, WindowAssumption
<1>4. sent \in [Edges -> {"none", "tap", "press"}]
    OBVIOUS
<1> HIDE DEF age, q
<1>5. q \in PadType
    BY <1>1, <1>2, <1>3, <1>4, Zenon DEF PadType
<1>6. /\ q.fwd = p.fwd /\ q.owed = p.owed /\ q.flight = p.flight /\ q.sent = sent
      /\ q.debt = p.debt /\ q.state = p.state /\ q.tapped = p.tapped
    BY <1>1, <1>2 DEF PadType
<1>7. \A x \in Edges : EdgeOK(q, x) /\ HeldOK(q, x, x \in held)
    BY <1>6 DEF PadInv, PadOK, EdgeOK, HeldOK
<1>8. Shown(q, 2) /\ OrderOK(q)
    BY <1>6 DEF PadInv, Shown, OrderOK
<1> QED BY <1>5, <1>7, <1>8 DEF PadInv, PadOK, q

LEMMA EventOK ==
    ASSUME NEW p, NEW e \in Edges, NEW held \in SUBSET Edges, NEW was \in SUBSET Edges,
           NEW down \in SUBSET Edges, PadInv(p, held, 2), (e \in held) <=> (e \in was)
    PROVE  PadInv(Event(p, e, was, down), (held \ {e}) \cup (down \cap {e}), 2)
<1>1. CASE e \in down \ was
    <2>1. PadInv(Press(p, e), held \cup {e}, 2)
        BY <1>1, PressOK
    <2>2. (held \ {e}) \cup (down \cap {e}) = held \cup {e}
        BY <1>1
    <2> QED BY <1>1, <2>1, <2>2 DEF Event
<1>2. CASE e \in was \ down
    <2>1. PadInv(Release(p, e), held \ {e}, 2)
        BY <1>2, ReleaseOK
    <2>2. (held \ {e}) \cup (down \cap {e}) = held \ {e}
        BY <1>2
    <2>3. Event(p, e, was, down) = Release(p, e)
        BY <1>2 DEF Event
    <2> QED BY <2>1, <2>2, <2>3
<1>3. CASE e \notin down \ was /\ e \notin was \ down
    <2>1. (held \ {e}) \cup (down \cap {e}) = held
        BY <1>3
    <2>2. Event(p, e, was, down) = p
        BY <1>3 DEF Event
    <2> QED BY <2>1, <2>2
<1> QED BY <1>1, <1>2, <1>3

(***************************************************************************)
(* The events of one sample of one pad, for the edges it finds down, and   *)
(* the tick after them.                                                    *)
(***************************************************************************)
LEMMA RouteOK ==
    ASSUME NEW p, NEW was \in SUBSET Edges, NEW down \in SUBSET Edges, NEW dt \in Nat,
           PadInv(p, was, 1)
    PROVE  PadInv(Route(p, was, down, dt), down, 2)
<1> DEFINE mid == (was \ {SELECT}) \cup (down \cap {SELECT})
           aged == Advance(p, dt)
           first == Event(aged, SELECT, was, down)
<1>0. SELECT \in Edges /\ START \in Edges /\ SELECT # START /\ Edges = {SELECT, START}
    BY DEF Edges, SELECT, START
<1>1. PadInv(aged, was, 2)
    BY AdvanceOK
<1> HIDE DEF aged
<1>2. PadInv(first, mid, 2)
    BY <1>0, <1>1, EventOK
<1> HIDE DEF first
<1>3. mid \in SUBSET Edges /\ ((START \in mid) <=> (START \in was))
    BY <1>0
<1>4. (mid \ {START}) \cup (down \cap {START}) = down
    BY <1>0
<1> HIDE DEF mid
<1>5. PadInv(Event(first, START, was, down), down, 2)
    BY <1>0, <1>2, <1>3, <1>4, EventOK
<1> QED BY <1>5 DEF Route, first, aged

LEMMA SampleOK ==
    ASSUME NEW p, NEW was \in SUBSET Edges, NEW down \in SUBSET Edges, NEW dt \in Nat,
           PadInv(p, was, 1)
    PROVE  PadInv(Tick(Route(p, was, down, dt)), down, 1)
BY RouteOK, TickOK

-----------------------------------------------------------------------------
(***************************************************************************)
(* The inductive invariant: every pad satisfies PadInv for the edges that  *)
(* were down in its last sample, and its taps owe a release to the next    *)
(* tick.                                                                   *)
(***************************************************************************)
PadsInv ==
    /\ raw \in [Inst -> SUBSET Edges]
    /\ DOMAIN pads = Inst
    /\ pads = [i \in Inst |-> pads[i]]
    /\ \A i \in Inst : PadInv(pads[i], raw[i], 1)

LEMMA FreshOK == PadInv(Fresh, {}, 1)
<1>1. Fresh \in PadType
    BY WindowAssumption DEF Fresh, PadType, States
<1>2. \A e \in Edges : EdgeOK(Fresh, e) /\ HeldOK(Fresh, e, e \in {})
    BY DEF Fresh, EdgeOK, HeldOK
<1>3. Shown(Fresh, 1) /\ OrderOK(Fresh)
    BY DEF Fresh, Shown, OrderOK, Edges, SELECT, START
<1> QED BY <1>1, <1>2, <1>3 DEF PadInv, PadOK

LEMMA InitPads == Init => PadsInv
BY FreshOK DEF Init, PadsInv

LEMMA NextPads == PadsInv /\ [Next]_vars => PadsInv'
<1> SUFFICES ASSUME PadsInv, [Next]_vars PROVE PadsInv'
    OBVIOUS
<1>1. CASE UNCHANGED <<raw, pads>>
    BY <1>1 DEF PadsInv
<1>2. ASSUME NEW i \in Inst, DeviceRemoved(i) PROVE PadsInv'
    BY <1>2, FreshOK DEF DeviceRemoved, RemoveInstance, PadsInv
<1>3. ASSUME NEW dt \in Steps, Poll(dt) PROVE PadsInv'
    <2>1. PICK down \in [Open -> SUBSET Edges] : Sample(down, dt)
        BY <1>3 DEF Poll
    <2>2. raw' = [i \in Inst |-> IF i \in Open THEN down[i] ELSE raw[i]] /\
          pads' = [i \in Inst |-> IF i \in Open THEN Tick(Route(pads[i], raw[i], down[i], dt))
                                  ELSE pads[i]]
        BY <2>1 DEF Sample
    <2>3. dt \in Nat
        BY PadSetAssumption
    <2>4. ASSUME NEW i \in Inst PROVE PadInv(pads'[i], raw'[i], 1)
        <3>1. PadInv(pads[i], raw[i], 1) /\ raw[i] \in SUBSET Edges
            BY DEF PadsInv
        <3>2. CASE i \in Open
            <4>1. down[i] \in SUBSET Edges
                BY <2>1, <3>2
            <4> QED BY <2>2, <2>3, <3>1, <3>2, <4>1, SampleOK
        <3>3. CASE i \notin Open
            BY <2>2, <3>1, <3>3
        <3> QED BY <3>2, <3>3
    <2> QED BY <2>2, <2>4 DEF PadsInv
<1>4. CASE Close
    BY <1>4, FreshOK DEF Close, PadsInv
<1>5. CASE DeviceAdded \/ Quit \/ Signal \/ Render \/ UNCHANGED vars
    BY <1>1, <1>5 DEF DeviceAdded, Quit, Signal, Render, vars, padVars
<1> QED BY <1>2, <1>3, <1>4, <1>5 DEF Next

LEMMA PadsInvariant == Spec => []PadsInv
BY InitPads, NextPads, PTL DEF Spec

(***************************************************************************)
(* No latch, for any pads and any window: a button is down for the game    *)
(* exactly while a forwarded press is held or its release is owed, presses *)
(* and releases alternate, and a button that is physically up holds at     *)
(* most a tap that waits.                                                  *)
(***************************************************************************)
THEOREM NeverLatched == Spec => []NoLatch
<1>1. PadsInv => NoLatch
    BY DEF PadsInv, PadInv, PadOK, EdgeOK, HeldOK, NoLatch
<1> QED BY <1>1, PadsInvariant, PTL

(***************************************************************************)
(* A pad never retains both edges: presses go out in the order they came.  *)
(***************************************************************************)
THEOREM PressOrder == Spec => []OneRetained
<1>1. PadsInv => OneRetained
    BY DEF PadsInv, PadInv, OrderOK, OneRetained
<1> QED BY <1>1, PadsInvariant, PTL

(***************************************************************************)
(* Every press is forwarded or consumed exactly once, or still retained.   *)
(***************************************************************************)
THEOREM PressesAccounted == Spec => []Accounted
<1>1. PadsInv => Accounted
    BY DEF PadsInv, PadInv, PadOK, EdgeOK, Accounted
<1> QED BY <1>1, PadsInvariant, PTL

(***************************************************************************)
(* A tap shorter than the window is seen by the sample that forwards it.   *)
(***************************************************************************)
THEOREM TapsSeen == Spec => []TapSeen
<1>1. PadsInv => TapSeen
    BY DEF PadsInv, PadInv, PadOK, EdgeOK, Shown, TapSeen
<1> QED BY <1>1, PadsInvariant, PTL

-----------------------------------------------------------------------------
(***************************************************************************)
(* What a pad has consumed.                                                *)
(***************************************************************************)
Consumed(p) == {e \in Edges : p.state[e] = "consumed"}

\* A step that consumes anything anew consumes both presses at once.
BothOrNone(p, q) == Consumed(q) \subseteq Consumed(p) \/ Consumed(q) = Edges

\* Sending out a press that was retained consumes none.
LEMMA FlushConsumes ==
    ASSUME NEW p, NEW e \in Edges, NEW n \in {1, 2}, PadOK(p, n)
    PROVE  Consumed(FlushEdge(p, e, n)) = Consumed(p)
<1> DEFINE q == FlushEdge(p, e, n)
<1>1. /\ PadOK(q, n)
      /\ IF p.state[e] # "retained" THEN q.state = p.state /\ q.tapped = p.tapped
         ELSE /\ q.state = [p.state EXCEPT ![e] = IF p.tapped[e] THEN "idle" ELSE "forwarded"]
              /\ q.tapped = [p.tapped EXCEPT ![e] = FALSE]
    BY FlushEdgeOK
<1> HIDE DEF q
<1>2. Consumed(q) = Consumed(p)
    BY <1>1 DEF Consumed, PadOK, PadType
<1> QED BY <1>2 DEF q

LEMMA PressConsumes ==
    ASSUME NEW p, NEW e \in Edges, NEW held \in SUBSET Edges, PadInv(p, held, 2)
    PROVE  LET q == Press(p, e) IN
           /\ BothOrNone(p, q)
           /\ p.state[e] = "consumed" => q = p
<1> DEFINE o == Other(e)
           again == p.state[e] = "retained" /\ p.tapped[e]
           clear == IF again THEN FlushEdge(p, e, 2) ELSE p
           q == Press(p, e)
<1>1. o \in Edges
    BY DEF Other, Edges, SELECT, START
<1>2. PadOK(clear, 2) /\ Consumed(clear) = Consumed(p) /\ (~again => clear = p)
    <2>1. PadOK(p, 2)
        BY DEF PadInv
    <2>2. CASE again
        BY <2>1, <2>2, FlushConsumes, FlushEdgeOK
    <2> QED BY <2>1, <2>2
<1>3. q = IF clear.state[e] # "idle" THEN p
          ELSE IF CompletesChord(clear, e) THEN Chord(clear, e)
          ELSE Retain(FlushEdge(clear, o, 2), e)
    BY DEF Press
<1>4. p.state[e] = "consumed" => q = p
    BY <1>2, <1>3
<1> HIDE DEF q, clear, o
<1>5. CASE clear.state[e] # "idle"
    BY <1>3, <1>4, <1>5 DEF BothOrNone, q
<1>6. CASE clear.state[e] = "idle" /\ CompletesChord(clear, e)
    <2>1. clear.state[Other(e)] = "retained"
        BY <1>6 DEF CompletesChord
    <2>2. Chord(clear, e).state = [x \in Edges |-> "consumed"]
        BY <1>2, <1>6, <2>1, ChordOK
    <2>3. Consumed(q) = Edges
        BY <1>3, <1>6, <2>2 DEF Consumed
    <2> QED BY <1>4, <2>3 DEF BothOrNone, q
<1>7. CASE clear.state[e] = "idle" /\ ~CompletesChord(clear, e)
    <2> DEFINE r == FlushEdge(clear, o, 2)
    <2>1. PadOK(r, 2) /\ Consumed(r) = Consumed(clear)
        BY <1>1, <1>2, FlushConsumes, FlushEdgeOK
    <2>2. r.state[e] = "idle"
        <3>1. IF clear.state[o] # "retained" THEN r.state = clear.state
              ELSE r.state = [clear.state EXCEPT ![o] =
                                 IF clear.tapped[o] THEN "idle" ELSE "forwarded"]
            BY <1>1, <1>2, FlushEdgeOK
        <3>2. o # e
            BY DEF o, Other, Edges, SELECT, START
        <3> HIDE DEF r
        <3> QED BY <1>2, <1>7, <3>1, <3>2 DEF PadOK, PadType
    <2> HIDE DEF r
    <2>3. Retain(r, e).state = [r.state EXCEPT ![e] = "retained"]
        BY <2>1, <2>2, RetainOK
    <2>4. Consumed(q) \subseteq Consumed(r)
        BY <1>3, <1>7, <2>1, <2>3 DEF Consumed, PadOK, PadType, r
    <2> QED BY <1>2, <1>4, <2>1, <2>4 DEF BothOrNone, q
<1> QED BY <1>5, <1>6, <1>7

LEMMA EventConsumes ==
    ASSUME NEW p, NEW e \in Edges, NEW held \in SUBSET Edges, NEW was \in SUBSET Edges,
           NEW down \in SUBSET Edges, PadInv(p, held, 2)
    PROVE  LET q == Event(p, e, was, down) IN
           /\ BothOrNone(p, q)
           /\ e \in down /\ Consumed(p) = Edges => q = p
<1>0. p.state \in [Edges -> States]
    BY DEF PadInv, PadOK, PadType
<1>1. CASE e \in down \ was
    <2>1. Event(p, e, was, down) = Press(p, e)
        BY <1>1 DEF Event
    <2>2. Consumed(p) = Edges => p.state[e] = "consumed"
        BY DEF Consumed
    <2> QED BY <2>1, <2>2, PressConsumes
<1>2. CASE e \in was \ down
    <2>1. Event(p, e, was, down) = Release(p, e)
        BY <1>2 DEF Event
    <2>2. \A x \in Edges : Release(p, e).state[x] \in {p.state[x], "idle"}
        <3>1. CASE p.state[e] = "retained"
            BY <1>0, <3>1 DEF Release, PadInv, PadOK, PadType
        <3>2. CASE p.state[e] = "forwarded"
            BY <1>0, <3>2 DEF Release, Forward, PadInv, PadOK, PadType
        <3>3. CASE p.state[e] = "consumed"
            BY <1>0, <3>3 DEF Release, PadInv, PadOK, PadType
        <3>4. CASE p.state[e] = "idle"
            BY <3>4 DEF Release
        <3> QED BY <1>0, <3>1, <3>2, <3>3, <3>4 DEF States
    <2>3. Consumed(Release(p, e)) \subseteq Consumed(p)
        BY <2>2 DEF Consumed
    <2> QED BY <1>2, <2>1, <2>3 DEF BothOrNone
<1>3. CASE e \notin down \ was /\ e \notin was \ down
    <2>1. Event(p, e, was, down) = p
        BY <1>3 DEF Event
    <2> QED BY <2>1 DEF BothOrNone
<1> QED BY <1>1, <1>2, <1>3

\* A tick consumes nothing and ends no chord.
LEMMA TickConsumes ==
    ASSUME NEW p, NEW held, PadInv(p, held, 2)
    PROVE  Consumed(Tick(p)) = Consumed(p)
<1> DEFINE one == PayOwed(p, SELECT)
           two == PayOwed(one, START)
           first == IF two.age[START] > two.age[SELECT] THEN START ELSE SELECT
<1>0. SELECT \in Edges /\ START \in Edges /\ SELECT # START /\ Edges = {SELECT, START}
    BY DEF Edges, SELECT, START
<1>1. /\ one \in PadType /\ \A x \in Edges : EdgeOK(one, x)
      /\ one.sent[SELECT] = "tap" => one.owed[SELECT] = 1
      /\ one.owed[START] = p.owed[START]
      /\ one.state = p.state /\ one.tapped = p.tapped /\ one.sent = p.sent
    BY <1>0, PayOwedOK DEF PadInv, PadOK, Shown
<1> HIDE DEF one
<1>2. /\ two \in PadType /\ \A x \in Edges : EdgeOK(two, x)
      /\ two.sent[START] = "tap" => two.owed[START] = 1
      /\ two.owed[SELECT] = one.owed[SELECT]
      /\ two.state = one.state /\ two.tapped = one.tapped /\ two.sent = one.sent
    <2>1. one.sent[START] = "tap" => one.owed[START] = 2
        BY <1>0, <1>1 DEF PadInv, PadOK, Shown
    <2> QED BY <1>0, <1>1, <2>1, PayOwedOK
<1> HIDE DEF two
<1>3. PadInv(two, held, 1) /\ Consumed(two) = Consumed(p)
    <2>1. Shown(two, 1)
        BY <1>0, <1>1, <1>2 DEF Shown
    <2> QED BY <1>1, <1>2, <2>1 DEF PadInv, PadOK, HeldOK, OrderOK, Consumed
<1>4. first \in Edges /\ Other(first) \in Edges
    BY DEF Edges, SELECT, START, Other
<1> HIDE DEF first
<1>5. ASSUME NEW q, NEW e \in Edges, PadInv(q, held, 1)
      PROVE  Consumed(Expire(q, e)) = Consumed(q)
    <2>1. PadOK(q, 1)
        BY <1>5 DEF PadInv
    <2> QED BY <2>1, FlushConsumes DEF Expire
<1>6. Tick(p) = Expire(Expire(two, first), Other(first))
    BY DEF Tick, one, two, first
<1>7. PadInv(Expire(two, first), held, 1)
    BY <1>3, <1>4, ExpireOK
<1> QED BY <1>3, <1>4, <1>5, <1>6, <1>7

(***************************************************************************)
(* The pre-router's call for the exit, with both edges down at the end of  *)
(* the sample, is what makes a chord: SELECT's event before START's takes  *)
(* nothing back, since nobody has let go.                                  *)
(***************************************************************************)
LEMMA RouteConsumes ==
    ASSUME NEW p, NEW was \in SUBSET Edges, NEW down \in SUBSET Edges, NEW dt \in Nat,
           PadInv(p, was, 1), Consumed(p) # Edges
    PROVE  LET r == Route(p, was, down, dt) IN
           (Exits(p, r) /\ HoldsBoth(down)) <=> Consumed(Tick(r)) = Edges
<1> DEFINE mid == (was \ {SELECT}) \cup (down \cap {SELECT})
           aged == Advance(p, dt)
           first == Event(aged, SELECT, was, down)
           r == Event(first, START, was, down)
<1>0. SELECT \in Edges /\ START \in Edges /\ SELECT # START /\ Edges = {SELECT, START}
    BY DEF Edges, SELECT, START
<1>1. PadInv(aged, was, 2)
    BY AdvanceOK
<1>2. Consumed(aged) = Consumed(p)
    BY DEF Advance, Consumed, PadInv, PadOK, PadType
<1> HIDE DEF aged
<1>3. PadInv(first, mid, 2)
    BY <1>0, <1>1, EventOK
<1>4. BothOrNone(aged, first)
    BY <1>0, <1>1, EventConsumes
<1> HIDE DEF first
<1>5. BothOrNone(first, r) /\ (START \in down /\ Consumed(first) = Edges => r = first)
    <2>1. mid \in SUBSET Edges
        BY <1>0
    <2> HIDE DEF mid
    <2>2. START \in Edges
        BY <1>0
    <2> QED BY <1>3, <2>1, <2>2, EventConsumes
<1>6. Route(p, was, down, dt) = r
    BY DEF Route, first, aged
<1>7. PadInv(r, down, 2)
    BY <1>6, RouteOK
<1> HIDE DEF r
<1>8. Consumed(Tick(r)) = Consumed(r)
    BY <1>7, TickConsumes
<1>9. ASSUME Exits(p, r), HoldsBoth(down) PROVE Consumed(r) = Edges
    <2>1. PICK e \in Edges : e \in Consumed(r) /\ e \notin Consumed(p)
        BY <1>9 DEF Exits, Consumed
    <2> QED BY <1>0, <1>2, <1>4, <1>5, <1>9, <2>1 DEF BothOrNone, HoldsBoth
<1>10. ASSUME Consumed(r) = Edges PROVE Exits(p, r) /\ HoldsBoth(down)
    <2>1. \A e \in Edges : r.state[e] = "consumed" /\ HeldOK(r, e, e \in down)
        BY <1>7, <1>10 DEF Consumed, PadInv
    <2>2. HoldsBoth(down)
        BY <2>1 DEF HeldOK, HoldsBoth
    <2>3. Exits(p, r)
        BY <2>1 DEF Consumed, Exits
    <2> QED BY <2>2, <2>3
<1> QED BY <1>6, <1>8, <1>9, <1>10

-----------------------------------------------------------------------------
(* The exit.                                                               *)

\* What holds of 0 and passes from each number to the next, up to n, holds.
LEMMA SetInduction ==
    ASSUME NEW S, NEW n \in Nat, 0 \in S,
           \A i \in 0..n : i \in S /\ i < n => i + 1 \in S
    PROVE  0..n \subseteq S
<1> DEFINE T == (0..n) \ S
<1> SUFFICES ASSUME T # {} PROVE FALSE
    OBVIOUS
<1>1. PICK m \in T : \A k \in T : ~ <<k, m>> \in OpToRel(<, Nat)
    <2>1. T \subseteq Nat
        OBVIOUS
    <2> HIDE DEF T
    <2> QED BY <2>1, NatLessThanWellFounded, WFMin
<1>a. m \in 0..n /\ m \notin S
    OBVIOUS
<1>2. m \in Nat /\ m # 0 /\ m - 1 \in Nat /\ m - 1 < m /\ m - 1 \in 0..n /\ (m - 1) + 1 = m
    BY <1>a
<1>3. m - 1 \notin T
    BY <1>1, <1>2 DEF OpToRel
<1>4. m - 1 \in S /\ m - 1 < n
    BY <1>a, <1>2, <1>3
<1> QED BY <1>a, <1>2, <1>4

(***************************************************************************)
(* Who is pending after the first n slots has called for the exit in this  *)
(* sample and holds both edges; whoever does so is pending after its slot. *)
(***************************************************************************)
LEMMA PendingFound ==
    ASSUME instances \in Seq(Inst), pending = NoInst, NEW routed, NEW down
    PROVE  LET after == PendingAfter(routed, down)
               calls(i) == Exits(pads[i], routed[i]) /\ HoldsBoth(down[i])
           IN /\ (\E n \in DOMAIN instances : after[n] = instances[n])
                    <=> \E i \in Open : calls(i)
              /\ after[Len(instances)] # NoInst => \E i \in Open : calls(i)
<1> DEFINE calls(i) == Exits(pads[i], routed[i]) /\ HoldsBoth(down[i])
           N == Len(instances)
           After(i, before) ==
               LET now == IF Exits(pads[i], routed[i]) THEN i ELSE before
               IN IF now = i /\ ~HoldsBoth(down[i]) THEN NoInst ELSE now
           Is(f, m) == f = [n \in 0..m |-> IF n = 0 THEN pending
                                           ELSE After(instances[n], f[n - 1])]
           S == {m \in 0..N : \E f : Is(f, m)}
           after == PendingAfter(routed, down)
<1>1. N \in Nat /\ DOMAIN instances = 1..N /\ \A n \in 1..N : instances[n] \in Inst
    OBVIOUS
<1>2. /\ \A i, x : calls(i) => After(i, x) = i
      /\ \A i, x : i \in Inst /\ After(i, x) # NoInst => After(i, x) = x \/ (After(i, x) = i)
      /\ \A i, x : i \in Inst /\ After(i, x) = i => calls(i) \/ x = i
    BY PadSetAssumption
<1>3. N \in S
    <2>1. 0 \in S
        <3>1. Is([n \in 0..0 |-> pending], 0)
            OBVIOUS
        <3> HIDE DEF Is
        <3> QED BY <1>1, <3>1
    <2>2. ASSUME NEW m \in 0..N, m \in S, m < N PROVE m + 1 \in S
        <3> HIDE DEF After
        <3>1. PICK f : Is(f, m)
            BY <2>2
        <3> DEFINE g == [n \in 0..(m + 1) |-> IF n = m + 1 THEN After(instances[n], f[m])
                                              ELSE f[n]]
        <3>2. \A n \in 0..(m + 1) : g[n] = IF n = 0 THEN pending
                                          ELSE After(instances[n], g[n - 1])
            <4> TAKE n \in 0..(m + 1)
            <4>1. CASE n = 0
                BY <3>1, <4>1
            <4>2. CASE n = m + 1
                BY <3>1, <4>2
            <4>3. CASE n \in 1..m
                BY <3>1, <4>3
            <4> QED BY <4>1, <4>2, <4>3
        <3>3. Is(g, m + 1)
            BY <3>2
        <3> HIDE DEF Is, g
        <3>4. m + 1 \in 0..N
            BY <1>1, <2>2
        <3> QED BY <3>3, <3>4
    <2> HIDE DEF S
    <2>3. 0..N \subseteq S
        BY <1>1, <2>1, <2>2, SetInduction
    <2> QED BY <1>1, <2>3
<1>4. PICK f : Is(f, N)
    BY <1>3
<1>5. Is(after, N)
    <2> DEFINE a == CHOOSE h : Is(h, N)
    <2>1. after = a
        BY DEF PendingAfter
    <2> HIDE DEF Is, after
    <2> QED BY <1>4, <2>1
<1>6. /\ after[0] = NoInst
      /\ \A n \in 1..N : after[n] = After(instances[n], after[n - 1])
    <2> HIDE DEF After, after
    <2> QED BY <1>1, <1>5
<1> HIDE DEF after, N
\* Whoever is pending after some slots calls.
<1>7. \A n \in 0..N : after[n] # NoInst => after[n] \in Open /\ calls(after[n])
    <2> DEFINE T == {n \in 0..N : after[n] # NoInst => after[n] \in Open /\ calls(after[n])}
    <2>1. 0 \in T
        BY <1>1, <1>6
    <2>2. ASSUME NEW n \in 0..N, n \in T, n < N PROVE n + 1 \in T
        <3>1. n + 1 \in 1..N /\ n + 1 \in 0..N /\ (n + 1) - 1 = n
            BY <1>1, <2>2
        <3>2. /\ after[n + 1] = After(instances[n + 1], after[n])
              /\ instances[n + 1] \in Inst /\ instances[n + 1] \in Open
            BY <1>1, <1>6, <3>1 DEF Open
        <3> DEFINE i == instances[n + 1]
        <3> HIDE DEF i
        <3>3. after[n + 1] # NoInst => after[n + 1] \in Open /\ calls(after[n + 1])
            BY <1>2, <2>2, <3>2 DEF i
        <3> QED BY <3>1, <3>3
    <2> HIDE DEF T, calls
    <2>3. 0..N \subseteq T
        BY <1>1, <2>1, <2>2, SetInduction
    <2> QED BY <2>3 DEF T
<1> HIDE DEF After, calls
<1>8. ASSUME NEW n \in DOMAIN instances, after[n] = instances[n]
      PROVE  \E i \in Open : calls(i)
    <2>1. n \in 0..N /\ instances[n] \in Inst /\ instances[n] \in Open
        BY <1>1 DEF Open
    <2>2. after[n] # NoInst
        BY <1>8, <2>1, PadSetAssumption
    <2> QED BY <1>7, <1>8, <2>1, <2>2
<1>9. ASSUME NEW i \in Open, calls(i)
      PROVE  \E n \in DOMAIN instances : after[n] = instances[n]
    <2>1. PICK n \in DOMAIN instances : instances[n] = i
        BY DEF Open
    <2>2. after[n] = After(i, after[n - 1])
        BY <1>1, <1>6, <2>1
    <2> QED BY <1>2, <1>9, <2>1, <2>2
<1>10. after[Len(instances)] # NoInst => \E i \in Open : calls(i)
    <2>1. N \in 0..N
        BY <1>1
    <2> QED BY <1>7, <2>1 DEF N
<1> QED BY <1>8, <1>9, <1>10 DEF after, calls

(***************************************************************************)
(* While the loop runs an exit that was asked for is requested; before a   *)
(* sample no chord is complete and none is pending, since a chord of the   *)
(* last one would have ended the loop.                                     *)
(***************************************************************************)
ExitInv ==
    /\ PadsInv
    /\ instances \in Seq(Inst)
    /\ pc \in {"events", "check", "closed"}
    /\ exitRequested \in BOOLEAN /\ asked \in BOOLEAN
    /\ signalExit => asked
    /\ asked => exitRequested
    /\ pc = "events" => /\ pending = NoInst
                        /\ \A i \in Inst : Consumed(pads[i]) # Edges
                        /\ exitRequested => asked
    /\ pc = "check" => /\ exitRequested <=> asked \/ \E i \in Open : Consumed(pads[i]) = Edges
                       /\ pending # NoInst => exitRequested
                       /\ \A i \in Inst \ Open : Consumed(pads[i]) # Edges

LEMMA NothingConsumed == Consumed(Fresh) # Edges
BY DEF Consumed, Fresh, Edges, SELECT, START

LEMMA ExitInitially == Init => ExitInv
<1> SUFFICES ASSUME Init PROVE ExitInv
    OBVIOUS
<1>1. \A i \in Inst : Consumed(pads[i]) # Edges
    BY NothingConsumed DEF Init
<1>2. PadsInv
    BY InitPads
<1>3. instances \in Seq(Inst)
    BY DEF Init
<1>4. pc = "events" /\ pending = NoInst /\ ~signalExit /\ exitRequested = FALSE /\ asked = FALSE
    BY DEF Init
<1>5. pc \in {"events", "check", "closed"} /\ pc # "check"
    BY <1>4
<1> QED BY <1>1, <1>2, <1>3, <1>4, <1>5 DEF ExitInv

\* Whatever is opened beside what is kept, the slots are instances.
LEMMA OpenedSeq ==
    ASSUME NEW kept \in Seq(Inst), OpenAll(kept)
    PROVE  instances' \in Seq(Inst)
<1>1. PICK count \in 0..Cardinality(Admissible(kept)) :
          \E added \in [1..count -> Admissible(kept)] : instances' = kept \o added
    BY Zenon DEF OpenAll
<1>a. PICK added \in [1..count -> Admissible(kept)] : instances' = kept \o added
    BY <1>1
<1>2. count \in Nat
    OBVIOUS
<1>3. added \in Seq(Inst)
    <2>1. Admissible(kept) \subseteq Inst
        BY DEF Admissible
    <2> QED BY <1>a, <1>2, <2>1
<1> QED BY <1>a, <1>3

LEMMA ExitSampled ==
    ASSUME ExitInv, NEW dt \in Steps, Poll(dt)
    PROVE  ExitInv'
<1>1. PICK down \in [Open -> SUBSET Edges] : Sample(down, dt)
    BY DEF Poll
<1> DEFINE routed == [i \in Inst |-> IF i \in Open THEN Route(pads[i], raw[i], down[i], dt)
                                     ELSE pads[i]]
           after == PendingAfter(routed, down)
           chord == \E n \in DOMAIN instances : after[n] = instances[n]
<1>2. /\ pc = "events" /\ pc' = "check"
      /\ pads' = [i \in Inst |-> IF i \in Open THEN Tick(routed[i]) ELSE pads[i]]
      /\ pending' = after[Len(instances)]
      /\ signalExit' = (signalExit /\ instances = <<>>)
      /\ exitRequested' = (exitRequested \/ (instances # <<>> /\ (signalExit \/ chord)))
      /\ instances' = instances /\ asked' = asked
    BY <1>1 DEF Sample
<1>3. Open \subseteq Inst /\ Open' = Open
    BY <1>2 DEF ExitInv, Open
<1>4. dt \in Nat
    BY PadSetAssumption
<1>5. PadsInv'
    <2>1. PadsInv /\ Next
        BY DEF ExitInv, Next
    <2> QED BY <2>1, NextPads
<1>6. \A i \in Open : (Exits(pads[i], routed[i]) /\ HoldsBoth(down[i]))
                      <=> Consumed(pads'[i]) = Edges
    <2> TAKE i \in Open
    <2>1. /\ PadInv(pads[i], raw[i], 1) /\ raw[i] \in SUBSET Edges
          /\ down[i] \in SUBSET Edges /\ Consumed(pads[i]) # Edges
        BY <1>2, <1>3 DEF ExitInv, PadsInv
    <2>2. routed[i] = Route(pads[i], raw[i], down[i], dt) /\ pads'[i] = Tick(routed[i])
        BY <1>2, <1>3
    <2> HIDE DEF routed
    <2> QED BY <1>4, <2>1, <2>2, RouteConsumes
<1>7. /\ chord <=> \E i \in Open : Consumed(pads'[i]) = Edges
      /\ pending' # NoInst => chord
    <2>1. /\ chord <=> \E i \in Open : Exits(pads[i], routed[i]) /\ HoldsBoth(down[i])
          /\ after[Len(instances)] # NoInst
                => \E i \in Open : Exits(pads[i], routed[i]) /\ HoldsBoth(down[i])
        <3>1. instances \in Seq(Inst) /\ pending = NoInst
            BY <1>2 DEF ExitInv
        <3> HIDE DEF routed
        <3> QED BY <3>1, PendingFound
    <2> HIDE DEF chord, after, routed
    <2> QED BY <1>2, <1>6, <2>1
<1>9. \A i \in Inst \ Open : Consumed(pads'[i]) # Edges
    BY <1>2 DEF ExitInv
<1>10. chord => instances # <<>>
    OBVIOUS
<1> HIDE DEF chord, after, routed
<1> QED BY <1>2, <1>3, <1>5, <1>7, <1>9, <1>10 DEF ExitInv

LEMMA ExitKeeps == ExitInv /\ [Next]_vars => ExitInv'
<1> SUFFICES ASSUME ExitInv, [Next]_vars PROVE ExitInv'
    OBVIOUS
<1>1. PadsInv' /\ PadsInv
    BY NextPads DEF ExitInv
<1>2. CASE DeviceAdded
    <2>1. instances' \in Seq(Inst)
        BY <1>2, OpenedSeq DEF DeviceAdded, ExitInv
    <2> QED BY <1>1, <1>2, <2>1 DEF DeviceAdded, ExitInv, exitVars
<1>3. ASSUME NEW i \in Inst, DeviceRemoved(i) PROVE ExitInv'
    <2>1. PICK n \in DOMAIN instances : OpenAll(RemoveAt(instances, n))
        BY <1>3 DEF DeviceRemoved
    <2>2. RemoveAt(instances, n) \in Seq(Inst)
        BY DEF ExitInv, RemoveAt
    <2>3. instances' \in Seq(Inst)
        BY <2>1, <2>2, OpenedSeq
    <2>4. \A j \in Inst : Consumed(pads'[j]) # Edges
        BY <1>1, <1>3, NothingConsumed DEF DeviceRemoved, RemoveInstance, ExitInv, PadsInv
    <2> QED BY <1>1, <1>3, <2>3, <2>4 DEF DeviceRemoved, RemoveInstance, ExitInv, exitVars
<1>4. CASE Quit
    BY <1>1, <1>4 DEF Quit, ExitInv, padVars
<1>5. CASE Signal
    BY <1>1, <1>5 DEF Signal, ExitInv, padVars, Open
<1>6. CASE Render
    <2>1. \A i \in Inst : Consumed(pads[i]) # Edges
        BY <1>6 DEF Render, ExitInv
    <2> QED BY <1>1, <1>6, <2>1 DEF Render, ExitInv, padVars, exitVars
<1>7. CASE Close
    BY <1>1, <1>7 DEF Close, ExitInv, exitVars
<1>8. CASE UNCHANGED vars
    BY <1>1, <1>8 DEF ExitInv, vars, padVars, exitVars, Open
<1>9. ASSUME NEW dt \in Steps, Poll(dt) PROVE ExitInv'
    BY <1>9, ExitSampled
<1> QED BY <1>2, <1>3, <1>4, <1>5, <1>6, <1>7, <1>8, <1>9 DEF Next

(***************************************************************************)
(* Until the loop ends, the exit was requested exactly when a signal or    *)
(* SDL_QUIT came or one pad holds the two presses of a chord: two pads     *)
(* never make one, and a chord that is held is never missed.               *)
(***************************************************************************)
THEOREM ExitIsExact == Spec => []ExitExactly
<1>1. ExitInv => ExitExactly
    <2> SUFFICES ASSUME ExitInv PROVE ExitExactly
        OBVIOUS
    <2>1. \A p : Consumed(p) = Edges <=> \A e \in Edges : p.state[e] = "consumed"
        BY DEF Consumed
    <2>2. Open \subseteq Inst
        BY DEF ExitInv, Open
    <2> QED BY <2>1, <2>2 DEF ExitInv, ExitExactly
<1>2. Spec => []ExitInv
    BY ExitInitially, ExitKeeps, PTL DEF Spec
<1> QED BY <1>1, <1>2, PTL

=============================================================================
