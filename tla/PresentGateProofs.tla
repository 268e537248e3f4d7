-------------------------- MODULE PresentGateProofs --------------------------
(***************************************************************************)
(* The safety properties of the evidence gate hold for any set of          *)
(* contexts, any budget and any steps of the clock.                        *)
(*                                                                         *)
(* Inv adds two facts to the properties: the process is dead exactly when  *)
(* the gate has refused, and a gate that is ready knows no verdict yet.    *)
(***************************************************************************)
EXTENDS MeasuredGate, WellFoundedInduction, TLAPS

Inv ==
    /\ TypeOK
    /\ OneReceipt
    /\ NeverMisused
    /\ dead <=> gate.phase = "rejected"
    /\ gate.phase = "ready" => gate = Ready

(***************************************************************************)
(* What the operators of the gate return.                                  *)
(***************************************************************************)
LEMMA LeftOK ==
    ASSUME NEW g \in GateState, g.budget # 0, NEW d \in Steps
    PROVE  /\ Left(g, d) \in 0..Timeout
           /\ g.budget # NotStarted => Left(g, d) < g.budget
  BY PresentGateAssumption DEF Left, GateState, NotStarted

LEMMA ShortSeq ==
    ASSUME NEW S, NEW r \in S
    PROVE  <<>> \in Seq(S) /\ <<r>> \in Seq(S)
  OBVIOUS

LEMMA EmptySeq == ASSUME NEW S PROVE <<>> \in Seq(S)
  OBVIOUS

LEMMA ReadyOK == Ready \in GateState
  BY PresentGateAssumption DEF Ready, GateState, Phases, Reasons, Measured, NotStarted

\* A preflight of a ready gate never ends with misuse, and writes no receipt.
LEMMA PreflightOK ==
    ASSUME NEW c \in Contexts, NEW m \in Measured,
           NEW g, g = Preflight(Ready, c, m)
    PROVE  /\ g \in GateState
           /\ g.phase = (IF m = "ok" THEN "awaiting" ELSE "rejected")
           /\ g.context = c
           /\ g.reason = m
           /\ g.budget = NotStarted
           /\ ~g.emitted
  BY ReadyOK, PresentGateAssumption
     DEF Preflight, Reject, Ready, GateState, Phases, Reasons, Measured, NotStarted

\* What an observation of a waiting gate by its own context may conclude.
LEMMA ObserveOK ==
    ASSUME NEW g \in GateState, g.phase = "awaiting", g.budget # 0, ~g.emitted,
           NEW seen \in Seen, NEW d \in Steps
    PROVE  LET h == Observe(g, g.context, seen, d)
           IN /\ h \in GateState
              /\ h.context = g.context
              /\ h.phase \in {"awaiting", "proved", "rejected"}
              /\ h.phase = "awaiting" => /\ h.reason = g.reason
                                         /\ h.budget # 0
                                         /\ g.budget # NotStarted => h.budget < g.budget
              /\ h.phase = "proved" => h.reason = "ok" /\ h.emitted
              /\ h.phase = "rejected" => h.reason \in Reasons \ {"ok", "misuse", "identity"}
              /\ h.phase = "awaiting" => ~h.emitted
<1> DEFINE l == Left(g, d)
           h == [g EXCEPT !.budget = l]
<1>1. /\ l \in 0..NotStarted
      /\ g.budget # NotStarted => l < g.budget
  BY LeftOK, PresentGateAssumption DEF NotStarted
<1>2. Observe(g, g.context, seen, d) = Classify(g, seen, l)
  BY DEF Observe
<1> HIDE DEF l
<1>3. /\ h \in GateState
      /\ h.phase = "awaiting" /\ h.context = g.context /\ h.reason = g.reason
      /\ h.budget = l /\ ~h.emitted
  BY <1>1 DEF GateState
<1>4. CASE seen = "usable"
  BY <1>1, <1>2, <1>3, <1>4 DEF Classify, GateState, Phases, Reasons, Measured
<1>5. CASE seen = "placeholder" /\ l = 0
  <2>1. Classify(g, seen, l) = [Reject(h, "stuck") EXCEPT !.emitted = TRUE]
    BY <1>5 DEF Classify
  <2> DEFINE k == Reject(h, "stuck")
  <2>2. /\ k \in GateState /\ k.context = g.context /\ k.phase = "rejected"
        /\ k.reason = "stuck"
    BY <1>3 DEF Reject, GateState, Reasons, Phases
  <2> HIDE DEF k
  <2>3. "stuck" \in Reasons \ {"ok", "misuse", "identity"}
    BY DEF Reasons
  <2>4. /\ [k EXCEPT !.emitted = TRUE] \in GateState
        /\ [k EXCEPT !.emitted = TRUE].context = g.context
        /\ [k EXCEPT !.emitted = TRUE].phase = "rejected"
        /\ [k EXCEPT !.emitted = TRUE].reason = "stuck"
    BY <2>2 DEF GateState
  <2> QED  BY <1>2, <2>1, <2>3, <2>4 DEF k
<1>6. CASE seen = "placeholder" /\ l # 0
  BY <1>1, <1>2, <1>3, <1>6 DEF Classify
<1>7. CASE seen \notin {"usable", "placeholder"}
  <2>1. Classify(g, seen, l) = Reject(h, seen)
    BY <1>7 DEF Classify
  <2>2. seen \in Reasons \ {"ok", "misuse", "identity"}
    BY <1>7 DEF Seen, Reasons
  <2> QED  BY <1>1, <1>2, <1>3, <2>1, <2>2 DEF Reject, GateState, Phases
<1> QED  BY <1>4, <1>5, <1>6, <1>7 DEF Seen

(***************************************************************************)
(* Inv is inductive.                                                       *)
(***************************************************************************)
LEMMA InitInv == Init => Inv
<1> SUFFICES ASSUME Init PROVE Inv
  OBVIOUS
<1>1. TypeOK
  <2>1. receipts \in Seq(Receipt)
    BY EmptySeq DEF Init
  <2>2. surface \in [Contexts -> Surfaces]
    BY DEF Init, Surfaces
  <2>3. gate \in GateState /\ gate.phase # "awaiting"
    BY ReadyOK DEF Init, Ready
  <2>4. dead \in BOOLEAN /\ faulted \in BOOLEAN
    BY DEF Init
  <2>5. flips \in 0..(HealthFlips + 1)
    BY PresentGateAssumption DEF Init
  <2>6. token \in Contexts \cup {NoContext} /\ current \in Contexts \cup {NoContext}
    BY DEF Init
  <2> QED  BY <2>1, <2>2, <2>3, <2>4, <2>5, <2>6 DEF TypeOK
<1>2. OneReceipt
  BY DEF Init, OneReceipt, Ready
<1>3. NeverMisused
  BY DEF Init, NeverMisused, Ready, OnWindow
<1> QED  BY <1>1, <1>2, <1>3 DEF Init, Inv, Ready

LEMMA NextInv == Inv /\ [Next]_vars => Inv'
<1> SUFFICES ASSUME Inv, [Next]_vars PROVE Inv'
  OBVIOUS
<1> USE DEF Inv
<1>1. CASE Release
  <2>1. TypeOK'
    BY <1>1 DEF TypeOK, Release
  <2>2. OneReceipt'
    BY <1>1 DEF OneReceipt, Release
  <2>3. NeverMisused'
    BY <1>1 DEF NeverMisused, Release, OnWindow
  <2> QED  BY <1>1, <2>1, <2>2, <2>3 DEF Release
<1>2. ASSUME NEW c \in Contexts, NEW s \in {"window", "pbuffer"}, MakeCurrentFails(c, s)
      PROVE  Inv'
  <2>1. TypeOK'
    BY <1>2 DEF TypeOK, MakeCurrentFails, Surfaces
  <2>2. OneReceipt'
    BY <1>2 DEF OneReceipt, MakeCurrentFails
  <2>3. NeverMisused'
    BY <1>2 DEF NeverMisused, MakeCurrentFails
  <2> QED  BY <1>2, <2>1, <2>2, <2>3 DEF MakeCurrentFails
<1>3. ASSUME NEW c \in Contexts, MakePbufferCurrent(c)
      PROVE  Inv'
  <2>1. TypeOK'
    BY <1>3 DEF TypeOK, MakePbufferCurrent, Surfaces
  <2>2. OneReceipt'
    BY <1>3 DEF OneReceipt, MakePbufferCurrent
  <2>3. NeverMisused'
    BY <1>3 DEF NeverMisused, MakePbufferCurrent, OnWindow, TypeOK
  <2> QED  BY <1>3, <2>1, <2>2, <2>3 DEF MakePbufferCurrent
<1>4. ASSUME NEW c \in Contexts, NEW m \in Measured, MakeWindowCurrent(c, m)
      PROVE  Inv'
  <2>1. surface' \in [Contexts -> Surfaces] /\ current' = c
    BY <1>4 DEF MakeWindowCurrent, TypeOK, Surfaces
  <2>2. CASE Keeps(c)
    <3>1. UNCHANGED <<gate, token, dead, flips, receipts, faulted>>
      BY <1>4, <2>2 DEF MakeWindowCurrent
    <3>2. TypeOK'
      BY <2>1, <3>1 DEF TypeOK
    <3>3. OneReceipt'
      BY <3>1 DEF OneReceipt
    <3>4. NeverMisused'
      BY <2>1, <2>2, <3>1 DEF NeverMisused, Keeps, TypeOK
    <3> QED  BY <3>1, <3>2, <3>3, <3>4
  <2>3. CASE ~Keeps(c)
    <3>1. ~dead /\ gate.phase \in {"ready", "awaiting"}
      BY <1>4, <2>3 DEF MakeWindowCurrent, Keeps, TypeOK, GateState, Phases
    <3>2. Before = Ready
      BY <3>1 DEF Before
    <3>3. /\ token' = c
          /\ gate' = Preflight(Ready, c, m)
          /\ dead' = (gate'.phase # "awaiting")
          /\ UNCHANGED <<flips, receipts, faulted>>
      BY <1>4, <2>3, <3>2 DEF MakeWindowCurrent
    <3>4. /\ gate' \in GateState
          /\ gate'.phase = (IF m = "ok" THEN "awaiting" ELSE "rejected")
          /\ gate'.context = c /\ gate'.reason = m
          /\ gate'.budget = NotStarted /\ gate'.emitted = FALSE
      <4> DEFINE g == gate'
      <4>1. g = Preflight(Ready, c, m)
        BY <3>3
      <4> HIDE DEF g
      <4>2. /\ g \in GateState
            /\ g.phase = (IF m = "ok" THEN "awaiting" ELSE "rejected")
            /\ g.context = c /\ g.reason = m
            /\ g.budget = NotStarted /\ ~g.emitted
        BY <4>1, PreflightOK
      <4> QED  BY <4>2 DEF g
    <3>5. receipts = <<>>
      BY <3>1 DEF OneReceipt
    <3>6. TypeOK'
      BY <2>1, <3>3, <3>4, PresentGateAssumption DEF TypeOK, NotStarted
    <3>7. OneReceipt'
      BY <3>3, <3>4, <3>5 DEF OneReceipt
    <3>8. NeverMisused'
      BY <2>1, <3>3, <3>4 DEF NeverMisused, Measured
    <3> QED  BY <3>3, <3>4, <3>6, <3>7, <3>8
  <2> QED  BY <2>2, <2>3
<1>5. ASSUME NEW seen \in Seen, NEW d \in Steps, Swap(seen, d)
      PROVE  Inv'
  <2>1. /\ ~dead /\ OnWindow /\ current \in Contexts
        /\ UNCHANGED <<token, current, surface, faulted>>
        /\ gate' = Observe(gate, current, seen, d)
    BY <1>5 DEF Swap, OnWindow, TypeOK
  <2>2. flips' \in 0..(HealthFlips + 1) /\ dead' \in BOOLEAN
        /\ (dead' <=> gate'.phase = "rejected")
    <3>1. CASE gate'.phase = "rejected"
      BY <1>5, <3>1 DEF Swap, TypeOK
    <3>2. CASE gate'.phase # "rejected"
      <4>1. flips' \in 0..(HealthFlips + 1)
        BY <1>5, <3>2, PresentGateAssumption DEF Swap, TypeOK
      <4>2. dead' = dead
        BY <1>5, <3>2 DEF Swap
      <4> QED  BY <2>1, <3>2, <4>1, <4>2 DEF TypeOK
    <3> QED  BY <3>1, <3>2
  <2>3. CASE gate.phase = "proved"
    <3>1. gate' = gate /\ receipts' = receipts
      BY <1>5, <2>1, <2>3 DEF Observe, Swap
    <3>2. TypeOK'
      BY <2>1, <2>2, <3>1 DEF TypeOK
    <3>3. OneReceipt'
      BY <3>1 DEF OneReceipt
    <3>4. NeverMisused'
      BY <2>1, <2>3, <3>1 DEF NeverMisused, TypeOK
    <3> QED  BY <2>2, <2>3, <3>1, <3>2, <3>3, <3>4
  <2>4. CASE gate.phase = "awaiting" /\ gate.context = current
    <3>1. receipts = <<>> /\ ~gate.emitted
      BY <2>4 DEF OneReceipt
    <3>2. /\ gate' \in GateState
          /\ gate'.context = gate.context
          /\ gate'.phase \in {"awaiting", "proved", "rejected"}
          /\ gate'.phase = "awaiting" => gate'.reason = gate.reason /\ gate'.budget # 0
          /\ gate'.phase = "proved" => gate'.reason = "ok" /\ gate'.emitted
          /\ gate'.phase = "rejected" => gate'.reason \in Reasons \ {"ok", "misuse", "identity"}
          /\ gate'.phase = "awaiting" => ~gate'.emitted
      BY <2>1, <2>4, <3>1, ObserveOK DEF TypeOK
    <3>3. receipts' = IF gate'.emitted
                      THEN <<[context |-> current, reason |-> gate'.reason]>>
                      ELSE <<>>
      BY <1>5, <3>1 DEF Swap
    <3>4. TypeOK'
      <4> DEFINE r == [context |-> current, reason |-> gate'.reason]
      <4>1. r \in Receipt
        BY <2>1, <3>2 DEF GateState, Receipt
      <4>2. receipts' = <<r>> \/ receipts' = <<>>
        BY <3>3
      <4> HIDE DEF r
      <4>3. receipts' \in Seq(Receipt)
        BY <4>1, <4>2, ShortSeq
      <4>4. gate'.phase = "awaiting" =>
              gate'.budget # 0 /\ token' = gate'.context /\ token' \in Contexts
        BY <2>1, <2>4, <3>2 DEF TypeOK
      <4>5. /\ token' \in Contexts \cup {NoContext}
            /\ current' \in Contexts \cup {NoContext}
            /\ surface' \in [Contexts -> Surfaces]
            /\ faulted' \in BOOLEAN
        BY <2>1 DEF TypeOK
      <4> QED  BY <2>2, <3>2, <4>3, <4>4, <4>5 DEF TypeOK
    <3>5. OneReceipt'
      BY <2>4, <3>2, <3>3 DEF OneReceipt, GateState
    <3>6. NeverMisused'
      BY <2>1, <2>2, <2>4, <3>2 DEF NeverMisused, TypeOK
    <3> QED  BY <2>2, <3>2, <3>4, <3>5, <3>6
  <2>5. CASE gate.phase # "proved" /\ ~(gate.phase = "awaiting" /\ gate.context = current)
    <3>1. faulted
      BY <2>1, <2>5 DEF NeverMisused
    <3>2. gate' \in {Reject(gate, "misuse"), Reject(gate, "identity")}
      BY <2>1, <2>5 DEF Observe, TypeOK, GateState, Phases
    <3>3. /\ gate' \in GateState /\ gate'.phase = "rejected"
          /\ gate'.emitted = gate.emitted /\ gate'.reason # "ok"
      BY <3>2 DEF Reject, TypeOK, GateState, Phases, Reasons
    <3>4. ~gate.emitted /\ receipts = <<>>
      BY <2>1, <2>5 DEF OneReceipt, TypeOK, GateState
    <3>5. receipts' = receipts
      BY <1>5, <3>3, <3>4 DEF Swap
    <3>6. TypeOK'
      BY <2>1, <2>2, <3>3, <3>5 DEF TypeOK
    <3>7. OneReceipt'
      BY <3>3, <3>4, <3>5 DEF OneReceipt
    <3>8. NeverMisused'
      BY <2>1, <3>1 DEF NeverMisused
    <3> QED  BY <2>2, <3>3, <3>6, <3>7, <3>8
  <2> QED  BY <2>3, <2>4, <2>5
<1>6. CASE UNCHANGED vars
  BY <1>6 DEF vars, TypeOK, OneReceipt, NeverMisused, OnWindow
<1> QED  BY <1>1, <1>2, <1>3, <1>4, <1>5, <1>6 DEF Next, SomeSwap

LEMMA Invariance == Spec => []Inv
  BY InitInv, NextInv, PTL DEF Spec

(***************************************************************************)
(* The properties.                                                         *)
(***************************************************************************)
\* Every variable keeps its type, and a gate that waits has budget left.
THEOREM GateTypeCorrect == Spec => []TypeOK
<1>1. Inv => TypeOK
  BY DEF Inv
<1> QED  BY <1>1, Invariance, PTL

\* As long as SDL never fails, the callers never misuse the gate: the context
\* that may flip the window is the one the gate waits for.
THEOREM CallersFollowTheProtocol == Spec => []NeverMisused
<1>1. Inv => NeverMisused
  BY DEF Inv
<1> QED  BY <1>1, Invariance, PTL

\* At most one final receipt is written, and it says what the gate concluded.
THEOREM ReceiptIsFinal == Spec => []OneReceipt
<1>1. Inv => OneReceipt
  BY DEF Inv
<1> QED  BY <1>1, Invariance, PTL

\* The budget of a waiting gate runs down at every page flip and never starts
\* again for the same context.
THEOREM OneBudget == Spec => BudgetRunsDown
<1> DEFINE Runs ==
      gate.phase = "awaiting" /\ gate'.phase = "awaiting"
        /\ gate.context = gate'.context /\ gate.budget # NotStarted
      => IF SomeSwap THEN gate'.budget < gate.budget ELSE gate'.budget = gate.budget
<1>1. Inv /\ [Next]_vars => [Runs]_vars
  <2> SUFFICES ASSUME Inv, Next,
                      gate.phase = "awaiting", gate'.phase = "awaiting",
                      gate.context = gate'.context, gate.budget # NotStarted
               PROVE  IF SomeSwap THEN gate'.budget < gate.budget
                                  ELSE gate'.budget = gate.budget
    OBVIOUS
  <2>1. ASSUME NEW seen \in Seen, NEW d \in Steps, Swap(seen, d)
        PROVE  gate'.budget < gate.budget
    <3>1. /\ gate' = Observe(gate, current, seen, d)
          /\ gate \in GateState /\ gate.budget # 0 /\ ~gate.emitted
      BY <2>1 DEF Swap, Inv, TypeOK, OneReceipt
    <3>2. current = gate.context
      BY <3>1 DEF Observe, Reject, GateState
    <3> QED  BY <3>1, <3>2, ObserveOK
  <2>2. CASE ~SomeSwap
    <3>1. ASSUME NEW c \in Contexts, NEW m \in Measured, MakeWindowCurrent(c, m)
          PROVE  gate' = gate
      <4>1. CASE Keeps(c)
        BY <3>1, <4>1 DEF MakeWindowCurrent
      <4>2. CASE ~Keeps(c)
        <5>1. gate' = Preflight(Ready, c, m)
          BY <3>1, <4>2 DEF MakeWindowCurrent, Before
        <5>2. gate'.context = c
          BY <5>1, PreflightOK
        <5>3. gate.context # c
          BY <4>2 DEF Keeps, Inv, TypeOK
        <5> QED  BY <5>2, <5>3
      <4> QED  BY <4>1, <4>2
    <3> QED  BY <2>2, <3>1 DEF Next, Release, MakeCurrentFails, MakePbufferCurrent
  <2> QED  BY <2>1, <2>2 DEF SomeSwap
<1> QED  BY <1>1, Invariance, PTL DEF Spec, BudgetRunsDown

-------------------------------------------------------------------------------
(***************************************************************************)
(* The measurements behind the gate.  First the lists of refusals, then    *)
(* what the comparison of a declaration with a context and the probe's     *)
(* language amount to.                                                     *)
(***************************************************************************)
LEMMA HasLeast ==
    ASSUME NEW T, T \subseteq Nat, T # {}
    PROVE  \E n \in T : \A k \in T : n <= k
<1>1. PICK n \in T : \A k \in T : ~ <<k, n>> \in OpToRel(<, Nat)
  BY NatLessThanWellFounded, WFMin
<1>2. \A k \in T : ~ (k < n)
  BY <1>1 DEF OpToRel
<1>3. n \in Nat /\ \A k \in T : k \in Nat
  OBVIOUS
<1> QED
  BY <1>2, <1>3

\* The first refusal that applies, or none does.
LEMMA FirstFinds ==
    ASSUME NEW r, NEW n \in Nat, DOMAIN r = 1..n
    PROVE  \/ First(r) = "ok" /\ \A j \in 1..n : ~r[j][2]
           \/ \E j \in 1..n : /\ r[j][2] /\ First(r) = r[j][1]
                              /\ \A i \in 1..n : i < j => ~r[i][2]
<1> DEFINE hit == {i \in DOMAIN r : r[i][2]}
<1>1. First(r) = IF hit = {} THEN "ok"
                 ELSE r[CHOOSE i \in hit : \A j \in hit : i <= j][1]
  BY DEF First
<1>2. CASE hit = {}
  BY <1>1, <1>2
<1>3. CASE hit # {}
  <2>1. \E i \in hit : \A j \in hit : i <= j
    <3>1. hit \subseteq Nat
      OBVIOUS
    <3> HIDE DEF hit
    <3> QED
      BY <1>3, <3>1, HasLeast
  <2> DEFINE k == CHOOSE i \in hit : \A j \in hit : i <= j
  <2>2. k \in hit /\ \A j \in hit : k <= j
    BY <2>1
  <2>3. First(r) = r[k][1]
    BY <1>1, <1>3
  <2> HIDE DEF k
  <2>4. k \in 1..n /\ r[k][2]
    BY <2>2
  <2>5. \A i \in 1..n : i < k => ~r[i][2]
    BY <2>2, <2>4
  <2> QED
    BY <2>3, <2>4, <2>5
<1> QED
  BY <1>2, <1>3

\* A declaration is fulfilled by an interface exactly when none of the
\* refusals applies.
LEMMA ValidateOK ==
    ASSUME NEW c, NEW o
    PROVE  Validate(c, o) = "ok" <=>
             /\ ContractIsValid(c) /\ ObtainedIsValid(o)
             /\ ~(c.api = "gles" /\ o.api = "gl") /\ ~(c.api = "gl" /\ o.api = "gles")
             /\ c.profile = o.profile
             /\ c.policy = "exact" => o.version = c.version
             /\ c.policy = "minimum" => ~Before2(o.version, c.version)
             /\ c.policy = "range" => ~Before2(o.version, c.version) /\ ~Before2(c.most, o.version)
<1> DEFINE
      b1 == ~ContractIsValid(c) \/ ~ObtainedIsValid(o)
      b2 == c.api = "gles" /\ o.api = "gl"
      b3 == c.api = "gl" /\ o.api = "gles"
      b4 == c.profile # o.profile
      b5 == c.policy = "exact" /\ o.version # c.version
      b6 == c.policy = "minimum" /\ Before2(o.version, c.version)
      b7 == c.policy = "range" /\ (Before2(o.version, c.version) \/ Before2(c.most, o.version))
      r == << <<"contract-invalid", b1>>, <<"desktop-gl-for-gles-contract", b2>>,
              <<"gles-for-gl-contract", b3>>, <<"profile-mismatch", b4>>,
              <<"version-not-exact", b5>>, <<"version-below-minimum", b6>>,
              <<"version-out-of-range", b7>> >>
<1>1. Validate(c, o) = First(r)
  BY DEF Validate
<1> HIDE DEF b1, b2, b3, b4, b5, b6, b7
<1>2. DOMAIN r = 1..7
  OBVIOUS
<1>3. /\ r[1][2] = b1 /\ r[2][2] = b2 /\ r[3][2] = b3 /\ r[4][2] = b4
      /\ r[5][2] = b5 /\ r[6][2] = b6 /\ r[7][2] = b7
  OBVIOUS
<1>4. \A j \in 1..7 : r[j][1] # "ok"
  OBVIOUS
<1> HIDE DEF r
<1>5. First(r) = "ok" <=> \A j \in 1..7 : ~r[j][2]
  BY <1>2, <1>4, FirstFinds
<1>6. 1..7 = {1, 2, 3, 4, 5, 6, 7}
  OBVIOUS
<1>7. First(r) = "ok" <=> ~b1 /\ ~b2 /\ ~b3 /\ ~b4 /\ ~b5 /\ ~b6 /\ ~b7
  BY <1>3, <1>5, <1>6
<1> QED
  BY <1>1, <1>7 DEF b1, b2, b3, b4, b5, b6, b7

\* The gate accepts exactly what was measured, matches and passed the probe.
Fit ==
    /\ measured.obtained # Unmeasured
    /\ Validate(contract, measured.obtained) = "ok"
    /\ measured.probe = "pass"

LEMMA OutcomeOK ==
    /\ Outcome \in Measured
    /\ Outcome = "ok" <=> Fit
    /\ PreflightReason = "ok" <=> Fit
<1> DEFINE
      o == measured.obtained
      b1 == ~ContractIsValid(contract)
      b2 == o = Unmeasured
      b3 == ~ObtainedIsValid(o)
      b4 == Validate(contract, o) # "ok"
      b5 == measured.probe # "pass"
      r == << <<"contract-invalid", b1>>, <<"provider-nominal-only", b2>>, <<"misuse", b3>>,
              <<Validate(contract, o), b4>>, <<"shader-probe-failed", b5>> >>
<1>1. PreflightReason = First(r)
  BY DEF PreflightReason
<1>2. (~b1 /\ ~b2 /\ ~b3 /\ ~b4 /\ ~b5) <=> Fit
  BY ValidateOK DEF Fit
<1> DEFINE v == Validate(contract, o)
<1>3. b4 <=> v # "ok"
  OBVIOUS
<1> HIDE DEF b1, b2, b3, b4, b5, v
<1>4. DOMAIN r = 1..5
  OBVIOUS
<1>5. /\ r[1][2] = b1 /\ r[2][2] = b2 /\ r[3][2] = b3 /\ r[4][2] = b4 /\ r[5][2] = b5
      /\ r[1][1] = "contract-invalid" /\ r[2][1] = "provider-nominal-only"
      /\ r[3][1] = "misuse" /\ r[5][1] = "shader-probe-failed"
  OBVIOUS
<1>6. r[4][1] = v
  BY DEF v
<1> HIDE DEF r
<1>7. 1..5 = {1, 2, 3, 4, 5}
  OBVIOUS
<1>8. \A j \in 1..5 : r[j][2] => r[j][1] # "ok"
  BY <1>3, <1>5, <1>6, <1>7
<1>9. First(r) = "ok" <=> \A j \in 1..5 : ~r[j][2]
  BY <1>4, <1>8, FirstFinds
<1>10. First(r) = "ok" <=> ~b1 /\ ~b2 /\ ~b3 /\ ~b4 /\ ~b5
  BY <1>5, <1>7, <1>9
<1>11. PreflightReason = "ok" <=> Fit
  BY <1>1, <1>2, <1>10
<1>12. Outcome \in Measured /\ (Outcome = "ok" <=> PreflightReason = "ok")
  BY DEF Outcome, Measured
<1> QED
  BY <1>11, <1>12

\* What the gate is told of a page flip.
LEMMA SeenOK ==
    ASSUME NEW o \in Observations
    PROVE  /\ SeenOf(o) \in Seen
           /\ SeenOf(o) \in {"usable", "placeholder"} =>
                /\ o.same /\ o.clock
                /\ o.size[1] > 0 /\ o.size[2] > 0
                /\ DrawableUsable(o.size) <=> SeenOf(o) = "usable"
<1> DEFINE
      b1 == ~o.same
      b2 == ~o.clock
      b3 == o.size[1] <= 0 \/ o.size[2] <= 0
      b4 == o.size[1] > LargestDrawable \/ o.size[2] > LargestDrawable
      b5 == DrawableUsable(o.size)
      r == << <<"moved", b1>>, <<"clock", b2>>, <<"unreadable", b3>>, <<"absurd", b4>>,
              <<"usable", b5>>, <<"placeholder", TRUE>> >>
<1>1. SeenOf(o) = First(r)
  BY DEF SeenOf
<1>2. o.size[1] \in Int /\ o.size[2] \in Int
  BY MeasuredGateAssumption DEF Observations
<1>3. ~b3 => o.size[1] > 0 /\ o.size[2] > 0
  BY <1>2
<1> HIDE DEF b1, b2, b3, b4, b5
<1>4. DOMAIN r = 1..6
  OBVIOUS
<1>5. /\ r[1][2] = b1 /\ r[2][2] = b2 /\ r[3][2] = b3 /\ r[4][2] = b4 /\ r[5][2] = b5
      /\ r[6][2]
      /\ r[1][1] = "moved" /\ r[2][1] = "clock" /\ r[3][1] = "unreadable"
      /\ r[4][1] = "absurd" /\ r[5][1] = "usable" /\ r[6][1] = "placeholder"
  OBVIOUS
<1> HIDE DEF r
<1>6. 1..6 = {1, 2, 3, 4, 5, 6}
  OBVIOUS
<1>7. PICK j \in 1..6 : /\ r[j][2] /\ First(r) = r[j][1]
                        /\ \A i \in 1..6 : i < j => ~r[i][2]
  <2>1. 6 \in 1..6 /\ r[6][2]
    BY <1>5
  <2>2. \/ First(r) = "ok" /\ \A i \in 1..6 : ~r[i][2]
        \/ \E i \in 1..6 : /\ r[i][2] /\ First(r) = r[i][1]
                           /\ \A k \in 1..6 : k < i => ~r[k][2]
    BY <1>4, FirstFinds
  <2> QED
    BY <2>1, <2>2
<1>8. SeenOf(o) \in Seen
  BY <1>1, <1>5, <1>6, <1>7 DEF Seen
<1>9. CASE j \in {1, 2, 3, 4}
  <2>1. First(r) \in {"moved", "clock", "unreadable", "absurd"}
    BY <1>5, <1>7, <1>9
  <2> QED
    BY <1>1, <1>8, <2>1
<1>10. CASE j \in {5, 6}
  <2>1. ~b1 /\ ~b2 /\ ~b3
    BY <1>5, <1>6, <1>7, <1>10
  <2>2. First(r) = "usable" <=> b5
    BY <1>5, <1>6, <1>7, <1>10
  <2>3. o.same /\ o.clock
    BY <2>1 DEF b1, b2
  <2>4. DrawableUsable(o.size) <=> First(r) = "usable"
    BY <2>2 DEF b5
  <2> QED
    BY <1>1, <1>3, <1>8, <2>1, <2>3, <2>4
<1> QED
  BY <1>6, <1>7, <1>9, <1>10

\* What the probe finds on a whole driver that matches the declaration.
ProbePasses(c, d) ==
    /\ Measure(d) # Unmeasured /\ Validate(c, Measure(d)) = "ok"
    /\ d.broken = "no" /\ Speaks(d, ProbeLanguage(c))

\* The interface, profile and version that a declaration asks for.
Matches(c, d) ==
    /\ ContractIsValid(c)
    /\ d.version # <<>>
    /\ d.string = IF c.api = "gles" THEN "es" ELSE "desktop"
    /\ c.api = "gl" => (d.mask <=> c.profile = "core")
    /\ Admits(c, d.version)

LEMMA VersionOrder ==
    ASSUME NEW v \in Int \X Int, NEW w \in Int \X Int
    PROVE  ~Before2(v, w) <=> v = w \/ Before2(w, v)
<1>1. v = <<v[1], v[2]>> /\ w = <<w[1], w[2]>>
  OBVIOUS
<1>2. v[1] \in Int /\ v[2] \in Int /\ w[1] \in Int /\ w[2] \in Int
  OBVIOUS
<1>3. v = w <=> v[1] = w[1] /\ v[2] = w[2]
  BY <1>1
<1> HIDE <1>1
<1> QED
  BY <1>2, <1>3 DEF Before2

LEMMA Declared ==
    ASSUME NEW c \in Declarations
    PROVE  /\ c.api \in {"gles", "gl"} /\ c.profile \in {"es", "core", "compat"}
           /\ c.version \in Int \X Int /\ c.most \in Int \X Int
           /\ c.policy \in {"exact", "minimum", "range"}
           /\ c.dialect \in {"any", "essl100", "essl300", "essl310"}
           /\ c.version[2] <= 9
  BY MeasuredGateAssumption

LEMMA Driven ==
    ASSUME NEW d \in Drivers
    PROVE  /\ d.string \in {"dead", "es", "desktop"}
           /\ d.version # <<>> => d.version \in Nat \X Nat
           /\ d.core \in BOOLEAN /\ d.mask \in BOOLEAN
           /\ d.broken \in {"no", "entries", "vertex", "fragment", "program", "link"}
           /\ d.string = "desktop" /\ d.version # <<>> /\ d.broken = "no" =>
                d.version[1] >= 2
  BY MeasuredGateAssumption

\* A whole context passes the comparison exactly when it matches.
LEMMA MatchesOK ==
    ASSUME NEW c \in Declarations, NEW d \in Drivers
    PROVE  (Measure(d) # Unmeasured /\ Validate(c, Measure(d)) = "ok") <=> Matches(c, d)
<1> DEFINE o == Measure(d)
<1>1. CASE d.version = <<>> \/ d.string = "dead"
  <2>1. o = Unmeasured
    BY <1>1 DEF Measure
  <2>2. ~Matches(c, d)
    BY <1>1 DEF Matches
  <2> QED
    BY <2>1, <2>2
<1>2. CASE d.version # <<>> /\ d.string \in {"es", "desktop"}
  <2>1. /\ o.api = IF d.string = "es" THEN "gles" ELSE "gl"
        /\ o.profile = IF d.string = "es" THEN "es" ELSE IF d.mask THEN "core" ELSE "compat"
        /\ o.version = d.version
    BY <1>2 DEF Measure
  <2>2. o # Unmeasured
    BY <2>1 DEF Unmeasured
  <2>3. d.version \in Nat \X Nat /\ d.version[1] \in Nat /\ d.version[2] \in Nat
    BY <1>2, Driven
  <2> HIDE DEF o
  <2>4. ObtainedIsValid(o)
    <3>1. o.version[1] >= 0 /\ o.version[2] >= 0
      BY <2>1, <2>3
    <3> QED
      BY <1>2, <2>1, <3>1 DEF ObtainedIsValid, Coherent
  <2>5. Admits(c, o.version) <=>
           /\ c.policy = "exact" => o.version = c.version
           /\ c.policy = "minimum" => ~Before2(o.version, c.version)
           /\ c.policy = "range" => ~Before2(o.version, c.version) /\ ~Before2(c.most, o.version)
    <3>1. o.version \in Int \X Int
      BY <2>1, <2>3
    <3>2. /\ ~Before2(o.version, c.version) <=>
                o.version = c.version \/ Before2(c.version, o.version)
          /\ ~Before2(c.most, o.version) <=> o.version = c.most \/ Before2(o.version, c.most)
      BY <3>1, Declared, VersionOrder
    <3> QED
      BY <3>2, Declared DEF Admits
  <2>6. ASSUME ContractIsValid(c)
        PROVE  (/\ ~(c.api = "gles" /\ o.api = "gl") /\ ~(c.api = "gl" /\ o.api = "gles")
                /\ c.profile = o.profile)
               <=> /\ d.string = IF c.api = "gles" THEN "es" ELSE "desktop"
                   /\ c.api = "gl" => (d.mask <=> c.profile = "core")
    <3>1. (c.api = "gles") <=> (c.profile = "es")
      BY <2>6 DEF ContractIsValid, Coherent
    <3> QED
      BY <1>2, <2>1, <3>1, Declared, Driven
  <2> QED
    BY <1>2, <2>1, <2>2, <2>4, <2>5, <2>6, ValidateOK DEF Matches, o
<1> QED
  BY <1>1, <1>2, Driven

\* Such a context speaks the probe's language but for a dialect it is too old
\* for, and the old language of compatibility when it is a core context.
LEMMA SpeaksOK ==
    ASSUME NEW c \in Declarations, NEW d \in Drivers, Matches(c, d), d.broken = "no"
    PROVE  Speaks(d, ProbeLanguage(c)) <=>
             /\ c.profile = "compat" => ~d.core
             /\ c.dialect = "essl300" => ~Before2(d.version, <<3, 0>>)
             /\ c.dialect = "essl310" => ~Before2(d.version, <<3, 1>>)
<1> DEFINE a == d.version[1]
           b == d.version[2]
           x == c.version[1]
           y == c.version[2]
           l == ProbeLanguage(c)
<1>1. d.version = <<a, b>> /\ a \in Nat /\ b \in Nat
  BY Driven DEF Matches
<1>2. c.version = <<x, y>> /\ x \in Nat /\ y \in Nat /\ y <= 9
  BY Declared DEF Matches, ContractIsValid
<1>3. \A m, n \in Int : Before2(d.version, <<m, n>>) <=> a < m \/ (a = m /\ b < n)
  BY <1>1 DEF Before2
<1>4. CASE c.api = "gles"
  <2>1. /\ d.string = "es" /\ c.dialect \in {"essl100", "essl300", "essl310"}
        /\ c.profile = "es"
    BY <1>4, Declared DEF Matches, ContractIsValid, Coherent
  <2>2. /\ l[1] = "essl"
        /\ l[2] = IF c.dialect = "essl100" THEN 100 ELSE IF c.dialect = "essl300" THEN 300 ELSE 310
    BY <2>1 DEF ProbeLanguage
  <2> HIDE DEF l
  <2>3. Speaks(d, l) <=> l[2] <= (IF a < 3 THEN 100 ELSE 10 * (10 * a + b))
    <3>1. Before2(d.version, <<3, 0>>) <=> a < 3
      BY <1>1, <1>3
    <3> QED
      BY <2>1, <2>2, <3>1 DEF Speaks
  <2>4. /\ Before2(d.version, <<3, 0>>) <=> a < 3
        /\ Before2(d.version, <<3, 1>>) <=> a < 3 \/ (a = 3 /\ b < 1)
    BY <1>1, <1>3
  <2> HIDE DEF a, b
  <2>5. CASE c.dialect = "essl100"
    BY <1>1, <2>1, <2>2, <2>3, <2>5 DEF l
  <2>6. CASE c.dialect = "essl300"
    BY <1>1, <2>1, <2>2, <2>3, <2>4, <2>6 DEF l
  <2>7. CASE c.dialect = "essl310"
    BY <1>1, <2>1, <2>2, <2>3, <2>4, <2>7 DEF l
  <2> QED
    BY <2>1, <2>5, <2>6, <2>7 DEF l
<1>5. CASE c.api = "gl"
  <2>1. /\ d.string = "desktop" /\ c.dialect = "any" /\ c.profile \in {"core", "compat"}
    BY <1>5, Declared DEF Matches, ContractIsValid, Coherent
  <2>2. a >= 2
    BY <2>1, Driven DEF Matches
  <2>3. a > x \/ (a = x /\ b >= y)
    <3>1. d.version = c.version \/ Before2(c.version, d.version)
      BY Declared DEF Matches, Admits
    <3> QED
      BY <1>1, <1>2, <3>1 DEF Before2
  <2>4. c.profile = "core" => x > 3 \/ (x = 3 /\ y >= 2)
    <3>1. c.profile = "core" => ~Before2(c.version, <<3, 2>>)
      BY DEF Matches, ContractIsValid
    <3> QED
      BY <1>2, <3>1 DEF Before2
  <2> DEFINE spoken == CASE d.version = <<2, 0>> -> 110
                         [] d.version = <<2, 1>> -> 120
                         [] d.version = <<3, 2>> -> 150
                         [] d.version[1] = 3 /\ d.version # <<3, 2>> -> 330
                         [] OTHER -> 100 * d.version[1] + 10 * d.version[2]
  <2>5. Speaks(d, l) <=> l[1] = "glsl" /\ l[2] <= spoken /\ (d.core => l[2] >= 140)
    BY <2>1 DEF Speaks
  <2>6. \A m, n \in Int : d.version = <<m, n>> <=> a = m /\ b = n
    BY <1>1
  <2>7. spoken = IF a = 2 /\ b = 0 THEN 110 ELSE IF a = 2 /\ b = 1 THEN 120
                 ELSE IF a = 3 /\ b = 2 THEN 150 ELSE IF a = 3 THEN 330
                 ELSE 100 * a + 10 * b
    BY <1>1, <2>6
  <2>8. CASE c.profile = "compat"
    <3>1. l[1] = "glsl" /\ l[2] = IF x < 2 \/ (x = 2 /\ y < 1) THEN 110 ELSE 120
      BY <1>2, <2>1, <2>8 DEF ProbeLanguage, Before2
    <3>2. d.core \in BOOLEAN
      BY Driven
    <3> HIDE DEF l, spoken, a, b, x, y
    <3>3. l[2] <= spoken /\ ~(l[2] >= 140)
      BY <1>1, <1>2, <2>2, <2>3, <2>7, <3>1
    <3> QED
      BY <2>1, <2>5, <2>8, <3>1, <3>2, <3>3 DEF l
  <2>9. CASE c.profile = "core"
    <3>1. /\ l[1] = "glsl"
          /\ l[2] = IF x = 3 /\ y = 2 THEN 150 ELSE IF x = 3 THEN 330 ELSE 100 * x + 10 * y
      BY <1>2, <2>1, <2>9 DEF ProbeLanguage
    <3> HIDE DEF l, spoken, a, b, x, y
    <3>2. l[2] <= spoken /\ l[2] >= 140
      BY <1>1, <1>2, <2>2, <2>3, <2>4, <2>7, <2>9, <3>1
    <3> QED
      BY <2>1, <2>5, <2>9, <3>1, <3>2 DEF l
  <2> QED
    BY <2>1, <2>8, <2>9
<1> QED
  BY <1>4, <1>5, Declared

\* A declaration is fulfilled exactly when the context passes the probe.
LEMMA FulfilsOK ==
    ASSUME NEW c \in Declarations, NEW d \in Drivers
    PROVE  ProbePasses(c, d) <=> Fulfils(d, c)
<1>1. (Measure(d) # Unmeasured /\ Validate(c, Measure(d)) = "ok") <=> Matches(c, d)
  BY MatchesOK
<1>2. CASE Matches(c, d) /\ d.broken = "no"
  BY <1>1, <1>2, SpeaksOK DEF ProbePasses, Fulfils, Matches
<1>3. CASE ~(Matches(c, d) /\ d.broken = "no")
  BY <1>1, <1>3 DEF ProbePasses, Fulfils, Matches
<1> QED
  BY <1>2, <1>3

(***************************************************************************)
(* The measurements and the gate.                                          *)
(***************************************************************************)
\* What is left of a driver once the probe has compiled its stages.
CompiledOf(stages) == {s \in stages : Compiles(s)}

\* Where the measurement is: it is of a context the gate does not keep, so
\* that the gate does not change meanwhile, and what it has found is true.
MeasuringInv ==
    /\ contract \in Declarations /\ driver \in Drivers
    /\ step \in {"idle", "measure", "vertex", "fragment", "link", "drawable", "preflight"}
    /\ step # "idle" => pending \in Contexts /\ ~Keeps(pending) /\ ~dead
    /\ step \in {"vertex", "fragment", "link"} =>
         /\ measured.obtained = Measure(driver)
         /\ Measure(driver) # Unmeasured /\ Validate(contract, Measure(driver)) = "ok"
         /\ driver.broken # "entries"
    /\ step \in {"measure", "vertex", "fragment", "link"} => measured.probe = "skipped"
    /\ step \in {"drawable", "preflight"} =>
         /\ measured.obtained = Measure(driver)
         /\ measured.probe = "pass" <=> ProbePasses(contract, driver)
    /\ step = "fragment" => shaders = CompiledOf({"vertex"})
    /\ step = "link" => shaders = CompiledOf(Stages)
    /\ step \notin {"fragment", "link"} => shaders = {}
    /\ objects = Holding(shaders)

IsEvidence(e) ==
    e = [obtained |-> e.obtained, drawable |-> e.drawable, probe |-> e.probe,
         verdict |-> e.verdict]

\* What the gate keeps while it waits, and what its refusal tells.
KeptInv ==
    /\ IsEvidence(measured)
    /\ gate.phase \in {"awaiting", "proved"} => Fulfils(driver, contract)
    /\ gate.reason \in {"contract", "provider", "probe"} => ~Fulfils(driver, contract)
    /\ gate.phase = "awaiting" =>
         /\ IsEvidence(kept)
         /\ kept.obtained = Measure(driver)
         /\ kept.probe = "pass" /\ Validate(contract, kept.obtained) = "ok"
    /\ gate.phase \in {"ready", "awaiting"} => documents = <<>>

MeasuredInv == Inv /\ MeasuringInv /\ KeptInv /\ DocumentAgrees

LEMMA MeasuredStarts == MeasuredInit => MeasuredInv
<1> SUFFICES ASSUME MeasuredInit PROVE MeasuredInv
  OBVIOUS
<1>1. Inv
  BY InitInv DEF MeasuredInit
<1>2. gate.phase = "ready" /\ gate.reason = "ok" /\ receipts = <<>> /\ documents = <<>>
  BY DEF MeasuredInit, Init, Ready
<1>3. MeasuringInv
  BY DEF MeasuredInit, MeasuringInv, NoObjects
<1>4. KeptInv
  BY <1>2 DEF MeasuredInit, KeptInv, IsEvidence, NoEvidence
<1>5. DocumentAgrees
  BY <1>2 DEF DocumentAgrees
<1> QED
  BY <1>1, <1>3, <1>4, <1>5 DEF MeasuredInv

\* The measured gate is a gate: its verdicts and what it is told of a flip are
\* some that the gate may get.
LEMMA MeasuredSteps ==
    ASSUME MeasuringInv, [MeasuredNext]_allvars
    PROVE  [Next]_vars
<1>1. CASE Elsewhere
  <2>1. \A c \in Contexts : MakeWindowCurrent(c, "ok") => Next
    BY DEF Next, Measured
  <2> QED
    BY <1>1, <2>1 DEF Elsewhere, Next
<1>2. CASE FinishMeasure
  <2>1. pending \in Contexts /\ Outcome \in Measured
    BY <1>2, OutcomeOK DEF FinishMeasure, MeasuringInv
  <2> QED
    BY <1>2, <2>1 DEF FinishMeasure, Next
<1>3. ASSUME NEW o \in Observations, NEW d \in Steps, Flip(o, d)
      PROVE  Next
  BY <1>3, SeenOK DEF Flip, Next, SomeSwap
<1>4. CASE UNCHANGED vars
  BY <1>4
<1>5. (\/ \E c \in Contexts : BeginMeasure(c)
       \/ MeasureContext
       \/ CompileStage("vertex", "fragment") \/ CompileStage("fragment", "link")
       \/ CompileFailed \/ ProgramFailed \/ LinkProgram
       \/ \E size \in Sizes : ReadDrawable(size)
       \/ UNCHANGED allvars)
      => UNCHANGED vars
  BY DEF BeginMeasure, MeasureContext, CompileStage, CompileFailed, ProgramFailed, LinkProgram, EndProbe,
         ReadDrawable, allvars
<1> QED
  BY <1>1, <1>2, <1>3, <1>4, <1>5 DEF MeasuredNext

\* A step that leaves the gate alone and the measurement idle.
LEMMA ElsewhereKeeps ==
    ASSUME MeasuredInv, Elsewhere
    PROVE  MeasuringInv' /\ KeptInv' /\ DocumentAgrees'
<1>1. /\ step = "idle"
      /\ UNCHANGED <<contract, driver, step, pending, measured, shaders, objects, kept, documents>>
  BY DEF Elsewhere, mvars, measuring
<1>2. UNCHANGED <<gate, receipts>>
  BY DEF Elsewhere, Release, MakeCurrentFails, MakePbufferCurrent, MakeWindowCurrent
<1> QED
  BY <1>1, <1>2 DEF MeasuredInv, MeasuringInv, KeptInv, DocumentAgrees, IsEvidence

\* The context holds the shaders the probe has names of, and nothing of a
\* stage that failed.
LEMMA StageKeepsHolding ==
    ASSUME NEW S, NEW stage, stage \notin S
    PROVE  /\ Created(stage, Holding(S)) = Holding(S \cup {stage})
           /\ DeleteShaders({stage}, Created(stage, Holding(S))) = Holding(S)
<1>1. Created(stage, Holding(S)) = Holding(S \cup {stage})
  BY DEF Created, Holding
<1>2. (S \cup {stage}) \ ({stage} \ {}) = S /\ {} \cup ({stage} \cap {}) = {}
  OBVIOUS
<1>3. DeleteShaders({stage}, Holding(S \cup {stage})) = Holding(S)
  BY <1>2 DEF DeleteShaders, Holding
<1> QED
  BY <1>1, <1>3

\* Each end of the probe deletes what it holds: without a program at once, with
\* one when the program goes.
LEMMA EndsHoldNothing ==
    ASSUME shaders \subseteq Stages, objects = Holding(shaders)
    PROVE  /\ StagesGone(objects) = Holding({})
           /\ shaders = Stages => ProgramGone(objects) = Holding({})
<1>1. StagesGone(objects) = Holding({})
  <2>1. shaders \ (shaders \ {}) = {} /\ {} \cup (shaders \cap {}) = {}
    OBVIOUS
  <2> QED
    BY <2>1 DEF StagesGone, DeleteShaders, Holding
<1>2. ASSUME shaders = Stages PROVE ProgramGone(objects) = Holding({})
  <2> DEFINE made == [live |-> Stages \cup {"program"}, attached |-> Stages, flagged |-> {}]
             left == [live |-> Stages \cup {"program"}, attached |-> Stages,
                      flagged |-> Stages]
  <2>1. Attached(Created("program", objects)) = made
    <3>1. objects = [live |-> Stages, attached |-> {}, flagged |-> {}]
      BY <1>2 DEF Holding
    <3>2. Created("program", objects) = [live |-> Stages \cup {"program"}, attached |-> {},
                                         flagged |-> {}]
      BY <3>1 DEF Created
    <3> QED
      BY <3>2 DEF Attached
  <2>2. DeleteShaders(Stages, made) = left
    <3>1. (Stages \cup {"program"}) \ (Stages \ Stages) = Stages \cup {"program"}
      OBVIOUS
    <3>2. {} \cup (Stages \cap Stages) = Stages
      OBVIOUS
    <3> QED
      BY <3>1, <3>2 DEF DeleteShaders
  <2>3. DeleteProgram(left) = Holding({})
    <3>1. (Stages \cup {"program"}) \ ({"program"} \cup Stages) = {}
      OBVIOUS
    <3> QED
      BY <3>1 DEF DeleteProgram, NoObjects, Holding
  <2> QED
    BY <2>1, <2>2, <2>3 DEF ProgramGone
<1> QED
  BY <1>1, <1>2

\* The steps of a measurement change neither the gate nor the documents.
LEMMA MeasuringKeeps ==
    ASSUME MeasuredInv,
           \/ \E c \in Contexts : BeginMeasure(c)
           \/ MeasureContext
           \/ CompileStage("vertex", "fragment") \/ CompileStage("fragment", "link")
           \/ CompileFailed \/ ProgramFailed \/ LinkProgram
           \/ \E size \in Sizes : ReadDrawable(size)
    PROVE  MeasuringInv' /\ KeptInv' /\ DocumentAgrees'
<1>1. UNCHANGED <<gate, token, dead, receipts, contract, driver, kept, documents>>
  BY DEF BeginMeasure, MeasureContext, CompileStage, CompileFailed, ProgramFailed, LinkProgram, EndProbe,
         ReadDrawable, vars
<1>2. \A c : Keeps(c)' <=> Keeps(c)
  BY <1>1 DEF Keeps
<1>3. \A s : Compiles(s)' <=> Compiles(s)
  BY <1>1 DEF Compiles
<1>4. IsEvidence(measured') => KeptInv'
  BY <1>1 DEF MeasuredInv, KeptInv, IsEvidence
<1>5. DocumentAgrees'
  BY <1>1 DEF MeasuredInv, DocumentAgrees
<1>6. IsEvidence(measured)
  BY DEF MeasuredInv, KeptInv
<1>7. ASSUME NEW c \in Contexts, BeginMeasure(c) PROVE MeasuringInv' /\ KeptInv'
  <2>1. /\ step' = "measure" /\ pending' = c /\ measured' = NoEvidence
        /\ UNCHANGED <<shaders, objects>>
        /\ ~dead /\ ~Keeps(c) /\ step = "idle"
    BY <1>7 DEF BeginMeasure
  <2>2. IsEvidence(measured') /\ measured'.probe = "skipped"
    BY <2>1 DEF IsEvidence, NoEvidence
  <2>3. ~Keeps(pending)'
    BY <1>1, <2>1 DEF Keeps
  <2> QED
    BY <1>1, <1>4, <2>1, <2>2, <2>3 DEF MeasuredInv, MeasuringInv
<1>8. CASE MeasureContext
  <2>1. /\ measured' = [measured EXCEPT !.obtained = Measure(driver)]
        /\ step = "measure" /\ UNCHANGED <<pending, shaders, objects>>
    BY <1>8 DEF MeasureContext
  <2> DEFINE Try == /\ Measure(driver) # Unmeasured
                    /\ Validate(contract, Measure(driver)) = "ok"
                    /\ driver.broken # "entries"
  <2>2. step' = IF Try THEN "vertex" ELSE "drawable"
    BY <1>8 DEF MeasureContext
  <2>3. IsEvidence(measured') /\ measured'.obtained = Measure(driver)
        /\ measured'.probe = "skipped"
    BY <1>6, <2>1 DEF IsEvidence, MeasuredInv, MeasuringInv
  <2>4. ~Try => ~ProbePasses(contract, driver)
    BY DEF ProbePasses
  <2>5. ~Keeps(pending)'
    BY <1>1, <2>1 DEF Keeps, MeasuredInv, MeasuringInv
  <2> HIDE DEF Try
  <2>6. Try => /\ Measure(driver) # Unmeasured
               /\ Validate(contract, Measure(driver)) = "ok"
               /\ driver.broken # "entries"
    BY DEF Try
  <2> QED
    BY <1>1, <1>4, <1>5, <2>1, <2>2, <2>3, <2>4, <2>5, <2>6 DEF MeasuredInv, MeasuringInv
<1>9. CASE CompileStage("vertex", "fragment")
  <2>1. /\ step = "vertex" /\ step' = "fragment" /\ UNCHANGED <<pending, measured>>
        /\ shaders' = IF Compiles("vertex") THEN shaders \cup {"vertex"} ELSE shaders
    BY <1>9 DEF CompileStage
  <2>2. shaders = {} /\ objects = Holding(shaders)
    BY <2>1 DEF MeasuredInv, MeasuringInv
  <2>3. shaders' = CompiledOf({"vertex"})'
    BY <1>3, <2>1, <2>2 DEF CompiledOf
  <2>4. objects' = Holding(shaders)'
    BY <1>9, <2>2, StageKeepsHolding DEF CompileStage
  <2>5. ~Keeps(pending)'
    BY <1>1, <2>1 DEF Keeps, MeasuredInv, MeasuringInv
  <2> QED
    BY <1>1, <1>4, <1>5, <1>6, <2>1, <2>3, <2>4, <2>5 DEF MeasuredInv, MeasuringInv
<1>10. CASE CompileStage("fragment", "link")
  <2>1. /\ step = "fragment" /\ step' = "link" /\ UNCHANGED <<pending, measured>>
        /\ shaders' = IF Compiles("fragment") THEN shaders \cup {"fragment"} ELSE shaders
    BY <1>10 DEF CompileStage
  <2>2. shaders = CompiledOf({"vertex"}) /\ objects = Holding(shaders)
    BY <2>1 DEF MeasuredInv, MeasuringInv
  <2>3. shaders' = CompiledOf(Stages)'
    BY <1>3, <2>1, <2>2 DEF CompiledOf, Stages
  <2>4. objects' = Holding(shaders)'
    <3>1. "fragment" \notin shaders
      BY <2>2 DEF CompiledOf
    <3>2. /\ Created("fragment", objects) = Holding(shaders \cup {"fragment"})
          /\ DeleteShaders({"fragment"}, Created("fragment", objects)) = Holding(shaders)
      BY <2>2, <3>1, StageKeepsHolding
    <3> QED
      BY <1>10, <3>2 DEF CompileStage
  <2>5. ~Keeps(pending)'
    BY <1>1, <2>1 DEF Keeps, MeasuredInv, MeasuringInv
  <2> QED
    BY <1>1, <1>4, <1>5, <1>6, <2>1, <2>3, <2>4, <2>5 DEF MeasuredInv, MeasuringInv
<1>11. CASE CompileFailed \/ ProgramFailed \/ LinkProgram
  <2>0. PICK result, gl :
          /\ EndProbe(result, gl)
          /\ \/ shaders # Stages /\ result = "compile-failed" /\ gl = StagesGone(objects)
             \/ /\ shaders = Stages /\ driver.broken = "program" /\ result = "link-failed"
                /\ gl = StagesGone(objects)
             \/ /\ shaders = Stages /\ driver.broken # "program"
                /\ result = (IF driver.broken = "link" THEN "link-failed" ELSE "pass")
                /\ gl = ProgramGone(objects)
    BY <1>11 DEF CompileFailed, ProgramFailed, LinkProgram
  <2>1. /\ step = "link" /\ step' = "drawable" /\ UNCHANGED pending
        /\ measured' = [measured EXCEPT !.probe = result]
        /\ shaders' = {} /\ objects' = gl
    BY <2>0 DEF EndProbe
  <2>2. shaders = CompiledOf(Stages) /\ objects = Holding(shaders)
    BY <2>1 DEF MeasuredInv, MeasuringInv
  <2>3. shaders = Stages <=> Compiles("vertex") /\ Compiles("fragment")
    <3>1. Compiles("vertex") /\ Compiles("fragment") => shaders = Stages
      BY <2>2 DEF CompiledOf, Stages
    <3>2. shaders = Stages => Compiles("vertex") /\ Compiles("fragment")
      BY <2>2 DEF CompiledOf, Stages
    <3> QED
      BY <3>1, <3>2
  <2>4. result = "pass" <=> ProbePasses(contract, driver)
    <3>1. /\ Measure(driver) # Unmeasured /\ Validate(contract, Measure(driver)) = "ok"
          /\ driver.broken # "entries"
      BY <2>1 DEF MeasuredInv, MeasuringInv
    <3>2. driver.broken \in {"no", "entries", "vertex", "fragment", "program", "link"}
      BY Driven DEF MeasuredInv, MeasuringInv
    <3> QED
      BY <2>0, <2>3, <3>1, <3>2 DEF ProbePasses, Compiles
  <2>5. objects' = Holding(shaders')
    <3>1. shaders \subseteq Stages
      BY <2>2 DEF CompiledOf
    <3> QED
      BY <2>0, <2>1, <2>2, <3>1, EndsHoldNothing
  <2>6. /\ IsEvidence(measured') /\ measured'.obtained = measured.obtained
        /\ measured'.probe = result
    BY <1>6, <2>1 DEF IsEvidence
  <2>7. ~Keeps(pending)'
    BY <1>1, <2>1 DEF Keeps, MeasuredInv, MeasuringInv
  <2> QED
    BY <1>1, <1>4, <1>5, <2>1, <2>4, <2>5, <2>6, <2>7 DEF MeasuredInv, MeasuringInv
<1>12. ASSUME NEW size \in Sizes, ReadDrawable(size) PROVE MeasuringInv' /\ KeptInv'
  <2>1. /\ step = "drawable" /\ step' = "preflight" /\ UNCHANGED <<pending, shaders, objects>>
        /\ measured' = [measured EXCEPT !.drawable = size]
    BY <1>12 DEF ReadDrawable
  <2>2. /\ IsEvidence(measured') /\ measured'.obtained = measured.obtained
        /\ measured'.probe = measured.probe
    BY <1>6, <2>1 DEF IsEvidence
  <2>3. ~Keeps(pending)'
    BY <1>1, <2>1 DEF Keeps, MeasuredInv, MeasuringInv
  <2> QED
    BY <1>1, <1>4, <2>1, <2>2, <2>3 DEF MeasuredInv, MeasuringInv
<1> QED
  BY <1>5, <1>7, <1>8, <1>9, <1>10, <1>11, <1>12

\* The gate decides, on what the measurement found.
LEMMA FinishKeeps ==
    ASSUME MeasuredInv, FinishMeasure
    PROVE  MeasuringInv' /\ KeptInv' /\ DocumentAgrees'
<1>1. /\ step = "preflight" /\ step' = "idle" /\ measured' = NoEvidence
      /\ MakeWindowCurrent(pending, Outcome)
      /\ UNCHANGED <<contract, driver, shaders, objects, documents>>
      /\ kept' = IF PreflightReason \in {"ok"} THEN measured
                 ELSE [measured EXCEPT !.verdict = PreflightReason]
  BY DEF FinishMeasure
<1>2. pending \in Contexts /\ ~Keeps(pending) /\ ~dead
  BY <1>1 DEF MeasuredInv, MeasuringInv
<1>3. gate.phase \in {"ready", "awaiting"}
  BY <1>2 DEF MeasuredInv, Inv, Keeps, TypeOK, GateState, Phases
<1>4. gate' = Preflight(Ready, pending, Outcome) /\ UNCHANGED receipts
  <2>1. Before = Ready
    BY <1>3 DEF MeasuredInv, Inv, Before
  <2>2. /\ UNCHANGED receipts
        /\ gate' = Preflight(Before, pending, Outcome)
    BY <1>1, <1>2 DEF MakeWindowCurrent
  <2> QED
    BY <2>1, <2>2
<1>5. /\ gate'.phase = (IF Outcome = "ok" THEN "awaiting" ELSE "rejected")
      /\ gate'.reason = Outcome
  <2> DEFINE g == gate'
  <2>1. g = Preflight(Ready, pending, Outcome)
    BY <1>4
  <2> HIDE DEF g
  <2>2. g.phase = (IF Outcome = "ok" THEN "awaiting" ELSE "rejected") /\ g.reason = Outcome
    BY <1>2, <2>1, OutcomeOK, PreflightOK
  <2> QED
    BY <2>2 DEF g
<1>6. Outcome = "ok" <=> Fulfils(driver, contract)
  <2>1. /\ measured.obtained = Measure(driver)
        /\ measured.probe = "pass" <=> ProbePasses(contract, driver)
    BY <1>1 DEF MeasuredInv, MeasuringInv
  <2>2. Fit <=> ProbePasses(contract, driver)
    BY <2>1 DEF Fit, ProbePasses
  <2> QED
    BY <2>2, OutcomeOK, FulfilsOK DEF MeasuredInv, MeasuringInv
<1>7. documents = <<>> /\ documents' = <<>>
  BY <1>1, <1>3 DEF MeasuredInv, KeptInv
<1>8. MeasuringInv'
  BY <1>1 DEF MeasuredInv, MeasuringInv
<1>9. KeptInv'
  <2>1. IsEvidence(measured')
    BY <1>1 DEF IsEvidence, NoEvidence
  <2>2. Outcome = "ok" =>
          /\ kept' = measured /\ IsEvidence(measured) /\ measured.obtained = Measure(driver)
          /\ measured.probe = "pass" /\ Validate(contract, measured.obtained) = "ok"
    BY <1>1, OutcomeOK DEF Fit, MeasuredInv, MeasuringInv, KeptInv
  <2>3. (gate'.phase = "awaiting" <=> Outcome = "ok") /\ gate'.phase \in {"awaiting", "rejected"}
    BY <1>5
  <2> QED
    BY <1>1, <1>5, <1>6, <1>7, <2>1, <2>2, <2>3 DEF KeptInv
<1>10. DocumentAgrees'
  BY <1>1, <1>4 DEF MeasuredInv, DocumentAgrees
<1> QED
  BY <1>8, <1>9, <1>10

\* What an observation may conclude, of any gate.
LEMMA ObserveSays ==
    ASSUME NEW g \in GateState, NEW c, NEW seen \in Seen, NEW d \in Steps
    PROVE  LET h == Observe(g, c, seen, d)
           IN  /\ h.reason \in {g.reason, "ok", "stuck", "misuse", "identity"} \cup Seen
               /\ g.phase \in {"proved", "rejected"} => h = g
               /\ h.phase = "awaiting" => g.phase = "awaiting"
               /\ h.phase # "ready"
               /\ g.phase = "ready" => h.phase = "rejected" /\ h.emitted = g.emitted
               /\ g.phase = "awaiting" /\ ~g.emitted =>
                    /\ h.phase \in {"awaiting", "proved", "rejected"}
                    /\ h.phase = "awaiting" => ~h.emitted
                    /\ h.phase = "proved" => h.emitted
                    /\ h.emitted => \/ seen = "usable" /\ h.reason = "ok" /\ h.phase = "proved"
                                    \/ /\ seen = "placeholder" /\ h.reason = "stuck"
                                       /\ h.phase = "rejected"
<1> DEFINE h == Observe(g, c, seen, d)
           l == Left(g, d)
           k == [g EXCEPT !.budget = l]
<1>1. g.phase \in {"ready", "awaiting", "proved", "rejected"} /\ g.emitted \in BOOLEAN
  BY DEF GateState, Phases
<1>2. CASE g.phase \in {"proved", "rejected"}
  BY <1>2 DEF Observe
<1>3. \A why : /\ Reject(g, why).phase = "rejected" /\ Reject(g, why).reason = why
               /\ Reject(g, why).emitted = g.emitted
  BY DEF Reject, GateState
<1>4. CASE g.phase = "ready"
  <2>1. h = Reject(g, "misuse")
    BY <1>4 DEF Observe
  <2> HIDE DEF h
  <2> QED
    BY <1>3, <1>4, <2>1 DEF h
<1>5. CASE g.phase = "awaiting" /\ c # g.context
  <2>1. h = Reject(g, "identity")
    BY <1>5 DEF Observe
  <2> HIDE DEF h
  <2> QED
    BY <1>3, <1>5, <2>1 DEF h
<1>6. CASE g.phase = "awaiting" /\ c = g.context
  <2>1. h = Classify(g, seen, l)
    BY <1>6 DEF Observe
  <2> HIDE DEF l
  <2>2. /\ k.phase = "awaiting" /\ k.reason = g.reason /\ k.emitted = g.emitted
        /\ DOMAIN k = {"phase", "reason", "context", "budget", "emitted"}
    BY <1>6 DEF GateState
  <2>3. \A why : /\ Reject(k, why).phase = "rejected" /\ Reject(k, why).reason = why
                 /\ Reject(k, why).emitted = g.emitted
                 /\ DOMAIN Reject(k, why) = DOMAIN k
    BY <2>2 DEF Reject
  <2>4. CASE seen = "usable"
    <3>1. h = [k EXCEPT !.phase = "proved", !.reason = "ok", !.emitted = TRUE]
      BY <2>1, <2>4 DEF Classify
    <3> HIDE DEF h, k
    <3>2. h.phase = "proved" /\ h.reason = "ok" /\ h.emitted
      BY <2>2, <3>1
    <3> QED
      BY <1>6, <2>4, <3>2 DEF h
  <2>5. CASE seen = "placeholder" /\ l = 0
    <3>1. h = [Reject(k, "stuck") EXCEPT !.emitted = TRUE]
      BY <2>1, <2>5 DEF Classify
    <3> HIDE DEF h, k
    <3>2. h.phase = "rejected" /\ h.reason = "stuck" /\ h.emitted
      BY <2>2, <2>3, <3>1
    <3> QED
      BY <1>6, <2>5, <3>2 DEF h
  <2>6. CASE seen = "placeholder" /\ l # 0
    <3>1. h = k
      BY <2>1, <2>6 DEF Classify
    <3> HIDE DEF h, k
    <3> QED
      BY <1>6, <2>2, <3>1 DEF h
  <2>7. CASE seen \notin {"usable", "placeholder"}
    <3>1. h = Reject(k, seen)
      BY <2>1, <2>7 DEF Classify
    <3> HIDE DEF h, k
    <3>2. h.phase = "rejected" /\ h.reason = seen /\ h.emitted = g.emitted
      BY <2>3, <3>1
    <3> QED
      BY <1>6, <2>7, <3>2 DEF h
  <2> QED
    BY <2>4, <2>5, <2>6, <2>7
<1> QED
  BY <1>1, <1>2, <1>4, <1>5, <1>6

\* What is written of a gate that concludes with this flip.
LEMMA WrittenOK ==
    ASSUME MeasuringInv, KeptInv, gate.phase = "awaiting", NEW o \in Observations,
           NEW verdict \in {"ok", "drawable-stuck-1x1"},
           SeenOf(o) = IF verdict = "ok" THEN "usable" ELSE "placeholder"
    PROVE  LET e == WrittenEvidence(o, verdict)
               document == Document(contract, e)
           IN  /\ document.written
               /\ document.verdict = IF verdict = "ok" THEN "OK" ELSE "FAIL"
               /\ document.drawable = o.size
               /\ DrawableUsable(o.size) <=> verdict = "ok"
               /\ document.probe = "pass"
               /\ Admits(contract, document.obtained.version)
<1> DEFINE e == WrittenEvidence(o, verdict)
<1>1. /\ o.same /\ o.clock /\ o.size[1] > 0 /\ o.size[2] > 0
      /\ DrawableUsable(o.size) <=> verdict = "ok"
  BY SeenOK
<1>2. /\ IsEvidence(kept) /\ kept.obtained = Measure(driver) /\ kept.probe = "pass"
      /\ Validate(contract, kept.obtained) = "ok"
      /\ Fulfils(driver, contract)
  BY DEF KeptInv
<1>3. /\ e.obtained = Measure(driver) /\ e.drawable = o.size /\ e.probe = "pass"
      /\ e.verdict = verdict
  BY <1>1, <1>2 DEF WrittenEvidence, DrawableAfter, IsEvidence
<1>4. ContractIsValid(contract) /\ ObtainedIsValid(Measure(driver))
  BY <1>2, ValidateOK
<1> HIDE DEF e
<1>5. Serialisable(contract, e)
  <2>1. o.size[1] \in Int /\ o.size[2] \in Int
    BY MeasuredGateAssumption DEF Observations
  <2>2. e.drawable[1] >= 0 /\ e.drawable[2] >= 0
    BY <1>1, <1>3, <2>1
  <2> QED
    BY <1>1, <1>2, <1>3, <1>4, <2>2 DEF Serialisable
<1>6. Measure(driver).version = driver.version /\ Admits(contract, driver.version)
  BY <1>2, MeasuredGateAssumption DEF Fulfils, Measure, MeasuringInv
<1> DEFINE document == Document(contract, e)
<1>7. /\ document.written /\ document.obtained = e.obtained /\ document.drawable = e.drawable
      /\ document.probe = e.probe
      /\ document.verdict = IF e.verdict = "ok" THEN "OK" ELSE "FAIL"
  BY <1>5 DEF Document
<1> HIDE DEF document
<1>8. /\ document.written
      /\ document.verdict = IF verdict = "ok" THEN "OK" ELSE "FAIL"
      /\ document.drawable = o.size
      /\ DrawableUsable(o.size) <=> verdict = "ok"
      /\ document.probe = "pass"
      /\ Admits(contract, document.obtained.version)
  BY <1>1, <1>3, <1>6, <1>7
<1> QED
  BY <1>8 DEF document, e

LEMMA FlipKeeps ==
    ASSUME MeasuredInv, NEW o \in Observations, NEW d \in Steps, Flip(o, d)
    PROVE  MeasuringInv' /\ KeptInv' /\ DocumentAgrees'
<1>1. /\ step = "idle" /\ UNCHANGED <<contract, driver, step, pending, measured, shaders, objects>>
      /\ Swap(SeenOf(o), d) /\ SeenOf(o) \in Seen
  BY SeenOK DEF Flip, measuring
<1>2. /\ gate' = Observe(gate, current, SeenOf(o), d) /\ gate \in GateState
      /\ receipts' = IF gate'.emitted /\ ~gate.emitted
                     THEN Append(receipts, [context |-> current, reason |-> gate'.reason])
                     ELSE receipts
  BY <1>1 DEF Swap, MeasuredInv, Inv, TypeOK
<1>3. /\ gate'.reason \in {gate.reason, "ok", "stuck", "misuse", "identity"} \cup Seen
      /\ gate.phase \in {"proved", "rejected"} => gate' = gate
      /\ gate'.phase = "awaiting" => gate.phase = "awaiting"
      /\ gate'.phase # "ready"
      /\ gate.phase = "ready" => gate'.phase = "rejected" /\ gate'.emitted = gate.emitted
      /\ gate.phase = "awaiting" /\ ~gate.emitted =>
           /\ gate'.phase \in {"awaiting", "proved", "rejected"}
           /\ gate'.phase = "awaiting" => ~gate'.emitted
           /\ gate'.phase = "proved" => gate'.emitted
           /\ gate'.emitted =>
                \/ SeenOf(o) = "usable" /\ gate'.reason = "ok" /\ gate'.phase = "proved"
                \/ SeenOf(o) = "placeholder" /\ gate'.reason = "stuck" /\ gate'.phase = "rejected"
  <2> DEFINE h == Observe(gate, current, SeenOf(o), d)
  <2>1. /\ h.reason \in {gate.reason, "ok", "stuck", "misuse", "identity"} \cup Seen
        /\ gate.phase \in {"proved", "rejected"} => h = gate
        /\ h.phase = "awaiting" => gate.phase = "awaiting"
        /\ h.phase # "ready"
        /\ gate.phase = "ready" => h.phase = "rejected" /\ h.emitted = gate.emitted
        /\ gate.phase = "awaiting" /\ ~gate.emitted =>
             /\ h.phase \in {"awaiting", "proved", "rejected"}
             /\ h.phase = "awaiting" => ~h.emitted
             /\ h.phase = "proved" => h.emitted
             /\ h.emitted =>
                  \/ SeenOf(o) = "usable" /\ h.reason = "ok" /\ h.phase = "proved"
                  \/ SeenOf(o) = "placeholder" /\ h.reason = "stuck" /\ h.phase = "rejected"
    BY <1>1, <1>2, ObserveSays
  <2> HIDE DEF h
  <2>2. gate' = h
    BY <1>2 DEF h
  <2> QED
    BY <2>1, <2>2
<1>4. MeasuringInv'
  BY <1>1 DEF MeasuredInv, MeasuringInv
<1>5. /\ gate.phase = "awaiting" => ~gate.emitted /\ receipts = <<>>
      /\ gate.phase \in {"ready", "awaiting", "proved", "rejected"}
  BY <1>2 DEF MeasuredInv, Inv, OneReceipt, GateState, Phases
<1>6. IsEvidence(measured')
  BY <1>1 DEF MeasuredInv, KeptInv
<1>7. gate'.reason \in {"contract", "provider", "probe"} => ~Fulfils(driver, contract)
  <2>1. gate'.reason \in {"contract", "provider", "probe"} => gate'.reason = gate.reason
    BY <1>3 DEF Seen
  <2> QED
    BY <2>1 DEF MeasuredInv, KeptInv
<1>8. CASE gate.phase # "awaiting"
  <2>1. receipts' = receipts /\ documents' = documents
    <3>1. gate'.emitted <=> gate.emitted
      BY <1>3, <1>5, <1>8
    <3>2. receipts' = receipts
      BY <1>2, <3>1
    <3> QED
      BY <3>2 DEF Flip
  <2>2. gate'.phase # "awaiting" /\ (gate'.phase = "proved" => gate.phase = "proved")
    BY <1>3, <1>5, <1>8
  <2>3. KeptInv'
    BY <1>1, <1>3, <1>6, <1>7, <2>2 DEF MeasuredInv, KeptInv
  <2> QED
    BY <1>1, <1>4, <2>1, <2>3 DEF MeasuredInv, DocumentAgrees
<1>9. CASE gate.phase = "awaiting" /\ ~gate'.emitted
  <2>1. receipts' = receipts /\ documents' = documents
    BY <1>2, <1>9 DEF Flip
  <2>2. gate'.phase \in {"awaiting", "rejected"}
    BY <1>3, <1>5, <1>9
  <2>3. ASSUME gate'.phase = "awaiting"
        PROVE  /\ IsEvidence(kept') /\ kept'.obtained = kept.obtained
               /\ kept'.probe = kept.probe
    <3>1. kept' = DrawableAfter(kept, o) /\ IsEvidence(kept)
      BY <1>9, <2>3 DEF Flip, MeasuredInv, KeptInv
    <3> QED
      BY <3>1 DEF DrawableAfter, IsEvidence
  <2>4. KeptInv'
    BY <1>1, <1>6, <1>7, <1>9, <2>1, <2>2, <2>3 DEF MeasuredInv, KeptInv
  <2> QED
    BY <1>1, <1>4, <2>1, <2>4 DEF MeasuredInv, DocumentAgrees
<1>10. CASE gate.phase = "awaiting" /\ gate'.emitted
  <2> DEFINE receipt == [context |-> current, reason |-> gate'.reason]
             document == Document(contract, kept')
             verdict == VerdictOf(gate')
  <2>1. \/ SeenOf(o) = "usable" /\ gate'.reason = "ok" /\ gate'.phase = "proved"
        \/ SeenOf(o) = "placeholder" /\ gate'.reason = "stuck" /\ gate'.phase = "rejected"
    BY <1>3, <1>5, <1>10
  <2>2. receipts = <<>> /\ documents = <<>> /\ receipts' = <<receipt>>
    <3>1. receipts' = Append(receipts, receipt)
      BY <1>2, <1>5, <1>10
    <3> QED
      BY <1>5, <1>10, <3>1 DEF MeasuredInv, KeptInv
  <2>3. kept' = WrittenEvidence(o, verdict)
    BY <1>10, <2>1 DEF Flip
  <2>4. /\ verdict \in {"ok", "drawable-stuck-1x1"}
        /\ verdict = "ok" <=> gate'.reason = "ok"
        /\ SeenOf(o) = IF verdict = "ok" THEN "usable" ELSE "placeholder"
    BY <2>1 DEF VerdictOf
  <2> HIDE DEF verdict
  <2>5. /\ document.written
        /\ document.verdict = IF verdict = "ok" THEN "OK" ELSE "FAIL"
        /\ document.drawable = o.size
        /\ DrawableUsable(o.size) <=> verdict = "ok"
        /\ document.probe = "pass"
        /\ Admits(contract, document.obtained.version)
    BY <1>10, <2>3, <2>4, WrittenOK DEF MeasuredInv
  <2> HIDE DEF document
  <2>6. documents' = <<document>>
    <3>1. receipts' # receipts
      BY <2>2
    <3>2. documents' = Append(documents, document)
      BY <1>1, <2>5, <3>1 DEF Flip, document
    <3> QED
      BY <2>2, <3>2
  <2>7. KeptInv'
    BY <1>1, <1>6, <1>7, <1>10, <2>1 DEF MeasuredInv, KeptInv
  <2>8. DocumentAgrees'
    <3>1. Len(documents') = 1 /\ Len(receipts') = 1 /\ DOMAIN documents' = {1}
      BY <2>2, <2>6
    <3>2. documents'[1] = document /\ receipts'[1].reason = gate'.reason
      BY <2>2, <2>6
    <3> QED
      BY <1>1, <2>4, <2>5, <3>1, <3>2 DEF DocumentAgrees
  <2> QED
    BY <1>4, <2>7, <2>8
<1> QED
  BY <1>8, <1>9, <1>10

LEMMA MeasuredKeeps == MeasuredInv /\ [MeasuredNext]_allvars => MeasuredInv'
<1> SUFFICES ASSUME MeasuredInv, [MeasuredNext]_allvars PROVE MeasuredInv'
  OBVIOUS
<1>1. Inv'
  BY MeasuredSteps, NextInv DEF MeasuredInv
<1>2. CASE UNCHANGED allvars
  <2>1. /\ UNCHANGED <<gate, token, dead, receipts>>
        /\ UNCHANGED <<contract, driver, step, pending, measured, shaders, objects, kept, documents>>
    BY <1>2 DEF allvars, vars, mvars, measuring
  <2> QED
    BY <1>1, <2>1
       DEF MeasuredInv, MeasuringInv, KeptInv, DocumentAgrees, Keeps, CompiledOf, Compiles,
           IsEvidence
<1> QED
  BY <1>1, <1>2, ElsewhereKeeps, MeasuringKeeps, FinishKeeps, FlipKeeps
     DEF MeasuredNext, MeasuredInv

LEMMA MeasuredInvariance == MeasuredSpec => []MeasuredInv
  BY MeasuredStarts, MeasuredKeeps, PTL DEF MeasuredSpec

\* The measured gate implements the gate: whatever the driver is and whatever
\* the page flips look like, its steps are steps of the gate or stutter.
THEOREM MeasuredGateIsAGate == MeasuredSpec => Spec
<1>1. MeasuredInit => Init
  BY DEF MeasuredInit
<1>2. MeasuredInv /\ [MeasuredNext]_allvars => [Next]_vars
  BY MeasuredSteps DEF MeasuredInv
<1> QED
  BY <1>1, <1>2, MeasuredInvariance, PTL DEF MeasuredSpec, Spec

\* A context is let through exactly when the driver is what the port declared
\* and works, for every declaration and every driver.
THEOREM ContractsAreHonoured == MeasuredSpec => []ContractHonoured
<1>1. MeasuredInv => ContractHonoured
  BY DEF MeasuredInv, KeptInv, ContractHonoured
<1> QED
  BY <1>1, MeasuredInvariance, PTL

\* The document and the receipt are one statement, backed by what was measured.
THEOREM DocumentsAgree == MeasuredSpec => []DocumentAgrees
<1>1. MeasuredInv => DocumentAgrees
  BY DEF MeasuredInv
<1> QED
  BY <1>1, MeasuredInvariance, PTL

\* Whatever fails in the probe, and whichever of its ends it takes, the deletes
\* of that branch leave no shader and no program alive in the guest's context.
THEOREM ProbeLeavesNothing == MeasuredSpec => []NothingLeft
<1>1. MeasuredInv => NothingLeft
  BY DEF MeasuredInv, MeasuringInv, NothingLeft, Holding
<1> QED
  BY <1>1, MeasuredInvariance, PTL
===============================================================================
