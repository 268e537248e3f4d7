----------------------------- MODULE PresentGate -----------------------------
(***************************************************************************)
(* The two-phase graphics evidence gate (nxgl_graphics_present_gate.c) as  *)
(* its callers drive it: eglMakeCurrent asks for the preflight of a window *)
(* context, every page flip reports what it sees afterwards, and a refusal *)
(* ends the process.                                                       *)
(*                                                                         *)
(* One thread at a time owns the window surface, so the calls do not       *)
(* overlap.  Time is what is left of the budget: the code stores the       *)
(* deadline and compares it with the clock.  The contract handed to the    *)
(* gate is the valid constant of st_graphics_contract_prepare.             *)
(***************************************************************************)
EXTENDS Integers, Sequences

CONSTANTS
    Contexts,     \* GL contexts the guest creates; an id is never used twice
    NoContext,
    Timeout,      \* drawable_ready_timeout_ms
    Steps,        \* how much time may pass from one page flip to the next
    HealthFlips   \* page flips before the health receipt: 30

ASSUME PresentGateAssumption ==
    /\ NoContext \notin Contexts
    /\ Timeout \in Nat \ {0}
    /\ Steps \subseteq Nat \ {0}
    /\ HealthFlips \in Nat \ {0}

VARIABLES
    gate,      \* st_gate
    token,     \* st_context_token
    current,   \* current_context of the thread that owns the window
    surface,   \* what each context was last made current on: its draw surface
    flips,     \* frame_count; beyond HealthFlips it only alternates
    dead,      \* nx_die has ended the process
    receipts,  \* the final receipts written to the log, in order
    faulted    \* SDL_GL_MakeCurrent has failed once

vars == <<gate, token, current, surface, flips, dead, receipts, faulted>>

NotStarted == Timeout + 1

\* How a preflight measurement may come out, and how a page flip may look:
\* "moved" is a GL or EGL provider that is not the one of the preflight.
Measured == {"ok", "contract", "provider", "probe"}
Seen     == {"usable", "placeholder", "unreadable", "absurd", "moved", "clock"}
Reasons  == Measured \cup Seen \cup {"misuse", "identity", "stuck"}
Surfaces == {"none", "window", "pbuffer"}

-------------------------------------------------------------------------------
\* nxgl_graphics_present_gate_init, also what a reset returns to.
Ready == [phase |-> "ready", reason |-> "ok", context |-> NoContext,
          budget |-> NotStarted, emitted |-> FALSE]

Reject(g, why) == [g EXCEPT !.phase = "rejected", !.reason = why]

Preflight(g, c, m) ==
    LET captured == [g EXCEPT !.context = c]
    IN IF g.phase # "ready" THEN Reject(g, "misuse")
       ELSE IF m # "ok" THEN Reject(captured, m)
       ELSE [captured EXCEPT !.phase = "awaiting", !.reason = "ok"]

\* The observation of a drawable when `left' of the budget remains.
Classify(g, seen, left) ==
    LET h == [g EXCEPT !.budget = left]
    IN CASE seen = "usable" ->
              [h EXCEPT !.phase = "proved", !.reason = "ok", !.emitted = TRUE]
         [] seen = "placeholder" /\ left = 0 ->
              [Reject(h, "stuck") EXCEPT !.emitted = TRUE]
         [] seen = "placeholder" /\ left # 0 -> h
         [] OTHER -> Reject(h, seen)

\* The budget starts at the first observation and runs on from there.
Left(g, d) ==
    IF g.budget = NotStarted THEN Timeout
    ELSE IF d >= g.budget THEN 0 ELSE g.budget - d

\* Mutant: the placeholder is waited for without a deadline.
ObserveForever(g, c, seen, d) ==
    IF g.phase \in {"proved", "rejected"} THEN g
    ELSE IF g.phase # "awaiting" THEN Reject(g, "misuse")
    ELSE IF c # g.context THEN Reject(g, "identity")
    ELSE IF seen = "placeholder" THEN g
    ELSE Classify(g, seen, Left(g, d))

Observe(g, c, seen, d) ==
    IF g.phase \in {"proved", "rejected"} THEN g
    ELSE IF g.phase # "awaiting" THEN Reject(g, "misuse")
    ELSE IF c # g.context THEN Reject(g, "identity")
    ELSE Classify(g, seen, Left(g, d))

\* Mutant: a gate that has concluded is asked again.
KeepsWaiting(c) == gate.phase = "awaiting" /\ token = c

\* st_graphics_contract_pre_present needs no preflight.
Keeps(c) == gate.phase = "proved" \/ (gate.phase = "awaiting" /\ token = c)

\* Mutant: the gate is never reset.
BeforeKept == gate

\* The gate it hands to the preflight otherwise.
Before == IF gate.phase = "awaiting" THEN Ready ELSE gate

-------------------------------------------------------------------------------
Init ==
    /\ gate = Ready
    /\ token = NoContext
    /\ current = NoContext
    /\ surface = [c \in Contexts |-> "none"]
    /\ flips = 0
    /\ dead = FALSE
    /\ receipts = <<>>
    /\ faulted = FALSE

\* sdl_eglMakeCurrent with no context or no surface, and the part of
\* sdl_eglDestroyContext that lets go of the current context.
Release ==
    /\ ~dead
    /\ current' = NoContext
    /\ UNCHANGED <<gate, token, surface, flips, dead, receipts, faulted>>

\* SDL_GL_MakeCurrent fails after the context's fields were written.
MakeCurrentFails(c, s) ==
    /\ ~dead
    /\ surface' = [surface EXCEPT ![c] = s]
    /\ faulted' = TRUE
    /\ UNCHANGED <<gate, token, current, flips, dead, receipts>>

MakePbufferCurrent(c) ==
    /\ ~dead
    /\ surface' = [surface EXCEPT ![c] = "pbuffer"]
    /\ current' = c
    /\ UNCHANGED <<gate, token, flips, dead, receipts, faulted>>

\* sdl_eglMakeCurrent on the window: the context must pass the preflight.
MakeWindowCurrent(c, m) ==
    /\ ~dead
    /\ surface' = [surface EXCEPT ![c] = "window"]
    /\ current' = c
    /\ IF Keeps(c)
       THEN UNCHANGED <<gate, token, dead>>
       ELSE /\ token' = c
            /\ gate' = Preflight(Before, c, m)
            /\ dead' = (gate'.phase # "awaiting")
    /\ UNCHANGED <<flips, receipts, faulted>>

\* A page flip of the window, observed once the buffer is on its way.
Swap(seen, d) ==
    /\ ~dead
    /\ current # NoContext
    /\ surface[current] = "window"
    /\ gate' = Observe(gate, current, seen, d)
    /\ receipts' = IF gate'.emitted /\ ~gate.emitted
                   THEN Append(receipts, [context |-> current, reason |-> gate'.reason])
                   ELSE receipts
    /\ IF gate'.phase = "rejected"
       THEN dead' = TRUE /\ UNCHANGED flips
       ELSE /\ flips' = IF flips > HealthFlips THEN HealthFlips ELSE flips + 1
            /\ UNCHANGED dead
    /\ UNCHANGED <<token, current, surface, faulted>>

SomeSwap == \E seen \in Seen, d \in Steps : Swap(seen, d)

Next ==
    \/ Release
    \/ \E c \in Contexts, s \in {"window", "pbuffer"} : MakeCurrentFails(c, s)
    \/ \E c \in Contexts : MakePbufferCurrent(c)
    \/ \E c \in Contexts, m \in Measured : MakeWindowCurrent(c, m)
    \/ SomeSwap

Spec == Init /\ [][Next]_vars

-------------------------------------------------------------------------------
(***************************************************************************)
(* Properties                                                              *)
(***************************************************************************)
Phases == {"ready", "awaiting", "proved", "rejected"}
GateState ==
    [phase: Phases, reason: Reasons, context: Contexts \cup {NoContext},
     budget: 0..NotStarted, emitted: BOOLEAN]
Receipt == [context: Contexts, reason: Reasons]

\* Every variable keeps its type, and a gate that waits has budget left and
\* knows its context.
TypeOK ==
    /\ gate \in GateState
    /\ token \in Contexts \cup {NoContext}
    /\ current \in Contexts \cup {NoContext}
    /\ surface \in [Contexts -> Surfaces]
    /\ flips \in 0..(HealthFlips + 1)
    /\ dead \in BOOLEAN
    /\ receipts \in Seq(Receipt)
    /\ faulted \in BOOLEAN
    /\ gate.phase = "awaiting" =>
         gate.budget # 0 /\ token = gate.context /\ token \in Contexts

OnWindow == current # NoContext /\ surface[current] = "window"

\* The callers use the gate as its contract asks: as long as SDL never fails,
\* whoever may flip the window is the context the gate waits for (or the gate
\* has concluded), so no run ends with misuse or a changed context identity.
NeverMisused ==
    ~faulted =>
        /\ gate.reason \notin {"misuse", "identity"}
        /\ OnWindow /\ ~dead =>
             \/ gate.phase = "proved"
             \/ gate.phase = "awaiting" /\ gate.context = current

\* The final receipt is written at most once in the life of the process,
\* however many contexts come and go, and it says what the gate concluded for
\* the context the gate was asked about.
OneReceipt ==
    /\ Len(receipts) <= 1
    /\ gate.emitted <=> receipts # <<>>
    /\ gate.phase = "proved" => gate.emitted
    /\ receipts # <<>> =>
         /\ receipts[1].context = gate.context
         /\ receipts[1].reason = gate.reason
         /\ gate.phase = IF gate.reason = "ok" THEN "proved" ELSE "rejected"

\* The budget starts at the first page flip of a context and only runs down
\* while the gate waits for that context: it does not start again per frame.
BudgetRunsDown ==
    [][gate.phase = "awaiting" /\ gate'.phase = "awaiting"
         /\ gate.context = gate'.context /\ gate.budget # NotStarted
       => IF SomeSwap THEN gate'.budget < gate.budget
          ELSE gate'.budget = gate.budget]_vars

\* A guest that settles on a context and keeps flipping its window is told
\* the verdict.
Concluded ==
    (<>[][UNCHANGED current]_current /\ []<><<SomeSwap>>_vars)
        => <>(gate.phase \in {"proved", "rejected"})

\* Violated: the proof of one context is taken for another one, though SDL
\* never fails.  The header of the gate promises one gate per window and
\* context, and a reset and a preflight for every new one.
OwnProof ==
    ~faulted /\ gate.phase = "proved" /\ OnWindow => gate.context = current

\* Violated: the caller resets a waiting gate for another context because "no
\* health exists yet", but the page flips that publish the health receipt are
\* counted while the gate waits.
NoHealthYet ==
    [][gate.phase = "awaiting" /\ gate'.context # gate.context
         => flips < HealthFlips]_vars
===============================================================================
