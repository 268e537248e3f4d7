------------------------------- MODULE PadSet --------------------------------
(***************************************************************************)
(* The set of open controllers of src/vendor/nxinput/engine-glue/          *)
(* nxinput_padset.c under the frame loop that polls it: device events,     *)
(* the sample that routes SELECT and START through the pre-router, the     *)
(* exit chord, the signal handler and SDL_QUIT.                            *)
(*                                                                         *)
(* An instance id is never given to two devices at once; an id that comes  *)
(* back stands for a new device, as nothing remembers a closed one.  The   *)
(* exit chord is initialised with a hold of one poll and the loop ends     *)
(* after the first request, so nxinput_exit_chord_update is its condition. *)
(***************************************************************************)
EXTENDS Prerouter, SequencesExt

CONSTANTS
    Inst,      \* instance ids SDL gives to controllers
    NoInst,    \* no exit is pending
    MaxPads,   \* NXINPUT_PADSET_MAX
    Steps      \* how far the clock may move from one sample to the next

ASSUME PadSetAssumption ==
    /\ NoInst \notin Inst
    /\ MaxPads \in Nat
    /\ Steps \subseteq Nat \ {0}

VARIABLES
    instances,  \* open instances, in the order of the slots
    raw,        \* raw_select and raw_start: the edges that were down in the last sample
    pads,       \* the pad of every instance; Fresh when it is not open
    pending,    \* exit_instance while exit_pending
    signalExit,     \* signal_exit
    exitRequested,  \* exit_requested
    asked,      \* history: a signal or SDL_QUIT came
    pc          \* the frame loop: "events", "check", "closed"

exitVars == <<signalExit, exitRequested, asked>>
padVars  == <<instances, raw, pads, pending>>
vars == <<padVars, exitVars, pc>>

Open == {instances[n] : n \in DOMAIN instances}

Init ==
    /\ instances = <<>>
    /\ raw = [i \in Inst |-> {}]
    /\ pads = [i \in Inst |-> Fresh]
    /\ pending = NoInst
    /\ signalExit = FALSE /\ exitRequested = FALSE /\ asked = FALSE
    /\ pc = "events"

Admissible(kept) == {i \in Inst : \A n \in DOMAIN kept : kept[n] # i}

(***************************************************************************)
(* nxinput_padset_open_all.  Which joysticks are admitted, are controllers *)
(* and open as the instance they were admitted as is SDL's choice.         *)
(***************************************************************************)
OpenAll(kept) ==
    \E count \in 0..Cardinality(Admissible(kept)) :
        \E added \in [1..count -> Admissible(kept)] :
            /\ \A m, n \in 1..count : added[m] = added[n] => m = n
            /\ Len(kept) + count <= MaxPads
            /\ instances' = kept \o added

DeviceAdded ==
    /\ pc = "events"
    /\ OpenAll(instances)
    /\ UNCHANGED <<raw, pads, pending, exitVars, pc>>

(***************************************************************************)
(* nxinput_padset_remove_instance.  The releases that nxinput_prerouter_-  *)
(* unplug forwards are written to the slot that is removed with them.      *)
(***************************************************************************)
RemoveInstance(i) ==
    /\ raw' = [raw EXCEPT ![i] = {}]
    /\ pads' = [pads EXCEPT ![i] = Fresh]
    /\ pending' = IF pending = i THEN NoInst ELSE pending

DeviceRemoved(i) ==
    /\ pc = "events"
    /\ \E n \in DOMAIN instances : instances[n] = i /\ OpenAll(RemoveAt(instances, n))
    /\ RemoveInstance(i)
    /\ UNCHANGED <<exitVars, pc>>

Quit ==
    /\ pc = "events"
    /\ exitRequested' = TRUE /\ asked' = TRUE
    /\ UNCHANGED <<padVars, signalExit, pc>>

\* st_input_request_exit, run by the handler of SIGTERM and SIGINT.
Signal ==
    /\ pc # "closed"
    /\ signalExit' = TRUE /\ exitRequested' = TRUE /\ asked' = TRUE
    /\ UNCHANGED <<padVars, pc>>

Advance(pad, dt) ==
    LET Aged(e) == IF pad.state[e] = "retained" THEN pad.age[e] + dt ELSE 0
    IN [pad EXCEPT !.sent = [e \in Edges |-> "none"],
                   !.age  = [e \in Edges |-> IF Aged(e) > Window THEN Window + 1 ELSE Aged(e)]]

Event(pad, e, was, down) ==
    CASE e \in down \ was -> Press(pad, e)
      [] e \in was \ down -> Release(pad, e)
      [] OTHER            -> pad

\* What the events of one sample make of a pad; SELECT is looked at first.
Route(pad, was, down, dt) ==
    Event(Event(Advance(pad, dt), SELECT, was, down), START, was, down)

\* The chord of the pre-router was completed: padset_pre_exit was called.
Exits(pad, routed) ==
    \E e \in Edges : routed.state[e] = "consumed" /\ pad.state[e] # "consumed"

\* Mutant: a chord that is over still asks for the exit.
HoldsAnyway(down) == TRUE

HoldsBoth(down) == down = Edges

(***************************************************************************)
(* exit_pending and exit_instance after the first n slots of the sample.   *)
(***************************************************************************)
PendingAfter(routed, down) ==
    LET after[n \in 0..Len(instances)] ==
            IF n = 0 THEN pending
            ELSE LET i   == instances[n]
                     now == IF Exits(pads[i], routed[i]) THEN i ELSE after[n - 1]
                 IN IF now = i /\ ~HoldsBoth(down[i]) THEN NoInst ELSE now
    IN after

(***************************************************************************)
(* nxinput_padset_sample and the exit chord of st_input_poll.  The signal  *)
(* is folded before the chord is looked at, and neither is when no         *)
(* controller is open.                                                     *)
(***************************************************************************)
Sample(down, dt) ==
    LET routed == [i \in Inst |-> IF i \in Open THEN Route(pads[i], raw[i], down[i], dt) ELSE pads[i]]
        after  == PendingAfter(routed, down)
        chord  == \E n \in DOMAIN instances : after[n] = instances[n]
    IN  /\ pc = "events" /\ pc' = "check"
        /\ raw' = [i \in Inst |-> IF i \in Open THEN down[i] ELSE raw[i]]
        /\ pads' = [i \in Inst |-> IF i \in Open THEN Tick(routed[i]) ELSE pads[i]]
        /\ pending' = after[Len(instances)]
        /\ signalExit' = (signalExit /\ instances = <<>>)
        /\ exitRequested' = (exitRequested \/ (instances # <<>> /\ (signalExit \/ chord)))
        /\ UNCHANGED <<instances, asked>>

Poll(dt) == \E down \in [Open -> SUBSET Edges] : Sample(down, dt)

\* The frame goes on to nativeRender.
Render ==
    /\ pc = "check" /\ ~exitRequested
    /\ pc' = "events"
    /\ UNCHANGED <<padVars, exitVars>>

\* The loop ends; st_input_close calls nxinput_padset_close_all.
Close ==
    /\ pc = "check" /\ exitRequested
    /\ instances' = <<>>
    /\ raw' = [i \in Inst |-> {}]
    /\ pads' = [i \in Inst |-> Fresh]
    /\ pending' = NoInst
    /\ pc' = "closed"
    /\ UNCHANGED exitVars

Next ==
    \/ DeviceAdded
    \/ \E i \in Inst : DeviceRemoved(i)
    \/ Quit
    \/ Signal
    \/ \E dt \in Steps : Poll(dt)
    \/ Render
    \/ Close

(***************************************************************************)
(* The thread of the frame loop goes on.  Its steps are named by its       *)
(* program counter, which only Poll, Render and Close change.              *)
(***************************************************************************)
FrameLoop ==
    \/ pc = "events" /\ pc' = "check"
    \/ pc = "check" /\ pc' \in {"events", "closed"}

Fairness == WF_pc(FrameLoop)

Spec == Init /\ [][Next]_vars /\ Fairness

-----------------------------------------------------------------------------
(***************************************************************************)
(* Every variable has its type; an instance is open once, no more than     *)
(* MaxPads are, and only an open one has anything in the pre-router.       *)
(***************************************************************************)
States == {"idle", "retained", "forwarded", "consumed"}

PadType == [fwd : [Edges -> BOOLEAN], state : [Edges -> States],
            age : [Edges -> 0..Window + 1], tapped : [Edges -> BOOLEAN], owed : [Edges -> 0..2],
            debt : [Edges -> Int], flight : [Edges -> Int],
            sent : [Edges -> {"none", "tap", "press"}]]

TypeOK ==
    /\ instances \in Seq(Inst) /\ Len(instances) <= MaxPads
    /\ \A m, n \in DOMAIN instances : instances[m] = instances[n] => m = n
    /\ raw \in [Inst -> SUBSET Edges] /\ pads \in [Inst -> PadType]
    /\ \A i \in Inst \ Open : raw[i] = {} /\ pads[i] = Fresh
    /\ pending \in Inst \cup {NoInst}
    /\ signalExit \in BOOLEAN /\ exitRequested \in BOOLEAN /\ asked \in BOOLEAN
    /\ pc \in {"events", "check", "closed"}

(***************************************************************************)
(* No latch: what the game sees of SELECT and START is down exactly while  *)
(* a forwarded press is held or its release is owed, presses and releases  *)
(* that went out alternate, and a button that is physically up holds       *)
(* nothing but a tap that waits for its window.                            *)
(***************************************************************************)
NoLatch ==
    \A i \in Inst, e \in Edges : LET pad == pads[i] IN
        /\ pad.fwd[e] <=> pad.state[e] = "forwarded" \/ pad.owed[e] # 0
        /\ pad.flight[e] = IF pad.fwd[e] THEN 1 ELSE 0
        /\ IF e \in raw[i] THEN pad.state[e] # "idle" /\ ~pad.tapped[e]
           ELSE pad.state[e] = "idle" \/ (pad.state[e] = "retained" /\ pad.tapped[e])

(***************************************************************************)
(* Order: a pad never retains both edges, so that no press can go out      *)
(* before an older one of the same pad.                                    *)
(***************************************************************************)
OneRetained ==
    \A i \in Inst : \E e \in Edges : pads[i].state[e] # "retained"

(***************************************************************************)
(* Exactly once: of the presses a pad has accepted, the ones that were     *)
(* neither forwarded nor consumed by a chord are the ones still retained;  *)
(* a double tap loses none and sends none twice.                           *)
(***************************************************************************)
Accounted ==
    \A i \in Inst, e \in Edges :
        pads[i].debt[e] = IF pads[i].state[e] = "retained" THEN 1 ELSE 0

(***************************************************************************)
(* A tap shorter than the window is forwarded whole, and the sample that   *)
(* forwards its press leaves the button down for the game to see.          *)
(***************************************************************************)
TapSeen ==
    \A i \in Inst, e \in Edges : pads[i].sent[e] = "tap" => pads[i].fwd[e]

(***************************************************************************)
(* The same of every press that is forwarded.  The code does not have it:  *)
(* a press that outlived its window between two samples is forwarded by    *)
(* the event of the other edge, and its own release event of the same      *)
(* sample takes it back before any tick.                                   *)
(***************************************************************************)
PressSeen ==
    \A i \in Inst, e \in Edges : pads[i].sent[e] # "none" => pads[i].fwd[e]

(***************************************************************************)
(* Until the loop ends, the exit was requested exactly when a signal or    *)
(* SDL_QUIT came or one and the same pad holds the two presses of a chord: *)
(* pads never mix, and a chord that is held is never missed.               *)
(***************************************************************************)
ExitExactly ==
    pc # "closed" =>
        (exitRequested <=>
            asked \/ \E i \in Open : \A e \in Edges : pads[i].state[e] = "consumed")

(***************************************************************************)
(* A press the chord has consumed led to an exit request.  The code does   *)
(* not have it: SELECT pressed and START released in one sample complete   *)
(* the chord at the event of SELECT and end it at the event of START, and  *)
(* both presses are swallowed without an exit.                             *)
(***************************************************************************)
ConsumedExits ==
    \A i \in Inst, e \in Edges : pads[i].state[e] = "consumed" => exitRequested

(***************************************************************************)
(* A button that is physically up does not stay down for the game.         *)
(***************************************************************************)
Released ==
    \A i \in Inst, e \in Edges :
        pads[i].fwd[e] /\ e \notin raw[i] ~> ~pads[i].fwd[e]
=============================================================================
