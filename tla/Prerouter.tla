------------------------------ MODULE Prerouter ------------------------------
(***************************************************************************)
(* The START/SELECT pre-router of src/vendor/nxinput/src/                  *)
(* nxinput_prerouter.c: what its slot of one controller becomes on an      *)
(* event and on a tick.  A pad is the slot together with the entries of    *)
(* nxinput_padset that the pre-router's callbacks write, and with the      *)
(* histories the properties speak of.                                      *)
(*                                                                         *)
(* nxinput_padset gives every controller an instance of its own, a slot    *)
(* (there are more slots than pads) and no physical binding, so the        *)
(* branches for observers, uncertified SELECT, stale generations and a     *)
(* full slot table are never taken and are left out; a slot that           *)
(* slot_maybe_free returns is the zeroed slot get_slot would hand out.     *)
(***************************************************************************)
EXTENDS Integers, FiniteSets

CONSTANT Window  \* window_ns, in the unit of the clock

ASSUME WindowAssumption == Window \in Nat

SELECT == 0
START  == 1
Edges  == {SELECT, START}
Other(e) == 1 - e

Fresh == [
    fwd    |-> [e \in Edges |-> FALSE],   \* fwd_select, fwd_start
    state  |-> [e \in Edges |-> "idle"],
    age    |-> [e \in Edges |-> 0],       \* now - t_press while retained, up to Window + 1
    tapped |-> [e \in Edges |-> FALSE],   \* released_while_retained
    owed   |-> [e \in Edges |-> 0],       \* release_deferred
    \* histories: presses accepted and not yet forwarded or consumed, presses
    \* forwarded less releases forwarded, what this sample has forwarded
    debt   |-> [e \in Edges |-> 0],
    flight |-> [e \in Edges |-> 0],
    sent   |-> [e \in Edges |-> "none"]]

(***************************************************************************)
(* ops.forward, which is padset_pre_forward.                               *)
(***************************************************************************)
Forward(pad, e, down) ==
    [pad EXCEPT !.fwd[e] = down, !.flight[e] = @ + (IF down THEN 1 ELSE -1)]

FlushOwed(pad, e) ==
    IF pad.owed[e] = 0 THEN pad
    ELSE [Forward(pad, e, FALSE) EXCEPT !.owed[e] = 0]

\* Mutant: the press of a new tap overtakes the release of the last one.
FlushEdgeOvertakes(pad, e, ticks) ==
    IF pad.state[e] # "retained" THEN pad
    ELSE LET pressed == [Forward(pad, e, TRUE) EXCEPT
                             !.debt[e] = @ - 1, !.age[e] = 0, !.tapped[e] = FALSE]
         IN IF pad.tapped[e]
            THEN [pressed EXCEPT !.state[e] = "idle", !.owed[e] = ticks, !.sent[e] = "tap"]
            ELSE [pressed EXCEPT !.state[e] = "forwarded", !.sent[e] = "press"]

(***************************************************************************)
(* The retained press goes out; the release of a completed tap is owed to  *)
(* the tick that many ticks ahead: 1 from a tick, 2 from an event.         *)
(***************************************************************************)
FlushEdge(pad, e, ticks) ==
    IF pad.state[e] # "retained" THEN pad
    ELSE LET pressed == [Forward(FlushOwed(pad, e), e, TRUE) EXCEPT
                             !.debt[e] = @ - 1, !.age[e] = 0, !.tapped[e] = FALSE]
         IN IF pad.tapped[e]
            THEN [pressed EXCEPT !.state[e] = "idle", !.owed[e] = ticks, !.sent[e] = "tap"]
            ELSE [pressed EXCEPT !.state[e] = "forwarded", !.sent[e] = "press"]

CompletesChord(pad, e) ==
    LET o == Other(e) IN
    pad.state[o] = "retained" /\ ~pad.tapped[o] /\ pad.age[o] <= Window

\* The press of e and the retained press of the other edge are consumed.
Chord(pad, e) ==
    [pad EXCEPT !.state  = [x \in Edges |-> "consumed"],
                !.debt[Other(e)] = @ - 1,
                !.age    = [x \in Edges |-> 0],
                !.tapped = [x \in Edges |-> FALSE]]

Retain(pad, e) ==
    [pad EXCEPT !.state[e] = "retained", !.debt[e] = @ + 1,
                !.age[e] = 0, !.tapped[e] = FALSE]

\* Mutant: the second tap replaces a first one that is still retained.
PressReplaces(pad, e) ==
    LET again == pad.state[e] = "retained" /\ pad.tapped[e]
    IN IF ~again /\ pad.state[e] # "idle" THEN pad
       ELSE IF CompletesChord(pad, e) THEN Chord(pad, e)
       ELSE Retain(FlushEdge(pad, Other(e), 2), e)

(***************************************************************************)
(* nxinput_prerouter_event, value 1.  A second tap flushes the first; a    *)
(* press while the other edge is held inside its window is the chord.      *)
(***************************************************************************)
Press(pad, e) ==
    LET again == pad.state[e] = "retained" /\ pad.tapped[e]
        clear == IF again THEN FlushEdge(pad, e, 2) ELSE pad
    IN IF clear.state[e] # "idle" THEN pad
       ELSE IF CompletesChord(clear, e) THEN Chord(clear, e)
       ELSE Retain(FlushEdge(clear, Other(e), 2), e)

(***************************************************************************)
(* nxinput_prerouter_event, value 0.                                       *)
(***************************************************************************)
Release(pad, e) ==
    CASE pad.state[e] = "retained"  -> [pad EXCEPT !.tapped[e] = TRUE]
      [] pad.state[e] = "forwarded" -> [Forward(pad, e, FALSE) EXCEPT !.state[e] = "idle"]
      [] pad.state[e] = "consumed"  -> [pad EXCEPT !.state[e] = "idle"]
      [] OTHER                      -> pad

PayOwed(pad, e) ==
    IF pad.owed[e] = 2 THEN [pad EXCEPT !.owed[e] = 1] ELSE FlushOwed(pad, e)

Expire(pad, e) ==
    IF pad.age[e] > Window THEN FlushEdge(pad, e, 1) ELSE pad

\* Mutant: an owed release waits until nothing is retained.
TickPaysLate(pad) ==
    LET paid  == IF \E e \in Edges : pad.state[e] = "retained" THEN pad
                 ELSE PayOwed(PayOwed(pad, SELECT), START)
        first == IF paid.age[START] > paid.age[SELECT] THEN START ELSE SELECT
    IN Expire(Expire(paid, first), Other(first))

(***************************************************************************)
(* nxinput_prerouter_tick for one slot.                                    *)
(***************************************************************************)
Tick(pad) ==
    LET paid  == PayOwed(PayOwed(pad, SELECT), START)
        first == IF paid.age[START] > paid.age[SELECT] THEN START ELSE SELECT
    IN Expire(Expire(paid, first), Other(first))
=============================================================================
