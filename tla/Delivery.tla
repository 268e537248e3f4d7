------------------------------ MODULE Delivery ------------------------------
(***************************************************************************)
(* From a player's fingers to what the guest believes is pressed.          *)
(*                                                                         *)
(* One turn of the frame loop polls the pad (st_input_poll), filters what  *)
(* SDL remembers by what the kernel says (input_guard.c), asks the engine  *)
(* which screen it shows, feeds the mapping runtime (input_gptk.c on top   *)
(* of nxinput_gptk_live.c) and delivers what that leaves to the native     *)
(* path.  Both paths share one table of keys.  Every key event travels in  *)
(* a payload of a ring, and the guest reads the payloads when it renders.  *)
(*                                                                         *)
(* The state of input.c and input_gptk.c is one record; an operation maps  *)
(* it to the next.  One control stands for each way a control is treated;  *)
(* SELECT's retention and the pads' union are in PadSet.                   *)
(***************************************************************************)
EXTENDS Integers, Sequences, FiniteSets, SequencesExt

CONSTANTS
    Order,       \* the controls, in the order of the vocabulary
    KeyBacked,   \* controls SDL binds to a kernel key
    HatBacked,   \* controls SDL binds to a hat
    NativeKey,   \* the keycode of each control, NoKey for START
    Decide,      \* what the player's map says: [context -> [control -> what]]
    NoKey, StartKey, BackKey,
    RingSize,    \* KEY_CLONE_COUNT
    Shown,       \* what the engine may show, see Screen
    MaxMoves     \* bound: controls that move between two polls

Controls == ToSet(Order)
Contexts == {"menu", "gameplay"}
Unproven == [context |-> "none", source |-> "none"]

\* What a map may say of a control: leave it, drop it, click, or a key.
Keys ==
    LET said == UNION {{Decide[x][c] : c \in Controls} : x \in Contexts}
        own  == {NativeKey[c] : c \in Controls}
    IN (said \cup own \cup {StartKey, BackKey}) \ {"native", "none", "null", "click", NoKey}

ASSUME DeliveryAssumption ==
    /\ Order \in Seq(Controls) /\ IsInjective(Order)
    /\ KeyBacked \subseteq Controls /\ HatBacked \subseteq Controls
    /\ KeyBacked \cap HatBacked = {}
    /\ IsFiniteSet(Keys) /\ {StartKey, BackKey} \subseteq Keys /\ NoKey \notin Keys
    /\ NativeKey \in [Controls -> Keys \cup {NoKey}]
    /\ Decide \in [Contexts -> [Controls -> Keys \cup {"native", "none", "null", "click"}]]
    /\ RingSize \in Nat \ {0} /\ MaxMoves \in Nat

VARIABLES
    fingers,   \* controls the player holds
    raw,       \* controls SDL remembers as held: it may have lost a release
    guard,     \* the kernel's state of this pad can be read
    pad,       \* a controller is open
    knows,     \* Time.timeScale can be asked for
    s,         \* the input state of the port, see Start
    held,      \* history: what the last poll took as held
    old,       \* history: held since before the context changed
    guest,     \* the keys the guest believes to be down
    phase

player == <<fingers, raw, guard, pad, knows>>
vars   == <<fingers, raw, guard, pad, knows, s, held, old, guest, phase>>

-------------------------------------------------------------------------------
(* Keys.                                                                   *)

\* One operation after the other, for every element of a sequence.
InOrder(Op(_, _), seq, g) ==
    LET after[i \in 0 .. Len(seq)] ==
          IF i = 0 THEN g ELSE Op(after[i - 1], seq[i])
    IN after[Len(seq)]

\* key_down_state sends edges only; each goes out as an event of its own.
DeliverKey(g, k, down) ==
    IF (k \in g.keys) = down THEN g
    ELSE [g EXCEPT !.keys = IF down THEN @ \cup {k} ELSE @ \ {k},
                   !.sent = Append(@, [key |-> k, down |-> down])]

ReleaseAllKeys(g) ==
    InOrder(LAMBDA h, k : DeliverKey(h, k, FALSE), SetToSeq(g.keys),
            [g EXCEPT !.pressed = [k \in Keys |-> 0]])

SinkKey(g, k, down) ==
    LET n == IF down THEN g.pressed[k] + 1
             ELSE IF g.pressed[k] > 0 THEN g.pressed[k] - 1 ELSE 0
        h == [g EXCEPT !.pressed[k] = n]
    IN IF down \/ n = 0 THEN DeliverKey(h, k, down) ELSE h

\* START opens the pause screen, BACK closes it.  Which of the two is asked
\* of the engine, or guessed from the last press (ST_PAUSE_NATIVE unset).
StartPress(g, down, paused) ==
    IF down
    THEN LET open == IF knows THEN paused ELSE g.pauseOpen
             k    == IF open THEN BackKey ELSE StartKey
         IN SinkKey([g EXCEPT !.startKey = k, !.pauseOpen = ~open], k, TRUE)
    ELSE IF g.startKey # NoKey
    THEN SinkKey([g EXCEPT !.startKey = NoKey], g.startKey, FALSE)
    ELSE g

-------------------------------------------------------------------------------
(* The mapping runtime.                                                    *)

Proven(g)  == g.now # Unproven
Decision(g, c) == IF Proven(g) THEN Decide[g.now.context][c] ELSE "none"
IsAction(g, c) == Decision(g, c) \notin {"native", "none", "null"}
Consumes(g, c) == Decision(g, c) \notin {"native", "none"}

Sink(g, c, down, paused) ==
    CASE Decision(g, c) = "click"  -> [g EXCEPT !.click = down]
      [] Decision(g, c) = StartKey -> StartPress(g, down, paused)
      [] OTHER                     -> SinkKey(g, Decision(g, c), down)

\* Mutant: what is latched is forgotten, not released.
ReleaseLatchedNone(g) == g

ReleaseLatched(g) ==
    InOrder(LAMBDA h, c : IF c \in g.latched THEN Sink(h, c, FALSE, FALSE) ELSE h,
            Order, g)

ClearContext(g) ==
    [(IF Proven(g) THEN ReleaseLatched(g) ELSE g)
        EXCEPT !.latched = {}, !.now = Unproven]

Quarantine(g) == [g EXCEPT !.blocked = @ \cup g.down]

\* st_gptk_set_context, st_gptk_clear_context
SetContext(g, now) ==
    IF g.now = now THEN g
    ELSE [ClearContext(Quarantine(g)) EXCEPT !.now = now]

ReleaseAll(g) == [ClearContext(g) EXCEPT !.down = {}, !.blocked = {}]

LiveFeed(g, c, down, paused) ==
    IF ~IsAction(g, c) \/ (c \in g.latched) = down THEN g
    ELSE [Sink(g, c, down, paused)
            EXCEPT !.latched = IF down THEN @ \cup {c} ELSE @ \ {c}]

\* Only a transition reaches the runtime, and none of a blocked control.
FeedButton(g, c, down, paused) ==
    IF (c \in g.down) = down THEN g
    ELSE LET h == [g EXCEPT !.down = IF down THEN @ \cup {c} ELSE @ \ {c}]
         IN IF c \in g.blocked
            THEN IF down THEN h ELSE [h EXCEPT !.blocked = @ \ {c}]
            ELSE LiveFeed(h, c, down, paused)

-------------------------------------------------------------------------------
(* The poll.                                                               *)

\* What every lifecycle boundary does: no key and no latch is left behind.
Neutral(g) == ReleaseAllKeys(ReleaseAll(g))

\* Mutant: the kernel is asked and SDL believed.
FilteredNone(physical, sdl) == sdl

\* SDL's memory, less what the kernel says cannot be held: a button that is a
\* key while no key at all is down, a button of a hat while it is centred.
Filtered(physical, sdl) ==
    IF guard
    THEN sdl \ UNION {kind \in {KeyBacked, HatBacked} : physical \cap kind = {}}
    ELSE sdl

\* The native path follows the level, not the transition.
NativeButton(g, c, down) ==
    LET k    == NativeKey[c]
        want == down /\ ~Consumes(g, c)
    IN IF k = NoKey \/ (~want /\ g.pressed[k] > 0) THEN g
       ELSE DeliverKey(g, k, want)

FeedButtons(g, now, paused) ==
    InOrder(LAMBDA h, c : FeedButton(h, c, c \in now, paused), Order, g)

NativeButtons(g, now) ==
    InOrder(LAMBDA h, c : NativeButton(h, c, c \in now), Order, g)

\* START on the native path keeps its own level and has no keycode.
NativeStart(g, now, paused) ==
    LET want == \E c \in now : NativeKey[c] = NoKey /\ ~Consumes(g, c)
    IN IF want = g.nativeStart THEN g
       ELSE LET h == [g EXCEPT !.nativeStart = want]
            IN IF want \/ h.startKey # NoKey THEN StartPress(h, want, paused) ELSE h

CursorAway(g) ==
    [g EXCEPT !.touch = IF g.drag THEN FALSE ELSE @,
              !.drag = FALSE, !.clicked = FALSE]

UpdateCursor(g) ==
    IF g.now.context # "menu" THEN CursorAway([g EXCEPT !.click = FALSE])
    ELSE LET h == [g EXCEPT !.clicked = g.click]
         IN CASE g.click /\ ~g.clicked ->
                   [h EXCEPT !.touch = TRUE, !.drag = TRUE, !.pauseOpen = FALSE]
              [] ~g.click /\ g.clicked /\ g.drag ->
                   [h EXCEPT !.touch = FALSE, !.drag = FALSE]
              [] OTHER -> h

\* update_engine_context: what the engine shows decides the context and the
\* source that proves it.
EngineContext(e) ==
    LET menu(source) == [context |-> "menu", source |-> source]
    IN CASE e.first \/ ~e.scenes \/ e.loading -> Unproven
         [] e.gui /\ e.screen = "gone" ->
              IF e.standalone THEN menu("scene") ELSE Unproven
         [] e.gui /\ e.popup -> menu("popup")
         [] e.gui /\ e.screen = "game" ->
              IF e.paused THEN menu("paused")
              ELSE [context |-> "gameplay", source |-> "game"]
         [] e.gui -> menu(IF e.screen = "pause" THEN "pause" ELSE "screen")
         [] OTHER -> IF e.standalone THEN menu("scene") ELSE Unproven

Screen ==
    [first : BOOLEAN, scenes : BOOLEAN, loading : BOOLEAN, gui : BOOLEAN,
     screen : {"gone", "game", "pause", "other"}, standalone : BOOLEAN,
     popup : BOOLEAN, paused : BOOLEAN]

\* The contexts the engine may be found in, each with the paused state it may
\* be in then.
Found == {<<EngineContext(e), e.paused>> : e \in Shown}

\* The rest of the poll, once the context is known.
Deliver(g, now, paused) ==
    LET fed == FeedButtons(g, now, paused)
    IN UpdateCursor(NativeStart(NativeButtons(fed, now), now, paused))

-------------------------------------------------------------------------------
(* The guest reads the payloads later than they were written.              *)

\* Mutant: one payload for all.
SlotShared(i) == 0

Slot(i) == i % RingSize

\* The object of the i-th event shows what was last written to its slot.
ReadBack(sent, i) ==
    sent[CHOOSE j \in DOMAIN sent :
            /\ Slot(j) = Slot(i)
            /\ \A m \in DOMAIN sent : Slot(m) = Slot(i) => m <= j]

Believed(keys, sent) ==
    InOrder(LAMBDA ks, e : IF e.down THEN ks \cup {e.key} ELSE ks \ {e.key},
            [i \in DOMAIN sent |-> ReadBack(sent, i)], keys)

-------------------------------------------------------------------------------
(* Actions.                                                                *)

Start ==
    [keys |-> {}, pressed |-> [k \in Keys |-> 0],
     startKey |-> NoKey, nativeStart |-> FALSE, pauseOpen |-> FALSE,
     now |-> Unproven, latched |-> {}, down |-> {}, blocked |-> {},
     click |-> FALSE, clicked |-> FALSE, drag |-> FALSE,
     touch |-> FALSE, sent |-> <<>>]

Init ==
    /\ fingers = {} /\ raw = {}
    /\ guard \in BOOLEAN /\ knows \in BOOLEAN
    /\ pad = TRUE                       \* st_input_init fails without one
    /\ s = Start
    /\ held = {} /\ old = {} /\ guest = {}
    /\ phase = "rendered"

Between == phase \in {"rendered", "events"}

\* An ioctl that fails once is not tried again.
GuardFails ==
    /\ Between /\ guard /\ guard' = FALSE
    /\ UNCHANGED <<fingers, raw, pad, knows, s, held, old, guest, phase>>

\* The events of a poll, before anything is sampled.
Boundary ==
    /\ Between /\ phase' = "events"
    /\ s' = [Neutral(s) EXCEPT !.click = FALSE]
    /\ old' = {}

\* st_input_guard_attach: the very node of the pad is opened and tells of keys
\* and hats, or SDL is believed as it is.
AttachGuard == guard' \in BOOLEAN

FocusLost == Boundary /\ UNCHANGED <<player, held, guest>>

\* Another pad may be open, or be opened at once.
PadRemoved ==
    /\ pad /\ Boundary
    /\ pad' \in BOOLEAN /\ AttachGuard
    /\ fingers' = {} /\ raw' = {}
    /\ UNCHANGED <<knows, held, guest>>

PadAdded ==
    /\ Between /\ phase' = "events"
    /\ ~pad /\ pad' = TRUE /\ AttachGuard
    /\ UNCHANGED <<fingers, raw, knows, s, held, old, guest>>

\* What is held since before the context changed.
StillOld(g, now) ==
    IF g.now # s.now THEN now \cap s.down ELSE old \cap now

Moved(physical) ==
    Cardinality((physical \ fingers) \cup (fingers \ physical)) <= MaxMoves

\* The frame is rendered after the poll, and the guest reads what was sent.
Render(g) ==
    /\ phase' = "rendered"
    /\ s' = [g EXCEPT !.sent = <<>>]
    /\ guest' = Believed(guest, g.sent)

\* Some kernels lose a release on its way to SDL.
Poll ==
    /\ Between /\ pad
    /\ fingers' \in {f \in SUBSET Controls : Moved(f)}
    /\ raw' \in {fingers' \cup lost : lost \in SUBSET (raw \ fingers')}
    /\ held' = Filtered(fingers', raw')
    /\ \E found \in Found :
         LET g == SetContext(s, found[1])
         IN Render(Deliver(g, held', found[2])) /\ old' = StillOld(g, held')
    /\ UNCHANGED <<guard, pad, knows>>

PollWithoutPad ==
    /\ Between /\ ~pad
    /\ \E found \in Found : Render(Neutral(SetContext(s, found[1])))
    /\ held' = {} /\ old' = {}
    /\ UNCHANGED player

\* SELECT and START on one pad, or a signal, end the poll early; a quit event
\* ends the loop after it.  Nothing is rendered any more: st_input_close.
Close ==
    /\ Between /\ phase' = "closed"
    /\ s' = [Neutral(s) EXCEPT !.sent = <<>>]
    /\ guest' = Believed(guest, Neutral(s).sent)
    /\ pad' = FALSE /\ held' = {} /\ old' = {}
    /\ UNCHANGED <<fingers, raw, guard, knows>>

Next ==
    \/ GuardFails \/ FocusLost \/ PadRemoved \/ PadAdded
    \/ Poll \/ PollWithoutPad \/ Close

Spec == Init /\ [][Next]_vars

-------------------------------------------------------------------------------
(* Properties.                                                             *)

\* The keys a held control accounts for where the guest is now.
Accounts(c) ==
    LET what == IF Consumes(s, c) THEN Decision(s, c) ELSE NativeKey[c]
    IN IF what \in {StartKey, NoKey} THEN {StartKey, BackKey} ELSE {what}

\* A touch is down only while a control that clicks is held; leaving the menu
\* ends it in the same poll.
TouchHeld ==
    phase = "rendered" /\ pad /\ s.touch => \E c \in held : Decision(s, c) = "click"

\* "every DOWN gets its UP": whatever screens came and went while buttons were
\* down, with two controls on one action, a key is down after a poll only for
\* a control that is held and stands for it now, and none is down without a
\* pad or once the game is left.
Accounted ==
    /\ phase = "rendered" => \A k \in s.keys : \E c \in held : k \in Accounts(c)
    /\ ~pad => s.keys = {}
    /\ TouchHeld

\* The guest ends every frame with the keys it was sent: a payload is not
\* written again before it was read.
GuestAgrees == phase \in {"rendered", "closed"} => guest = s.keys

\* A release SDL has lost is made good: with the kernel readable and nothing
\* held, the guest has no key down after the poll.
Healed == phase = "rendered" /\ pad /\ guard /\ fingers = {} => s.keys = {} /\ ~s.drag

=============================================================================
