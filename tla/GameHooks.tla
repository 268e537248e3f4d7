------------------------------ MODULE GameHooks ------------------------------
(***************************************************************************)
(* The hands the port has inside the game.                                 *)
(*                                                                         *)
(* Party Hard was made for touch.  At every poll (st_input_poll) the port  *)
(* reads the managed state of the game and acts on it: it answers a box    *)
(* that asks for the controls, learns which screen is shown, shows again   *)
(* the gamepad signs the game hides, pauses and resumes with START, and    *)
(* takes the menus from a stale touch position (input.c).  What it needs   *)
(* of the game is looked up by name, once, and may be absent.              *)
(*                                                                         *)
(* The poll and the game run on one thread: the game moves between polls.  *)
(***************************************************************************)
EXTENDS Integers

CONSTANTS
    Builds,         \* what a game offers and the player has set, see below
    Period,         \* of the slow samples, ST_SCENE_SAMPLE_FRAMES
    Warm,           \* the first frame that looks for the box
    MaxAttempts     \* at the box

\* core, reach: the functions resolve_il2cpp_invoke_api asks for, and those
\* only find_managed_class needs; time, scenes, gui, focus, signs, select:
\* the classes and members of each hook; native: ST_PAUSE_NATIVE.
Offers == {"core", "reach", "time", "scenes", "gui", "focus", "signs", "select", "native"}

ASSUME GameHooksAssumption ==
    /\ \A b \in Builds : b \subseteq Offers
    /\ Period \in Nat \ {0, 1} /\ Warm \in Nat /\ Warm % Period = 0
    /\ MaxAttempts \in Nat

VARIABLES
    build,          \* a member of Builds
    frame,          \* counts to Warm and then modulo the Period
    step,           \* of the poll, "render" or "between"
    controller,     \* a controller is open
    game,           \* see GameStart
    tried,          \* resolve_il2cpp_invoke_api was called
    api,            \* scenes, gui, focus, signs: 0 not yet, 1 found, -1 absent
    scene_name,
    gui_controls_popup_visible,
    context,        \* the proven context
    controls_popup_answered, controls_popup_attempts,
    native_focus,
    start_keycode_down, pause_open,
    keys,           \* the keys the guest has been sent and not had back
    answers,        \* history: calls of SelectTouchControls
    unbound,        \* history: a function was called that was never found
    asked,          \* history: what the player last drove this menu with
    pressed         \* history: START is held, what the game was before, and
                    \* whether the press is one that Loses names

world == <<build, frame, step, controller>>
sampled == <<api, scene_name, gui_controls_popup_visible, context>>
answering == <<tried, controls_popup_answered, controls_popup_attempts, answers, unbound>>
start == <<start_keycode_down, pause_open, keys, pressed>>
focus == <<native_focus, asked>>
gameVars == <<world, game, sampled, answering, start, focus>>

None == "none"

\* scene: the active one, none while loading, or a level on top of it; frozen:
\* timeScale is 0; mouse: MenuInputManager.mouseControl, if there is a manager;
\* sign: a tutorial sign for the gamepad, that ought to be seen or not.
GameStart ==
    [scene |-> None, screen |-> "gone", frozen |-> FALSE, popup |-> None,
     manager |-> FALSE, mouse |-> TRUE, sign |-> "off"]

NoPress == [held |-> FALSE, was |-> "unknown", lost |-> FALSE]

HooksInit ==
    /\ build \in Builds /\ frame = 0 /\ step = "between" /\ controller = TRUE
    /\ game = GameStart
    /\ tried = FALSE /\ api = [a \in {"scenes", "gui", "focus", "signs"} |-> 0]
    /\ scene_name = None /\ gui_controls_popup_visible = FALSE /\ context = None
    /\ controls_popup_answered = FALSE /\ controls_popup_attempts = 0
    /\ native_focus = FALSE /\ start_keycode_down = None /\ pause_open = FALSE
    /\ keys = {} /\ answers = 0 /\ unbound = FALSE /\ asked = None /\ pressed = NoPress

Has(offer) == offer \in build

-------------------------------------------------------------------------------
(* The game, between two polls.                                            *)

GameMoves ==
    \/ \E x \in {None, "menu", "level"} \ {game.scene} :
          game' = [game EXCEPT !.scene = x, !.frozen = FALSE]
    \/ \E x \in {"gone", "game", "other"} \ {game.screen} : game' = [game EXCEPT !.screen = x]
    \/ game' = [game EXCEPT !.frozen = ~@]
    \/ \E x \in {None, "hidden", "shown"} \ {game.popup} : game' = [game EXCEPT !.popup = x]
    \/ game' = [game EXCEPT !.manager = ~@, !.mouse = TRUE]
    \/ game.manager /\ ~game.mouse /\ game' = [game EXCEPT !.mouse = TRUE]
    \/ \E x \in {"off", "hidden", "shown"} \ {game.sign} : game' = [game EXCEPT !.sign = x]

Move ==
    /\ step = "between"
    /\ \/ GameMoves /\ UNCHANGED controller
       \/ controller' = ~controller /\ UNCHANGED game
    /\ UNCHANGED <<build, frame, step, sampled, answering, start, focus>>

PollBegins ==
    /\ step = "between" /\ step' = "box"
    /\ UNCHANGED <<build, frame, controller, game, sampled, answering, start, focus>>

-------------------------------------------------------------------------------
(* Looking things up.                                                      *)

\* resolve_il2cpp_invoke_api: the first answer asks for more functions than
\* the later ones do.
Resolves == IF tried THEN Has("core") ELSE Has("core") /\ Has("reach")

\* find_managed_class looks again at what it is about to call.
FindsClass == Has("core") /\ Has("reach")

\* What one look for a class leaves behind.
Looked ==
    /\ tried' = TRUE
    /\ unbound' = (unbound \/ (Resolves /\ FindsClass /\ ~Has("reach")))

\* What was looked for once is there for good, or is never looked for again.
Sticky(hook, a) ==
    IF a[hook] # 0 THEN a ELSE [a EXCEPT ![hook] = IF Has(hook) THEN 1 ELSE -1]

\* scene_api_resolve, gui_api_resolve, and what the two hooks keep in statics.
ResolveScenes(a) == Sticky("scenes", a)
ResolveGui(a) == Sticky("gui", a)
ResolveFocus(a) == Sticky("focus", a)
ResolveSigns(a) == Sticky("signs", a)

-------------------------------------------------------------------------------
(* The box that asks for the controls.                                     *)

\* st_find_instance_u6 asks in nine ways for an instance, hidden ones included.
FoundByType == game.popup # None

\* st_find_component_by_walk looks at every object that is shown.
FoundByWalk == game.popup = "shown"

\* Any of it may raise or be missing.
Findable == {FALSE, FoundByType \/ FoundByWalk}

\* Mutant: an answer that raised is tried again.
SettledIfDone(done) == done

\* One answer, whatever came of it.
Settled(done) == TRUE

Due == frame >= Warm /\ frame % Period = 0

AnswerPopup(found, done) ==
    IF ~Due \/ controls_popup_answered THEN UNCHANGED <<game, answering>>
    ELSE IF controls_popup_attempts = MaxAttempts
    THEN /\ controls_popup_answered' = TRUE
         /\ UNCHANGED <<game, tried, controls_popup_attempts, answers, unbound>>
    ELSE /\ controls_popup_attempts' = controls_popup_attempts + 1
         /\ Looked
         /\ IF ~(Resolves /\ FindsClass /\ found)
            THEN UNCHANGED <<game, controls_popup_answered, answers>>
            ELSE IF ~Has("select")
            THEN controls_popup_answered' = TRUE /\ UNCHANGED <<game, answers>>
            ELSE /\ controls_popup_answered' = Settled(done)
                 /\ answers' = answers + 1
                 /\ game' = IF done THEN [game EXCEPT !.popup = None] ELSE game

PopupHook ==
    /\ step = "box" /\ step' = "screen"
    /\ \E found \in Findable, done \in BOOLEAN : AnswerPopup(found, done)
    /\ UNCHANGED <<build, frame, controller, sampled, start, focus>>

-------------------------------------------------------------------------------
(* Which screen is shown.                                                  *)

SampleScene(a) ==
    IF a["scenes"] > 0 /\ frame % Period = 1 THEN game.scene ELSE scene_name

\* sample_gui_screen clears what it knew before it looks.
PopupSeen(alive) == alive /\ game.popup = "shown"

\* scene_timescale_zero
TimescaleZero == game.frozen /\ Has("time")

\* The GUI is asked only once the scene is known.
UpdateContext ==
    LET a == IF frame % Period = 1 THEN ResolveScenes(api) ELSE api
        name == SampleScene(a)
        asks == frame > 0 /\ a["scenes"] > 0 /\ name # None
        g == IF asks THEN ResolveGui(a) ELSE a
        alive == g["gui"] > 0 /\ game.screen # "gone"
        seen == IF asks THEN PopupSeen(alive) ELSE gui_controls_popup_visible
    IN /\ api' = IF frame = 0 THEN api ELSE g
       /\ scene_name' = IF frame = 0 THEN scene_name ELSE name
       /\ gui_controls_popup_visible' = seen
       /\ context' =
             IF ~asks \/ (g["gui"] > 0 /\ ~alive) THEN None
             ELSE IF g["gui"] < 0 THEN IF name = "menu" THEN "menu" ELSE None
             ELSE IF ~seen /\ game.screen = "game" /\ ~TimescaleZero
             THEN "gameplay" ELSE "menu"

ScreenHook ==
    /\ step = "screen" /\ step' = "signs" /\ UpdateContext
    /\ asked' = IF context' = "menu" THEN asked ELSE None
    /\ UNCHANGED <<build, frame, controller, game, answering, start, native_focus>>

-------------------------------------------------------------------------------
(* The gamepad's signs.                                                    *)

SignsHook ==
    /\ step = "signs" /\ step' = IF controller THEN "start" ELSE "lost"
    /\ IF frame > 0 /\ frame % Period = 0 /\ controller /\ context = "gameplay"
       THEN /\ api' = ResolveSigns(api)
            /\ game' = IF api'["signs"] > 0 /\ game.sign = "hidden"
                       THEN [game EXCEPT !.sign = "shown"] ELSE game
       ELSE UNCHANGED <<api, game>>
    /\ UNCHANGED <<build, frame, controller, scene_name, gui_controls_popup_visible, context,
                   answering, start, focus>>

\* Without a controller the poll ends here, with no key down; a press of the
\* mapped START was let go of, one of the native START forgets its key code.
NoPad ==
    /\ step = "lost" /\ step' = "render"
    /\ keys' = {} /\ pressed' = NoPress
    /\ start_keycode_down' \in {None, start_keycode_down}
    /\ UNCHANGED <<build, frame, controller, game, sampled, answering, pause_open, focus>>

-------------------------------------------------------------------------------
(* START.                                                                  *)

\* The pause menu is a menu of a level.
InLevel == game.scene = "level"

\* st_pause_is_open: the time scale is there to be asked, and may raise.
Knows == Resolves /\ FindsClass /\ Has("time")

Knowable == IF Knows THEN BOOLEAN ELSE {FALSE}

NotCalled == [acts |-> FALSE, before |-> FALSE, after |-> FALSE]

\* st_pause_toggle_native.  acts: PausePressed was called and the pause turned,
\* whether or not it raised; before, after: what get_IsPaused says of a pause
\* on either side of the call, a member that is absent or raises saying no.
Natives ==
    IF Has("native") /\ Resolves /\ FindsClass /\ InLevel
    THEN [acts : BOOLEAN, before : BOOLEAN, after : BOOLEAN] ELSE {NotCalled}

Toggled(native) == IF native.acts THEN ~game.frozen ELSE game.frozen

\* Mutant: only the state after the toggle counts.
HandledAfterOnly(native) == native.after /\ Toggled(native)

Handled(native) ==
    (native.before /\ game.frozen) \/ (native.after /\ Toggled(native))

\* st_pause_hide_native: a call that raised is not believed, whatever it did.
Hides ==
    IF Has("native") /\ Resolves /\ FindsClass /\ InLevel
    THEN {h \in [closes : BOOLEAN, told : BOOLEAN] : h.told => h.closes}
    ELSE {[closes |-> FALSE, told |-> FALSE]}

\* The toggle says it was there when the game, asked on the paused side of it,
\* answers.
Acknowledged(native) ==
    IF native.acts THEN IF game.frozen THEN native.before ELSE native.after
    ELSE game.frozen /\ (native.before \/ native.after)

\* What becomes of a press that does not turn the pause: a toggle that was told
\* of and did nothing; one that did, was not told of, and is undone by the next
\* way; or a parity that stands for an unreadable game and is not the game's.
Loses(native, legible) ==
    IF Acknowledged(native) THEN ~native.acts
    ELSE IF legible THEN native.acts ELSE pause_open # game.frozen

StartDown(native, legible, hide) ==
    LET frozen == Toggled(native)
        open == IF legible THEN frozen ELSE pause_open
        hides == ~Handled(native) /\ open
        key == IF Handled(native) \/ (open /\ hide.told) THEN None
               ELSE IF open THEN "back" ELSE "start"
    IN /\ Looked
       /\ game' = [game EXCEPT !.frozen = frozen /\ ~(hides /\ hide.closes)]
       /\ start_keycode_down' = key
       /\ pause_open' = (~Handled(native) /\ ~open)
       /\ keys' = IF key = None THEN keys ELSE keys \cup {key}
       /\ pressed' =
             [held |-> TRUE,
              was |-> IF ~InLevel THEN "unknown" ELSE IF game.frozen THEN "paused" ELSE "running",
              lost |-> InLevel /\ Loses(native, legible)]
       /\ UNCHANGED <<controls_popup_answered, controls_popup_attempts, answers>>

StartUp ==
    /\ keys' = keys \ {start_keycode_down}
    /\ start_keycode_down' = None
    /\ pressed' = NoPress
    /\ UNCHANGED <<game, pause_open, answering>>

StartHook ==
    /\ step = "start" /\ step' = "focus"
    /\ \/ ~pressed.held /\ \E native \in Natives, legible \in Knowable, hide \in Hides :
                            StartDown(native, legible, hide)
       \/ pressed.held /\ StartUp
       \/ UNCHANGED <<game, answering, start>>
    /\ UNCHANGED <<build, frame, controller, sampled, focus>>

-------------------------------------------------------------------------------
(* Who drives the menu.                                                    *)

\* Mutant: the focus is given up before it is asked who had it.
ReleasesTooLate(pointer) == pointer /\ native_focus'

Releases(pointer) == pointer /\ native_focus

UpdateFocus(native, pointer) ==
    IF context # "menu" THEN native_focus' = FALSE /\ UNCHANGED <<game, api>>
    ELSE /\ native_focus' = IF pointer THEN FALSE ELSE native_focus \/ native
         /\ IF native_focus' \/ Releases(pointer)
            THEN /\ api' = ResolveFocus(api)
                 /\ game' = IF api'["focus"] > 0 /\ game.manager
                            THEN [game EXCEPT !.mouse = ~native_focus'] ELSE game
            ELSE UNCHANGED <<game, api>>

\* A pointer takes over what the controller had, in the same stay.
AskedNow(native, pointer) ==
    IF context # "menu" THEN None
    ELSE IF pointer THEN IF asked = None THEN None ELSE "pointer"
    ELSE IF native THEN "native" ELSE asked

\* A click of the pointer (update_cursor) forgets the parity of the pause.
FocusHook ==
    /\ step = "focus" /\ step' = "render"
    /\ \E native, pointer \in BOOLEAN :
          /\ pointer => context = "menu"
          /\ keys # {} => native
          /\ UpdateFocus(native, pointer) /\ asked' = AskedNow(native, pointer)
          /\ pause_open' = FALSE \/ pause_open' = pause_open
          /\ ~pointer => pause_open' = pause_open
    /\ UNCHANGED <<build, frame, controller, scene_name, gui_controls_popup_visible, context,
                   answering, start_keycode_down, keys, pressed>>

-------------------------------------------------------------------------------
(* The game reads the key of a new press when it renders: START opens the  *)
(* pause of a running level, BACK closes it.                               *)

Reacts(was) ==
    IF ~InLevel THEN was
    ELSE IF "back" \in keys THEN FALSE ELSE was \/ "start" \in keys

ReadKeys ==
    /\ step = "render" /\ step' = "settled"
    /\ game' = [game EXCEPT !.frozen = Reacts(@)]
    /\ UNCHANGED <<build, frame, controller, sampled, answering, start, focus>>

FrameEnds ==
    /\ step = "settled" /\ step' = "between"
    /\ frame' = IF frame < Warm + Period - 1 THEN frame + 1 ELSE Warm
    /\ pressed' = [pressed EXCEPT !.was = "unknown", !.lost = FALSE]
    /\ UNCHANGED <<build, controller, game, sampled, answering, start_keycode_down,
                   pause_open, keys, focus>>

HooksNext ==
    \/ Move \/ PollBegins \/ PopupHook \/ ScreenHook \/ SignsHook \/ NoPad
    \/ StartHook \/ FocusHook \/ ReadKeys \/ FrameEnds

\* Safety only: the game moves at its own pace.
HooksSpec == HooksInit /\ [][HooksNext]_gameVars

-------------------------------------------------------------------------------
(* Properties.                                                             *)

\* The box is answered at most once, though finding it and answering it may
\* fail in every way; and no function is called that was not found, though
\* the two looks at the interface ask for different ones.
AnsweredOnce == answers <= 1 /\ ~unbound

\* A press of START in a level turns a running game into a paused one and a
\* paused one into a running one, through the toggle, the hidden menu, BACK or
\* BUTTON_START, whatever of them is absent or raises, but for the presses
\* that Loses names: those leave the game as they found it.  No key of START
\* is down when START is not.
StartFlips ==
    /\ step = "settled" /\ pressed.was # "unknown" =>
          game.frozen = (pressed.was = IF pressed.lost THEN "paused" ELSE "running")
    /\ ~pressed.held => keys = {}

\* In a stay on a menu the controller keeps the selection from the touch
\* position the game remembers, whatever the game sets, until the pointer is used; then
\* the pointer has it again.
FocusObeyed ==
    step = "settled" /\ controller /\ context = "menu" /\ api["focus"] > 0 /\ game.manager =>
        /\ asked = "native" => ~game.mouse
        /\ asked = "pointer" => game.mouse

\* With the GUI readable the context is that of the screen of this very poll:
\* gameplay only on the game's screen, running and with no box over it.
ScreenCurrent ==
    step = "settled" /\ api["gui"] > 0 =>
        /\ context = "gameplay" => game.screen = "game" /\ game.popup # "shown"
        /\ context = "menu" /\ game.screen = "game" =>
              gui_controls_popup_visible = (game.popup = "shown")
=============================================================================
