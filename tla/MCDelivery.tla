----------------------------- MODULE MCDelivery -----------------------------
(* Two machines of one poll, that share the screen and START but no state in *)
(* the models: the keys a player's fingers make (Delivery), and what the     *)
(* port does inside the game (GameHooks).  A behaviour exercises one of them *)
(* and leaves the other at its start: the state graph is their sum.          *)
EXTENDS Delivery, GameHooks

\* One control for each way a control is treated: the player has put UP on
\* the action of A for menus and dropped it elsewhere, R3 clicks on a menu and
\* is a key of its own elsewhere, START pauses.
MCOrder == <<"A", "R3", "START", "UP">>
MCKeyBacked == {"A", "R3", "START"}
MCHatBacked == {"UP"}
MCNativeKey == [A |-> "kA", R3 |-> "kThumb", START |-> "kNone", UP |-> "kUp"]
MCDecide ==
    [menu |-> [A |-> "kA", R3 |-> "click", START |-> "kStart", UP |-> "kA"],
     gameplay |-> [A |-> "kA", R3 |-> "native", START |-> "kStart", UP |-> "null"]]

\* A menu, the game running and paused, and a screen that proves nothing.
MCShown ==
    {e \in Screen : /\ ~e.first /\ e.scenes /\ e.gui /\ ~e.popup /\ ~e.standalone
                    /\ e.screen # "pause"
                    /\ e.screen = "other" => ~e.paused
                    /\ e.loading => e.screen = "game" /\ ~e.paused
                    /\ e.screen = "gone" => e.loading}

\* A game that offers everything, with and without the native pause, and games
\* that lack a part of it.
Everything == Offers \ {"native"}
MCBuilds ==
    {Everything, Offers, Everything \ {"reach"}, Everything \ {"time", "select"},
     Everything \ {"gui"}}

VARIABLES
    half,       \* the machine of this behaviour
    moving,     \* bound: what moves in the game besides scene and screen
    lead        \* the keys' machine, wide and shallow, starts some steps later
                \* than the other, narrow and deep: TLC goes breadth first

Movings == {{"popup", "frozen"}, {"manager", "mouse", "popup"}, {"sign"}}

Lead == 50

AllMove == {"popup", "frozen", "manager", "mouse", "sign"}

Moves ==
    /\ \A f \in AllMove \ moving : game'[f] = game[f]
    /\ "frozen" \notin moving => start' = start
    /\ "manager" \notin moving => focus' = focus

\* The idle half stands at one of its initial states.
InputInit ==
    /\ Init /\ HooksInit
    /\ half \in {"delivery", "hooks"} /\ moving \in Movings
    /\ lead = Lead
    /\ half = "delivery" => build = Everything /\ moving = {"sign"}
    /\ half = "hooks" => guard /\ knows

InputNext ==
    /\ UNCHANGED <<half, moving>>
    /\ \/ /\ half = "delivery" /\ lead = 0 /\ Next /\ UNCHANGED <<lead, gameVars>>
       \/ /\ half = "delivery" /\ lead > 0 /\ lead' = lead - 1 /\ UNCHANGED <<vars, gameVars>>
       \/ /\ half = "hooks" /\ HooksNext /\ Moves /\ UNCHANGED <<lead, vars>>

InputSpec == InputInit /\ [][InputNext]_<<vars, gameVars, half, moving, lead>>
=============================================================================
