---------------------------- MODULE TutorialReturn ----------------------------
(***************************************************************************)
(* The way back into an unfinished tutorial (tutorial_return.c): while the  *)
(* board is shown with a save that is still in the tutorial, the port puts  *)
(* an action of its own on the first poster and remembers, in three GC      *)
(* handles, the button, the game's action and its own; it takes its action  *)
(* off again when the board is left or anything else no longer fits.        *)
(*                                                                          *)
(* Between two polls the game shows other screens, builds its buttons anew, *)
(* sets their actions and enables them.  What the poll reads of the save,   *)
(* the menus and the other buttons is abstracted to the flag fits.          *)
(***************************************************************************)
EXTENDS Integers, FiniteSets

CONSTANTS
    Buttons,   \* the button objects the game may have as its first poster
    None,      \* no button
    GameMoves  \* bounds what the game does with its board

ASSUME TutorialAssumption == None \notin Buttons /\ Buttons # {} /\ GameMoves \in Nat

VARIABLES
    board,   \* the board is the screen that is shown
    fits,    \* everything else the poll reads: save, menus, other posters
    first,   \* the button that is the first poster
    click,   \* click[b]: the action on button b
    set,     \* set[b]: the action the game last put there
    active,  \* the buttons that are enabled
    owned,   \* the three handles: [button, original], or no button
    live,    \* the number of GC handles allocated and not freed
    moves    \* counts the moves of the game

tutorial == <<board, fits, first, click, set, active, owned, live, moves>>

Unowned == [button |-> None, original |-> "none"]
GameActions == {"stock", "other"}

TutorialInit ==
    /\ board = FALSE /\ fits \in BOOLEAN /\ first = CHOOSE b \in Buttons : TRUE
    /\ click = [b \in Buttons |-> "stock"] /\ set = click
    /\ active = {} /\ owned = Unowned /\ live = 0 /\ moves = 0

-----------------------------------------------------------------------------
\* The game shows or leaves the board, goes on in the save, shows the buttons
\* of another board, sets an action or enables a poster.
GameMove ==
    /\ moves < GameMoves /\ moves' = moves + 1
    /\ \/ board' = ~board /\ UNCHANGED <<fits, first, click, set, active>>
       \/ fits' = ~fits /\ UNCHANGED <<board, first, click, set, active>>
       \/ \E b \in Buttons \ {first} :
            /\ first' = b
            /\ click' = [click EXCEPT ![b] = "stock"] /\ set' = [set EXCEPT ![b] = "stock"]
            /\ active' = active \ {b}
            /\ UNCHANGED <<board, fits>>
       \/ \E a \in GameActions :
            /\ click' = [click EXCEPT ![first] = a] /\ set' = [set EXCEPT ![first] = a]
            /\ UNCHANGED <<board, fits, first, active>>
       \/ active' = active \cup {first} /\ UNCHANGED <<board, fits, first, click, set>>
    /\ UNCHANGED <<owned, live>>

-----------------------------------------------------------------------------
RestoredAnyway == owned.button # None
\* The port's action is still where it put it.
StillOurs == owned.button # None /\ click[owned.button] = "port"

\* The game's action is put back and the poster disabled, unless the game has
\* changed the action meanwhile; the handles are freed either way.
Restore ==
    /\ IF StillOurs
       THEN /\ click' = [click EXCEPT ![owned.button] = owned.original]
            /\ active' = active \ {owned.button}
       ELSE UNCHANGED <<click, active>>
    /\ owned' = Unowned
    /\ live' = IF owned.button = None THEN live ELSE live - 3

\* The poster becomes the way back into the tutorial.  Any of the calls into
\* the guest may fail, and so may a handle: then nothing is kept.
Offer ==
    \/ /\ owned' = [button |-> first, original |-> click[first]]
       /\ live' = live + 3
       /\ click' = [click EXCEPT ![first] = "port"]
       /\ active' = active \cup {first}
    \/ UNCHANGED <<click, active, owned, live>>

\* st_tutorial_return_poll: a first poster that is enabled, and not by the
\* port, means that the save has gone on.
Fits == fits /\ (first \in active => owned.button = first)

TutorialPoll ==
    /\ IF ~board \/ ~Fits THEN Restore
       ELSE IF owned.button # None
            THEN IF first # owned.button \/ click[first] # "port" THEN Restore
                 ELSE UNCHANGED <<click, active, owned, live>>
            ELSE Offer
    /\ UNCHANGED <<board, fits, first, set, moves>>

-----------------------------------------------------------------------------
(***************************************************************************)
(* Whatever the game does between two polls, a button carries the action    *)
(* the game last gave it, except the one the port holds; no action of the   *)
(* game is overwritten and none of the port's is left behind, and handles   *)
(* are held all three or not at all (restore and st_tutorial_return_poll).  *)
(***************************************************************************)
GameKeepsItsActions ==
    /\ \A b \in Buttons :
        click[b] # set[b] => click[b] = "port" /\ owned.button = b /\ owned.original = set[b]
    /\ live = IF owned.button = None THEN 0 ELSE 3
=============================================================================
