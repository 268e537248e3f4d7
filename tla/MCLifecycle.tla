----------------------------- MODULE MCLifecycle -----------------------------
(***************************************************************************)
(* The life of the program on a small instance: three libraries whose       *)
(* constructors open each other's, two audio formats, a queue of two blocks *)
(* and a format comparison every three, two posters, and four launches:     *)
(* a normal one, one of a fresh save, one under the watchdog and one that   *)
(* asks for the engine's teardown.                                          *)
(***************************************************************************)
EXTENDS Lifecycle, TLC

CONSTANTS Libmain, Libunity, Libil2cpp

MCLibs == <<Libmain, Libunity, Libil2cpp>>
MCSymbols == {"JNI_OnLoad", "malloc", "gc", "burst", "weak", "print"}
MCHost == {"malloc", "print"}
\* "print" is defined by the host and by libunity, "weak" by nobody.
MCDefines == (Libmain :> {"JNI_OnLoad"})
          @@ (Libunity :> {"JNI_OnLoad", "burst", "print"})
          @@ (Libil2cpp :> {"JNI_OnLoad", "gc"})
MCNeeds == (Libmain :> {"malloc", "burst"})
        @@ (Libunity :> {"malloc", "gc", "weak", "print", "JNI_OnLoad"})
        @@ (Libil2cpp :> {"malloc", "burst", "gc", "print"})
MCEntries == (Libmain :> <<NoLib>>)
          @@ (Libunity :> <<NoFn, Libil2cpp, NoLib>>)
          @@ (Libil2cpp :> <<Libunity, NoLib>>)

NoLimits == [startup |-> 0, stall |-> 0]
Normal == [audio |-> TRUE, nativeDone |-> FALSE, fresh |-> FALSE,
           limits |-> NoLimits, frames |-> 0]
Silent == [Normal EXCEPT !.audio = FALSE]
MCLaunches ==
    {Normal,
     [Silent EXCEPT !.fresh = TRUE],
     [Silent EXCEPT !.limits = [startup |-> 2, stall |-> 1]],
     [Silent EXCEPT !.nativeDone = TRUE, !.frames = 1]}
=============================================================================
