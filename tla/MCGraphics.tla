----------------------------- MODULE MCGraphics -----------------------------
(* Three machines of the port's GLES2 facade that share no state: the        *)
(* state of one context, the textures, and the contexts on the screen.  A    *)
(* behaviour exercises one of them and leaves the others at the start: the   *)
(* state graph is the sum of the three and not their product.  The state of  *)
(* the context has two turns: one without attachments, one where the guest   *)
(* changes no setting.                                                       *)
EXTENDS GlState, Textures, SdlVideo

\* Bounds: two framebuffers, two settings away from their initial value at
\* once, every pair in its turn; one texture of two levels; two threads that
\* make two contexts.
MCFbos == {"f1", "f2"}
MCTextures == {"t1"}
MCThreads == {"unity", "render"}
MCContexts == {"c1", "c2"}

\* A driver without anything, with 16-bit storage, with a full table of
\* texture names, and with GLES3.
Es2 == [es3 |-> FALSE, etc2 |-> FALSE, astc |-> FALSE, bits16 |-> FALSE, room |-> 1]
MCDrivers ==
    {Es2, [Es2 EXCEPT !.bits16 = TRUE], [Es2 EXCEPT !.bits16 = TRUE, !.room = 0],
     [Es2 EXCEPT !.bits16 = TRUE, !.es3 = TRUE, !.etc2 = TRUE, !.astc = TRUE]}

\* A GLES2 driver that takes ASTC itself, through the GLES2 extension.
MCNativeDrivers == {[Es2 EXCEPT !.astc = TRUE]}

MCLaunches == [capture: BOOLEAN, raw: BOOLEAN, pure: BOOLEAN, was: BOOLEAN]

VARIABLE half       \* the machine of this behaviour

NoStretch == ~g_active /\ ~sdl
NoDriver == driver = Es2
NoLaunch == ~launch.capture /\ ~launch.raw /\ ~launch.pure /\ ~launch.was

GraphicsInit ==
    /\ Init /\ TexturesInit /\ VideoInit
    /\ half \in {"settings", "bindings", "textures", "video"}
    /\ half \in {"textures", "video"} => NoStretch
    /\ half # "textures" => NoDriver \/ Es2 \notin Drivers
    /\ half # "video" => NoLaunch

GraphicsNext ==
    /\ UNCHANGED half
    /\ \/ half = "settings" /\ Next /\ meant' = meant /\ UNCHANGED <<textureVars, videoVars>>
       \/ half = "bindings" /\ Next /\ want' = want /\ UNCHANGED <<textureVars, videoVars>>
       \/ half = "textures" /\ TexturesNext /\ UNCHANGED <<vars, videoVars>>
       \/ half = "video" /\ VideoNext /\ UNCHANGED <<vars, textureVars>>

GraphicsSpec == GraphicsInit /\ [][GraphicsNext]_<<vars, textureVars, videoVars, half>>
=============================================================================
