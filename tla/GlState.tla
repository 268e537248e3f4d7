------------------------------ MODULE GlState ------------------------------
(***************************************************************************)
(* One GLES2 state, two users.                                             *)
(*                                                                         *)
(* Unity draws through the port's GLES3 facade; between two of its calls   *)
(* the port draws on the same context: the keyboard, the internal 16:9     *)
(* target stretched to the panel, the cursor (egl.c, stretch.c, gles3.c).  *)
(* The driver has one framebuffer binding where Unity has two, and on a    *)
(* panel that is not 16:9 Unity's framebuffer 0 is the internal target.    *)
(*                                                                         *)
(* A setting is 0, the context's initial value, or 1, another the guest    *)
(* chose; the port writes 0, or Port where the value is one of its own.    *)
(***************************************************************************)
EXTENDS Naturals, FiniteSets, Functions

CONSTANTS
    Fbos,       \* framebuffer names of the guest
    MaxOdd      \* bound: settings that are away from 0 at once

Zero == "zero"          \* framebuffer 0 of the guest
Panel == "panel"        \* framebuffer 0 of the driver
Target == "target"      \* g_fbo
Port == 2
Whole == 3              \* of the viewport: the internal target from end to end

ASSUME GlStateAssumption ==
    /\ MaxOdd \in Nat
    /\ Fbos \cap {Zero, Panel, Target} = {}

Flags == {"blend", "depth", "cull", "stencil", "scissor"}
Settings ==
    Flags \cup {"mask", "clear", "clear_depth", "clear_stencil", "box",
                "program", "buffer", "unit", "tex0", "tex1", "renderbuffer"}
Images == {0, 1}        \* what is attached to a framebuffer

VARIABLES
    framebuffer, read_framebuffer,   \* gl_state: what the guest bound
    g_active,      \* the internal target is wanted
    target,        \* g_fbo: "none" yet, "made", "dead"
    sdl,           \* the SDL backend, not the vendor's EGL
    d,             \* the driver: fbo, view, set, on and from (vertex array 0), image
    want,          \* history: the settings as the guest made them
    wantArray,     \* history: the vertex array 0 as the guest made it
    wantView,      \* history: the viewport as the guest made it
    framed,        \* history: a frame on the target began after that
    strayed,       \* history: see Strays
    meant          \* history: what the guest attached to each framebuffer

port == <<framebuffer, read_framebuffer, g_active, target, sdl>>
views == <<wantView, framed>>
hist == <<want, wantArray, views, strayed, meant>>
vars == <<port, d, hist>>

\* Stretch is a policy of the SDL backend.
Init ==
    /\ framebuffer = Zero /\ read_framebuffer = Zero
    /\ g_active \in BOOLEAN /\ target = "none"
    /\ sdl \in BOOLEAN /\ (g_active => sdl)
    /\ d = [fbo |-> Panel, view |-> 0, set |-> [s \in Settings |-> 0],
            on |-> FALSE, from |-> 0, image |-> [f \in Fbos |-> 0]]
    /\ want = d.set /\ wantArray = [on |-> FALSE, from |-> 0]
    /\ wantView = 0 /\ framed = FALSE /\ strayed = FALSE
    /\ meant = [f \in Fbos |-> {0}]

Stretched == g_active /\ target = "made"

Physical(f) == IF f # Zero THEN f ELSE IF Stretched THEN Target ELSE Panel

-------------------------------------------------------------------------------
(* What the port does to the driver.                                       *)

Put(new, gl) ==
    [gl EXCEPT !.set = [s \in Settings |-> IF s \in DOMAIN new THEN new[s] ELSE @[s]]]

Saved(names, gl) == Restrict(gl.set, names)

BoundTexture(gl) == IF gl.set["unit"] = 0 THEN "tex0" ELSE "tex1"

AllOff == [s \in Flags |-> 0]

\* The shader of the port reads the vertex array 0 from a buffer of the port.
DrawArray(gl) == [Put([buffer |-> Port], gl) EXCEPT !.on = TRUE, !.from = Port]

\* A disabled array is disabled again and keeps the pointer of the port.
RestoreArray(gl, old) ==
    [gl EXCEPT !.on = old.on, !.from = IF old.on THEN old.from ELSE @]

\* draw_gamepad_keyboard draws only on the framebuffer 0 of the driver.
Keyboard(gl) ==
    IF gl.fbo # Panel THEN gl
    ELSE LET drawn == Put([scissor |-> 1, mask |-> 0, box |-> Port, clear |-> Port], gl)
         IN Put(Saved({"clear", "mask", "box", "scissor"}, gl), drawn)

\* Mutant: the cursor forces the colour mask and leaves it so.
CursorLeavesMask(gl) ==
    IF gl.fbo # Panel THEN gl
    ELSE LET drawn == DrawArray(Put([mask |-> 0, program |-> Port], Put(AllOff, gl)))
         IN Put(Saved(Flags \cup {"program", "buffer"}, gl), RestoreArray(drawn, gl))

Cursor(gl) ==
    IF gl.fbo # Panel THEN gl
    ELSE LET drawn == DrawArray(Put([mask |-> 0, program |-> Port], Put(AllOff, gl)))
         IN Put(Saved(Flags \cup {"mask", "program", "buffer"}, gl),
                RestoreArray(drawn, gl))

\* st_stretch_present: the binding and the viewport stay the panel's, for the
\* cursor; the texture of unit 0 is put back on unit 0, whatever unit the guest
\* had chosen.
Present(gl) ==
    IF ~Stretched THEN gl
    ELSE LET own == [mask |-> 0, clear |-> Port, program |-> Port, unit |-> 0, tex0 |-> Port]
             drawn == DrawArray([Put(own, Put(AllOff, gl)) EXCEPT !.fbo = Panel, !.view = Port])
         IN Put(Saved(Flags \cup {"mask", "clear", "program", "buffer", "tex0", "unit"}, gl),
                RestoreArray(drawn, gl))

\* Mutant: the panel stays bound after the frame.
AfterPresentForgets(gl) == gl

\* st_stretch_after_present: the target again, and a viewport of its size.
AfterPresent(gl) ==
    IF Stretched THEN [gl EXCEPT !.fbo = Target, !.view = Whole] ELSE gl

-------------------------------------------------------------------------------
(* The calls of the guest.                                                 *)

\* Some calls leave the driver's binding off a target that is made, until the
\* guest binds for drawing or a frame ends on framebuffer 0: they bind the 0 of
\* the driver for that of the guest, or the target for a framebuffer.
Strays(badly) == strayed' = (strayed \/ (Stretched /\ badly))

FrameBegins == framed' = (framed \/ Stretched)

\* create_target, at the first bind of 0: it is made or it is never tried
\* again, and the bindings of the guest are put back.
MakeTarget ==
    IF ~g_active \/ target # "none"
    THEN UNCHANGED <<g_active, target>>
    ELSE \/ target' = "made" /\ UNCHANGED g_active
         \/ target' = "dead" /\ g_active' \in BOOLEAN

CreateTarget(gl) ==
    LET used == {BoundTexture(gl), "renderbuffer", "buffer"}
        made == Put([s \in used |-> Port], gl)
    IN Put(Saved(used, gl), made)

BindFramebuffer(t, f) ==
    /\ IF f = Zero /\ t # "read" THEN MakeTarget ELSE UNCHANGED <<g_active, target>>
    /\ LET gl == IF target' # target THEN CreateTarget(d) ELSE d
       IN d' = IF t = "read" THEN gl ELSE [gl EXCEPT !.fbo = Physical(f)']
    /\ framebuffer' = IF t = "read" THEN framebuffer ELSE f
    /\ read_framebuffer' = IF t = "draw" THEN read_framebuffer ELSE f
    /\ strayed' = (strayed /\ t = "read")
    /\ UNCHANGED <<sdl, want, wantArray, views, meant>>

\* The driver binds its own 0 when the bound name goes.
DeleteFramebuffers(f) ==
    /\ Strays(framebuffer = f)
    /\ framebuffer' = IF framebuffer = f THEN Zero ELSE framebuffer
    /\ read_framebuffer' = IF read_framebuffer = f THEN Zero ELSE read_framebuffer
    /\ d' = [d EXCEPT !.fbo = IF @ = f THEN Panel ELSE @, !.image[f] = 0]
    /\ meant' = [meant EXCEPT ![f] = {0}]
    /\ UNCHANGED <<g_active, target, sdl, want, wantArray, views>>

\* framebuffer_operation_begin: an operation on the read side borrows the
\* driver's binding, and framebuffer_operation_end gives it back to the draw
\* side.  Neither knows the internal target.
RawName(f) == IF f = Zero THEN Panel ELSE f

Borrows(t) == t = "read" /\ read_framebuffer # framebuffer

OperationBegin(t, gl) ==
    IF Borrows(t) THEN [gl EXCEPT !.fbo = RawName(read_framebuffer)] ELSE gl

OperationEnd(t, gl) ==
    IF Borrows(t) THEN [gl EXCEPT !.fbo = RawName(framebuffer)] ELSE gl

Side(t) == IF t = "read" THEN read_framebuffer ELSE framebuffer

\* The name 0 has no attachment to change.  What a strayed binding attaches
\* may miss its framebuffer.
Attach(t, i) ==
    /\ Side(t) # Zero /\ Strays(Borrows(t) /\ framebuffer = Zero)
    /\ LET gl == OperationBegin(t, d)
           attached == IF gl.fbo \in Fbos THEN [gl EXCEPT !.image[gl.fbo] = i] ELSE gl
       IN d' = OperationEnd(t, attached)
    /\ meant' = [meant EXCEPT ![Side(t)] = IF strayed THEN @ \cup {i} ELSE {i}]
    /\ UNCHANGED <<port, want, wantArray, views>>

CheckStatus(t) ==
    /\ Strays(Borrows(t) /\ framebuffer = Zero)
    /\ d' = OperationEnd(t, OperationBegin(t, d))
    /\ UNCHANGED <<port, want, wantArray, views, meant>>

Odd(w) == Cardinality({s \in Settings : w[s] # 0})

\* ColorMask, ClearColor, Enable, Disable, UseProgram, BindBuffer, ...
Set(s, v) ==
    /\ v # want[s] /\ want' = [want EXCEPT ![s] = v] /\ Odd(want') <= MaxOdd
    /\ d' = Put([x \in {s} |-> v], d)
    /\ UNCHANGED <<port, wantArray, views, strayed, meant>>

\* Viewport
SetViewport(v) ==
    /\ d' = [d EXCEPT !.view = v]
    /\ wantView' = v /\ framed' = FALSE
    /\ UNCHANGED <<port, want, wantArray, strayed, meant>>

\* The guest that enables the array points it at the buffer it has bound.
VertexArray(on) ==
    /\ d' = IF on THEN [d EXCEPT !.on = TRUE, !.from = d.set["buffer"]]
            ELSE [d EXCEPT !.on = FALSE]
    /\ wantArray' = IF on THEN [on |-> TRUE, from |-> want["buffer"]]
                    ELSE [wantArray EXCEPT !.on = FALSE]
    /\ UNCHANGED <<port, want, views, strayed, meant>>

\* ClearBuffer: the value of the attachment is lent to one clear.
ClearedBy(buffer) ==
    CASE buffer = "color" -> {"clear"}
      [] buffer = "depth" -> {"clear_depth"}
      [] buffer = "stencil" -> {"clear_stencil"}
      [] buffer = "depth_stencil" -> {"clear_depth", "clear_stencil"}

ClearBuffer(buffer) ==
    /\ LET names == ClearedBy(buffer)
           lent == Put([s \in names |-> Port], d)
       IN d' = Put(Saved(names, d), lent)
    /\ UNCHANGED <<port, hist>>

\* eglMakeCurrent of a window surface.
MakeCurrent ==
    /\ sdl
    /\ d' = AfterPresent(d)
    /\ FrameBegins /\ strayed' = (Stretched /\ framebuffer # Zero)
    /\ UNCHANGED <<port, want, wantArray, wantView, meant>>

\* my_eglSwapBuffers: the keyboard first; then the SDL path drops the swap of
\* a pbuffer or stretches, points and gives the target back.
SwapBuffers(asked, window) ==
    LET typed == IF "keyboard" \in asked THEN Keyboard(d) ELSE d
        stretched == Present(typed)
        pointed == IF "cursor" \in asked THEN Cursor(stretched) ELSE stretched
    IN /\ window \/ sdl
       /\ d' = IF window THEN AfterPresent(pointed) ELSE typed
       /\ IF window THEN FrameBegins /\ strayed' = (Stretched /\ framebuffer # Zero)
          ELSE UNCHANGED <<framed, strayed>>
       /\ UNCHANGED <<port, want, wantArray, wantView, meant>>

Next ==
    \/ \E t \in {"both", "draw", "read"}, f \in Fbos \cup {Zero} : BindFramebuffer(t, f)
    \/ \E f \in Fbos : DeleteFramebuffers(f)
    \/ \E t \in {"draw", "read"} : CheckStatus(t) \/ \E i \in Images : Attach(t, i)
    \/ \E s \in Settings, v \in {0, 1} : Set(s, v)
    \/ \E v \in {0, 1} : SetViewport(v)
    \/ \E on \in BOOLEAN : VertexArray(on)
    \/ \E b \in {"color", "depth", "stencil", "depth_stencil"} : ClearBuffer(b)
    \/ MakeCurrent
    \/ \E asked \in SUBSET {"keyboard", "cursor"}, window \in BOOLEAN :
          SwapBuffers(asked, window)

Spec == Init /\ [][Next]_vars

-------------------------------------------------------------------------------
(* Properties.                                                             *)

\* The driver's only binding is the logical draw framebuffer, where the
\* guest's 0 is the internal target once there is one: no draw of the guest
\* lands on the panel under the stretched image, unless the guest has strayed
\* (egl.c:535, 591 and st_stretch_after_present); and even then none lands on a
\* framebuffer the guest has not bound.
TargetFollows ==
    /\ ~strayed => d.fbo = Physical(framebuffer)
    /\ d.fbo \in Fbos => d.fbo = framebuffer

\* Between two calls of the guest the driver holds the settings the guest last
\* made, whatever the port drew meanwhile; the pointer of a disabled array is
\* free.  The viewport too, but for a guest on the internal target: each of its
\* frames begins with the whole of the target, never with the panel or the
\* rectangle of the image, and the guest programs its own (stretch.c:404-414).
StateKept ==
    /\ d.set = want
    /\ d.on = wantArray.on
    /\ wantArray.on => d.from = wantArray.from
    /\ d.view = IF framed THEN Whole ELSE wantView

\* An attachment made through READ_FRAMEBUFFER reaches the framebuffer bound
\* for reading, one made through DRAW_FRAMEBUFFER the one bound for drawing.
AttachedRight == \A f \in Fbos : d.image[f] \in meant[f]

\* The guest's two bindings are served by the driver's one.
BindingsFollow == TargetFollows /\ AttachedRight

=============================================================================
