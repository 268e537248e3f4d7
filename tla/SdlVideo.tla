------------------------------ MODULE SdlVideo ------------------------------
(***************************************************************************)
(* Who owns the screen, and the contexts of the owner.                     *)
(*                                                                         *)
(* The port gives Unity an EGL.  At start it tries SDL: a window and a     *)
(* GLES2 context for one of five formats, else the vendor's own EGL         *)
(* (egl_sdl.c, st_egl_init of egl.c).  On SDL every context Unity asks for *)
(* is an SDL context that shares its objects with one root context, which  *)
(* the creating thread makes current for a moment.                         *)
(*                                                                         *)
(* SDL refuses a context that is current on another thread, and may refuse *)
(* any for reasons of its own (the window's one surface in use elsewhere). *)
(* Letting go it always grants.                                            *)
(***************************************************************************)
EXTENDS Naturals

CONSTANTS
    Threads,
    Contexts,       \* context handles
    Launches        \* capture, raw, pure: settings; was: SDL video already up

Nobody == "nobody"
Root == "root"
Orphan == "orphan"      \* a context destroyed while a thread had it current

\* The root is none of the contexts Unity is given.
ASSUME SdlVideoAssumption ==
    /\ \A v \in Launches : {v.capture, v.raw, v.pure, v.was} \subseteq BOOLEAN
    /\ Contexts \cap {Nobody, Root, Orphan} = {}
    /\ Nobody \notin Threads

NumFormats == 5     \* depth, stencil and alpha, the richest first

VARIABLES
    launch,         \* a member of Launches
    boot,           \* where st_egl_init is: "start", "trying", "sdl", "raw", "died"
    tried,          \* formats create_window has tried
    video_mode,
    subsystem,      \* SDL video is initialised
    video_window,
    share_root,     \* "none", "es", "desktop"
    device,         \* Unity's negotiation: "no", "chosen", "verified", "refused"
    context_lock,
    pc,             \* of each thread in eglCreateContext
    making,         \* the handle it makes
    sharing,        \* SDL_GL_SHARE_WITH_CURRENT_CONTEXT
    sdl_current,    \* what SDL has current on each thread
    current_context,
    context,        \* "free", "shared" or "alone"
    refused,        \* history: contexts made after SDL refused the root, though
                    \* no other thread was making one
    astray          \* history: threads that made a context while they had one
                    \* current, or had theirs destroyed by another thread

owner == <<launch, boot, tried, video_mode, subsystem, video_window, share_root>>
contexts == <<context_lock, pc, making, sharing, sdl_current, current_context, context,
              refused, astray>>
videoVars == <<owner, device, contexts>>

VideoInit ==
    /\ launch \in Launches
    /\ boot = "start" /\ tried = 0 /\ video_mode = "undecided" /\ subsystem = launch.was
    /\ video_window = FALSE /\ share_root = "none" /\ device = "no"
    /\ context_lock = Nobody /\ sharing = FALSE
    /\ pc = [t \in Threads |-> "idle"] /\ making = [t \in Threads |-> Nobody]
    /\ sdl_current = making /\ current_context = making
    /\ context = [c \in Contexts |-> "free"]
    /\ refused = {} /\ astray = {}

-------------------------------------------------------------------------------
(* st_egl_init, st_sdl_video_init and create_window.                       *)

\* A capture run asks SDL nothing.
TakeRaw ==
    /\ boot = "start" /\ (launch.capture \/ launch.raw)
    /\ boot' = "raw" /\ video_mode' = IF launch.capture THEN video_mode ELSE "raw"
    /\ UNCHANGED <<launch, tried, subsystem, video_window, share_root, device, contexts>>

InitSubSystem(up) ==
    /\ boot = "start" /\ ~launch.capture /\ ~launch.raw
    /\ boot' = IF up THEN "trying" ELSE "raw"
    /\ video_mode' = IF up THEN "sdl" ELSE "raw"
    /\ subsystem' = (up \/ subsystem)
    /\ UNCHANGED <<launch, tried, video_window, share_root, device, contexts>>

\* Mutant: the window outlives the format it was made for.
WindowAfterLeft(root) == TRUE

WindowAfter(root) == root = "es"

\* One format: no window, no context, a desktop GL that is given back, or the
\* root context of the run.
TryFormat(opened, root) ==
    /\ boot = "trying" /\ tried < NumFormats /\ tried' = tried + 1
    /\ video_window' = (opened /\ WindowAfter(root))
    /\ share_root' = IF opened /\ root = "es" THEN root ELSE "none"
    /\ boot' = IF share_root' = "es" THEN "sdl" ELSE boot
    /\ UNCHANGED <<launch, video_mode, subsystem, device, contexts>>

\* No format did: with ST_PURE_SDL_CONTEXTS the program ends.
GiveUpSdl ==
    /\ boot = "trying" /\ tried = NumFormats
    /\ IF launch.pure THEN boot' = "died" /\ UNCHANGED <<video_mode, subsystem>>
       ELSE boot' = "raw" /\ video_mode' = "raw" /\ subsystem' = launch.was
    /\ UNCHANGED <<launch, tried, video_window, share_root, device, contexts>>

-------------------------------------------------------------------------------
(* Unity asks for GLES3 and checks what it was given; the driver is GLES2. *)

Driver == {"es2"}

\* eglChooseConfig without the GLES3 bit.
Requested(bits) == (bits \ {"es3"}) \cup (IF "es3" \in bits THEN {"es2"} ELSE {})

\* eglGetConfigAttrib tells the lie it took to find the configuration.
Reported(bits) == bits \cup {"es3"}

ChooseConfig(bits) ==
    /\ boot \in {"sdl", "raw"} /\ device = "no"
    /\ device' = IF boot = "sdl" \/ Requested(bits) \subseteq Driver THEN "chosen" ELSE "refused"
    /\ UNCHANGED <<owner, contexts>>

VerifyConfig(bits) ==
    /\ device = "chosen"
    /\ device' = IF bits \subseteq Reported(Driver) THEN "verified" ELSE "refused"
    /\ UNCHANGED <<owner, contexts>>

-------------------------------------------------------------------------------
(* The contexts on SDL.  Any thread makes, takes, leaves and destroys them  *)
(* at any time; only the making is under the lock.                         *)

Elsewhere(t, c) == \E u \in Threads \ {t} : sdl_current[u] = c

\* A handle is the caller's when its creation has returned.
Given(c) == context[c] # "free" /\ \A t \in Threads : making[t] # c

\* Mutant: the creation holds no lock.
FreeToMakeUnlocked == TRUE

FreeToMake == context_lock = Nobody

\* What the thread had current it will not have afterwards, and nobody tells
\* the facade.
CreateContext(t, c) ==
    /\ device = "verified" /\ boot = "sdl"
    /\ pc[t] = "idle" /\ context[c] = "free" /\ \A u \in Threads : making[u] # c
    /\ FreeToMake
    /\ context_lock' = t /\ pc' = [pc EXCEPT ![t] = "root"] /\ making' = [making EXCEPT ![t] = c]
    /\ refused' = refused \ {c}
    /\ astray' = IF current_context[t] = Nobody THEN astray ELSE astray \cup {t}
    /\ UNCHANGED <<owner, device, sharing, sdl_current, current_context, context>>

\* The answer of SDL_GL_MakeCurrent is not looked at.
MakeRootCurrent(t, done) ==
    /\ pc[t] = "root" /\ (done => ~Elsewhere(t, Root))
    /\ sharing' = TRUE
    /\ sdl_current' = IF done THEN [sdl_current EXCEPT ![t] = Root] ELSE sdl_current
    /\ refused' = IF ~done /\ \A u \in Threads \ {t} : pc[u] = "idle"
                  THEN refused \cup {making[t]} ELSE refused
    /\ pc' = [pc EXCEPT ![t] = "make"]
    /\ UNCHANGED <<owner, device, context_lock, making, current_context, context, astray>>

\* SDL shares with what the thread has current, and makes the new one current.
InGroup(c) == c = Root \/ (c \in Contexts /\ context[c] = "shared")

MakeContext(t, done) ==
    /\ pc[t] = "make"
    /\ IF done
       THEN /\ context' = [context EXCEPT ![making[t]] =
                              IF sharing /\ InGroup(sdl_current[t]) THEN "shared" ELSE "alone"]
            /\ sdl_current' = [sdl_current EXCEPT ![t] = making[t]]
       ELSE UNCHANGED <<context, sdl_current>>
    /\ pc' = [pc EXCEPT ![t] = "end"]
    /\ UNCHANGED <<owner, device, context_lock, making, sharing, current_context, refused, astray>>

CreateEnds(t) ==
    /\ pc[t] = "end"
    /\ sharing' = FALSE /\ sdl_current' = [sdl_current EXCEPT ![t] = Nobody]
    /\ context_lock' = Nobody
    /\ pc' = [pc EXCEPT ![t] = "idle"] /\ making' = [making EXCEPT ![t] = Nobody]
    /\ UNCHANGED <<owner, device, current_context, context, refused, astray>>

\* A context that SDL refuses leaves the old one current.
SdlMakeCurrent(t, c, done) ==
    /\ pc[t] = "idle" /\ Given(c) /\ (done => ~Elsewhere(t, c))
    /\ IF done THEN /\ sdl_current' = [sdl_current EXCEPT ![t] = c]
                    /\ current_context' = [current_context EXCEPT ![t] = c]
                    /\ astray' = astray \ {t}
       ELSE UNCHANGED <<sdl_current, current_context, astray>>
    /\ UNCHANGED <<owner, device, context_lock, pc, making, sharing, context, refused>>

\* eglMakeCurrent of nothing and eglReleaseThread.
ReleaseCurrent(t) ==
    /\ pc[t] = "idle"
    /\ sdl_current' = [sdl_current EXCEPT ![t] = Nobody]
    /\ current_context' = [current_context EXCEPT ![t] = Nobody]
    /\ astray' = astray \ {t}
    /\ UNCHANGED <<owner, device, context_lock, pc, making, sharing, context, refused>>

\* Only the calling thread lets go of the context first.
DestroyContext(t, c) ==
    /\ pc[t] = "idle" /\ Given(c)
    /\ context' = [context EXCEPT ![c] = "free"]
    /\ sdl_current' = [u \in Threads |->
           IF u = t THEN IF current_context[t] = c THEN Nobody ELSE sdl_current[t]
           ELSE IF sdl_current[u] = c THEN Orphan ELSE sdl_current[u]]
    /\ current_context' = IF current_context[t] = c THEN [current_context EXCEPT ![t] = Nobody]
                          ELSE current_context
    /\ astray' = {u \in Threads : IF current_context[u] = c THEN u # t ELSE u \in astray}
    /\ UNCHANGED <<owner, device, context_lock, pc, making, sharing, refused>>

VideoNext ==
    \/ TakeRaw \/ GiveUpSdl
    \/ \E up \in BOOLEAN : InitSubSystem(up)
    \/ \E opened \in BOOLEAN, root \in {"none", "desktop", "es"} : TryFormat(opened, root)
    \/ ChooseConfig({"es3"}) \/ VerifyConfig({"es3"})
    \/ \E t \in Threads :
          \/ CreateEnds(t) \/ ReleaseCurrent(t)
          \/ \E done \in BOOLEAN : MakeRootCurrent(t, done) \/ MakeContext(t, done)
          \/ \E c \in Contexts : CreateContext(t, c) \/ DestroyContext(t, c)
          \/ \E c \in Contexts, done \in BOOLEAN : SdlMakeCurrent(t, c, done)

VideoSpec == VideoInit /\ [][VideoNext]_videoVars

-------------------------------------------------------------------------------
(* Properties.                                                             *)

\* The screen has one owner: SDL with its window and a GLES root, or the
\* vendor's EGL and nothing of SDL left that was not there before; and either
\* serves a Unity that asks for GLES3.
OneBackend ==
    /\ boot = "sdl" => video_mode = "sdl" /\ subsystem /\ video_window /\ share_root = "es"
    /\ boot = "raw" => /\ video_mode # "sdl" /\ subsystem = launch.was
                       /\ ~video_window /\ share_root = "none"
    /\ device # "refused"

\* Every context shares the root's objects, though two threads make theirs
\* at once and others take and destroy contexts meanwhile, unless SDL refused
\* the root to the only thread that was making one (egl_sdl.c:563).  A thread
\* that makes none never has another context current than the facade says; and
\* SDL and the facade agree on it, but for a thread that made a context while
\* it had one current (egl_sdl.c:566) or whose context another destroyed, until
\* it next takes or leaves one.
OneGroup ==
    /\ \A c \in Contexts : context[c] = "alone" => c \in refused
    /\ \A t \in Threads : pc[t] = "idle" =>
          /\ sdl_current[t] \in {Nobody, Orphan, current_context[t]}
          /\ t \notin astray => sdl_current[t] = current_context[t]
    /\ \A t \in Threads \ astray :
          current_context[t] # Nobody => context[current_context[t]] # "free"
=============================================================================
