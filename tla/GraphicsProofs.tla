----------------------------- MODULE GraphicsProofs -----------------------------
(***************************************************************************)
(* Proofs about the three machines of the GLES2 facade: the contexts on    *)
(* the screen (SdlVideo), the state two users share (GlState) and the      *)
(* textures (Textures).                                                    *)
(***************************************************************************)
EXTENDS GlState, Textures, SdlVideo, TLAPS

-------------------------------------------------------------------------------
(***************************************************************************)
(* Who owns the screen.                                                    *)
(***************************************************************************)
\* What each stage of st_egl_init has decided, and what a Unity that asks for
\* GLES3 is told afterwards.
OwnerInv ==
    /\ launch \in Launches
    /\ boot \in {"start", "trying", "sdl", "raw", "died"}
    /\ boot = "start" => /\ video_mode = "undecided" /\ subsystem = launch.was
                         /\ ~video_window /\ share_root = "none"
    /\ boot = "trying" => /\ video_mode = "sdl" /\ subsystem
                          /\ ~video_window /\ share_root = "none"
    /\ OneBackend

LEMMA OwnerSteps == ASSUME OwnerInv, VideoNext PROVE OwnerInv'
<1> USE DEF owner
<1>1. CASE TakeRaw
  BY <1>1 DEF OwnerInv, OneBackend, TakeRaw
<1>2. CASE GiveUpSdl
  BY <1>2 DEF OwnerInv, OneBackend, GiveUpSdl
<1>3. ASSUME NEW up \in BOOLEAN, InitSubSystem(up) PROVE OwnerInv'
  <2>1. subsystem = launch.was /\ launch.was \in BOOLEAN
    BY <1>3, SdlVideoAssumption DEF OwnerInv, InitSubSystem
  <2>2. up => subsystem'
    BY <1>3 DEF InitSubSystem
  <2>3. ~up => subsystem' = launch.was
    BY <1>3, <2>1 DEF InitSubSystem
  <2>4. /\ launch' = launch /\ video_window' = video_window /\ share_root' = share_root
        /\ device' = device /\ boot = "start"
        /\ boot' = IF up THEN "trying" ELSE "raw"
        /\ video_mode' = IF up THEN "sdl" ELSE "raw"
    BY <1>3 DEF InitSubSystem
  <2> QED
    BY <2>2, <2>3, <2>4 DEF OwnerInv, OneBackend
<1>4. ASSUME NEW opened \in BOOLEAN, NEW root \in {"none", "desktop", "es"},
             TryFormat(opened, root)
      PROVE  OwnerInv'
  BY <1>4 DEF OwnerInv, OneBackend, TryFormat, WindowAfter
<1>5. CASE ChooseConfig({"es3"})
  BY <1>5 DEF OwnerInv, OneBackend, ChooseConfig, Requested, Driver
<1>6. CASE VerifyConfig({"es3"})
  BY <1>6 DEF OwnerInv, OneBackend, VerifyConfig, Reported, Driver
<1>7. CASE UNCHANGED <<owner, device>>
  BY <1>7 DEF OwnerInv, OneBackend
<1> QED
  BY <1>1, <1>2, <1>3, <1>4, <1>5, <1>6, <1>7
  DEF VideoNext, MakeRootCurrent, CreateEnds, ReleaseCurrent, MakeContext, CreateContext,
      DestroyContext, SdlMakeCurrent

\* The screen has one owner, and either serves a Unity that asks for GLES3
\* (egl_sdl.c, st_egl_init).
THEOREM ScreenHasOneOwner == VideoSpec => []OneBackend
<1>1. VideoInit => OwnerInv
  BY DEF VideoInit, OwnerInv, OneBackend
<1>2. OwnerInv /\ [VideoNext]_videoVars => OwnerInv'
  BY OwnerSteps DEF videoVars, owner, OwnerInv, OneBackend
<1>3. OwnerInv => OneBackend
  BY DEF OwnerInv
<1> QED
  BY <1>1, <1>2, <1>3, PTL DEF VideoSpec

(***************************************************************************)
(* The contexts of the owner.                                              *)
(***************************************************************************)
ContextTypes ==
    /\ context_lock \in Threads \cup {Nobody}
    /\ sharing \in BOOLEAN
    /\ pc \in [Threads -> {"idle", "root", "make", "end"}]
    /\ making \in [Threads -> Contexts \cup {Nobody}]
    /\ sdl_current \in [Threads -> Contexts \cup {Nobody, Root, Orphan}]
    /\ current_context \in [Threads -> Contexts \cup {Nobody}]
    /\ context \in [Contexts -> {"free", "shared", "alone"}]
    /\ astray \subseteq Threads

\* The thread that makes a context holds the lock; unless SDL refused it, it
\* has the root current when it makes the context; and it has nothing else to
\* lose, or is known to lose it.
MakingInv ==
    /\ \A t \in Threads : pc[t] # "idle" =>
          /\ context_lock = t /\ making[t] \in Contexts
          /\ current_context[t] # Nobody => t \in astray
    /\ \A t \in Threads : pc[t] = "make" =>
          sharing /\ (sdl_current[t] = Root \/ making[t] \in refused)

\* While one thread makes a context the others make none.
LEMMA OneMakes ==
    ASSUME MakingInv, NEW t \in Threads, pc[t] # "idle" \/ context_lock = Nobody
    PROVE  \A u \in Threads \ {t} : pc[u] = "idle"
BY SdlVideoAssumption DEF MakingInv

GroupInv == ContextTypes /\ MakingInv /\ OneGroup

\* The contexts are made by one thread at a time, from the root.
LEMMA MakingSteps ==
    ASSUME GroupInv, NEW t \in Threads,
           \/ CreateEnds(t)
           \/ \E done \in BOOLEAN : MakeRootCurrent(t, done) \/ MakeContext(t, done)
           \/ \E c \in Contexts : CreateContext(t, c)
    PROVE  GroupInv'
<1>1. ASSUME NEW c \in Contexts, CreateContext(t, c) PROVE GroupInv'
  <2>1. /\ context_lock = Nobody /\ pc[t] = "idle" /\ context[c] = "free"
        /\ context_lock' = t
        /\ pc' = [pc EXCEPT ![t] = "root"] /\ making' = [making EXCEPT ![t] = c]
        /\ refused' = refused \ {c}
        /\ astray' = IF current_context[t] = Nobody THEN astray ELSE astray \cup {t}
        /\ UNCHANGED <<sharing, sdl_current, current_context, context>>
    BY <1>1 DEF CreateContext, FreeToMake
  <2>2. \A u \in Threads : pc[u] = "idle"
    BY <2>1, OneMakes DEF GroupInv
  <2>3. ContextTypes'
    BY <2>1 DEF GroupInv, ContextTypes
  <2>4. MakingInv'
    BY <2>1, <2>2 DEF GroupInv, ContextTypes, MakingInv
  <2>5. astray \subseteq astray'
    BY <2>1
  <2>6. \A u \in Threads : pc'[u] = "idle" => pc[u] = "idle"
    BY <2>2
  <2>7. OneGroup'
    BY <2>1, <2>5, <2>6 DEF GroupInv, OneGroup
  <2> QED
    BY <2>3, <2>4, <2>7 DEF GroupInv
<1>2. ASSUME NEW done \in BOOLEAN, MakeRootCurrent(t, done) PROVE GroupInv'
  <2>1. /\ pc[t] = "root" /\ sharing' = TRUE
        /\ pc' = [pc EXCEPT ![t] = "make"]
        /\ sdl_current' = IF done THEN [sdl_current EXCEPT ![t] = Root] ELSE sdl_current
        /\ UNCHANGED <<context_lock, making, current_context, context, astray>>
    BY <1>2 DEF MakeRootCurrent
  <2>2. \A u \in Threads \ {t} : pc[u] = "idle"
    BY <2>1, OneMakes DEF GroupInv
  <2>3. refused' = IF ~done THEN refused \cup {making[t]} ELSE refused
    BY <1>2, <2>2 DEF MakeRootCurrent
  <2>4. ContextTypes'
    BY <2>1 DEF GroupInv, ContextTypes
  <2>5. MakingInv'
    BY <2>1, <2>2, <2>3 DEF GroupInv, ContextTypes, MakingInv
  <2>6. \A u \in Threads : pc'[u] = "idle" => pc[u] = "idle" /\ sdl_current'[u] = sdl_current[u]
    BY <2>1 DEF GroupInv, ContextTypes
  <2>7. OneGroup'
    BY <2>1, <2>3, <2>6 DEF GroupInv, OneGroup
  <2> QED
    BY <2>4, <2>5, <2>7 DEF GroupInv
<1>3. ASSUME NEW done \in BOOLEAN, MakeContext(t, done) PROVE GroupInv'
  <2>1. /\ pc[t] = "make" /\ pc' = [pc EXCEPT ![t] = "end"]
        /\ UNCHANGED <<context_lock, making, sharing, current_context, refused, astray>>
    BY <1>3 DEF MakeContext
  <2>2. /\ making[t] \in Contexts
        /\ sharing /\ (sdl_current[t] = Root \/ making[t] \in refused)
        /\ \A u \in Threads \ {t} : pc[u] = "idle"
    BY <2>1, OneMakes DEF GroupInv, MakingInv
  <2>3. \/ UNCHANGED <<context, sdl_current>>
        \/ /\ sdl_current' = [sdl_current EXCEPT ![t] = making[t]]
           /\ \E kind \in {"shared", "alone"} :
                 /\ context' = [context EXCEPT ![making[t]] = kind]
                 /\ kind = "alone" => making[t] \in refused
    BY <1>3, <2>2 DEF MakeContext, InGroup
  <2>4. ContextTypes'
    BY <2>1, <2>2, <2>3 DEF GroupInv, ContextTypes
  <2>5. MakingInv'
    BY <2>1, <2>2 DEF GroupInv, ContextTypes, MakingInv
  <2>6. \A u \in Threads : pc'[u] = "idle" => pc[u] = "idle" /\ sdl_current'[u] = sdl_current[u]
    BY <2>1, <2>3 DEF GroupInv, ContextTypes
  <2>7. \A c \in Contexts : /\ context'[c] = "alone" => c \in refused
                            /\ context[c] # "free" => context'[c] # "free"
    BY <2>2, <2>3 DEF GroupInv, ContextTypes, OneGroup
  <2>8. \A u \in Threads : current_context[u] # Nobody => current_context[u] \in Contexts
    BY DEF GroupInv, ContextTypes
  <2>9. OneGroup'
    BY <2>1, <2>6, <2>7, <2>8 DEF GroupInv, OneGroup
  <2> QED
    BY <2>4, <2>5, <2>9 DEF GroupInv
<1>4. CASE CreateEnds(t)
  <2>1. /\ pc[t] = "end" /\ sharing' = FALSE
        /\ sdl_current' = [sdl_current EXCEPT ![t] = Nobody]
        /\ context_lock' = Nobody
        /\ pc' = [pc EXCEPT ![t] = "idle"] /\ making' = [making EXCEPT ![t] = Nobody]
        /\ UNCHANGED <<current_context, context, refused, astray>>
    BY <1>4 DEF CreateEnds
  <2>2. \A u \in Threads \ {t} : pc[u] = "idle"
    BY <2>1, OneMakes DEF GroupInv
  <2>3. ContextTypes'
    BY <2>1 DEF GroupInv, ContextTypes
  <2>4. MakingInv'
    BY <2>1, <2>2 DEF GroupInv, ContextTypes, MakingInv
  <2>5. current_context[t] # Nobody => t \in astray
    BY <2>1 DEF GroupInv, MakingInv
  <2>6. /\ sdl_current'[t] = Nobody
        /\ \A u \in Threads \ {t} : pc[u] = "idle" /\ sdl_current'[u] = sdl_current[u]
    BY <2>1, <2>2 DEF GroupInv, ContextTypes
  <2>7. OneGroup'
    BY <2>1, <2>5, <2>6 DEF GroupInv, OneGroup
  <2> QED
    BY <2>3, <2>4, <2>7 DEF GroupInv
<1> QED
  BY <1>1, <1>2, <1>3, <1>4

\* Meanwhile others take contexts, leave and destroy them.
LEMMA UsingSteps ==
    ASSUME GroupInv, NEW t \in Threads,
           \/ ReleaseCurrent(t)
           \/ \E c \in Contexts : DestroyContext(t, c)
           \/ \E c \in Contexts, done \in BOOLEAN : SdlMakeCurrent(t, c, done)
    PROVE  GroupInv'
<1>1. pc[t] = "idle" /\ UNCHANGED <<context_lock, pc, making, sharing, refused>>
  BY DEF ReleaseCurrent, DestroyContext, SdlMakeCurrent
<1>2. CASE ReleaseCurrent(t)
  <2>1. /\ sdl_current' = [sdl_current EXCEPT ![t] = Nobody]
        /\ current_context' = [current_context EXCEPT ![t] = Nobody]
        /\ astray' = astray \ {t} /\ context' = context
    BY <1>2 DEF ReleaseCurrent
  <2>2. ContextTypes'
    BY <1>1, <2>1 DEF GroupInv, ContextTypes
  <2>3. MakingInv'
    BY <1>1, <2>1 DEF GroupInv, ContextTypes, MakingInv
  <2>4. OneGroup'
    BY <1>1, <2>1 DEF GroupInv, ContextTypes, OneGroup
  <2> QED
    BY <2>2, <2>3, <2>4 DEF GroupInv
<1>3. ASSUME NEW c \in Contexts, DestroyContext(t, c) PROVE GroupInv'
  <2>1. /\ context' = [context EXCEPT ![c] = "free"]
        /\ sdl_current' = [u \in Threads |->
               IF u = t THEN IF current_context[t] = c THEN Nobody ELSE sdl_current[t]
               ELSE IF sdl_current[u] = c THEN Orphan ELSE sdl_current[u]]
        /\ current_context' = IF current_context[t] = c
                              THEN [current_context EXCEPT ![t] = Nobody] ELSE current_context
        /\ astray' = {u \in Threads : IF current_context[u] = c THEN u # t ELSE u \in astray}
    BY <1>3 DEF DestroyContext
  <2>2. \A u \in Threads :
           /\ current_context'[u] = IF u = t /\ current_context[t] = c THEN Nobody
                                    ELSE current_context[u]
           /\ current_context[u] # Nobody => current_context[u] \in Contexts
    BY <2>1 DEF GroupInv, ContextTypes
  <2>3. ContextTypes'
    BY <1>1, <2>1 DEF GroupInv, ContextTypes
  <2>4. \A u \in Threads \ {t} : u \in astray => u \in astray'
    BY <2>1
  <2>5. \A u \in Threads \ {t} : sdl_current[u] = Root => sdl_current'[u] = Root
    BY <2>1, SdlVideoAssumption
  <2>6. MakingInv'
    BY <1>1, <2>2, <2>4, <2>5 DEF GroupInv, MakingInv
  <2>7. \A x \in Contexts : /\ context'[x] = "alone" => context[x] = "alone"
                            /\ x # c => context'[x] = context[x]
    BY <2>1 DEF GroupInv, ContextTypes
  <2>8. ASSUME NEW u \in Threads, pc[u] = "idle"
        PROVE  /\ sdl_current'[u] \in {Nobody, Orphan, current_context'[u]}
               /\ u \notin astray' => sdl_current'[u] = current_context'[u]
    <3>1. /\ sdl_current[u] \in {Nobody, Orphan, current_context[u]}
          /\ u \notin astray => sdl_current[u] = current_context[u]
      BY <2>8 DEF GroupInv, OneGroup
    <3>2. CASE current_context[u] = c
      BY <2>1, <2>2, <3>1, <3>2
    <3>3. CASE current_context[u] # c
      <4>1. sdl_current[u] # c
        BY <3>1, <3>3, SdlVideoAssumption
      <4> QED
        BY <2>1, <2>2, <3>1, <3>3, <4>1
    <3> QED
      BY <3>2, <3>3
  <2>9. ASSUME NEW u \in Threads \ astray', current_context'[u] # Nobody
        PROVE  context'[current_context'[u]] # "free"
    <3>1. current_context[u] # c /\ u \notin astray /\ current_context'[u] = current_context[u]
      BY <2>1, <2>2, <2>9
    <3> QED
      BY <2>2, <2>7, <2>9, <3>1 DEF GroupInv, OneGroup
  <2>10. OneGroup'
    BY <1>1, <2>7, <2>8, <2>9 DEF GroupInv, OneGroup
  <2> QED
    BY <2>3, <2>6, <2>10 DEF GroupInv
<1>4. ASSUME NEW c \in Contexts, NEW done \in BOOLEAN, SdlMakeCurrent(t, c, done) PROVE GroupInv'
  <2>1. CASE ~done
    BY <1>1, <1>4, <2>1 DEF SdlMakeCurrent, GroupInv, ContextTypes, MakingInv, OneGroup
  <2>2. CASE done
    <3>1. /\ context[c] # "free" /\ context' = context
          /\ sdl_current' = [sdl_current EXCEPT ![t] = c]
          /\ current_context' = [current_context EXCEPT ![t] = c]
          /\ astray' = astray \ {t}
      BY <1>4, <2>2 DEF SdlMakeCurrent, Given
    <3>2. ContextTypes'
      BY <1>1, <3>1 DEF GroupInv, ContextTypes
    <3>3. MakingInv'
      BY <1>1, <3>1 DEF GroupInv, ContextTypes, MakingInv
    <3>4. OneGroup'
      BY <1>1, <3>1 DEF GroupInv, ContextTypes, OneGroup
    <3> QED
      BY <3>2, <3>3, <3>4 DEF GroupInv
  <2> QED
    BY <2>1, <2>2
<1> QED
  BY <1>2, <1>3, <1>4

\* Every context shares the root's objects unless SDL refused its maker the
\* root, and SDL and the facade agree on the context of every thread that has
\* not strayed (egl_sdl.c), for any threads and contexts, made, taken, left
\* and destroyed in any order.
THEOREM ContextsShare == VideoSpec => []OneGroup
<1>1. VideoInit => GroupInv
  <2> SUFFICES ASSUME VideoInit PROVE GroupInv
    OBVIOUS
  <2>1. \A t \in Threads : /\ pc[t] = "idle" /\ making[t] = Nobody
                           /\ sdl_current[t] = Nobody /\ current_context[t] = Nobody
    BY DEF VideoInit
  <2>2. \A c \in Contexts : context[c] = "free"
    BY DEF VideoInit
  <2>3. ContextTypes
    BY DEF VideoInit, ContextTypes
  <2> QED
    BY <2>1, <2>2, <2>3 DEF GroupInv, MakingInv, OneGroup
<1>2. GroupInv /\ [VideoNext]_videoVars => GroupInv'
  <2> SUFFICES ASSUME GroupInv, [VideoNext]_videoVars PROVE GroupInv'
    OBVIOUS
  <2>1. CASE UNCHANGED contexts
    BY <2>1 DEF contexts, GroupInv, ContextTypes, MakingInv, OneGroup
  <2>2. CASE \E t \in Threads :
               \/ CreateEnds(t)
               \/ \E done \in BOOLEAN : MakeRootCurrent(t, done) \/ MakeContext(t, done)
               \/ \E c \in Contexts : CreateContext(t, c)
    BY <2>2, MakingSteps
  <2>3. CASE \E t \in Threads :
               \/ ReleaseCurrent(t)
               \/ \E c \in Contexts : DestroyContext(t, c)
               \/ \E c \in Contexts, done \in BOOLEAN : SdlMakeCurrent(t, c, done)
    BY <2>3, UsingSteps
  <2>4. CASE \/ TakeRaw \/ GiveUpSdl \/ ChooseConfig({"es3"}) \/ VerifyConfig({"es3"})
             \/ \E up \in BOOLEAN : InitSubSystem(up)
             \/ \E opened \in BOOLEAN, root \in {"none", "desktop", "es"} : TryFormat(opened, root)
    BY <2>1, <2>4 DEF TakeRaw, GiveUpSdl, ChooseConfig, VerifyConfig, InitSubSystem, TryFormat
  <2> QED
    BY <2>1, <2>2, <2>3, <2>4 DEF VideoNext, videoVars
<1>3. GroupInv => OneGroup
  BY DEF GroupInv
<1> QED
  BY <1>1, <1>2, <1>3, PTL DEF VideoSpec
-------------------------------------------------------------------------------
(***************************************************************************)
(* One driver, two users.                                                  *)
(***************************************************************************)
Gl == [fbo : Fbos \cup {Panel, Target}, view : 0..3, set : [Settings -> 0..2], on : BOOLEAN,
       from : 0..2, image : [Fbos -> Images]]

\* What the port drew is gone, except for the framebuffer it left bound and
\* the pointer of a disabled array.
Same(x, gl) ==
    /\ x \in Gl
    /\ x.set = gl.set /\ x.image = gl.image
    /\ x.on = gl.on /\ (gl.on => x.from = gl.from)

LEMMA SameAgain ==
    ASSUME NEW x, NEW y, NEW z, Same(x, y), Same(y, z) PROVE Same(x, z)
BY DEF Same

\* Putting settings changes those settings.
LEMMA PutOK ==
    ASSUME NEW x \in Gl, NEW new, \A s \in DOMAIN new : new[s] \in 0..2
    PROVE  /\ Put(new, x) \in Gl
           /\ Put(new, x).fbo = x.fbo /\ Put(new, x).view = x.view /\ Put(new, x).on = x.on
           /\ Put(new, x).from = x.from /\ Put(new, x).image = x.image
           /\ \A s \in Settings :
                 Put(new, x).set[s] = IF s \in DOMAIN new THEN new[s] ELSE x.set[s]
<1>1. [s \in Settings |-> IF s \in DOMAIN new THEN new[s] ELSE x.set[s]] \in [Settings -> 0..2]
  BY DEF Gl
<1> HIDE DEF Settings
<1> QED
  BY <1>1 DEF Put, Gl

\* Putting back the saved ones restores all, when no other has changed.
LEMMA Restored ==
    ASSUME NEW x \in Gl, NEW gl \in Gl, NEW names \in SUBSET Settings,
           \A s \in Settings \ names : x.set[s] = gl.set[s]
    PROVE  /\ Put(Saved(names, gl), x) \in Gl
           /\ Put(Saved(names, gl), x).set = gl.set
           /\ Put(Saved(names, gl), x).fbo = x.fbo /\ Put(Saved(names, gl), x).view = x.view
           /\ Put(Saved(names, gl), x).on = x.on
           /\ Put(Saved(names, gl), x).from = x.from
           /\ Put(Saved(names, gl), x).image = x.image
<1> DEFINE old == Saved(names, gl)
           y == Put(old, x)
<1>1. DOMAIN old = names /\ \A s \in names : old[s] = gl.set[s] /\ old[s] \in 0..2
  BY DEF Saved, Restrict, Gl
<1> HIDE DEF old
<1>2. /\ y \in Gl
      /\ y.fbo = x.fbo /\ y.view = x.view /\ y.on = x.on /\ y.from = x.from /\ y.image = x.image
      /\ \A s \in Settings : y.set[s] = IF s \in names THEN old[s] ELSE x.set[s]
  BY <1>1, PutOK
<1> HIDE DEF y
<1>3. \A s \in Settings : y.set[s] = gl.set[s]
  BY <1>1, <1>2
<1>4. y.set \in [Settings -> 0..2] /\ gl.set \in [Settings -> 0..2]
  BY <1>2 DEF Gl
<1>5. y.set = gl.set
  BY <1>3, <1>4
<1> QED
  BY <1>2, <1>5 DEF y, old

LEMMA SettingsAre ==
    /\ Flags \subseteq Settings
    /\ {"mask", "clear", "clear_depth", "clear_stencil", "box", "program", "buffer", "unit",
        "tex0", "tex1", "renderbuffer"} \subseteq Settings
    /\ Flags = {"blend", "depth", "cull", "stencil", "scissor"}
BY DEF Flags, Settings

LEMMA AllOffOK == DOMAIN AllOff = Flags /\ \A s \in Flags : AllOff[s] = 0
BY DEF AllOff

\* The drawing of the port through the vertex array 0, and its end.
LEMMA DrawArrayOK ==
    ASSUME NEW x \in Gl
    PROVE  /\ DrawArray(x) \in Gl
           /\ DrawArray(x).fbo = x.fbo /\ DrawArray(x).view = x.view
           /\ DrawArray(x).image = x.image
           /\ \A s \in Settings \ {"buffer"} : DrawArray(x).set[s] = x.set[s]
<1> DEFINE new == [buffer |-> Port]
           y == Put(new, x)
<1>1. DOMAIN new = {"buffer"} /\ \A s \in DOMAIN new : new[s] \in 0..2
  BY DEF Port
<1> HIDE DEF new
<1>2. /\ y \in Gl /\ y.fbo = x.fbo /\ y.view = x.view /\ y.image = x.image
      /\ \A s \in Settings \ {"buffer"} : y.set[s] = x.set[s]
  BY <1>1, PutOK
<1>3. DrawArray(x) = [y EXCEPT !.on = TRUE, !.from = Port]
  BY DEF DrawArray, new
<1> HIDE DEF y
<1> DEFINE z == DrawArray(x)
<1>4. /\ z.fbo = y.fbo /\ z.view = y.view /\ z.set = y.set /\ z.image = y.image
      /\ z = [fbo |-> z.fbo, view |-> z.view, set |-> z.set, on |-> z.on, from |-> z.from, image |-> z.image]
  BY <1>2, <1>3 DEF Gl
<1>5. z.on = TRUE
  BY <1>2, <1>3 DEF Gl
<1>6. z.from = 2
  BY <1>2, <1>3 DEF Gl, Port
<1> HIDE DEF z
<1>7. /\ y.fbo \in Fbos \cup {Panel, Target} /\ y.view \in 0..3
      /\ y.set \in [Settings -> 0..2] /\ y.image \in [Fbos -> Images]
  BY <1>2 DEF Gl
<1>8. z.on \in BOOLEAN
  BY <1>5, Zenon
<1>9. z \in Gl
  <2>1. z.from \in 0..2
    BY <1>6
  <2> QED
    BY <1>4, <1>7, <1>8, <2>1 DEF Gl
<1> QED
  BY <1>2, <1>4, <1>9 DEF z

LEMMA RestoreArrayOK ==
    ASSUME NEW x \in Gl, NEW old \in Gl
    PROVE  /\ RestoreArray(x, old) \in Gl
           /\ RestoreArray(x, old).fbo = x.fbo /\ RestoreArray(x, old).view = x.view
           /\ RestoreArray(x, old).image = x.image
           /\ RestoreArray(x, old).set = x.set
           /\ RestoreArray(x, old).on = old.on
           /\ old.on => RestoreArray(x, old).from = old.from
BY DEF RestoreArray, Gl

\* The three drawings of the port and the making of the target leave what
\* they found.
LEMMA CursorKeeps ==
    ASSUME NEW gl \in Gl PROVE /\ Same(Cursor(gl), gl)
                                /\ Cursor(gl).fbo = gl.fbo /\ Cursor(gl).view = gl.view
<1>1. CASE gl.fbo # Panel
  BY <1>1 DEF Cursor, Same
<1>2. CASE gl.fbo = Panel
  <2> DEFINE own == [mask |-> 0, program |-> Port]
             names == Flags \cup {"mask", "program", "buffer"}
             p == Put(AllOff, gl)
             q == Put(own, p)
             drawn == DrawArray(q)
             r == RestoreArray(drawn, gl)
  <2>1. DOMAIN own = {"mask", "program"} /\ \A s \in DOMAIN own : own[s] \in 0..2
    BY DEF Port
  <2>2. names \in SUBSET Settings
    BY SettingsAre
  <2>3. /\ p \in Gl /\ p.fbo = gl.fbo /\ p.view = gl.view /\ p.image = gl.image
        /\ \A s \in Settings \ names : p.set[s] = gl.set[s]
    BY AllOffOK, PutOK
  <2>4. /\ q \in Gl /\ q.fbo = gl.fbo /\ q.view = gl.view /\ q.image = gl.image
        /\ \A s \in Settings \ names : q.set[s] = gl.set[s]
    <3> HIDE DEF own, p
    <3> QED  BY <2>1, <2>3, PutOK
  <2>5. /\ drawn \in Gl /\ drawn.fbo = gl.fbo /\ drawn.view = gl.view /\ drawn.image = gl.image
        /\ \A s \in Settings \ names : drawn.set[s] = gl.set[s]
    <3> HIDE DEF q
    <3> QED  BY <2>4, DrawArrayOK
  <2>6. /\ r \in Gl /\ r.fbo = gl.fbo /\ r.view = gl.view /\ r.image = gl.image
        /\ r.on = gl.on /\ (gl.on => r.from = gl.from)
        /\ \A s \in Settings \ names : r.set[s] = gl.set[s]
    <3> HIDE DEF drawn
    <3> QED  BY <2>5, RestoreArrayOK
  <2>7. Cursor(gl) = Put(Saved(names, gl), r)
    BY <1>2 DEF Cursor
  <2> HIDE DEF r, names
  <2> QED
    BY <2>2, <2>6, <2>7, Restored DEF Same
<1> QED
  BY <1>1, <1>2

LEMMA KeyboardKeeps ==
    ASSUME NEW gl \in Gl PROVE /\ Same(Keyboard(gl), gl)
                                /\ Keyboard(gl).fbo = gl.fbo /\ Keyboard(gl).view = gl.view
<1>1. CASE gl.fbo # Panel
  BY <1>1 DEF Keyboard, Same
<1>2. CASE gl.fbo = Panel
  <2> DEFINE own == [scissor |-> 1, mask |-> 0, box |-> Port, clear |-> Port]
             names == {"clear", "mask", "box", "scissor"}
             q == Put(own, gl)
  <2>1. DOMAIN own = names /\ \A s \in DOMAIN own : own[s] \in 0..2
    BY DEF Port
  <2>2. names \in SUBSET Settings
    BY SettingsAre
  <2>3. Keyboard(gl) = Put(Saved(names, gl), q)
    BY <1>2 DEF Keyboard
  <2> HIDE DEF own, names
  <2>4. /\ q \in Gl /\ q.fbo = gl.fbo /\ q.view = gl.view /\ q.image = gl.image /\ q.on = gl.on /\ q.from = gl.from
        /\ \A s \in Settings \ names : q.set[s] = gl.set[s]
    BY <2>1, PutOK
  <2> HIDE DEF q
  <2> QED
    BY <2>2, <2>3, <2>4, Restored DEF Same
<1> QED
  BY <1>1, <1>2

LEMMA PresentKeeps ==
    ASSUME NEW gl \in Gl
    PROVE  /\ Same(Present(gl), gl)
           /\ Present(gl).fbo = IF Stretched THEN Panel ELSE gl.fbo
           /\ Present(gl).view = IF Stretched THEN Port ELSE gl.view
<1>1. CASE ~Stretched
  BY <1>1 DEF Present, Same
<1>2. CASE Stretched
  <2> DEFINE own == [mask |-> 0, clear |-> Port, program |-> Port, unit |-> 0, tex0 |-> Port]
             names == Flags \cup {"mask", "clear", "program", "buffer", "tex0", "unit"}
             p == Put(AllOff, gl)
             q == [Put(own, p) EXCEPT !.fbo = Panel, !.view = Port]
             drawn == DrawArray(q)
             r == RestoreArray(drawn, gl)
  <2>1. /\ DOMAIN own = {"mask", "clear", "program", "unit", "tex0"}
        /\ \A s \in DOMAIN own : own[s] \in 0..2
    BY DEF Port
  <2>2. names \in SUBSET Settings
    BY SettingsAre
  <2>3. /\ p \in Gl /\ p.image = gl.image
        /\ \A s \in Settings \ names : p.set[s] = gl.set[s]
    BY AllOffOK, PutOK
  <2>4. /\ Put(own, p) \in Gl /\ Put(own, p).image = gl.image
        /\ \A s \in Settings \ names : Put(own, p).set[s] = gl.set[s]
    <3> HIDE DEF own, p
    <3> QED  BY <2>1, <2>3, PutOK
  <2>5. /\ q \in Gl /\ q.fbo = Panel /\ q.view = Port /\ q.image = gl.image
        /\ \A s \in Settings \ names : q.set[s] = gl.set[s]
    <3> DEFINE o == Put(own, p)
    <3>1. q = [o EXCEPT !.fbo = Panel, !.view = Port]
      OBVIOUS
    <3> HIDE DEF o, q
    <3>2. o \in Gl /\ o.image = gl.image /\ \A s \in Settings \ names : o.set[s] = gl.set[s]
      BY <2>4 DEF o
    <3>3. q.set = o.set /\ q.image = o.image /\ q.fbo = Panel /\ q.view = 2
      BY <3>1, <3>2 DEF Gl, Port
    <3>4. q \in Gl
      <4>1. Panel \in Fbos \cup {Panel, Target} /\ Port \in 0..3
        BY DEF Port
      <4> QED  BY <3>1, <3>2, <4>1 DEF Gl
    <3> QED  BY <3>2, <3>3, <3>4 DEF Port
  <2>6. /\ drawn \in Gl /\ drawn.fbo = Panel /\ drawn.view = Port /\ drawn.image = gl.image
        /\ \A s \in Settings \ names : drawn.set[s] = gl.set[s]
    <3> HIDE DEF q
    <3> QED  BY <2>5, DrawArrayOK
  <2>7. /\ r \in Gl /\ r.fbo = Panel /\ r.view = Port /\ r.image = gl.image
        /\ r.on = gl.on /\ (gl.on => r.from = gl.from)
        /\ \A s \in Settings \ names : r.set[s] = gl.set[s]
    <3> HIDE DEF drawn
    <3> QED  BY <2>6, RestoreArrayOK
  <2>8. Present(gl) = Put(Saved(names, gl), r)
    BY <1>2 DEF Present
  <2> HIDE DEF r, names
  <2> QED
    BY <1>2, <2>2, <2>7, <2>8, Restored DEF Same
<1> QED
  BY <1>1, <1>2

LEMMA CreateTargetKeeps ==
    ASSUME NEW gl \in Gl PROVE /\ Same(CreateTarget(gl), gl)
                                /\ CreateTarget(gl).fbo = gl.fbo /\ CreateTarget(gl).view = gl.view
<1> DEFINE used == {BoundTexture(gl), "renderbuffer", "buffer"}
           new == [s \in used |-> Port]
           q == Put(new, gl)
<1>1. used \in SUBSET Settings
  BY SettingsAre DEF BoundTexture
<1>2. CreateTarget(gl) = Put(Saved(used, gl), q)
  BY DEF CreateTarget
<1> HIDE DEF used
<1>3. DOMAIN new = used /\ \A s \in DOMAIN new : new[s] \in 0..2
  BY DEF Port
<1> HIDE DEF new
<1>4. /\ q \in Gl /\ q.fbo = gl.fbo /\ q.view = gl.view /\ q.image = gl.image /\ q.on = gl.on /\ q.from = gl.from
      /\ \A s \in Settings \ used : q.set[s] = gl.set[s]
  BY <1>3, PutOK
<1> HIDE DEF q
<1> QED
  BY <1>1, <1>2, <1>4, Restored DEF Same

LEMMA AfterPresentKeeps ==
    ASSUME NEW gl \in Gl
    PROVE  /\ Same(AfterPresent(gl), gl)
           /\ AfterPresent(gl).fbo = IF Stretched THEN Target ELSE gl.fbo
           /\ AfterPresent(gl).view = IF Stretched THEN Whole ELSE gl.view
<1>1. CASE ~Stretched
  BY <1>1 DEF AfterPresent, Same
<1>2. CASE Stretched
  <2>1. Target \in Fbos \cup {Panel, Target} /\ Whole \in 0..3
    BY DEF Whole
  <2>2. AfterPresent(gl) = [gl EXCEPT !.fbo = Target, !.view = Whole]
    BY <1>2 DEF AfterPresent
  <2> HIDE DEF AfterPresent
  <2>3. AfterPresent(gl) \in Gl
    BY <2>1, <2>2 DEF Gl
  <2> QED
    BY <1>2, <2>2, <2>3 DEF Same, Gl
<1> QED
  BY <1>1, <1>2

\* The value a clear borrows is given back.
LEMMA ClearKeeps ==
    ASSUME NEW gl \in Gl, NEW names \in SUBSET Settings
    PROVE  LET cleared == Put(Saved(names, gl), Put([s \in names |-> Port], gl))
           IN Same(cleared, gl) /\ cleared.fbo = gl.fbo /\ cleared.view = gl.view
<1> DEFINE new == [s \in names |-> Port]
           q == Put(new, gl)
<1>1. DOMAIN new = names /\ \A s \in DOMAIN new : new[s] \in 0..2
  BY DEF Port
<1> HIDE DEF new
<1>2. /\ q \in Gl /\ q.fbo = gl.fbo /\ q.view = gl.view /\ q.image = gl.image /\ q.on = gl.on /\ q.from = gl.from
      /\ \A s \in Settings \ names : q.set[s] = gl.set[s]
  BY <1>1, PutOK
<1> DEFINE c == Put(Saved(names, gl), q)
<1>3. Same(c, gl) /\ c.fbo = gl.fbo /\ c.view = gl.view
  <2> HIDE DEF q
  <2> QED  BY <1>2, Restored DEF Same
<1> QED
  BY <1>3 DEF q, new


\* Before a call of the guest: the settings are the guest's.
StateInv ==
    /\ d \in Gl
    /\ want \in [Settings -> 0..2]
    /\ wantArray \in [on : BOOLEAN, from : 0..2]
    /\ wantView \in {0, 1} /\ framed \in BOOLEAN
    /\ StateKept

\* What the port does between two calls of the guest, and what the guest does
\* with the bindings, leaves it so.
LEMMA SameKeepsState ==
    ASSUME StateInv, Same(d', d), d'.view = d.view, UNCHANGED <<want, wantArray, views>>
    PROVE  StateInv'
BY DEF StateInv, StateKept, Same, views

LEMMA AlikeKeepsState ==
    ASSUME StateInv, UNCHANGED <<want, wantArray, views>>, d' \in Gl,
           d'.set = d.set /\ d'.view = d.view /\ d'.on = d.on /\ (d.on => d'.from = d.from)
    PROVE  StateInv'
BY DEF StateInv, StateKept, views

\* A frame on the target begins with the whole of it.
LEMMA FrameKeepsState ==
    ASSUME StateInv, Same(d', d), UNCHANGED <<want, wantArray, wantView>>, FrameBegins,
           d'.view = IF Stretched THEN Whole ELSE d.view
    PROVE  StateInv'
BY DEF StateInv, StateKept, Same, FrameBegins, Stretched

LEMMA BindKeepsState ==
    ASSUME StateInv, NEW t \in {"both", "draw", "read"}, NEW f \in Fbos \cup {Zero},
           BindFramebuffer(t, f)
    PROVE  StateInv'
<1> DEFINE gl == IF target' # target THEN CreateTarget(d) ELSE d
           where == Physical(f)'
<1>1. Same(gl, d) /\ gl \in Gl /\ gl.view = d.view
  BY CreateTargetKeeps DEF StateInv, Same
<1>2. d' = IF t = "read" THEN gl ELSE [gl EXCEPT !.fbo = where]
  BY DEF BindFramebuffer
<1>3. where \in Fbos \cup {Panel, Target}
  BY DEF Physical
<1>4. UNCHANGED <<want, wantArray, views>>
  BY DEF BindFramebuffer
<1> HIDE DEF gl, where
<1>5. Same(d', d) /\ d'.view = d.view
  BY <1>1, <1>2, <1>3 DEF Same, Gl
<1> QED
  BY <1>4, <1>5, SameKeepsState

LEMMA OperationOK ==
    ASSUME NEW gl \in Gl, NEW t \in {"draw", "read"},
           framebuffer \in Fbos \cup {Zero}, read_framebuffer \in Fbos \cup {Zero}
    PROVE  /\ OperationBegin(t, gl) \in Gl /\ Same(OperationBegin(t, gl), gl)
           /\ OperationEnd(t, gl) \in Gl /\ Same(OperationEnd(t, gl), gl)
           /\ OperationBegin(t, gl).view = gl.view /\ OperationEnd(t, gl).view = gl.view
BY DEF OperationBegin, OperationEnd, RawName, Same, Gl

BindingTypes == framebuffer \in Fbos \cup {Zero} /\ read_framebuffer \in Fbos \cup {Zero}

LEMMA AttachKeepsState ==
    ASSUME StateInv, BindingTypes, NEW t \in {"draw", "read"}, NEW i \in Images, Attach(t, i)
    PROVE  StateInv'
<1> DEFINE b == OperationBegin(t, d)
           a == IF b.fbo \in Fbos THEN [b EXCEPT !.image[b.fbo] = i] ELSE b
<1>1. d' = OperationEnd(t, a) /\ UNCHANGED <<want, wantArray, views>>
  BY DEF Attach
<1>2. b \in Gl /\ Same(b, d) /\ b.view = d.view
  BY OperationOK DEF StateInv, BindingTypes
<1> HIDE DEF b
<1>3. a \in Gl /\ a.set = b.set /\ a.view = b.view /\ a.on = b.on /\ a.from = b.from
  BY <1>2 DEF Gl
<1> HIDE DEF a
<1>4. d' \in Gl /\ Same(d', a) /\ d'.view = a.view
  BY <1>1, <1>3, OperationOK DEF BindingTypes
<1> QED
  BY <1>1, <1>2, <1>3, <1>4, AlikeKeepsState DEF Same

LEMMA CheckKeepsState ==
    ASSUME StateInv, BindingTypes, NEW t \in {"draw", "read"}, CheckStatus(t)
    PROVE  StateInv'
<1> DEFINE b == OperationBegin(t, d)
<1>1. d' = OperationEnd(t, b) /\ UNCHANGED <<want, wantArray, views>>
  BY DEF CheckStatus
<1>2. b \in Gl /\ Same(b, d) /\ b.view = d.view
  BY OperationOK DEF StateInv, BindingTypes
<1> HIDE DEF b
<1>3. Same(d', b) /\ d'.view = b.view
  BY <1>1, <1>2, OperationOK DEF BindingTypes
<1> QED
  BY <1>1, <1>2, <1>3, SameAgain, SameKeepsState

\* What the guest sets, it sets on both sides.
LEMMA SetKeepsState ==
    ASSUME StateInv, NEW s \in Settings, NEW v \in {0, 1}, Set(s, v) PROVE StateInv'
<1> DEFINE new == [x \in {s} |-> v]
<1>1. DOMAIN new = {s} /\ new[s] = v /\ \A x \in DOMAIN new : new[x] \in 0..2
  OBVIOUS
<1>2. d' = Put(new, d) /\ want' = [want EXCEPT ![s] = v]
      /\ UNCHANGED <<wantArray, wantView, framed>>
  BY DEF Set, views
<1> HIDE DEF new
<1>3. d \in Gl /\ want \in [Settings -> 0..2] /\ d.set = want
  BY DEF StateInv, StateKept
<1>4. /\ d' \in Gl /\ d'.view = d.view /\ d'.on = d.on /\ d'.from = d.from
      /\ \A x \in Settings : d'.set[x] = IF x \in {s} THEN v ELSE d.set[x]
  BY <1>1, <1>2, <1>3, PutOK
<1>5. want' \in [Settings -> 0..2] /\ \A x \in Settings : want'[x] = IF x = s THEN v ELSE want[x]
  <2> HIDE DEF Settings
  <2> QED  BY <1>2, <1>3
<1>6. d'.set = want'
  BY <1>3, <1>4, <1>5 DEF Gl
<1> QED
  BY <1>2, <1>4, <1>5, <1>6 DEF StateInv, StateKept

LEMMA SetViewportKeepsState ==
    ASSUME StateInv, NEW v \in {0, 1}, SetViewport(v) PROVE StateInv'
<1>1. /\ d' = [d EXCEPT !.view = v] /\ wantView' = v /\ framed' = FALSE
      /\ UNCHANGED <<want, wantArray>>
  BY DEF SetViewport
<1>2. d' \in Gl /\ Same(d', d) /\ d'.view = v
  BY <1>1 DEF StateInv, Gl, Same
<1> QED
  BY <1>1, <1>2 DEF StateInv, StateKept, Same

LEMMA VertexArrayKeepsState ==
    ASSUME StateInv, NEW on \in BOOLEAN, VertexArray(on) PROVE StateInv'
<1>1. /\ d \in Gl /\ want \in [Settings -> 0..2] /\ want' = want
      /\ wantArray \in [on : BOOLEAN, from : 0..2]
      /\ d.set = want /\ "buffer" \in Settings
      /\ UNCHANGED <<wantView, framed>>
  BY SettingsAre DEF StateInv, StateKept, VertexArray, views
<1>2. d.set["buffer"] = want["buffer"] /\ want["buffer"] \in 0..2
  BY <1>1
<1>3. CASE on
  <2>1. /\ d' = [d EXCEPT !.on = TRUE, !.from = want["buffer"]]
        /\ wantArray' = [on |-> TRUE, from |-> want["buffer"]]
    BY <1>2, <1>3 DEF VertexArray
  <2>2. /\ d'.set = d.set /\ d'.fbo = d.fbo /\ d'.view = d.view /\ d'.image = d.image
        /\ d'.from = want["buffer"]
        /\ d' = [fbo |-> d'.fbo, view |-> d'.view, set |-> d'.set, on |-> d'.on, from |-> d'.from,
                 image |-> d'.image]
    BY <1>1, <2>1 DEF Gl
  <2>3. d'.on = TRUE
    BY <1>1, <2>1 DEF Gl
  <2>4. /\ d.fbo \in Fbos \cup {Panel, Target} /\ d.view \in 0..3
        /\ d.set \in [Settings -> 0..2] /\ d.image \in [Fbos -> Images]
    BY <1>1 DEF Gl
  <2>5. d'.on \in BOOLEAN /\ d'.from \in 0..2
    BY <1>2, <2>2, <2>3
  <2>6. d' \in Gl
    BY <2>2, <2>4, <2>5 DEF Gl
  <2>7. wantArray'.on = TRUE /\ wantArray'.from = want["buffer"]
    BY <2>1
  <2>8. wantArray' \in [on : BOOLEAN, from : 0..2]
    BY <1>2, <2>1
  <2> QED
    BY <1>1, <2>2, <2>3, <2>6, <2>7, <2>8 DEF StateInv, StateKept
<1>4. CASE ~on
  <2>1. d' = [d EXCEPT !.on = FALSE] /\ wantArray' = [wantArray EXCEPT !.on = FALSE]
    BY <1>4 DEF VertexArray
  <2>2. /\ d'.set = d.set /\ d'.fbo = d.fbo /\ d'.view = d.view /\ d'.image = d.image
        /\ d'.from = d.from
        /\ d' = [fbo |-> d'.fbo, view |-> d'.view, set |-> d'.set, on |-> d'.on, from |-> d'.from,
                 image |-> d'.image]
    BY <1>1, <2>1 DEF Gl
  <2>3. d'.on = FALSE
    BY <1>1, <2>1 DEF Gl
  <2>4. /\ d.fbo \in Fbos \cup {Panel, Target} /\ d.view \in 0..3
        /\ d.set \in [Settings -> 0..2] /\ d.image \in [Fbos -> Images] /\ d.from \in 0..2
    BY <1>1 DEF Gl
  <2>5. d'.on \in BOOLEAN
    BY <2>3
  <2>6. d' \in Gl
    BY <2>2, <2>4, <2>5 DEF Gl
  <2>7. wantArray'.on = FALSE
    BY <1>1, <2>1
  <2>8. wantArray' \in [on : BOOLEAN, from : 0..2]
    BY <1>1, <2>1
  <2> QED
    BY <1>1, <2>2, <2>3, <2>6, <2>7, <2>8 DEF StateInv, StateKept
<1> QED
  BY <1>3, <1>4

LEMMA ClearBufferKeeps ==
    ASSUME d \in Gl, NEW b \in {"color", "depth", "stencil", "depth_stencil"}, ClearBuffer(b)
    PROVE  Same(d', d) /\ d'.fbo = d.fbo /\ d'.view = d.view
<1>1. ClearedBy(b) \in SUBSET Settings
  BY SettingsAre DEF ClearedBy
<1>2. d' = Put(Saved(ClearedBy(b), d), Put([s \in ClearedBy(b) |-> Port], d))
  BY DEF ClearBuffer
<1> QED
  BY <1>1, <1>2, ClearKeeps

\* A frame: the keyboard, the stretch, the cursor, and the target again.
LEMMA SwapKeeps ==
    ASSUME d \in Gl, NEW asked, NEW window \in BOOLEAN, SwapBuffers(asked, window)
    PROVE  /\ Same(d', d)
           /\ d'.fbo = IF window /\ Stretched THEN Target ELSE d.fbo
           /\ d'.view = IF window /\ Stretched THEN Whole ELSE d.view
<1> DEFINE typed == IF "keyboard" \in asked THEN Keyboard(d) ELSE d
           stretched == Present(typed)
           pointed == IF "cursor" \in asked THEN Cursor(stretched) ELSE stretched
<1>1. d' = IF window THEN AfterPresent(pointed) ELSE typed
  BY DEF SwapBuffers
<1>2. typed \in Gl /\ Same(typed, d) /\ typed.fbo = d.fbo /\ typed.view = d.view
  BY KeyboardKeeps DEF Same
<1> HIDE DEF typed
<1>3. /\ stretched \in Gl /\ Same(stretched, typed)
      /\ stretched.fbo = IF Stretched THEN Panel ELSE typed.fbo
      /\ stretched.view = IF Stretched THEN Port ELSE typed.view
  BY <1>2, PresentKeeps DEF Same
<1> HIDE DEF stretched
<1>4. /\ pointed \in Gl /\ Same(pointed, stretched)
      /\ pointed.fbo = stretched.fbo /\ pointed.view = stretched.view
  BY <1>3, CursorKeeps DEF Same
<1> HIDE DEF pointed
<1>5. Same(pointed, d)
  BY <1>2, <1>3, <1>4, SameAgain
<1>6. /\ Same(AfterPresent(pointed), pointed)
      /\ AfterPresent(pointed).fbo = IF Stretched THEN Target ELSE pointed.fbo
      /\ AfterPresent(pointed).view = IF Stretched THEN Whole ELSE pointed.view
  BY <1>4, AfterPresentKeeps
<1>7. CASE window
  <2>1. d' = AfterPresent(pointed)
    BY <1>1, <1>7
  <2>2. Same(d', d)
    BY <2>1, <1>5, <1>6, SameAgain
  <2> QED
    BY <1>2, <1>3, <1>4, <1>6, <1>7, <2>1, <2>2
<1>8. CASE ~window
  BY <1>1, <1>2, <1>8
<1> QED
  BY <1>7, <1>8


LEMMA OthersKeepState ==
    ASSUME StateInv,
           \/ \E f \in Fbos : DeleteFramebuffers(f)
           \/ \E b \in {"color", "depth", "stencil", "depth_stencil"} : ClearBuffer(b)
           \/ MakeCurrent
           \/ \E asked \in SUBSET {"keyboard", "cursor"}, window \in BOOLEAN :
                 SwapBuffers(asked, window)
    PROVE  StateInv'
<1>0. d \in Gl
  BY DEF StateInv
<1>1. ASSUME NEW f \in Fbos, DeleteFramebuffers(f) PROVE StateInv'
  <2>1. /\ d' = [d EXCEPT !.fbo = IF @ = f THEN Panel ELSE @, !.image[f] = 0]
        /\ UNCHANGED <<want, wantArray, views>>
    BY <1>1 DEF DeleteFramebuffers
  <2>2. d' \in Gl /\ d'.view = d.view /\ d'.set = d.set /\ d'.on = d.on /\ d'.from = d.from
    BY <1>0, <2>1 DEF Gl, Images
  <2> QED
    BY <2>1, <2>2, AlikeKeepsState
<1>2. ASSUME NEW b \in {"color", "depth", "stencil", "depth_stencil"}, ClearBuffer(b)
      PROVE  StateInv'
  BY <1>0, <1>2, ClearBufferKeeps, SameKeepsState DEF ClearBuffer, hist
<1>3. CASE MakeCurrent
  BY <1>0, <1>3, AfterPresentKeeps, FrameKeepsState DEF MakeCurrent
<1>4. ASSUME NEW asked \in SUBSET {"keyboard", "cursor"}, NEW window \in BOOLEAN,
             SwapBuffers(asked, window)
      PROVE  StateInv'
  <2>1. /\ Same(d', d) /\ UNCHANGED <<want, wantArray, wantView>>
        /\ d'.view = IF window /\ Stretched THEN Whole ELSE d.view
        /\ IF window THEN FrameBegins ELSE UNCHANGED framed
    BY <1>0, <1>4, SwapKeeps DEF SwapBuffers
  <2>2. CASE window
    BY <2>1, <2>2, FrameKeepsState
  <2>3. CASE ~window
    BY <2>1, <2>3, SameKeepsState DEF views
  <2> QED
    BY <2>2, <2>3
<1> QED
  BY <1>1, <1>2, <1>3, <1>4

LEMMA BindingTypesKept == ASSUME BindingTypes, [Next]_vars PROVE BindingTypes'
<1> USE DEF BindingTypes, port
<1>1. ASSUME NEW t \in {"both", "draw", "read"}, NEW f \in Fbos \cup {Zero}, BindFramebuffer(t, f)
      PROVE  BindingTypes'
  BY <1>1 DEF BindFramebuffer
<1>2. ASSUME NEW f \in Fbos, DeleteFramebuffers(f) PROVE BindingTypes'
  BY <1>2 DEF DeleteFramebuffers
<1>3. CASE UNCHANGED port
  BY <1>3
<1> QED
  BY <1>1, <1>2, <1>3
  DEF Next, vars, CheckStatus, Attach, Set, SetViewport, VertexArray, ClearBuffer, MakeCurrent, SwapBuffers

LEMMA StateStarts == ASSUME Init PROVE StateInv /\ BindingTypes
<1>1. BindingTypes
  BY DEF Init, BindingTypes
<1>2. d.fbo = Panel /\ d.view = 0 /\ d.from = 0 /\ d.set \in [Settings -> 0..2] /\ d.image \in [Fbos -> Images]
  <2> HIDE DEF Settings
  <2> QED  BY DEF Init, Images
<1>3. d.on = FALSE /\ d = [fbo |-> d.fbo, view |-> d.view, set |-> d.set, on |-> d.on,
                           from |-> d.from, image |-> d.image]
  <2> HIDE DEF Settings
  <2> QED  BY DEF Init
<1>4. d \in Gl
  <2>1. d.on \in BOOLEAN
    BY <1>3
  <2>2. d.fbo \in Fbos \cup {Panel, Target} /\ d.view \in 0..3 /\ d.from \in 0..2
    BY <1>2
  <2> HIDE DEF Settings
  <2> QED
    BY <1>2, <1>3, <2>1, <2>2 DEF Gl
<1>5. want = d.set /\ wantArray = [on |-> FALSE, from |-> 0] /\ wantView = 0 /\ framed = FALSE
  BY DEF Init
<1>6. wantArray \in [on : BOOLEAN, from : 0..2] /\ wantArray.on = FALSE
  BY <1>5
<1> QED
  BY <1>1, <1>2, <1>3, <1>4, <1>5, <1>6 DEF StateInv, StateKept

LEMMA StateSteps ==
    ASSUME StateInv, BindingTypes, [Next]_vars PROVE StateInv' /\ BindingTypes'
<1> SUFFICES StateInv'
  BY BindingTypesKept
<1>1. CASE UNCHANGED vars
  BY <1>1 DEF vars, hist, views, StateInv, StateKept
<1>2. CASE \E t \in {"both", "draw", "read"}, f \in Fbos \cup {Zero} : BindFramebuffer(t, f)
  BY <1>2, BindKeepsState
<1>3. CASE \E t \in {"draw", "read"} : CheckStatus(t) \/ \E i \in Images : Attach(t, i)
  BY <1>3, CheckKeepsState, AttachKeepsState
<1>4. CASE \E s \in Settings, v \in {0, 1} : Set(s, v)
  BY <1>4, SetKeepsState
<1>5. CASE \E on \in BOOLEAN : VertexArray(on)
  BY <1>5, VertexArrayKeepsState
<1>6. CASE \E v \in {0, 1} : SetViewport(v)
  BY <1>6, SetViewportKeepsState
<1> QED
  BY <1>1, <1>2, <1>3, <1>4, <1>5, <1>6, OthersKeepState DEF Next

\* Between two calls of the guest the driver holds the settings the guest last
\* made, whatever the keyboard, the stretch, the cursor and a clear drew
\* meanwhile, and however many settings it has chosen (the saved and restored
\* state of egl.c, stretch.c and gles3.c); and its viewport, until a frame on
\* the internal target begins with the whole of that.
THEOREM SettingsAreTheGuests == Spec => []StateKept
<1>1. Init => StateInv /\ BindingTypes
  BY StateStarts
<1>2. StateInv /\ BindingTypes /\ [Next]_vars => StateInv' /\ BindingTypes'
  BY StateSteps
<1>3. StateInv => StateKept
  BY DEF StateInv
<1> QED
  BY <1>1, <1>2, <1>3, PTL DEF Spec

(***************************************************************************)
(* The two bindings of the guest and the one of the driver.                *)
(***************************************************************************)
BindingInv ==
    /\ StateInv /\ BindingTypes
    /\ meant \in [Fbos -> SUBSET Images]
    /\ strayed => Stretched
    /\ BindingsFollow

\* What a state without a deviation of the guest gives, and what any gives.
LEMMA BindingFacts ==
    ASSUME BindingInv
    PROVE  /\ d \in Gl /\ meant \in [Fbos -> SUBSET Images]
           /\ d.fbo \in Fbos \cup {Panel, Target} /\ d.image \in [Fbos -> Images]
           /\ framebuffer \in Fbos \cup {Zero} /\ read_framebuffer \in Fbos \cup {Zero}
           /\ strayed => Stretched
           /\ ~strayed => d.fbo = Physical(framebuffer)
           /\ d.fbo \in Fbos => d.fbo = framebuffer
           /\ \A f \in Fbos : d.image[f] \in meant[f]
           /\ Panel \notin Fbos /\ Target \notin Fbos /\ Zero \notin Fbos
BY GlStateAssumption
DEF BindingInv, StateInv, Gl, BindingTypes, BindingsFollow, TargetFollows, AttachedRight

\* An operation that begins on the driver's binding ends on it, unless the
\* guest strays by it.
LEMMA OperationReturns ==
    ASSUME BindingInv, NEW t \in {"draw", "read"}, NEW gl \in Gl,
           UNCHANGED <<framebuffer, g_active, target>>,
           gl.fbo = OperationBegin(t, d).fbo, Strays(Borrows(t) /\ framebuffer = Zero)
    PROVE  /\ ~strayed' => OperationEnd(t, gl).fbo = Physical(framebuffer)'
           /\ OperationEnd(t, gl).fbo \in Fbos => OperationEnd(t, gl).fbo = framebuffer'
           /\ OperationEnd(t, gl).image = gl.image
<1>1. CASE Borrows(t)
  <2>1. OperationEnd(t, gl).fbo = RawName(framebuffer) /\ OperationEnd(t, gl).image = gl.image
    BY <1>1 DEF OperationEnd, Gl
  <2> QED
    BY <1>1, <2>1, BindingFacts DEF Strays, Stretched, Physical, RawName
<1>2. CASE ~Borrows(t)
  <2>1. OperationEnd(t, gl) = gl /\ gl.fbo = d.fbo
    BY <1>2 DEF OperationEnd, OperationBegin
  <2> QED
    BY <1>2, <2>1, BindingFacts DEF Strays, Stretched, Physical
<1> QED
  BY <1>1, <1>2

LEMMA AttachFollows ==
    ASSUME BindingInv, NEW t \in {"draw", "read"}, NEW i \in Images, Attach(t, i)
    PROVE  BindingsFollow' /\ meant' \in [Fbos -> SUBSET Images]
<1> DEFINE b == OperationBegin(t, d)
           a == IF b.fbo \in Fbos THEN [b EXCEPT !.image[b.fbo] = i] ELSE b
           side == Side(t)
<1>1. /\ d' = OperationEnd(t, a) /\ side \in Fbos
      /\ Strays(Borrows(t) /\ framebuffer = Zero)
      /\ meant' = [meant EXCEPT ![side] = IF strayed THEN @ \cup {i} ELSE {i}]
      /\ UNCHANGED <<framebuffer, g_active, target>>
  BY BindingFacts DEF Attach, port, Side
<1>2. b \in Gl /\ b.image = d.image
  BY OperationOK, BindingFacts DEF Same
<1>3. /\ b.fbo \in Fbos => b.fbo = side
      /\ ~strayed => b.fbo = side
  BY <1>1, BindingFacts DEF OperationBegin, Borrows, RawName, Side, Physical, Gl
<1> HIDE DEF b, side
<1>4. a \in Gl /\ a.fbo = b.fbo
      /\ a.image = IF b.fbo \in Fbos THEN [d.image EXCEPT ![b.fbo] = i] ELSE d.image
  BY <1>2 DEF Gl
<1> HIDE DEF a
<1>5. /\ ~strayed' => d'.fbo = Physical(framebuffer)'
      /\ d'.fbo \in Fbos => d'.fbo = framebuffer'
      /\ d'.image = a.image
  BY <1>1, <1>4, OperationReturns DEF b
<1>6. meant' \in [Fbos -> SUBSET Images]
  BY <1>1, BindingFacts
<1>7. ASSUME NEW f \in Fbos PROVE d'.image[f] \in meant'[f]
  <2>1. CASE f = side /\ ~strayed
    BY <1>1, <1>3, <1>4, <1>5, <2>1, BindingFacts
  <2>2. CASE f = side /\ strayed
    BY <1>1, <1>3, <1>4, <1>5, <2>2, BindingFacts
  <2>3. CASE f # side
    BY <1>1, <1>3, <1>4, <1>5, <2>3, BindingFacts
  <2> QED
    BY <2>1, <2>2, <2>3
<1> QED
  BY <1>5, <1>6, <1>7 DEF BindingsFollow, TargetFollows, AttachedRight

\* Only a guest on a made target strays.
LEMMA StrayedStep ==
    ASSUME BindingInv, [Next]_vars PROVE (strayed => Stretched)'
<1>1. ASSUME UNCHANGED <<g_active, target>>, strayed' => strayed \/ Stretched
      PROVE  (strayed => Stretched)'
  BY <1>1, BindingFacts DEF Stretched
<1>2. ASSUME NEW t \in {"both", "draw", "read"}, NEW f \in Fbos \cup {Zero}, BindFramebuffer(t, f)
      PROVE  (strayed => Stretched)'
  <2>1. strayed' = (strayed /\ t = "read") /\ (t = "read" => UNCHANGED <<g_active, target>>)
    BY <1>2 DEF BindFramebuffer
  <2> QED
    BY <1>1, <2>1
<1>3. ASSUME NEW asked, NEW window, SwapBuffers(asked, window) PROVE (strayed => Stretched)'
  BY <1>1, <1>3 DEF SwapBuffers, port
<1>4. ASSUME NEW f, DeleteFramebuffers(f) PROVE (strayed => Stretched)'
  BY <1>1, <1>4 DEF DeleteFramebuffers, Strays
<1>5. ASSUME NEW t, CheckStatus(t) \/ \E i \in Images : Attach(t, i) PROVE (strayed => Stretched)'
  BY <1>1, <1>5 DEF CheckStatus, Attach, Strays, port
<1>6. ASSUME UNCHANGED <<port, strayed>> PROVE (strayed => Stretched)'
  BY <1>1, <1>6 DEF port
<1>7. CASE MakeCurrent
  BY <1>1, <1>7 DEF MakeCurrent, port
<1> QED
  BY <1>2, <1>3, <1>4, <1>5, <1>6, <1>7
  DEF Next, vars, hist, Set, SetViewport, VertexArray, ClearBuffer

LEMMA BindingStep ==
    ASSUME BindingInv, Next PROVE BindingsFollow' /\ meant' \in [Fbos -> SUBSET Images]
<1>0. d \in Gl /\ meant \in [Fbos -> SUBSET Images]
  BY BindingFacts
<1>1. ASSUME NEW t \in {"both", "draw", "read"}, NEW f \in Fbos \cup {Zero}, BindFramebuffer(t, f)
      PROVE  BindingsFollow' /\ UNCHANGED meant
  <2> DEFINE gl == IF target' # target THEN CreateTarget(d) ELSE d
             where == Physical(f)'
  <2>1. gl \in Gl /\ gl.fbo = d.fbo /\ gl.image = d.image
    BY <1>0, CreateTargetKeeps DEF Same
  <2>2. /\ d' = IF t = "read" THEN gl ELSE [gl EXCEPT !.fbo = where]
        /\ framebuffer' = IF t = "read" THEN framebuffer ELSE f
        /\ t = "read" => UNCHANGED <<g_active, target>>
        /\ meant' = meant /\ strayed' = (strayed /\ t = "read")
    BY <1>1 DEF BindFramebuffer
  <2> HIDE DEF gl
  <2>3. d'.image = d.image
    BY <1>0, <2>1, <2>2 DEF Gl
  <2>4. CASE t = "read"
    <3>1. /\ d'.fbo = d.fbo /\ UNCHANGED <<framebuffer, g_active, target>>
          /\ strayed => strayed'
      <4>1. d' = gl /\ framebuffer' = framebuffer /\ UNCHANGED <<g_active, target>>
        BY <2>2, <2>4
      <4>2. strayed => strayed'
        BY <2>2, <2>4
      <4> QED
        BY <2>1, <4>1, <4>2
    <3> QED
      BY <2>2, <2>3, <3>1, BindingFacts
      DEF BindingsFollow, TargetFollows, AttachedRight, Physical, Stretched
  <2>5. CASE t # "read"
    <3>1. framebuffer' = f /\ d'.fbo = where
      BY <2>1, <2>2, <2>5 DEF Gl
    <3>2. where = Physical(framebuffer)'
      BY <3>1 DEF Physical
    <3>3. where \in Fbos => where = f
      BY GlStateAssumption DEF Physical
    <3> QED
      BY <2>2, <2>3, <3>1, <3>2, <3>3, BindingFacts
      DEF BindingsFollow, TargetFollows, AttachedRight
  <2> QED
    BY <2>4, <2>5
<1>2. ASSUME NEW f \in Fbos, DeleteFramebuffers(f)
      PROVE  BindingsFollow' /\ meant' \in [Fbos -> SUBSET Images]
  <2>1. /\ d' = [d EXCEPT !.fbo = IF @ = f THEN Panel ELSE @, !.image[f] = 0]
        /\ meant' = [meant EXCEPT ![f] = {0}]
        /\ framebuffer' = IF framebuffer = f THEN Zero ELSE framebuffer
        /\ UNCHANGED <<g_active, target>> /\ Strays(framebuffer = f)
    BY <1>2 DEF DeleteFramebuffers
  <2>2. /\ d'.fbo = (IF d.fbo = f THEN Panel ELSE d.fbo)
        /\ d'.image = [d.image EXCEPT ![f] = 0]
    BY <1>0, <2>1 DEF Gl
  <2>3. d'.fbo \in Fbos => d'.fbo = framebuffer'
    BY <2>1, <2>2, BindingFacts
  <2>4. ~strayed' => d'.fbo = Physical(framebuffer)'
    BY <2>1, <2>2, BindingFacts DEF Physical, Strays, Stretched
  <2>5. meant' \in [Fbos -> SUBSET Images]
    BY <1>0, <2>1 DEF Images
  <2>6. \A x \in Fbos : d'.image[x] \in meant'[x]
    BY <1>0, <2>1, <2>2, BindingFacts
  <2> QED
    BY <2>3, <2>4, <2>5, <2>6 DEF BindingsFollow, TargetFollows, AttachedRight
<1>3. ASSUME NEW t \in {"draw", "read"}, CheckStatus(t) PROVE BindingsFollow' /\ UNCHANGED meant
  <2> DEFINE b == OperationBegin(t, d)
  <2>1. /\ d' = OperationEnd(t, b) /\ UNCHANGED <<framebuffer, g_active, target, meant>>
        /\ Strays(Borrows(t) /\ framebuffer = Zero)
    BY <1>3 DEF CheckStatus, port
  <2>2. b \in Gl /\ b.image = d.image
    BY OperationOK, BindingFacts DEF Same
  <2>3. /\ ~strayed' => d'.fbo = Physical(framebuffer)'
        /\ d'.fbo \in Fbos => d'.fbo = framebuffer'
        /\ d'.image = d.image
    BY <2>1, <2>2, OperationReturns
  <2> QED
    BY <2>1, <2>3, BindingFacts DEF BindingsFollow, TargetFollows, AttachedRight
<1>4. ASSUME NEW t \in {"draw", "read"}, NEW i \in Images, Attach(t, i)
      PROVE  BindingsFollow' /\ meant' \in [Fbos -> SUBSET Images]
  BY <1>4, AttachFollows
<1>5. ASSUME UNCHANGED <<port, meant>>, d'.image = d.image, d'.fbo = d.fbo, strayed => strayed'
      PROVE  BindingsFollow' /\ UNCHANGED meant
  BY <1>5, BindingFacts
  DEF BindingsFollow, TargetFollows, AttachedRight, Physical, Stretched, port
<1>6. ASSUME NEW s \in Settings, NEW v \in {0, 1}, Set(s, v) PROVE BindingsFollow' /\ UNCHANGED meant
  <2> DEFINE new == [x \in {s} |-> v]
  <2>1. d' = Put(new, d) /\ UNCHANGED <<port, meant, strayed>>
    BY <1>6 DEF Set
  <2>2. \A x \in DOMAIN new : new[x] \in 0..2
    OBVIOUS
  <2> HIDE DEF new
  <2>3. d'.fbo = d.fbo /\ d'.image = d.image
    BY <1>0, <2>1, <2>2, PutOK
  <2> QED
    BY <1>5, <2>1, <2>3
<1>7. ASSUME \/ \E on \in BOOLEAN : VertexArray(on)
             \/ \E v \in {0, 1} : SetViewport(v)
      PROVE  BindingsFollow' /\ UNCHANGED meant
  <2>1. d'.fbo = d.fbo /\ d'.image = d.image /\ UNCHANGED <<port, meant, strayed>>
    BY <1>0, <1>7 DEF VertexArray, SetViewport, Gl
  <2> QED
    BY <1>5, <2>1
<1>8. ASSUME NEW b \in {"color", "depth", "stencil", "depth_stencil"}, ClearBuffer(b)
      PROVE  BindingsFollow' /\ UNCHANGED meant
  <2>1. UNCHANGED <<port, meant, strayed>>
    BY <1>8 DEF ClearBuffer, hist
  <2> QED
    BY <1>0, <1>5, <1>8, <2>1, ClearBufferKeeps DEF Same
<1>9. ASSUME UNCHANGED <<port, meant>>, d'.image = d.image,
             d'.fbo = IF Stretched THEN Target ELSE d.fbo,
             strayed' = (Stretched /\ framebuffer # Zero)
      PROVE  BindingsFollow' /\ UNCHANGED meant
  BY <1>9, BindingFacts
  DEF BindingsFollow, TargetFollows, AttachedRight, Physical, Stretched, port
<1>10. CASE MakeCurrent
  <2>1. /\ d' = AfterPresent(d) /\ UNCHANGED <<port, meant>>
        /\ strayed' = (Stretched /\ framebuffer # Zero)
    BY <1>10 DEF MakeCurrent
  <2> QED
    BY <1>0, <1>9, <2>1, AfterPresentKeeps DEF Same
<1>11. ASSUME NEW asked \in SUBSET {"keyboard", "cursor"}, NEW window \in BOOLEAN,
              SwapBuffers(asked, window)
       PROVE  BindingsFollow' /\ UNCHANGED meant
  <2>1. /\ UNCHANGED <<port, meant>>
        /\ IF window THEN strayed' = (Stretched /\ framebuffer # Zero) ELSE UNCHANGED strayed
    BY <1>11 DEF SwapBuffers
  <2>2. /\ Same(d', d)
        /\ d'.fbo = IF window /\ Stretched THEN Target ELSE d.fbo
    BY <1>0, <1>11, SwapKeeps
  <2> QED
    BY <1>5, <1>9, <2>1, <2>2 DEF Same
<1> QED
  BY <1>0, <1>1, <1>2, <1>3, <1>4, <1>6, <1>7, <1>8, <1>10, <1>11 DEF Next

\* The driver's one framebuffer binding is the guest's draw framebuffer, and
\* attachments reach the side they are made on (framebuffer_operation_begin
\* and _end of egl.c, stretch.c), whatever the guest does in whatever order;
\* while it has strayed from the target, no framebuffer takes what it did not
\* bind (egl.c:535, 591).
THEOREM BindingsAreServed == Spec => []BindingsFollow
<1>1. Init => BindingInv
  <2> SUFFICES ASSUME Init PROVE BindingInv
    OBVIOUS
  <2>1. /\ framebuffer = Zero /\ target = "none" /\ d.fbo = Panel
        /\ meant = [f \in Fbos |-> {0}] /\ d.image = [f \in Fbos |-> 0]
    BY DEF Init
  <2>2. BindingsFollow
    BY <2>1, GlStateAssumption
    DEF BindingsFollow, TargetFollows, AttachedRight, Physical, Stretched
  <2>3. StateInv /\ BindingTypes
    BY StateStarts
  <2> QED
    BY <2>1, <2>2, <2>3 DEF BindingInv, Images, Init
<1>2. BindingInv /\ [Next]_vars => BindingInv'
  <2> SUFFICES ASSUME BindingInv, [Next]_vars PROVE BindingInv'
    OBVIOUS
  <2>1. CASE Next
    BY <2>1, BindingStep, StrayedStep, StateSteps DEF BindingInv
  <2>2. CASE UNCHANGED vars
    <3>1. BindingsFollow' /\ UNCHANGED meant
      BY <2>2 DEF BindingInv, vars, port, hist, BindingsFollow, TargetFollows, AttachedRight,
                  Physical, Stretched
    <3> QED
      BY <2>2, <3>1, StrayedStep, StateSteps DEF BindingInv
  <2> QED
    BY <2>1, <2>2
<1>3. BindingInv => BindingsFollow
  BY DEF BindingInv
<1> QED
  BY <1>1, <1>2, <1>3, PTL DEF Spec

-------------------------------------------------------------------------------
(***************************************************************************)
(* The textures.                                                           *)
(***************************************************************************)
\* Compressed data goes up as it is to a driver that has the format; the
\* chain gl3_TexStorage2D makes by hand on GLES2 is of RGBA, and would refuse
\* it.  The run textures_native shows what becomes of such a texture.  Where
\* the storage is the driver's, a format it lacks leaves the decoded pixels no
\* level to go to.
NativeOnEs3 == \A v \in Drivers : v.etc2 = v.es3 /\ v.astc = v.es3

Words ==
    Formats \cup Pixels
    \cup {"none", "lost", "undef", "broken", "flat", "array", "rgba8", "rgba4", "rgb565", "la8",
          "storage", "images"}

LevelType == [fmt : Words, base : Words, patch : Words]
ChainType == [Levels -> LevelType]
MadeType == [by : Words, levels : 0..2, first : Words, attached : BOOLEAN]
RecordType == [fmt : Words, levels : 0..2, large : BOOLEAN, mode : 0..2, attached : BOOLEAN]

Packed16 == {"rgb565", "rgba4"}

LEMMA WordsAre ==
    /\ None \in Words /\ Lost \in Words /\ "undef" \in Words /\ "broken" \in Words
    /\ "flat" \in Words /\ "array" \in Words /\ "rgba8" \in Words /\ "rgba4" \in Words
    /\ "rgb565" \in Words /\ "la8" \in Words /\ "storage" \in Words /\ "images" \in Words
    /\ Formats \subseteq Words /\ Pixels \subseteq Words
BY DEF Words, None, Lost

\* A texture the port stores in 16 bits, as far as its record says.
Compactable(f) ==
    driver.bits16 /\ f.fmt = "rgba" /\ f.large /\ ~f.attached /\ f.levels > 0

\* The guest has said what the level is.
Claims(w) == w.fmt \notin {None, Lost}

\* The format that is stored for the guest's, when it is not packed.
KeptAs(f) == IF f = "r8" THEN StoredAs(f)
             ELSE IF f \in Compressed /\ driver[f] THEN f ELSE "rgba8"

\* Level by level: w as the guest made it, s as the driver has it, of a
\* texture with the history m and the record f.
LevelOK(w, s) ==
    /\ ~Claims(w) => w.base \notin Pixels /\ w.patch \notin Pixels
    /\ Claims(w) => s.fmt = KeptAs(w.fmt) \/ (w.fmt = "rgba" /\ s.fmt \in Packed16)
    /\ w.fmt \in Formats \cup {"array", None, Lost}
    /\ w.base \in Pixels => s.base = w.base
    /\ w.patch \in Pixels => s.patch = w.patch

\* A packed level is one the record still says will be packed.
PackedOK(w, s, m, f, l) ==
    s.fmt \in Packed16 =>
       /\ driver.bits16 /\ m.first # None
       /\ f.fmt = "rgba" /\ ~f.attached /\ l < f.levels
       /\ f.mode = (IF s.fmt = "rgb565" THEN 2 ELSE 1)
       /\ w.fmt \in {"rgba", Lost}

\* The mode of the record is that of the first upload.
ModeOK(w, m, f) ==
    /\ f.mode # 0 => driver.bits16 /\ f.fmt = "rgba" /\ f.large /\ f.levels > 0
    /\ w[0].fmt = "rgba" /\ f.mode # 0 => m.first # None /\ f.mode = Mode(m.first)
    /\ w[0].fmt = "rgba" /\ m.first # None /\ Compactable(f) => f.mode # 0
    /\ m.first \in Pixels \cup {None}

\* A chain has one format, and its record its length.
MadeOK(w, s, m, f) ==
    /\ m.levels = 0 => /\ w = NoLevels /\ s = NoLevels /\ m.first = None /\ m.by = None
                       /\ f.fmt = None /\ f.mode = 0
    /\ driver.bits16 /\ m.by # "storage" => w[1] = NoLevel /\ s[1] = NoLevel /\ m.levels <= 1
    /\ m.by = "storage" =>
         /\ m.levels \in {1, 2}
         /\ \A l \in Levels : IF l < m.levels THEN Claims(w[l]) ELSE w[l] = NoLevel
         /\ f.fmt # None => f.levels = m.levels
    /\ \A k, l \in Levels : Claims(w[k]) /\ Claims(w[l]) => w[k].fmt = w[l].fmt
    /\ \A l \in Levels : w[l].fmt = "array" => m.by = "storage"
    /\ driver.room > 0 /\ m.attached => f.attached

\* Every level that is filled is packed, or none is.
ChosenOK(w, s, m, f) ==
    driver.bits16 /\ m.by = "storage" =>
      \A l \in Levels : w[l].fmt = "rgba" /\ w[l].base \in Pixels =>
         /\ m.first # None
         /\ s[l].fmt = IF Compactable(f) THEN (IF f.mode = 2 THEN "rgb565" ELSE "rgba4")
                       ELSE "rgba8"

TexOK(w, s, m, f) ==
    /\ \A l \in Levels : LevelOK(w[l], s[l]) /\ PackedOK(w[l], s[l], m, f, l)
    /\ ModeOK(w, m, f) /\ MadeOK(w, s, m, f) /\ ChosenOK(w, s, m, f)

TexturesInv ==
    /\ driver \in Drivers
    /\ raw_alignment = unpack_alignment
    /\ bound_texture_2d \in Textures \cup {None}
    /\ record \in [DOMAIN record -> RecordType]
    /\ wanted \in [Textures -> ChainType] /\ store \in [Textures -> ChainType]
    /\ made \in [Textures -> MadeType]
    /\ \A t \in Textures : TexOK(wanted[t], store[t], made[t], Found(t))

\* What it says of one texture is what the property asks for.
LEMMA ServedOne ==
    ASSUME NEW w \in ChainType, NEW s \in ChainType, NEW m \in MadeType, NEW f \in RecordType,
           TexOK(w, s, m, f)
    PROVE  /\ \A l \in Levels :
                 /\ w[l].base \in Pixels => s[l].base = w[l].base /\ Serves(s[l].fmt, w[l].fmt)
                 /\ w[l].patch \in Pixels => s[l].patch = w[l].patch
                 /\ driver.room > 0 /\ m.attached => s[l].fmt \notin Packed16
           /\ LET chain == {l \in Levels : l < m.levels}
              IN (\A l \in chain : w[l].base \in Pixels) =>
                    \A k, l \in chain : s[k].fmt = s[l].fmt
<1>1. ASSUME NEW l \in Levels
      PROVE  /\ w[l].base \in Pixels => s[l].base = w[l].base /\ Serves(s[l].fmt, w[l].fmt)
             /\ w[l].patch \in Pixels => s[l].patch = w[l].patch
             /\ driver.room > 0 /\ m.attached => s[l].fmt \notin Packed16
  <2>1. LevelOK(w[l], s[l]) /\ PackedOK(w[l], s[l], m, f, l) /\ MadeOK(w, s, m, f)
    BY DEF TexOK
  <2>2. w[l].base \in Pixels => Serves(s[l].fmt, w[l].fmt)
    BY <2>1 DEF LevelOK, Claims, KeptAs, StoredAs, Serves, Packed16, Formats, Compressed, None, Lost
  <2>3. driver.room > 0 /\ m.attached => s[l].fmt \notin Packed16
    BY <2>1 DEF PackedOK, MadeOK
  <2> QED
    BY <2>1, <2>2, <2>3 DEF LevelOK
<1> DEFINE chain == {l \in Levels : l < m.levels}
<1>2. ASSUME \A l \in chain : w[l].base \in Pixels, NEW k \in chain, NEW l \in chain
      PROVE  s[k].fmt = s[l].fmt
  <2>1. /\ Claims(w[k]) /\ Claims(w[l]) /\ w[k].fmt = w[l].fmt
        /\ LevelOK(w[k], s[k]) /\ LevelOK(w[l], s[l])
    BY <1>2 DEF TexOK, MadeOK, LevelOK
  <2>2. CASE s[k].fmt \notin Packed16 /\ s[l].fmt \notin Packed16
    BY <2>1, <2>2 DEF LevelOK
  <2>3. CASE k # l /\ driver.bits16
    <3>1. m.levels > 1
      BY <2>3, <1>2 DEF Levels, MadeType
    <3>2. m.by = "storage"
      BY <2>3, <3>1 DEF TexOK, MadeOK, MadeType
    <3>3. CASE w[k].fmt = "rgba"
      BY <1>2, <2>1, <2>3, <3>2, <3>3 DEF TexOK, ChosenOK
    <3>4. CASE w[k].fmt # "rgba"
      BY <2>1, <3>4 DEF LevelOK
    <3> QED
      BY <3>3, <3>4
  <2>4. CASE ~driver.bits16
    BY <1>2, <2>2, <2>4 DEF TexOK, PackedOK
  <2>5. CASE k = l
    BY <2>5
  <2> QED
    BY <2>3, <2>4, <2>5
<1> QED
  BY <1>1, <1>2

\* A name that is not in use.
LEMMA FreshOK ==
    /\ TexOK(NoLevels, NoLevels, NotMade, NoRecord)
    /\ NoLevels \in ChainType /\ NotMade \in MadeType /\ NoRecord \in RecordType
<1>1. NoLevels \in ChainType
  BY WordsAre DEF NoLevels, NoLevel, ChainType, LevelType
<1>2. NotMade \in MadeType
  <2>1. NotMade = [by |-> None, levels |-> 0, first |-> None, attached |-> FALSE]
    BY DEF NotMade
  <2>2. FALSE \in BOOLEAN
    OBVIOUS
  <2>3. 0 \in 0..2
    OBVIOUS
  <2> QED
    BY <2>1, <2>2, <2>3, WordsAre DEF MadeType
<1>3. NoRecord \in RecordType
  <2>1. NoRecord = [fmt |-> None, levels |-> 0, large |-> FALSE, mode |-> 0, attached |-> FALSE]
    BY DEF NoRecord
  <2>2. FALSE \in BOOLEAN
    OBVIOUS
  <2>3. 0 \in 0..2
    OBVIOUS
  <2> QED
    BY <2>1, <2>2, <2>3, WordsAre DEF RecordType
<1>4. \A l \in Levels : LevelOK(NoLevels[l], NoLevels[l])
  BY DEF NoLevels, NoLevel, LevelOK, Claims, None, Pixels
<1>5. \A l \in Levels : PackedOK(NoLevels[l], NoLevels[l], NotMade, NoRecord, l)
  BY DEF NoLevels, NoLevel, PackedOK, Packed16, None
<1>6. NoLevels[0].fmt = None /\ NoLevels[1].fmt = None /\ NoLevels[1] = NoLevel
  BY DEF NoLevels, NoLevel, Levels
<1>7. ModeOK(NoLevels, NotMade, NoRecord)
  BY <1>6 DEF ModeOK, NotMade, NoRecord, None
<1>8. MadeOK(NoLevels, NoLevels, NotMade, NoRecord)
  <2>1. \A l \in Levels : NoLevels[l] = NoLevel /\ ~Claims(NoLevels[l]) /\ NoLevels[l].fmt # "array"
    BY DEF NoLevels, NoLevel, Claims, None
  <2> QED
    BY <1>6, <2>1 DEF MadeOK, NotMade, NoRecord, None
<1>9. ChosenOK(NoLevels, NoLevels, NotMade, NoRecord)
  BY DEF ChosenOK, NotMade, None
<1> QED
  BY <1>1, <1>2, <1>3, <1>4, <1>5, <1>7, <1>8, <1>9 DEF TexOK


LEMMA TypesOfOne ==
    ASSUME TexturesInv, NEW t \in Textures
    PROVE  /\ wanted[t] \in ChainType /\ store[t] \in ChainType
           /\ made[t] \in MadeType /\ Found(t) \in RecordType
           /\ TexOK(wanted[t], store[t], made[t], Found(t))
BY FreshOK DEF TexturesInv, Found, Recorded

\* The other textures are as they were.
LEMMA OneTexture ==
    ASSUME TexturesInv, NEW t \in Textures, UNCHANGED driver,
           raw_alignment' = unpack_alignment', bound_texture_2d' \in Textures \cup {None},
           record' \in [DOMAIN record' -> RecordType],
           wanted' \in [Textures -> ChainType], store' \in [Textures -> ChainType],
           made' \in [Textures -> MadeType],
           \A x \in Textures \ {t} : /\ wanted'[x] = wanted[x] /\ store'[x] = store[x]
                                     /\ made'[x] = made[x] /\ Found(x)' = Found(x),
           TexOK(wanted'[t], store'[t], made'[t], Found(t)')
    PROVE  TexturesInv'
<1>1. \A x \in Textures : TexOK(wanted'[x], store'[x], made'[x], Found(x)')
  BY DEF TexturesInv
<1>2. \A x \in Textures : TexOK(wanted[x], store[x], made[x], Found(x))'
  <2> SUFFICES ASSUME NEW x \in Textures PROVE TexOK(wanted[x], store[x], made[x], Found(x))'
    OBVIOUS
  <2>1. TexOK(wanted'[x], store'[x], made'[x], Found(x)')
    BY <1>1
  <2> QED
    BY <2>1 DEF TexOK, LevelOK, PackedOK, ModeOK, MadeOK, ChosenOK, KeptAs, StoredAs, Compactable
<1> QED
  BY <1>2 DEF TexturesInv

LEMMA RememberOK ==
    ASSUME TexturesInv, NEW t, NEW r \in RecordType, Remember(t, r)
    PROVE  /\ record' \in [DOMAIN record' -> RecordType]
           /\ Found(t)' = IF Recorded(t) \/ driver.room > 0 THEN r ELSE Found(t)
           /\ \A x : x # t => Found(x)' = Found(x)
<1>1. record \in [DOMAIN record -> RecordType]
  BY DEF TexturesInv
<1>2. CASE Recorded(t) \/ driver.room > 0
  <2>1. record' = [x \in DOMAIN record \cup {t} |-> IF x = t THEN r ELSE record[x]]
    BY <1>2 DEF Remember
  <2>2. DOMAIN record' = DOMAIN record \cup {t}
    BY <2>1
  <2>3. record' \in [DOMAIN record' -> RecordType]
    BY <1>1, <2>1, <2>2
  <2>4. Found(t)' = r
    BY <2>1, <2>2 DEF Found, Recorded
  <2>5. \A x : x # t => Found(x)' = Found(x)
    BY <2>1, <2>2 DEF Found, Recorded
  <2> QED
    BY <1>2, <2>3, <2>4, <2>5
<1>3. CASE ~(Recorded(t) \/ driver.room > 0)
  <2>1. record' = record
    BY <1>3 DEF Remember
  <2> QED
    BY <1>1, <1>3, <2>1 DEF Found, Recorded
<1> QED
  BY <1>2, <1>3

\* Binding and the alignment concern no level.
LEMMA BindKeeps ==
    ASSUME TexturesInv, NEW t \in Textures, BindTexture(t) PROVE TexturesInv'
BY DEF BindTexture, TexturesInv, TexOK, LevelOK, PackedOK, ModeOK, MadeOK, ChosenOK, KeptAs,
       StoredAs, Compactable, Found, Recorded

LEMMA PixelStoreKeeps ==
    ASSUME TexturesInv, NEW a \in Alignments, PixelStorei(a) PROVE TexturesInv'
BY DEF PixelStorei, TexturesInv, TexOK, LevelOK, PackedOK, ModeOK, MadeOK, ChosenOK, KeptAs,
       StoredAs, Compactable, Found, Recorded

LEMMA DeleteKeeps ==
    ASSUME TexturesInv, NEW t \in Textures, DeleteTextures(t) PROVE TexturesInv'
<1>1. /\ record' = [x \in DOMAIN record \ {t} |-> record[x]]
      /\ store' = [store EXCEPT ![t] = NoLevels] /\ wanted' = [wanted EXCEPT ![t] = NoLevels]
      /\ made' = [made EXCEPT ![t] = NotMade]
      /\ UNCHANGED <<driver, unpack_alignment, raw_alignment>>
      /\ bound_texture_2d' \in {bound_texture_2d, None}
  BY DEF DeleteTextures
<1>2. /\ record \in [DOMAIN record -> RecordType] /\ raw_alignment = unpack_alignment
      /\ wanted \in [Textures -> ChainType] /\ store \in [Textures -> ChainType]
      /\ made \in [Textures -> MadeType] /\ bound_texture_2d \in Textures \cup {None}
  BY DEF TexturesInv
<1>3. DOMAIN record' = DOMAIN record \ {t}
  BY <1>1
<1>4. record' \in [DOMAIN record' -> RecordType]
  BY <1>1, <1>2, <1>3
<1>5. Found(t)' = NoRecord /\ \A x \in Textures \ {t} : Found(x)' = Found(x)
  BY <1>1, <1>3 DEF Found, Recorded
<1>6. /\ wanted' \in [Textures -> ChainType] /\ store' \in [Textures -> ChainType]
      /\ made' \in [Textures -> MadeType]
      /\ wanted'[t] = NoLevels /\ store'[t] = NoLevels /\ made'[t] = NotMade
      /\ \A x \in Textures \ {t} : /\ wanted'[x] = wanted[x] /\ store'[x] = store[x]
                                   /\ made'[x] = made[x]
  BY <1>1, <1>2, FreshOK
<1>7. TexOK(wanted'[t], store'[t], made'[t], Found(t)')
  BY <1>5, <1>6, FreshOK
<1> QED
  BY <1>1, <1>2, <1>4, <1>5, <1>6, <1>7, OneTexture

\* A render target: nothing was uploaded to it, and nothing is packed in it.
LEMMA AttachOK ==
    ASSUME NEW w \in ChainType, NEW s \in ChainType, NEW m \in MadeType, NEW f \in RecordType,
           TexOK(w, s, m, f), m.first = None,
           NEW n \in MadeType, NEW g \in RecordType,
           n.by = m.by, n.levels = m.levels, n.first = m.first,
           g.fmt = f.fmt, g.levels = f.levels, g.mode = f.mode, g.large = f.large,
           driver.room > 0 => g.attached
    PROVE  TexOK(w, s, n, g)
<1>1. \A l \in Levels : LevelOK(w[l], s[l]) /\ PackedOK(w[l], s[l], n, g, l)
  BY DEF TexOK, PackedOK
<1>2. ModeOK(w, n, g)
  BY DEF TexOK, ModeOK
<1>3. MadeOK(w, s, n, g)
  BY DEF TexOK, MadeOK
<1>4. ChosenOK(w, s, n, g)
  BY DEF TexOK, ChosenOK
<1> QED
  BY <1>1, <1>2, <1>3, <1>4 DEF TexOK

LEMMA AttachTextureKeeps ==
    ASSUME TexturesInv, NEW t \in Textures, AttachTexture(t) PROVE TexturesInv'
<1> DEFINE r == [Found(t) EXCEPT !.attached = TRUE]
<1>0. /\ Found(t) \in RecordType /\ made[t] \in MadeType /\ made \in [Textures -> MadeType]
      /\ wanted[t] \in ChainType /\ store[t] \in ChainType
      /\ TexOK(wanted[t], store[t], made[t], Found(t))
      /\ wanted \in [Textures -> ChainType] /\ store \in [Textures -> ChainType]
      /\ raw_alignment = unpack_alignment /\ bound_texture_2d \in Textures \cup {None}
  BY TypesOfOne DEF TexturesInv
<1>1. /\ made[t].first = None /\ Remember(t, r)
      /\ made' = [made EXCEPT ![t].attached = TRUE]
      /\ UNCHANGED <<driver, bound_texture_2d, unpack_alignment, raw_alignment, store, wanted>>
  BY DEF AttachTexture
<1> DEFINE n == [made[t] EXCEPT !.attached = TRUE]
<1>2. r = [Found(t) EXCEPT !.attached = TRUE] /\ n = [made[t] EXCEPT !.attached = TRUE]
  OBVIOUS
<1>3. /\ made'[t] = n /\ DOMAIN made' = Textures /\ \A x \in Textures \ {t} : made'[x] = made[x]
      /\ made' = [x \in Textures |-> made'[x]]
  BY <1>0, <1>1
<1> HIDE DEF r, n
<1>4. /\ r.fmt = Found(t).fmt /\ r.levels = Found(t).levels /\ r.mode = Found(t).mode
      /\ r.large = Found(t).large
      /\ r = [fmt |-> r.fmt, levels |-> r.levels, large |-> r.large, mode |-> r.mode,
              attached |-> r.attached]
  BY <1>0, <1>2 DEF RecordType
<1>5. r.attached = TRUE
  BY <1>0, <1>2 DEF RecordType
<1>6. r.attached \in BOOLEAN
  BY <1>5, Zenon
<1>7. r \in RecordType
  BY <1>0, <1>4, <1>6 DEF RecordType
<1>8. /\ record' \in [DOMAIN record' -> RecordType]
      /\ Found(t)' = IF Recorded(t) \/ driver.room > 0 THEN r ELSE Found(t)
      /\ \A x : x # t => Found(x)' = Found(x)
  BY <1>1, <1>7, RememberOK
<1>9. /\ n.by = made[t].by /\ n.levels = made[t].levels /\ n.first = made[t].first
      /\ n = [by |-> n.by, levels |-> n.levels, first |-> n.first, attached |-> n.attached]
  BY <1>0, <1>2 DEF MadeType
<1>10. n.attached = TRUE
  BY <1>0, <1>2 DEF MadeType
<1>11. n.attached \in BOOLEAN
  BY <1>10, Zenon
<1>12. n \in MadeType
  BY <1>0, <1>9, <1>11 DEF MadeType
<1>13. made' \in [Textures -> MadeType]
  BY <1>0, <1>3, <1>12
<1>14. /\ Found(t)'.fmt = Found(t).fmt /\ Found(t)'.levels = Found(t).levels
       /\ Found(t)'.mode = Found(t).mode /\ Found(t)'.large = Found(t).large
       /\ driver.room > 0 => Found(t)'.attached
       /\ Found(t)' \in RecordType
  BY <1>0, <1>4, <1>5, <1>7, <1>8
<1> DEFINE w == wanted[t] s == store[t] m == made[t] f == Found(t) g == Found(t)'
<1>15. TexOK(w, s, n, g)
  <2>1. /\ w \in ChainType /\ s \in ChainType /\ m \in MadeType /\ f \in RecordType
        /\ n \in MadeType /\ g \in RecordType /\ TexOK(w, s, m, f) /\ m.first = None
        /\ n.by = m.by /\ n.levels = m.levels /\ n.first = m.first
        /\ g.fmt = f.fmt /\ g.levels = f.levels /\ g.mode = f.mode /\ g.large = f.large
        /\ driver.room > 0 => g.attached
    BY <1>0, <1>1, <1>9, <1>12, <1>14
  <2> HIDE DEF w, s, m, f, g
  <2> QED
    BY <2>1, AttachOK
<1> QED
  BY <1>0, <1>1, <1>8, <1>3, <1>13, <1>15, OneTexture


LEMMA LevelsAre == 0 \in Levels /\ 1 \in Levels /\ \A l \in Levels : l = 0 \/ l = 1
BY DEF Levels

\* A chain made at once, in one format.
LEMMA StorageOK ==
    ASSUME NEW w \in ChainType, NEW s \in ChainType, NEW m \in MadeType, NEW f \in RecordType,
           NEW a \in Formats \cup {"array"}, NEW n \in {1, 2},
           \A l \in Levels :
              /\ w[l] = (IF l < n THEN Defined(a, "undef") ELSE NoLevel)
              /\ s[l] = (IF l < n THEN Defined(KeptAs(a), "undef") ELSE NoLevel),
           m.by = "storage", m.levels = n, m.first = None,
           f.mode = 0, f.fmt # None => f.levels = n, driver.room > 0 /\ m.attached => f.attached
    PROVE  TexOK(w, s, m, f)
<1>1. \A l \in Levels : w[l].base \notin Pixels /\ w[l].patch \notin Pixels
  BY DEF Defined, NoLevel, None, Pixels
<1>2. \A l \in Levels : IF l < n THEN w[l].fmt = a /\ s[l].fmt = KeptAs(a)
                        ELSE w[l] = NoLevel /\ w[l].fmt = None /\ s[l].fmt = None
  BY DEF Defined, NoLevel
<1>3. a \notin {None, Lost} /\ None \notin Packed16 /\ KeptAs(a) \notin Packed16
  BY DEF Formats, Compressed, None, Lost, Packed16, KeptAs, StoredAs
<1>4. \A l \in Levels : IF l < n THEN Claims(w[l]) ELSE ~Claims(w[l])
  BY <1>2, <1>3 DEF Claims
<1>5. \A l \in Levels : LevelOK(w[l], s[l]) /\ PackedOK(w[l], s[l], m, f, l)
  BY <1>1, <1>2, <1>3, <1>4 DEF LevelOK, PackedOK
<1>6. ModeOK(w, m, f)
  BY DEF ModeOK
<1>7. MadeOK(w, s, m, f)
  BY <1>2, <1>4 DEF MadeOK
<1>8. ChosenOK(w, s, m, f)
  BY <1>1 DEF ChosenOK
<1> QED
  BY <1>5, <1>6, <1>7, <1>8 DEF TexOK

\* A level defined anew, of a texture that is made level by level: in the
\* format F of the others, or refused.
LEMMA ImageOK ==
    ASSUME NEW w \in ChainType, NEW s \in ChainType, NEW m \in MadeType, NEW f \in RecordType,
           TexOK(w, s, m, f), NEW F \in Formats, NEW l \in Levels,
           m.by # "storage", driver.bits16 => l = 0,
           m.levels > 0 => \A k \in Levels \ {l} : w[k].fmt \in {None, Lost, F},
           NEW v \in ChainType, NEW r \in ChainType, NEW n \in MadeType, NEW g \in RecordType,
           \A k \in Levels \ {l} : v[k] = w[k] /\ r[k] = s[k],
           v[l].fmt \in {F, Lost}, LevelOK(v[l], r[l]),
           n.by = "images", n.levels = (IF m.levels <= l THEN l + 1 ELSE m.levels),
           n.attached = m.attached,
           g = f \/ (l = 0 /\ g.mode = 0 /\ (driver.room > 0 /\ m.attached => g.attached)),
           n.first = m.first \/ (l = 0 /\ n.first = None),
           l = 0 /\ v[l].fmt = "rgba" => g.mode = 0 /\ n.first = None,
           \/ r[l].fmt \notin Packed16
           \/ r[l] = s[l] /\ v[l].fmt = Lost /\ g = f /\ n.first = m.first
    PROVE  TexOK(v, r, n, g)
<1>0. /\ \A k \in Levels : LevelOK(w[k], s[k]) /\ PackedOK(w[k], s[k], m, f, k)
      /\ ModeOK(w, m, f) /\ MadeOK(w, s, m, f)
  BY DEF TexOK
<1>1. \A k \in Levels : LevelOK(v[k], r[k])
  BY <1>0
<1>2. PackedOK(v[l], r[l], n, g, l)
  BY <1>0 DEF PackedOK
<1>3. ASSUME NEW k \in Levels \ {l} PROVE PackedOK(v[k], r[k], n, g, k)
  <2>1. CASE driver.bits16
    <3>1. r[k] = NoLevel
      BY <1>0, <2>1, LevelsAre DEF MadeOK
    <3> QED
      BY <3>1 DEF PackedOK, NoLevel, Packed16, None
  <2>2. CASE ~driver.bits16
    BY <1>0, <2>2 DEF PackedOK
  <2> QED
    BY <2>1, <2>2
<1>4. ModeOK(v, n, g)
  <2>1. g.mode # 0 => driver.bits16 /\ g.fmt = "rgba" /\ g.large /\ g.levels > 0
    BY <1>0 DEF ModeOK
  <2>2. n.first \in Pixels \cup {None}
    BY <1>0 DEF ModeOK
  <2>3. CASE l = 0
    BY <2>1, <2>2, <2>3 DEF ModeOK
  <2>4. CASE l # 0
    <3>1. v[0] = w[0] /\ g = f /\ n.first = m.first
      BY <2>4, LevelsAre
    <3> QED
      BY <1>0, <3>1 DEF ModeOK
  <2> QED
    BY <2>3, <2>4
<1>5. MadeOK(v, r, n, g)
  <2>1. n.levels # 0
    BY LevelsAre DEF MadeType
  <2>2. driver.bits16 => v[1] = NoLevel /\ r[1] = NoLevel /\ n.levels <= 1
    BY <1>0, LevelsAre DEF MadeOK, MadeType
  <2>3. ASSUME NEW k \in Levels \ {l} PROVE Claims(v[k]) => v[k].fmt = F
    <3>1. CASE m.levels > 0
      BY <3>1 DEF Claims
    <3>2. CASE ~(m.levels > 0)
      <4>1. m.levels = 0
        BY <3>2 DEF MadeType
      <4>2. w[k] = NoLevel
        BY <1>0, <4>1 DEF MadeOK, NoLevels
      <4> QED
        BY <4>2 DEF Claims, NoLevel
    <3> QED
      BY <3>1, <3>2
  <2>4. \A k \in Levels : Claims(v[k]) => v[k].fmt = F
    BY <2>3 DEF Claims
  <2>5. \A k \in Levels : v[k].fmt # "array"
    BY <1>0 DEF MadeOK, Formats, Compressed, Lost
  <2>6. driver.room > 0 /\ n.attached => g.attached
    BY <1>0 DEF MadeOK
  <2> QED
    BY <2>1, <2>2, <2>4, <2>5, <2>6 DEF MadeOK
<1>6. ChosenOK(v, r, n, g)
  BY DEF ChosenOK
<1> QED
  BY <1>1, <1>2, <1>3, <1>4, <1>5, <1>6 DEF TexOK

\* What an upload to a level that exists leaves of the chain.
LEMMA SameChain ==
    ASSUME NEW w \in ChainType, NEW s \in ChainType, NEW m \in MadeType, NEW f \in RecordType,
           MadeOK(w, s, m, f), NEW l \in Levels, Claims(w[l]),
           NEW v \in ChainType, NEW r \in ChainType, NEW n \in MadeType, NEW g \in RecordType,
           \A k \in Levels \ {l} : v[k] = w[k] /\ r[k] = s[k],
           v[l].fmt = w[l].fmt,
           n.by = m.by, n.levels = m.levels, n.attached = m.attached,
           g.fmt = f.fmt, g.levels = f.levels, g.attached = f.attached
    PROVE  MadeOK(v, r, n, g)
<1>1. \A k \in Levels : v[k].fmt = w[k].fmt /\ (Claims(v[k]) <=> Claims(w[k]))
  BY DEF Claims
<1>2. w[l] # NoLevel
  BY DEF Claims, NoLevel
<1>3. m.levels # 0
  BY <1>2 DEF MadeOK, NoLevels
<1>4. driver.bits16 /\ m.by # "storage" => l = 0
  BY <1>2, LevelsAre DEF MadeOK
<1>5. m.by = "storage" => \A k \in Levels : IF k < m.levels THEN Claims(v[k]) ELSE v[k] = NoLevel
  BY <1>1, <1>2 DEF MadeOK
<1> QED
  BY <1>1, <1>3, <1>4, <1>5, LevelsAre DEF MadeOK

\* An upload that is never packed: one channel, an array, compressed data.
LEMMA PartOK ==
    ASSUME NEW w \in ChainType, NEW s \in ChainType, NEW m \in MadeType, NEW f \in RecordType,
           TexOK(w, s, m, f), NEW l \in Levels, Claims(w[l]), w[l].fmt # "rgba",
           NEW v \in ChainType, NEW r \in ChainType, NEW n \in MadeType,
           \A k \in Levels \ {l} : v[k] = w[k] /\ r[k] = s[k],
           v[l].fmt = w[l].fmt, LevelOK(v[l], r[l]),
           n.by = m.by, n.levels = m.levels, n.attached = m.attached,
           n.first = m.first \/ (l = 0 /\ m.first = None /\ n.first \in Pixels)
    PROVE  TexOK(v, r, n, f)
<1>0. /\ \A k \in Levels : LevelOK(w[k], s[k]) /\ PackedOK(w[k], s[k], m, f, k)
      /\ ModeOK(w, m, f) /\ MadeOK(w, s, m, f) /\ ChosenOK(w, s, m, f)
  BY DEF TexOK
<1>1. m.first # None => n.first = m.first
  OBVIOUS
<1>2. \A k \in Levels : LevelOK(v[k], r[k])
  BY <1>0
<1>3. r[l].fmt \notin Packed16
  <2>1. r[l].fmt = KeptAs(w[l].fmt) /\ w[l].fmt \in Formats \cup {"array"}
    BY DEF LevelOK, Claims
  <2> QED
    BY <2>1 DEF KeptAs, StoredAs, Packed16, Formats, Compressed
<1>4. \A k \in Levels : PackedOK(v[k], r[k], n, f, k)
  BY <1>0, <1>1, <1>3 DEF PackedOK
<1>5. ModeOK(v, n, f)
  <2>1. n.first \in Pixels \cup {None}
    BY <1>0 DEF ModeOK
  <2>2. v[0].fmt = w[0].fmt
    BY LevelsAre
  <2>3. v[0].fmt = "rgba" => n.first = m.first
    OBVIOUS
  <2> QED
    BY <1>0, <2>1, <2>2, <2>3 DEF ModeOK
<1>6. MadeOK(v, r, n, f)
  BY <1>0, SameChain
<1>7. ChosenOK(v, r, n, f)
  BY <1>0, <1>1 DEF ChosenOK
<1> QED
  BY <1>2, <1>4, <1>5, <1>6, <1>7 DEF TexOK


\* What is packed, and in which mode.
Packs(f, l, full) ==
    /\ driver.bits16 /\ f.fmt = "rgba" /\ (f.mode # 0 \/ (l = 0 /\ f.large))
    /\ full /\ ~f.attached /\ l < f.levels

Chosen(f, data) == IF f.mode # 0 THEN f.mode ELSE Mode(data)

\* w, s, m and f become v, r, n and g by an upload of colour pixels.
ColourUpload(w, s, m, f, l, full, data, v, r, n, g) ==
    /\ \A k \in Levels \ {l} : v[k] = w[k] /\ r[k] = s[k]
    /\ v[l] = (IF full THEN Defined("rgba", data) ELSE [w[l] EXCEPT !.patch = data])
    /\ r[l] = (IF Packs(f, l, full) THEN Packed(Chosen(f, data), data)
               ELSE Updated(s[l], "rgba", full, data))
    /\ n.by = m.by /\ n.levels = m.levels /\ n.attached = m.attached
    /\ n.first = (IF l = 0 /\ full /\ m.first = None THEN data ELSE m.first)
    /\ driver.bits16 => n.first # None /\ (n.first = "opaque" => full /\ data = "opaque")
    /\ g.fmt = f.fmt /\ g.large = f.large /\ g.levels = f.levels /\ g.attached = f.attached
    /\ g.mode = (IF Packs(f, l, full) THEN Chosen(f, data) ELSE f.mode)

\* It is packed when the texture is, and then all of it.
LEMMA ColourOK ==
    ASSUME NEW w \in ChainType, NEW s \in ChainType, NEW m \in MadeType, NEW f \in RecordType,
           TexOK(w, s, m, f), NEW l \in Levels, w[l].fmt = "rgba",
           NEW full \in BOOLEAN, NEW data \in Pixels,
           NEW v \in ChainType, NEW r \in ChainType, NEW n \in MadeType, NEW g \in RecordType,
           ColourUpload(w, s, m, f, l, full, data, v, r, n, g)
    PROVE  TexOK(v, r, n, g)
<1> SUFFICES
      ASSUME \A k \in Levels \ {l} : v[k] = w[k] /\ r[k] = s[k],
             v[l] = (IF full THEN Defined("rgba", data) ELSE [w[l] EXCEPT !.patch = data]),
             n.by = m.by, n.levels = m.levels, n.attached = m.attached,
             n.first = (IF l = 0 /\ full /\ m.first = None THEN data ELSE m.first),
             driver.bits16 => n.first # None /\ (n.first = "opaque" => full /\ data = "opaque"),
             g.fmt = f.fmt, g.large = f.large, g.levels = f.levels, g.attached = f.attached,
             NEW mode, mode = (IF f.mode # 0 THEN f.mode ELSE Mode(data)),
             NEW compacts,
             compacts <=> /\ driver.bits16 /\ f.fmt = "rgba" /\ (f.mode # 0 \/ (l = 0 /\ f.large))
                          /\ full /\ ~f.attached /\ l < f.levels,
             IF compacts THEN r[l] = Packed(mode, data)
             ELSE r[l] = Updated(s[l], "rgba", full, data),
             g.mode = (IF compacts THEN mode ELSE f.mode)
      PROVE  TexOK(v, r, n, g)
  BY DEF ColourUpload, Packs, Chosen
<1>0. /\ \A k \in Levels : LevelOK(w[k], s[k]) /\ PackedOK(w[k], s[k], m, f, k)
      /\ ModeOK(w, m, f) /\ MadeOK(w, s, m, f) /\ ChosenOK(w, s, m, f)
  BY DEF TexOK
<1>1. w[l] \in LevelType /\ s[l] \in LevelType /\ Claims(w[l])
  BY DEF ChainType, Claims, None, Lost
<1>2. /\ v[l].fmt = "rgba"
      /\ full => v[l].base = data /\ v[l].patch = None
      /\ ~full => v[l].base = w[l].base /\ v[l].patch = data
  BY <1>1 DEF Defined, LevelType
<1>3. MadeOK(v, r, n, g)
  <2>1. v[l].fmt = w[l].fmt /\ MadeOK(w, s, m, f)
    BY <1>0, <1>2
  <2>2. \A k \in Levels : v[k].fmt = w[k].fmt /\ (k # l => v[k] = w[k] /\ r[k] = s[k])
    BY <2>1
  <2> QED
    BY <1>1, <2>1, <2>2, SameChain

\* The first upload decides for the chain: level 0 is of the same format.
<1>4. driver.bits16 => w[0].fmt = "rgba" /\ v[0].fmt = "rgba"
  <2> SUFFICES ASSUME driver.bits16 PROVE w[0].fmt = "rgba"
    BY <1>2, LevelsAre
  <2>1. CASE l = 0
    BY <2>1
  <2>2. CASE l = 1
    <3>1. w[1] # NoLevel
      BY <1>1, <2>2 DEF Claims, NoLevel
    <3>2. m.by = "storage"
      BY <1>0, <3>1 DEF MadeOK
    <3>3. Claims(w[0])
      BY <1>0, <2>2, <3>1, <3>2, LevelsAre DEF MadeOK, MadeType
    <3> QED
      BY <1>0, <1>1, <3>3, LevelsAre DEF MadeOK
  <2> QED
    BY <2>1, <2>2, LevelsAre
<1>5. f.mode # 0 => /\ driver.bits16 /\ f.fmt = "rgba" /\ f.large /\ f.levels > 0
                    /\ m.first # None /\ n.first = m.first /\ f.mode = Mode(n.first)
  BY <1>0, <1>4 DEF ModeOK
<1>6. m.first # None => n.first = m.first
  OBVIOUS
<1>7. n.first \in Pixels \cup {None}
  BY <1>0 DEF ModeOK
<1>8. Compactable(g) <=> Compactable(f)
  BY DEF Compactable
<1>9. f.levels \in Nat /\ l \in Nat
  BY DEF RecordType, Levels
<1>10. driver.bits16 /\ full /\ Compactable(f) /\ l < f.levels => compacts
  <2> SUFFICES ASSUME driver.bits16, full, Compactable(f), l < f.levels
      PROVE f.mode # 0 \/ (l = 0 /\ f.large)
    BY DEF Compactable
  <2>1. CASE m.first # None
    BY <1>0, <1>4, <2>1 DEF ModeOK
  <2>2. CASE m.first = None
    BY <2>2 DEF Compactable
  <2> QED
    BY <2>1, <2>2
<1>11. CASE compacts
  <2>1. /\ driver.bits16 /\ f.fmt = "rgba" /\ f.large /\ full /\ ~f.attached /\ f.levels > 0
        /\ l < f.levels
    BY <1>5, <1>9, <1>11
  <2>2. Compactable(f)
    BY <2>1 DEF Compactable
  <2>3. mode = Mode(n.first)
    <3>1. CASE f.mode # 0
      BY <1>5, <3>1
    <3>2. CASE f.mode = 0
      <4>1. m.first = None
        BY <1>0, <1>4, <2>1, <2>2, <3>2 DEF ModeOK
      <4> QED
        BY <1>11, <2>1, <3>2, <4>1
    <3> QED
      BY <3>1, <3>2
  <2>4. mode \in {1, 2} /\ (mode = 2 => data = "opaque")
    BY <1>7, <2>1, <2>3 DEF Mode, Pixels
  <2>5. r[l].base = data /\ r[l].patch = None
        /\ r[l].fmt = (IF mode = 2 THEN "rgb565" ELSE "rgba4")
    BY <1>11, <2>4 DEF Packed, Defined
  <2>6. LevelOK(v[l], r[l])
    BY <1>2, <2>1, <2>5 DEF LevelOK, Claims, Packed16, Formats, None, Lost, Pixels
  <2>7. PackedOK(v[l], r[l], n, g, l)
    BY <1>2, <1>11, <2>1, <2>4, <2>5 DEF PackedOK, Packed16
  <2>8. f.mode # 0 => g.mode = f.mode
    BY <1>11
  <2>9. ASSUME NEW k \in Levels \ {l} PROVE PackedOK(v[k], r[k], n, g, k)
    BY <1>0, <1>6, <2>8 DEF PackedOK
  <2>10. ModeOK(v, n, g)
    BY <1>7, <1>11, <2>1, <2>3, <2>4 DEF ModeOK
  <2>11. ChosenOK(v, r, n, g)
    <3> SUFFICES ASSUME m.by = "storage", NEW k \in Levels, v[k].fmt = "rgba", v[k].base \in Pixels
        PROVE  r[k].fmt = IF g.mode = 2 THEN "rgb565" ELSE "rgba4"
      BY <1>8, <2>1, <2>2 DEF ChosenOK
    <3>1. CASE k = l
      BY <1>11, <2>5, <3>1
    <3>2. CASE k # l
      <4>1. m.first # None /\ s[k].fmt = IF f.mode = 2 THEN "rgb565" ELSE "rgba4"
        BY <1>0, <2>1, <2>2, <3>2 DEF ChosenOK
      <4>2. f.mode # 0
        BY <1>0, <1>4, <2>1, <2>2, <4>1 DEF ModeOK
      <4> QED
        BY <2>8, <3>2, <4>1, <4>2
    <3> QED
      BY <3>1, <3>2
  <2> QED
    BY <1>0, <1>3, <2>6, <2>7, <2>9, <2>10, <2>11 DEF TexOK
<1>12. CASE ~compacts
  <2>1. r[l] = Updated(s[l], "rgba", full, data) /\ g.mode = f.mode
    BY <1>12
  <2>2. s[l].fmt \in Packed16 => s[l].fmt = "rgba4" /\ ~full
    <3> SUFFICES ASSUME s[l].fmt \in Packed16 PROVE s[l].fmt = "rgba4" /\ ~full
      OBVIOUS
    <3>1. /\ driver.bits16 /\ f.fmt = "rgba" /\ ~f.attached /\ l < f.levels
          /\ f.mode = (IF s[l].fmt = "rgb565" THEN 2 ELSE 1)
      BY <1>0 DEF PackedOK
    <3>2. ~full
      BY <1>12, <3>1
    <3>3. s[l].fmt # "rgb565"
      BY <1>5, <1>7, <3>1, <3>2 DEF Mode, Pixels
    <3> QED
      BY <3>2, <3>3 DEF Packed16
  <2>3. s[l].fmt \in {"rgba8", "rgba4"}
    <3>1. s[l].fmt = KeptAs("rgba") \/ s[l].fmt \in Packed16
      BY <1>0, <1>1 DEF LevelOK
    <3> QED
      BY <2>2, <3>1 DEF KeptAs, Formats, Compressed
  <2>4. Takes(s[l].fmt, "rgba")
    BY <2>3 DEF Takes
  <2>5. /\ r[l].fmt = s[l].fmt
        /\ full => r[l].base = data /\ r[l].patch = None
        /\ ~full => r[l].base = s[l].base /\ r[l].patch = data
    BY <1>1, <2>1, <2>4 DEF Updated, Defined, LevelType
  <2>6. LevelOK(v[l], r[l])
    BY <1>0, <1>1, <1>2, <2>5 DEF LevelOK, Claims, Pixels, None
  <2>7. \A k \in Levels : PackedOK(v[k], r[k], n, g, k)
    <3>1. ASSUME NEW k \in Levels PROVE r[k].fmt = s[k].fmt /\ v[k].fmt = w[k].fmt
      BY <1>2, <2>5
    <3> QED
      BY <1>0, <1>6, <2>1, <3>1 DEF PackedOK
  <2>8. ModeOK(v, n, g)
    <3>1. g.mode # 0 => driver.bits16 /\ g.fmt = "rgba" /\ g.large /\ g.levels > 0
      BY <1>5, <2>1
    <3>2. g.mode # 0 => n.first # None /\ g.mode = Mode(n.first)
      BY <1>5, <2>1
    <3>3. ASSUME v[0].fmt = "rgba", n.first # None, Compactable(g) PROVE g.mode # 0
      <4>1. driver.bits16 /\ f.levels > 0 /\ Compactable(f)
        BY <1>8, <3>3 DEF Compactable
      <4>2. CASE m.first # None
        BY <1>0, <1>4, <2>1, <4>1, <4>2 DEF ModeOK
      <4>3. CASE m.first = None
        BY <1>9, <1>10, <1>12, <3>3, <4>1, <4>3
      <4> QED
        BY <4>2, <4>3
    <3> QED
      BY <1>7, <3>1, <3>2, <3>3 DEF ModeOK
  <2>9. ChosenOK(v, r, n, g)
    <3> SUFFICES ASSUME driver.bits16, m.by = "storage", NEW k \in Levels,
                        v[k].fmt = "rgba", v[k].base \in Pixels
        PROVE  r[k].fmt = IF Compactable(f) THEN (IF f.mode = 2 THEN "rgb565" ELSE "rgba4")
                          ELSE "rgba8"
      BY <1>8, <2>1 DEF ChosenOK
    <3>1. CASE k # l \/ ~full
      <4>1. w[k].fmt = "rgba" /\ w[k].base \in Pixels /\ r[k].fmt = s[k].fmt
        BY <1>2, <2>5, <3>1
      <4> QED
        BY <1>0, <4>1 DEF ChosenOK
    <3>2. CASE k = l /\ full
      <4>1. r[k].fmt = "rgba8"
        BY <2>2, <2>3, <2>5, <3>2 DEF Packed16
      <4>2. Compactable(f) => l < f.levels
        <5>1. l < m.levels
          BY <1>0, <1>1 DEF MadeOK, Claims, NoLevel
        <5>2. f.fmt = "rgba" => f.levels = m.levels
          BY <1>0 DEF MadeOK, None
        <5> QED
          BY <5>1, <5>2 DEF Compactable
      <4>3. ~Compactable(f)
        BY <1>10, <1>12, <3>2, <4>2
      <4> QED
        BY <4>1, <4>3
    <3> QED
      BY <3>1, <3>2
  <2> QED
    BY <1>0, <1>3, <2>6, <2>7, <2>8, <2>9 DEF TexOK
<1> QED
  BY <1>11, <1>12


(***************************************************************************)
(* The calls.                                                              *)
(***************************************************************************)
LEMMA TypesAre ==
    ASSUME TexturesInv
    PROVE  /\ driver \in Drivers /\ raw_alignment = unpack_alignment
           /\ bound_texture_2d \in Textures \cup {None}
           /\ record \in [DOMAIN record -> RecordType]
           /\ wanted \in [Textures -> ChainType] /\ store \in [Textures -> ChainType]
           /\ made \in [Textures -> MadeType]
BY DEF TexturesInv

\* One level is written.
LEMMA WriteOK ==
    ASSUME NEW c \in ChainType, NEW l \in Levels, NEW v \in LevelType
    PROVE  /\ [c EXCEPT ![l] = v] \in ChainType /\ [c EXCEPT ![l] = v][l] = v
           /\ \A k \in Levels \ {l} : [c EXCEPT ![l] = v][k] = c[k]
BY DEF ChainType

LEMMA DefinedIs ==
    ASSUME NEW a \in Words, NEW x \in Words
    PROVE  /\ Defined(a, x) \in LevelType /\ Defined(a, x).fmt = a
           /\ Defined(a, x).base = x /\ Defined(a, x).patch = None
BY WordsAre DEF Defined, LevelType

LEMMA LevelsHaveTypes ==
    ASSUME NEW a \in Words, NEW x \in Words, NEW s \in LevelType
    PROVE  /\ Defined(a, x) \in LevelType /\ Defined(a, x).fmt = a
           /\ Defined(a, x).base = x /\ Defined(a, x).patch = None
           /\ [s EXCEPT !.patch = x] \in LevelType
           /\ [s EXCEPT !.patch = x].fmt = s.fmt
           /\ [s EXCEPT !.patch = x].base = s.base /\ [s EXCEPT !.patch = x].patch = x
BY WordsAre DEF Defined, LevelType

\* With the driver's alignment the guest's, nothing is read askew.
LEMMA NothingGarbled ==
    ASSUME raw_alignment = unpack_alignment, NEW f, NEW data, NEW tight
    PROVE  Seen(f, data) = data /\ AlignmentAfter(tight) = unpack_alignment
BY DEF Seen, Read, AlignmentAfter

LEMMA DriverIs ==
    ASSUME NativeOnEs3, driver \in Drivers
    PROVE  /\ driver.etc2 \in BOOLEAN /\ driver.astc \in BOOLEAN
           /\ driver["etc2"] = driver.etc2 /\ driver["astc"] = driver.astc
           /\ driver.etc2 = driver.es3 /\ driver.astc = driver.es3
BY TexturesAssumption DEF NativeOnEs3

LEMMA KeptWord == ASSUME NEW f \in Formats \cup {"array"} PROVE KeptAs(f) \in Words
BY WordsAre DEF KeptAs, StoredAs, Formats, Compressed

\* glTexStorage2D.
LEMMA Storage2DKeeps ==
    ASSUME NativeOnEs3, TexturesInv, NEW f \in Formats, NEW n \in {1, 2}, NEW large \in BOOLEAN,
           TexStorage2D(f, n, large)
    PROVE  TexturesInv'
<1> SUFFICES ASSUME NEW t \in Textures, t = bound_texture_2d PROVE TexturesInv'
  BY TypesAre DEF TexStorage2D
<1> DEFINE kept == IF driver.es3 /\ f \in Compressed THEN f ELSE StoredAs(f)
           W == [l \in Levels |-> IF l < n THEN Defined(f, "undef") ELSE NoLevel]
           S == [l \in Levels |-> IF l < n THEN Defined(kept, "undef") ELSE NoLevel]
           R == StorageRecord(t, f, n, large)
<1>0. /\ made[t].levels = 0
      /\ IF driver.es3 THEN UNCHANGED record ELSE Remember(t, R)
      /\ store' = [store EXCEPT ![t] = S]
      /\ wanted' = [wanted EXCEPT ![t] = W]
      /\ made' = [made EXCEPT ![t].by = "storage", ![t].levels = n]
      /\ UNCHANGED <<driver, bound_texture_2d, unpack_alignment, raw_alignment>>
  <2>1. ~(driver.es3 /\ f \in Compressed /\ ~driver[f])
    BY DriverIs, TypesAre DEF Compressed
  <2> QED
    BY <2>1 DEF TexStorage2D
<1>1. /\ Found(t) \in RecordType /\ made[t] \in MadeType
      /\ TexOK(wanted[t], store[t], made[t], Found(t))
  BY <1>0, TypesOfOne
<1>2. kept = KeptAs(f)
  <2>1. CASE f \in Compressed
    <3>1. f # "r8" /\ StoredAs(f) = "rgba8"
      BY <2>1 DEF Compressed, StoredAs
    <3>2. driver.es3 <=> driver[f]
      BY <1>0, <2>1, DriverIs, TypesAre DEF Compressed
    <3> QED
      BY <2>1, <3>1, <3>2 DEF KeptAs
  <2>2. CASE f \notin Compressed
    BY <2>2 DEF KeptAs, StoredAs, Formats
  <2> QED
    BY <2>1, <2>2
<1>3. W \in ChainType /\ S \in ChainType
  <2>1. NoLevel \in LevelType
    BY WordsAre DEF NoLevel, LevelType
  <2>2. Defined(f, "undef") \in LevelType /\ Defined(kept, "undef") \in LevelType
    BY <1>2, <2>1, KeptWord, WordsAre, LevelsHaveTypes
  <2> HIDE DEF kept
  <2> QED
    BY <2>1, <2>2 DEF ChainType
<1>4. /\ R \in RecordType /\ R.fmt = f /\ R.levels = n /\ R.mode = 0
      /\ R.attached = Found(t).attached
  <2>1. R = [fmt |-> f, levels |-> n, large |-> large, mode |-> 0, attached |-> Found(t).attached]
    BY DEF StorageRecord
  <2>2. Found(t).attached \in BOOLEAN
    BY <1>1 DEF RecordType
  <2>3. f \in Words /\ n \in 0..2 /\ 0 \in 0..2
    BY WordsAre
  <2> HIDE DEF R
  <2> QED
    BY <2>1, <2>2, <2>3 DEF RecordType
<1> DEFINE m == [made[t] EXCEPT !.by = "storage", !.levels = n]
<1>5. /\ m \in MadeType /\ m.by = "storage" /\ m.levels = n
      /\ m.first = made[t].first /\ m.attached = made[t].attached
  <2> HIDE DEF m
  <2>1. m = [made[t] EXCEPT !.by = "storage", !.levels = n]
    BY DEF m
  <2>2. n \in 0..2 /\ "storage" \in Words
    BY WordsAre
  <2>3. m \in MadeType
    BY <1>1, <2>1, <2>2 DEF MadeType
  <2>4. /\ m.by = "storage" /\ m.levels = n /\ m.first = made[t].first
        /\ m.attached = made[t].attached
    BY <1>1, <2>1 DEF MadeType
  <2> QED
    BY <2>3, <2>4
<1>6. made' = [made EXCEPT ![t] = m]
  BY <1>0
<1> HIDE DEF m, R
<1>7. /\ wanted' \in [Textures -> ChainType] /\ store' \in [Textures -> ChainType]
      /\ made' \in [Textures -> MadeType]
      /\ wanted'[t] = W /\ store'[t] = S /\ made'[t] = m
      /\ \A x \in Textures \ {t} : /\ wanted'[x] = wanted[x] /\ store'[x] = store[x]
                                   /\ made'[x] = made[x]
  <2>1. store' = [store EXCEPT ![t] = S] /\ wanted' = [wanted EXCEPT ![t] = W]
    BY <1>0
  <2>2. m \in MadeType
    BY <1>5
  <2> HIDE DEF W, S
  <2> QED
    BY <1>3, <1>6, <2>1, <2>2, TypesAre
<1>8. /\ record' \in [DOMAIN record' -> RecordType]
      /\ Found(t)' \in {R, Found(t)} /\ \A x \in Textures \ {t} : Found(x)' = Found(x)
  <2>1. CASE driver.es3
    BY <1>0, <2>1, TypesAre DEF Found, Recorded
  <2>2. CASE ~driver.es3
    BY <1>0, <1>4, <2>2, RememberOK
  <2> QED
    BY <2>1, <2>2
<1>9. /\ made[t].first = None /\ Found(t).fmt = None /\ Found(t).mode = 0
      /\ driver.room > 0 /\ made[t].attached => Found(t).attached
  BY <1>0, <1>1 DEF TexOK, MadeOK
<1> DEFINE g == Found(t)'
<1>10. /\ g \in RecordType /\ g.mode = 0 /\ (g.fmt # None => g.levels = n)
       /\ driver.room > 0 /\ m.attached => g.attached
  BY <1>1, <1>4, <1>5, <1>8, <1>9
<1> HIDE DEF g
<1>11. TexOK(W, S, m, g)
  <2>1. \A l \in Levels :
              /\ W[l] = (IF l < n THEN Defined(f, "undef") ELSE NoLevel)
              /\ S[l] = (IF l < n THEN Defined(KeptAs(f), "undef") ELSE NoLevel)
    BY <1>2
  <2>2. m.first = None
    BY <1>5, <1>9
  <2> HIDE DEF W, S
  <2> QED
    BY <1>3, <1>5, <1>10, <2>1, <2>2, StorageOK
<1>12. TexOK(wanted'[t], store'[t], made'[t], Found(t)')
  BY <1>7, <1>11 DEF g
<1> QED
  BY <1>0, <1>7, <1>8, <1>12, TypesAre, OneTexture

\* glTexStorage3D of an array.
LEMMA Storage3DKeeps ==
    ASSUME TexturesInv, NEW n \in {1, 2}, TexStorage3D(n) PROVE TexturesInv'
<1> SUFFICES ASSUME NEW t \in Textures, t = bound_texture_2d PROVE TexturesInv'
  BY TypesAre DEF TexStorage3D
<1> DEFINE W == [l \in Levels |-> IF l < n THEN Defined("array", "undef") ELSE NoLevel]
           S == [l \in Levels |-> IF l < n THEN Defined("rgba8", "undef") ELSE NoLevel]
<1>0. /\ made[t] = NotMade
      /\ store' = [store EXCEPT ![t] = S]
      /\ wanted' = [wanted EXCEPT ![t] = W]
      /\ made' = [made EXCEPT ![t].by = "storage", ![t].levels = n]
      /\ UNCHANGED <<driver, bound_texture_2d, unpack_alignment, raw_alignment, record>>
  BY DEF TexStorage3D, state
<1>1. /\ Found(t) \in RecordType /\ made[t] \in MadeType
      /\ TexOK(wanted[t], store[t], made[t], Found(t))
  BY <1>0, TypesOfOne
<1>2. KeptAs("array") = "rgba8"
  BY DEF KeptAs, Compressed
<1>3. W \in ChainType /\ S \in ChainType
  <2>1. NoLevel \in LevelType
    BY WordsAre DEF NoLevel, LevelType
  <2>2. Defined("array", "undef") \in LevelType /\ Defined("rgba8", "undef") \in LevelType
    BY <2>1, WordsAre, LevelsHaveTypes
  <2> QED
    BY <2>1, <2>2 DEF ChainType
<1> DEFINE m == [made[t] EXCEPT !.by = "storage", !.levels = n]
<1>5. /\ m \in MadeType /\ m.by = "storage" /\ m.levels = n
      /\ m.first = made[t].first /\ m.attached = made[t].attached
  <2> HIDE DEF m
  <2>1. m = [made[t] EXCEPT !.by = "storage", !.levels = n]
    BY DEF m
  <2>2. n \in 0..2 /\ "storage" \in Words
    BY WordsAre
  <2>3. m \in MadeType
    BY <1>1, <2>1, <2>2 DEF MadeType
  <2>4. /\ m.by = "storage" /\ m.levels = n /\ m.first = made[t].first
        /\ m.attached = made[t].attached
    BY <1>1, <2>1 DEF MadeType
  <2> QED
    BY <2>3, <2>4
<1>6. made' = [made EXCEPT ![t] = m]
  BY <1>0
<1> HIDE DEF m
<1>7. /\ wanted' \in [Textures -> ChainType] /\ store' \in [Textures -> ChainType]
      /\ made' \in [Textures -> MadeType]
      /\ wanted'[t] = W /\ store'[t] = S /\ made'[t] = m
      /\ \A x \in Textures \ {t} : /\ wanted'[x] = wanted[x] /\ store'[x] = store[x]
                                   /\ made'[x] = made[x]
  <2> HIDE DEF W, S
  <2> QED
    BY <1>0, <1>3, <1>5, <1>6, TypesAre
<1>8. /\ record' \in [DOMAIN record' -> RecordType]
      /\ Found(t)' = Found(t) /\ \A x \in Textures \ {t} : Found(x)' = Found(x)
  BY <1>0, TypesAre DEF Found, Recorded
<1>9. /\ made[t].first = None /\ Found(t).fmt = None /\ Found(t).mode = 0
      /\ driver.room > 0 /\ made[t].attached => Found(t).attached
  <2>1. made[t].levels = 0
    BY <1>0 DEF NotMade
  <2> QED
    BY <1>1, <2>1 DEF TexOK, MadeOK
<1>11. TexOK(W, S, m, Found(t))
  <2>1. \A l \in Levels :
              /\ W[l] = (IF l < n THEN Defined("array", "undef") ELSE NoLevel)
              /\ S[l] = (IF l < n THEN Defined(KeptAs("array"), "undef") ELSE NoLevel)
    BY <1>2
  <2>2. m.first = None
    BY <1>5, <1>9
  <2> HIDE DEF W, S
  <2> QED
    BY <1>1, <1>3, <1>5, <1>9, <2>1, <2>2, StorageOK
<1>12. TexOK(wanted'[t], store'[t], made'[t], Found(t)')
  BY <1>7, <1>8, <1>11
<1> QED
  BY <1>0, <1>7, <1>8, <1>12, TypesAre, OneTexture


\* The history of an upload.
LEMMA AskedOK ==
    ASSUME TexturesInv, NEW t \in Textures, NEW l \in Levels, NEW f \in Words,
           NEW full \in BOOLEAN, NEW data \in Words, Asked(t, l, f, full, data)
    PROVE  /\ wanted' \in [Textures -> ChainType] /\ wanted'[t] \in ChainType
           /\ wanted'[t][l] = (IF full THEN Defined(f, data)
                               ELSE [wanted[t][l] EXCEPT !.patch = data])
           /\ \A k \in Levels \ {l} : wanted'[t][k] = wanted[t][k]
           /\ made' \in [Textures -> MadeType] /\ made'[t] \in MadeType
           /\ made'[t].by = made[t].by /\ made'[t].levels = made[t].levels
           /\ made'[t].attached = made[t].attached
           /\ made'[t].first = First(t, l, full, data)
           /\ \A x \in Textures \ {t} : wanted'[x] = wanted[x] /\ made'[x] = made[x]
<1> DEFINE v == IF full THEN Defined(f, data) ELSE [wanted[t][l] EXCEPT !.patch = data]
           first == First(t, l, full, data)
           n == [made[t] EXCEPT !.first = first]
<1>1. wanted[t] \in ChainType /\ made[t] \in MadeType
  BY TypesOfOne
<1>2. wanted[t][l] \in LevelType
  BY <1>1 DEF ChainType
<1>3. v \in LevelType
  BY <1>2, LevelsHaveTypes
<1>4. wanted' = [wanted EXCEPT ![t][l] = v]
  BY DEF Asked
<1>5. first \in Words
  BY <1>1, WordsAre DEF First, MadeType
<1>6. made' = [made EXCEPT ![t] = n]
  BY DEF Asked
<1> HIDE DEF first
<1>7. n = [made[t] EXCEPT !.first = first]
  OBVIOUS
<1> HIDE DEF v, n
<1>8. /\ n \in MadeType /\ n.by = made[t].by /\ n.levels = made[t].levels
      /\ n.attached = made[t].attached /\ n.first = first
  <2>1. n \in MadeType
    BY <1>1, <1>5, <1>7 DEF MadeType
  <2> QED
    BY <1>1, <1>7, <2>1 DEF MadeType
<1>9. /\ wanted' \in [Textures -> ChainType] /\ wanted'[t] \in ChainType /\ wanted'[t][l] = v
      /\ \A k \in Levels \ {l} : wanted'[t][k] = wanted[t][k]
      /\ \A x \in Textures \ {t} : wanted'[x] = wanted[x]
  <2> DEFINE u == [wanted[t] EXCEPT ![l] = v]
  <2>1. u \in ChainType /\ u[l] = v /\ \A k \in Levels \ {l} : u[k] = wanted[t][k]
    BY <1>1, <1>3, WriteOK
  <2>2. wanted' = [wanted EXCEPT ![t] = u] /\ wanted \in [Textures -> ChainType]
    BY <1>4, TypesAre
  <2> HIDE DEF u
  <2> QED
    BY <2>1, <2>2
<1>10. /\ made' \in [Textures -> MadeType] /\ made'[t] = n
       /\ \A x \in Textures \ {t} : made'[x] = made[x]
  BY <1>6, <1>8, TypesAre
<1> QED
  BY <1>8, <1>9, <1>10 DEF v, first

LEMMA KeepOK ==
    ASSUME TexturesInv, NEW t \in Textures, NEW l \in Levels, NEW r \in LevelType, Keep(t, l, r)
    PROVE  /\ store' \in [Textures -> ChainType] /\ store'[t] \in ChainType
           /\ store'[t][l] = r /\ \A k \in Levels \ {l} : store'[t][k] = store[t][k]
           /\ \A x \in Textures \ {t} : store'[x] = store[x]
<1> DEFINE u == [store[t] EXCEPT ![l] = r]
<1>1. u \in ChainType /\ u[l] = r /\ \A k \in Levels \ {l} : u[k] = store[t][k]
  BY TypesOfOne, WriteOK
<1>2. store' = [store EXCEPT ![t] = u] /\ store \in [Textures -> ChainType]
  BY TypesAre DEF Keep
<1> HIDE DEF u
<1> QED
  BY <1>1, <1>2

\* The level of an upload that is never packed.
LEMMA PartLevel ==
    ASSUME NEW w \in LevelType, NEW s \in LevelType, LevelOK(w, s), Claims(w), w.fmt # "rgba",
           NEW full \in BOOLEAN, NEW data \in Words, NEW given \in Words,
           NEW v, v = (IF full THEN Defined(w.fmt, data) ELSE [w EXCEPT !.patch = data]),
           NEW r,
           \/ r = s /\ data \notin Pixels
           \/ /\ given = data \/ data \notin Pixels
              /\ r = (IF full THEN Defined(s.fmt, given) ELSE [s EXCEPT !.patch = given])
    PROVE  v \in LevelType /\ r \in LevelType /\ v.fmt = w.fmt /\ LevelOK(v, r)
<1>1. w.fmt \in Words /\ s.fmt \in Words
  BY DEF LevelType
<1>2. None \notin Pixels
  BY DEF None, Pixels
<1>3. /\ v \in LevelType /\ v.fmt = w.fmt
      /\ full => v.base = data /\ v.patch = None
      /\ ~full => v.base = w.base /\ v.patch = data
  BY <1>1, LevelsHaveTypes
<1>4. CASE r = s /\ data \notin Pixels
  BY <1>2, <1>3, <1>4 DEF LevelOK, Claims
<1>5. CASE /\ given = data \/ data \notin Pixels
           /\ r = (IF full THEN Defined(s.fmt, given) ELSE [s EXCEPT !.patch = given])
  <2>1. /\ r \in LevelType /\ r.fmt = s.fmt
        /\ full => r.base = given /\ r.patch = None
        /\ ~full => r.base = s.base /\ r.patch = given
    BY <1>1, <1>5, LevelsHaveTypes
  <2> QED
    BY <1>2, <1>3, <1>5, <2>1 DEF LevelOK, Claims
<1> QED
  BY <1>4, <1>5

\* An upload that is never packed.
LEMMA PartKeeps ==
    ASSUME TexturesInv, NEW t \in Textures, NEW l \in Levels,
           NEW f \in Formats \cup {"array"}, f # "rgba", wanted[t][l].fmt = f,
           NEW full \in BOOLEAN, NEW data \in Words, NEW given \in Words,
           Asked(t, l, f, full, data),
           NEW r, Keep(t, l, r),
           \/ r = store[t][l] /\ data \notin Pixels
           \/ /\ given = data \/ data \notin Pixels
              /\ r = (IF full THEN Defined(store[t][l].fmt, given)
                      ELSE [store[t][l] EXCEPT !.patch = given]),
           UNCHANGED <<driver, bound_texture_2d, record>>, raw_alignment' = unpack_alignment'
    PROVE  TexturesInv'
<1> DEFINE w == wanted[t] s == store[t] m == made[t] g == Found(t)
           W == wanted'[t] S == store'[t] M == made'[t]
<1>1. /\ w \in ChainType /\ s \in ChainType /\ m \in MadeType /\ g \in RecordType
      /\ TexOK(w, s, m, g)
  BY TypesOfOne
<1>2. w[l] \in LevelType /\ s[l] \in LevelType /\ LevelOK(w[l], s[l])
  BY <1>1 DEF ChainType, TexOK
<1>3. f \in Words /\ Claims(w[l])
  BY WordsAre DEF Claims, Formats, Compressed, None, Lost
<1>4. /\ wanted' \in [Textures -> ChainType] /\ W \in ChainType
      /\ W[l] = (IF full THEN Defined(f, data) ELSE [w[l] EXCEPT !.patch = data])
      /\ \A k \in Levels \ {l} : W[k] = w[k]
      /\ made' \in [Textures -> MadeType] /\ M \in MadeType
      /\ M.by = m.by /\ M.levels = m.levels /\ M.attached = m.attached
      /\ M.first = First(t, l, full, data)
      /\ \A x \in Textures \ {t} : wanted'[x] = wanted[x] /\ made'[x] = made[x]
  BY <1>3, AskedOK
<1>5. W[l].fmt = w[l].fmt /\ r \in LevelType /\ LevelOK(W[l], r)
  <2> HIDE DEF w, s, W
  <2>1. w[l].fmt = f /\ store[t][l] = s[l]
    BY DEF w, s
  <2> QED
    BY <1>2, <1>3, <1>4, <2>1, PartLevel
<1>7. /\ store' \in [Textures -> ChainType] /\ S \in ChainType /\ S[l] = r
      /\ \A k \in Levels \ {l} : S[k] = s[k]
      /\ \A x \in Textures \ {t} : store'[x] = store[x]
  BY <1>5, KeepOK
<1>8. M.first = m.first \/ (l = 0 /\ m.first = None /\ M.first \in Pixels)
  BY <1>4 DEF First
<1>9. TexOK(W, S, M, g)
  <2>1. LevelOK(W[l], S[l]) /\ w[l].fmt # "rgba"
    BY <1>5, <1>7
  <2>2. \A k \in Levels \ {l} : W[k] = w[k] /\ S[k] = s[k]
    BY <1>4, <1>7
  <2>3. /\ W \in ChainType /\ S \in ChainType /\ M \in MadeType /\ W[l].fmt = w[l].fmt
        /\ M.by = m.by /\ M.levels = m.levels /\ M.attached = m.attached
    BY <1>4, <1>5, <1>7
  <2> HIDE DEF w, s, m, g, W, S, M
  <2> QED
    BY <1>1, <1>3, <1>8, <2>1, <2>2, <2>3, PartOK
<1>10. /\ record' \in [DOMAIN record' -> RecordType]
       /\ Found(t)' = g /\ \A x \in Textures \ {t} : Found(x)' = Found(x)
  BY TypesAre DEF Found, Recorded
<1>11. TexOK(wanted'[t], store'[t], made'[t], Found(t)')
  BY <1>9, <1>10
<1> QED
  BY <1>4, <1>7, <1>10, <1>11, TypesAre, OneTexture

LEMMA PixelWords == ASSUME NEW x \in Pixels \cup {"undef", "broken", Lost} PROVE x \in Words
BY WordsAre

\* glTexSubImage3D: the second layer of an array is dropped.
LEMMA SubImage3DKeeps ==
    ASSUME TexturesInv, NEW l \in Levels, NEW full \in BOOLEAN, NEW data \in Pixels,
           NEW layer \in {0, 1}, TexSubImage3D(l, full, data, layer)
    PROVE  TexturesInv'
<1> SUFFICES ASSUME NEW t \in Textures, t = bound_texture_2d PROVE TexturesInv'
  BY TypesAre DEF TexSubImage3D
<1>0. /\ wanted[t][l].fmt = "array"
      /\ Keep(t, l, IF layer = 0 THEN Updated(store[t][l], "rgba", full, data) ELSE store[t][l])
      /\ IF layer = 0 THEN Asked(t, l, "array", full, data) ELSE UNCHANGED <<wanted, made>>
      /\ UNCHANGED <<driver, bound_texture_2d, unpack_alignment, raw_alignment, record>>
  BY DEF TexSubImage3D, state
<1>1. raw_alignment' = unpack_alignment'
  BY <1>0, TypesAre
<1>2. store[t] \in ChainType /\ LevelOK(wanted[t][l], store[t][l])
  BY TypesOfOne DEF TexOK
<1>3. CASE layer = 0
  <2>1. store[t][l].fmt = "rgba8"
    BY <1>0, <1>2 DEF LevelOK, Claims, KeptAs, Compressed, None, Lost
  <2>2. Updated(store[t][l], "rgba", full, data) =
          IF full THEN Defined(store[t][l].fmt, data) ELSE [store[t][l] EXCEPT !.patch = data]
    BY <2>1 DEF Updated, Takes
  <2> DEFINE r == Updated(store[t][l], "rgba", full, data)
  <2>3. Keep(t, l, r) /\ Asked(t, l, "array", full, data) /\ data \in Words
    BY <1>0, <1>3, PixelWords
  <2>4. "array" \in Formats \cup {"array"} /\ "array" # "rgba"
    OBVIOUS
  <2> HIDE DEF r
  <2> QED
    BY <1>0, <1>1, <2>2, <2>3, <2>4, PartKeeps DEF r
<1>4. CASE layer # 0
  <2>1. store' = store
    BY <1>0, <1>2, <1>4, TypesAre DEF Keep, ChainType
  <2> QED
    BY <1>0, <1>4, <2>1 DEF TexturesInv, TexOK, LevelOK, PackedOK, ModeOK, MadeOK, ChosenOK,
       KeptAs, StoredAs, Compactable, Found, Recorded
<1> QED
  BY <1>3, <1>4


\* A level defined anew.
LEMMA ImageMadeOK ==
    ASSUME TexturesInv, NEW t \in Textures, NEW l \in Levels, NEW done \in BOOLEAN,
           ImageMade(t, l, done)
    PROVE  /\ made' \in [Textures -> MadeType] /\ made'[t] \in MadeType
           /\ made'[t].by = "images"
           /\ made'[t].levels = (IF made[t].levels <= l THEN l + 1 ELSE made[t].levels)
           /\ made'[t].first = (IF l = 0 /\ done THEN None ELSE made[t].first)
           /\ made'[t].attached = made[t].attached
           /\ \A x \in Textures \ {t} : made'[x] = made[x]
<1> DEFINE levels == IF made[t].levels <= l THEN l + 1 ELSE made[t].levels
           first == IF l = 0 /\ done THEN None ELSE made[t].first
           n == [made[t] EXCEPT !.by = "images", !.levels = levels, !.first = first]
<1>1. made[t] \in MadeType /\ made \in [Textures -> MadeType]
  BY TypesOfOne, TypesAre
<1>2. levels \in 0..2 /\ first \in Words
  BY <1>1, LevelsAre, WordsAre DEF MadeType
<1>3. made' = [made EXCEPT ![t] = n]
  BY DEF ImageMade
<1>4. n = [made[t] EXCEPT !.by = "images", !.levels = levels, !.first = first]
  OBVIOUS
<1> HIDE DEF levels, first, n
<1>5. n \in MadeType
  BY <1>1, <1>2, <1>4, WordsAre DEF MadeType
<1>6. n.by = "images" /\ n.levels = levels /\ n.first = first /\ n.attached = made[t].attached
  BY <1>1, <1>4 DEF MadeType
<1>7. /\ made' \in [Textures -> MadeType] /\ made'[t] = n
      /\ \A x \in Textures \ {t} : made'[x] = made[x]
  BY <1>1, <1>3, <1>5
<1> QED
  BY <1>5, <1>6, <1>7 DEF levels, first

\* The level of a texture made level by level, of the format f or refused.
LEMMA ImageKeeps ==
    ASSUME TexturesInv, NEW t \in Textures, NEW l \in Levels, NEW f \in Formats,
           Respecifies(t, l, f), NEW v \in LevelType, NEW r \in LevelType, NEW done \in BOOLEAN,
           v.fmt \in {f, Lost}, LevelOK(v, r),
           wanted' = [wanted EXCEPT ![t][l] = v], Keep(t, l, r), ImageMade(t, l, done),
           UNCHANGED <<driver, bound_texture_2d>>, raw_alignment' = unpack_alignment',
           record' \in [DOMAIN record' -> RecordType], Found(t)' \in RecordType,
           \A x \in Textures \ {t} : Found(x)' = Found(x),
           \/ Found(t)' = Found(t)
           \/ l = 0 /\ Found(t)'.mode = 0 /\ Found(t)'.attached = Found(t).attached,
           v.fmt = "rgba" => done /\ (l = 0 => Found(t)'.mode = 0),
           \/ r.fmt \notin Packed16
           \/ r = store[t][l] /\ v.fmt = Lost /\ Found(t)' = Found(t) /\ ~done
    PROVE  TexturesInv'
<1> DEFINE w == wanted[t] s == store[t] m == made[t] g == Found(t) G == Found(t)'
           W == wanted'[t] S == store'[t] M == made'[t]
<1>1. /\ w \in ChainType /\ s \in ChainType /\ m \in MadeType /\ g \in RecordType
      /\ TexOK(w, s, m, g)
  BY TypesOfOne
<1>2. /\ wanted' \in [Textures -> ChainType] /\ W \in ChainType /\ W[l] = v
      /\ \A k \in Levels \ {l} : W[k] = w[k]
      /\ \A x \in Textures \ {t} : wanted'[x] = wanted[x]
  <2> DEFINE u == [wanted[t] EXCEPT ![l] = v]
  <2>1. u \in ChainType /\ u[l] = v /\ \A k \in Levels \ {l} : u[k] = wanted[t][k]
    BY <1>1, WriteOK
  <2>2. wanted' = [wanted EXCEPT ![t] = u] /\ wanted \in [Textures -> ChainType]
    BY TypesAre
  <2> HIDE DEF u
  <2> QED
    BY <2>1, <2>2
<1>3. /\ store' \in [Textures -> ChainType] /\ S \in ChainType /\ S[l] = r
      /\ \A k \in Levels \ {l} : S[k] = s[k]
      /\ \A x \in Textures \ {t} : store'[x] = store[x]
  BY KeepOK
<1>4. /\ made' \in [Textures -> MadeType] /\ M \in MadeType
      /\ M.by = "images"
      /\ M.levels = (IF m.levels <= l THEN l + 1 ELSE m.levels)
      /\ M.first = (IF l = 0 /\ done THEN None ELSE m.first)
      /\ M.attached = m.attached
      /\ \A x \in Textures \ {t} : made'[x] = made[x]
  BY ImageMadeOK
<1>5. /\ m.by # "storage" /\ (driver.bits16 => l = 0)
      /\ m.levels > 0 => \A k \in Levels \ {l} : w[k].fmt \in {None, Lost, f}
  BY DEF Respecifies
<1>6. driver.room > 0 /\ m.attached => g.attached
  BY <1>1 DEF TexOK, MadeOK
<1>7. /\ G = g \/ (l = 0 /\ G.mode = 0 /\ (driver.room > 0 /\ m.attached => G.attached))
      /\ G \in RecordType
  BY <1>6
<1>8. /\ M.first = m.first \/ (l = 0 /\ M.first = None)
      /\ l = 0 /\ W[l].fmt = "rgba" => G.mode = 0 /\ M.first = None
      /\ \/ S[l].fmt \notin Packed16
         \/ S[l] = s[l] /\ W[l].fmt = Lost /\ G = g /\ M.first = m.first
      /\ W[l].fmt \in {f, Lost} /\ LevelOK(W[l], S[l])
  BY <1>2, <1>3, <1>4
<1>9. TexOK(W, S, M, G)
  <2>1. \A k \in Levels \ {l} : W[k] = w[k] /\ S[k] = s[k]
    BY <1>2, <1>3
  <2>2. W \in ChainType /\ S \in ChainType
    BY <1>2, <1>3
  <2> HIDE DEF w, s, m, g, G, W, S, M
  <2> QED
    BY <1>1, <1>4, <1>5, <1>7, <1>8, <2>1, <2>2, ImageOK
<1>10. TexOK(wanted'[t], store'[t], made'[t], Found(t)')
  BY <1>9
<1> QED
  BY <1>2, <1>3, <1>4, <1>10, TypesAre, OneTexture

\* glTexImage2D.
LEMMA TexImage2DKeeps ==
    ASSUME TexturesInv, NEW l \in Levels, NEW f \in Formats \ Compressed,
           NEW data \in Pixels \cup {"undef"}, NEW large \in BOOLEAN, TexImage2D(l, f, data, large)
    PROVE  TexturesInv'
<1> SUFFICES ASSUME NEW t \in Textures, t = bound_texture_2d PROVE TexturesInv'
  BY TypesAre DEF TexImage2D
<1> DEFINE v == Defined(f, data) r == Defined(StoredAs(f), data)
           levels == IF Found(t).levels < 1 THEN 1 ELSE Found(t).levels
           R == [Found(t) EXCEPT !.fmt = f, !.large = large, !.mode = 0, !.levels = levels]
<1>0. /\ Respecifies(t, l, f)
      /\ Keep(t, l, Defined(StoredAs(f), Seen(f, data)))
      /\ IF l # 0 THEN UNCHANGED record ELSE Remember(t, R)
      /\ wanted' = [wanted EXCEPT ![t][l] = v] /\ ImageMade(t, l, TRUE)
      /\ raw_alignment' = AlignmentAfter(Expanded(f, data))
      /\ UNCHANGED <<driver, bound_texture_2d, unpack_alignment>>
  BY DEF TexImage2D
<1>1. Keep(t, l, r) /\ raw_alignment' = unpack_alignment'
  BY <1>0, TypesAre, NothingGarbled
<1>2. Found(t) \in RecordType
  BY TypesOfOne
<1>3. f \in Words /\ data \in Words /\ StoredAs(f) \in Words
  <2>1. KeptAs(f) = StoredAs(f)
    BY DEF KeptAs, StoredAs
  <2> QED
    BY <2>1, KeptWord, WordsAre
<1>4. /\ v \in LevelType /\ v.fmt = f /\ v.base = data /\ v.patch = None
      /\ r \in LevelType /\ r.fmt = StoredAs(f) /\ r.base = data /\ r.patch = None
  BY <1>3, DefinedIs
<1>5. LevelOK(v, r) /\ r.fmt \notin Packed16
  BY <1>4 DEF LevelOK, Claims, KeptAs, StoredAs, Packed16, Formats, None, Lost, Pixels
<1>6. R \in RecordType /\ R.mode = 0 /\ R.attached = Found(t).attached
  <2>1. R = [Found(t) EXCEPT !.fmt = f, !.large = large, !.mode = 0, !.levels = levels]
    OBVIOUS
  <2>2. levels \in 0..2 /\ 0 \in 0..2
    BY <1>2 DEF RecordType
  <2> HIDE DEF R, levels
  <2>3. R \in RecordType
    BY <1>2, <1>3, <2>1, <2>2 DEF RecordType
  <2>4. R.mode = 0 /\ R.attached = Found(t).attached
    BY <1>2, <2>1 DEF RecordType
  <2> QED
    BY <2>3, <2>4
<1> HIDE DEF v, r, R
<1>7. /\ record' \in [DOMAIN record' -> RecordType]
      /\ \A x \in Textures \ {t} : Found(x)' = Found(x)
      /\ Found(t)' = Found(t) \/ (l = 0 /\ Found(t)' = R)
      /\ l = 0 /\ Found(t)' # R => Found(t)' = NoRecord
  <2>1. CASE l # 0
    BY <1>0, <2>1, TypesAre DEF Found, Recorded
  <2>2. CASE l = 0
    <3>1. /\ record' \in [DOMAIN record' -> RecordType]
          /\ Found(t)' = IF Recorded(t) \/ driver.room > 0 THEN R ELSE Found(t)
          /\ \A x : x # t => Found(x)' = Found(x)
      BY <1>0, <1>6, <2>2, RememberOK
    <3>2. ~Recorded(t) => Found(t) = NoRecord
      BY DEF Found
    <3> QED
      BY <2>2, <3>1, <3>2
  <2> QED
    BY <2>1, <2>2
<1> DEFINE G == Found(t)'
<1>8. /\ G \in RecordType
      /\ G = Found(t) \/ (l = 0 /\ G.mode = 0 /\ G.attached = Found(t).attached)
      /\ l = 0 => G.mode = 0
  BY <1>2, <1>6, <1>7 DEF NoRecord
<1>9. TRUE \in BOOLEAN
  OBVIOUS
<1> QED
  BY <1>0, <1>1, <1>4, <1>5, <1>7, <1>8, <1>9, ImageKeeps


\* glTexSubImage2D of one channel, or of colour pixels.
LEMMA RedPartKeeps ==
    ASSUME TexturesInv, NEW l \in Levels, NEW full \in BOOLEAN, NEW data \in Pixels,
           TexSubImage2D(l, "r8", full, data)
    PROVE  TexturesInv'
<1> SUFFICES ASSUME NEW t \in Textures, t = bound_texture_2d PROVE TexturesInv'
  BY TypesAre DEF TexSubImage2D
<1> DEFINE r == Updated(store[t][l], Sent("r8"), full, data)
<1>0. /\ wanted[t][l].fmt = "r8" /\ Asked(t, l, "r8", full, data)
      /\ Keep(t, l, Updated(store[t][l], Sent("r8"), full, Seen("r8", data)))
      /\ UNCHANGED record
      /\ \E tight : raw_alignment' = AlignmentAfter(tight)
      /\ UNCHANGED <<driver, bound_texture_2d, unpack_alignment>>
  <2>1. ~Compacts(t, l, "r8", full, data)
    BY DEF Compacts
  <2> QED
    BY <2>1 DEF TexSubImage2D
<1>1. Keep(t, l, r) /\ raw_alignment' = unpack_alignment'
  BY <1>0, TypesAre, NothingGarbled
<1>2. LevelOK(wanted[t][l], store[t][l])
  BY TypesOfOne DEF TexOK
<1>3. Takes(store[t][l].fmt, Sent("r8"))
  BY <1>0, <1>2 DEF LevelOK, Claims, KeptAs, StoredAs, Sent, Takes, None, Lost
<1>4. r = IF full THEN Defined(store[t][l].fmt, data) ELSE [store[t][l] EXCEPT !.patch = data]
  BY <1>3 DEF Updated
<1>5. "r8" \in Formats \cup {"array"} /\ "r8" # "rgba" /\ data \in Words
  BY PixelWords DEF Formats
<1> HIDE DEF r
<1> QED
  BY <1>0, <1>1, <1>4, <1>5, PartKeeps

LEMMA ColourPartKeeps ==
    ASSUME TexturesInv, NEW l \in Levels, NEW full \in BOOLEAN, NEW data \in Pixels,
           TexSubImage2D(l, "rgba", full, data)
    PROVE  TexturesInv'
<1> SUFFICES ASSUME NEW t \in Textures, t = bound_texture_2d PROVE TexturesInv'
  BY TypesAre DEF TexSubImage2D
<1> DEFINE mode == Chosen(Found(t), data)
           compacts == Packs(Found(t), l, full)
           r == IF compacts THEN Packed(mode, data)
                ELSE Updated(store[t][l], "rgba", full, data)
           R == [Found(t) EXCEPT !.mode = IF compacts THEN mode ELSE @]
           w == wanted[t] s == store[t] m == made[t] g == Found(t)
           W == wanted'[t] S == store'[t] M == made'[t] G == Found(t)'
<1>p. Compacts(t, l, "rgba", full, data) <=> compacts
  BY DEF Compacts, Packs, IsFull
<1>0. /\ wanted[t][l].fmt = "rgba" /\ Asked(t, l, "rgba", full, data)
      /\ Steady(t, l, full, data)
      /\ IF compacts THEN record' = [record EXCEPT ![t].mode = mode] ELSE UNCHANGED record
      /\ \E tight : raw_alignment' = AlignmentAfter(tight)
      /\ UNCHANGED <<driver, bound_texture_2d, unpack_alignment>>
  BY <1>p DEF TexSubImage2D, Chosen
<1>1. Keep(t, l, r) /\ raw_alignment' = unpack_alignment'
  <2>1. Seen("rgba", data) = data /\ Sent("rgba") = "rgba"
    BY TypesAre, NothingGarbled DEF Sent
  <2>2. Keep(t, l, r)
    BY <1>p, <2>1 DEF TexSubImage2D, Chosen
  <2>3. \A tight : AlignmentAfter(tight) = unpack_alignment
    BY TypesAre, NothingGarbled
  <2> QED
    BY <1>0, <2>2, <2>3
<1>2. /\ w \in ChainType /\ s \in ChainType /\ m \in MadeType /\ g \in RecordType
      /\ TexOK(w, s, m, g)
  BY TypesOfOne
<1>3. "rgba" \in Words /\ data \in Words
  BY PixelWords, WordsAre DEF Formats
<1>4. /\ wanted' \in [Textures -> ChainType] /\ W \in ChainType
      /\ W[l] = (IF full THEN Defined("rgba", data) ELSE [w[l] EXCEPT !.patch = data])
      /\ \A k \in Levels \ {l} : W[k] = w[k]
      /\ made' \in [Textures -> MadeType] /\ M \in MadeType
      /\ M.by = m.by /\ M.levels = m.levels /\ M.attached = m.attached
      /\ M.first = First(t, l, full, data)
      /\ \A x \in Textures \ {t} : wanted'[x] = wanted[x] /\ made'[x] = made[x]
  BY <1>0, <1>3, AskedOK
<1>5. First(t, l, full, data) = IF l = 0 /\ full /\ m.first = None THEN data ELSE m.first
  BY DEF First
<1>6. driver.bits16 => M.first # None /\ (M.first = "opaque" => full /\ data = "opaque")
  BY <1>0, <1>4 DEF Steady
<1>8. mode \in 0..2 /\ compacts \in BOOLEAN
  <2>1. Mode(data) \in 0..2
    BY DEF Mode
  <2>2. mode \in 0..2
    BY <1>2, <2>1 DEF RecordType, Chosen
  <2>3. compacts \in BOOLEAN
    BY DEF Packs
  <2> QED
    BY <2>2, <2>3
<1>9. r \in LevelType
  <2>1. Packed(mode, data) \in LevelType
    <3>1. "rgba4" \in Words /\ "rgb565" \in Words /\ "flat" \in Words /\ None \in Words
      BY WordsAre
    <3> QED
      BY <1>3, <3>1 DEF Packed, Defined, LevelType
  <2>2. Updated(s[l], "rgba", full, data) \in LevelType
    <3>1. s[l] \in LevelType /\ s[l].fmt \in Words
      BY <1>2 DEF ChainType, LevelType
    <3> QED
      BY <1>3, <3>1, LevelsHaveTypes DEF Updated
  <2> QED
    BY <2>1, <2>2
<1> HIDE DEF r
<1>10. /\ store' \in [Textures -> ChainType] /\ S \in ChainType /\ S[l] = r
       /\ \A k \in Levels \ {l} : S[k] = s[k]
       /\ \A x \in Textures \ {t} : store'[x] = store[x]
  BY <1>1, <1>9, KeepOK
<1>11. /\ R \in RecordType /\ R.fmt = g.fmt /\ R.large = g.large /\ R.levels = g.levels
       /\ R.attached = g.attached /\ R.mode = (IF compacts THEN mode ELSE g.mode)
  <2> DEFINE to == IF compacts THEN mode ELSE g.mode
  <2>1. to \in 0..2 /\ R = [g EXCEPT !.mode = to]
    BY <1>2, <1>8 DEF RecordType
  <2> HIDE DEF to, R
  <2>2. R \in RecordType
    BY <1>2, <2>1 DEF RecordType
  <2>3. /\ R.fmt = g.fmt /\ R.large = g.large /\ R.levels = g.levels
        /\ R.attached = g.attached /\ R.mode = to
    BY <1>2, <2>1 DEF RecordType
  <2> QED
    BY <2>2, <2>3 DEF to
<1>12. /\ record' \in [DOMAIN record' -> RecordType]
       /\ G = R /\ \A x \in Textures \ {t} : Found(x)' = Found(x)
  <2>1. record \in [DOMAIN record -> RecordType]
    BY TypesAre
  <2>2. CASE compacts
    <3>1. Recorded(t) /\ Found(t) = record[t]
      BY <2>2 DEF Packs, Found, NoRecord, None
    <3>2. record' = [record EXCEPT ![t] = R]
      BY <1>0, <2>2, <3>1
    <3> HIDE DEF R
    <3>3. DOMAIN record' = DOMAIN record /\ record'[t] = R
          /\ \A x \in DOMAIN record \ {t} : record'[x] = record[x]
      BY <2>1, <3>1, <3>2 DEF Recorded
    <3>4. record' \in [DOMAIN record' -> RecordType]
      BY <1>11, <2>1, <3>2, <3>3
    <3> QED
      BY <3>1, <3>3, <3>4 DEF Found, Recorded
  <2>3. CASE ~compacts
    <3>1. record' = record
      BY <1>0, <2>3
    <3>2. R = Found(t)
      BY <1>2, <2>3 DEF RecordType
    <3> QED
      BY <2>1, <3>1, <3>2 DEF Found, Recorded
  <2> QED
    BY <2>2, <2>3
<1>13. S[l] = IF compacts THEN Packed(mode, data) ELSE Updated(s[l], "rgba", full, data)
  BY <1>10 DEF r
<1> HIDE DEF R
<1>15. TexOK(W, S, M, G)
  <2>1. \A k \in Levels \ {l} : W[k] = w[k] /\ S[k] = s[k]
    BY <1>4, <1>10
  <2>2. /\ W \in ChainType /\ S \in ChainType /\ M \in MadeType /\ G \in RecordType
        /\ M.by = m.by /\ M.levels = m.levels /\ M.attached = m.attached
    BY <1>4, <1>10, <1>11, <1>12
  <2>3. /\ G.fmt = g.fmt /\ G.large = g.large /\ G.levels = g.levels
        /\ G.attached = g.attached /\ G.mode = (IF compacts THEN mode ELSE g.mode)
    BY <1>11, <1>12
  <2>4. M.first = IF l = 0 /\ full /\ m.first = None THEN data ELSE m.first
    BY <1>4, <1>5
  <2>5. w[l].fmt = "rgba"
    BY <1>0
  <2>6. W[l] = (IF full THEN Defined("rgba", data) ELSE [w[l] EXCEPT !.patch = data])
    BY <1>4
  <2>7. ColourUpload(w, s, m, g, l, full, data, W, S, M, G)
    BY <1>6, <1>13, <2>1, <2>2, <2>3, <2>4, <2>6 DEF ColourUpload
  <2> HIDE DEF w, s, m, g, W, S, M, G
  <2> QED
    BY <1>2, <2>2, <2>5, <2>7, ColourOK
<1> QED
  BY <1>0, <1>1, <1>4, <1>10, <1>12, <1>15, TypesAre, OneTexture


LEMMA CompressedAre ==
    ASSUME NEW f \in Compressed
    PROVE  /\ f \in Formats /\ f \in Words /\ f \notin Packed16
           /\ f \notin {"rgba", "r8", "la", "rgba8", "array", None, Lost}
           /\ KeptAs(f) = IF driver[f] THEN f ELSE "rgba8"
BY WordsAre DEF Compressed, Formats, Packed16, KeptAs, None, Lost

\* glCompressedTexImage2D, as it is, decoded, or refused.
LEMMA CompressedImageKeeps ==
    ASSUME TexturesInv, NEW l \in Levels, NEW f \in Compressed, NEW data \in Pixels \cup {"broken"},
           CompressedTexImage2D(l, f, data)
    PROVE  TexturesInv'
<1> SUFFICES ASSUME NEW t \in Textures, t = bound_texture_2d PROVE TexturesInv'
  BY TypesAre DEF CompressedTexImage2D
<1> DEFINE done == Decodes(f, data)
           v == Defined(IF done THEN f ELSE Lost, Claimed(f, data))
           r == IF driver[f] THEN Defined(f, data)
                ELSE IF done THEN Defined("rgba8", data)
                ELSE IF f = "astc" THEN Defined("rgba8", "undef") ELSE store[t][l]
<1>0. /\ Respecifies(t, l, f) /\ Keep(t, l, r)
      /\ wanted' = [wanted EXCEPT ![t][l] = v] /\ ImageMade(t, l, done)
      /\ UNCHANGED <<driver, bound_texture_2d, unpack_alignment, raw_alignment, record>>
  BY DEF CompressedTexImage2D
<1>1. done \in BOOLEAN /\ (done => Claimed(f, data) = data) /\ (~done => Claimed(f, data) = Lost)
  BY DEF Decodes, Claimed
<1> HIDE DEF done
<1>2. /\ f \in Formats /\ f \in Words /\ f \notin Packed16
      /\ f \notin {"rgba", "r8", "la", "rgba8", "array", None, Lost}
      /\ KeptAs(f) = IF driver[f] THEN f ELSE "rgba8"
  BY CompressedAre
<1>3. /\ data \in Words /\ Lost \in Words /\ "rgba8" \in Words /\ "undef" \in Words
      /\ Lost \notin Pixels /\ None \notin Pixels /\ "rgba8" \notin Packed16
  BY PixelWords, WordsAre DEF Lost, None, Pixels, Packed16
<1>4. /\ v \in LevelType /\ v.fmt = (IF done THEN f ELSE Lost) /\ v.patch = None
      /\ v.base = (IF done THEN data ELSE Lost)
  BY <1>1, <1>2, <1>3, DefinedIs
<1>5. store[t] \in ChainType
  BY TypesOfOne
<1> HIDE DEF v
<1>7. /\ r \in LevelType
      /\ done => r.fmt = KeptAs(f) /\ r.base = data
      /\ r.fmt \notin Packed16 \/ (r = store[t][l] /\ ~done)
  <2>1. CASE driver[f]
    <3>1. r = Defined(f, data)
      BY <2>1
    <3> HIDE DEF r
    <3> QED
      BY <1>2, <1>3, <2>1, <3>1, DefinedIs
  <2>2. CASE ~driver[f] /\ done
    <3>1. r = Defined("rgba8", data)
      BY <2>2
    <3> HIDE DEF r
    <3> QED
      BY <1>2, <1>3, <2>2, <3>1, DefinedIs
  <2>3. CASE ~driver[f] /\ ~done /\ f = "astc"
    <3>1. r = Defined("rgba8", "undef")
      BY <2>3
    <3> HIDE DEF r
    <3> QED
      BY <1>3, <2>3, <3>1, DefinedIs
  <2>4. CASE ~driver[f] /\ ~done /\ f # "astc"
    <3>1. r = store[t][l]
      BY <2>4
    <3> HIDE DEF r
    <3> QED
      BY <1>5, <2>4, <3>1 DEF ChainType
  <2> QED
    BY <1>1, <2>1, <2>2, <2>3, <2>4
<1> HIDE DEF r
<1>8. LevelOK(v, r)
  BY <1>2, <1>3, <1>4, <1>7 DEF LevelOK, Claims
<1>9. /\ record' \in [DOMAIN record' -> RecordType]
      /\ Found(t)' = Found(t) /\ \A x \in Textures \ {t} : Found(x)' = Found(x)
  BY <1>0, TypesAre DEF Found, Recorded
<1>10. Found(t)' \in RecordType
  BY <1>9, TypesOfOne
<1>11. /\ v.fmt \in {f, Lost} /\ v.fmt # "rgba"
       /\ r.fmt \notin Packed16 \/ (r = store[t][l] /\ v.fmt = Lost /\ ~done)
  BY <1>2, <1>4, <1>7 DEF Lost
<1>12. raw_alignment' = unpack_alignment'
  BY <1>0, TypesAre
<1> QED
  BY <1>0, <1>1, <1>2, <1>4, <1>7, <1>8, <1>9, <1>10, <1>11, <1>12, ImageKeeps

\* glCompressedTexSubImage2D.
LEMMA CompressedPartKeeps ==
    ASSUME TexturesInv, NEW l \in Levels, NEW full \in BOOLEAN, NEW f \in Compressed,
           NEW data \in Pixels \cup {"broken"}, CompressedTexSubImage2D(l, f, full, data)
    PROVE  TexturesInv'
<1> SUFFICES ASSUME NEW t \in Textures, t = bound_texture_2d PROVE TexturesInv'
  BY TypesAre DEF CompressedTexSubImage2D
<1> DEFINE done == Decodes(f, data)
           claimed == Claimed(f, data)
           r == IF driver[f] \/ done THEN Updated(store[t][l], PixelsOfPart(f), full, data)
                ELSE store[t][l]
<1>0. /\ wanted[t][l].fmt = f /\ Keep(t, l, r) /\ Asked(t, l, f, full, claimed)
      /\ UNCHANGED <<driver, bound_texture_2d, unpack_alignment, raw_alignment, record>>
  BY DEF CompressedTexSubImage2D
<1>1. /\ claimed = data \/ (claimed = Lost /\ ~done)
      /\ claimed \in Words /\ data \in Words /\ Lost \notin Pixels
  BY PixelWords DEF Decodes, Claimed, Lost, Pixels
<1> HIDE DEF done, claimed
<1>2. /\ f \in Formats /\ f \notin {"rgba", "r8", "la", "rgba8", "array", None, Lost}
      /\ KeptAs(f) = IF driver[f] THEN f ELSE "rgba8"
  BY CompressedAre
<1>3. LevelOK(wanted[t][l], store[t][l])
  BY TypesOfOne DEF TexOK
<1>4. store[t][l].fmt = KeptAs(f)
  BY <1>0, <1>2, <1>3 DEF LevelOK, Claims
<1>5. Takes(store[t][l].fmt, PixelsOfPart(f))
  <2>1. CASE driver[f]
    BY <1>2, <1>4, <2>1 DEF PixelsOfPart, Takes
  <2>2. CASE ~driver[f]
    BY <1>2, <1>4, <2>2 DEF PixelsOfPart, Takes
  <2> QED
    BY <2>1, <2>2
<1>6. \/ r = store[t][l] /\ claimed \notin Pixels
      \/ /\ data = claimed \/ claimed \notin Pixels
         /\ r = (IF full THEN Defined(store[t][l].fmt, data)
                 ELSE [store[t][l] EXCEPT !.patch = data])
  <2>1. CASE driver[f] \/ done
    BY <1>1, <1>5, <2>1 DEF Updated
  <2>2. CASE ~(driver[f] \/ done)
    <3>1. r = store[t][l]
      BY <2>2
    <3>2. claimed \notin Pixels
      <4>1. CASE claimed = Lost
        BY <1>1, <4>1
      <4>2. CASE claimed = data
        BY <1>1, <2>2, <4>2 DEF done, claimed, Claimed
      <4> QED
        BY <1>1, <4>1, <4>2
    <3> QED
      BY <3>1, <3>2
  <2> QED
    BY <2>1, <2>2
<1> HIDE DEF r
<1>7. raw_alignment' = unpack_alignment'
  BY <1>0, TypesAre
<1>8. f \in Formats \cup {"array"} /\ f # "rgba"
  BY <1>2
<1> QED
  BY <1>0, <1>1, <1>6, <1>7, <1>8, PartKeeps

LEMMA TexturesStart == TexturesInit => TexturesInv
<1> SUFFICES ASSUME TexturesInit PROVE TexturesInv
  OBVIOUS
<1>1. /\ driver \in Drivers /\ raw_alignment = unpack_alignment
      /\ bound_texture_2d \in Textures \cup {None}
      /\ record = [t \in {} |-> NoRecord]
      /\ store = [t \in Textures |-> NoLevels] /\ wanted = [t \in Textures |-> NoLevels]
      /\ made = [t \in Textures |-> NotMade]
  BY DEF TexturesInit
<1>2. /\ DOMAIN record = {} /\ record \in [DOMAIN record -> RecordType]
  BY <1>1
<1>3. \A t : Found(t) = NoRecord
  BY <1>2 DEF Found, Recorded
<1>4. /\ wanted \in [Textures -> ChainType] /\ store \in [Textures -> ChainType]
      /\ made \in [Textures -> MadeType]
  BY <1>1, FreshOK
<1>5. \A t \in Textures : TexOK(wanted[t], store[t], made[t], Found(t))
  BY <1>1, <1>3, FreshOK
<1> QED
  BY <1>1, <1>2, <1>4, <1>5 DEF TexturesInv

LEMMA TexturesSteps ==
    ASSUME NativeOnEs3, TexturesInv, [TexturesNext]_textureVars PROVE TexturesInv'
<1>1. CASE UNCHANGED textureVars
  BY <1>1 DEF textureVars, state, TexturesInv, TexOK, LevelOK, PackedOK, ModeOK, MadeOK, ChosenOK,
     KeptAs, StoredAs, Compactable, Found, Recorded
<1>2. ASSUME NEW t \in Textures, BindTexture(t) \/ DeleteTextures(t) \/ AttachTexture(t)
      PROVE  TexturesInv'
  BY <1>2, BindKeeps, DeleteKeeps, AttachTextureKeeps
<1>3. ASSUME NEW a \in Alignments, PixelStorei(a) PROVE TexturesInv'
  BY <1>3, PixelStoreKeeps
<1>4. ASSUME NEW n \in {1, 2}, TexStorage3D(n) PROVE TexturesInv'
  BY <1>4, Storage3DKeeps
<1>5. ASSUME NEW n \in {1, 2}, NEW f \in Formats, NEW large \in BOOLEAN, TexStorage2D(f, n, large)
      PROVE  TexturesInv'
  BY <1>5, Storage2DKeeps
<1>6. ASSUME NEW l \in Levels, NEW data \in Pixels, NEW full \in BOOLEAN, NEW layer \in {0, 1},
             TexSubImage3D(l, full, data, layer)
      PROVE  TexturesInv'
  BY <1>6, SubImage3DKeeps
<1>7. ASSUME NEW l \in Levels, NEW data \in Pixels, NEW full \in BOOLEAN,
             NEW f \in Formats \ Compressed, TexSubImage2D(l, f, full, data)
      PROVE  TexturesInv'
  <2>1. f = "rgba" \/ f = "r8"
    BY DEF Formats
  <2> QED
    BY <1>7, <2>1, RedPartKeeps, ColourPartKeeps
<1>8. ASSUME NEW l \in Levels, NEW data \in Pixels \cup {"undef"}, NEW large \in BOOLEAN,
             NEW f \in Formats \ Compressed, TexImage2D(l, f, data, large)
      PROVE  TexturesInv'
  BY <1>8, TexImage2DKeeps
<1>9. ASSUME NEW l \in Levels, NEW f \in Compressed, NEW data \in Pixels \cup {"broken"},
             CompressedTexImage2D(l, f, data)
      PROVE  TexturesInv'
  BY <1>9, CompressedImageKeeps
<1>10. ASSUME NEW l \in Levels, NEW f \in Compressed, NEW data \in Pixels \cup {"broken"},
              NEW full \in BOOLEAN, CompressedTexSubImage2D(l, f, full, data)
       PROVE  TexturesInv'
  BY <1>10, CompressedPartKeeps
<1> QED
  BY <1>1, <1>2, <1>3, <1>4, <1>5, <1>6, <1>7, <1>8, <1>9, <1>10 DEF TexturesNext

\* Whatever is uploaded and however it is rewritten on its way to the driver,
\* every texture holds what the guest last put there, in a format that samples
\* as the guest's, and a chain the guest has filled has one format.  The
\* GLES3 drivers, and only they, take the compressed formats themselves.
THEOREM TexturesAreServed == NativeOnEs3 => (TexturesSpec => []TexturesServed)
<1>1. TexturesInv => TexturesServed
  <2> SUFFICES ASSUME TexturesInv PROVE TexturesServed
    OBVIOUS
  <2>1. ASSUME NEW t \in Textures
        PROVE  /\ \A l \in Levels :
                     /\ wanted[t][l].base \in Pixels =>
                          store[t][l].base = wanted[t][l].base
                          /\ Serves(store[t][l].fmt, wanted[t][l].fmt)
                     /\ wanted[t][l].patch \in Pixels =>
                          store[t][l].patch = wanted[t][l].patch
                     /\ driver.room > 0 /\ made[t].attached =>
                          store[t][l].fmt \notin {"rgb565", "rgba4"}
               /\ LET chain == {l \in Levels : l < made[t].levels}
                  IN (\A l \in chain : wanted[t][l].base \in Pixels) =>
                        \A k, l \in chain : store[t][k].fmt = store[t][l].fmt
    BY TypesOfOne, ServedOne DEF Packed16
  <2>2. LevelsKept
    BY <2>1 DEF LevelsKept
  <2>3. ChainWhole
    BY <2>1 DEF ChainWhole
  <2> QED
    BY <2>2, <2>3 DEF TexturesServed
<1>2. ASSUME NativeOnEs3 PROVE TexturesInv /\ [TexturesNext]_textureVars => TexturesInv'
  BY <1>2, TexturesSteps
<1> SUFFICES ASSUME NativeOnEs3 PROVE TexturesSpec => []TexturesServed
  OBVIOUS
<1> QED
  BY <1>1, <1>2, TexturesStart, PTL DEF TexturesSpec
===============================================================================
