----------------------------- MODULE FrameProof -----------------------------
(***************************************************************************)
(* The proof that an image reaches the panel (nxgl_frame_proof_adapter.c), *)
(* the health receipt (health.c) and the two threads that meet in them:    *)
(* the render thread, which samples the frame before it flips the page and *)
(* publishes the receipts, and the thread of the frame loop (main.c),      *)
(* which looks for a conclusive verdict after every nativeRender and then  *)
(* revokes the health receipt and closes with status 72.                   *)
(*                                                                         *)
(* The guard of the adapter never waits: whoever finds it taken is         *)
(* refused.  A publication is cut where its outcome can be seen from       *)
(* outside or where it can fail: temporary file, rename, sync, revocation. *)
(***************************************************************************)
EXTENDS Integers

CONSTANTS
    First, Second, Third, Recurring, \* the sampling schedule: 30, 120, 600, 1800
    Streak,        \* NXGL_FP_FATAL_STREAK
    HealthAfter,   \* page flips before the health receipt: 30
    Environments,  \* what the launcher handed over
    MaxFrames,     \* bound: frames presented
    MaxFaults      \* bound: failures of the file system

\* Every sample after the second is one of those a receipt follows.
ASSUME FrameProofAssumption ==
    /\ {First, Second, Third, Recurring, Streak, HealthAfter} \subseteq Nat \ {0}
    /\ First < Second /\ Second < Third /\ Third < Recurring /\ HealthAfter <= First
    /\ Streak > 1
    /\ MaxFrames \in Nat /\ MaxFaults \in Nat

VARIABLES
    env,          \* the launch
    adapter_lock, \* g_adapter_lock: the thread inside the adapter
    pc,           \* where each thread is
    job,          \* the publication in progress: a verdict and its next step
    proof,        \* g_video_proof_state
    verdict,      \* g_fatal_verdict
    fatal,        \* g_fatal_active
    pending,      \* g_fatal_close_pending
    black, dead,  \* g_black_streak, g_dead_streak, up to Streak
    frames,       \* g_frames_presented
    flips,        \* frame_count (SDL) or st_swap_count (raw), up to HealthAfter
    png,          \* g_png_evidence_ready
    receipt,      \* the video receipt on disk
    health,       \* the health receipt on disk
    attempted,    \* st_health_publish_once has run
    videoFatal,   \* st_video_fatal
    faults,       \* history: failures of the file system so far
    misread,      \* history: a sample said something else than the panel showed
    revoked       \* history: the health receipt was revoked

adapter == <<job, proof, verdict, fatal, pending, black, dead, frames, png>>
disk    == <<receipt, health, attempted, faults, revoked>>
proofVars == <<env, adapter_lock, pc, adapter, flips, videoFatal, disk, misread>>

Threads  == {"render", "engine"}
Fatals   == {"BLACK", "DEAD-CONTEXT"}
NoJob    == [verdict |-> "none", step |-> "idle"]
Running  == pc["engine"] # "exited"
At(t, p) == Running /\ pc[t] = p
Goto(t, p) == pc' = [pc EXCEPT ![t] = p]

-------------------------------------------------------------------------------
(* The launch and the measurement.                                         *)

Launch == [frontend : BOOLEAN, remote : BOOLEAN, console : BOOLEAN]

\* launch_context: may this launch accuse the game of a black screen?
Conclusive(l) == l.frontend \/ (~l.remote /\ l.console)

\* The state of GL when the frame is read.  `major' 0 is no GLES version;
\* `draw', `read' say whether the default framebuffer is bound, `object' that
\* the extension with framebuffer objects is there; `plain' that no pack
\* buffer and no pack offset is set, `pack' that the driver has any.
GlState == [renderer : BOOLEAN, major : 0 .. 3, object : BOOLEAN,
            draw : BOOLEAN, read : BOOLEAN, pack : BOOLEAN, plain : BOOLEAN]

DefaultBound(g) ==
    /\ g.major >= 3 => g.draw /\ g.read
    /\ g.major = 2 \/ g.object => g.draw

\* frame_read_preflight
Preflight(g) ==
    CASE ~g.renderer -> "dead"
      [] g.renderer /\ g.major = 0 -> "unmeasured"
      [] OTHER -> IF /\ DefaultBound(g)
                     /\ g.major >= 3 \/ g.pack => g.plain
                  THEN "readable" ELSE "unmeasured"

\* What the driver puts into the buffer: the frame about to be presented, if
\* that is what is bound, and anything otherwise.  A read may also fail, and
\* then the sentinels are still there.
Pixels == {"drawn", "alphaless", "black", "sentinel"}
Reads(g, shown) ==
    IF /\ g.major >= 2 \/ g.object => g.draw
       /\ g.major = 3 => g.read
       /\ g.major = 3 \/ g.pack => g.plain
    THEN {shown, "sentinel"} ELSE Pixels

\* frame_proof_sample_locked: colour without alpha is not an image.
Sampled(g, pixels) ==
    IF Preflight(g) # "readable" THEN Preflight(g)
    ELSE CASE pixels = "sentinel" -> "unmeasured"
           [] pixels = "drawn"    -> "visible"
           [] OTHER               -> "black"

Honest(says, shown) ==
    /\ says = "visible" => shown = "drawn"
    /\ says = "black"   => shown # "drawn"

\* Every measurement that can come out, and whether it is true.
Samples ==
    UNION {UNION {{[says |-> Sampled(g, p), true |-> Honest(Sampled(g, p), s)] :
                      p \in Reads(g, s)} :
                      s \in Pixels \ {"sentinel"}} : g \in GlState}

Scheduled(f)  == f \in {First, Second, Third} \/ f % Recurring = 0
Published(f)  == f = Third \/ f % Recurring = 0

-------------------------------------------------------------------------------
(* The video receipt: publish_video_proof_file.                            *)

\* A step that may fail on the file system.
Works == UNCHANGED faults
Fails == faults < MaxFaults /\ faults' = faults + 1

\* Its beginning, as the holder of the guard runs it.
Publish(v) ==
    IF v = "OK"
    THEN /\ proof' = IF proof = "none" /\ env.video = "absent" THEN "ok" ELSE proof
         /\ job' = IF proof = "none" /\ env.video = "granted"
                   THEN [verdict |-> v, step |-> "write"] ELSE NoJob
         /\ UNCHANGED verdict
    ELSE /\ proof' = IF proof = "published" THEN proof ELSE "pending"
         /\ job' = IF proof # "published" /\ env.video = "granted"
                   THEN [verdict |-> v, step |-> "write"] ELSE NoJob
         /\ verdict' = IF proof = "published" THEN verdict ELSE v

NoPublish == UNCHANGED <<proof, job, verdict>>

\* retry_fatal_receipt_locked
Retry == IF proof = "pending" THEN Publish(verdict) ELSE NoPublish

JobAt(s) == Running /\ job.step = s
Then(s) == job' = [job EXCEPT !.step = s]

PublishFrame ==
    UNCHANGED <<env, adapter_lock, pc, verdict, fatal, pending, black, dead, frames, png,
                flips, health, attempted, videoFatal, misread, revoked>>

\* An unsafe parent directory is refused; a temporary file that cannot be
\* written whole leads to the revocation of what is there.
PublishWrite ==
    /\ JobAt("write")
    /\ \/ Works /\ Then("rename")
       \/ Fails /\ Then("revoke")
       \/ Fails /\ job' = IF job.verdict = "OK" THEN NoJob
                          ELSE [job EXCEPT !.step = "revoke"]
    /\ UNCHANGED <<receipt, proof>>
    /\ PublishFrame

PublishRename ==
    /\ JobAt("rename")
    /\ \/ Works /\ receipt' = job.verdict /\ Then("sync")
       \/ Fails /\ UNCHANGED receipt /\ Then("revoke")
    /\ UNCHANGED proof
    /\ PublishFrame

PublishSync ==
    /\ JobAt("sync")
    /\ \/ /\ Works
          /\ proof' = IF job.verdict = "OK" THEN "ok" ELSE "published"
          /\ job' = NoJob
       \/ /\ Fails
          /\ job' = IF job.verdict = "OK" THEN [job EXCEPT !.step = "revoke"] ELSE NoJob
          /\ UNCHANGED proof
    /\ UNCHANGED receipt
    /\ PublishFrame

\* video_proof_revoke_existing empties a file that is there.
Revoked == IF receipt = "absent" THEN "absent" ELSE "empty"

PublishRevoke ==
    /\ JobAt("revoke")
    /\ \/ Works /\ receipt' = Revoked
       \/ Fails /\ UNCHANGED receipt
    /\ job' = NoJob
    /\ UNCHANGED proof
    /\ PublishFrame

-------------------------------------------------------------------------------
(* The render thread: before_present, swap, health.                        *)

Release(t) == adapter_lock = t /\ adapter_lock' = "none"

\* observe_fatal_streak_locked
ObserveFatal ==
    IF (dead >= Streak \/ black >= Streak) /\ env.conclusive
    THEN /\ fatal' = TRUE
         /\ pending' = (pending \/ ~fatal)
         /\ Publish(IF dead >= Streak THEN "DEAD-CONTEXT" ELSE "BLACK")
    ELSE /\ UNCHANGED <<fatal, pending>>
         /\ IF dead >= Streak \/ black >= Streak THEN NoPublish ELSE Retry

BeforePresent ==
    /\ At("render", "frame")
    /\ frames < MaxFrames
    /\ IF adapter_lock # "none"
       THEN Goto("render", "flip") /\ NoPublish /\ UNCHANGED adapter_lock
       ELSE Goto("render", "count") /\ Retry /\ adapter_lock' = "render"
    /\ UNCHANGED <<env, fatal, pending, black, dead, frames, png, flips,
                   videoFatal, disk, misread>>

IsSampled(f) == ~fatal /\ env.auto /\ Scheduled(f)

Count ==
    /\ At("render", "count") /\ job = NoJob
    /\ frames' = IF fatal THEN frames ELSE frames + 1
    /\ IF IsSampled(frames')
       THEN Goto("render", "sample") /\ UNCHANGED adapter_lock
       ELSE Goto("render", "flip") /\ Release("render")
    /\ UNCHANGED <<env, job, proof, verdict, fatal, pending, black, dead, png,
                   flips, videoFatal, disk, misread>>

Longer(streak) == IF streak = Streak THEN Streak ELSE streak + 1

Streaks(says) ==
    /\ black' = IF says = "black" THEN Longer(black) ELSE 0
    /\ dead'  = IF says = "dead" THEN Longer(dead) ELSE 0

\* The first visible sample is kept as an image where the launcher asked for
\* one; without it there is no OK.
Evidence ==
    IF png \/ ~env.png THEN Works /\ png' = TRUE
    ELSE \/ Works /\ png' = TRUE
         \/ Fails /\ png' = FALSE

Sample ==
    /\ At("render", "sample")
    /\ \E s \in Samples :
          /\ Streaks(s.says)
          /\ misread' = (misread \/ ~s.true)
          /\ IF s.says = "visible" /\ proof = "none"
             THEN /\ Evidence
                  /\ IF png' THEN Publish("OK") ELSE NoPublish
             ELSE NoPublish /\ UNCHANGED <<png, faults>>
    /\ Goto("render", "observe")
    /\ UNCHANGED <<env, adapter_lock, fatal, pending, frames, flips, videoFatal,
                   receipt, health, attempted, revoked>>

Observe ==
    /\ At("render", "observe") /\ job = NoJob
    /\ ObserveFatal
    /\ Goto("render", "verdict")
    /\ UNCHANGED <<env, adapter_lock, black, dead, frames, png, flips, videoFatal, disk,
                   misread>>

\* At the end of the schedule the verdict is logged, and the receipt tried
\* once more (frame_proof_publish_locked).
Verdict ==
    /\ At("render", "verdict") /\ job = NoJob
    /\ IF Published(frames)
       THEN ObserveFatal /\ Goto("render", "unlock") /\ UNCHANGED adapter_lock
       ELSE /\ NoPublish /\ UNCHANGED <<fatal, pending>>
            /\ Goto("render", "flip") /\ Release("render")
    /\ UNCHANGED <<env, black, dead, frames, png, flips, videoFatal, disk, misread>>

Unlock ==
    /\ At("render", "unlock") /\ job = NoJob
    /\ Release("render") /\ Goto("render", "flip")
    /\ UNCHANGED <<env, adapter, flips, videoFatal, disk, misread>>

HealthDue == env.health /\ ~attempted

\* st_health_publish_once: one attempt, whatever comes of it.
PublishHealth ==
    /\ attempted' = TRUE
    /\ IF HealthDue
       THEN \/ Works /\ health' = "ready"
            \/ Fails /\ UNCHANGED health
       ELSE UNCHANGED <<health, faults>>

\* st_sdl_swap_buffers; on the raw path the driver may refuse the flip, which
\* is counted all the same.
Flip ==
    /\ At("render", "flip")
    /\ flips' = IF flips = HealthAfter THEN HealthAfter ELSE flips + 1
    /\ \E presented \in IF env.raw THEN BOOLEAN ELSE {TRUE} :
          IF presented /\ flips' = HealthAfter
          THEN PublishHealth ELSE UNCHANGED <<health, attempted, faults>>
    /\ Goto("render", "frame")
    /\ UNCHANGED <<env, adapter_lock, adapter, videoFatal, receipt, misread, revoked>>

-------------------------------------------------------------------------------
(* The thread of the frame loop.                                           *)

\* Mutants: the question takes the guard, and a refusal means fatal, or not.
IsFatalGuarded == fatal \/ adapter_lock # "none"
IsFatalRefused == fatal /\ adapter_lock = "none"

\* nxgl_frame_proof_is_fatal takes no guard.
IsFatal == fatal

\* After nativeRender.
Check ==
    /\ At("engine", "check")
    /\ Goto("engine", IF IsFatal THEN "consume" ELSE "top")
    /\ UNCHANGED <<env, adapter_lock, adapter, flips, videoFatal, disk, misread>>

\* The exit may be asked for by the player, the guest or a signal.
Top ==
    /\ At("engine", "top")
    /\ \/ Goto("engine", "check")
       \/ Goto("engine", "closing")
    /\ UNCHANGED <<env, adapter_lock, adapter, flips, videoFatal, disk, misread>>

\* revoke_health_receipt_locked
RevokeHealth ==
    \/ Works /\ health' = "absent" /\ revoked' = TRUE
    \/ Fails /\ UNCHANGED <<health, revoked>>

Consume ==
    /\ At("engine", "consume")
    /\ IF adapter_lock = "none" /\ pending
       THEN pending' = FALSE /\ RevokeHealth
       ELSE UNCHANGED <<pending, health, revoked, faults>>
    /\ videoFatal' = TRUE
    /\ Goto("engine", "closing")
    /\ UNCHANGED <<env, adapter_lock, job, proof, verdict, fatal, black, dead, frames,
                   png, flips, receipt, attempted, misread>>

\* nxgl_frame_proof_publish after nativePause.
Closing ==
    /\ At("engine", "closing")
    /\ IF adapter_lock = "none"
       THEN ObserveFatal /\ adapter_lock' = "engine" /\ Goto("engine", "closed")
       ELSE /\ NoPublish /\ UNCHANGED <<adapter_lock, fatal, pending>>
            /\ Goto("engine", "exit")
    /\ UNCHANGED <<env, black, dead, frames, png, flips, videoFatal, disk, misread>>

Closed ==
    /\ At("engine", "closed") /\ job = NoJob
    /\ Release("engine") /\ Goto("engine", "exit")
    /\ UNCHANGED <<env, adapter, flips, videoFatal, disk, misread>>

\* _exit, with 72 if the loop ended for the picture.
Exit ==
    /\ At("engine", "exit")
    /\ Goto("engine", "exited")
    /\ UNCHANGED <<env, adapter_lock, adapter, flips, videoFatal, disk, misread>>

-------------------------------------------------------------------------------
ProofInit ==
    /\ env \in Environments
    /\ adapter_lock = "none"
    /\ pc = [render |-> "frame", engine |-> "check"]
    /\ job = NoJob /\ proof = "none" /\ verdict = "none"
    /\ fatal = FALSE /\ pending = FALSE
    /\ black = 0 /\ dead = 0 /\ frames = 0 /\ flips = 0
    /\ png = FALSE
    /\ receipt = "absent" /\ health = "absent" /\ attempted = FALSE
    /\ videoFatal = FALSE
    /\ faults = 0 /\ misread = FALSE /\ revoked = FALSE

PublishStep == PublishWrite \/ PublishRename \/ PublishSync \/ PublishRevoke

RenderThread == BeforePresent \/ Count \/ Sample \/ Observe \/ Verdict \/ Unlock \/ Flip

Engine == Check \/ Top \/ Consume \/ Closing \/ Closed \/ Exit

ProofNext == PublishStep \/ RenderThread \/ Engine

\* Both threads run, and a publication is a step of the one inside the guard.
ProofSpec ==
    /\ ProofInit /\ [][ProofNext]_proofVars
    /\ WF_proofVars(Engine) /\ WF_proofVars(PublishStep)

-------------------------------------------------------------------------------
(* Properties.                                                             *)

\* The program closes with status 72 only when the launch could have shown an
\* image and the last samples, all of them true, said that there was none:
\* not because a measurement was impossible or somebody was measuring.
JustifiedClose ==
    /\ videoFatal => fatal /\ (black = Streak \/ dead = Streak)
    /\ fatal => env.conclusive /\ proof \in {"pending", "published"} /\ ~misread
    /\ receipt = "OK" => ~misread

\* After a conclusive verdict the receipt no longer authorises the run: it is
\* replaced or emptied, and as an OK is only ever followed by a verdict at the
\* end of the schedule, where both are tried twice, it takes four failures of
\* the file system to leave it in place.
OkWithdrawn ==
    adapter_lock = "none" /\ fatal /\ receipt = "OK" => faults >= 4

\* What is on the disk and what the program does are one verdict: a program
\* is closed for good reason, and an OK does not outlive that reason.
VerdictHonest == JustifiedClose /\ OkWithdrawn

\* A conclusive verdict closes the program, whoever holds the guard when the
\* frame loop asks.
FatalCloses == fatal ~> ~Running

\* "so an engine cannot leave a stale ready receipt behind while shutting down
\* nonzero" (nxgl_frame_proof_adapter.h).
NoStaleReady == ~Running /\ videoFatal => health # "ready"

=============================================================================
