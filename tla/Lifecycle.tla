------------------------------- MODULE Lifecycle -------------------------------
(***************************************************************************)
(* The life of the program (main.c): one instance claims the machine, the   *)
(* libraries are loaded, linked and constructed, the player is resumed, the *)
(* audio thread created, frames are rendered until something asks for the   *)
(* end, and the teardown pauses the game, closes the input, joins the audio *)
(* thread, saves the preferences and leaves with a status.                  *)
(*                                                                          *)
(* The main thread is pc; beside it run the audio thread, the watchdog, SDL *)
(* and the guest, signals arrive and the guest may fault.  What a frame does*)
(* with the pads is in PadSet and Delivery, the verdict about the picture   *)
(* in FrameProof, the save in Preferences: here they are their outcomes.    *)
(***************************************************************************)
EXTENDS Loader, AudioDevice, Watchdog, TutorialReturn

CONSTANTS
    Launches,  \* what the environment asks for: records [audio, nativeDone,
               \* fresh, limits, frames], frames = 0 for no test limit
    FrameCap   \* bounds the frames that are counted

ASSUME LifecycleAssumption ==
    /\ FrameCap \in Nat \ {0}
    /\ Launches \subseteq [audio : BOOLEAN, nativeDone : BOOLEAN, fresh : BOOLEAN,
                           limits : [startup : Nat, stall : Nat], frames : Nat]

VARIABLES
    pc,         \* where the main thread is
    launch,     \* the environment of this run
    handled,    \* the signal handlers are installed
    exiting,    \* exit_requested
    failed,     \* the subset of {"video", "input"} that failed for good
    paused,     \* nativePause has returned
    unsaved,    \* the map of preferences has edits no save was tried for
    frame,      \* the frames rendered, counted up to FrameCap
    status      \* the exit status, or Running

Running == -1
Killed == 143

main == <<pc, launch, handled, exiting, failed, paused, unsaved, frame, status>>
vars == <<main, loader, audio, watchdog, tutorial>>

Init ==
    /\ LoaderInit /\ AudioInit /\ TutorialInit
    /\ launch \in Launches
    /\ WatchdogInit({launch.limits})
    /\ fits => launch.fresh
    /\ pc = "claim" /\ handled = FALSE /\ exiting = FALSE /\ failed = {}
    /\ paused = FALSE /\ unsaved = FALSE
    /\ frame = 0 /\ status = Running

-----------------------------------------------------------------------------
\* A step of the main thread from one place to another that touches nothing
\* but what it says.
From(here, there) == pc = here /\ pc' = there
Rest == UNCHANGED <<launch, handled, exiting, failed, paused, unsaved, frame, status>>
Others == UNCHANGED <<loader, audio, watchdog, tutorial>>

Leave(s) == pc' = "gone" /\ status' = s
NothingElse == UNCHANGED <<launch, handled, exiting, failed, paused, unsaved, frame>>

\* nx_die, and every return of main before the game runs.
MayDie == {"claim", "receipts", "preinit", "load", "onload", "loaded", "unity", "seed"}
Die == pc \in MayDie /\ Leave(1) /\ NothingElse /\ Others

\* The single instance, the receipts of this run, the declared contract.
Claim == From("claim", "receipts") /\ Rest /\ Others
Receipts == From("receipts", "handlers") /\ Rest /\ Others

InstallHandlers ==
    /\ From("handlers", "arm") /\ handled' = TRUE
    /\ UNCHANGED <<launch, exiting, failed, paused, unsaved, frame, status>> /\ Others

StartWatchdog ==
    /\ From("arm", "preinit") /\ Arm
    /\ Rest /\ UNCHANGED <<loader, audio, tutorial>>

\* Controls, JNI, EGL and the import table.
Shims == From("preinit", "load") /\ Rest /\ Others

LoadModules ==
    /\ pc = "load"
    /\ Load \/ RelocateAll
    /\ pc' = IF bound' = << >> THEN "load" ELSE "open"
    /\ Rest /\ UNCHANGED <<audio, watchdog, tutorial>>

\* Libraries are constructed and told of their loading one by one: libmain by
\* main, the others by the NativeLoader.load of libmain.
Current == Libs[Len(onloads) + 1]
OpenNext ==
    /\ From("open", "onload") /\ Open(Current)
    /\ Rest /\ UNCHANGED <<audio, watchdog, tutorial>>
Construct ==
    /\ pc = "onload" /\ (Constructor \/ Constructed)
    /\ UNCHANGED pc /\ Rest /\ UNCHANGED <<audio, watchdog, tutorial>>
TellLoaded ==
    /\ pc = "onload" /\ CallOnLoad(Current)
    /\ pc' = IF Len(onloads') = Len(Libs) THEN "loaded" ELSE "open"
    /\ Rest /\ UNCHANGED <<audio, watchdog, tutorial>>
NativeLoaded ==
    /\ Lib \subseteq inited
    /\ From("loaded", "unity") /\ Rest /\ Others

\* initJni, the surface, focus and resume.
ResumeUnity == From("unity", "audio") /\ Rest /\ Others

StartAudio ==
    /\ From("audio", "seed")
    /\ IF launch.audio THEN Start ELSE UNCHANGED audio
    /\ Rest /\ UNCHANGED <<loader, watchdog, tutorial>>

\* The choice of controls is written once; then the pads are opened.
Seed ==
    /\ From("seed", "poll") /\ RenderReady
    /\ unsaved' \in BOOLEAN
    /\ UNCHANGED <<launch, handled, exiting, failed, paused, frame, status>>
    /\ UNCHANGED <<loader, audio, tutorial>>

-----------------------------------------------------------------------------
\* A frame polls the pads, which may ask for the end or fail for good, ...
Poll ==
    /\ From("poll", "check")
    /\ \E quit \in BOOLEAN, broken \in BOOLEAN :
        /\ exiting' = (exiting \/ quit \/ broken)
        /\ failed' = IF broken THEN failed \cup {"input"} ELSE failed
    /\ TutorialPoll
    /\ UNCHANGED <<launch, handled, paused, unsaved, frame, status>>
    /\ UNCHANGED <<loader, audio, watchdog>>

\* ... ends the loop when the end was asked for, or renders ...
CheckExit ==
    /\ From("check", IF exiting THEN "pause" ELSE "render")
    /\ Rest /\ Others

Render ==
    /\ From("render", "judge")
    /\ unsaved' \in {unsaved, TRUE}
    /\ UNCHANGED <<launch, handled, exiting, failed, paused, frame, status>> /\ Others

\* ... and after the verdict about the picture it counts the frame and stops
\* when the guest or the test limit says so.
VideoFails ==
    /\ From("judge", "pause")
    /\ failed' = failed \cup {"video"}
    /\ UNCHANGED <<launch, handled, exiting, paused, unsaved, frame, status>> /\ Others

CountFrame ==
    /\ pc = "judge"
    /\ frame' = IF frame = FrameCap THEN frame ELSE frame + 1
    /\ FrameComplete(frame')
    /\ \/ pc' = "pause"
       \/ launch.frames \notin 1..frame' /\ pc' = "poll"
    /\ UNCHANGED <<launch, handled, exiting, failed, paused, unsaved, status>>
    /\ UNCHANGED <<loader, audio, tutorial>>

-----------------------------------------------------------------------------
\* Focus is taken away and the game pauses: it saves, and may edit the
\* preferences once more.
Pause ==
    /\ From("pause", "close") /\ paused' = TRUE
    /\ unsaved' \in {unsaved, TRUE}
    /\ UNCHANGED <<launch, handled, exiting, failed, frame, status>> /\ Others

CloseInput == From("close", "stop") /\ Rest /\ Others

StopAudio ==
    /\ From("stop", "join") /\ Stop
    /\ Rest /\ UNCHANGED <<loader, watchdog, tutorial>>

JoinAudio ==
    /\ Joined
    /\ From("join", IF launch.nativeDone THEN "done" ELSE "flush")
    /\ Rest /\ Others

Flush ==
    /\ From("flush", "exit") /\ unsaved' = FALSE
    /\ UNCHANGED <<launch, handled, exiting, failed, paused, frame, status>> /\ Others

ExitStatus == IF "video" \in failed THEN 72 ELSE IF "input" \in failed THEN 70 ELSE 0

Exit == pc = "exit" /\ Leave(ExitStatus) /\ NothingElse /\ Others

\* ST_NATIVE_DONE: the engine's own teardown, which may never return.
NativeDone ==
    /\ pc = "done"
    /\ \/ Leave(ExitStatus)
       \/ Leave(1)                              \* not unloaded
       \/ Leave(0)                              \* main returns
       \/ pc' = "hung" /\ UNCHANGED status
    /\ NothingElse /\ Others

Main ==
    \/ Claim \/ Receipts \/ InstallHandlers \/ StartWatchdog \/ Shims
    \/ LoadModules \/ OpenNext \/ Construct \/ TellLoaded \/ NativeLoaded
    \/ ResumeUnity \/ StartAudio \/ Seed
    \/ Poll \/ CheckExit \/ Render \/ VideoFails \/ CountFrame
    \/ Pause \/ CloseInput \/ StopAudio \/ JoinAudio \/ Flush \/ Exit \/ NativeDone

-----------------------------------------------------------------------------
\* SIGTERM and SIGINT ask for the end once the handlers are there.
Signal ==
    /\ IF handled
       THEN exiting' = TRUE /\ UNCHANGED <<pc, status>>
       ELSE Leave(Killed) /\ UNCHANGED exiting
    /\ UNCHANGED <<launch, handled, failed, paused, unsaved, frame>> /\ Others

\* Guest code faults while the main thread is inside it.
Fault ==
    /\ pc \in {"onload", "unity", "render", "pause"}
    /\ Leave(2) /\ NothingElse /\ Others

WatchdogBites == Bites /\ Leave(124) /\ NothingElse /\ Others

\* The guest's audio threads run at any time, its menus inside nativeRender.
GuestRuns ==
    /\ Lib \subseteq inited
    /\ \/ launch.audio /\ GuestAudio /\ UNCHANGED tutorial
       \/ launch.fresh /\ pc = "render" /\ GameMove /\ UNCHANGED audio
    /\ UNCHANGED <<main, loader, watchdog>>

AudioRuns == AudioThread /\ UNCHANGED <<main, loader, watchdog, tutorial>>
Drains == Drain /\ UNCHANGED <<main, loader, watchdog, tutorial>>
WatchdogRuns == WatchdogThread /\ UNCHANGED <<main, loader, audio, tutorial>>
TimePasses == Elapse /\ UNCHANGED <<main, loader, audio, tutorial>>

Next ==
    /\ status = Running
    /\ \/ Main \/ Die \/ Signal \/ Fault \/ GuestRuns
       \/ AudioRuns \/ Drains \/ WatchdogRuns \/ TimePasses \/ WatchdogBites

\* The main thread and the audio thread go on: a call into the guest returns
\* (nativeDone is the one that may not), a wait of the thread is over.
Fairness ==
    /\ WF_vars(status = Running /\ Main)
    /\ WF_vars(status = Running /\ AudioRuns)

Spec == Init /\ [][Next]_vars /\ Fairness

-----------------------------------------------------------------------------
(***************************************************************************)
(* The status the launcher sees is true: a program that leaves by itself    *)
(* has paused the game, has no audio thread left and no edit of the         *)
(* preferences it did not try to save, and says 72 after a video failure,   *)
(* 70 after an input failure and 0 after neither (run_unity).  A run with   *)
(* ST_NATIVE_DONE is left out: it hands the end to the engine, flushes      *)
(* nothing itself and may say 0 whatever happened (main.c:812-850).         *)
(***************************************************************************)
ExitTruthful ==
    status \in {0, 70, 72} /\ ~launch.nativeDone =>
        /\ paused /\ ~unsaved /\ thread \in {"none", "done"} /\ ~playing
        /\ status = 72 <=> "video" \in failed
        /\ status = 70 <=> failed = {"input"}

(***************************************************************************)
(* A program that is asked to end ends, wherever the request finds the main *)
(* thread and whatever the audio thread is doing, without the engine's own  *)
(* teardown (on_exit_signal, run_unity, st_audio_stop).                     *)
(***************************************************************************)
Ended == exiting /\ ~launch.nativeDone ~> status # Running
=============================================================================
