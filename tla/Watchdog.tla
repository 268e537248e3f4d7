------------------------------- MODULE Watchdog -------------------------------
(***************************************************************************)
(* The watchdog of diagnostics.c: a thread that wakes up every second and   *)
(* ends the process with status 124 when no frame was completed in time     *)
(* since the start, or none since the last one.                             *)
(*                                                                          *)
(* It reads the clock first and then the counters the render thread writes, *)
(* each by itself.  Times are 64-bit unsigned, so that a difference of a    *)
(* later and an earlier time is what the code gets: it wraps.               *)
(***************************************************************************)
EXTENDS Integers

CONSTANTS
    MaxTime,  \* bounds the seconds of a run
    Wrap      \* stands for 2^64

ASSUME WatchdogAssumption == MaxTime \in Nat /\ Wrap \in Nat /\ Wrap > 2 * MaxTime

VARIABLES
    time,      \* CLOCK_MONOTONIC
    limits,    \* [startup, stall]: the two deadlines, 0 for none
    armed,     \* started_ns was set and the thread created
    frames,    \* completed_frames, and the time of the first one or NoTime
    progress,  \* last_progress_ns
    ready,     \* render_ready
    dog,       \* where the watchdog thread is
    look       \* what it has read in this turn

NoTime == -1
watchdog == <<time, limits, armed, frames, progress, ready, dog, look>>

Nothing == [now |-> 0, frame |-> 0, progress |-> 0, ready |-> FALSE]

WatchdogInit(choices) ==
    /\ time = 0 /\ limits \in choices /\ armed = FALSE
    /\ frames = [n |-> 0, first |-> NoTime] /\ progress = 0 /\ ready = FALSE
    /\ dog = "off" /\ look = Nothing

Elapse ==
    /\ time < MaxTime /\ armed
    /\ time' = time + 1
    /\ UNCHANGED <<limits, armed, frames, progress, ready, dog, look>>

\* st_diag_watchdog_start: the clock starts here.  The thread is created when
\* something is asked for.
Arm ==
    /\ IF limits = [startup |-> 0, stall |-> 0] THEN UNCHANGED <<armed, progress, dog>>
       ELSE armed' = TRUE /\ progress' = time /\ dog' = "sleep"
    /\ UNCHANGED <<time, limits, frames, ready, look>>

RenderReady ==
    /\ ready' = TRUE /\ progress' = time
    /\ UNCHANGED <<time, limits, armed, frames, dog, look>>

\* st_diag_frame_complete(n): the clock is read, the counter exchanged and the
\* time stored, here at the moment of the exchange: a frame is complete with it,
\* and whoever reads the time between the two sees that of the frame before.
FrameComplete(n) ==
    /\ IF ~armed THEN UNCHANGED <<frames, progress>>
       ELSE /\ frames' = [n |-> n, first |-> IF frames.n = 0 THEN time ELSE frames.first]
            /\ progress' = time
    /\ UNCHANGED <<time, limits, armed, ready, dog, look>>

-----------------------------------------------------------------------------
Minus(a, b) == (a - b) % Wrap

Wake == dog = "sleep" /\ dog' = "clock" /\ UNCHANGED look
ReadClock == dog = "clock" /\ dog' = "frame" /\ look' = [look EXCEPT !.now = time]
ReadFrame == dog = "frame" /\ dog' = "progress" /\ look' = [look EXCEPT !.frame = frames.n]
ReadProgress ==
    /\ dog = "progress" /\ dog' = "judge"
    /\ look' = [look EXCEPT !.progress = progress, !.ready = ready]

TooLateAlways(l) == limits.startup > 0 /\ Minus(l.now, 0) >= limits.startup
TooLate(l) == limits.startup > 0 /\ l.frame = 0 /\ Minus(l.now, 0) >= limits.startup
Stalled(l) == limits.stall > 0 /\ l.ready /\ Minus(l.now, l.progress) >= limits.stall

Judge ==
    /\ dog = "judge"
    /\ dog' = IF TooLate(look) THEN "startup" ELSE IF Stalled(look) THEN "stall" ELSE "sleep"
    /\ look' = IF dog' = "sleep" THEN Nothing ELSE look

WatchdogThread ==
    /\ Wake \/ ReadClock \/ ReadFrame \/ ReadProgress \/ Judge
    /\ UNCHANGED <<time, limits, armed, frames, progress, ready>>

\* The verdict stands: the thread records where the render thread is, waits
\* a little, and ends the process.
Bites == dog \in {"startup", "stall"}

-----------------------------------------------------------------------------
(***************************************************************************)
(* A program that completed its first frame before the deadline of the      *)
(* start is never ended for not having started: the watchdog reads the      *)
(* clock before the count of frames (watchdog_thread).                      *)
(***************************************************************************)
StartupFair ==
    dog = "startup" => frames.first = NoTime \/ frames.first >= limits.startup

(***************************************************************************)
(* The program is ended for a stall only when no frame was completed for    *)
(* the whole deadline ("frame-stall ... stalled=%.3fs", watchdog_timeout).  *)
(***************************************************************************)
StallFair == dog = "stall" => look.now - look.progress >= limits.stall
=============================================================================
