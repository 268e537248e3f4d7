----------------------------- MODULE AudioDevice -----------------------------
(***************************************************************************)
(* The thread that plays what the guest mixes (audio.c): it waits for the   *)
(* natives of FMOD, opens an SDL output in the guest's format, fills its    *)
(* queue up to the target, and then keeps it filled until the guest stops,  *)
(* changes the format or the program ends.  The format is looked at again   *)
(* only when the count of blocks is a multiple of Every (256).              *)
(*                                                                          *)
(* SDL drains the queue and the guest changes what it asks for at any time  *)
(* between two steps of the thread.  Samples are abstracted to whole        *)
(* blocks; drivers and wait times are left out.                             *)
(***************************************************************************)
EXTENDS Integers

CONSTANTS
    Formats,  \* what fmodGetInfo answers about rate, block and channels
    Valid,    \* the formats the thread accepts
    Buffers,  \* the number of blocks it keeps queued (2..16)
    Every,    \* 256: the format is compared every so many blocks
    Changes   \* bounds how often the guest changes what it asks for

ASSUME AudioAssumption ==
    Valid \subseteq Formats /\ Valid # {} /\ Buffers \in Nat \ {0} /\ Every \in Nat \ {0}

VARIABLES
    run,      \* audio_run
    started,  \* audio_started
    thread,   \* where the thread is, "none" before and "done" after it
    natives,  \* the guest has registered the natives of FMODAudioDevice
    wanted,   \* fmod_should_run, and fmodGetInfo(3) = 1
    format,   \* what the guest mixes now
    opened,   \* the format the output was opened in
    playing,  \* the output is open and not paused
    queue,    \* the blocks SDL has queued
    count,    \* calls modulo Every
    stale,    \* the blocks queued since the format differs from the output's
    changes   \* counts the guest's changes

audio == <<run, started, thread, natives, wanted, format, opened, playing,
           queue, count, stale, changes>>

AudioInit ==
    /\ run = FALSE /\ started = FALSE /\ thread = "none"
    /\ natives = FALSE /\ wanted = FALSE
    /\ format = (CHOOSE f \in Valid : TRUE) /\ opened = format /\ playing = FALSE
    /\ queue = 0 /\ count = 0 /\ stale = 0 /\ changes = 0

-----------------------------------------------------------------------------
\* What the guest does meanwhile: it registers its natives, starts and stops,
\* and changes the format.
GuestAudio ==
    /\ changes < Changes /\ changes' = changes + 1
    /\ \/ natives' = TRUE /\ UNCHANGED <<wanted, format>>
       \/ wanted' = ~wanted /\ UNCHANGED <<natives, format>>
       \/ natives /\ format' \in Formats \ {format} /\ UNCHANGED <<natives, wanted>>
    /\ stale' = IF format' = format THEN stale ELSE 0
    /\ UNCHANGED <<run, started, thread, opened, playing, queue, count>>

\* SDL plays one block.
Drain ==
    /\ playing /\ queue > 0
    /\ queue' = queue - 1
    /\ UNCHANGED <<run, started, thread, natives, wanted, format, opened, playing,
                   count, stale, changes>>

-----------------------------------------------------------------------------
Goto(pc) == thread' = pc
Still == UNCHANGED <<run, started, natives, wanted, format, changes>>

\* The thread waits for the natives, then starts SDL's audio, or ends.
WaitNatives ==
    /\ thread = "natives"
    /\ \/ run /\ natives /\ Goto("idle")
       \/ (run => natives) /\ Goto("done")   \* told to end, or SDL fails
       \/ run /\ ~natives /\ Goto("natives")
    /\ Still /\ UNCHANGED <<opened, playing, queue, count, stale>>

\* The guest plays: the format is read and an output opened for it.  An
\* invalid format and a failed output are tried again after a while.
OpenOutput ==
    /\ thread = "idle"
    /\ IF ~run THEN Goto("done") /\ UNCHANGED <<opened, playing, queue, count, stale>>
       ELSE \/ /\ wanted /\ format \in Valid
               /\ Goto("prime") /\ opened' = format
               /\ count' = 0 /\ stale' = 0 /\ UNCHANGED <<playing, queue>>
            \/ Goto("idle") /\ UNCHANGED <<opened, playing, queue, count, stale>>
    /\ Still

GoesUnlessStopped == wanted
\* A loop goes on while the program runs and the guest plays.
Goes == run /\ wanted

\* The first filling of the queue, up to the target.
Prime ==
    /\ thread = "prime"
    /\ IF Goes /\ queue < Buffers
       THEN Goto("prime_mix") /\ UNCHANGED playing
       ELSE Goto("steady") /\ playing' = TRUE
    /\ Still /\ UNCHANGED <<opened, queue, count, stale>>

\* The format is compared only when the count of blocks is a multiple of Every.
Reformatted == count = 0 /\ format # opened

\* Every turn of the loop asks whether to go on, then for room in the queue.
Steady ==
    /\ thread = "steady"
    /\ Goto(IF ~Goes \/ Reformatted THEN "close"
            ELSE IF queue < Buffers THEN "steady_mix" ELSE "steady")
    /\ Still /\ UNCHANGED <<opened, playing, queue, count, stale>>

\* The guest mixes one block and it is queued, or one of the two fails.
Mix ==
    /\ thread \in {"prime_mix", "steady_mix"}
    /\ \/ /\ queue' = queue + 1 /\ count' = (count + 1) % Every
          /\ stale' = IF format # opened THEN stale + 1 ELSE 0
          /\ Goto(IF thread = "prime_mix" THEN "prime" ELSE "steady")
          /\ UNCHANGED playing
       \/ /\ Goto(IF thread = "prime_mix" THEN "steady" ELSE "close")
          /\ playing' = TRUE /\ UNCHANGED <<queue, count, stale>>
       \/ /\ thread = "steady_mix" /\ Goto("steady")
          /\ UNCHANGED <<playing, queue, count, stale>>
    /\ Still /\ UNCHANGED opened

\* The output is closed and what it held dropped; the outer loop goes on.
Close ==
    /\ thread = "close"
    /\ Goto("idle") /\ playing' = FALSE /\ queue' = 0
    /\ count' = 0 /\ stale' = 0
    /\ Still /\ UNCHANGED opened

AudioThread == WaitNatives \/ OpenOutput \/ Prime \/ Steady \/ Mix \/ Close

-----------------------------------------------------------------------------

\* st_audio_start, which is called once: the thread is created, or not at all.
Start ==
    /\ ~started
    /\ \/ run' = TRUE /\ started' = TRUE /\ thread' = "natives"
       \/ UNCHANGED <<run, started, thread>>
    /\ UNCHANGED <<natives, wanted, format, opened, playing, queue, count, stale, changes>>

\* st_audio_stop tells the thread to end ...
Stop ==
    /\ run' = (run /\ ~started)
    /\ UNCHANGED <<started, thread, natives, wanted, format, opened, playing,
                   queue, count, stale, changes>>

JoinedAtOnce == TRUE

\* ... and waits for it.
Joined == started => thread = "done"

-----------------------------------------------------------------------------
(***************************************************************************)
(* A change of the guest's format is noticed: no more than Every blocks are *)
(* queued in the old one, and the queue never exceeds its target however    *)
(* the drain, the refill and the guest interleave (audio_main).             *)
(***************************************************************************)
HeardInTime == stale <= Every /\ queue <= Buffers
=============================================================================
