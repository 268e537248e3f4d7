---------------------------- MODULE LifecycleProofs ----------------------------
(***************************************************************************)
(* What holds of the life of the program for any libraries, launches,       *)
(* buttons, deadlines and formats.                                          *)
(*                                                                          *)
(* The components share no variable, so each has an invariant of its own    *)
(* and a lemma that says which of its steps the program can take; a step of *)
(* another component leaves its variables alone.                            *)
(***************************************************************************)
EXTENDS Lifecycle, WellFoundedInduction, SequenceTheorems, TLAPS

-----------------------------------------------------------------------------
(***************************************************************************)
(* The way back into the tutorial.                                          *)
(***************************************************************************)
\* Of the program only a poll of the pads and the guest's menus touch it.
LEMMA TutorialSteps ==
    ASSUME [Next]_vars
    PROVE  TutorialPoll \/ GameMove \/ UNCHANGED tutorial
<1>1. CASE UNCHANGED vars
  BY <1>1 DEF vars
<1>2. CASE Poll
  BY <1>2 DEF Poll
<1>3. CASE GuestRuns
  BY <1>3 DEF GuestRuns
<1>4. CASE Die \/ Signal \/ Fault \/ AudioRuns \/ Drains \/ WatchdogRuns
           \/ TimePasses \/ WatchdogBites
  BY <1>4 DEF Die, Signal, Fault, AudioRuns, Drains, WatchdogRuns, TimePasses,
              WatchdogBites, Others
<1>5. CASE Main /\ ~Poll
  BY <1>5
     DEF Main, Claim, Receipts, InstallHandlers, StartWatchdog, Shims, LoadModules,
         OpenNext, Construct, TellLoaded, NativeLoaded, ResumeUnity, StartAudio, Seed,
         CheckExit, Render, VideoFails, CountFrame, Pause, CloseInput, StopAudio,
         JoinAudio, Flush, Exit, NativeDone, Others
<1> QED
  BY <1>1, <1>2, <1>3, <1>4, <1>5 DEF Next

Acts == GameActions \cup {"port"}

TutorialInv ==
    /\ first \in Buttons
    /\ set \in [Buttons -> GameActions]
    /\ click \in [Buttons -> Acts]
    /\ owned \in [button : Buttons \cup {None}, original : GameActions \cup {"none"}]
    /\ live \in Int
    /\ GameKeepsItsActions

\* Without handles every button carries the game's action.
LEMMA AllTheGames ==
    ASSUME TutorialInv, owned.button = None
    PROVE  click = set
<1>1. \A b \in Buttons : click[b] = set[b]
  BY TutorialAssumption DEF TutorialInv, GameKeepsItsActions
<1> QED
  BY <1>1 DEF TutorialInv

LEMMA RestoreKeeps ==
    ASSUME TutorialInv, Restore, UNCHANGED <<first, set>>
    PROVE  TutorialInv'
<1>1. owned' = Unowned /\ live' = 0 /\ owned'.button = None
  BY DEF Restore, Unowned, TutorialInv, GameKeepsItsActions
<1>2. CASE StillOurs
  <2> DEFINE o == owned.button
  <2>1. o \in Buttons /\ click[o] = "port" /\ set[o] \in GameActions
    BY <1>2 DEF StillOurs, TutorialInv
  <2>2. owned.original = set[o]
    BY <2>1 DEF TutorialInv, GameKeepsItsActions, GameActions
  <2>3. click' = [click EXCEPT ![o] = set[o]]
    BY <1>2, <2>2 DEF Restore
  <2>4. click' \in [Buttons -> Acts]
    BY <2>1, <2>3 DEF TutorialInv, Acts
  <2>5. \A b \in Buttons : click'[b] = set[b]
    BY <2>1, <2>3 DEF TutorialInv, GameKeepsItsActions
  <2> QED
    BY <1>1, <2>4, <2>5 DEF TutorialInv, GameKeepsItsActions, Unowned
<1>3. CASE ~StillOurs
  <2>1. click' = click
    BY <1>3 DEF Restore
  <2>2. \A b \in Buttons : click[b] = set[b]
    BY <1>3, TutorialAssumption DEF StillOurs, TutorialInv, GameKeepsItsActions
  <2> QED
    BY <1>1, <2>1, <2>2 DEF TutorialInv, GameKeepsItsActions, Unowned
<1> QED
  BY <1>2, <1>3

LEMMA OfferKeeps ==
    ASSUME TutorialInv, Offer, owned.button = None, UNCHANGED <<first, set>>
    PROVE  TutorialInv'
<1>1. CASE UNCHANGED <<click, active, owned, live>>
  BY <1>1 DEF TutorialInv, GameKeepsItsActions
<1>2. CASE /\ owned' = [button |-> first, original |-> click[first]]
           /\ live' = live + 3
           /\ click' = [click EXCEPT ![first] = "port"]
  <2>1. click = set /\ first \in Buttons /\ first # None /\ live = 0
    BY AllTheGames, TutorialAssumption DEF TutorialInv, GameKeepsItsActions
  <2>2. owned'.button = first /\ owned'.original = set[first] /\ live' = 3
    BY <1>2, <2>1
  <2>3. owned' \in [button : Buttons \cup {None}, original : GameActions \cup {"none"}]
    BY <1>2, <2>1 DEF TutorialInv
  <2>4. /\ click' \in [Buttons -> Acts]
        /\ click'[first] = "port"
        /\ \A b \in Buttons \ {first} : click'[b] = set[b]
    BY <1>2, <2>1 DEF TutorialInv, Acts
  <2> QED
    BY <2>1, <2>2, <2>3, <2>4 DEF TutorialInv, GameKeepsItsActions
<1> QED
  BY <1>1, <1>2 DEF Offer

LEMMA PollKeeps ==
    ASSUME TutorialInv, TutorialPoll
    PROVE  TutorialInv'
<1>1. UNCHANGED <<first, set>>
  BY DEF TutorialPoll
<1>2. Restore \/ (Offer /\ owned.button = None) \/ UNCHANGED <<click, active, owned, live>>
  BY DEF TutorialPoll
<1>3. CASE UNCHANGED <<click, active, owned, live>>
  BY <1>1, <1>3 DEF TutorialInv, GameKeepsItsActions
<1> QED
  BY <1>1, <1>2, <1>3, RestoreKeeps, OfferKeeps

LEMMA MoveKeeps ==
    ASSUME TutorialInv, GameMove
    PROVE  TutorialInv'
<1>1. UNCHANGED <<owned, live>>
  BY DEF GameMove
<1>2. CASE UNCHANGED <<first, click, set>>
  BY <1>1, <1>2 DEF TutorialInv, GameKeepsItsActions
<1>3. ASSUME NEW b \in Buttons, NEW a \in GameActions, first' \in Buttons,
             click' = [click EXCEPT ![b] = a], set' = [set EXCEPT ![b] = a]
      PROVE  TutorialInv'
  <2>1. click' \in [Buttons -> Acts] /\ set' \in [Buttons -> GameActions]
    BY <1>3 DEF TutorialInv, Acts
  <2>2. \A c \in Buttons : click'[c] # set'[c] =>
            click[c] # set[c] /\ click'[c] = click[c] /\ set'[c] = set[c]
    BY <1>3 DEF TutorialInv
  <2> QED
    BY <1>1, <1>3, <2>1, <2>2 DEF TutorialInv, GameKeepsItsActions
<1>4. \/ UNCHANGED <<first, click, set>>
      \/ \E b \in Buttons, a \in GameActions :
            /\ first' \in Buttons
            /\ click' = [click EXCEPT ![b] = a] /\ set' = [set EXCEPT ![b] = a]
  BY DEF GameMove, GameActions, TutorialInv
<1> QED
  BY <1>2, <1>3, <1>4

LEMMA TutorialStarts == ASSUME TutorialInit PROVE TutorialInv
<1>1. \E b \in Buttons : TRUE
  BY TutorialAssumption
<1>2. first \in Buttons
  BY <1>1 DEF TutorialInit
<1> QED
  BY <1>2 DEF TutorialInit, TutorialInv, GameKeepsItsActions, Acts, GameActions, Unowned

(***************************************************************************)
(* Whatever the game does with its board between two polls, its buttons     *)
(* carry its own actions and the port takes back what it put there          *)
(* (restore and st_tutorial_return_poll).                                   *)
(***************************************************************************)
THEOREM ButtonsKeepTheirActions == Spec => []GameKeepsItsActions
<1>1. Init => TutorialInv
  BY TutorialStarts DEF Init
<1>2. TutorialInv /\ [Next]_vars => TutorialInv'
  <2> SUFFICES ASSUME TutorialInv, [Next]_vars PROVE TutorialInv'
    OBVIOUS
  <2>1. CASE UNCHANGED tutorial
    BY <2>1 DEF tutorial, TutorialInv, GameKeepsItsActions
  <2> QED
    BY <2>1, TutorialSteps, PollKeeps, MoveKeeps
<1>3. TutorialInv => GameKeepsItsActions
  BY DEF TutorialInv
<1> QED
  BY <1>1, <1>2, <1>3, PTL DEF Spec

-----------------------------------------------------------------------------
(***************************************************************************)
(* The watchdog.                                                            *)
(***************************************************************************)
\* The step of another component, or one of these.
LEMMA WatchdogSteps ==
    ASSUME [Next]_vars, frame \in Nat
    PROVE  \/ UNCHANGED watchdog
           \/ Elapse \/ Arm \/ RenderReady \/ WatchdogThread
           \/ \E n \in Nat \ {0} : FrameComplete(n)
<1>1. CASE UNCHANGED vars
  BY <1>1 DEF vars
<1>2. CASE StartWatchdog \/ Seed \/ TimePasses \/ WatchdogRuns
  BY <1>2 DEF StartWatchdog, Seed, TimePasses, WatchdogRuns
<1>3. CASE CountFrame
  <2>1. frame' \in Nat \ {0}
    BY <1>3, LifecycleAssumption DEF CountFrame
  <2> QED
    BY <1>3, <2>1 DEF CountFrame
<1>4. CASE Die \/ Signal \/ Fault \/ GuestRuns \/ AudioRuns \/ Drains \/ WatchdogBites
  BY <1>4 DEF Die, Signal, Fault, GuestRuns, AudioRuns, Drains, WatchdogBites, Others
<1>5. CASE Main /\ ~StartWatchdog /\ ~Seed /\ ~CountFrame
  BY <1>5
     DEF Main, Claim, Receipts, InstallHandlers, Shims, LoadModules, OpenNext, Construct,
         TellLoaded, NativeLoaded, ResumeUnity, StartAudio, Poll, CheckExit, Render,
         VideoFails, Pause, CloseInput, StopAudio, JoinAudio, Flush, Exit, NativeDone,
         Others
<1> QED
  BY <1>1, <1>2, <1>3, <1>4, <1>5 DEF Next

FrameCounted == frame \in Nat

LEMMA FrameStaysCounted ==
    ASSUME [Next]_vars, FrameCounted
    PROVE  FrameCounted'
<1>1. CASE CountFrame
  BY <1>1, LifecycleAssumption DEF CountFrame, FrameCounted
<1>2. CASE ~CountFrame
  <2>1. UNCHANGED frame
    BY <1>2
       DEF Next, Main, Claim, Receipts, InstallHandlers, StartWatchdog, Shims, LoadModules,
           OpenNext, Construct, TellLoaded, NativeLoaded, ResumeUnity, StartAudio, Seed,
           Poll, CheckExit, Render, VideoFails, Pause, CloseInput, StopAudio, JoinAudio,
           Flush, Exit, NativeDone, Die, Signal, Fault, GuestRuns, AudioRuns, Drains,
           WatchdogRuns, TimePasses, WatchdogBites, Rest, NothingElse, vars, main
  <2> QED
    BY <2>1 DEF FrameCounted
<1> QED
  BY <1>1, <1>2

\* What the thread may have read.
Looks == [now : Nat, frame : Nat, progress : Nat, ready : BOOLEAN]

\* What the thread has read is of the past: a first frame that was not there
\* when it read the counter can only have come after the clock it read.
WatchdogTypes ==
    /\ time \in 0..MaxTime
    /\ limits \in [startup : Nat, stall : Nat]
    /\ frames \in [n : Nat, first : Nat \cup {NoTime}]
    /\ look \in Looks
    /\ progress \in Nat /\ ready \in BOOLEAN
    /\ look.now <= time

NotBefore(t) == frames.first = NoTime \/ frames.first >= t

WatchdogInv ==
    /\ WatchdogTypes
    /\ frames.n = 0 => frames.first = NoTime
    /\ dog \in {"progress", "judge"} /\ look.frame = 0 => NotBefore(look.now)
    /\ dog = "startup" => NotBefore(limits.startup) /\ time >= limits.startup

LEMMA SmallRemainder ==
    ASSUME NEW a \in Nat, NEW b \in Nat, a < b
    PROVE  a % b = a
  OBVIOUS

\* No difference of the watchdog wraps.
LEMMA NoWrap == ASSUME NEW t \in 0..MaxTime PROVE Minus(t, 0) = t
<1>1. t - 0 = t /\ t \in Nat /\ Wrap \in Nat /\ t < Wrap
  BY WatchdogAssumption
<1> QED
  BY <1>1, SmallRemainder DEF Minus

LEMMA NothingRead == Nothing \in Looks /\ Nothing.now = 0
  BY DEF Nothing, Looks

LEMMA WatchdogThreadKeeps ==
    ASSUME WatchdogInv, WatchdogThread
    PROVE  WatchdogInv'
<1> USE DEF WatchdogInv, WatchdogTypes, Looks, NotBefore, NoTime
<1>1. UNCHANGED <<time, limits, frames, progress, ready>>
  BY DEF WatchdogThread
<1>2. CASE Wake
  BY <1>1, <1>2 DEF Wake
<1>3. CASE ReadClock
  <2>1. /\ look' = [look EXCEPT !.now = time] /\ dog' = "frame"
        /\ look'.now = time
        /\ look' \in Looks
    BY <1>3 DEF ReadClock
  <2> QED
    BY <1>1, <2>1
<1>4. CASE ReadFrame
  <2>1. /\ dog' = "progress"
        /\ look'.frame = frames.n /\ look'.now = look.now
        /\ look' \in Looks
    BY <1>4 DEF ReadFrame
  <2> QED
    BY <1>1, <2>1
<1>5. CASE ReadProgress
  <2>1. /\ dog = "progress" /\ dog' = "judge"
        /\ look'.frame = look.frame /\ look'.now = look.now
        /\ look' \in Looks
    BY <1>5 DEF ReadProgress
  <2> QED
    BY <1>1, <2>1
<1>6. CASE Judge
  <2>1. dog = "judge" /\ dog' \in {"startup", "stall", "sleep"}
    BY <1>6 DEF Judge
  <2>2. look' = look \/ look' = Nothing
    BY <1>6 DEF Judge
  <2>3. look' \in Looks /\ look'.now <= time
    BY <2>2, NothingRead
  <2>4. ASSUME dog' = "startup"
        PROVE  NotBefore(limits.startup) /\ time >= limits.startup
    <3>1. TooLate(look)
      BY <1>6, <2>4 DEF Judge
    <3>2. look.now \in 0..MaxTime
      BY WatchdogAssumption
    <3>3. look.frame = 0 /\ look.now >= limits.startup
      BY <3>1, <3>2, NoWrap DEF TooLate
    <3> QED
      BY <2>1, <3>3
  <2> QED
    BY <1>1, <2>1, <2>3, <2>4
<1> QED
  BY <1>2, <1>3, <1>4, <1>5, <1>6 DEF WatchdogThread

LEMMA FrameCompleteKeeps ==
    ASSUME WatchdogInv, NEW n \in Nat \ {0}, FrameComplete(n)
    PROVE  WatchdogInv'
<1> USE DEF WatchdogInv, WatchdogTypes, NotBefore, NoTime
<1>1. UNCHANGED <<time, limits, ready, dog, look>>
  BY DEF FrameComplete
<1>2. CASE ~armed
  BY <1>1, <1>2 DEF FrameComplete
<1>3. CASE armed
  <2>1. /\ progress' = time /\ frames'.n = n
        /\ frames'.first = IF frames.n = 0 THEN time ELSE frames.first
        /\ frames' \in [n : Nat, first : Nat \cup {NoTime}]
    BY <1>3, WatchdogAssumption DEF FrameComplete
  <2> QED
    BY <1>1, <2>1, WatchdogAssumption
<1> QED
  BY <1>2, <1>3

LEMMA WatchdogStarts ==
    ASSUME Init
    PROVE  WatchdogInv
<1>1. launch.limits \in [startup : Nat, stall : Nat]
  BY LifecycleAssumption DEF Init
<1>2. /\ time = 0 /\ limits = launch.limits /\ dog = "off" /\ look = Nothing
      /\ progress = 0 /\ ready = FALSE /\ frames = [n |-> 0, first |-> NoTime]
  BY DEF Init, WatchdogInit
<1>3. frames \in [n : Nat, first : Nat \cup {NoTime}] /\ frames.first = NoTime
  BY <1>2
<1>4. WatchdogTypes
  <2>1. time \in 0..MaxTime /\ progress \in Nat
    BY <1>2, WatchdogAssumption
  <2>2. look \in Looks /\ look.now <= time
    BY <1>2, NothingRead
  <2>3. ready \in BOOLEAN
    BY <1>2
  <2> QED
    BY <1>1, <1>2, <1>3, <2>1, <2>2, <2>3 DEF WatchdogTypes
<1> QED
  BY <1>2, <1>3, <1>4 DEF WatchdogInv, NotBefore

(***************************************************************************)
(* A program that completed its first frame in time is never ended for not  *)
(* having started, for any deadline and however the two threads interleave: *)
(* the watchdog reads the clock before the counter (watchdog_thread).       *)
(***************************************************************************)
THEOREM WatchdogIsFair == Spec => []StartupFair
<1>1. Init => WatchdogInv /\ FrameCounted
  BY WatchdogStarts, 0 \in Nat DEF Init, FrameCounted
<1>2. WatchdogInv /\ FrameCounted /\ [Next]_vars => WatchdogInv' /\ FrameCounted'
  <2> SUFFICES ASSUME WatchdogInv, FrameCounted, [Next]_vars PROVE WatchdogInv'
    BY FrameStaysCounted
  <2> USE DEF WatchdogInv, WatchdogTypes, NotBefore, NoTime
  <2>1. CASE UNCHANGED watchdog
    BY <2>1 DEF watchdog
  <2>2. CASE Elapse
    <3>1. time' \in 0..MaxTime /\ time' = time + 1
      BY <2>2, WatchdogAssumption DEF Elapse
    <3>2. UNCHANGED <<limits, frames, progress, ready, dog, look>>
      BY <2>2 DEF Elapse
    <3> QED
      BY <3>1, <3>2 DEF Looks
  <2>3. CASE Arm
    BY <2>3 DEF Arm
  <2>4. CASE RenderReady
    BY <2>4 DEF RenderReady
  <2> QED
    BY <2>1, <2>2, <2>3, <2>4, WatchdogSteps, WatchdogThreadKeeps, FrameCompleteKeeps
       DEF FrameCounted
<1>3. WatchdogInv => StartupFair
  BY DEF WatchdogInv, NotBefore, StartupFair
<1> QED
  BY <1>1, <1>2, <1>3, PTL DEF Spec

-----------------------------------------------------------------------------
(***************************************************************************)
(* The end of the program.                                                  *)
(***************************************************************************)
\* The main thread starts and stops the audio thread at one place each.
LEMMA AudioSteps ==
    ASSUME [Next]_vars
    PROVE  \/ UNCHANGED audio
           \/ AudioThread \/ Drain \/ GuestAudio \/ Stop
           \/ pc = "audio" /\ Start
<1>1. CASE UNCHANGED vars
  BY <1>1 DEF vars
<1>2. CASE StartAudio \/ StopAudio \/ AudioRuns \/ Drains \/ GuestRuns
  BY <1>2 DEF StartAudio, From, StopAudio, AudioRuns, Drains, GuestRuns
<1>3. CASE Die \/ Signal \/ Fault \/ WatchdogRuns \/ TimePasses \/ WatchdogBites
  BY <1>3 DEF Die, Signal, Fault, WatchdogRuns, TimePasses, WatchdogBites, Others
<1>4. CASE Main /\ ~StartAudio /\ ~StopAudio
  BY <1>4
     DEF Main, Claim, Receipts, InstallHandlers, StartWatchdog, Shims, LoadModules,
         OpenNext, Construct, TellLoaded, NativeLoaded, ResumeUnity, Seed, Poll,
         CheckExit, Render, VideoFails, CountFrame, Pause, CloseInput, JoinAudio, Flush,
         Exit, NativeDone, Others
<1> QED
  BY <1>1, <1>2, <1>3, <1>4 DEF Next

Silenced == thread \in {"none", "done"}

AudioInv ==
    /\ started \in BOOLEAN /\ playing \in BOOLEAN
    /\ thread \in {"none", "natives", "idle", "prime", "prime_mix", "steady",
                   "steady_mix", "close", "done"}
    /\ ~started => thread = "none"
    /\ playing => thread \in {"steady", "steady_mix", "close"}

LEMMA AudioKeeps ==
    ASSUME AudioInv, [Next]_vars
    PROVE  AudioInv' /\ (Silenced /\ pc # "audio" => Silenced')
<1> USE DEF AudioInv, Silenced
<1>1. CASE UNCHANGED audio
  BY <1>1 DEF audio
<1>2. CASE AudioThread
  <2>1. UNCHANGED started
    BY <1>2 DEF AudioThread, WaitNatives, OpenOutput, Prime, Steady, Mix, Close, Still
  <2>2. CASE WaitNatives
    BY <2>1, <2>2 DEF WaitNatives, Goto
  <2>3. CASE OpenOutput
    BY <2>1, <2>3 DEF OpenOutput, Goto
  <2>4. CASE Prime
    BY <2>1, <2>4 DEF Prime, Goto
  <2>5. CASE Steady
    BY <2>1, <2>5 DEF Steady, Goto
  <2>6. CASE Mix
    <3>1. /\ thread \in {"prime_mix", "steady_mix"}
          /\ \/ /\ thread' = IF thread = "prime_mix" THEN "prime" ELSE "steady"
                /\ playing' = playing
             \/ /\ thread' = IF thread = "prime_mix" THEN "steady" ELSE "close"
                /\ playing' = TRUE
             \/ thread = "steady_mix" /\ thread' = "steady" /\ playing' = playing
      BY <2>6 DEF Mix, Goto
    <3>2. ASSUME playing' = playing PROVE AudioInv'
      BY <2>1, <3>1, <3>2
    <3>3. ASSUME playing' = TRUE, thread' \in {"steady", "close"} PROVE AudioInv'
      BY <2>1, <3>1, <3>3
    <3>4. Silenced => FALSE
      BY <3>1
    <3> QED
      BY <3>1, <3>2, <3>3, <3>4 DEF AudioInv
  <2>7. CASE Close
    BY <2>1, <2>7 DEF Close, Goto
  <2> QED
    BY <1>2, <2>2, <2>3, <2>4, <2>5, <2>6, <2>7 DEF AudioThread
<1>3. CASE Drain \/ GuestAudio
  BY <1>3 DEF Drain, GuestAudio
<1>4. CASE Stop
  BY <1>4 DEF Stop
<1>5. CASE pc = "audio" /\ Start
  BY <1>5 DEF Start
<1> QED
  BY <1>1, <1>2, <1>3, <1>4, <1>5, AudioSteps

\* What the teardown has done when it is at a place.
Teardown ==
    /\ failed \subseteq {"video", "input"}
    /\ pc \in {"close", "stop", "join", "flush", "exit", "done"} => paused
    /\ pc \in {"flush", "exit"} => Silenced
    /\ pc = "exit" => ~unsaved
    /\ pc = "done" => launch.nativeDone

ExitInv == AudioInv /\ Teardown /\ ExitTruthful

\* What a step does to the places of the teardown.
LEMMA TeardownKeeps ==
    ASSUME AudioInv, Teardown, [Next]_vars
    PROVE  Teardown'
<1>1. ASSUME UNCHANGED <<launch, failed, paused, unsaved>>, pc' = pc \/ pc' = "gone"
      PROVE  Teardown'
  BY <1>1, AudioKeeps DEF Teardown
<1>2. CASE UNCHANGED vars \/ Die \/ Fault \/ GuestRuns \/ AudioRuns \/ Drains
           \/ WatchdogRuns \/ TimePasses \/ WatchdogBites \/ Signal
  BY <1>1, <1>2
     DEF vars, main, Die, Signal, Fault, GuestRuns, AudioRuns, Drains, WatchdogRuns,
         TimePasses, WatchdogBites, NothingElse, Leave
<1>3. CASE Main
  <2>1. CASE Claim \/ Receipts \/ InstallHandlers \/ StartWatchdog \/ Shims \/ LoadModules
             \/ OpenNext \/ Construct \/ TellLoaded \/ NativeLoaded \/ ResumeUnity
             \/ StartAudio \/ Seed
    <3>1. UNCHANGED <<launch, failed, paused>>
      BY <2>1
         DEF Claim, Receipts, InstallHandlers, StartWatchdog, Shims, LoadModules, OpenNext,
             Construct, TellLoaded, NativeLoaded, ResumeUnity, StartAudio, Seed, Rest
    <3>2. pc' \in {"receipts", "handlers", "arm", "preinit", "load", "open", "onload",
                   "loaded", "unity", "audio", "seed", "poll"}
      BY <2>1
         DEF Claim, Receipts, InstallHandlers, StartWatchdog, Shims, LoadModules, OpenNext,
             Construct, TellLoaded, NativeLoaded, ResumeUnity, StartAudio, Seed, From
    <3> QED
      BY <3>1, <3>2 DEF Teardown
  <2>2. CASE Poll \/ CheckExit \/ Render \/ VideoFails \/ CountFrame
    <3>1. UNCHANGED launch /\ failed' \subseteq {"video", "input"}
      BY <2>2 DEF Teardown, Poll, CheckExit, Render, VideoFails, CountFrame, Rest
    <3>2. pc' \in {"poll", "check", "pause", "render", "judge"}
      BY <2>2 DEF Poll, CheckExit, Render, VideoFails, CountFrame, From
    <3> QED
      BY <3>1, <3>2 DEF Teardown
  <2>3. CASE Pause \/ CloseInput \/ StopAudio
    BY <2>3 DEF Pause, CloseInput, StopAudio, From, Rest, Teardown
  <2>4. CASE JoinAudio
    <3>1. Silenced
      BY <2>4 DEF JoinAudio, Joined, AudioInv, Silenced
    <3>2. Silenced'
      BY <2>4, <3>1, AudioKeeps DEF JoinAudio, From
    <3> QED
      BY <2>4, <3>2 DEF JoinAudio, From, Rest, Teardown
  <2>5. CASE Flush
    <3>1. Silenced'
      BY <2>5, AudioKeeps DEF Flush, From, Teardown
    <3> QED
      BY <2>5, <3>1 DEF Flush, From, Teardown
  <2>6. CASE Exit \/ NativeDone
    BY <2>6 DEF Exit, NativeDone, Leave, NothingElse, Teardown
  <2> QED
    BY <1>3, <2>1, <2>2, <2>3, <2>4, <2>5, <2>6 DEF Main
<1> QED
  BY <1>2, <1>3 DEF Next

\* The program ends with a status of its own only at its last step, or in the
\* engine's own teardown.
LEMMA LeavingSteps ==
    ASSUME Teardown, [Next]_vars, status' \in {0, 70, 72}, ~launch.nativeDone
    PROVE  UNCHANGED vars \/ Exit
<1>1. CASE UNCHANGED vars
  BY <1>1
<1>2. CASE Die \/ Signal \/ Fault \/ WatchdogBites
  BY <1>2 DEF Next, Die, Signal, Fault, WatchdogBites, Leave, Killed, Running
<1>3. CASE GuestRuns \/ AudioRuns \/ Drains \/ WatchdogRuns \/ TimePasses
  BY <1>3 DEF Next, GuestRuns, AudioRuns, Drains, WatchdogRuns, TimePasses, main, Running
<1>4. CASE NativeDone
  BY <1>4 DEF NativeDone, Teardown
<1>5. CASE status = Running /\ Main /\ ~NativeDone /\ ~Exit
  <2>1. UNCHANGED status
    BY <1>5
       DEF Main, Claim, Receipts, InstallHandlers, StartWatchdog, Shims, LoadModules,
           OpenNext, Construct, TellLoaded, NativeLoaded, ResumeUnity, StartAudio, Seed,
           Poll, CheckExit, Render, VideoFails, CountFrame, Pause, CloseInput, StopAudio,
           JoinAudio, Flush, Rest
  <2> QED
    BY <1>5, <2>1 DEF Running
<1> QED
  BY <1>1, <1>2, <1>3, <1>4, <1>5 DEF Next

(***************************************************************************)
(* A program that leaves by itself has paused the game, has joined its      *)
(* audio thread and has no edit left it did not try to save, and its status *)
(* says what failed, wherever the request to end found the two threads      *)
(* (run_unity, st_audio_stop).                                              *)
(***************************************************************************)
THEOREM ExitSaysTheTruth == Spec => []ExitTruthful
<1>1. Init => ExitInv
  <2> SUFFICES ASSUME Init PROVE ExitInv
    OBVIOUS
  <2>1. AudioInv
    BY DEF Init, AudioInit, AudioInv
  <2>2. pc = "claim" /\ failed = {} /\ status = -1
    BY DEF Init, Running
  <2> QED
    BY <2>1, <2>2 DEF ExitInv, Teardown, ExitTruthful
<1>2. ExitInv /\ [Next]_vars => ExitInv'
  <2> SUFFICES ASSUME ExitInv, [Next]_vars PROVE ExitTruthful'
    BY AudioKeeps, TeardownKeeps DEF ExitInv
  <2>1. CASE UNCHANGED vars
    BY <2>1 DEF ExitInv, ExitTruthful, vars, main, audio
  <2>2. CASE Exit
    <3>1. /\ paused /\ ~unsaved /\ Silenced /\ ~playing /\ failed \subseteq {"video", "input"}
          /\ status' = ExitStatus
      BY <2>2 DEF Exit, Leave, ExitInv, AudioInv, Teardown, Silenced
    <3>2. UNCHANGED <<launch, failed, paused, unsaved, thread, playing>>
      BY <2>2 DEF Exit, NothingElse, Others, audio
    <3>3. /\ ExitStatus = 72 <=> "video" \in failed
          /\ ExitStatus = 70 <=> failed = {"input"}
      <4>1. CASE "video" \in failed
        BY <4>1 DEF ExitStatus
      <4>2. CASE "video" \notin failed /\ "input" \in failed
        <5>1. failed = {"input"}
          BY <3>1, <4>2
        <5> QED
          BY <4>2, <5>1 DEF ExitStatus
      <4>3. CASE "video" \notin failed /\ "input" \notin failed
        BY <4>3 DEF ExitStatus
      <4> QED
        BY <4>1, <4>2, <4>3
    <3> QED
      BY <3>1, <3>2, <3>3 DEF ExitTruthful, Silenced
  <2>3. CASE launch'.nativeDone \/ status' \notin {0, 70, 72}
    BY <2>3 DEF ExitTruthful
  <2>4. UNCHANGED launch
    BY DEF Next, Main, Claim, Receipts, InstallHandlers, StartWatchdog, Shims, LoadModules,
           OpenNext, Construct, TellLoaded, NativeLoaded, ResumeUnity, StartAudio, Seed,
           Poll, CheckExit, Render, VideoFails, CountFrame, Pause, CloseInput, StopAudio,
           JoinAudio, Flush, Exit, NativeDone, Die, Signal, Fault, GuestRuns, AudioRuns,
           Drains, WatchdogRuns, TimePasses, WatchdogBites, Rest, NothingElse, vars, main
  <2> QED
    BY <2>1, <2>2, <2>3, <2>4, LeavingSteps DEF ExitInv
<1>3. ExitInv => ExitTruthful
  BY DEF ExitInv
<1> QED
  BY <1>1, <1>2, <1>3, PTL DEF Spec

-----------------------------------------------------------------------------
(***************************************************************************)
(* The loader: who provides a symbol.                                       *)
(***************************************************************************)
LEMMA HasLeast ==
    ASSUME NEW T, T \subseteq Nat, T # {}
    PROVE  \E n \in T : \A k \in T : n <= k
<1>1. PICK n \in T : \A k \in T : ~ <<k, n>> \in OpToRel(<, Nat)
  BY NatLessThanWellFounded, WFMin
<1>2. \A k \in T : ~ (k < n)
  BY <1>1 DEF OpToRel
<1>3. n \in Nat /\ \A k \in T : k \in Nat
  OBVIOUS
<1> QED
  BY <1>2, <1>3

\* A lookup finds a module that defines the symbol, or there is none.
LEMMA FirstInFinds ==
    ASSUME NEW list \in Seq(Lib), NEW skip, NEW s
    PROVE  LET f == FirstIn(list, skip, s)
           IN  /\ f = Null <=> \A i \in 1..Len(list) :
                                  list[i] \in skip \/ s \notin Defines[list[i]]
               /\ f # Null => f \in Lib /\ s \in Defines[f]
<1> DEFINE here == {i \in 1..Len(list) : list[i] \notin skip /\ s \in Defines[list[i]]}
           f == FirstIn(list, skip, s)
<1>1. CASE here = {}
  BY <1>1 DEF FirstIn
<1>2. CASE here # {}
  <2>1. \E i \in here : \A j \in here : i <= j
    <3>1. here \subseteq Nat
      OBVIOUS
    <3> HIDE DEF here
    <3> QED
      BY <1>2, <3>1, HasLeast
  <2> DEFINE n == CHOOSE i \in here : \A j \in here : i <= j
  <2>2. n \in here
    BY <2>1
  <2>3. f = list[n]
    BY <1>2 DEF FirstIn
  <2>4. list[n] \in Lib /\ s \in Defines[list[n]] /\ list[n] \notin skip
    BY <2>2
  <2>5. Null \notin Lib
    BY LoaderAssumption
  <2> QED
    BY <2>2, <2>3, <2>4, <2>5
<1> QED
  BY <1>1, <1>2

\* The list of modules holds the first libraries, the newest first.
Mapped ==
    /\ mods \in Seq(Lib) /\ Len(mods) <= Len(Libs)
    /\ \A i \in 1..Len(mods) : mods[i] = Libs[Len(mods) + 1 - i]

LEMMA AllLoaded ==
    ASSUME Mapped, Len(mods) = Len(Libs)
    PROVE  /\ Loaded = Lib
           /\ \A m \in Lib : \E i \in 1..Len(mods) : mods[i] = m
<1>1. Len(Libs) \in Nat
  BY LoaderAssumption
<1>2. ASSUME NEW m \in Lib
      PROVE  \E i \in 1..Len(mods) : mods[i] = m
  <2>1. PICK k \in 1..Len(Libs) : Libs[k] = m
    BY DEF Lib
  <2>2. Len(mods) + 1 - k \in 1..Len(mods)
    BY <1>1
  <2>3. mods[Len(mods) + 1 - k] = Libs[Len(mods) + 1 - (Len(mods) + 1 - k)]
    BY <2>2 DEF Mapped
  <2>4. Len(mods) + 1 - (Len(mods) + 1 - k) = k
    BY <1>1
  <2> QED
    BY <2>1, <2>2, <2>3, <2>4
<1>3. \A i \in 1..Len(mods) : mods[i] \in Lib
  BY DEF Mapped
<1> QED
  BY <1>2, <1>3 DEF Loaded

\* What the relocations bind when every library is loaded.
LEMMA ResolveFinds ==
    ASSUME Mapped, Len(mods) = Len(Libs), NEW m \in Lib, NEW s,
           s \notin Defines[m]
    PROVE  LET r == Resolve(m, s)
           IN  /\ r = Null <=> s \notin Host /\ \A x \in Lib : s \notin Defines[x]
               /\ r \in Lib => s \in Defines[r]
<1>1. Table # Null /\ Table \notin Lib /\ Null \notin Lib
  BY LoaderAssumption
<1>2. CASE s \in Host
  BY <1>1, <1>2 DEF Resolve
<1>3. CASE s \notin Host
  <2> DEFINE other == FirstIn(mods, {m}, s)
             own == FirstIn(<<m>>, {}, s)
  <2>1. mods \in Seq(Lib)
    BY DEF Mapped
  <2>2. /\ other = Null <=> \A i \in 1..Len(mods) :
                               mods[i] \in {m} \/ s \notin Defines[mods[i]]
        /\ other # Null => other \in Lib /\ s \in Defines[other]
    BY <2>1, FirstInFinds
  <2>3. own = Null
    <3>1. <<m>> \in Seq(Lib) /\ Len(<<m>>) = 1 /\ <<m>>[1] = m
      OBVIOUS
    <3>2. {i \in 1..Len(<<m>>) : <<m>>[i] \notin {} /\ s \in Defines[<<m>>[i]]} = {}
      BY <3>1
    <3> QED
      BY <3>2 DEF FirstIn
  <2>4. Resolve(m, s) = IF other # Null THEN other ELSE own
    BY <1>3 DEF Resolve
  <2>5. other = Null <=> \A x \in Lib : s \notin Defines[x]
    <3> HIDE DEF other
    <3>1. ASSUME other = Null, NEW x \in Lib PROVE s \notin Defines[x]
      <4>1. PICK i \in 1..Len(mods) : mods[i] = x
        BY AllLoaded
      <4> QED
        BY <2>2, <3>1, <4>1
    <3>2. ASSUME other # Null PROVE \E x \in Lib : s \in Defines[x]
      BY <2>2, <3>2
    <3> QED
      BY <3>1, <3>2
  <2> HIDE DEF other, own
  <2> QED
    BY <1>1, <1>3, <2>2, <2>3, <2>4, <2>5
<1> QED
  BY <1>2, <1>3

Relocated ==
    bound # << >> => Len(mods) = Len(Libs) /\ bound = [m \in Lib |-> Apply(m)]

LEMMA RelocatedIsRight ==
    ASSUME Mapped, Relocated
    PROVE  BoundRight
<1> SUFFICES ASSUME NEW m \in DOMAIN bound, NEW s \in Needs[m]
             PROVE  /\ bound[m][s] = Null <=> s \notin Host /\ \A x \in Lib : s \notin Defines[x]
                    /\ s \in Defines[m] => bound[m][s] = m
                    /\ bound[m][s] \in Lib => s \in Defines[bound[m][s]]
  BY DEF BoundRight
<1>1. bound # << >>
  OBVIOUS
<1>2. Len(mods) = Len(Libs) /\ m \in Lib /\ bound[m] = Apply(m)
  BY <1>1 DEF Relocated
<1>3. bound[m][s] = IF s \in Defines[m] THEN m ELSE Resolve(m, s)
  BY <1>2 DEF Apply
<1>4. m # Null
  BY <1>2, LoaderAssumption
<1>5. CASE s \in Defines[m]
  BY <1>2, <1>3, <1>4, <1>5
<1>6. CASE s \notin Defines[m]
  BY <1>2, <1>3, <1>6, ResolveFinds
<1> QED
  BY <1>5, <1>6

-----------------------------------------------------------------------------
(***************************************************************************)
(* The loader: the stack of constructors.  What a stack and the counts r    *)
(* of the constructors say of each other is stated for any two of them.     *)
(***************************************************************************)
Call == [mod : Lib, i : Nat \ {0}]
EntriesOf(m) == 1..Len(Entries[m])

\* Every library is at most once on the stack, and only one that has begun.
StackOK(stack, begun) ==
    /\ stack \in Seq(Call)
    /\ \A j \in 1..Len(stack) : stack[j].mod \in begun
    /\ \A j, k \in 1..Len(stack) : stack[j].mod = stack[k].mod => j = k

Done(r, m, k) == Entries[m][k] # NoFn => r[m][k] = 1
AllRan(r, m) == \A k \in EntriesOf(m) : Done(r, m, k)
UnderWay(r, m, stack) ==
    \E j \in 1..Len(stack) :
        /\ stack[j].mod = m
        /\ \A k \in EntriesOf(m) : k < stack[j].i => Done(r, m, k)
Progress(r, stack, begun) ==
    \A m \in begun : AllRan(r, m) \/ UnderWay(r, m, stack)

\* A library that begins is new on the stack.
LEMMA BeginKeeps ==
    ASSUME NEW r, NEW stack, NEW begun, NEW m \in Lib, m \notin begun,
           StackOK(stack, begun), Progress(r, stack, begun)
    PROVE  LET more == <<[mod |-> m, i |-> 1]>> \o stack
           IN  /\ StackOK(more, begun \cup {m})
               /\ Progress(r, more, begun \cup {m})
<1> DEFINE new == [mod |-> m, i |-> 1]
           more == <<new>> \o stack
<1>1. new \in Call /\ new.mod = m /\ new.i = 1 /\ stack \in Seq(Call)
  BY DEF Call, StackOK
<1> HIDE DEF new
<1>2. /\ more \in Seq(Call) /\ Len(more) = Len(stack) + 1
      /\ more[1] = new /\ \A j \in 1..Len(stack) : more[j + 1] = stack[j]
  BY <1>1
<1>3. \A j \in 1..Len(more) : j = 1 \/ (j - 1 \in 1..Len(stack) /\ more[j] = stack[j - 1])
  BY <1>1, <1>2
<1> HIDE DEF more
<1>4. StackOK(more, begun \cup {m})
  <2>1. ASSUME NEW j \in 1..Len(more) PROVE more[j].mod \in begun \cup {m}
    BY <1>1, <1>2, <1>3 DEF StackOK
  <2>2. ASSUME NEW j \in 1..Len(more), NEW k \in 1..Len(more), more[j].mod = more[k].mod
        PROVE  j = k
    <3>1. CASE j = 1 /\ k = 1
      BY <3>1
    <3>2. CASE j # 1 /\ k # 1
      <4>1. /\ j - 1 \in 1..Len(stack) /\ more[j] = stack[j - 1]
            /\ k - 1 \in 1..Len(stack) /\ more[k] = stack[k - 1]
        BY <1>3, <3>2
      <4>2. j - 1 = k - 1
        BY <2>2, <4>1 DEF StackOK
      <4> QED
        BY <4>2
    <3>3. ASSUME NEW l \in 1..Len(more), l # 1 PROVE more[l].mod # m
      BY <1>3, <3>3 DEF StackOK
    <3>4. more[1].mod = m
      BY <1>1, <1>2
    <3> QED
      BY <2>2, <3>1, <3>2, <3>3, <3>4
  <2> QED
    BY <1>2, <2>1, <2>2 DEF StackOK
<1>5. ASSUME NEW x \in begun \cup {m}
      PROVE  AllRan(r, x) \/ UnderWay(r, x, more)
  <2>1. CASE x = m
    <3>1. UnderWay(r, x, more)
      BY <1>1, <1>2, <2>1 DEF UnderWay, EntriesOf
    <3> QED
      BY <3>1
  <2>2. CASE x \in begun /\ ~AllRan(r, x)
    <3>1. PICK j \in 1..Len(stack) :
             /\ stack[j].mod = x
             /\ \A k \in EntriesOf(x) : k < stack[j].i => Done(r, x, k)
      BY <2>2 DEF Progress, UnderWay
    <3>2. j + 1 \in 1..Len(more) /\ more[j + 1] = stack[j]
      BY <1>1, <1>2
    <3> QED
      BY <3>1, <3>2 DEF UnderWay
  <2> QED
    BY <2>1, <2>2
<1> QED
  BY <1>4, <1>5 DEF Progress, more, new

\* The call at the top that has gone through its array is over.
LEMMA PopKeeps ==
    ASSUME NEW r, NEW stack, NEW begun, stack # << >>,
           StackOK(stack, begun), Progress(r, stack, begun),
           Head(stack).i > Len(Entries[Head(stack).mod])
    PROVE  StackOK(Tail(stack), begun) /\ Progress(r, Tail(stack), begun)
<1> DEFINE less == Tail(stack)
<1>1. stack \in Seq(Call) /\ Head(stack) = stack[1] /\ Len(stack) \in Nat /\ Len(stack) > 0
  BY DEF StackOK
<1>2. /\ less \in Seq(Call) /\ Len(less) = Len(stack) - 1
      /\ \A j \in 1..Len(less) : less[j] = stack[j + 1]
  BY <1>1, HeadTailProperties
<1> HIDE DEF less
<1>3. StackOK(less, begun)
  <2>1. \A j \in 1..Len(less) : j + 1 \in 1..Len(stack)
    BY <1>1, <1>2
  <2>2. \A j \in 1..Len(less) : less[j].mod \in begun
    BY <1>2, <2>1 DEF StackOK
  <2>3. ASSUME NEW j \in 1..Len(less), NEW k \in 1..Len(less), less[j].mod = less[k].mod
        PROVE  j = k
    <3>1. j + 1 = k + 1
      BY <1>2, <2>1, <2>3 DEF StackOK
    <3> QED
      BY <3>1
  <2> QED
    BY <1>2, <2>2, <2>3 DEF StackOK
<1>4. ASSUME NEW m \in begun
      PROVE  AllRan(r, m) \/ UnderWay(r, m, less)
  <2>1. CASE ~AllRan(r, m)
    <3>1. PICK j \in 1..Len(stack) :
             /\ stack[j].mod = m
             /\ \A k \in EntriesOf(m) : k < stack[j].i => Done(r, m, k)
      BY <2>1 DEF Progress, UnderWay
    <3>2. j # 1
      <4>1. SUFFICES ASSUME j = 1 PROVE AllRan(r, m)
        BY <2>1
      <4>2. stack[1] \in Call /\ Len(Entries[m]) \in Nat
        <5>1. stack[1] \in Call
          BY <1>1, ElementOfSeq
        <5>2. m \in Lib
          BY <3>1, <4>1, <5>1 DEF Call
        <5>3. Entries[m] \in Seq(Lib \cup {NoLib, NoFn})
          BY <5>2, LoaderAssumption
        <5> QED
          BY <5>1, <5>3
      <4>3. \A k \in EntriesOf(m) : k < stack[1].i
        BY <1>1, <3>1, <4>1, <4>2 DEF EntriesOf, Call
      <4> QED
        BY <3>1, <4>1, <4>3 DEF AllRan
    <3>3. j - 1 \in 1..Len(less) /\ less[j - 1] = stack[j]
      BY <1>1, <1>2, <3>2
    <3> QED
      BY <3>1, <3>3 DEF UnderWay
  <2> QED
    BY <2>1
<1> QED
  BY <1>3, <1>4 DEF Progress, less

\* The call at the top goes on to the next entry, once it has run this one.
LEMMA AdvanceKeeps ==
    ASSUME NEW r, NEW q, NEW stack, NEW begun, stack # << >>,
           StackOK(stack, begun), Progress(r, stack, begun),
           \A m \in begun : \A k \in EntriesOf(m) : Done(r, m, k) => Done(q, m, k),
           Done(q, Head(stack).mod, Head(stack).i)
    PROVE  LET next == <<[Head(stack) EXCEPT !.i = @ + 1]>> \o Tail(stack)
           IN  StackOK(next, begun) /\ Progress(q, next, begun)
<1> DEFINE top == Head(stack)
           on == [top EXCEPT !.i = @ + 1]
           next == <<on>> \o Tail(stack)
<1>1. /\ stack \in Seq(Call) /\ top = stack[1] /\ Len(stack) \in Nat /\ Len(stack) > 0
      /\ top \in Call
  BY DEF StackOK
<1>2. on \in Call /\ on.mod = top.mod /\ on.i = top.i + 1
  BY <1>1 DEF Call
<1>3. /\ Tail(stack) \in Seq(Call) /\ Len(Tail(stack)) = Len(stack) - 1
      /\ \A j \in 1..Len(Tail(stack)) : Tail(stack)[j] = stack[j + 1]
  BY <1>1, HeadTailProperties
<1> HIDE DEF on
<1>4. /\ next \in Seq(Call) /\ Len(next) = Len(stack) /\ next[1] = on
      /\ \A j \in 1..Len(stack) : j # 1 => next[j] = stack[j]
  <2>1. <<on>> \in Seq(Call) /\ Len(<<on>>) = 1 /\ <<on>>[1] = on
    BY <1>2
  <2>2. /\ next \in Seq(Call) /\ Len(next) = 1 + Len(Tail(stack))
        /\ \A j \in 1..(1 + Len(Tail(stack))) :
              next[j] = IF j <= 1 THEN <<on>>[j] ELSE Tail(stack)[j - 1]
    <3>1. \A a, b \in Seq(Call) :
             /\ a \o b \in Seq(Call) /\ Len(a \o b) = Len(a) + Len(b)
             /\ \A j \in 1..(Len(a) + Len(b)) :
                   (a \o b)[j] = IF j <= Len(a) THEN a[j] ELSE b[j - Len(a)]
      BY ConcatProperties
    <3> QED
      BY <1>3, <2>1, <3>1
  <2> HIDE DEF next
  <2> QED
    BY <1>1, <1>3, <2>1, <2>2
<1> HIDE DEF next
<1>5. \A j \in 1..Len(stack) : next[j].mod = stack[j].mod
  BY <1>1, <1>2, <1>4
<1>6. StackOK(next, begun)
  BY <1>4, <1>5 DEF StackOK
<1>7. ASSUME NEW m \in begun
      PROVE  AllRan(q, m) \/ UnderWay(q, m, next)
  <2>1. CASE AllRan(r, m)
    BY <2>1 DEF AllRan
  <2>2. CASE ~AllRan(r, m)
    <3>1. PICK j \in 1..Len(stack) :
             /\ stack[j].mod = m
             /\ \A k \in EntriesOf(m) : k < stack[j].i => Done(r, m, k)
      BY <2>2 DEF Progress, UnderWay
    <3>2. next[j].mod = m /\ j \in 1..Len(next)
      BY <1>4, <1>5, <3>1
    <3>3. ASSUME NEW k \in EntriesOf(m), k < next[j].i
          PROVE  Done(q, m, k)
      <4>1. CASE k < stack[j].i
        BY <3>1, <4>1
      <4>2. CASE ~(k < stack[j].i)
        <5>1. j = 1
          BY <1>4, <3>3, <4>2
        <5>2. k = top.i
          <6>1. k \in Nat /\ top.i \in Nat
            BY <1>1 DEF EntriesOf, Call
          <6> QED
            BY <1>1, <1>2, <1>4, <3>3, <4>2, <5>1, <6>1
        <5> QED
          BY <1>1, <3>1, <5>1, <5>2
      <4> QED
        BY <4>1, <4>2
    <3> QED
      BY <3>2, <3>3 DEF UnderWay
  <2> QED
    BY <2>1, <2>2
<1> QED
  BY <1>6, <1>7 DEF Progress, next, on

\* An entry of the array is there until its constructor has run.
Arrays ==
    /\ array \in [Lib -> Seq(Lib \cup {NoLib, NoFn})] /\ DOMAIN ran = Lib
    /\ \A m \in Lib :
        /\ Len(array[m]) = Len(Entries[m]) /\ DOMAIN ran[m] = EntriesOf(m)
        /\ \A k \in EntriesOf(m) :
            /\ ran[m][k] \in {0, 1}
            /\ ran[m][k] = 0 => array[m][k] = Entries[m][k]
            /\ ran[m][k] = 1 => array[m][k] = NoFn

\* The first libraries have been told, and only once they were constructed.
Told ==
    /\ onloads \in Seq(Lib) /\ Len(onloads) <= Len(Libs)
    /\ \A j \in 1..Len(onloads) : onloads[j] = Libs[j] /\ AllRan(ran, onloads[j])

LoaderInv ==
    /\ Mapped /\ Relocated
    /\ inited \subseteq Lib /\ (inited # {} => bound # << >>)
    /\ StackOK(calls, inited) /\ Progress(ran, calls, inited)
    /\ Arrays /\ Told

LEMMA LoaderIsRight ==
    ASSUME LoaderInv
    PROVE  LinkedRight
<1>1. BoundRight
  BY RelocatedIsRight DEF LoaderInv
<1>2. \A m \in Lib : \A k \in DOMAIN ran[m] : ran[m][k] <= 1
  <2>1. ASSUME NEW m \in Lib, NEW k \in DOMAIN ran[m] PROVE ran[m][k] \in {0, 1}
    BY <2>1 DEF LoaderInv, Arrays
  <2> QED
    BY <2>1
<1>3. \A m \in Lib, j \in DOMAIN calls, k \in DOMAIN calls :
          calls[j].mod = m /\ calls[k].mod = m => j = k
  BY DEF LoaderInv, StackOK
<1>4. inited # {} => DOMAIN bound = Lib
  BY DEF LoaderInv, Relocated
<1>5. DOMAIN onloads = 1..Len(onloads) /\ Len(onloads) \in Nat /\ Len(Libs) \in Nat
  BY LoaderAssumption DEF LoaderInv, Told
<1>6. ASSUME NEW j \in DOMAIN onloads, NEW k \in DOMAIN onloads, onloads[j] = onloads[k]
      PROVE  j = k
  <2>1. j \in DOMAIN Libs /\ k \in DOMAIN Libs
    BY <1>5, LoaderAssumption DEF LoaderInv, Told
  <2>2. Libs[j] = Libs[k]
    BY <1>5, <1>6 DEF LoaderInv, Told
  <2> QED
    BY <2>1, <2>2, LoaderAssumption
<1>7. ASSUME NEW j \in DOMAIN onloads, NEW k \in DOMAIN ran[onloads[j]],
             Entries[onloads[j]][k] # NoFn
      PROVE  ran[onloads[j]][k] = 1
  <2>1. onloads[j] \in Lib /\ AllRan(ran, onloads[j])
    BY <1>5 DEF LoaderInv, Told
  <2>2. k \in EntriesOf(onloads[j])
    BY <2>1, <1>7 DEF LoaderInv, Arrays
  <2> QED
    BY <1>7, <2>1, <2>2 DEF AllRan, Done
<1> QED
  BY <1>1, <1>2, <1>3, <1>4, <1>6, <1>7 DEF LinkedRight, ConstructedOnce

\* The relocations stay as long as the list of modules does.
LEMMA RelocatedStays ==
    ASSUME Relocated, UNCHANGED <<mods, bound>>
    PROVE  Relocated'
  BY DEF Relocated, Apply, Resolve

LEMMA LoadKeeps ==
    ASSUME LoaderInv, Load
    PROVE  LoaderInv'
<1> DEFINE m == Libs[Len(mods) + 1]
<1>1. /\ mods \in Seq(Lib) /\ Len(mods) \in Nat /\ Len(Libs) \in Nat
      /\ Len(mods) < Len(Libs)
  BY LoaderAssumption DEF LoaderInv, Mapped, Load
<1>2. m \in Lib
  BY <1>1 DEF Lib
<1>3. mods' = <<m>> \o mods
  BY DEF Load, LoadFirst
<1>4. bound = << >> /\ bound' = << >>
  BY <1>1 DEF LoaderInv, Relocated, Load
<1> HIDE DEF m
<1>5. /\ mods' \in Seq(Lib) /\ Len(mods') = Len(mods) + 1 /\ mods'[1] = m
      /\ \A i \in 1..Len(mods') : i # 1 => mods'[i] = mods[i - 1]
  <2>1. <<m>> \in Seq(Lib) /\ Len(<<m>>) = 1 /\ <<m>>[1] = m
    BY <1>2
  <2>2. \A a, b \in Seq(Lib) :
           /\ a \o b \in Seq(Lib) /\ Len(a \o b) = Len(a) + Len(b)
           /\ \A j \in 1..(Len(a) + Len(b)) :
                 (a \o b)[j] = IF j <= Len(a) THEN a[j] ELSE b[j - Len(a)]
    BY ConcatProperties
  <2> QED
    BY <1>1, <1>3, <2>1, <2>2
<1>6. \A i \in 1..Len(mods') : mods'[i] = Libs[Len(mods') + 1 - i]
  <2> SUFFICES ASSUME NEW i \in 1..Len(mods') PROVE mods'[i] = Libs[Len(mods') + 1 - i]
    OBVIOUS
  <2>1. CASE i = 1
    BY <1>1, <1>5, <2>1 DEF m
  <2>2. CASE i # 1
    <3>1. i - 1 \in 1..Len(mods)
      BY <1>1, <1>5, <2>2
    <3>2. mods'[i] = Libs[Len(mods) + 1 - (i - 1)]
      BY <1>5, <2>2, <3>1 DEF LoaderInv, Mapped
    <3>3. Len(mods) + 1 - (i - 1) = Len(mods') + 1 - i
      BY <1>1, <1>5
    <3> QED
      BY <3>2, <3>3
  <2> QED
    BY <2>1, <2>2
<1>7. Mapped' /\ Relocated'
  BY <1>1, <1>4, <1>5, <1>6 DEF Mapped, Relocated
<1> QED
  BY <1>4, <1>7 DEF Load, LoaderInv, Arrays, Told

LEMMA RelocateKeeps ==
    ASSUME LoaderInv, RelocateAll
    PROVE  LoaderInv'
<1>1. Len(mods) = Len(Libs) /\ UNCHANGED mods /\ Loaded = Lib
  BY AllLoaded DEF RelocateAll, LoaderInv
<1>2. bound' = [m \in Lib |-> Apply(m)]
  BY <1>1 DEF RelocateAll, Relocate
<1>3. Relocated'
  BY <1>1, <1>2 DEF Relocated, Apply, Resolve
<1>4. inited = {} /\ inited' = {}
  BY DEF RelocateAll, LoaderInv
<1> QED
  BY <1>1, <1>3, <1>4 DEF RelocateAll, LoaderInv, Mapped, Arrays, Told

\* A library that begins, or that has begun before.
LEMMA RunInitKeeps ==
    ASSUME NEW r, NEW stack, NEW m \in Lib,
           StackOK(stack, inited), Progress(r, stack, inited), RunInit(m, stack)
    PROVE  StackOK(calls', inited') /\ Progress(r, calls', inited')
<1>1. CASE m \in inited
  <2>1. calls' = stack /\ inited' = inited
    BY <1>1 DEF RunInit, Begun
  <2> QED
    BY <2>1
<1>2. CASE m \notin inited
  <2>1. calls' = <<[mod |-> m, i |-> 1]>> \o stack /\ inited' = inited \cup {m}
    BY <1>2 DEF RunInit, Begun
  <2> QED
    BY <1>2, <2>1, BeginKeeps
<1> QED
  BY <1>1, <1>2

LEMMA OpenKeeps ==
    ASSUME LoaderInv, NEW m \in Lib, Open(m)
    PROVE  LoaderInv'
<1>1. UNCHANGED <<mods, bound, array, ran, onloads>> /\ bound # << >> /\ calls = << >>
  BY DEF Open
<1>2. RunInit(m, calls)
  BY <1>1 DEF Open
<1>3. StackOK(calls', inited') /\ Progress(ran', calls', inited')
  BY <1>1, <1>2, RunInitKeeps DEF LoaderInv
<1>4. inited' \subseteq Lib
  BY <1>2 DEF RunInit, LoaderInv
<1>5. Relocated'
  BY <1>1, RelocatedStays DEF LoaderInv
<1> QED
  BY <1>1, <1>3, <1>4, <1>5 DEF LoaderInv, Mapped, Arrays, Told

LEMMA PoppedKeeps ==
    ASSUME LoaderInv, Constructed
    PROVE  LoaderInv'
<1>1. UNCHANGED <<mods, bound, inited, array, ran, onloads>> /\ calls' = Tail(calls)
  BY DEF Constructed
<1>2. Head(calls) \in Call
  BY DEF Constructed, LoaderInv, StackOK
<1>3. Head(calls).i > Len(Entries[Head(calls).mod])
  BY <1>2 DEF Constructed, LoaderInv, Arrays, Call
<1>4. StackOK(calls', inited') /\ Progress(ran', calls', inited')
  BY <1>1, <1>3, PopKeeps DEF Constructed, LoaderInv
<1>5. Relocated'
  BY <1>1, RelocatedStays DEF LoaderInv
<1> QED
  BY <1>1, <1>4, <1>5 DEF LoaderInv, Mapped, Arrays, Told

LEMMA ToldKeeps ==
    ASSUME LoaderInv, Len(onloads) < Len(Libs), CallOnLoad(Current)
    PROVE  LoaderInv'
<1>1. UNCHANGED <<mods, bound, inited, array, calls, ran>>
  BY DEF CallOnLoad
<1>2. Len(onloads) \in Nat /\ Len(Libs) \in Nat /\ onloads \in Seq(Lib)
  BY LoaderAssumption DEF LoaderInv, Told
<1>3. Current \in Lib /\ Current = Libs[Len(onloads) + 1]
  BY <1>2 DEF Current, Lib
<1>4. onloads' = Append(onloads, Current)
  BY <1>3, LoaderAssumption DEF CallOnLoad, Sym
<1>5. AllRan(ran, Current)
  <2>1. calls = << >> /\ Current \in inited
    BY DEF CallOnLoad
  <2>2. ~UnderWay(ran, Current, calls)
    BY <2>1 DEF UnderWay
  <2> QED
    BY <2>1, <2>2 DEF LoaderInv, Progress
<1> HIDE DEF Current
<1>6. /\ onloads' \in Seq(Lib) /\ Len(onloads') = Len(onloads) + 1
      /\ \A j \in 1..Len(onloads) : onloads'[j] = onloads[j]
      /\ onloads'[Len(onloads) + 1] = Current
  BY <1>2, <1>3, <1>4, AppendProperties
<1>7. Told'
  <2>1. Len(onloads') <= Len(Libs)
    BY <1>2, <1>6
  <2>2. ASSUME NEW j \in 1..Len(onloads')
        PROVE  onloads'[j] = Libs[j] /\ AllRan(ran, onloads'[j])
    <3>1. CASE j = Len(onloads) + 1
      BY <1>3, <1>5, <1>6, <3>1
    <3>2. CASE j # Len(onloads) + 1
      <4>1. j \in 1..Len(onloads)
        BY <1>2, <1>6, <3>2
      <4> QED
        BY <1>6, <4>1 DEF LoaderInv, Told
    <3> QED
      BY <3>1, <3>2
  <2> QED
    BY <1>1, <1>6, <2>1, <2>2 DEF Told
<1>8. Relocated'
  BY <1>1, RelocatedStays DEF LoaderInv
<1> QED
  BY <1>1, <1>7, <1>8 DEF LoaderInv, Mapped, Arrays

\* An entry runs once: it was there, and it is cleared.
LEMMA EntryRuns ==
    ASSUME Arrays, NEW m \in Lib, NEW i \in EntriesOf(m), array[m][i] # NoFn,
           array' = [array EXCEPT ![m][i] = NoFn],
           ran' = [ran EXCEPT ![m][i] = @ + 1]
    PROVE  /\ Arrays'
           /\ ran'[m][i] = 1
           /\ \A x \in Lib : \A k \in EntriesOf(x) : Done(ran, x, k) => Done(ran', x, k)
<1>1. ran[m][i] = 0
  BY DEF Arrays
<1>2. array[m] \in Seq(Lib \cup {NoLib, NoFn}) /\ i \in 1..Len(array[m])
  BY DEF Arrays, EntriesOf
<1>3. /\ array'[m] = [array[m] EXCEPT ![i] = NoFn]
      /\ \A x \in Lib : x # m => array'[x] = array[x]
      /\ DOMAIN array' = Lib
  BY DEF Arrays
<1>4. /\ array'[m] \in Seq(Lib \cup {NoLib, NoFn}) /\ Len(array'[m]) = Len(array[m])
      /\ array'[m][i] = NoFn
      /\ \A k \in 1..Len(array[m]) : k # i => array'[m][k] = array[m][k]
  BY <1>2, <1>3, ExceptSeq
<1>5. /\ ran'[m] = [ran[m] EXCEPT ![i] = @ + 1]
      /\ \A x \in Lib : x # m => ran'[x] = ran[x]
      /\ DOMAIN ran' = Lib
  BY DEF Arrays
<1>6. /\ DOMAIN ran'[m] = EntriesOf(m) /\ ran'[m][i] = 1
      /\ \A k \in EntriesOf(m) : k # i => ran'[m][k] = ran[m][k]
  BY <1>1, <1>5 DEF Arrays
<1>7. array' \in [Lib -> Seq(Lib \cup {NoLib, NoFn})]
  BY <1>3, <1>4 DEF Arrays
<1>8. Arrays'
  <2> SUFFICES ASSUME NEW x \in Lib
               PROVE  /\ Len(array'[x]) = Len(Entries[x]) /\ DOMAIN ran'[x] = EntriesOf(x)
                      /\ \A k \in EntriesOf(x) :
                          /\ ran'[x][k] \in {0, 1}
                          /\ ran'[x][k] = 0 => array'[x][k] = Entries[x][k]
                          /\ ran'[x][k] = 1 => array'[x][k] = NoFn
    BY <1>5, <1>7 DEF Arrays
  <2>1. CASE x = m
    BY <1>4, <1>6, <2>1 DEF Arrays, EntriesOf
  <2>2. CASE x # m
    BY <1>3, <1>5, <2>2 DEF Arrays
  <2> QED
    BY <2>1, <2>2
<1>9. ASSUME NEW x \in Lib, NEW k \in EntriesOf(x), Done(ran, x, k)
      PROVE  Done(ran', x, k)
  BY <1>5, <1>6, <1>9 DEF Done
<1> QED
  BY <1>6, <1>8, <1>9

LEMMA ConstructorKeeps ==
    ASSUME LoaderInv, Constructor
    PROVE  LoaderInv'
<1> DEFINE top == Head(calls)
           next == <<[top EXCEPT !.i = @ + 1]>> \o Tail(calls)
           f == array[top.mod][top.i]
<1>1. UNCHANGED <<mods, bound, onloads>> /\ calls # << >>
  BY DEF Constructor
<1>2. /\ top.i <= Len(array[top.mod])
      /\ array' = IF f = NoFn THEN array ELSE [array EXCEPT ![top.mod][top.i] = NoFn]
      /\ ran' = IF f = NoFn THEN ran ELSE [ran EXCEPT ![top.mod][top.i] = @ + 1]
      /\ IF f \in {NoFn, NoLib} THEN calls' = next /\ UNCHANGED inited
                                ELSE RunInit(f, next)
  BY DEF Constructor
<1>3. top \in Call /\ top.mod \in inited
  <2>1. calls \in Seq(Call) /\ 1 \in 1..Len(calls) /\ top = calls[1]
    BY <1>1 DEF LoaderInv, StackOK
  <2> QED
    BY <2>1, ElementOfSeq DEF LoaderInv, StackOK
<1>4. top.mod \in Lib /\ top.i \in EntriesOf(top.mod) /\ top.i \in 1..Len(array[top.mod])
  <2>1. top.mod \in Lib /\ top.i \in Nat \ {0}
    BY <1>3 DEF Call
  <2>2. Len(array[top.mod]) = Len(Entries[top.mod]) /\ Len(array[top.mod]) \in Nat
    BY <2>1 DEF LoaderInv, Arrays
  <2> QED
    BY <1>2, <2>1, <2>2 DEF EntriesOf
<1>5. f \in Lib \cup {NoLib, NoFn}
  BY <1>4, ElementOfSeq DEF LoaderInv, Arrays
<1>6. /\ Arrays'
      /\ Done(ran', top.mod, top.i)
      /\ \A x \in Lib : \A k \in EntriesOf(x) : Done(ran, x, k) => Done(ran', x, k)
  <2>1. CASE f = NoFn
    <3>1. array' = array /\ ran' = ran
      BY <1>2, <2>1
    <3>2. ran[top.mod][top.i] = 0 => Entries[top.mod][top.i] = NoFn
      BY <1>4, <2>1 DEF LoaderInv, Arrays
    <3>3. ran[top.mod][top.i] \in {0, 1}
      BY <1>4 DEF LoaderInv, Arrays
    <3> QED
      BY <3>1, <3>2, <3>3 DEF LoaderInv, Arrays, Done
  <2>2. CASE f # NoFn
    BY <1>2, <1>4, <2>2, EntryRuns DEF LoaderInv, Done
  <2> QED
    BY <2>1, <2>2
<1> HIDE DEF f
<1>7. StackOK(next, inited) /\ Progress(ran', next, inited)
  <2>1. \A x \in inited : \A k \in EntriesOf(x) : Done(ran, x, k) => Done(ran', x, k)
    BY <1>6 DEF LoaderInv
  <2> QED
    BY <1>1, <1>6, <2>1, AdvanceKeeps DEF LoaderInv
<1> HIDE DEF next, top
<1>8. /\ StackOK(calls', inited') /\ Progress(ran', calls', inited')
      /\ inited' \subseteq Lib
  <2>1. CASE f \in {NoFn, NoLib}
    BY <1>2, <1>7, <2>1 DEF LoaderInv
  <2>2. CASE f \in Lib /\ f \notin {NoFn, NoLib}
    <3>1. RunInit(f, next)
      BY <1>2, <2>2
    <3> QED
      BY <1>7, <2>2, <3>1, RunInitKeeps DEF RunInit, LoaderInv
  <2> QED
    BY <1>5, <2>1, <2>2
<1>9. inited # {} /\ bound' # << >>
  BY <1>1, <1>3 DEF LoaderInv
<1>10. Relocated'
  BY <1>1, RelocatedStays DEF LoaderInv
<1>11. Told'
  <2>1. ASSUME NEW m \in Lib, AllRan(ran, m) PROVE AllRan(ran', m)
    BY <1>6, <2>1 DEF AllRan
  <2>2. \A j \in 1..Len(onloads) : onloads[j] \in Lib
    BY DEF LoaderInv, Told
  <2> QED
    BY <1>1, <2>1, <2>2 DEF LoaderInv, Told
<1> QED
  BY <1>1, <1>6, <1>8, <1>9, <1>10, <1>11 DEF LoaderInv, Mapped

-----------------------------------------------------------------------------
\* The places before the first library is constructed, and those at which one
\* is waiting to be told.
Before == {"claim", "receipts", "handlers", "arm", "preinit", "load"}
Waiting == {"open", "onload"}

LoadingOrder ==
    /\ pc \in Before => onloads = << >>
    /\ pc \in Waiting => Len(onloads) < Len(Libs)

LinkInv == LoaderInv /\ LoadingOrder

\* Whatever is not the loading leaves the loader and its places alone.
LEMMA LoaderSteps ==
    ASSUME [Next]_vars
    PROVE  \/ LoadModules \/ OpenNext \/ Construct \/ TellLoaded
           \/ UNCHANGED loader /\ (pc' \in Before => pc \in Before)
                               /\ (pc' \in Waiting => pc \in Waiting)
<1> USE DEF Before, Waiting
<1>1. CASE UNCHANGED vars
  BY <1>1 DEF vars, main
<1>2. CASE Die \/ Signal \/ Fault \/ WatchdogBites
  BY <1>2 DEF Die, Signal, Fault, WatchdogBites, Leave, Others
<1>3. CASE GuestRuns \/ AudioRuns \/ Drains \/ WatchdogRuns \/ TimePasses
  BY <1>3 DEF GuestRuns, AudioRuns, Drains, WatchdogRuns, TimePasses, main
<1>4. CASE Main /\ ~LoadModules /\ ~OpenNext /\ ~Construct /\ ~TellLoaded
  <2>1. UNCHANGED loader
    BY <1>4
       DEF Main, Claim, Receipts, InstallHandlers, StartWatchdog, Shims, NativeLoaded,
           ResumeUnity, StartAudio, Seed, Poll, CheckExit, Render, VideoFails, CountFrame,
           Pause, CloseInput, StopAudio, JoinAudio, Flush, Exit, NativeDone, Others
  <2>2. (pc' \in Before => pc \in Before) /\ (pc' \in Waiting => pc \in Waiting)
    BY <1>4
       DEF Main, Claim, Receipts, InstallHandlers, StartWatchdog, Shims, NativeLoaded,
           ResumeUnity, StartAudio, Seed, Poll, CheckExit, Render, VideoFails, CountFrame,
           Pause, CloseInput, StopAudio, JoinAudio, Flush, Exit, NativeDone, From, Leave
  <2> QED
    BY <2>1, <2>2
<1> QED
  BY <1>1, <1>2, <1>3, <1>4 DEF Next

LEMMA LoaderStarts ==
    ASSUME Init
    PROVE  LinkInv
<1>1. /\ mods = << >> /\ bound = << >> /\ inited = {} /\ calls = << >> /\ onloads = << >>
      /\ array = Entries
      /\ ran = [m \in Lib |-> [i \in 1..Len(Entries[m]) |-> 0]]
      /\ pc = "claim"
  BY DEF Init, LoaderInit
<1>2. Len(Libs) \in Nat
  BY LoaderAssumption
<1>3. Mapped /\ Relocated
  BY <1>1, <1>2 DEF Mapped, Relocated
<1>4. Arrays
  <2>1. array \in [Lib -> Seq(Lib \cup {NoLib, NoFn})]
    BY <1>1, LoaderAssumption
  <2> QED
    BY <1>1, <2>1 DEF Arrays, EntriesOf
<1>5. StackOK(calls, inited) /\ Progress(ran, calls, inited)
  BY <1>1 DEF StackOK, Progress
<1>6. Told
  BY <1>1, <1>2 DEF Told
<1> QED
  BY <1>1, <1>3, <1>4, <1>5, <1>6 DEF LinkInv, LoaderInv, LoadingOrder, Before, Waiting

(***************************************************************************)
(* Whatever the libraries define, need and open of each other: every slot   *)
(* is bound to whoever provides its symbol, every constructor runs at most  *)
(* once and after the relocations, no library inside its own construction,  *)
(* and each is told of its loading once, after its constructors             *)
(* (st_load_modules, nx_relocate, nx_run_init and my_dlopen).               *)
(***************************************************************************)
THEOREM LibrariesAreLinked == Spec => []LinkedRight
<1>1. Init => LinkInv
  BY LoaderStarts
<1>2. LinkInv /\ [Next]_vars => LinkInv'
  <2> SUFFICES ASSUME LinkInv, [Next]_vars PROVE LinkInv'
    OBVIOUS
  <2>1. CASE LoadModules
    <3>1. LoaderInv'
      BY <2>1, LoadKeeps, RelocateKeeps DEF LoadModules, LinkInv
    <3>2. onloads = << >> /\ onloads' = << >>
      BY <2>1 DEF LoadModules, Load, RelocateAll, LinkInv, LoadingOrder, Before
    <3>3. CASE bound' = << >>
      BY <2>1, <3>1, <3>2, <3>3 DEF LoadModules, LinkInv, LoadingOrder, Before, Waiting
    <3>4. CASE bound' # << >>
      <4>1. pc' = "open"
        BY <2>1, <3>4 DEF LoadModules
      <4>2. Len(Libs) > 0
        <5>1. SUFFICES ASSUME Len(Libs) = 0 PROVE FALSE
          BY LoaderAssumption
        <5>2. Lib = {}
          BY <5>1 DEF Lib
        <5>3. bound' = [m \in {} |-> << >>]
          BY <3>1, <3>4, <5>2 DEF LoaderInv, Relocated
        <5> QED
          BY <3>4, <5>3
      <4> QED
        BY <3>1, <3>2, <4>1, <4>2 DEF LinkInv, LoadingOrder, Before, Waiting
    <3> QED
      BY <3>3, <3>4
  <2>2. CASE OpenNext
    <3>1. Current \in Lib
      <4>1. Len(onloads) + 1 \in 1..Len(Libs)
        BY <2>2, LoaderAssumption
           DEF OpenNext, From, LinkInv, LoadingOrder, Waiting, LoaderInv, Told
      <4> QED
        BY <4>1 DEF Current, Lib
    <3>2. LoaderInv'
      BY <2>2, <3>1, OpenKeeps DEF OpenNext, LinkInv
    <3> QED
      BY <2>2, <3>2
         DEF OpenNext, From, Open, LinkInv, LoadingOrder, Before, Waiting
  <2>3. CASE Construct
    <3>1. LoaderInv'
      BY <2>3, ConstructorKeeps, PoppedKeeps DEF Construct, LinkInv
    <3> QED
      BY <2>3, <3>1 DEF Construct, Constructor, Constructed, LinkInv, LoadingOrder
  <2>4. CASE TellLoaded
    <3>1. Len(onloads) < Len(Libs)
      BY <2>4 DEF TellLoaded, LinkInv, LoadingOrder, Waiting
    <3>2. LoaderInv'
      BY <2>4, <3>1, ToldKeeps DEF TellLoaded, LinkInv
    <3>3. Len(onloads') <= Len(Libs) /\ Len(onloads') \in Nat /\ Len(Libs) \in Nat
      BY <3>2, LoaderAssumption DEF LoaderInv, Told
    <3>4. pc' = IF Len(onloads') = Len(Libs) THEN "loaded" ELSE "open"
      BY <2>4 DEF TellLoaded
    <3> QED
      BY <3>2, <3>3, <3>4 DEF LinkInv, LoadingOrder, Before, Waiting
  <2>5. CASE UNCHANGED loader /\ (pc' \in Before => pc \in Before)
                              /\ (pc' \in Waiting => pc \in Waiting)
    <3>1. UNCHANGED <<mods, bound, inited, array, calls, ran, onloads>>
      BY <2>5 DEF loader
    <3>2. Relocated'
      BY <3>1, RelocatedStays DEF LinkInv, LoaderInv
    <3> QED
      BY <2>5, <3>1, <3>2 DEF LinkInv, LoadingOrder, LoaderInv, Mapped, Arrays, Told
  <2> QED
    BY <2>1, <2>2, <2>3, <2>4, <2>5, LoaderSteps
<1>3. LinkInv => LinkedRight
  BY LoaderIsRight DEF LinkInv
<1> QED
  BY <1>1, <1>2, <1>3, PTL DEF Spec
=============================================================================
