----------------------------- MODULE Callbacks -----------------------------
(***************************************************************************)
(* The calls Java's Looper would make into the guest.                      *)
(*                                                                         *)
(* A thread of the port stands for Unity's HandlerThread: it delivers the  *)
(* messages sent to its Handler, then, 60 times a second, the callbacks    *)
(* posted to the native AChoreographer and a doFrame (jni.c, android.c).   *)
(* The answers of the licence check and of Play Games wait in two boxes,   *)
(* which the main loop empties before every frame.  Guest threads post and *)
(* register at any time, from inside a callback too.                       *)
(***************************************************************************)
EXTENDS Naturals, Sequences, FiniteSets, SequencesExt

CONSTANTS
    Frames,       \* native frame callbacks the guest posts
    Capacity,     \* ST_CHOREO_MAX
    Proxies,      \* proxies that are Handler.Callback and FrameCallback
    Requests,     \* success listeners and licence callbacks
    MaxSends,     \* bound: messages the guest sends
    MaxOwed,      \* bound: posts of one callback that wait at once
    Nothing

ASSUME CallbacksAssumption ==
    /\ Nothing \notin Proxies \cup Requests
    /\ {Capacity, MaxSends, MaxOwed} \subseteq Nat

Boxes == {"listener", "license"}

VARIABLES
    choreo_proxy, message_pending,
    driver,       \* where the HandlerThread is
    choreo_q,     \* posted callbacks
    batch,        \* callbacks this tick still has to call
    box,          \* play_games_success_listener, licensing_callback
    pump,         \* the box the main loop has come to, "no" between frames
    inHand,       \* the request the main loop is calling
    sends,        \* history: messages sent
    unhandled,    \* history: a message was sent since the last handleMessage
    owed,         \* history: posts of each callback that were not called yet
    wanted        \* history: the last request of each box, until it is called

queues == <<choreo_q, batch, owed>>
boxes  == <<box, pump, inHand, wanted>>
msgs   == <<message_pending, sends, unhandled>>
callbackVars == <<choreo_proxy, driver, queues, boxes, msgs>>

CallbacksInit ==
    /\ choreo_proxy = Nothing /\ message_pending = FALSE
    /\ driver = "none"
    /\ choreo_q = <<>> /\ batch = <<>>
    /\ owed = [f \in Frames |-> 0]
    /\ box = [b \in Boxes |-> Nothing] /\ wanted = [b \in Boxes |-> Nothing]
    /\ pump = "no" /\ inHand = Nothing
    /\ sends = 0 /\ unhandled = FALSE

-------------------------------------------------------------------------------
(* Guest threads.                                                          *)

\* newInterfaceProxy and postFrameCallback keep the proxy they are given.
KeepProxy ==
    /\ \E p \in Proxies : choreo_proxy' = p
    /\ UNCHANGED <<driver, queues, boxes, msgs>>

\* HandlerThread.start: whoever sets the flag first makes the thread.
StartThread ==
    /\ driver = "none" /\ driver' = "creating"
    /\ UNCHANGED <<choreo_proxy, queues, boxes, msgs>>

ThreadCreated ==
    /\ driver = "creating"
    /\ driver' \in {"wait", "none"}        \* pthread_create may fail
    /\ UNCHANGED <<choreo_proxy, queues, boxes, msgs>>

\* The guest has a Handler only with the proxy that is its callback.
SendToTarget ==
    /\ choreo_proxy # Nothing /\ sends < MaxSends
    /\ message_pending' = TRUE
    /\ sends' = sends + 1 /\ unhandled' = TRUE
    /\ UNCHANGED <<choreo_proxy, driver, queues, boxes>>

\* A post beyond the capacity is dropped without a word.
Posted(q, f) == IF Len(q) < Capacity THEN Append(q, f) ELSE q

PostFrame(f) ==
    /\ owed[f] < MaxOwed
    /\ choreo_q' = Posted(choreo_q, f)
    /\ owed' = [owed EXCEPT ![f] = @ + 1]
    /\ UNCHANGED <<choreo_proxy, driver, batch, boxes, msgs>>

\* A later request takes the place of one that was not called.
Register(b, r) ==
    /\ r \notin {inHand} \cup {box[x] : x \in Boxes}
    /\ box' = [box EXCEPT ![b] = r]
    /\ wanted' = [wanted EXCEPT ![b] = r]
    /\ UNCHANGED <<choreo_proxy, driver, queues, msgs, pump, inHand>>

-------------------------------------------------------------------------------
(* The HandlerThread.                                                      *)

GoTo(place) ==
    /\ driver' = place
    /\ UNCHANGED <<choreo_proxy, boxes>>

TakeMessage ==
    /\ message_pending /\ message_pending' = FALSE
    /\ \/ driver = "wait" /\ GoTo("first")
       \/ driver = "loop" /\ GoTo("again")
    /\ UNCHANGED <<queues, sends, unhandled>>

\* Without a proxy the first message ends the thread.
HandleMessage ==
    /\ driver \in {"first", "again"}
    /\ GoTo(IF driver = "first" /\ choreo_proxy = Nothing THEN "over" ELSE "loop")
    /\ unhandled' = (unhandled /\ choreo_proxy = Nothing)
    /\ UNCHANGED <<queues, message_pending, sends>>

Sleep ==
    /\ driver = "loop" /\ ~message_pending /\ GoTo("sleep")
    /\ UNCHANGED <<queues, msgs>>

\* Mutant: the queue is not emptied with the snapshot.
SnapshotKeeps == batch' = choreo_q /\ UNCHANGED choreo_q

Snapshot == batch' = choreo_q /\ choreo_q' = <<>>

Tick ==
    /\ driver = "sleep" /\ GoTo("run")
    /\ Snapshot
    /\ UNCHANGED <<owed, msgs>>

\* A callback may post itself again.
CallFrame ==
    /\ driver = "run" /\ batch # <<>> /\ GoTo("run")
    /\ batch' = Tail(batch)
    /\ LET f == Head(batch)
       IN \/ /\ choreo_q' = Posted(choreo_q, f)
             /\ UNCHANGED owed
          \/ /\ owed' = [owed EXCEPT ![f] = @ - 1]
             /\ UNCHANGED choreo_q
    /\ UNCHANGED msgs

\* Mutant: what was posted meanwhile is called in the same tick.
BatchDoneDrains ==
    /\ driver = "run" /\ batch = <<>>
    /\ GoTo(IF choreo_q = <<>> THEN "frame" ELSE "run")
    /\ batch' = choreo_q /\ choreo_q' = <<>>
    /\ UNCHANGED <<owed, msgs>>

BatchDone ==
    /\ driver = "run" /\ batch = <<>> /\ GoTo("frame")
    /\ UNCHANGED <<queues, msgs>>

DoFrame ==
    /\ driver = "frame" /\ GoTo("loop")
    /\ UNCHANGED <<queues, msgs>>

Driver ==
    \/ TakeMessage \/ HandleMessage \/ Sleep \/ Tick \/ CallFrame
    \/ BatchDone \/ DoFrame

-------------------------------------------------------------------------------
(* The main loop: st_jni_pump_callbacks.                                   *)

NextBox == [no |-> "listener", listener |-> "license", license |-> "no"]

\* The box is emptied before the call, with one exchange.
PumpTake ==
    /\ inHand = Nothing /\ pump' = NextBox[pump]
    /\ IF pump' = "no" THEN UNCHANGED <<box, inHand>>
       ELSE /\ inHand' = box[pump']
            /\ box' = [box EXCEPT ![pump'] = Nothing]
    /\ UNCHANGED <<choreo_proxy, driver, queues, msgs, wanted>>

PumpCall ==
    /\ inHand # Nothing /\ inHand' = Nothing
    /\ wanted' = [wanted EXCEPT ![pump] = IF @ = inHand THEN Nothing ELSE @]
    /\ UNCHANGED <<choreo_proxy, driver, queues, msgs, box, pump>>

Pump == PumpTake \/ PumpCall

Guest ==
    \/ KeepProxy \/ StartThread \/ ThreadCreated \/ SendToTarget
    \/ \E f \in Frames : PostFrame(f)
    \/ \E b \in Boxes, r \in Requests : Register(b, r)

CallbacksNext == Guest \/ Driver \/ Pump

\* The HandlerThread sleeps and calls for ever, and the main loop renders
\* frame after frame; the guest does what it likes.
CallbacksSpec ==
    /\ CallbacksInit /\ [][CallbacksNext]_callbackVars
    /\ WF_callbackVars(Driver) /\ WF_callbackVars(Pump)

-------------------------------------------------------------------------------
(* Properties.                                                             *)

Times(f, q) == Cardinality({i \in DOMAIN q : q[i] = f})

\* One call for every post, while no more than the capacity waits: a callback
\* posted while a tick calls the others is neither lost nor called twice.
CalledOnce ==
    \A f \in Frames : owed[f] = Times(f, choreo_q) + Times(f, batch)

\* The last request of a box waits or is being called until it was called,
\* the one registered from inside the call of another too, and nothing else
\* waits there.
LastRequestKept ==
    \A b \in Boxes :
        /\ wanted[b] # Nothing => wanted[b] \in {box[b], inHand}
        /\ box[b] # Nothing => wanted[b] = box[b]

\* Nothing that was asked for is forgotten or answered twice, in the queue of
\* the frames and in the two boxes.
AskedIsServed == CalledOnce /\ LastRequestKept

\* Callbacks that post themselves again for ever stop neither doFrame nor a
\* message nor one another, and every request is answered or replaced.
Served ==
    /\ driver = "loop" ~> driver = "frame"
    /\ (driver = "wait" /\ unhandled) ~> ~unhandled
    /\ \A f \in Frames :
          (driver = "loop" /\ Times(f, choreo_q) > 0)
              ~> (driver = "run" /\ batch # <<>> /\ Head(batch) = f)
    /\ \A b \in Boxes, r \in Requests : wanted[b] = r ~> wanted[b] # r

=============================================================================
