---------------------------- MODULE MCFrameLoop ----------------------------
(* Two machines that the frame loop turns and that share no state: the proof *)
(* of the picture with the two receipts (FrameProof), and the calls that     *)
(* Java's Looper would make (Callbacks).  A behaviour exercises one of them  *)
(* and leaves the other at its start: the state graph is their sum.          *)
EXTENDS FrameProof, Callbacks

\* Every launch the receipts tell apart: one that may accuse and one that
\* may not, every kind of contract for the video receipt, with and without
\* the image on disk, on both backends, which differ in the health receipt.
Every ==
    {e \in [conclusive : {Conclusive(l) : l \in Launch}, auto : BOOLEAN,
            video : {"absent", "refused", "granted"}, png : BOOLEAN,
            health : BOOLEAN, raw : BOOLEAN] : e.raw => e.health}

\* Two callbacks, each posted twice, fill the queue; one Handler's proxy, two
\* requests for the two boxes.
MCFrames == {"f1", "f2"}
MCProxies == {"p"}
MCRequests == {"r1", "r2"}

VARIABLE half       \* the machine of this behaviour

NoLaunch == ~env.conclusive /\ ~env.auto /\ env.video = "absent"
            /\ ~env.png /\ ~env.health /\ ~env.raw

FrameLoopInit ==
    /\ ProofInit /\ CallbacksInit
    /\ half \in {"proof", "callbacks"}
    /\ half # "proof" => NoLaunch

InProof(A) == half = "proof" /\ A /\ UNCHANGED <<half, callbackVars>>
InCallbacks(A) == half = "callbacks" /\ A /\ UNCHANGED <<half, proofVars>>

FrameLoopNext == InProof(ProofNext) \/ InCallbacks(CallbacksNext)

loopVars == <<proofVars, callbackVars, half>>

\* The fairness of the two specifications.
FrameLoopSpec ==
    /\ FrameLoopInit /\ [][FrameLoopNext]_loopVars
    /\ WF_loopVars(InProof(Engine)) /\ WF_loopVars(InProof(PublishStep))
    /\ WF_loopVars(InCallbacks(Driver)) /\ WF_loopVars(InCallbacks(Pump))
=============================================================================
