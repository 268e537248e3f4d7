--------------------------- MODULE FrameLoopProofs ---------------------------
(***************************************************************************)
(* What holds of the machines the frame loop turns: the proof of the        *)
(* picture, for any schedule, launch and number of failures; the callbacks  *)
(* of Java's Looper, for any guest that does not overfill the queue; the    *)
(* port's hands in the game, for any build of it; and the keys a player's   *)
(* fingers make, for any controls, map and screens.                         *)
(***************************************************************************)
EXTENDS FrameProof, Callbacks, GameHooks, Delivery, FiniteSetTheorems,
        SequenceTheorems, WellFoundedInduction, TLAPS

-----------------------------------------------------------------------------
(***************************************************************************)
(* The proof of the picture.                                                *)
(***************************************************************************)
Inside == {"count", "sample", "observe", "verdict", "unlock"}
Pictures == Pixels \ {"sentinel"}

ProofTypeOK ==
    /\ env \in Environments
    /\ adapter_lock \in {"none"} \cup Threads
    /\ DOMAIN pc = Threads
    /\ pc["render"] \in Inside \cup {"frame", "flip"}
    /\ pc["engine"] \in {"check", "top", "consume", "closing", "closed", "exit", "exited"}
    /\ job \in {NoJob} \cup [verdict : {"OK"} \cup Fatals,
                             step : {"write", "rename", "sync", "revoke"}]
    /\ proof \in {"none", "ok", "pending", "published"}
    /\ verdict \in {"none"} \cup Fatals
    /\ black \in 0 .. Streak /\ dead \in 0 .. Streak
    /\ frames \in Nat /\ flips \in Nat /\ faults \in Nat
    /\ receipt \in {"absent", "empty", "OK"} \cup Fatals

ProofFlags ==
    /\ fatal \in BOOLEAN /\ pending \in BOOLEAN
    /\ videoFatal \in BOOLEAN /\ png \in BOOLEAN

\* Who is inside the adapter, and what a thread outside of it knows.
LockInv ==
    /\ adapter_lock = "render" <=> pc["render"] \in Inside
    /\ adapter_lock = "engine" <=> pc["engine"] = "closed"
    /\ job # NoJob => adapter_lock # "none"
    /\ pc["render"] = "sample" => job = NoJob
    /\ job.verdict = "OK" => pc["render"] = "observe"
    /\ pc["render"] \in {"sample", "observe"} => ~fatal
    /\ pc["engine"] = "consume" \/ videoFatal => fatal

\* A publication is of the verdict the adapter stands for.
PublishInv ==
    /\ job.verdict \in Fatals => proof = "pending"
    /\ job.verdict = "OK" => proof = "none"
    /\ job # NoJob \/ receipt = "OK" => env.video = "granted"
    /\ proof = "pending" => verdict \in Fatals
    /\ proof = "published" => receipt # "OK"
    /\ job.step = "sync" => receipt = job.verdict
    /\ fatal => /\ env.conclusive
                /\ proof \in {"pending", "published"}
                /\ black = Streak \/ dead = Streak

AtLeast(n) == black >= n \/ dead >= n
AnOK == receipt = "OK" \/ job.verdict = "OK"

\* How far the schedule is when samples follow an OK.
ScheduleInv ==
    /\ pc["render"] \in {"sample", "observe", "verdict"} => frames > 0 /\ Scheduled(frames)
    /\ AnOK => /\ frames >= First
               /\ AtLeast(1) => frames >= Second
               /\ AtLeast(2) => frames >= Third
    /\ AnOK /\ pc["render"] = "sample" => /\ frames > First
                                          /\ AtLeast(1) => frames > Second
    /\ pc["render"] # "observe" /\ env.conclusive /\ AtLeast(Streak) => fatal

\* What it has taken for an OK to be there after a conclusive verdict.
FaultsInv ==
    fatal /\ receipt = "OK" =>
        /\ pc["render"] = "verdict" =>
              /\ Published(frames)
              /\ job.step = "revoke" => faults >= 1
              /\ job = NoJob => faults >= 2
        /\ pc["render"] = "unlock" =>
              /\ faults >= 2
              /\ job.step = "revoke" => faults >= 3
              /\ job = NoJob => faults >= 4
        /\ pc["render"] \notin {"verdict", "unlock"} => faults >= 4

ProofInv ==
    /\ ProofTypeOK /\ ProofFlags /\ ~misread
    /\ LockInv /\ PublishInv /\ ScheduleInv /\ FaultsInv

\* A remainder of nothing is a multiple.
LEMMA NoSmallMultiple ==
    ASSUME NEW f \in Nat, NEW p \in Nat \ {0}, f > 0, f < p
    PROVE  f % p # 0
OBVIOUS

\* The samples of the schedule.
LEMMA SampledFrames ==
    ASSUME NEW f \in Nat, f > 0, Scheduled(f)
    PROVE  /\ f >= First
           /\ f > First => f >= Second
           /\ f > Second => f >= Third
           /\ f >= Third => Published(f)
<1>1. f < Recurring => f % Recurring # 0
  BY NoSmallMultiple, FrameProofAssumption
<1> QED
  BY <1>1, FrameProofAssumption DEF Scheduled, Published

\* What a readable frame says is what the panel showed: the preflight asks for
\* all that the driver's answer depends on.
LEMMA SamplesAreTrue ==
    ASSUME NEW taken \in Samples
    PROVE  taken.true
<1>1. PICK g \in GlState, shown \in Pictures, p \in Pixels :
          /\ p \in Reads(g, shown)
          /\ taken = [says |-> Sampled(g, p), true |-> Honest(Sampled(g, p), shown)]
  BY DEF Samples, Pictures, Reads, Pixels
<1>2. CASE Preflight(g) = "readable"
  <2>1. /\ g.major >= 2 \/ g.object => g.draw
        /\ g.major = 3 => g.read
        /\ g.major = 3 \/ g.pack => g.plain
    BY <1>2, g \in GlState DEF Preflight, DefaultBound, GlState
  <2>2. p \in {shown, "sentinel"}
    BY <2>1, <1>1 DEF Reads
  <2> QED
    BY <1>1, <1>2, <2>2 DEF Sampled, Honest, Pictures, Pixels
<1>3. CASE Preflight(g) # "readable"
  BY <1>1, <1>3 DEF Sampled, Honest, Preflight
<1> QED
  BY <1>2, <1>3

LEMMA ProofInitially ==
    ASSUME ProofInit
    PROVE  ProofInv
<1> USE FrameProofAssumption
<1>1. ProofTypeOK /\ ~misread
  <2>1. DOMAIN pc = Threads
    BY DEF ProofInit, Threads
  <2>2. pc["render"] = "frame" /\ pc["engine"] = "check"
    BY DEF ProofInit
  <2> QED
    BY <2>1, <2>2 DEF ProofInit, ProofTypeOK, NoJob, Threads, Fatals, Inside
<1>2. LockInv
  BY DEF ProofInit, LockInv, NoJob, Inside
<1>3. PublishInv
  BY DEF ProofInit, PublishInv, NoJob, Fatals
<1>4. ScheduleInv
  BY DEF ProofInit, ScheduleInv, NoJob, AnOK, AtLeast
<1>5. FaultsInv
  BY DEF ProofInit, FaultsInv
<1>6. ProofFlags
  BY DEF ProofInit, ProofFlags
<1> QED
  BY <1>1, <1>2, <1>3, <1>4, <1>5, <1>6 DEF ProofInv

LEMMA WriteKeeps == ProofInv /\ PublishWrite => ProofInv'
BY FrameProofAssumption
   DEF ProofInv, ProofTypeOK, ProofFlags, LockInv, PublishInv, ScheduleInv, FaultsInv,
       NoJob, Threads, Fatals, Inside, AnOK, AtLeast,
       PublishWrite, JobAt, Works, Fails, Then, PublishFrame, Running

LEMMA RenameKeeps == ProofInv /\ PublishRename => ProofInv'
BY FrameProofAssumption
   DEF ProofInv, ProofTypeOK, ProofFlags, LockInv, PublishInv, ScheduleInv, FaultsInv,
       NoJob, Threads, Fatals, Inside, AnOK, AtLeast, 
       PublishRename, JobAt, Works, Fails, Then, PublishFrame, Running

LEMMA SyncKeeps == ProofInv /\ PublishSync => ProofInv'
BY FrameProofAssumption
   DEF ProofInv, ProofTypeOK, ProofFlags, LockInv, PublishInv, ScheduleInv, FaultsInv,
       NoJob, Threads, Fatals, Inside, AnOK, AtLeast, 
       PublishSync, JobAt, Works, Fails, Then, PublishFrame, Running

LEMMA RevokeKeeps == ProofInv /\ PublishRevoke => ProofInv'
BY FrameProofAssumption
   DEF ProofInv, ProofTypeOK, ProofFlags, LockInv, PublishInv, ScheduleInv, FaultsInv,
       NoJob, Threads, Fatals, Inside, AnOK, AtLeast, 
       PublishRevoke, Revoked, JobAt, Works, Fails, Then, PublishFrame, Running

LEMMA BeforePresentKeeps == ProofInv /\ BeforePresent => ProofInv'
BY FrameProofAssumption
   DEF ProofInv, ProofTypeOK, ProofFlags, LockInv, PublishInv, ScheduleInv, FaultsInv,
       NoJob, Threads, Fatals, Inside, AnOK, AtLeast, 
       BeforePresent, At, Running, Goto, Retry, NoPublish, Publish, disk

LEMMA ObserveKeeps ==
    ASSUME ProofInv, Observe
    PROVE  ProofInv'
<1> USE FrameProofAssumption DEF ProofInv, ProofTypeOK, ProofFlags, LockInv, PublishInv, ScheduleInv, FaultsInv,
       NoJob, Threads, Fatals, Inside, AnOK, AtLeast, 
       Observe, ObserveFatal, At, Running, Goto, Retry, NoPublish, Publish, disk
<1>1. ProofTypeOK' /\ ~misread'
  OBVIOUS
<1>2. LockInv'
  OBVIOUS
<1>3. PublishInv'
  OBVIOUS
<1>4. ScheduleInv'
  OBVIOUS
<1>5. FaultsInv'
  <2>1. receipt = "OK" /\ AtLeast(Streak) => Published(frames)
    BY SampledFrames
  <2>2. fatal' /\ receipt' = "OK" => AtLeast(Streak) /\ receipt = "OK" /\ env.conclusive
    OBVIOUS
  <2>3. fatal' /\ receipt' = "OK" =>
          job' = [verdict |-> IF dead >= Streak THEN "DEAD-CONTEXT" ELSE "BLACK", step |-> "write"]
    BY <2>2
  <2> QED
    BY <2>1, <2>2, <2>3
<1>6. ProofFlags'
  OBVIOUS
<1> QED
  BY <1>1, <1>2, <1>3, <1>4, <1>5, <1>6

LEMMA VerdictKeeps ==
    ASSUME ProofInv, Verdict
    PROVE  ProofInv'
<1> USE FrameProofAssumption DEF ProofInv, ProofTypeOK, ProofFlags, LockInv, PublishInv, ScheduleInv, FaultsInv,
       NoJob, Threads, Fatals, Inside, AnOK, AtLeast, 
       Verdict, ObserveFatal, At, Running, Goto, Retry, NoPublish, Publish, disk, Release
<1>1. ProofTypeOK' /\ ~misread'
  OBVIOUS
<1>2. LockInv'
  OBVIOUS
<1>3. PublishInv'
  OBVIOUS
<1>4. ScheduleInv'
  OBVIOUS
<1>5. FaultsInv'
  <2>1. fatal' /\ receipt' = "OK" => fatal /\ receipt = "OK"
    OBVIOUS
  <2>2. fatal /\ receipt = "OK" => Published(frames) /\ faults >= 2
    OBVIOUS
  <2>3. fatal /\ receipt = "OK" =>
          job' = [verdict |-> IF dead >= Streak THEN "DEAD-CONTEXT" ELSE "BLACK", step |-> "write"]
    <3>1. fatal /\ receipt = "OK" =>
             /\ proof = "pending" /\ env.video = "granted" /\ env.conclusive
             /\ dead >= Streak \/ black >= Streak
      OBVIOUS
    <3>2. fatal /\ receipt = "OK" => ObserveFatal
      BY <2>2
    <3> QED
      BY <3>1, <3>2
  <2>4. fatal /\ receipt = "OK" => pc'["render"] = "unlock"
    BY <2>2
  <2> QED
    BY <2>1, <2>2, <2>3, <2>4
<1>6. ProofFlags'
  OBVIOUS
<1> QED
  BY <1>1, <1>2, <1>3, <1>4, <1>5, <1>6

LEMMA UnlockKeeps == ProofInv /\ Unlock => ProofInv'
BY FrameProofAssumption
   DEF ProofInv, ProofTypeOK, ProofFlags, LockInv, PublishInv, ScheduleInv, FaultsInv,
       NoJob, Threads, Fatals, Inside, AnOK, AtLeast, 
       Unlock, At, Running, Goto, Release, disk, adapter

LEMMA FlipKeeps == ProofInv /\ Flip => ProofInv'
BY FrameProofAssumption
   DEF ProofInv, ProofTypeOK, ProofFlags, LockInv, PublishInv, ScheduleInv, FaultsInv,
       NoJob, Threads, Fatals, Inside, AnOK, AtLeast, 
       Flip, At, Running, Goto, PublishHealth, HealthDue, Works, Fails, adapter

LEMMA CheckKeeps == ProofInv /\ Check => ProofInv'
BY FrameProofAssumption
   DEF ProofInv, ProofTypeOK, ProofFlags, LockInv, PublishInv, ScheduleInv, FaultsInv,
       NoJob, Threads, Fatals, Inside, AnOK, AtLeast, 
       Check, IsFatal, At, Running, Goto, adapter, disk

LEMMA TopKeeps == ProofInv /\ Top => ProofInv'
BY FrameProofAssumption
   DEF ProofInv, ProofTypeOK, ProofFlags, LockInv, PublishInv, ScheduleInv, FaultsInv,
       NoJob, Threads, Fatals, Inside, AnOK, AtLeast, 
       Top, At, Running, Goto, adapter, disk

LEMMA ConsumeKeeps ==
    ASSUME ProofInv, Consume
    PROVE  ProofInv'
<1> USE FrameProofAssumption DEF ProofInv, ProofTypeOK, ProofFlags, LockInv, PublishInv, ScheduleInv, FaultsInv,
       NoJob, Threads, Fatals, Inside, AnOK, AtLeast, 
       Consume, RevokeHealth, Works, Fails, At, Running, Goto
<1>1. ProofTypeOK' /\ ~misread'
  OBVIOUS
<1>2. LockInv'
  OBVIOUS
<1>3. PublishInv'
  OBVIOUS
<1>4. ScheduleInv'
  OBVIOUS
<1>5. FaultsInv'
  OBVIOUS
<1>6. ProofFlags'
  OBVIOUS
<1> QED
  BY <1>1, <1>2, <1>3, <1>4, <1>5, <1>6

LEMMA ClosingKeeps ==
    ASSUME ProofInv, Closing
    PROVE  ProofInv'
<1> USE FrameProofAssumption DEF ProofInv, ProofTypeOK, ProofFlags, LockInv, PublishInv, ScheduleInv, FaultsInv,
       NoJob, Threads, Fatals, Inside, AnOK, AtLeast, 
       Closing, ObserveFatal, At, Running, Goto, Retry, NoPublish, Publish, disk
<1>1. ProofTypeOK' /\ ~misread'
  OBVIOUS
<1>2. LockInv'
  OBVIOUS
<1>3. PublishInv'
  OBVIOUS
<1>4. ScheduleInv'
  OBVIOUS
<1>5. FaultsInv'
  OBVIOUS
<1>6. ProofFlags'
  OBVIOUS
<1> QED
  BY <1>1, <1>2, <1>3, <1>4, <1>5, <1>6

LEMMA ClosedKeeps == ProofInv /\ Closed => ProofInv'
BY FrameProofAssumption
   DEF ProofInv, ProofTypeOK, ProofFlags, LockInv, PublishInv, ScheduleInv, FaultsInv,
       NoJob, Threads, Fatals, Inside, AnOK, AtLeast, 
       Closed, At, Running, Goto, Release, disk, adapter

LEMMA ExitKeeps == ProofInv /\ Exit => ProofInv'
BY FrameProofAssumption
   DEF ProofInv, ProofTypeOK, ProofFlags, LockInv, PublishInv, ScheduleInv, FaultsInv,
       NoJob, Threads, Fatals, Inside, AnOK, AtLeast, 
       Exit, At, Running, Goto, disk, adapter

LEMMA CountKeeps ==
    ASSUME ProofInv, Count
    PROVE  ProofInv'
<1> USE FrameProofAssumption DEF ProofInv, ProofTypeOK, ProofFlags, LockInv, PublishInv, ScheduleInv, FaultsInv,
       NoJob, Threads, Fatals, Inside, AnOK, AtLeast,
       Count, IsSampled, At, Running, Goto, Release, disk
<1>1. ProofTypeOK' /\ ~misread'
  OBVIOUS
<1>2. LockInv'
  OBVIOUS
<1>3. PublishInv'
  OBVIOUS
<1>4. ScheduleInv'
  OBVIOUS
<1>5. FaultsInv'
  OBVIOUS
<1>6. ProofFlags'
  OBVIOUS
<1> QED
  BY <1>1, <1>2, <1>3, <1>4, <1>5, <1>6

\* A sample counts on with what came before it, and an OK starts afresh.
LEMMA SampleKeeps ==
    ASSUME ProofInv, Sample
    PROVE  ProofInv'
<1> USE FrameProofAssumption DEF ProofInv, ProofTypeOK, ProofFlags, LockInv, PublishInv, ScheduleInv, FaultsInv,
       NoJob, Threads, Fatals, Inside, AnOK, AtLeast,
       At, Running, Goto
<1>1. PICK taken \in Samples :
         /\ Streaks(taken.says)
         /\ misread' = (misread \/ ~taken.true)
         /\ IF taken.says = "visible" /\ proof = "none"
            THEN /\ Evidence
                 /\ IF png' THEN Publish("OK") ELSE NoPublish
            ELSE NoPublish /\ UNCHANGED <<png, faults>>
  BY DEF Sample
<1>2. /\ pc["render"] = "sample" /\ pc' = [pc EXCEPT !["render"] = "observe"]
      /\ UNCHANGED <<env, adapter_lock, fatal, pending, frames, flips, videoFatal, receipt>>
  BY DEF Sample
<1>3. ~misread'
  BY <1>1, SamplesAreTrue
<1>4. /\ black' \in 0 .. Streak /\ black' <= black + 1
      /\ dead' \in 0 .. Streak /\ dead' <= dead + 1
      /\ taken.says = "visible" => black' = 0 /\ dead' = 0
  BY <1>1 DEF Streaks, Longer
<1>5. /\ faults' = faults \/ faults' = faults + 1
      /\ png' = TRUE \/ png' = FALSE \/ png' = png
  BY <1>1 DEF Evidence, Works, Fails
<1>6. \/ UNCHANGED <<proof, job, verdict>>
      \/ /\ taken.says = "visible" /\ UNCHANGED verdict
         /\ \/ proof' \in {"none", "ok"} /\ job' = NoJob
            \/ /\ proof' = "none" /\ job' = [verdict |-> "OK", step |-> "write"]
               /\ env.video = "granted"
  BY <1>1 DEF Publish, NoPublish
<1> HIDE DEF ProofFlags
<1>7. ProofTypeOK'
  BY <1>2, <1>4, <1>5, <1>6
<1>8. LockInv'
  BY <1>2, <1>6
<1>9. PublishInv'
  BY <1>2, <1>6
<1>10. ScheduleInv'
  BY <1>2, <1>4, <1>6, SampledFrames
<1>11. FaultsInv'
  BY <1>2
<1>12. ProofFlags'
  BY <1>2, <1>5 DEF ProofFlags
<1> QED
  BY <1>3, <1>7, <1>8, <1>9, <1>10, <1>11, <1>12

LEMMA ProofStays ==
    ASSUME ProofInv, UNCHANGED proofVars
    PROVE  ProofInv'
BY DEF ProofInv, ProofTypeOK, ProofFlags, LockInv, PublishInv, ScheduleInv, FaultsInv,
       NoJob, Threads, Fatals, Inside, AnOK, AtLeast, proofVars, adapter, disk

LEMMA ProofSteps == ProofInv /\ [ProofNext]_proofVars => ProofInv'
<1> SUFFICES ASSUME ProofInv, [ProofNext]_proofVars PROVE ProofInv'
  OBVIOUS
<1>1. CASE PublishStep
  BY <1>1, WriteKeeps, RenameKeeps, SyncKeeps, RevokeKeeps DEF PublishStep
<1>2. CASE RenderThread
  BY <1>2, BeforePresentKeeps, CountKeeps, SampleKeeps, ObserveKeeps, VerdictKeeps,
     UnlockKeeps, FlipKeeps DEF RenderThread
<1>3. CASE Engine
  BY <1>3, CheckKeeps, TopKeeps, ConsumeKeeps, ClosingKeeps, ClosedKeeps, ExitKeeps
  DEF Engine
<1>4. CASE UNCHANGED proofVars
  BY <1>4, ProofStays
<1> QED
  BY <1>1, <1>2, <1>3, <1>4 DEF ProofNext

LEMMA ProofMeans == ProofInv => VerdictHonest
BY FrameProofAssumption
   DEF ProofInv, ProofTypeOK, ProofFlags, LockInv, PublishInv, ScheduleInv, FaultsInv,
       NoJob, Threads, Fatals, Inside, AnOK, AtLeast,
       VerdictHonest, JustifiedClose, OkWithdrawn

\* VerdictHonest: the program is closed for the picture, and a receipt withdrawn,
\* only on samples that were true; and an OK left on the disk after a verdict has
\* cost four failures of the file system, for any schedule in the code's order.
THEOREM VerdictIsHonest == ProofSpec => []VerdictHonest
<1>1. ProofInit => ProofInv
  BY ProofInitially
<1> QED
  BY <1>1, ProofSteps, ProofMeans, PTL DEF ProofSpec

-----------------------------------------------------------------------------
(***************************************************************************)
(* The calls that Java's Looper would make.                                 *)
(***************************************************************************)
Places(f, q) == {i \in DOMAIN q : q[i] = f}

LEMMA PlacesFinite ==
    ASSUME NEW q \in Seq(Frames), NEW f \in Frames
    PROVE  /\ IsFiniteSet(Places(f, q))
           /\ Times(f, q) = Cardinality(Places(f, q)) /\ Times(f, q) \in Nat
<1>1. DOMAIN q = 1 .. Len(q) /\ IsFiniteSet(1 .. Len(q))
  BY FS_Interval, LenProperties
<1>2. IsFiniteSet(Places(f, q))
  BY <1>1, FS_Subset, Places(f, q) \in SUBSET (1 .. Len(q)) DEF Places
<1> QED
  BY <1>2, FS_CardinalityType DEF Times, Places

LEMMA TimesOfNothing ==
    ASSUME NEW f \in Frames
    PROVE  Times(f, <<>>) = 0
<1>1. Places(f, <<>>) = {}
  BY DEF Places
<1> QED
  BY <1>1, PlacesFinite, FS_EmptySet, EmptySeq

LEMMA TimesOfAppend ==
    ASSUME NEW q \in Seq(Frames), NEW e \in Frames, NEW f \in Frames
    PROVE  Times(f, Append(q, e)) = Times(f, q) + (IF e = f THEN 1 ELSE 0)
<1> DEFINE r == Append(q, e)
<1>1. /\ r \in Seq(Frames) /\ Len(q) \in Nat /\ Len(r) = Len(q) + 1
      /\ \A i \in 1 .. Len(q) : r[i] = q[i]
      /\ r[Len(q) + 1] = e
      /\ DOMAIN q = 1 .. Len(q) /\ DOMAIN r = 1 .. Len(q) + 1
  BY AppendProperties, LenProperties
<1>2. Places(f, q) \subseteq 1 .. Len(q)
  BY <1>1 DEF Places
<1>3. CASE e = f
  <2>1. Places(f, r) = Places(f, q) \cup {Len(q) + 1}
    BY <1>1, <1>3 DEF Places
  <2>2. Len(q) + 1 \notin Places(f, q)
    BY <1>1, <1>2
  <2>3. Cardinality(Places(f, r)) = Cardinality(Places(f, q)) + 1
    BY <2>1, <2>2, PlacesFinite, FS_AddElement
  <2>4. Times(f, r) = Cardinality(Places(f, r))
    BY <1>1, PlacesFinite
  <2> QED
    BY <1>3, <2>3, <2>4, PlacesFinite
<1>4. CASE e # f
  <2>1. Places(f, r) = Places(f, q)
    BY <1>1, <1>4 DEF Places
  <2>2. Times(f, r) = Cardinality(Places(f, r)) /\ Times(f, q) = Cardinality(Places(f, q))
    BY <1>1, PlacesFinite
  <2> QED
    BY <1>4, <2>1, <2>2, PlacesFinite
<1> QED
  BY <1>3, <1>4

LEMMA TimesOfTail ==
    ASSUME NEW q \in Seq(Frames), q # <<>>, NEW f \in Frames
    PROVE  /\ Head(q) \in Frames /\ Tail(q) \in Seq(Frames)
           /\ Times(f, q) = Times(f, Tail(q)) + (IF Head(q) = f THEN 1 ELSE 0)
<1> DEFINE t == Tail(q)  n == Len(q)
<1>1. /\ Head(q) \in Frames /\ Head(q) = q[1]
      /\ t \in Seq(Frames) /\ n \in Nat \ {0} /\ Len(t) = n - 1
      /\ DOMAIN q = 1 .. n /\ DOMAIN t = 1 .. n - 1
      /\ \A i \in 1 .. n - 1 : t[i] = q[i + 1]
  BY HeadTailProperties, LenProperties, EmptySeq
<1> HIDE DEF t, n
<1> DEFINE later == Places(f, q) \ {1}
           back == [i \in later |-> i - 1]
<1>2. back \in Bijection(later, Places(f, t))
  <2>1. back \in [later -> Places(f, t)]
    BY <1>1 DEF Places
  <2>2. \A i, j \in later : back[i] = back[j] => i = j
    BY <1>1 DEF Places
  <2>3. \A k \in Places(f, t) : k + 1 \in later /\ back[k + 1] = k
    BY <1>1 DEF Places
  <2> QED
    BY <2>1, <2>2, <2>3 DEF Bijection, Injection, Surjection, IsInjective
<1>3. ExistsBijection(later, Places(f, t))
  BY <1>2 DEF ExistsBijection
<1>4. IsFiniteSet(later) /\ Cardinality(later) = Times(f, t)
  <2>1. IsFiniteSet(later)
    BY PlacesFinite, FS_RemoveElement
  <2>2. Cardinality(later) = Cardinality(Places(f, t))
    BY <1>3, <2>1, FS_Bijection
  <2> QED
    BY <1>1, <2>1, <2>2, PlacesFinite
<1>5. Cardinality(later) = IF 1 \in Places(f, q) THEN Times(f, q) - 1 ELSE Times(f, q)
  BY PlacesFinite, FS_RemoveElement
<1>6. 1 \in Places(f, q) <=> Head(q) = f
  BY <1>1 DEF Places
<1> QED
  BY <1>1, <1>4, <1>5, <1>6, PlacesFinite DEF t

\* The guest posts no more than the queue holds.
Fits == IsFiniteSet(Frames) /\ Cardinality(Frames) * MaxOwed <= Capacity

\* Every place of a queue has a seat of its own among the posts that may wait:
\* one that is free leaves room in the queue.
LEMMA RoomLeft ==
    ASSUME Fits, NEW q \in Seq(Frames), NEW f \in Frames,
           \A g \in Frames : Times(g, q) <= MaxOwed, Times(f, q) < MaxOwed
    PROVE  Len(q) < Capacity
<1> DEFINE upto(i) == {j \in 1 .. i : q[j] = q[i]}
           rank(i) == Cardinality(upto(i))
           seats == Frames \X (1 .. MaxOwed)
           free == <<f, MaxOwed>>
           seat == [i \in 1 .. Len(q) |-> <<q[i], rank(i)>>]
<1>0. MaxOwed \in Nat /\ Capacity \in Nat /\ Cardinality(Frames) \in Nat
  BY CallbacksAssumption, FS_CardinalityType DEF Fits
<1>1. /\ Len(q) \in Nat /\ DOMAIN q = 1 .. Len(q)
      /\ \A i \in 1 .. Len(q) : q[i] \in Frames
  BY LenProperties, ElementOfSeq
<1>2. ASSUME NEW i \in 1 .. Len(q)
      PROVE  IsFiniteSet(upto(i)) /\ rank(i) \in 1 .. Times(q[i], q)
  <2>1. IsFiniteSet(Places(q[i], q)) /\ Times(q[i], q) = Cardinality(Places(q[i], q))
        /\ Times(q[i], q) \in Nat
    BY <1>1, PlacesFinite
  <2>2. upto(i) \subseteq Places(q[i], q)
    BY <1>1 DEF Places
  <2>3. IsFiniteSet(upto(i)) /\ rank(i) <= Times(q[i], q) /\ rank(i) \in Nat
    BY <2>1, <2>2, FS_Subset, FS_CardinalityType
  <2>4. upto(i) # {}
    BY <1>1
  <2>5. rank(i) # 0
    BY <2>3, <2>4, FS_EmptySet
  <2> QED
    BY <2>1, <2>3, <2>5
<1>3. ASSUME NEW i \in 1 .. Len(q), NEW j \in 1 .. Len(q), i < j, q[i] = q[j]
      PROVE  rank(i) < rank(j)
  <2>1. upto(i) \subseteq upto(j) /\ j \in upto(j) /\ j \notin upto(i)
    BY <1>1, <1>3
  <2>2. IsFiniteSet(upto(j))
    BY <1>2
  <2> HIDE DEF upto
  <2>3. rank(i) <= rank(j) /\ rank(i) \in Nat /\ rank(j) \in Nat /\ rank(i) # rank(j)
    BY <2>1, <2>2, FS_Subset, FS_CardinalityType
  <2> QED
    BY <2>3
<1> HIDE DEF upto, rank
<1>4. seat \in [1 .. Len(q) -> seats \ {free}]
  <2> SUFFICES ASSUME NEW i \in 1 .. Len(q) PROVE <<q[i], rank(i)>> \in seats \ {free}
    OBVIOUS
  <2>1. q[i] \in Frames /\ rank(i) \in 1 .. Times(q[i], q)
    BY <1>1, <1>2
  <2>2. Times(q[i], q) \in Nat /\ Times(q[i], q) <= MaxOwed
    BY <2>1, PlacesFinite
  <2>3. q[i] = f => rank(i) # MaxOwed
    BY <1>0, <2>1, <2>2
  <2> QED
    BY <1>0, <2>1, <2>2, <2>3
<1>5. \A i, j \in 1 .. Len(q) : seat[i] = seat[j] => i = j
  <2> SUFFICES ASSUME NEW i \in 1 .. Len(q), NEW j \in 1 .. Len(q),
                      q[i] = q[j], rank(i) = rank(j)
               PROVE  i = j
    OBVIOUS
  <2>1. rank(i) \in Nat /\ rank(j) \in Nat
    BY <1>1, <1>2, PlacesFinite
  <2>2. ~(i < j) /\ ~(j < i)
    BY <1>3, <2>1
  <2> QED
    BY <2>2, <1>1
<1>6. seat \in Injection(1 .. Len(q), seats \ {free})
  BY <1>4, <1>5 DEF Injection, IsInjective
<1>7. /\ IsFiniteSet(seats) /\ Cardinality(seats) = Cardinality(Frames) * MaxOwed
  <2>1. IsFiniteSet(1 .. MaxOwed) /\ Cardinality(1 .. MaxOwed) = MaxOwed
    BY <1>0, FS_Interval
  <2> QED
    BY <2>1, FS_Product DEF Fits
<1>8. free \in seats
  <2>1. Times(f, q) \in Nat
    BY PlacesFinite
  <2> QED
    BY <1>0, <2>1
<1> HIDE DEF seats, seat, free
<1>9. IsFiniteSet(seats \ {free}) /\ Cardinality(seats \ {free}) = Cardinality(seats) - 1
  BY <1>7, <1>8, FS_RemoveElement
<1>10. Cardinality(1 .. Len(q)) <= Cardinality(seats \ {free})
  BY <1>6, <1>9, FS_Injection
<1>11. Cardinality(1 .. Len(q)) = Len(q)
  BY <1>1, FS_Interval
<1>12. Cardinality(seats) \in Nat /\ Cardinality(seats) <= Capacity
  BY <1>7, FS_CardinalityType DEF Fits
<1> QED
  BY <1>0, <1>1, <1>9, <1>10, <1>11, <1>12
Answered == Requests \cup {Nothing}

\* The two queues.
QueueInv ==
    /\ choreo_q \in Seq(Frames) /\ batch \in Seq(Frames)
    /\ owed \in [Frames -> 0 .. MaxOwed]
    /\ driver # "run" => batch = <<>>
    /\ CalledOnce

\* The two boxes: a request is in one place, and what is being called is the
\* last request of no box but the one it came from.
BoxInv ==
    /\ box \in [Boxes -> Answered] /\ wanted \in [Boxes -> Answered]
    /\ pump \in Boxes \cup {"no"} /\ inHand \in Answered
    /\ \A a, b \in Boxes : box[a] = box[b] /\ box[a] # Nothing => a = b
    /\ inHand # Nothing => /\ pump \in Boxes
                           /\ \A b \in Boxes : box[b] # inHand
                           /\ \A b \in Boxes : wanted[b] = inHand => b = pump
    /\ LastRequestKept

LEMMA QueueInitially ==
    ASSUME CallbacksInit
    PROVE  QueueInv
<1>1. choreo_q = <<>> /\ batch = <<>> /\ <<>> \in Seq(Frames)
  BY EmptySeq DEF CallbacksInit
<1>2. owed \in [Frames -> 0 .. MaxOwed] /\ \A f \in Frames : owed[f] = 0
  BY CallbacksAssumption DEF CallbacksInit
<1> QED
  BY <1>1, <1>2, TimesOfNothing DEF QueueInv, CalledOnce

\* A callback that waits less often than it may is not dropped.
LEMMA PostedIsKept ==
    ASSUME Fits, QueueInv, NEW f \in Frames, Times(f, choreo_q) < MaxOwed
    PROVE  Posted(choreo_q, f) = Append(choreo_q, f)
<1>1. \A g \in Frames : Times(g, choreo_q) <= MaxOwed
  <2> SUFFICES ASSUME NEW g \in Frames PROVE Times(g, choreo_q) <= MaxOwed
    OBVIOUS
  <2>1. Times(g, choreo_q) \in Nat /\ Times(g, batch) \in Nat /\ owed[g] \in 0 .. MaxOwed
    BY PlacesFinite DEF QueueInv
  <2> QED
    BY <2>1, CallbacksAssumption DEF QueueInv, CalledOnce
<1> QED
  BY <1>1, RoomLeft DEF Posted, QueueInv

LEMMA PostKeeps ==
    ASSUME Fits, QueueInv, NEW f \in Frames, PostFrame(f)
    PROVE  QueueInv'
<1>1. /\ choreo_q \in Seq(Frames) /\ owed \in [Frames -> 0 .. MaxOwed] /\ MaxOwed \in Nat
      /\ batch' = batch /\ driver' = driver
      /\ owed[f] < MaxOwed /\ owed' = [owed EXCEPT ![f] = @ + 1]
  BY CallbacksAssumption DEF QueueInv, PostFrame
<1>2. \A g \in Frames : Times(g, choreo_q) \in Nat /\ Times(g, batch) \in Nat
  BY PlacesFinite DEF QueueInv
<1>3. choreo_q' = Append(choreo_q, f)
  <2>1. owed[f] = Times(f, choreo_q) + Times(f, batch) /\ owed[f] \in Nat
    BY <1>1 DEF QueueInv, CalledOnce
  <2>2. Times(f, choreo_q) < MaxOwed
    BY <1>1, <1>2, <2>1
  <2> QED
    BY <2>2, PostedIsKept DEF PostFrame
<1>4. \A g \in Frames : owed'[g] = Times(g, choreo_q') + Times(g, batch')
  <2>1. \A g \in Frames :
           /\ owed[g] = Times(g, choreo_q) + Times(g, batch)
           /\ owed[g] \in Nat /\ owed'[g] = owed[g] + (IF f = g THEN 1 ELSE 0)
    BY <1>1 DEF QueueInv, CalledOnce
  <2>2. \A g \in Frames :
           Times(g, choreo_q') = Times(g, choreo_q) + (IF f = g THEN 1 ELSE 0)
    BY <1>1, <1>3, TimesOfAppend
  <2> QED
    BY <1>1, <1>2, <2>1, <2>2
<1>5. choreo_q' \in Seq(Frames) /\ owed' \in [Frames -> 0 .. MaxOwed]
  BY <1>1, <1>3, AppendProperties
<1> QED
  BY <1>1, <1>4, <1>5 DEF QueueInv, CalledOnce

LEMMA TickKeeps ==
    ASSUME QueueInv, Tick
    PROVE  QueueInv'
<1>1. batch = <<>> /\ batch' = choreo_q /\ choreo_q' = <<>> /\ owed' = owed /\ driver' = "run"
  BY DEF QueueInv, Tick, Snapshot, GoTo
<1>2. \A g \in Frames : Times(g, choreo_q) \in Nat /\ Times(g, <<>>) = 0
  BY PlacesFinite, TimesOfNothing DEF QueueInv
<1> QED
  BY <1>1, <1>2, EmptySeq DEF QueueInv, CalledOnce

LEMMA CallKeeps ==
    ASSUME Fits, QueueInv, CallFrame
    PROVE  QueueInv'
<1> DEFINE f == Head(batch)
<1>1. /\ batch \in Seq(Frames) /\ batch # <<>> /\ batch' = Tail(batch)
      /\ choreo_q \in Seq(Frames) /\ owed \in [Frames -> 0 .. MaxOwed] /\ MaxOwed \in Nat
      /\ driver' = "run"
  BY CallbacksAssumption DEF QueueInv, CallFrame, GoTo
<1>2. f \in Frames /\ batch' \in Seq(Frames)
  BY <1>1, TimesOfTail
<1>3. \A g \in Frames :
         /\ Times(g, choreo_q) \in Nat /\ Times(g, batch') \in Nat
         /\ Times(g, batch) = Times(g, batch') + (IF f = g THEN 1 ELSE 0)
         /\ owed[g] = Times(g, choreo_q) + Times(g, batch)
         /\ owed[g] \in 0 .. MaxOwed
  BY <1>1, <1>2, TimesOfTail, PlacesFinite DEF QueueInv, CalledOnce
<1>4. CASE choreo_q' = Posted(choreo_q, f) /\ owed' = owed
  <2>1. choreo_q' = Append(choreo_q, f)
    <3>1. /\ owed[f] = Times(f, choreo_q) + Times(f, batch') + 1
          /\ Times(f, choreo_q) \in Nat /\ Times(f, batch') \in Nat /\ owed[f] \in 0 .. MaxOwed
      BY <1>2, <1>3
    <3>2. Times(f, choreo_q) < MaxOwed
      BY <1>1, <3>1
    <3> QED
      BY <1>2, <1>4, <3>2, PostedIsKept
  <2>2. choreo_q' \in Seq(Frames)
    BY <1>1, <1>2, <2>1, AppendProperties
  <2>3. \A g \in Frames :
           Times(g, choreo_q') = Times(g, choreo_q) + (IF f = g THEN 1 ELSE 0)
    BY <1>1, <1>2, <2>1, TimesOfAppend
  <2> HIDE DEF f
  <2>4. \A g \in Frames : owed[g] = Times(g, choreo_q') + Times(g, batch')
    BY <1>3, <2>3
  <2> QED
    BY <1>1, <1>2, <1>4, <2>2, <2>4 DEF QueueInv, CalledOnce
<1>5. CASE owed' = [owed EXCEPT ![f] = @ - 1] /\ choreo_q' = choreo_q
  <2> HIDE DEF f
  <2>1. \A g \in Frames : /\ owed'[g] = Times(g, choreo_q) + Times(g, batch')
                          /\ owed'[g] \in 0 .. MaxOwed
    BY <1>1, <1>2, <1>3, <1>5
  <2>2. owed' \in [Frames -> 0 .. MaxOwed]
    BY <1>1, <1>5, <2>1
  <2> QED
    BY <1>1, <1>2, <1>5, <2>1, <2>2 DEF QueueInv, CalledOnce
<1> QED
  BY <1>4, <1>5 DEF CallFrame

LEMMA QueuesFollow ==
    ASSUME Fits, QueueInv, [CallbacksNext]_callbackVars
    PROVE  QueueInv'
<1>1. CASE \E f \in Frames : PostFrame(f)
  BY <1>1, PostKeeps
<1>2. CASE Tick
  BY <1>2, TickKeeps
<1>3. CASE CallFrame
  BY <1>3, CallKeeps
<1>4. CASE UNCHANGED queues /\ (driver' = "run" => driver = "run")
           /\ (driver = "run" => driver' = "run" \/ batch = <<>>)
  BY <1>4 DEF queues, QueueInv, CalledOnce
<1>5. \/ \E f \in Frames : PostFrame(f)
      \/ Tick
      \/ CallFrame
      \/ UNCHANGED queues /\ (driver' = "run" => driver = "run")
         /\ (driver = "run" => driver' = "run" \/ batch = <<>>)
  <2>1. CASE Guest
    BY <2>1
       DEF Guest, KeepProxy, StartThread, ThreadCreated, SendToTarget, Register, queues
  <2>2. CASE Pump
    BY <2>2 DEF Pump, PumpTake, PumpCall
  <2>3. CASE Driver
    BY <2>3 DEF Driver, TakeMessage, HandleMessage, Sleep, BatchDone, DoFrame, GoTo
  <2>4. CASE UNCHANGED callbackVars
    BY <2>4 DEF callbackVars
  <2> QED
    BY <2>1, <2>2, <2>3, <2>4 DEF CallbacksNext
<1> QED
  BY <1>1, <1>2, <1>3, <1>4, <1>5

LEMMA BoxesInitially ==
    ASSUME CallbacksInit
    PROVE  BoxInv
BY DEF CallbacksInit, BoxInv, LastRequestKept, Boxes, Answered

LEMMA RegisterKeeps ==
    ASSUME BoxInv, NEW b \in Boxes, NEW r \in Requests, Register(b, r)
    PROVE  BoxInv'
BY CallbacksAssumption DEF Register, BoxInv, LastRequestKept, Answered

LEMMA PumpTakeKeeps ==
    ASSUME BoxInv, PumpTake
    PROVE  BoxInv'
BY DEF PumpTake, NextBox, BoxInv, LastRequestKept, Answered, Boxes

LEMMA PumpCallKeeps ==
    ASSUME BoxInv, PumpCall
    PROVE  BoxInv'
BY DEF PumpCall, BoxInv, LastRequestKept, Answered

LEMMA BoxesFollow ==
    ASSUME BoxInv, [CallbacksNext]_callbackVars
    PROVE  BoxInv'
<1>1. CASE \E b \in Boxes, r \in Requests : Register(b, r)
  BY <1>1, RegisterKeeps
<1>2. CASE Pump
  BY <1>2, PumpTakeKeeps, PumpCallKeeps DEF Pump
<1>3. CASE UNCHANGED boxes
  BY <1>3 DEF boxes, BoxInv, LastRequestKept
<1>4. CASE Guest
  BY <1>1, <1>3, <1>4
     DEF Guest, KeepProxy, StartThread, ThreadCreated, SendToTarget, PostFrame
<1>5. CASE Driver
  BY <1>3, <1>5
     DEF Driver, TakeMessage, HandleMessage, Sleep, Tick, CallFrame, BatchDone, DoFrame, GoTo
<1>6. CASE UNCHANGED callbackVars
  BY <1>3, <1>6 DEF callbackVars
<1> QED
  BY <1>2, <1>4, <1>5, <1>6 DEF CallbacksNext

\* AskedIsServed: every post is called once, one from inside a callback too, and
\* the last request of each box waits until it was called, while the guest posts
\* no more than the queue holds.
THEOREM AskedAreServed ==
    ASSUME Fits
    PROVE  CallbacksSpec => []AskedIsServed
<1>1. CallbacksInit => QueueInv /\ BoxInv
  BY QueueInitially, BoxesInitially
<1>2. QueueInv /\ BoxInv /\ [CallbacksNext]_callbackVars => QueueInv' /\ BoxInv'
  BY QueuesFollow, BoxesFollow
<1>3. QueueInv /\ BoxInv => AskedIsServed
  BY DEF QueueInv, BoxInv, AskedIsServed
<1> QED
  BY <1>1, <1>2, <1>3, PTL DEF CallbacksSpec

-----------------------------------------------------------------------------
(***************************************************************************)
(* The hands in the game.                                                   *)
(***************************************************************************)
Steps == {"between", "box", "screen", "signs", "lost", "start", "focus", "render", "settled"}

HooksTypeOK ==
    /\ step \in Steps
    /\ game \in [scene : {None, "menu", "level"}, screen : {"gone", "game", "other"},
                 frozen : BOOLEAN, popup : {None, "hidden", "shown"},
                 manager : BOOLEAN, mouse : BOOLEAN, sign : {"off", "hidden", "shown"}]
    /\ api \in [{"scenes", "gui", "focus", "signs"} -> {-1, 0, 1}]
    /\ pressed \in [held : BOOLEAN, was : {"unknown", "paused", "running"}, lost : BOOLEAN]
    /\ pause_open \in BOOLEAN
    /\ keys \subseteq {"back", "start"}
    /\ start_keycode_down \in {None, "back", "start"}
    /\ asked \in {None, "native", "pointer"}
    /\ answers \in Nat

\* The box.
AnswerInv ==
    /\ answers \in Nat /\ AnsweredOnce
    /\ ~controls_popup_answered => answers = 0

\* What the press that is remembered makes of the game: it is turned, unless the
\* press is one that Loses names.
Turned == pressed.was = IF pressed.lost THEN "paused" ELSE "running"

\* START: what a press came upon is known until the frame has ended, and what
\* the game will do with the keys it is about to read is already settled.
StartInv ==
    /\ keys \subseteq {start_keycode_down}
    /\ ~pressed.held => keys = {}
    /\ step \notin {"focus", "render", "settled"} => pressed.was = "unknown"
    /\ pressed.was # "unknown" /\ step \in {"focus", "render"} =>
          InLevel /\ Reacts(game.frozen) = Turned
    /\ pressed.was # "unknown" /\ step = "settled" =>
          game.frozen = Turned

\* The focus: only the port takes the mouse control away, and it remembers for
\* whom.
FocusInv ==
    /\ ~game.mouse => api["focus"] > 0 /\ game.manager
    /\ asked = "native" => native_focus
    /\ asked = "pointer" => ~native_focus /\ game.mouse
    /\ step = "lost" => ~controller
    /\ step \in {"render", "settled"} /\ controller /\ context = "menu"
       /\ api["focus"] > 0 /\ game.manager /\ asked = "native" => ~game.mouse

HooksInv == HooksTypeOK /\ AnswerInv /\ StartInv /\ FocusInv

Press == [held : BOOLEAN, was : {"unknown", "paused", "running"}, lost : BOOLEAN]

LEMMA HooksInitially == HooksInit => HooksInv
<1> SUFFICES ASSUME HooksInit PROVE HooksInv
  OBVIOUS
<1>1. pressed \in Press
  BY DEF HooksInit, NoPress, Press
<1>2. HooksTypeOK
  BY <1>1 DEF HooksInit, HooksTypeOK, GameStart, Steps, None, Press
<1>3. AnswerInv /\ FocusInv
  BY DEF HooksInit, AnswerInv, AnsweredOnce, FocusInv, GameStart, None
<1>4. StartInv
  BY DEF HooksInit, StartInv, NoPress
<1> QED
  BY <1>2, <1>3, <1>4 DEF HooksInv

LEMMA HooksStay ==
    ASSUME HooksInv, UNCHANGED gameVars
    PROVE  HooksInv'
<1> USE DEF HooksInv, gameVars, world, sampled, answering, start, focus
<1>1. HooksTypeOK'
  BY DEF HooksTypeOK
<1>2. AnswerInv'
  BY DEF AnswerInv, AnsweredOnce
<1>3. StartInv'
  BY DEF StartInv, InLevel, Reacts, Turned
<1>4. FocusInv'
  BY DEF FocusInv
<1> QED
  BY <1>1, <1>2, <1>3, <1>4

LEMMA MoveKeeps ==
    ASSUME HooksInv, Move
    PROVE  HooksInv'
<1> USE DEF HooksInv, Move, None
<1>0. step \in Steps
  BY DEF HooksTypeOK
<1>1. HooksTypeOK'
  <2>1. CASE GameMoves
    <3> USE DEF GameMoves
    <3>1. game' \in [scene : {None, "menu", "level"}, screen : {"gone", "game", "other"},
                     frozen : BOOLEAN, popup : {None, "hidden", "shown"},
                     manager : BOOLEAN, mouse : BOOLEAN, sign : {"off", "hidden", "shown"}]
      BY <2>1 DEF HooksTypeOK
    <3> HIDE DEF GameMoves
    <3> QED
      BY <3>1, <2>1 DEF HooksTypeOK, sampled, answering, start, focus
  <2>2. CASE UNCHANGED game
    BY <2>2 DEF HooksTypeOK, sampled, answering, start, focus
  <2> QED
    BY <2>1, <2>2
<1>2. AnswerInv'
  BY DEF AnswerInv, AnsweredOnce, answering
<1>3. StartInv'
  BY DEF StartInv, start, InLevel, Reacts, Turned
<1>4. FocusInv'
  BY DEF HooksTypeOK, FocusInv, GameMoves, sampled, focus
<1> QED
  BY <1>1, <1>2, <1>3, <1>4

LEMMA BeginsKeeps ==
    ASSUME HooksInv, PollBegins
    PROVE  HooksInv'
BY DEF PollBegins, HooksInv, HooksTypeOK, AnswerInv, AnsweredOnce, StartInv, FocusInv, Steps,
       InLevel, Reacts, Turned, sampled, answering, start, focus

\* No look asks for a function that was not there at the first.
LEMMA NothingUnbound == Looked /\ ~unbound => ~unbound'
BY DEF Looked, Resolves, FindsClass

LEMMA PopupKeeps ==
    ASSUME HooksInv, PopupHook
    PROVE  HooksInv'
<1> USE DEF HooksInv, None
<1>1. PICK found \in Findable, done \in BOOLEAN : AnswerPopup(found, done)
  BY DEF PopupHook
<1>2. /\ step = "box" /\ step' = "screen"
      /\ UNCHANGED <<build, frame, controller, sampled, start, focus>>
  BY DEF PopupHook
<1>3. game' = game \/ game' = [game EXCEPT !.popup = None]
  BY <1>1 DEF AnswerPopup
<1>4. AnswerInv'
  BY <1>1, NothingUnbound DEF AnswerPopup, AnswerInv, AnsweredOnce, answering, Settled
<1>5. HooksTypeOK'
  BY <1>2, <1>3, <1>4 DEF HooksTypeOK, AnswerInv, sampled, start, focus, Steps
<1>6. StartInv'
  BY <1>2, <1>3 DEF HooksTypeOK, StartInv, start, InLevel, Reacts, Turned
<1>7. FocusInv'
  BY <1>2, <1>3 DEF HooksTypeOK, FocusInv, sampled, focus
<1> QED
  BY <1>4, <1>5, <1>6, <1>7

\* What the hooks remember of their classes.
LEMMA ResolvingKeeps ==
    ASSUME NEW a \in [{"scenes", "gui", "focus", "signs"} -> {-1, 0, 1}]
    PROVE  /\ ResolveScenes(a) \in [{"scenes", "gui", "focus", "signs"} -> {-1, 0, 1}]
           /\ ResolveGui(a) \in [{"scenes", "gui", "focus", "signs"} -> {-1, 0, 1}]
           /\ ResolveFocus(a) \in [{"scenes", "gui", "focus", "signs"} -> {-1, 0, 1}]
           /\ ResolveSigns(a) \in [{"scenes", "gui", "focus", "signs"} -> {-1, 0, 1}]
           /\ ResolveScenes(a)["focus"] = a["focus"] /\ ResolveGui(a)["focus"] = a["focus"]
           /\ ResolveSigns(a)["focus"] = a["focus"]
           /\ a["focus"] > 0 => ResolveFocus(a)["focus"] > 0
BY DEF ResolveScenes, ResolveGui, ResolveFocus, ResolveSigns, Sticky

LEMMA ScreenKeeps ==
    ASSUME HooksInv, ScreenHook
    PROVE  HooksInv'
<1> USE DEF HooksInv, None
<1>1. /\ step = "screen" /\ step' = "signs"
      /\ asked' = (IF context' = "menu" THEN asked ELSE None)
      /\ UNCHANGED <<build, frame, controller, game, answering, start, native_focus>>
  BY DEF ScreenHook
<1>2. /\ api' \in [{"scenes", "gui", "focus", "signs"} -> {-1, 0, 1}]
      /\ api'["focus"] = api["focus"]
  BY ResolvingKeeps DEF ScreenHook, UpdateContext, HooksTypeOK
<1>3. HooksTypeOK'
  BY <1>1, <1>2 DEF HooksTypeOK, Steps, answering, start
<1>4. AnswerInv'
  BY <1>1 DEF AnswerInv, AnsweredOnce, answering
<1>5. StartInv'
  BY <1>1 DEF StartInv, start, InLevel, Reacts, Turned
<1>6. FocusInv'
  BY <1>1, <1>2 DEF FocusInv
<1> QED
  BY <1>3, <1>4, <1>5, <1>6

LEMMA SignsKeeps ==
    ASSUME HooksInv, SignsHook
    PROVE  HooksInv'
<1> USE DEF HooksInv, None
<1>1. /\ step = "signs" /\ step' = (IF controller THEN "start" ELSE "lost")
      /\ UNCHANGED <<controller, context, answering, start, focus>>
  BY DEF SignsHook
<1>2. /\ api' \in [{"scenes", "gui", "focus", "signs"} -> {-1, 0, 1}]
      /\ api'["focus"] = api["focus"]
  BY ResolvingKeeps DEF SignsHook, HooksTypeOK
<1>3. game' = game \/ game' = [game EXCEPT !.sign = "shown"]
  BY DEF SignsHook
<1>4. HooksTypeOK'
  BY <1>1, <1>2, <1>3 DEF HooksTypeOK, Steps, answering, start, focus
<1>5. AnswerInv'
  BY <1>1 DEF AnswerInv, AnsweredOnce, answering
<1>6. StartInv'
  BY <1>1, <1>3 DEF StartInv, start, InLevel, Reacts, Turned
<1>7. FocusInv'
  BY <1>1, <1>2, <1>3 DEF HooksTypeOK, FocusInv, focus
<1> QED
  BY <1>4, <1>5, <1>6, <1>7

LEMMA NoPadKeeps ==
    ASSUME HooksInv, NoPad
    PROVE  HooksInv'
<1> USE DEF HooksInv, NoPad, NoPress, None
<1>1. HooksTypeOK'
  BY DEF HooksTypeOK, Steps, sampled, answering, focus
<1>2. AnswerInv'
  BY DEF AnswerInv, AnsweredOnce, answering
<1>3. StartInv'
  BY DEF StartInv
<1>4. FocusInv'
  BY DEF FocusInv, sampled, focus
<1> QED
  BY <1>1, <1>2, <1>3, <1>4

\* What a press may meet is true or false, each of it.
LEMMA WaysTyped ==
    ASSUME HooksTypeOK, NEW native \in Natives, NEW legible \in Knowable, NEW hide \in Hides
    PROVE  /\ native \in [acts : BOOLEAN, before : BOOLEAN, after : BOOLEAN]
           /\ legible \in BOOLEAN
           /\ hide \in [closes : BOOLEAN, told : BOOLEAN] /\ (hide.told => hide.closes)
           /\ game.frozen \in BOOLEAN /\ pause_open \in BOOLEAN
           /\ Toggled(native) \in BOOLEAN
<1>1. NotCalled \in [acts : BOOLEAN, before : BOOLEAN, after : BOOLEAN]
  BY DEF NotCalled
<1>2. native \in [acts : BOOLEAN, before : BOOLEAN, after : BOOLEAN]
  BY <1>1 DEF Natives
<1>3. legible \in BOOLEAN
  BY DEF Knowable
<1>4. /\ [closes |-> FALSE, told |-> FALSE] \in [closes : BOOLEAN, told : BOOLEAN]
      /\ [closes |-> FALSE, told |-> FALSE].told = FALSE
  OBVIOUS
<1>5. hide \in [closes : BOOLEAN, told : BOOLEAN] /\ (hide.told => hide.closes)
  BY <1>4 DEF Hides
<1>6. game.frozen \in BOOLEAN /\ pause_open \in BOOLEAN
  BY DEF HooksTypeOK
<1> QED
  BY <1>2, <1>3, <1>5, <1>6 DEF Toggled

\* The toggle is believed when the game said, on its paused side, that it is
\* paused.
LEMMA AcknowledgedHandles ==
    ASSUME NEW native \in [acts : BOOLEAN, before : BOOLEAN, after : BOOLEAN],
           game.frozen \in BOOLEAN
    PROVE  Handled(native) = Acknowledged(native)
BY DEF Handled, Acknowledged, Toggled

\* By the time the game has read its keys a press in a level has turned it,
\* whichever way it took, unless Loses names it.
LEMMA PressTurns ==
    ASSUME HooksTypeOK, StartInv, ~pressed.held,
           NEW native \in Natives, NEW legible \in Knowable, NEW hide \in Hides,
           StartDown(native, legible, hide), pressed'.was # "unknown"
    PROVE  InLevel' /\ Reacts(game.frozen)' = Turned'
<1> USE DEF HooksTypeOK, None
<1>1. keys = {}
  BY DEF StartInv
<1>2. /\ native \in [acts : BOOLEAN, before : BOOLEAN, after : BOOLEAN]
      /\ legible \in BOOLEAN /\ game.frozen \in BOOLEAN
      /\ hide.closes \in BOOLEAN /\ hide.told \in BOOLEAN /\ (hide.told => hide.closes)
  BY WaysTyped
<1>3. InLevel /\ game'.scene = game.scene
  BY DEF StartDown
<1>3a. /\ pressed'.was = IF game.frozen THEN "paused" ELSE "running"
       /\ pressed'.lost <=> Loses(native, legible)
  BY <1>3 DEF StartDown
<1>4. InLevel'
  BY <1>3 DEF InLevel
<1>5. Turned' <=> IF Loses(native, legible) THEN game.frozen ELSE ~game.frozen
  BY <1>2, <1>3a DEF Turned
<1> DEFINE open == IF legible THEN Toggled(native) ELSE pause_open
<1>6. Toggled(native) \in BOOLEAN /\ open \in BOOLEAN
  BY <1>2, WaysTyped
<1>7. CASE Acknowledged(native)
  <2>1. Handled(native)
    BY <1>2, <1>7, AcknowledgedHandles
  <2>2. keys' = {} /\ game'.frozen = Toggled(native) /\ game'.frozen \in BOOLEAN
    BY <1>1, <1>6, <2>1 DEF StartDown
  <2>3. Reacts(game.frozen)' = game'.frozen
    BY <1>4, <2>2 DEF Reacts
  <2> QED
    BY <1>2, <1>4, <1>5, <1>7, <2>2, <2>3 DEF Loses, Toggled
<1>8. CASE ~Acknowledged(native)
  <2>1. ~Handled(native)
    BY <1>2, <1>8, AcknowledgedHandles
  <2>2. Reacts(game.frozen)' = ~open
    <3>1. CASE open /\ hide.told
      <4>1. keys' = {} /\ ~game'.frozen
        BY <1>1, <1>2, <2>1, <3>1 DEF StartDown
      <4> QED
        BY <1>4, <3>1, <4>1 DEF Reacts
    <3>2. CASE open /\ ~hide.told
      <4>1. keys' = {"back"}
        BY <1>1, <1>2, <2>1, <3>2 DEF StartDown
      <4> QED
        BY <1>4, <3>2, <4>1 DEF Reacts
    <3>3. CASE ~open
      <4>1. keys' = {"start"} /\ game'.frozen \in BOOLEAN
        BY <1>1, <1>6, <2>1, <3>3 DEF StartDown
      <4> QED
        BY <1>4, <3>3, <4>1 DEF Reacts
    <3> QED
      BY <1>2, <1>6, <3>1, <3>2, <3>3
  <2>3. (~open) = IF Loses(native, legible) THEN game.frozen ELSE ~game.frozen
    BY <1>2, <1>8 DEF Loses, Toggled
  <2> QED
    BY <1>4, <1>5, <2>2, <2>3
<1> QED
  BY <1>7, <1>8

LEMMA StartKeeps ==
    ASSUME HooksInv, StartHook
    PROVE  HooksInv'
<1> USE DEF HooksInv, None
<1>1. /\ step = "start" /\ step' = "focus"
      /\ UNCHANGED <<build, frame, controller, sampled, focus>>
  BY DEF StartHook
<1>2. CASE /\ ~pressed.held
           /\ \E native \in Natives, legible \in Knowable, hide \in Hides :
                 StartDown(native, legible, hide)
  <2>1. PICK native \in Natives, legible \in Knowable, hide \in Hides :
           StartDown(native, legible, hide)
    BY <1>2
  <2>1a. /\ Toggled(native) \in BOOLEAN /\ legible \in BOOLEAN /\ pause_open \in BOOLEAN
         /\ game.frozen \in BOOLEAN /\ hide.closes \in BOOLEAN
    BY WaysTyped
  <2>2. /\ game' = [game EXCEPT !.frozen = game'.frozen] /\ game'.frozen \in BOOLEAN
        /\ start_keycode_down' \in {None, "back", "start"}
        /\ keys' = IF start_keycode_down' = None THEN keys ELSE keys \cup {start_keycode_down'}
        /\ pressed'.held = TRUE
        /\ pressed' \in [held : BOOLEAN, was : {"unknown", "paused", "running"}, lost : BOOLEAN]
        /\ pause_open' \in BOOLEAN
        /\ UNCHANGED <<controls_popup_answered, answers>> /\ Looked
    BY <2>1, <2>1a DEF StartDown, HooksTypeOK
  <2>3. keys = {}
    BY <1>2 DEF StartInv
  <2>4. HooksTypeOK'
    BY <1>1, <2>2, <2>3 DEF HooksTypeOK, Steps, sampled, focus
  <2>5. AnswerInv'
    BY <2>2, NothingUnbound DEF AnswerInv, AnsweredOnce
  <2>6. pressed'.was # "unknown" => InLevel' /\ Reacts(game.frozen)' = Turned'
    BY <1>2, <2>1, PressTurns
  <2>7. StartInv'
    BY <1>1, <2>2, <2>3, <2>6 DEF StartInv, Turned
  <2>8. FocusInv'
    BY <1>1, <2>2 DEF HooksTypeOK, FocusInv, sampled, focus
  <2> QED
    BY <2>4, <2>5, <2>7, <2>8
<1>3. CASE pressed.held /\ StartUp
  <2> USE <1>1, <1>3 DEF StartUp, NoPress
  <2>1. HooksTypeOK'
    BY DEF HooksTypeOK, Steps, sampled, focus, answering
  <2>2. AnswerInv'
    BY DEF AnswerInv, AnsweredOnce, answering
  <2>3. StartInv'
    BY DEF StartInv
  <2>4. FocusInv'
    BY DEF FocusInv, sampled, focus
  <2> QED
    BY <2>1, <2>2, <2>3, <2>4
<1>4. CASE UNCHANGED <<game, answering, start>>
  BY <1>1, <1>4
     DEF HooksTypeOK, AnswerInv, AnsweredOnce, StartInv, FocusInv, Steps, sampled, focus,
         answering, start
<1> QED
  BY <1>2, <1>3, <1>4 DEF StartHook

LEMMA FocusKeeps ==
    ASSUME HooksInv, FocusHook
    PROVE  HooksInv'
<1> USE DEF HooksInv, None
<1>1. PICK native \in BOOLEAN, pointer \in BOOLEAN :
         UpdateFocus(native, pointer) /\ asked' = AskedNow(native, pointer)
  BY DEF FocusHook
<1>2. /\ step = "focus" /\ step' = "render"
      /\ pause_open' \in {FALSE, pause_open}
      /\ UNCHANGED <<controller, context, answering, start_keycode_down, keys, pressed>>
  BY DEF FocusHook
<1>3. /\ api' = api \/ api' = ResolveFocus(api)
      /\ api' \in [{"scenes", "gui", "focus", "signs"} -> {-1, 0, 1}]
      /\ api["focus"] > 0 => api'["focus"] > 0
  BY <1>1, ResolvingKeeps DEF UpdateFocus, HooksTypeOK
<1>4. /\ game' = [game EXCEPT !.mouse = game'.mouse] /\ game'.mouse \in BOOLEAN
      /\ game' # game => api'["focus"] > 0 /\ game.manager
  BY <1>1 DEF UpdateFocus, HooksTypeOK
<1>5. asked' \in {None, "native", "pointer"}
  BY <1>1 DEF AskedNow, HooksTypeOK
<1>6. HooksTypeOK'
  BY <1>2, <1>3, <1>4, <1>5 DEF HooksTypeOK, Steps, answering
<1>7. AnswerInv'
  BY <1>2 DEF AnswerInv, AnsweredOnce, answering
<1>8. StartInv'
  BY <1>2, <1>4 DEF HooksTypeOK, StartInv, InLevel, Reacts, Turned
<1>9. ~game'.mouse => api'["focus"] > 0 /\ game'.manager
  BY <1>3, <1>4 DEF HooksTypeOK, FocusInv
<1>10. asked' = "native" => native_focus'
  BY <1>1 DEF FocusInv, UpdateFocus, AskedNow
<1>11. asked' = "pointer" => ~native_focus' /\ game'.mouse
  BY <1>1, <1>3, <1>4 DEF HooksTypeOK, FocusInv, UpdateFocus, AskedNow, Releases
<1>12. context = "menu" /\ api'["focus"] > 0 /\ game'.manager /\ asked' = "native"
          => ~game'.mouse
  <2> SUFFICES ASSUME context = "menu", api'["focus"] > 0, game'.manager, asked' = "native"
               PROVE  ~game'.mouse
    OBVIOUS
  <2>1. native_focus'
    BY <1>10
  <2>2. game' = IF api'["focus"] > 0 /\ game.manager
                THEN [game EXCEPT !.mouse = ~native_focus'] ELSE game
    BY <1>1, <2>1 DEF UpdateFocus
  <2>3. game.manager
    BY <1>4 DEF HooksTypeOK
  <2>4. game'.mouse = ~native_focus'
    BY <2>2, <2>3 DEF HooksTypeOK
  <2> QED
    BY <2>1, <2>4
<1>13. FocusInv'
  BY <1>2, <1>9, <1>10, <1>11, <1>12 DEF FocusInv
<1> QED
  BY <1>6, <1>7, <1>8, <1>13

LEMMA ReadKeeps ==
    ASSUME HooksInv, ReadKeys
    PROVE  HooksInv'
<1> USE DEF HooksInv, ReadKeys, None
<1>1. Reacts(game.frozen) \in BOOLEAN
  BY DEF Reacts, HooksTypeOK
<1>2. HooksTypeOK'
  BY <1>1 DEF HooksTypeOK, Steps, sampled, answering, start, focus
<1>3. AnswerInv'
  BY DEF AnswerInv, AnsweredOnce, answering
<1>4. StartInv'
  BY DEF HooksTypeOK, StartInv, Turned, start
<1>5. FocusInv'
  BY DEF HooksTypeOK, FocusInv, sampled, focus
<1> QED
  BY <1>2, <1>3, <1>4, <1>5

LEMMA EndsKeeps ==
    ASSUME HooksInv, FrameEnds
    PROVE  HooksInv'
<1> USE DEF HooksInv, FrameEnds, None
<1>1a. pressed' \in Press
  BY DEF HooksTypeOK, Press
<1>1. HooksTypeOK'
  BY <1>1a DEF HooksTypeOK, Steps, sampled, answering, focus, Press
<1>2. AnswerInv'
  BY DEF AnswerInv, AnsweredOnce, answering
<1>3. StartInv'
  BY DEF HooksTypeOK, StartInv, Turned
<1>4. FocusInv'
  BY DEF FocusInv, sampled, focus
<1> QED
  BY <1>1, <1>2, <1>3, <1>4

LEMMA HooksSteps == HooksInv /\ [HooksNext]_gameVars => HooksInv'
BY HooksStay, MoveKeeps, BeginsKeeps, PopupKeeps, ScreenKeeps, SignsKeeps, NoPadKeeps,
   StartKeeps, FocusKeeps, ReadKeeps, EndsKeeps DEF HooksNext

LEMMA HooksMean == HooksInv => AnsweredOnce /\ StartFlips /\ FocusObeyed
BY DEF HooksInv, AnswerInv, StartInv, FocusInv, StartFlips, Turned, FocusObeyed

\* AnsweredOnce: whatever raises or is missing, the box is answered at most once
\* and no function is called that was not found.
THEOREM BoxAnsweredOnce == HooksSpec => []AnsweredOnce
BY HooksInitially, HooksSteps, HooksMean, PTL DEF HooksSpec

\* StartFlips: a press in a level turns the pause, whatever of the game's ways is
\* absent or raises, unless it is one of the presses that Loses names, which
\* leave it as it was.
THEOREM StartFlipsOnce == HooksSpec => []StartFlips
BY HooksInitially, HooksSteps, HooksMean, PTL DEF HooksSpec

\* FocusObeyed: the menus are the controller's or the pointer's, as the player
\* last asked in this stay.
THEOREM FocusIsObeyed == HooksSpec => []FocusObeyed
BY HooksInitially, HooksSteps, HooksMean, PTL DEF HooksSpec

-----------------------------------------------------------------------------
(***************************************************************************)
(* From the fingers to the guest's keys.                                    *)
(***************************************************************************)

\* One button is START, whichever way the map treats it.
OneStart ==
    \A c, d \in Controls :
        /\ NativeKey[c] = NoKey \/ \E x \in Contexts : Decide[x][c] = StartKey
        /\ NativeKey[d] = NoKey \/ \E x \in Contexts : Decide[x][d] = StartKey
        => c = d

Sources == {"scene", "popup", "paused", "pause", "screen", "game"}

Moment == {Unproven} \cup [context : Contexts, source : Sources]
KeyEvent == [key : Keys, down : BOOLEAN]

InputState ==
    [keys : SUBSET Keys, pressed : [Keys -> Nat],
     startKey : {NoKey, StartKey, BackKey}, nativeStart : BOOLEAN, pauseOpen : BOOLEAN,
     now : Moment, latched : SUBSET Controls, down : SUBSET Controls,
     blocked : SUBSET Controls, click : BOOLEAN, clicked : BOOLEAN, drag : BOOLEAN,
     touch : BOOLEAN, sent : Seq(KeyEvent)]

\* What does not concern keys.
Rest(g) == <<g.nativeStart, g.now, g.latched, g.down, g.blocked, g.clicked, g.drag, g.touch>>

\* The controls of L that hold the key k down for an action of the map.
Owners(g, L, k) == {c \in L : Decision(g, c) = k /\ k # StartKey}

\* START is held: natively, by a control that was down in D, or for an action.
StartHeld(g, L, D) ==
    \/ g.nativeStart /\ \E c \in D : NativeKey[c] = NoKey
    \/ \E c \in L : Decision(g, c) = StartKey

\* With L latched and D physically down: every count of a key is owned.
Sound(g, L, D) ==
    /\ \A c \in L : IsAction(g, c)
    /\ \A k \in Keys :
          g.pressed[k] <= Cardinality(Owners(g, L, k))
                          + (IF k = g.startKey /\ StartHeld(g, L, D) THEN 1 ELSE 0)
    /\ \A k \in Keys : g.pressed[k] > 0 => k \in g.keys
    /\ \A k \in g.keys : g.pressed[k] = 0 => \E c \in Controls : NativeKey[c] = k
    /\ g.click => \E c \in L : Decision(g, c) = "click"

\* What the guest will believe once it has read what was sent.
Replay(K, sent) ==
    InOrder(LAMBDA ks, e : IF e.down THEN ks \cup {e.key} ELSE ks \ {e.key}, sent, K)

Told(K, g) == Replay(K, g.sent) = g.keys

Weight(g) == Len(g.sent) + Cardinality(g.keys)

\* A set of numbers has a least one.
LEMMA HasLeast ==
    ASSUME NEW T, T \subseteq Nat, T # {}
    PROVE  \E n \in T : \A k \in T : n <= k
<1>1. PICK n \in T : \A k \in T : ~ <<k, n>> \in OpToRel(<, Nat)
  BY NatLessThanWellFounded, WFMin
<1>2. \A k \in T : ~ (k < n)
  BY <1>1 DEF OpToRel
<1>3. n \in Nat /\ \A k \in T : k \in Nat
  OBVIOUS
<1> QED
  BY <1>2, <1>3

\* Induction, over a set of numbers.
LEMMA SetInduction ==
    ASSUME NEW S, NEW n \in Nat, 0 \in S,
           \A i \in 0..n : i \in S /\ i < n => i + 1 \in S
    PROVE  0..n \subseteq S
<1> DEFINE T == (0..n) \ S
<1> SUFFICES ASSUME T # {} PROVE FALSE
  OBVIOUS
<1>1. T \subseteq Nat
  OBVIOUS
<1>2. PICK m \in T : \A k \in T : m <= k
  <2> HIDE DEF T
  <2> QED BY <1>1, HasLeast
<1>3. m \in 0..n /\ m # 0 /\ m \notin S
  OBVIOUS
<1>4. m - 1 \in 0..n /\ m - 1 < n /\ ~(m <= m - 1) /\ (m - 1) + 1 = m
  BY <1>3
<1>5. m - 1 \in S
  BY <1>2, <1>4
<1> QED
  BY <1>3, <1>4, <1>5

Read(ks, e) == IF e.down THEN ks \cup {e.key} ELSE ks \ {e.key}

ReplaySteps(f, K, q) == f = [i \in 0 .. Len(q) |-> IF i = 0 THEN K ELSE Read(f[i - 1], q[i])]

\* Reading a sequence of events, event by event.
LEMMA ReplayUnfolds ==
    ASSUME NEW K, NEW q \in Seq(KeyEvent)
    PROVE  \E f : ReplaySteps(f, K, q) /\ Replay(K, q) = f[Len(q)]
<1> DEFINE n == Len(q)
           Is(f, m) == f = [i \in 0..m |-> IF i = 0 THEN K ELSE Read(f[i-1], q[i])]
           S == {m \in 0..n : \E f : Is(f, m)}
<1>0. n \in Nat
  BY LenProperties
<1> HIDE DEF n
<1>1. 0 \in S
  <2>1. Is([i \in 0..0 |-> K], 0)
    OBVIOUS
  <2> HIDE DEF Is
  <2> QED
    BY <1>0, <2>1
<1>2. ASSUME NEW m \in 0..n, m \in S, m < n PROVE m + 1 \in S
  <2>1. PICK f : Is(f, m)
    BY <1>2
  <2> DEFINE e == [i \in 0..(m+1) |-> IF i = m + 1 THEN Read(f[m], q[i]) ELSE f[i]]
  <2>2. \A i \in 0..(m+1) : e[i] = IF i = 0 THEN K ELSE Read(e[i-1], q[i])
    <3> TAKE i \in 0..(m+1)
    <3>1. CASE i = 0
      BY <2>1, <3>1
    <3>2. CASE i = m + 1
      BY <2>1, <3>2
    <3>3. CASE i \in 1..m
      BY <2>1, <3>3
    <3> QED
      BY <3>1, <3>2, <3>3
  <2>3. Is(e, m + 1)
    BY <2>2
  <2> HIDE DEF Is, e
  <2>4. m + 1 \in 0..n
    BY <1>0, <1>2
  <2> QED
    BY <2>3, <2>4
<1>3. n \in S
  <2>1. 0..n \subseteq S
    <3> HIDE DEF S
    <3> QED BY <1>0, <1>1, <1>2, SetInduction
  <2>2. n \in 0..n
    BY <1>0
  <2> HIDE DEF S
  <2> QED
    BY <2>1, <2>2
<1>4. PICK f : Is(f, n)
  BY <1>3
<1> DEFINE after == CHOOSE h : Is(h, n)
<1>5. Is(after, n)
  <2> HIDE DEF Is
  <2> QED BY <1>4
<1>6. Replay(K, q) = after[n]
  BY DEF Replay, InOrder, Read, n
<1>7. ReplaySteps(after, K, q)
  BY <1>5 DEF ReplaySteps, n
<1> QED
  BY <1>6, <1>7 DEF n

\* Nothing is read of nothing.
LEMMA ReplayNone ==
    ASSUME NEW K
    PROVE  Replay(K, << >>) = K
<1>1. PICK f : ReplaySteps(f, K, << >>) /\ Replay(K, << >>) = f[Len(<< >>)]
  <2>1. << >> \in Seq(KeyEvent)
    OBVIOUS
  <2> QED
    BY <2>1, ReplayUnfolds
<1>2. Len(<< >>) = 0
  OBVIOUS
<1>3. f[0] = K
  BY <1>1, <1>2 DEF ReplaySteps
<1> QED
  BY <1>1, <1>2, <1>3

\* One more event is one more key down or up.
LEMMA ReplayOneMore ==
    ASSUME NEW K \in SUBSET Keys, NEW q \in Seq(KeyEvent), NEW e \in KeyEvent
    PROVE  Replay(K, Append(q, e))
           = IF e.down THEN Replay(K, q) \cup {e.key} ELSE Replay(K, q) \ {e.key}
<1> SUFFICES Replay(K, Append(q, e)) = Read(Replay(K, q), e)
  BY DEF Read
<1> DEFINE n == Len(q)
           p == Append(q, e)
<1>1. /\ n \in Nat /\ p \in Seq(KeyEvent) /\ Len(p) = n + 1 /\ p[n + 1] = e
      /\ \A i \in 1..n : p[i] = q[i]
  BY AppendProperties, LenProperties
<1>2. PICK f : ReplaySteps(f, K, q) /\ Replay(K, q) = f[n]
  BY ReplayUnfolds
<1>3. PICK h : ReplaySteps(h, K, p) /\ Replay(K, p) = h[n + 1]
  BY <1>1, ReplayUnfolds
<1> HIDE DEF n, p
<1> DEFINE S == {i \in 0..n : f[i] = h[i]}
<1>a. /\ \A i \in 0..n : f[i] = IF i = 0 THEN K ELSE Read(f[i - 1], q[i])
      /\ \A i \in 0..(n + 1) : h[i] = IF i = 0 THEN K ELSE Read(h[i - 1], p[i])
  <2>1. f = [i \in 0..n |-> IF i = 0 THEN K ELSE Read(f[i - 1], q[i])]
    BY <1>2 DEF ReplaySteps, n
  <2>2. h = [i \in 0..(n + 1) |-> IF i = 0 THEN K ELSE Read(h[i - 1], p[i])]
    BY <1>1, <1>3 DEF ReplaySteps
  <2>3. \A i \in 0..n : f[i] = [j \in 0..n |-> IF j = 0 THEN K ELSE Read(f[j - 1], q[j])][i]
    BY <2>1
  <2>4. \A i \in 0..(n+1) : h[i] = [j \in 0..(n+1) |-> IF j = 0 THEN K ELSE Read(h[j - 1], p[j])][i]
    BY <2>2
  <2> QED
    BY <2>3, <2>4
<1>4. 0 \in S
  BY <1>1, <1>a
<1>5. ASSUME NEW i \in 0..n, i \in S, i < n PROVE i + 1 \in S
  <2>1. i + 1 \in 0..n /\ i + 1 \in 0..(n + 1) /\ i + 1 # 0 /\ i + 1 \in 1..n /\ (i + 1) - 1 = i
    BY <1>1, <1>5
  <2>2. f[i + 1] = Read(f[i], q[i + 1]) /\ h[i + 1] = Read(h[i], p[i + 1])
    BY <1>a, <2>1
  <2> QED
    BY <1>1, <1>5, <2>1, <2>2
<1>6. n \in S
  <2>1. 0..n \subseteq S
    <3> HIDE DEF S
    <3> QED BY <1>1, <1>4, <1>5, SetInduction
  <2> QED
    BY <1>1, <2>1
<1>7. h[n + 1] = Read(h[n], p[n + 1])
  <2>1. n + 1 \in 0..(n + 1) /\ n + 1 # 0 /\ (n + 1) - 1 = n
    BY <1>1
  <2> QED
    BY <1>a, <2>1
<1> QED
  BY <1>1, <1>2, <1>3, <1>6, <1>7 DEF p

\* While the ring is large enough, every payload is read as it was written.
LEMMA EachReadBack ==
    ASSUME NEW q \in Seq(KeyEvent), Len(q) <= RingSize
    PROVE  \A i \in DOMAIN q : ReadBack(q, i) = q[i]
<1>1. RingSize \in Nat \ {0} /\ Len(q) \in Nat /\ DOMAIN q = 1..Len(q)
  BY DeliveryAssumption, LenProperties
<1>2. \A i \in 1..RingSize : i < RingSize => i % RingSize = i
  BY <1>1
<1>3. RingSize % RingSize = 0
  BY <1>1
<1>4. ASSUME NEW i \in 1..Len(q), NEW j \in 1..Len(q), Slot(j) = Slot(i)
      PROVE  j = i
  <2>1. i \in 1..RingSize /\ j \in 1..RingSize /\ i % RingSize = j % RingSize
    BY <1>1, <1>4 DEF Slot
  <2>2. CASE i < RingSize /\ j < RingSize
    BY <1>2, <2>1, <2>2
  <2>3. CASE i = RingSize /\ j < RingSize
    BY <1>2, <1>3, <2>1, <2>3
  <2>4. CASE i < RingSize /\ j = RingSize
    BY <1>2, <1>3, <2>1, <2>4
  <2> QED
    BY <1>1, <2>1, <2>2, <2>3, <2>4
<1> SUFFICES ASSUME NEW i \in DOMAIN q PROVE ReadBack(q, i) = q[i]
  OBVIOUS
<1> DEFINE P(j) == Slot(j) = Slot(i) /\ \A m \in DOMAIN q : Slot(m) = Slot(i) => m <= j
<1>5. i \in 1..Len(q) /\ i \in Nat
  BY <1>1
<1>6. P(i)
  BY <1>1, <1>4, <1>5
<1>7. \A j \in DOMAIN q : P(j) => j = i
  BY <1>1, <1>4, <1>5
<1>8. (CHOOSE j \in DOMAIN q : P(j)) = i
  <2> HIDE DEF P
  <2> QED
    BY <1>6, <1>7
<1> QED
  BY <1>8 DEF ReadBack

\* So what the guest believes is what it was sent.
LEMMA BelievesAll ==
    ASSUME NEW K, NEW q \in Seq(KeyEvent), Len(q) <= RingSize
    PROVE  Believed(K, q) = Replay(K, q)
<1>1. [i \in DOMAIN q |-> ReadBack(q, i)] = q
  <2>1. \A i \in DOMAIN q : ReadBack(q, i) = q[i]
    BY EachReadBack
  <2>2. q = [i \in DOMAIN q |-> q[i]]
    OBVIOUS
  <2> QED
    BY <2>1, <2>2
<1> QED
  BY <1>1 DEF Believed, Replay

\* Keys are neither words of a map nor NoKey.
LEMMA KeysAre ==
    /\ StartKey \in Keys /\ BackKey \in Keys /\ NoKey \notin Keys
    /\ IsFiniteSet(Keys)
    /\ \A w \in {"native", "none", "null", "click", NoKey} : w \notin Keys
BY DeliveryAssumption DEF Keys

\* A decision is a key, a click or one of the three words; an action consumes.
LEMMA Decided ==
    ASSUME NEW g \in InputState, NEW c \in Controls
    PROVE  /\ Decision(g, c) \in Keys \cup {"native", "none", "null", "click"}
           /\ IsAction(g, c) => Decision(g, c) \in Keys \cup {"click"}
           /\ IsAction(g, c) => Consumes(g, c)
           /\ IsAction(g, c) => Proven(g)
<1>1. g.now \in Moment
  BY DEF InputState
<1>2. Proven(g) => g.now.context \in Contexts
  BY <1>1 DEF Moment, Proven
<1>3. Decision(g, c) \in Keys \cup {"native", "none", "null", "click"}
  BY <1>2, DeliveryAssumption DEF Decision
<1>4. ~Proven(g) => Decision(g, c) = "none"
  BY DEF Decision
<1> QED
  BY <1>3, <1>4 DEF IsAction, Consumes

\* An edge of a key: one event, and none more than keys were down on an UP.
LEMMA DeliverKeyDoes ==
    ASSUME NEW g \in InputState, NEW k \in Keys, NEW down \in BOOLEAN, NEW K \in SUBSET Keys
    PROVE  LET h == DeliverKey(g, k, down)
           IN  /\ h \in InputState
               /\ h.keys = IF down THEN g.keys \cup {k} ELSE g.keys \ {k}
               /\ Rest(h) = Rest(g) /\ h.pressed = g.pressed /\ h.startKey = g.startKey
               /\ h.click = g.click
               /\ Told(K, g) => Told(K, h)
               /\ Len(h.sent) <= Len(g.sent) + 1
               /\ ~down => Weight(h) = Weight(g)
<1> DEFINE h == DeliverKey(g, k, down)
           e == [key |-> k, down |-> down]
<1>1. CASE (k \in g.keys) = down
  BY <1>1 DEF DeliverKey, InputState
<1>2. CASE (k \in g.keys) # down
  <2>1. h = [g EXCEPT !.keys = IF down THEN @ \cup {k} ELSE @ \ {k}, !.sent = Append(@, e)]
    BY <1>2 DEF DeliverKey
  <2>2. e \in KeyEvent /\ g.sent \in Seq(KeyEvent) /\ g.keys \in SUBSET Keys
    BY DEF KeyEvent, InputState
  <2>3. Append(g.sent, e) \in Seq(KeyEvent) /\ Len(Append(g.sent, e)) = Len(g.sent) + 1
        /\ Len(g.sent) \in Nat
    BY <2>2, AppendProperties, LenProperties
  <2>4. h.keys = (IF down THEN g.keys \cup {k} ELSE g.keys \ {k}) /\ h.sent = Append(g.sent, e)
        /\ h.pressed = g.pressed /\ h.startKey = g.startKey /\ h.click = g.click
        /\ Rest(h) = Rest(g)
    BY <2>1 DEF InputState, Rest
  <2>5. h \in InputState
    <3> (IF down THEN g.keys \cup {k} ELSE g.keys \ {k}) \in SUBSET Keys
      BY <2>2
    <3> QED BY <2>1, <2>3 DEF InputState
  <2> HIDE DEF h
  <2>6. Told(K, g) => Told(K, h)
    <3>1. Replay(K, Append(g.sent, e))
          = IF down THEN Replay(K, g.sent) \cup {k} ELSE Replay(K, g.sent) \ {k}
      BY <2>2, ReplayOneMore
    <3> HIDE DEF e
    <3> QED
      BY <2>4, <3>1 DEF Told
  <2>7. ~down => Weight(h) = Weight(g)
    <3> SUFFICES ASSUME ~down PROVE Weight(h) = Weight(g)
      OBVIOUS
    <3>1. k \in g.keys /\ h.keys = g.keys \ {k} /\ IsFiniteSet(g.keys)
      BY <1>2, <2>2, <2>4, KeysAre, FS_Subset
    <3>2. Cardinality(h.keys) = Cardinality(g.keys) - 1 /\ Cardinality(g.keys) \in Nat
      BY <3>1, FS_RemoveElement, FS_CardinalityType
    <3> QED
      <4>1. Len(h.sent) = Len(g.sent) + 1 /\ Len(g.sent) \in Nat
        BY <2>3, <2>4
      <4> QED
        BY <4>1, <3>2 DEF Weight
  <2>8. Len(h.sent) <= Len(g.sent) + 1
    BY <2>3, <2>4
  <2> QED
    BY <2>4, <2>5, <2>6, <2>7, <2>8 DEF h
<1> QED
  BY <1>1, <1>2

\* The same events, told and counted: at most one, and none that is new on an UP.
Event(g, h, down, K) ==
    /\ h \in InputState /\ Rest(h) = Rest(g)
    /\ Told(K, g) => Told(K, h)
    /\ Len(h.sent) <= Len(g.sent) + 1
    /\ ~down => Weight(h) = Weight(g)

\* A count moves by one; the key follows when it leaves or reaches zero.
LEMMA SinkKeyDoes ==
    ASSUME NEW g \in InputState, NEW k \in Keys, NEW down \in BOOLEAN, NEW K \in SUBSET Keys
    PROVE  LET h == SinkKey(g, k, down)
               n == IF down THEN g.pressed[k] + 1
                    ELSE IF g.pressed[k] > 0 THEN g.pressed[k] - 1 ELSE 0
           IN  /\ Event(g, h, down, K)
               /\ h.startKey = g.startKey /\ h.click = g.click
               /\ h.pressed = [g.pressed EXCEPT ![k] = n]
               /\ h.keys = IF down THEN g.keys \cup {k}
                           ELSE IF n = 0 THEN g.keys \ {k} ELSE g.keys
<1> DEFINE n == IF down THEN g.pressed[k] + 1
                ELSE IF g.pressed[k] > 0 THEN g.pressed[k] - 1 ELSE 0
           j == [g EXCEPT !.pressed[k] = n]
           h == SinkKey(g, k, down)
<1>1. g.pressed \in [Keys -> Nat]
  BY DEF InputState
<1>2. n \in Nat
  BY <1>1
<1> HIDE DEF n
<1>3. /\ j.pressed = [g.pressed EXCEPT ![k] = n] /\ j.keys = g.keys /\ j.sent = g.sent
      /\ j.startKey = g.startKey /\ j.click = g.click /\ Rest(j) = Rest(g)
  BY DEF InputState, Rest
<1>4. j \in InputState
  <2>1. [g.pressed EXCEPT ![k] = n] \in [Keys -> Nat]
    BY <1>1, <1>2
  <2> QED
    BY <2>1 DEF InputState
<1>5. h = IF down \/ n = 0 THEN DeliverKey(j, k, down) ELSE j
  BY DEF SinkKey, n
<1>6. Told(K, g) => Told(K, j)
  BY <1>3 DEF Told
<1>7. Weight(j) = Weight(g)
  BY <1>3 DEF Weight
<1>8. Len(g.sent) \in Nat
  BY LenProperties DEF InputState
<1> HIDE DEF j, h
<1>9. CASE down \/ n = 0
  <2>1. h = DeliverKey(j, k, down)
    BY <1>5, <1>9
  <2>2. LET d == DeliverKey(j, k, down) IN
        /\ d \in InputState
        /\ d.keys = IF down THEN j.keys \cup {k} ELSE j.keys \ {k}
        /\ Rest(d) = Rest(j) /\ d.pressed = j.pressed /\ d.startKey = j.startKey
        /\ d.click = j.click
        /\ Told(K, j) => Told(K, d)
        /\ Len(d.sent) <= Len(j.sent) + 1
        /\ ~down => Weight(d) = Weight(j)
    <3>1. CASE down = TRUE
      BY <1>4, <3>1, DeliverKeyDoes
    <3>2. CASE down = FALSE
      BY <1>4, <3>2, DeliverKeyDoes
    <3> QED
      BY <3>1, <3>2
  <2>3. Event(g, h, down, K)
    BY <1>3, <1>6, <1>7, <2>1, <2>2 DEF Event
  <2>4. h.keys = IF down THEN g.keys \cup {k} ELSE IF n = 0 THEN g.keys \ {k} ELSE g.keys
    BY <1>3, <1>9, <2>1, <2>2
  <2> QED
    BY <1>3, <2>1, <2>2, <2>3, <2>4 DEF h, n
<1>10. CASE ~(down \/ n = 0)
  BY <1>3, <1>4, <1>5, <1>6, <1>7, <1>8, <1>10 DEF Event, h, n
<1> QED
  BY <1>9, <1>10

\* START counts for the key it has chosen, and remembers which.
LEMMA StartPressed ==
    ASSUME NEW g \in InputState, NEW paused, NEW K \in SUBSET Keys
    PROVE  LET h == StartPress(g, TRUE, paused)
           IN  /\ Event(g, h, TRUE, K) /\ h.click = g.click
               /\ \E k \in {StartKey, BackKey} :
                     /\ h.startKey = k /\ h.keys = g.keys \cup {k}
                     /\ h.pressed = [g.pressed EXCEPT ![k] = g.pressed[k] + 1]
<1> DEFINE open == IF knows THEN paused ELSE g.pauseOpen
           k == IF open THEN BackKey ELSE StartKey
           j == [g EXCEPT !.startKey = k, !.pauseOpen = ~open]
<1>1. StartPress(g, TRUE, paused) = SinkKey(j, k, TRUE)
  BY DEF StartPress
<1>2. k \in {StartKey, BackKey} /\ k \in Keys
  BY KeysAre
<1>3. (~open) \in BOOLEAN
  OBVIOUS
<1> HIDE DEF open, k
<1>4. /\ j.pressed = g.pressed /\ j.keys = g.keys /\ j.sent = g.sent
      /\ j.startKey = k /\ j.click = g.click /\ Rest(j) = Rest(g)
  BY DEF InputState, Rest
<1>5. j \in InputState
  BY <1>2, <1>3 DEF InputState
<1>6. (Told(K, g) => Told(K, j)) /\ Weight(j) = Weight(g)
  BY <1>4 DEF Told, Weight
<1> DEFINE h == SinkKey(j, k, TRUE)
<1> HIDE DEF j
<1>7. /\ Event(j, h, TRUE, K)
      /\ h.startKey = j.startKey /\ h.click = j.click
      /\ h.pressed = [j.pressed EXCEPT ![k] = j.pressed[k] + 1]
      /\ h.keys = j.keys \cup {k}
  BY <1>2, <1>5, SinkKeyDoes
<1> HIDE DEF h
<1>8. Event(g, h, TRUE, K)
  BY <1>4, <1>6, <1>7 DEF Event
<1>9. StartPress(g, TRUE, paused) = h
  BY <1>1 DEF h
<1> QED
  BY <1>2, <1>4, <1>7, <1>8, <1>9

\* START lets go of the key it remembers, and of none other.
LEMMA StartReleased ==
    ASSUME NEW g \in InputState, NEW paused, NEW K \in SUBSET Keys
    PROVE  LET h == StartPress(g, FALSE, paused)
               k == g.startKey
           IN  /\ Event(g, h, FALSE, K) /\ h.click = g.click /\ h.startKey = NoKey
               /\ k = NoKey => h = g
               /\ k # NoKey =>
                    /\ k \in Keys
                    /\ h.pressed = [g.pressed EXCEPT ![k] = IF g.pressed[k] > 0
                                                            THEN g.pressed[k] - 1 ELSE 0]
                    /\ h.keys = IF h.pressed[k] = 0 THEN g.keys \ {k} ELSE g.keys
<1> DEFINE h == StartPress(g, FALSE, paused)
           k == g.startKey
           j == [g EXCEPT !.startKey = NoKey]
<1>1. CASE k = NoKey
  <2>1. h = g
    BY <1>1 DEF StartPress
  <2>2. Len(g.sent) \in Nat
    BY LenProperties DEF InputState
  <2>3. Event(g, g, FALSE, K)
    BY <2>2 DEF Event
  <2> HIDE DEF h
  <2>4. h.click = g.click /\ h.startKey = NoKey
    BY <1>1, <2>1
  <2> QED
    BY <1>1, <2>1, <2>3, <2>4 DEF h
<1>2. CASE k # NoKey
  <2>1. h = SinkKey(j, k, FALSE)
    BY <1>2 DEF StartPress
  <2>2. k \in Keys
    BY <1>2, KeysAre DEF InputState
  <2>3. /\ j.pressed = g.pressed /\ j.keys = g.keys /\ j.sent = g.sent
        /\ j.startKey = NoKey /\ j.click = g.click /\ Rest(j) = Rest(g)
    BY DEF InputState, Rest
  <2>4. j \in InputState
    BY DEF InputState
  <2>5. (Told(K, g) => Told(K, j)) /\ Weight(j) = Weight(g)
    BY <2>3 DEF Told, Weight
  <2>6. g.pressed \in [Keys -> Nat]
    BY DEF InputState
  <2> HIDE DEF j
  <2>7. LET d == SinkKey(j, k, FALSE)
            n == IF j.pressed[k] > 0 THEN j.pressed[k] - 1 ELSE 0
        IN  /\ Event(j, d, FALSE, K)
            /\ d.startKey = j.startKey /\ d.click = j.click
            /\ d.pressed = [j.pressed EXCEPT ![k] = n]
            /\ d.keys = IF n = 0 THEN j.keys \ {k} ELSE j.keys
    BY <2>2, <2>4, SinkKeyDoes
  <2> HIDE DEF h
  <2>8. Event(g, h, FALSE, K)
    BY <2>1, <2>3, <2>5, <2>7 DEF Event
  <2>9. h.pressed[k] = IF g.pressed[k] > 0 THEN g.pressed[k] - 1 ELSE 0
    BY <2>1, <2>2, <2>3, <2>6, <2>7
  <2>10. h.keys = IF h.pressed[k] = 0 THEN g.keys \ {k} ELSE g.keys
    BY <2>1, <2>3, <2>7, <2>9
  <2> QED
    BY <1>2, <2>1, <2>2, <2>3, <2>7, <2>8, <2>10 DEF h
<1> QED
  BY <1>1, <1>2

\* Every control has one place in the order.
LEMMA ControlsFinite ==
    /\ IsFiniteSet(Controls) /\ Len(Order) \in Nat
    /\ DOMAIN Order = 1..Len(Order) /\ \A i \in 1..Len(Order) : Order[i] \in Controls
    /\ \A c \in Controls : \E i \in 1..Len(Order) : Order[i] = c
    /\ \A i, j \in 1..Len(Order) : Order[i] = Order[j] => i = j
<1>1. Order \in Seq(Controls)
  BY DeliveryAssumption
<1>2. /\ Len(Order) \in Nat /\ DOMAIN Order = 1..Len(Order)
      /\ \A i \in 1..Len(Order) : Order[i] \in Controls
  BY <1>1, LenProperties, ElementOfSeq
<1>3. \A c \in Controls : \E i \in 1..Len(Order) : Order[i] = c
  BY <1>2 DEF Controls, ToSet
<1>4. \A i, j \in 1..Len(Order) : Order[i] = Order[j] => i = j
  BY <1>2, DeliveryAssumption DEF IsInjective
<1>5. IsFiniteSet(Controls)
  <2>1. IsFiniteSet(1..Len(Order))
    BY <1>2, FS_Interval
  <2>2. Order \in Surjection(1..Len(Order), Controls)
    BY <1>1, <1>2, <1>3 DEF Surjection
  <2> QED
    BY <2>1, <2>2, FS_Surjection
<1> QED
  BY <1>2, <1>3, <1>4, <1>5

\* Decisions, owners and START are those of the same moment.
LEMMA SameMoment ==
    ASSUME NEW g, NEW h, Rest(h) = Rest(g)
    PROVE  /\ h.now = g.now /\ h.nativeStart = g.nativeStart
           /\ \A c : Decision(h, c) = Decision(g, c)
           /\ \A c : IsAction(h, c) = IsAction(g, c) /\ Consumes(h, c) = Consumes(g, c)
           /\ \A L, k : Owners(h, L, k) = Owners(g, L, k)
           /\ \A L, D : StartHeld(h, L, D) = StartHeld(g, L, D)
BY DEF Rest, Decision, Proven, IsAction, Consumes, Owners, StartHeld

\* A control more or less is one owner more or less of what it stands for.
LEMMA OwnersCount ==
    ASSUME NEW g \in InputState, NEW L \in SUBSET Controls, NEW k
    PROVE  /\ Cardinality(Owners(g, L, k)) \in Nat
           /\ \A c \in Controls \ L :
                 Cardinality(Owners(g, L \cup {c}, k))
                   = Cardinality(Owners(g, L, k))
                     + (IF Decision(g, c) = k /\ k # StartKey THEN 1 ELSE 0)
           /\ \A c \in L :
                 Cardinality(Owners(g, L \ {c}, k))
                   = Cardinality(Owners(g, L, k))
                     - (IF Decision(g, c) = k /\ k # StartKey THEN 1 ELSE 0)
           /\ Cardinality(Owners(g, L, k)) > 0 => Owners(g, L, k) # {}
<1>1. IsFiniteSet(Owners(g, L, k))
  BY ControlsFinite, FS_Subset DEF Owners
<1>2. Cardinality(Owners(g, L, k)) \in Nat
  BY <1>1, FS_CardinalityType
<1>3. ASSUME NEW c \in Controls \ L
      PROVE  Cardinality(Owners(g, L \cup {c}, k))
                   = Cardinality(Owners(g, L, k))
                     + (IF Decision(g, c) = k /\ k # StartKey THEN 1 ELSE 0)
  <2>1. CASE Decision(g, c) = k /\ k # StartKey
    <3>1. Owners(g, L \cup {c}, k) = Owners(g, L, k) \cup {c} /\ c \notin Owners(g, L, k)
      BY <2>1 DEF Owners
    <3> QED
      BY <1>1, <1>2, <2>1, <3>1, FS_AddElement
  <2>2. CASE ~(Decision(g, c) = k /\ k # StartKey)
    <3>1. Owners(g, L \cup {c}, k) = Owners(g, L, k)
      BY <2>2 DEF Owners
    <3> QED
      BY <1>2, <2>2, <3>1
  <2> QED
    BY <2>1, <2>2
<1>4. ASSUME NEW c \in L
      PROVE  Cardinality(Owners(g, L \ {c}, k))
                   = Cardinality(Owners(g, L, k))
                     - (IF Decision(g, c) = k /\ k # StartKey THEN 1 ELSE 0)
  <2>1. CASE Decision(g, c) = k /\ k # StartKey
    <3>1. Owners(g, L \ {c}, k) = Owners(g, L, k) \ {c} /\ c \in Owners(g, L, k)
      BY <2>1 DEF Owners
    <3>2. Cardinality(Owners(g, L, k) \ {c}) = Cardinality(Owners(g, L, k)) - 1
      BY <1>1, <3>1, FS_RemoveElement
    <3> QED
      BY <1>2, <2>1, <3>1, <3>2
  <2>2. CASE ~(Decision(g, c) = k /\ k # StartKey)
    <3>1. Owners(g, L \ {c}, k) = Owners(g, L, k)
      BY <2>2 DEF Owners
    <3> QED
      BY <1>2, <2>2, <3>1
  <2> QED
    BY <2>1, <2>2
<1>5. Owners(g, L, k) = {} => Cardinality(Owners(g, L, k)) = 0
  BY FS_EmptySet
<1> QED
  BY <1>2, <1>3, <1>4, <1>5

\* The fields a key event moves.
LEMMA Pressed ==
    ASSUME NEW g \in InputState
    PROVE  g.pressed \in [Keys -> Nat] /\ g.keys \subseteq Keys /\ g.click \in BOOLEAN
           /\ g.startKey \in {NoKey, StartKey, BackKey}
BY DEF InputState

\* An action pressed: its key has one more owner.  START must not be held already.
LEMMA SinkDown ==
    ASSUME NEW g \in InputState, NEW L \in SUBSET Controls, NEW D \in SUBSET Controls,
           NEW c \in Controls \ L, NEW paused, NEW K \in SUBSET Keys,
           OneStart, Sound(g, L, D), IsAction(g, c),
           Decision(g, c) = StartKey => ~StartHeld(g, L, D)
    PROVE  LET h == Sink(g, c, TRUE, paused)
           IN  Event(g, h, TRUE, K) /\ Sound(h, L \cup {c}, D)
<1> DEFINE h == Sink(g, c, TRUE, paused)
           M == L \cup {c}
<1>1. Decision(g, c) \in Keys \cup {"click"}
  BY Decided
<1>2. CASE Decision(g, c) = "click"
  <2>1. h = [g EXCEPT !.click = TRUE]
    BY <1>2, KeysAre DEF Sink
  <2>2. h \in InputState /\ Rest(h) = Rest(g) /\ h.click = TRUE /\ h.keys = g.keys
        /\ h.pressed = g.pressed /\ h.startKey = g.startKey /\ h.sent = g.sent
    BY <2>1 DEF InputState, Rest
  <2> HIDE DEF h
  <2>3. Event(g, h, TRUE, K)
    <3>1. Len(g.sent) \in Nat
      BY LenProperties DEF InputState
    <3> QED
      BY <2>2, <3>1 DEF Event, Told
  <2>4. Sound(h, M, D)
    <3>1. \A k \in Keys : Cardinality(Owners(g, M, k)) = Cardinality(Owners(g, L, k))
                          /\ Cardinality(Owners(g, L, k)) \in Nat
      <4>1. \A k \in Keys : Decision(g, c) # k
        BY <1>2, KeysAre
      <4> QED
        BY <4>1, OwnersCount
    <3>2. StartHeld(g, L, D) => StartHeld(g, M, D)
      BY DEF StartHeld
    <3>3. \A k \in Keys :
            h.pressed[k] <= Cardinality(Owners(h, M, k))
                            + (IF k = h.startKey /\ StartHeld(h, M, D) THEN 1 ELSE 0)
      <4>1. \A k : Owners(h, M, k) = Owners(g, M, k)
        BY <2>2, SameMoment
      <4>2. StartHeld(h, M, D) = StartHeld(g, M, D)
        BY <2>2, SameMoment
      <4> HIDE DEF M
      <4> QED
        BY <2>2, <3>1, <3>2, <4>1, <4>2, Pressed DEF Sound
    <3>4. \A d \in M : IsAction(h, d)
      BY <2>2, SameMoment DEF Sound
    <3>5. \E d \in M : Decision(h, d) = "click"
      BY <1>2, <2>2, SameMoment
    <3> HIDE DEF M
    <3> QED
      BY <2>2, <3>3, <3>4, <3>5 DEF Sound
  <2> QED
    BY <2>3, <2>4 DEF h
<1>3. CASE Decision(g, c) = StartKey
  <2>1. h = StartPress(g, TRUE, paused)
    BY <1>1, <1>3, KeysAre DEF Sink
  <2> HIDE DEF h
  <2>2. PICK k0 \in {StartKey, BackKey} :
          /\ Event(g, h, TRUE, K) /\ h.click = g.click
          /\ h.startKey = k0 /\ h.keys = g.keys \cup {k0}
          /\ h.pressed = [g.pressed EXCEPT ![k0] = g.pressed[k0] + 1]
    BY <2>1, StartPressed
  <2>3. k0 \in Keys /\ h \in InputState /\ Rest(h) = Rest(g)
    BY <2>2, KeysAre DEF Event
  <2>4. \A k \in Keys : Cardinality(Owners(g, M, k)) = Cardinality(Owners(g, L, k))
                        /\ Cardinality(Owners(g, L, k)) \in Nat
    BY <1>3, OwnersCount
  <2>5. StartHeld(g, M, D)
    BY <1>3 DEF StartHeld
  <2>6. \A k \in Keys : g.pressed[k] <= Cardinality(Owners(g, L, k))
    BY <1>3, <2>4, Pressed DEF Sound
  <2> HIDE DEF M
  <2>7. \A k \in Keys : h.pressed[k] = g.pressed[k] + (IF k = k0 THEN 1 ELSE 0)
                        /\ g.pressed[k] \in Nat
    BY <2>2, <2>3, Pressed
  <2>8. \A k \in Keys :
          h.pressed[k] <= Cardinality(Owners(h, M, k))
                          + (IF k = h.startKey /\ StartHeld(h, M, D) THEN 1 ELSE 0)
    BY <2>2, <2>3, <2>4, <2>5, <2>6, <2>7, SameMoment
  <2>9. /\ \A k \in Keys : h.pressed[k] > 0 => k \in h.keys
        /\ \A k \in h.keys : h.pressed[k] = 0 => \E d \in Controls : NativeKey[d] = k
    BY <2>2, <2>3, <2>7, Pressed DEF Sound
  <2>10. /\ \A d \in M : IsAction(h, d)
         /\ h.click => \E d \in M : Decision(h, d) = "click"
    BY <2>2, <2>3, SameMoment DEF Sound, M
  <2> QED
    BY <2>2, <2>8, <2>9, <2>10 DEF Sound, h, M
<1>4. CASE Decision(g, c) \in Keys \ {StartKey}
  <2> DEFINE k0 == Decision(g, c)
  <2>1. h = SinkKey(g, k0, TRUE)
    BY <1>4, KeysAre DEF Sink
  <2> HIDE DEF k0, h
  <2>2. k0 \in Keys /\ k0 # StartKey
    BY <1>4 DEF k0
  <2>3. /\ Event(g, h, TRUE, K) /\ h.startKey = g.startKey /\ h.click = g.click
        /\ h.pressed = [g.pressed EXCEPT ![k0] = g.pressed[k0] + 1]
        /\ h.keys = g.keys \cup {k0}
    BY <2>1, <2>2, SinkKeyDoes
  <2>4. h \in InputState /\ Rest(h) = Rest(g)
    BY <2>3 DEF Event
  <2>5. \A k \in Keys : /\ Cardinality(Owners(g, M, k)) = Cardinality(Owners(g, L, k))
                                                         + (IF k = k0 THEN 1 ELSE 0)
                        /\ Cardinality(Owners(g, L, k)) \in Nat
    BY <2>2, OwnersCount DEF k0
  <2>6. StartHeld(g, M, D) = StartHeld(g, L, D)
    BY <2>2 DEF StartHeld, k0
  <2> HIDE DEF M
  <2>7. \A k \in Keys : h.pressed[k] = g.pressed[k] + (IF k = k0 THEN 1 ELSE 0)
                        /\ g.pressed[k] \in Nat
    BY <2>2, <2>3, Pressed
  <2>8. \A k \in Keys :
          h.pressed[k] <= Cardinality(Owners(h, M, k))
                          + (IF k = h.startKey /\ StartHeld(h, M, D) THEN 1 ELSE 0)
    BY <2>3, <2>4, <2>5, <2>6, <2>7, SameMoment DEF Sound
  <2>9. /\ \A k \in Keys : h.pressed[k] > 0 => k \in h.keys
        /\ \A k \in h.keys : h.pressed[k] = 0 => \E d \in Controls : NativeKey[d] = k
    BY <2>2, <2>3, <2>7, Pressed DEF Sound
  <2>10. /\ \A d \in M : IsAction(h, d)
         /\ h.click => \E d \in M : Decision(h, d) = "click"
    BY <2>3, <2>4, SameMoment DEF Sound, M
  <2> QED
    BY <2>3, <2>8, <2>9, <2>10 DEF Sound, h, M
<1> QED
  BY <1>1, <1>2, <1>3, <1>4

\* An action released: its key has one owner less.
LEMMA SinkUp ==
    ASSUME NEW g \in InputState, NEW L \in SUBSET Controls, NEW D \in SUBSET Controls,
           NEW c \in L, NEW paused, NEW K \in SUBSET Keys,
           Sound(g, L, D)
    PROVE  LET h == Sink(g, c, FALSE, paused)
           IN  Event(g, h, FALSE, K) /\ Sound(h, L \ {c}, D)
<1> DEFINE h == Sink(g, c, FALSE, paused)
           M == L \ {c}
<1>0. c \in Controls /\ IsAction(g, c)
  BY DEF Sound
<1>1. Decision(g, c) \in Keys \cup {"click"}
  BY <1>0, Decided
<1>2. CASE Decision(g, c) = "click"
  <2>1. h = [g EXCEPT !.click = FALSE]
    BY <1>2, KeysAre DEF Sink
  <2>2. h \in InputState /\ Rest(h) = Rest(g) /\ h.click = FALSE /\ h.keys = g.keys
        /\ h.pressed = g.pressed /\ h.startKey = g.startKey /\ h.sent = g.sent
    BY <2>1 DEF InputState, Rest
  <2> HIDE DEF h
  <2>3. Event(g, h, FALSE, K)
    <3>1. Len(g.sent) \in Nat
      BY LenProperties DEF InputState
    <3> QED
      BY <2>2, <3>1 DEF Event, Told, Weight
  <2>4. \A k \in Keys : Cardinality(Owners(g, M, k)) = Cardinality(Owners(g, L, k))
                        /\ Cardinality(Owners(g, L, k)) \in Nat
    <3>1. \A k \in Keys : Decision(g, c) # k
      BY <1>2, KeysAre
    <3> QED
      BY <3>1, OwnersCount
  <2>5. StartHeld(g, L, D) => StartHeld(g, M, D)
    BY <1>2, KeysAre DEF StartHeld
  <2>6. \A d \in M : IsAction(h, d)
    BY <2>2, SameMoment DEF Sound
  <2>7. (\A k : Owners(h, M, k) = Owners(g, M, k)) /\ StartHeld(h, M, D) = StartHeld(g, M, D)
    BY <2>2, SameMoment
  <2> HIDE DEF M
  <2>8. \A k \in Keys :
            h.pressed[k] <= Cardinality(Owners(h, M, k))
                            + (IF k = h.startKey /\ StartHeld(h, M, D) THEN 1 ELSE 0)
    BY <2>2, <2>4, <2>5, <2>7, Pressed DEF Sound
  <2> QED
    BY <2>2, <2>3, <2>6, <2>8 DEF Sound, h, M
<1>3. CASE Decision(g, c) = StartKey
  <2> DEFINE k0 == g.startKey
  <2>1. h = StartPress(g, FALSE, paused)
    BY <1>1, <1>3, KeysAre DEF Sink
  <2> HIDE DEF h
  <2>2. /\ Event(g, h, FALSE, K) /\ h.click = g.click /\ h.startKey = NoKey
        /\ k0 = NoKey => h = g
        /\ k0 # NoKey =>
             /\ k0 \in Keys
             /\ h.pressed = [g.pressed EXCEPT ![k0] = IF g.pressed[k0] > 0
                                                     THEN g.pressed[k0] - 1 ELSE 0]
             /\ h.keys = IF h.pressed[k0] = 0 THEN g.keys \ {k0} ELSE g.keys
    BY <2>1, StartReleased
  <2>3. h \in InputState /\ Rest(h) = Rest(g) /\ h.startKey \notin Keys
    BY <2>2, KeysAre DEF Event
  <2>4. \A k \in Keys : Cardinality(Owners(g, M, k)) = Cardinality(Owners(g, L, k))
                        /\ Cardinality(Owners(g, L, k)) \in Nat
    BY <1>3, OwnersCount
  <2>5. \A k \in Keys : /\ g.pressed[k] \in Nat
                        /\ g.pressed[k] <= Cardinality(Owners(g, L, k)) + (IF k = k0 THEN 1 ELSE 0)
    BY <2>4, Pressed DEF Sound
  <2>6. \A d \in M : IsAction(h, d)
    BY <2>3, SameMoment DEF Sound
  <2>7. \A k : Owners(h, M, k) = Owners(g, M, k)
    BY <2>3, SameMoment
  <2>8. h.click => \E d \in M : Decision(h, d) = "click"
    BY <1>3, <2>2, <2>3, SameMoment, KeysAre DEF Sound
  <2> HIDE DEF M
  <2>9. \A k \in Keys : h.pressed[k] <= Cardinality(Owners(h, M, k))
    <3>1. CASE k0 = NoKey
      BY <2>2, <2>4, <2>5, <2>7, <3>1, KeysAre
    <3>2. CASE k0 # NoKey
      BY <2>2, <2>4, <2>5, <2>7, <3>2, Pressed
    <3> QED
      BY <3>1, <3>2
  <2>10. \A k \in Keys :
            h.pressed[k] <= Cardinality(Owners(h, M, k))
                            + (IF k = h.startKey /\ StartHeld(h, M, D) THEN 1 ELSE 0)
    BY <2>3, <2>4, <2>7, <2>9
  <2>11. /\ \A k \in Keys : h.pressed[k] > 0 => k \in h.keys
         /\ \A k \in h.keys : h.pressed[k] = 0 => \E d \in Controls : NativeKey[d] = k
    <3>1. CASE k0 = NoKey
      BY <2>2, <3>1 DEF Sound
    <3>2. CASE k0 # NoKey
      <4>1. \A k \in Keys : k # k0 => h.pressed[k] = g.pressed[k]
        BY <2>2, <3>2, Pressed
      <4>2. h.pressed[k0] > 0 => g.pressed[k0] > 0
        BY <2>2, <2>5, <3>2, Pressed
      <4>3. h.keys \subseteq g.keys /\ \A k \in Keys : k # k0 /\ k \in g.keys => k \in h.keys
        BY <2>2, <3>2
      <4>4. h.pressed[k0] = 0 => k0 \notin h.keys
        BY <2>2, <3>2
      <4>5. h.pressed[k0] > 0 => h.keys = g.keys
        BY <2>2, <3>2
      <4> QED
        BY <4>1, <4>2, <4>3, <4>4, <4>5, Pressed DEF Sound
    <3> QED
      BY <3>1, <3>2
  <2> QED
    BY <2>2, <2>6, <2>8, <2>10, <2>11 DEF Sound, h, M
<1>4. CASE Decision(g, c) \in Keys \ {StartKey}
  <2> DEFINE k0 == Decision(g, c)
  <2>1. h = SinkKey(g, k0, FALSE)
    BY <1>4, KeysAre DEF Sink
  <2> HIDE DEF k0, h
  <2>2. k0 \in Keys /\ k0 # StartKey /\ k0 # "click"
    BY <1>4, KeysAre DEF k0
  <2> DEFINE n == IF g.pressed[k0] > 0 THEN g.pressed[k0] - 1 ELSE 0
  <2>3. /\ Event(g, h, FALSE, K) /\ h.startKey = g.startKey /\ h.click = g.click
        /\ h.pressed = [g.pressed EXCEPT ![k0] = n]
        /\ h.keys = IF n = 0 THEN g.keys \ {k0} ELSE g.keys
    BY <2>1, <2>2, SinkKeyDoes
  <2>4. h \in InputState /\ Rest(h) = Rest(g)
    BY <2>3 DEF Event
  <2>5. \A k \in Keys : /\ Cardinality(Owners(g, M, k)) = Cardinality(Owners(g, L, k))
                                                         - (IF k = k0 THEN 1 ELSE 0)
                        /\ Cardinality(Owners(g, L, k)) \in Nat
                        /\ Cardinality(Owners(g, M, k)) \in Nat
    BY <2>2, OwnersCount DEF k0
  <2>6. StartHeld(g, M, D) = StartHeld(g, L, D)
    BY <2>2 DEF StartHeld, k0
  <2>7. \A k \in Keys : /\ g.pressed[k] \in Nat
                        /\ h.pressed[k] = IF k = k0 THEN n ELSE g.pressed[k]
    BY <2>2, <2>3, Pressed
  <2>8. \A d \in M : IsAction(h, d)
    BY <2>4, SameMoment DEF Sound
  <2>9. (\A k : Owners(h, M, k) = Owners(g, M, k)) /\ StartHeld(h, M, D) = StartHeld(g, M, D)
    BY <2>4, SameMoment
  <2>10. h.click => \E d \in M : Decision(h, d) = "click"
    BY <2>2, <2>3, <2>4, SameMoment DEF Sound, k0
  <2> HIDE DEF M
  <2>11. \A k \in Keys :
          h.pressed[k] <= Cardinality(Owners(h, M, k))
                          + (IF k = h.startKey /\ StartHeld(h, M, D) THEN 1 ELSE 0)
    BY <2>3, <2>5, <2>6, <2>7, <2>9 DEF Sound
  <2>12. /\ \A k \in Keys : h.pressed[k] > 0 => k \in h.keys
         /\ \A k \in h.keys : h.pressed[k] = 0 => \E d \in Controls : NativeKey[d] = k
    BY <2>2, <2>3, <2>7, Pressed DEF Sound
  <2> QED
    BY <2>3, <2>8, <2>10, <2>11, <2>12 DEF Sound, h, M
<1> QED
  BY <1>1, <1>2, <1>3, <1>4

-----------------------------------------------------------------------------
(* The loops. *)

\* Sound says nothing of the rest of the state.
LEMMA SoundSame ==
    ASSUME NEW g, NEW h, NEW L, NEW D, Sound(g, L, D),
           h.pressed = g.pressed, h.keys = g.keys, h.startKey = g.startKey,
           h.click = g.click, h.now = g.now, h.nativeStart = g.nativeStart
    PROVE  Sound(h, L, D)
<1>1. /\ \A c : Decision(h, c) = Decision(g, c)
      /\ \A k : Owners(h, L, k) = Owners(g, L, k)
      /\ StartHeld(h, L, D) = StartHeld(g, L, D)
      /\ \A c : IsAction(h, c) = IsAction(g, c)
  BY DEF Decision, Proven, IsAction, Owners, StartHeld
<1> QED
  BY <1>1 DEF Sound

StartsIn(c) == NativeKey[c] = NoKey \/ \E x \in Contexts : Decide[x][c] = StartKey

\* A control that means START is a START button.
LEMMA DecidedStart ==
    ASSUME NEW g \in InputState, NEW c \in Controls, Decision(g, c) = StartKey
    PROVE  StartsIn(c) /\ IsAction(g, c) /\ Consumes(g, c)
<1>1. g.now \in Moment
  BY DEF InputState
<1>2. Proven(g) => g.now.context \in Contexts
  BY <1>1 DEF Moment, Proven
<1>3. Proven(g)
  BY KeysAre DEF Decision
<1> QED
  BY <1>2, <1>3, KeysAre DEF StartsIn, Decision, IsAction, Consumes

\* There is one such button.
LEMMA OnlyStart ==
    ASSUME OneStart, NEW c \in Controls, NEW d \in Controls, StartsIn(c), StartsIn(d)
    PROVE  c = d
BY DEF OneStart, StartsIn

\* What a poll leaves alone while it feeds the runtime.
Kept(g, h) ==
    /\ h.now = g.now /\ h.nativeStart = g.nativeStart
    /\ h.clicked = g.clicked /\ h.drag = g.drag /\ h.touch = g.touch

Latches(g) == g.latched \subseteq g.down \ g.blocked

\* One control fed to the runtime.
LEMMA FeedDoes ==
    ASSUME NEW g \in InputState, NEW D \in SUBSET Controls,
           NEW c \in Controls, NEW down \in BOOLEAN, NEW paused, NEW K \in SUBSET Keys,
           OneStart, Sound(g, g.latched, D), Latches(g),
           c \notin g.down /\ StartsIn(c) => \A d \in D : NativeKey[d] # NoKey
    PROVE  LET h == FeedButton(g, c, down, paused)
           IN  /\ h \in InputState /\ Sound(h, h.latched, D) /\ Latches(h) /\ Kept(g, h)
               /\ h.down = (IF down THEN g.down \cup {c} ELSE g.down \ {c})
               /\ Told(K, g) => Told(K, h)
               /\ Len(h.sent) <= Len(g.sent) + 1
<1> DEFINE h == FeedButton(g, c, down, paused)
           after == IF down THEN g.down \cup {c} ELSE g.down \ {c}
           j == [g EXCEPT !.down = after]
           b == [j EXCEPT !.blocked = @ \ {c}]
<1>0. Len(g.sent) \in Nat /\ g.latched \in SUBSET Controls /\ g.down \in SUBSET Controls
      /\ g.blocked \in SUBSET Controls
  BY LenProperties DEF InputState
<1>1. CASE (c \in g.down) = down
  <2>1. h = g
    BY <1>1 DEF FeedButton
  <2>2. g.down = after
    BY <1>1
  <2> HIDE DEF h, after
  <2>3. Kept(g, h)
    BY <2>1 DEF Kept
  <2> QED
    BY <1>0, <2>1, <2>2, <2>3 DEF h, after
<1>2. CASE (c \in g.down) # down
  <2> HIDE DEF after
  <2>1. after \in SUBSET Controls
    BY <1>0 DEF after
  <2>2. /\ j \in InputState /\ j.down = after /\ j.latched = g.latched /\ j.blocked = g.blocked
        /\ j.keys = g.keys /\ j.sent = g.sent /\ j.pressed = g.pressed
        /\ j.startKey = g.startKey /\ j.click = g.click /\ Kept(g, j)
    BY <2>1 DEF InputState, Kept
  <2>3. h = IF c \in j.blocked THEN IF down THEN j ELSE b
            ELSE LiveFeed(j, c, down, paused)
    BY <1>2 DEF FeedButton, after
  <2> HIDE DEF j
  <2>4. /\ b \in InputState /\ b.down = after /\ b.latched = g.latched
        /\ b.blocked = g.blocked \ {c}
        /\ b.keys = g.keys /\ b.sent = g.sent /\ b.pressed = g.pressed
        /\ b.startKey = g.startKey /\ b.click = g.click /\ Kept(j, b)
    BY <2>2, <1>0 DEF InputState, Kept
  <2> HIDE DEF b, h
  <2>5. Sound(j, g.latched, D)
    BY <2>2, SoundSame DEF Kept
  <2>6. Sound(b, g.latched, D)
    BY <2>2, <2>4, <2>5, SoundSame DEF Kept
  <2>7. CASE c \in g.blocked
    <3>1. c \notin g.latched
      BY <2>7 DEF Latches
    <3>2. CASE down
      <4>1. h = j
        BY <2>2, <2>3, <2>7, <3>2
      <4>2. Latches(j)
        BY <2>2, <3>1, <3>2 DEF Latches, after
      <4> QED
        BY <1>0, <2>2, <2>5, <4>1, <4>2 DEF Told, h, after
    <3>3. CASE ~down
      <4>1. h = b
        BY <2>2, <2>3, <2>7, <3>3
      <4>2. Latches(b)
        BY <2>4, <3>1, <3>3 DEF Latches, after
      <4>3. Kept(g, b)
        BY <2>2, <2>4 DEF Kept
      <4> QED
        BY <1>0, <2>4, <2>6, <4>1, <4>2, <4>3 DEF Told, h, after
    <3> QED
      BY <3>2, <3>3
  <2>8. CASE c \notin g.blocked
    <3>1. h = LiveFeed(j, c, down, paused)
      BY <2>2, <2>3, <2>8
    <3>2. CASE ~IsAction(j, c) \/ (c \in j.latched) = down
      <4>1. h = j
        BY <3>1, <3>2 DEF LiveFeed
      <4>2. IsAction(j, c) = IsAction(g, c)
        BY <2>2 DEF Kept, IsAction, Decision, Proven
      <4>3. ~down => c \notin g.latched
        <5> SUFFICES ASSUME ~down, c \in g.latched PROVE FALSE
          OBVIOUS
        <5>1. IsAction(j, c)
          BY <2>5 DEF Sound
        <5> QED
          BY <2>2, <3>2, <5>1
      <4>4. Latches(j)
        BY <2>2, <4>3 DEF Latches, after
      <4> QED
        BY <1>0, <2>2, <2>5, <4>1, <4>4 DEF Told, h, after
    <3>3. CASE IsAction(j, c) /\ (c \in j.latched) # down
      <4> DEFINE e == Sink(j, c, down, paused)
                 M == IF down THEN j.latched \cup {c} ELSE j.latched \ {c}
      <4>1. Event(j, e, down, K) /\ Sound(e, M, D)
        <5>1. CASE down = TRUE
          <6>1. c \notin g.down /\ c \in Controls \ j.latched
            BY <1>2, <2>2, <3>3, <5>1
          <6>2. Decision(j, c) = StartKey => ~StartHeld(j, j.latched, D)
            <7> SUFFICES ASSUME Decision(j, c) = StartKey
                         PROVE  ~StartHeld(j, j.latched, D)
              OBVIOUS
            <7>1. StartsIn(c)
              BY <2>2, DecidedStart
            <7>2. \A d \in D : NativeKey[d] # NoKey
              BY <6>1, <7>1
            <7>3. \A d \in j.latched : Decision(j, d) # StartKey
              BY <1>0, <2>2, <6>1, <7>1, DecidedStart, OnlyStart
            <7> QED
              BY <7>2, <7>3 DEF StartHeld
          <6>3. j.latched \in SUBSET Controls /\ Sound(j, j.latched, D)
            BY <1>0, <2>2, <2>5
          <6>4. Event(j, Sink(j, c, TRUE, paused), TRUE, K)
                /\ Sound(Sink(j, c, TRUE, paused), j.latched \cup {c}, D)
            BY <2>2, <3>3, <6>1, <6>2, <6>3, SinkDown
          <6> QED
            BY <5>1, <6>4
        <5>2. CASE down = FALSE
          <6>1. c \in j.latched
            BY <3>3, <5>2
          <6>3. j.latched \in SUBSET Controls /\ Sound(j, j.latched, D)
            BY <1>0, <2>2, <2>5
          <6>4. Event(j, Sink(j, c, FALSE, paused), FALSE, K)
                /\ Sound(Sink(j, c, FALSE, paused), j.latched \ {c}, D)
            BY <2>2, <6>1, <6>3, SinkUp
          <6> QED
            BY <5>2, <6>4
        <5> QED
          BY <5>1, <5>2
      <4> HIDE DEF e
      <4>2. e \in InputState /\ Rest(e) = Rest(j)
        BY <4>1 DEF Event
      <4>3. /\ e.latched = j.latched /\ e.down = j.down /\ e.blocked = j.blocked /\ Kept(j, e)
        BY <4>2 DEF Rest, Kept
      <4>4. h = [e EXCEPT !.latched = M]
        BY <3>1, <3>3, <4>3 DEF LiveFeed, e
      <4>5. M \in SUBSET Controls
        BY <1>0, <2>2
      <4> HIDE DEF M
      <4>6. /\ h \in InputState /\ h.latched = M /\ h.down = e.down /\ h.blocked = e.blocked
            /\ h.keys = e.keys /\ h.sent = e.sent /\ h.pressed = e.pressed
            /\ h.startKey = e.startKey /\ h.click = e.click /\ Kept(e, h)
        BY <4>2, <4>4, <4>5 DEF InputState, Kept
      <4>7. Sound(h, h.latched, D)
        BY <4>1, <4>6, SoundSame DEF Kept
      <4>8. Kept(g, h)
        BY <2>2, <4>3, <4>6 DEF Kept
      <4>9. Latches(h)
        BY <2>2, <2>8, <4>3, <4>6 DEF Latches, after, M
      <4>10. h.down = after
        BY <2>2, <4>3, <4>6
      <4>11. /\ Told(K, g) => Told(K, h)
             /\ Len(h.sent) <= Len(g.sent) + 1
        BY <2>2, <4>1, <4>6 DEF Event, Told
      <4> QED
        BY <4>6, <4>7, <4>8, <4>9, <4>10, <4>11 DEF h, after
    <3> QED
      BY <3>2, <3>3
  <2> QED
    BY <2>7, <2>8
<1> QED
  BY <1>1, <1>2

\* The loops, step by step.
LEMMA ReleaseLatchedUnfolds ==
    ASSUME NEW g
    PROVE  \E f : /\ f[0] = g
                  /\ \A i \in 0 .. Len(Order) :
                        i < Len(Order) => f[i + 1] = IF Order[i + 1] \in g.latched THEN Sink(f[i], Order[i + 1], FALSE, FALSE) ELSE f[i]
                  /\ ReleaseLatched(g) = f[Len(Order)]
<1> DEFINE n == Len(Order)
           g0 == g
           Op(h, c) == IF c \in g.latched THEN Sink(h, c, FALSE, FALSE) ELSE h
           Is(f, m) == f = [i \in 0..m |-> IF i = 0 THEN g0 ELSE Op(f[i - 1], Order[i])]
           S == {m \in 0..n : \E f : Is(f, m)}
<1>0. n \in Nat
  BY ControlsFinite
<1> HIDE DEF Op, n, g0
<1>1. 0 \in S
  <2>1. Is([i \in 0..0 |-> g0], 0)
    OBVIOUS
  <2> HIDE DEF Is
  <2> QED
    BY <1>0, <2>1
<1>2. ASSUME NEW m \in 0..n, m \in S, m < n PROVE m + 1 \in S
  <2>1. PICK f : Is(f, m)
    BY <1>2
  <2> DEFINE e == [i \in 0..(m + 1) |-> IF i = m + 1 THEN Op(f[m], Order[i]) ELSE f[i]]
  <2>2. \A i \in 0..(m + 1) : e[i] = IF i = 0 THEN g0 ELSE Op(e[i - 1], Order[i])
    <3> TAKE i \in 0..(m + 1)
    <3>1. CASE i = 0
      BY <2>1, <3>1
    <3>2. CASE i = m + 1
      BY <2>1, <3>2
    <3>3. CASE i \in 1..m
      BY <2>1, <3>3
    <3> QED
      BY <3>1, <3>2, <3>3
  <2>3. Is(e, m + 1)
    BY <2>2
  <2>4. m + 1 \in 0..n
    BY <1>0, <1>2
  <2> HIDE DEF Is, e
  <2> QED
    BY <2>3, <2>4
<1>3. n \in S
  <2> HIDE DEF S
  <2>1. 0..n \subseteq S
    BY <1>0, <1>1, <1>2, SetInduction
  <2>2. n \in 0..n
    BY <1>0
  <2> QED
    BY <2>1, <2>2
<1>4. PICK f : Is(f, n)
  BY <1>3
<1> DEFINE after == CHOOSE h : Is(h, n)
<1>5. Is(after, n)
  <2> HIDE DEF Is
  <2> QED
    BY <1>4
<1>6. ReleaseLatched(g) = after[n]
  BY DEF ReleaseLatched, InOrder, Op, n, g0
<1> HIDE DEF after
<1>7. \A i \in 0..n : after[i] = IF i = 0 THEN g0 ELSE Op(after[i - 1], Order[i])
  <2>1. after = [i \in 0..n |-> IF i = 0 THEN g0 ELSE Op(after[i - 1], Order[i])]
    BY <1>5
  <2>2. \A i \in 0..n :
           after[i] = [j \in 0..n |-> IF j = 0 THEN g0 ELSE Op(after[j - 1], Order[j])][i]
    BY <2>1
  <2> QED
    BY <2>2
<1>8. after[0] = g0
  BY <1>0, <1>7
<1>9. \A i \in 0..n : i < n => after[i + 1] = Op(after[i], Order[i + 1])
  <2> TAKE i \in 0..n
  <2> HAVE i < n
  <2>1. i + 1 \in 0..n /\ i + 1 # 0 /\ (i + 1) - 1 = i
    BY <1>0
  <2> QED
    BY <1>7, <2>1
<1> QED
  BY <1>6, <1>8, <1>9 DEF Op, n, g0

\* A finite set of keys, as a sequence.
LEMMA KeysInSequence ==
    ASSUME NEW g \in InputState
    PROVE  /\ Len(SetToSeq(g.keys)) \in Nat
           /\ \A i \in 1..Len(SetToSeq(g.keys)) : SetToSeq(g.keys)[i] \in g.keys
           /\ \A k \in g.keys : \E i \in 1..Len(SetToSeq(g.keys)) : SetToSeq(g.keys)[i] = k
<1> DEFINE q == SetToSeq(g.keys)
           n == Cardinality(g.keys)
<1>1. IsFiniteSet(g.keys)
  BY KeysAre, FS_Subset DEF InputState
<1>2. n \in Nat /\ ExistsBijection(1..n, g.keys)
  BY <1>1, FS_CardinalityType
<1>3. PICK f \in Bijection(1..n, g.keys) : TRUE
  BY <1>2 DEF ExistsBijection
<1>4. f \in [1..n -> g.keys] /\ IsInjective(f)
  BY <1>3 DEF Bijection, Injection
<1>5. q \in [1..n -> g.keys] /\ IsInjective(q)
  BY <1>4 DEF SetToSeq
<1> HIDE DEF q
<1>6. q \in Injection(1..n, g.keys)
  BY <1>5 DEF Injection
<1>7. Cardinality(1..n) = n
  BY <1>2, FS_Interval
<1>8. q \in Surjection(1..n, g.keys)
  <2> HIDE DEF n
  <2> QED BY <1>1, <1>6, <1>7, FS_Injection DEF n
<1>9. Len(q) = n
  BY <1>2, <1>5
<1>10. \A k \in g.keys : \E i \in 1..n : q[i] = k
  BY <1>8 DEF Surjection
<1>11. \A i \in 1..n : q[i] \in g.keys
  BY <1>5
<1> HIDE DEF n
<1> QED
  BY <1>2, <1>9, <1>10, <1>11 DEF q

\* The same for every key that is down,
LEMMA ReleaseAllUnfolds ==
    ASSUME NEW g \in InputState
    PROVE  \E f : /\ f[0] = [g EXCEPT !.pressed = [k \in Keys |-> 0]]
                  /\ \A i \in 0 .. Len(SetToSeq(g.keys)) :
                        i < Len(SetToSeq(g.keys)) => f[i + 1] = DeliverKey(f[i], SetToSeq(g.keys)[i + 1], FALSE)
                  /\ ReleaseAllKeys(g) = f[Len(SetToSeq(g.keys))]
<1> DEFINE n == Len(SetToSeq(g.keys))
           g0 == [g EXCEPT !.pressed = [k \in Keys |-> 0]]
           Op(h, c) == DeliverKey(h, c, FALSE)
           Is(f, m) == f = [i \in 0..m |-> IF i = 0 THEN g0 ELSE Op(f[i - 1], SetToSeq(g.keys)[i])]
           S == {m \in 0..n : \E f : Is(f, m)}
<1>0. n \in Nat
  BY KeysInSequence
<1> HIDE DEF Op, n, g0
<1>1. 0 \in S
  <2>1. Is([i \in 0..0 |-> g0], 0)
    OBVIOUS
  <2> HIDE DEF Is
  <2> QED
    BY <1>0, <2>1
<1>2. ASSUME NEW m \in 0..n, m \in S, m < n PROVE m + 1 \in S
  <2>1. PICK f : Is(f, m)
    BY <1>2
  <2> DEFINE e == [i \in 0..(m + 1) |-> IF i = m + 1 THEN Op(f[m], SetToSeq(g.keys)[i]) ELSE f[i]]
  <2>2. \A i \in 0..(m + 1) : e[i] = IF i = 0 THEN g0 ELSE Op(e[i - 1], SetToSeq(g.keys)[i])
    <3> TAKE i \in 0..(m + 1)
    <3>1. CASE i = 0
      BY <2>1, <3>1
    <3>2. CASE i = m + 1
      BY <2>1, <3>2
    <3>3. CASE i \in 1..m
      BY <2>1, <3>3
    <3> QED
      BY <3>1, <3>2, <3>3
  <2>3. Is(e, m + 1)
    BY <2>2
  <2>4. m + 1 \in 0..n
    BY <1>0, <1>2
  <2> HIDE DEF Is, e
  <2> QED
    BY <2>3, <2>4
<1>3. n \in S
  <2> HIDE DEF S
  <2>1. 0..n \subseteq S
    BY <1>0, <1>1, <1>2, SetInduction
  <2>2. n \in 0..n
    BY <1>0
  <2> QED
    BY <2>1, <2>2
<1>4. PICK f : Is(f, n)
  BY <1>3
<1> DEFINE after == CHOOSE h : Is(h, n)
<1>5. Is(after, n)
  <2> HIDE DEF Is
  <2> QED
    BY <1>4
<1>6. ReleaseAllKeys(g) = after[n]
  BY DEF ReleaseAllKeys, InOrder, Op, n, g0
<1> HIDE DEF after
<1>7. \A i \in 0..n : after[i] = IF i = 0 THEN g0 ELSE Op(after[i - 1], SetToSeq(g.keys)[i])
  <2>1. after = [i \in 0..n |-> IF i = 0 THEN g0 ELSE Op(after[i - 1], SetToSeq(g.keys)[i])]
    BY <1>5
  <2>2. \A i \in 0..n :
           after[i] = [j \in 0..n |-> IF j = 0 THEN g0 ELSE Op(after[j - 1], SetToSeq(g.keys)[j])][i]
    BY <2>1
  <2> QED
    BY <2>2
<1>8. after[0] = g0
  BY <1>0, <1>7
<1>9. \A i \in 0..n : i < n => after[i + 1] = Op(after[i], SetToSeq(g.keys)[i + 1])
  <2> TAKE i \in 0..n
  <2> HAVE i < n
  <2>1. i + 1 \in 0..n /\ i + 1 # 0 /\ (i + 1) - 1 = i
    BY <1>0
  <2> QED
    BY <1>7, <2>1
<1> QED
  BY <1>6, <1>8, <1>9 DEF Op, n, g0

\* for every control fed to the runtime,
LEMMA FeedUnfolds ==
    ASSUME NEW g, NEW now, NEW paused
    PROVE  \E f : /\ f[0] = g
                  /\ \A i \in 0 .. Len(Order) :
                        i < Len(Order) => f[i + 1] = FeedButton(f[i], Order[i + 1], Order[i + 1] \in now, paused)
                  /\ FeedButtons(g, now, paused) = f[Len(Order)]
<1> DEFINE n == Len(Order)
           g0 == g
           Op(h, c) == FeedButton(h, c, c \in now, paused)
           Is(f, m) == f = [i \in 0..m |-> IF i = 0 THEN g0 ELSE Op(f[i - 1], Order[i])]
           S == {m \in 0..n : \E f : Is(f, m)}
<1>0. n \in Nat
  BY ControlsFinite
<1> HIDE DEF Op, n, g0
<1>1. 0 \in S
  <2>1. Is([i \in 0..0 |-> g0], 0)
    OBVIOUS
  <2> HIDE DEF Is
  <2> QED
    BY <1>0, <2>1
<1>2. ASSUME NEW m \in 0..n, m \in S, m < n PROVE m + 1 \in S
  <2>1. PICK f : Is(f, m)
    BY <1>2
  <2> DEFINE e == [i \in 0..(m + 1) |-> IF i = m + 1 THEN Op(f[m], Order[i]) ELSE f[i]]
  <2>2. \A i \in 0..(m + 1) : e[i] = IF i = 0 THEN g0 ELSE Op(e[i - 1], Order[i])
    <3> TAKE i \in 0..(m + 1)
    <3>1. CASE i = 0
      BY <2>1, <3>1
    <3>2. CASE i = m + 1
      BY <2>1, <3>2
    <3>3. CASE i \in 1..m
      BY <2>1, <3>3
    <3> QED
      BY <3>1, <3>2, <3>3
  <2>3. Is(e, m + 1)
    BY <2>2
  <2>4. m + 1 \in 0..n
    BY <1>0, <1>2
  <2> HIDE DEF Is, e
  <2> QED
    BY <2>3, <2>4
<1>3. n \in S
  <2> HIDE DEF S
  <2>1. 0..n \subseteq S
    BY <1>0, <1>1, <1>2, SetInduction
  <2>2. n \in 0..n
    BY <1>0
  <2> QED
    BY <2>1, <2>2
<1>4. PICK f : Is(f, n)
  BY <1>3
<1> DEFINE after == CHOOSE h : Is(h, n)
<1>5. Is(after, n)
  <2> HIDE DEF Is
  <2> QED
    BY <1>4
<1>6. FeedButtons(g, now, paused) = after[n]
  BY DEF FeedButtons, InOrder, Op, n, g0
<1> HIDE DEF after
<1>7. \A i \in 0..n : after[i] = IF i = 0 THEN g0 ELSE Op(after[i - 1], Order[i])
  <2>1. after = [i \in 0..n |-> IF i = 0 THEN g0 ELSE Op(after[i - 1], Order[i])]
    BY <1>5
  <2>2. \A i \in 0..n :
           after[i] = [j \in 0..n |-> IF j = 0 THEN g0 ELSE Op(after[j - 1], Order[j])][i]
    BY <2>1
  <2> QED
    BY <2>2
<1>8. after[0] = g0
  BY <1>0, <1>7
<1>9. \A i \in 0..n : i < n => after[i + 1] = Op(after[i], Order[i + 1])
  <2> TAKE i \in 0..n
  <2> HAVE i < n
  <2>1. i + 1 \in 0..n /\ i + 1 # 0 /\ (i + 1) - 1 = i
    BY <1>0
  <2> QED
    BY <1>7, <2>1
<1> QED
  BY <1>6, <1>8, <1>9 DEF Op, n, g0

\* and for every control's native level.
LEMMA NativeUnfolds ==
    ASSUME NEW g, NEW now
    PROVE  \E f : /\ f[0] = g
                  /\ \A i \in 0 .. Len(Order) :
                        i < Len(Order) => f[i + 1] = NativeButton(f[i], Order[i + 1], Order[i + 1] \in now)
                  /\ NativeButtons(g, now) = f[Len(Order)]
<1> DEFINE n == Len(Order)
           g0 == g
           Op(h, c) == NativeButton(h, c, c \in now)
           Is(f, m) == f = [i \in 0..m |-> IF i = 0 THEN g0 ELSE Op(f[i - 1], Order[i])]
           S == {m \in 0..n : \E f : Is(f, m)}
<1>0. n \in Nat
  BY ControlsFinite
<1> HIDE DEF Op, n, g0
<1>1. 0 \in S
  <2>1. Is([i \in 0..0 |-> g0], 0)
    OBVIOUS
  <2> HIDE DEF Is
  <2> QED
    BY <1>0, <2>1
<1>2. ASSUME NEW m \in 0..n, m \in S, m < n PROVE m + 1 \in S
  <2>1. PICK f : Is(f, m)
    BY <1>2
  <2> DEFINE e == [i \in 0..(m + 1) |-> IF i = m + 1 THEN Op(f[m], Order[i]) ELSE f[i]]
  <2>2. \A i \in 0..(m + 1) : e[i] = IF i = 0 THEN g0 ELSE Op(e[i - 1], Order[i])
    <3> TAKE i \in 0..(m + 1)
    <3>1. CASE i = 0
      BY <2>1, <3>1
    <3>2. CASE i = m + 1
      BY <2>1, <3>2
    <3>3. CASE i \in 1..m
      BY <2>1, <3>3
    <3> QED
      BY <3>1, <3>2, <3>3
  <2>3. Is(e, m + 1)
    BY <2>2
  <2>4. m + 1 \in 0..n
    BY <1>0, <1>2
  <2> HIDE DEF Is, e
  <2> QED
    BY <2>3, <2>4
<1>3. n \in S
  <2> HIDE DEF S
  <2>1. 0..n \subseteq S
    BY <1>0, <1>1, <1>2, SetInduction
  <2>2. n \in 0..n
    BY <1>0
  <2> QED
    BY <2>1, <2>2
<1>4. PICK f : Is(f, n)
  BY <1>3
<1> DEFINE after == CHOOSE h : Is(h, n)
<1>5. Is(after, n)
  <2> HIDE DEF Is
  <2> QED
    BY <1>4
<1>6. NativeButtons(g, now) = after[n]
  BY DEF NativeButtons, InOrder, Op, n, g0
<1> HIDE DEF after
<1>7. \A i \in 0..n : after[i] = IF i = 0 THEN g0 ELSE Op(after[i - 1], Order[i])
  <2>1. after = [i \in 0..n |-> IF i = 0 THEN g0 ELSE Op(after[i - 1], Order[i])]
    BY <1>5
  <2>2. \A i \in 0..n :
           after[i] = [j \in 0..n |-> IF j = 0 THEN g0 ELSE Op(after[j - 1], Order[j])][i]
    BY <2>1
  <2> QED
    BY <2>2
<1>8. after[0] = g0
  BY <1>0, <1>7
<1>9. \A i \in 0..n : i < n => after[i + 1] = Op(after[i], Order[i + 1])
  <2> TAKE i \in 0..n
  <2> HAVE i < n
  <2>1. i + 1 \in 0..n /\ i + 1 # 0 /\ (i + 1) - 1 = i
    BY <1>0
  <2> QED
    BY <1>7, <2>1
<1> QED
  BY <1>6, <1>8, <1>9 DEF Op, n, g0

\* Releases only: what was down and what was sent weigh as much together.
LetGo(g, h, K) ==
    /\ h \in InputState
    /\ Told(K, g) => Told(K, h)
    /\ Weight(h) = Weight(g)

\* What the mapping runtime has latched is let go, one control after the other.
LEMMA ReleaseLatchedDoes ==
    ASSUME NEW g \in InputState, NEW D \in SUBSET Controls, NEW K \in SUBSET Keys,
           Sound(g, g.latched, D)
    PROVE  LET h == ReleaseLatched(g)
           IN  LetGo(g, h, K) /\ Rest(h) = Rest(g) /\ Sound(h, {}, D)
<1> DEFINE n == Len(Order)
           Left(i) == {c \in g.latched : \E j \in (i + 1) .. n : Order[j] = c}
<1>1. PICK f : /\ f[0] = g
               /\ \A i \in 0 .. n : i < n =>
                     f[i + 1] = IF Order[i + 1] \in g.latched
                                THEN Sink(f[i], Order[i + 1], FALSE, FALSE) ELSE f[i]
               /\ ReleaseLatched(g) = f[n]
  BY ReleaseLatchedUnfolds
<1>2. n \in Nat /\ \A i \in 1..n : Order[i] \in Controls
  BY ControlsFinite
<1> DEFINE S == {i \in 0..n : /\ f[i] \in InputState /\ Rest(f[i]) = Rest(g)
                              /\ Sound(f[i], Left(i), D)
                              /\ Told(K, g) => Told(K, f[i])
                              /\ Weight(f[i]) = Weight(g)}
<1> HIDE DEF n
<1>3. 0 \in S
  <2>1. Left(0) = g.latched
    <3>1. \A c \in g.latched : \E j \in 1..n : Order[j] = c
      BY ControlsFinite DEF InputState, n
    <3> QED
      BY <3>1
  <2> HIDE DEF Left
  <2> QED
    BY <1>1, <1>2, <2>1
<1>4. ASSUME NEW i \in 0..n, i \in S, i < n PROVE i + 1 \in S
  <2> DEFINE c == Order[i + 1]
             e == f[i]
             h == f[i + 1]
  <2>1. i + 1 \in 1..n /\ i + 1 \in 0..n /\ c \in Controls
    BY <1>2, <1>4
  <2>2. h = IF c \in g.latched THEN Sink(e, c, FALSE, FALSE) ELSE e
    BY <1>1, <1>4
  <2>3. /\ e \in InputState /\ Rest(e) = Rest(g) /\ Sound(e, Left(i), D)
        /\ Told(K, g) => Told(K, e)
        /\ Weight(e) = Weight(g)
    BY <1>4
  <2>4. c \in g.latched => c \in Left(i)
    BY <2>1
  <2>5. Left(i + 1) = Left(i) \ {c}
    <3>1. \A j \in ((i + 1) + 1) .. n : j \in 1..n /\ j # i + 1 /\ j \in (i + 1) .. n
      BY <1>2, <2>1
    <3>2. \A j \in ((i + 1) + 1) .. n : Order[j] # c
      BY <2>1, <3>1, ControlsFinite DEF n
    <3>3. \A j \in (i + 1) .. n : j = i + 1 \/ j \in ((i + 1) + 1) .. n
      BY <1>2, <2>1
    <3> HIDE DEF c
    <3>4. \A d \in Left(i) : d # c => d \in Left(i + 1)
      <4> TAKE d \in Left(i)
      <4> HAVE d # c
      <4>1. PICK j \in (i + 1) .. n : Order[j] = d
        OBVIOUS
      <4>2. j # i + 1
        BY <4>1 DEF c
      <4> QED
        BY <3>3, <4>1, <4>2
    <3>5. \A d \in Left(i + 1) : d \in Left(i) /\ d # c
      BY <3>1, <3>2
    <3> HIDE DEF Left
    <3> QED
      BY <3>4, <3>5
  <2>6. Left(i) \in SUBSET Controls
    BY DEF InputState
  <2> HIDE DEF Left, c, e, h
  <2>7. CASE c \in g.latched
    <3>1. Event(e, Sink(e, c, FALSE, FALSE), FALSE, K)
          /\ Sound(Sink(e, c, FALSE, FALSE), Left(i) \ {c}, D)
      BY <2>3, <2>4, <2>6, <2>7, SinkUp
    <3>2. Event(e, h, FALSE, K) /\ Sound(h, Left(i + 1), D)
      BY <2>2, <2>5, <2>7, <3>1
    <3>3. /\ h \in InputState /\ Rest(h) = Rest(g) /\ Sound(h, Left(i + 1), D)
          /\ Told(K, g) => Told(K, h)
          /\ Weight(h) = Weight(g)
      BY <2>3, <3>2 DEF Event
    <3> QED
      BY <2>1, <3>3 DEF h
  <2>8. CASE c \notin g.latched
    <3>1. h = e /\ Left(i + 1) = Left(i)
      <4>1. c \notin Left(i)
        BY <2>8 DEF Left
      <4> QED
        BY <2>2, <2>5, <2>8, <4>1
    <3> QED
      BY <2>1, <2>3, <3>1 DEF h
  <2> QED
    BY <2>7, <2>8
<1>5. n \in S
  <2> HIDE DEF S
  <2>1. 0..n \subseteq S
    BY <1>2, <1>3, <1>4, SetInduction
  <2>2. n \in 0..n
    BY <1>2
  <2> QED
    BY <2>1, <2>2
<1>6. Left(n) = {}
  BY <1>2
<1> HIDE DEF Left
<1> DEFINE h == ReleaseLatched(g)
<1>7. /\ h \in InputState /\ Rest(h) = Rest(g) /\ Sound(h, {}, D)
      /\ Told(K, g) => Told(K, h)
      /\ Weight(h) = Weight(g)
  BY <1>1, <1>5, <1>6
<1> HIDE DEF h
<1> QED
  BY <1>7 DEF LetGo, h

\* A lifecycle boundary leaves no key and no count.
LEMMA ReleaseAllKeysDoes ==
    ASSUME NEW g \in InputState, NEW K \in SUBSET Keys
    PROVE  LET h == ReleaseAllKeys(g)
           IN  /\ LetGo(g, h, K) /\ Rest(h) = Rest(g) /\ h.keys = {}
               /\ h.pressed = [k \in Keys |-> 0] /\ h.click = g.click
<1> DEFINE q == SetToSeq(g.keys)
           n == Len(q)
           g0 == [g EXCEPT !.pressed = [k \in Keys |-> 0]]
           Down(i) == {k \in g.keys : \E j \in (i + 1) .. n : q[j] = k}
<1>1. PICK f : /\ f[0] = g0
               /\ \A i \in 0 .. n : i < n => f[i + 1] = DeliverKey(f[i], q[i + 1], FALSE)
               /\ ReleaseAllKeys(g) = f[n]
  BY ReleaseAllUnfolds
<1>2. /\ n \in Nat /\ \A i \in 1..n : q[i] \in g.keys
      /\ \A k \in g.keys : \E i \in 1..n : q[i] = k
  BY KeysInSequence
<1>3. g.keys \in SUBSET Keys
  BY DEF InputState
<1>4. /\ g0 \in InputState /\ g0.keys = g.keys /\ g0.sent = g.sent /\ Rest(g0) = Rest(g)
      /\ g0.pressed = [k \in Keys |-> 0] /\ g0.click = g.click
  BY DEF InputState, Rest
<1> HIDE DEF n, q, g0
<1> DEFINE S == {i \in 0..n : /\ f[i] \in InputState /\ Rest(f[i]) = Rest(g)
                              /\ f[i].keys \subseteq Down(i)
                              /\ f[i].pressed = g0.pressed /\ f[i].click = g0.click
                              /\ Told(K, g) => Told(K, f[i])
                              /\ Weight(f[i]) = Weight(g)}
<1>5. 0 \in S
  <2>1. Down(0) = g.keys
    BY <1>2
  <2>2. 0 \in 0..n
    BY <1>2
  <2>3. (Told(K, g) => Told(K, g0)) /\ Weight(g0) = Weight(g)
    BY <1>4 DEF Told, Weight
  <2> HIDE DEF Down
  <2> QED
    BY <1>1, <1>4, <2>1, <2>2, <2>3
<1>6. ASSUME NEW i \in 0..n, i \in S, i < n PROVE i + 1 \in S
  <2> DEFINE k == q[i + 1]
             e == f[i]
             h == f[i + 1]
  <2>1. i + 1 \in 1..n /\ i + 1 \in 0..n /\ k \in Keys
    BY <1>2, <1>3, <1>6
  <2>2. h = DeliverKey(e, k, FALSE)
    BY <1>1, <1>6
  <2>3. /\ e \in InputState /\ Rest(e) = Rest(g) /\ e.keys \subseteq Down(i)
        /\ e.pressed = g0.pressed /\ e.click = g0.click
        /\ Told(K, g) => Told(K, e)
        /\ Weight(e) = Weight(g)
    BY <1>6
  <2>4. Down(i) \ {k} \subseteq Down(i + 1)
    <3>1. \A j \in (i + 1) .. n : j = i + 1 \/ j \in ((i + 1) + 1) .. n
      BY <1>2, <2>1
    <3> HIDE DEF k
    <3>2. ASSUME NEW d \in Down(i), d # k PROVE d \in Down(i + 1)
      <4>1. PICK j \in (i + 1) .. n : q[j] = d
        OBVIOUS
      <4>2. j # i + 1
        BY <3>2, <4>1 DEF k
      <4> QED
        BY <3>1, <4>1, <4>2
    <3> HIDE DEF Down
    <3> QED
      BY <3>2
  <2> HIDE DEF Down, k, e, h
  <2>5. LET d == DeliverKey(e, k, FALSE)
        IN  /\ d \in InputState
            /\ d.keys = e.keys \ {k}
            /\ Rest(d) = Rest(e) /\ d.pressed = e.pressed /\ d.startKey = e.startKey
            /\ d.click = e.click
            /\ Told(K, e) => Told(K, d)
            /\ Weight(d) = Weight(e)
    BY <2>1, <2>3, DeliverKeyDoes
  <2>6. /\ h \in InputState /\ Rest(h) = Rest(g) /\ h.keys \subseteq Down(i + 1)
        /\ h.pressed = g0.pressed /\ h.click = g0.click
        /\ Told(K, g) => Told(K, h)
        /\ Weight(h) = Weight(g)
    BY <2>2, <2>3, <2>4, <2>5
  <2> QED
    BY <2>1, <2>6 DEF h
<1>7. n \in S
  <2> HIDE DEF S
  <2>1. 0..n \subseteq S
    BY <1>2, <1>5, <1>6, SetInduction
  <2>2. n \in 0..n
    BY <1>2
  <2> QED
    BY <2>1, <2>2
<1>8. Down(n) = {}
  BY <1>2
<1> HIDE DEF Down
<1> DEFINE h == ReleaseAllKeys(g)
<1>9. /\ h \in InputState /\ Rest(h) = Rest(g) /\ h.keys = {}
      /\ h.pressed = g0.pressed /\ h.click = g0.click
      /\ Told(K, g) => Told(K, h)
      /\ Weight(h) = Weight(g)
  BY <1>1, <1>7, <1>8
<1> HIDE DEF h
<1> QED
  BY <1>4, <1>9 DEF LetGo, h

\* With nothing latched, the context tells nothing of what is owned.
LEMMA SoundAnywhere ==
    ASSUME NEW g, NEW h, NEW D, NEW E, Sound(g, {}, D),
           h.pressed = g.pressed, h.keys = g.keys, h.startKey = g.startKey,
           h.click = g.click,
           g.nativeStart /\ (\E c \in D : NativeKey[c] = NoKey)
             => h.nativeStart /\ \E c \in E : NativeKey[c] = NoKey,
           \A k \in Keys : g.pressed[k] \in Nat
    PROVE  Sound(h, {}, E) /\ h.click = FALSE
<1>1. \A k : Owners(g, {}, k) = {} /\ Owners(h, {}, k) = {}
  BY DEF Owners
<1>2. StartHeld(g, {}, D) => StartHeld(h, {}, E)
  BY DEF StartHeld
<1>3. \A k \in Keys : h.pressed[k] <= (IF k = h.startKey /\ StartHeld(h, {}, E) THEN 1 ELSE 0)
  BY <1>1, <1>2, FS_EmptySet DEF Sound
<1> QED
  BY <1>1, <1>3, FS_EmptySet DEF Sound

\* Without a context nothing is latched.
LEMMA ClearContextDoes ==
    ASSUME NEW g \in InputState, NEW D \in SUBSET Controls, NEW K \in SUBSET Keys,
           Sound(g, g.latched, D)
    PROVE  LET h == ClearContext(g)
           IN  /\ LetGo(g, h, K) /\ Sound(h, {}, D)
               /\ h.latched = {} /\ h.now = Unproven /\ h.click = FALSE
               /\ h.down = g.down /\ h.blocked = g.blocked /\ h.nativeStart = g.nativeStart
               /\ h.clicked = g.clicked /\ h.drag = g.drag /\ h.touch = g.touch
<1> DEFINE e == IF Proven(g) THEN ReleaseLatched(g) ELSE g
           h == [e EXCEPT !.latched = {}, !.now = Unproven]
<1>1. LetGo(g, e, K) /\ Rest(e) = Rest(g) /\ Sound(e, {}, D)
  <2>1. CASE Proven(g)
    BY <2>1, ReleaseLatchedDoes
  <2>2. CASE ~Proven(g)
    <3>1. g.latched = {}
      <4>1. \A c \in g.latched : IsAction(g, c)
        BY DEF Sound
      <4>2. \A c \in Controls : ~IsAction(g, c)
        BY <2>2, Decided
      <4> QED
        BY <4>1, <4>2 DEF InputState
    <3> QED
      BY <2>2, <3>1 DEF LetGo
  <2> QED
    BY <2>1, <2>2
<1>2. e \in InputState
  BY <1>1 DEF LetGo
<1> HIDE DEF e
<1>3. Unproven \in Moment
  BY DEF Moment
<1>4. /\ h \in InputState /\ h.latched = {} /\ h.now = Unproven /\ h.keys = e.keys
      /\ h.pressed = e.pressed /\ h.startKey = e.startKey /\ h.click = e.click
      /\ h.sent = e.sent /\ h.down = e.down /\ h.blocked = e.blocked
      /\ h.nativeStart = e.nativeStart /\ h.clicked = e.clicked
      /\ h.drag = e.drag /\ h.touch = e.touch
  BY <1>2, <1>3 DEF InputState
<1> HIDE DEF h
<1>5. Sound(h, {}, D) /\ h.click = FALSE
  <2>1. \A k \in Keys : e.pressed[k] \in Nat
    BY <1>2, Pressed
  <2> QED
    BY <1>1, <1>4, <2>1, SoundAnywhere
<1>6. LetGo(g, h, K)
  BY <1>1, <1>4 DEF LetGo, Told, Weight
<1>7. ClearContext(g) = h
  BY DEF ClearContext, h, e
<1> QED
  BY <1>1, <1>4, <1>5, <1>6, <1>7 DEF Rest

\* Another screen: what was held for the old one is let go, and blocked.
LEMMA SetContextDoes ==
    ASSUME NEW g \in InputState, NEW now \in Moment, NEW D \in SUBSET Controls,
           NEW K \in SUBSET Keys, Sound(g, g.latched, D), Latches(g)
    PROVE  LET h == SetContext(g, now)
           IN  /\ LetGo(g, h, K) /\ Sound(h, h.latched, D) /\ Latches(h)
               /\ h.now = now /\ h.down = g.down /\ h.nativeStart = g.nativeStart
               /\ h.clicked = g.clicked /\ h.drag = g.drag /\ h.touch = g.touch
<1>1. CASE g.now = now
  <2>1. SetContext(g, now) = g
    BY <1>1 DEF SetContext
  <2> QED
    BY <1>1, <2>1 DEF LetGo
<1>2. CASE g.now # now
  <2> DEFINE q == Quarantine(g)
             e == ClearContext(q)
             h == [e EXCEPT !.now = now]
  <2>1. /\ q \in InputState /\ q.latched = g.latched /\ q.down = g.down /\ q.now = g.now
        /\ q.pressed = g.pressed /\ q.keys = g.keys /\ q.startKey = g.startKey
        /\ q.click = g.click /\ q.sent = g.sent /\ q.nativeStart = g.nativeStart
        /\ q.clicked = g.clicked /\ q.drag = g.drag /\ q.touch = g.touch
    BY DEF Quarantine, InputState
  <2> HIDE DEF q
  <2>2. Sound(q, q.latched, D)
    BY <2>1, SoundSame
  <2>3. LetGo(g, q, K)
    BY <2>1 DEF LetGo, Told, Weight
  <2>4. /\ LetGo(q, e, K) /\ Sound(e, {}, D)
        /\ e.latched = {} /\ e.now = Unproven /\ e.click = FALSE
        /\ e.down = q.down /\ e.blocked = q.blocked /\ e.nativeStart = q.nativeStart
        /\ e.clicked = q.clicked /\ e.drag = q.drag /\ e.touch = q.touch
    BY <2>1, <2>2, ClearContextDoes
  <2>5. e \in InputState
    BY <2>4 DEF LetGo
  <2> HIDE DEF e
  <2>6. /\ h \in InputState /\ h.latched = {} /\ h.now = now /\ h.keys = e.keys
        /\ h.pressed = e.pressed /\ h.startKey = e.startKey /\ h.click = e.click
        /\ h.sent = e.sent /\ h.down = e.down /\ h.blocked = e.blocked
        /\ h.nativeStart = e.nativeStart /\ h.clicked = e.clicked
        /\ h.drag = e.drag /\ h.touch = e.touch
    BY <2>4, <2>5 DEF InputState
  <2> HIDE DEF h
  <2>7. Sound(h, {}, D)
    <3>1. \A k \in Keys : e.pressed[k] \in Nat
      BY <2>5, Pressed
    <3> QED
      BY <2>4, <2>6, <3>1, SoundAnywhere
  <2>8. LetGo(g, h, K)
    BY <2>3, <2>4, <2>6 DEF LetGo, Told, Weight
  <2>9. SetContext(g, now) = h
    BY <1>2 DEF SetContext, h, e, q
  <2>10. Latches(h)
    BY <2>6 DEF Latches
  <2> QED
    BY <2>1, <2>4, <2>6, <2>7, <2>8, <2>9, <2>10
<1> QED
  BY <1>1, <1>2

\* A lifecycle boundary: nothing is down, latched or counted.
LEMMA NeutralDoes ==
    ASSUME NEW g \in InputState, NEW D \in SUBSET Controls,
           NEW K \in SUBSET Keys, Sound(g, g.latched, D)
    PROVE  LET h == Neutral(g)
           IN  /\ LetGo(g, h, K) /\ Sound(h, {}, {}) /\ h.keys = {} /\ h.click = FALSE
               /\ h.now = Unproven /\ h.latched = {} /\ h.down = {}
               /\ h.nativeStart = g.nativeStart
               /\ h.clicked = g.clicked /\ h.drag = g.drag /\ h.touch = g.touch
<1> DEFINE e == ClearContext(g)
           r == [e EXCEPT !.down = {}, !.blocked = {}]
           h == ReleaseAllKeys(r)
<1>1. /\ LetGo(g, e, K) /\ Sound(e, {}, D)
      /\ e.latched = {} /\ e.now = Unproven /\ e.click = FALSE
      /\ e.down = g.down /\ e.blocked = g.blocked /\ e.nativeStart = g.nativeStart
      /\ e.clicked = g.clicked /\ e.drag = g.drag /\ e.touch = g.touch
  BY ClearContextDoes
<1>2. e \in InputState
  BY <1>1 DEF LetGo
<1> HIDE DEF e
<1>3. /\ r \in InputState /\ r.down = {} /\ r.latched = e.latched /\ r.now = e.now
      /\ r.keys = e.keys /\ r.sent = e.sent /\ r.click = e.click
      /\ r.nativeStart = e.nativeStart
      /\ r.clicked = e.clicked /\ r.drag = e.drag /\ r.touch = e.touch
  BY <1>2 DEF InputState
<1> HIDE DEF r
<1>4. LetGo(g, r, K)
  BY <1>1, <1>3 DEF LetGo, Told, Weight
<1>5. /\ LetGo(r, h, K) /\ Rest(h) = Rest(r) /\ h.keys = {}
      /\ h.pressed = [k \in Keys |-> 0] /\ h.click = r.click
  BY <1>3, ReleaseAllKeysDoes
<1> HIDE DEF h
<1>6. LetGo(g, h, K)
  BY <1>4, <1>5 DEF LetGo
<1>7. /\ h.down = {} /\ h.latched = {} /\ h.now = Unproven /\ h.nativeStart = g.nativeStart
      /\ h.clicked = g.clicked /\ h.drag = g.drag /\ h.touch = g.touch
      /\ h.click = FALSE
  BY <1>1, <1>3, <1>5 DEF Rest
<1>8. Sound(h, {}, {})
  <2>1. \A k \in Keys : h.pressed[k] = 0
    BY <1>5
  <2>2. \A k : Cardinality(Owners(h, {}, k)) = 0
    BY FS_EmptySet DEF Owners
  <2>3. \A k \in Keys : h.pressed[k] <= Cardinality(Owners(h, {}, k))
                          + (IF k = h.startKey /\ StartHeld(h, {}, {}) THEN 1 ELSE 0)
    BY <2>1, <2>2
  <2> QED
    BY <1>5, <1>7, <2>1, <2>3 DEF Sound
<1>9. Neutral(g) = h
  BY DEF Neutral, ReleaseAll, h, r, e
<1> QED
  BY <1>5, <1>6, <1>7, <1>8, <1>9

\* After the runtime was fed, it knows the level of every control.
LEMMA FeedingDoes ==
    ASSUME NEW g \in InputState, NEW now \in SUBSET Controls, NEW paused,
           NEW K \in SUBSET Keys, OneStart, Sound(g, g.latched, g.down), Latches(g)
    PROVE  LET h == FeedButtons(g, now, paused)
           IN  /\ h \in InputState /\ Sound(h, h.latched, g.down) /\ Latches(h) /\ Kept(g, h)
               /\ h.down = now
               /\ Told(K, g) => Told(K, h)
               /\ Len(h.sent) <= Len(g.sent) + Len(Order)
<1> DEFINE n == Len(Order)
           D == g.down
           all == FeedButtons(g, now, paused)
           Seen(h, i) == \A j \in 1..n : Order[j] \in h.down <=> Order[j] \in IF j <= i THEN now ELSE D
<1>1. PICK f : /\ f[0] = g
               /\ \A i \in 0 .. n : i < n =>
                     f[i + 1] = FeedButton(f[i], Order[i + 1], Order[i + 1] \in now, paused)
               /\ all = f[n]
  BY FeedUnfolds
<1>2. n \in Nat /\ \A i \in 1..n : Order[i] \in Controls
  BY ControlsFinite
<1>3. D \in SUBSET Controls /\ Len(g.sent) \in Nat
  BY LenProperties DEF InputState
<1> DEFINE S == {i \in 0..n : /\ f[i] \in InputState /\ Sound(f[i], f[i].latched, D)
                              /\ Latches(f[i]) /\ Kept(g, f[i]) /\ Seen(f[i], i)
                              /\ Told(K, g) => Told(K, f[i])
                              /\ Len(f[i].sent) <= Len(g.sent) + i}
<1> HIDE DEF n, all
<1>4. 0 \in S
  <2>1. 0 \in 0..n /\ Seen(g, 0)
    BY <1>2
  <2>2. Len(g.sent) <= Len(g.sent) + 0
    BY <1>3
  <2> HIDE DEF Seen
  <2> QED
    BY <1>1, <2>1, <2>2 DEF Kept
<1>5. ASSUME NEW i \in 0..n, i \in S, i < n PROVE i + 1 \in S
  <2> DEFINE c == Order[i + 1]
             e == f[i]
             h == f[i + 1]
  <2>1. i + 1 \in 1..n /\ i + 1 \in 0..n
    BY <1>2, <1>5
  <2>2. c \in Controls
    BY <1>2, <2>1
  <2>3. h = FeedButton(e, c, c \in now, paused)
    BY <1>1, <1>5
  <2>4. /\ e \in InputState /\ Sound(e, e.latched, D)
        /\ Latches(e) /\ Kept(g, e) /\ Seen(e, i)
        /\ Told(K, g) => Told(K, e)
        /\ Len(e.sent) <= Len(g.sent) + i
    BY <1>5
  <2>5. c \in e.down <=> c \in D
    BY <1>2, <2>1, <2>4
  <2>6. \A j \in 1..n : j # i + 1 => Order[j] # c
    BY <2>1, ControlsFinite DEF n
  <2> HIDE DEF c, e, h, D
  <2>7. c \notin e.down /\ StartsIn(c) => \A d \in D : NativeKey[d] # NoKey
    <3> SUFFICES ASSUME c \notin e.down, StartsIn(c), NEW d \in D, NativeKey[d] = NoKey
                 PROVE  FALSE
      OBVIOUS
    <3>1. d \in Controls /\ StartsIn(d)
      BY <1>3 DEF StartsIn
    <3>2. d = c
      BY <2>2, <3>1, OnlyStart
    <3> QED
      BY <2>5, <3>2
  <2>8. LET x == FeedButton(e, c, c \in now, paused)
        IN  /\ x \in InputState /\ Sound(x, x.latched, D) /\ Latches(x) /\ Kept(e, x)
            /\ x.down = (IF c \in now THEN e.down \cup {c} ELSE e.down \ {c})
            /\ Told(K, e) => Told(K, x)
            /\ Len(x.sent) <= Len(e.sent) + 1
    <3> DEFINE down == c \in now
    <3>1. down \in BOOLEAN
      OBVIOUS
    <3> HIDE DEF down
    <3>2. LET x == FeedButton(e, c, down, paused)
          IN  /\ x \in InputState /\ Sound(x, x.latched, D) /\ Latches(x) /\ Kept(e, x)
              /\ x.down = (IF down THEN e.down \cup {c} ELSE e.down \ {c})
              /\ Told(K, e) => Told(K, x)
              /\ Len(x.sent) <= Len(e.sent) + 1
      <4>1. CASE down = TRUE
        <5>1. LET x == FeedButton(e, c, TRUE, paused)
              IN  /\ x \in InputState /\ Sound(x, x.latched, D) /\ Latches(x) /\ Kept(e, x)
                  /\ x.down = (IF TRUE THEN e.down \cup {c} ELSE e.down \ {c})
                  /\ Told(K, e) => Told(K, x)
                  /\ Len(x.sent) <= Len(e.sent) + 1
          BY <1>3, <2>2, <2>4, <2>7, FeedDoes
        <5> QED
          BY <4>1, <5>1
      <4>2. CASE down = FALSE
        <5>1. LET x == FeedButton(e, c, FALSE, paused)
              IN  /\ x \in InputState /\ Sound(x, x.latched, D) /\ Latches(x) /\ Kept(e, x)
                  /\ x.down = (IF FALSE THEN e.down \cup {c} ELSE e.down \ {c})
                  /\ Told(K, e) => Told(K, x)
                  /\ Len(x.sent) <= Len(e.sent) + 1
          BY <1>3, <2>2, <2>4, <2>7, FeedDoes
        <5> QED
          BY <4>2, <5>1
      <4> QED
        BY <3>1, <4>1, <4>2
    <3> QED
      BY <3>2 DEF down
  <2>9. /\ h \in InputState /\ Sound(h, h.latched, D) /\ Latches(h) /\ Kept(e, h)
        /\ h.down = (IF c \in now THEN e.down \cup {c} ELSE e.down \ {c})
        /\ Told(K, e) => Told(K, h)
        /\ Len(h.sent) <= Len(e.sent) + 1
    BY <2>3, <2>8
  <2>10. Kept(g, h)
    BY <2>4, <2>9 DEF Kept
  <2>11. Seen(h, i + 1)
    <3> SUFFICES ASSUME NEW j \in 1..n
                 PROVE  Order[j] \in h.down <=> Order[j] \in IF j <= i + 1 THEN now ELSE D
      OBVIOUS
    <3>1. CASE j = i + 1
      BY <1>2, <2>1, <2>9, <3>1 DEF c
    <3>2. CASE j # i + 1
      <4>1. j <= i + 1 <=> j <= i
        BY <1>2, <2>1, <3>2
      <4>2. Order[j] \in h.down <=> Order[j] \in e.down
        BY <2>6, <2>9, <3>2
      <4> QED
        BY <2>4, <4>1, <4>2
    <3> QED
      BY <3>1, <3>2
  <2>12. Len(h.sent) <= Len(g.sent) + (i + 1)
    <3>1. Len(h.sent) \in Nat /\ Len(e.sent) \in Nat
      BY <2>4, <2>9, LenProperties DEF InputState
    <3>2. Len(h.sent) <= Len(e.sent) + 1 /\ Len(e.sent) <= Len(g.sent) + i
      BY <2>4, <2>9
    <3>3. i \in Nat
      BY <1>2
    <3> DEFINE x == Len(h.sent)
               y == Len(e.sent)
               z == Len(g.sent)
    <3> HIDE DEF x, y, z
    <3>4. x \in Nat /\ y \in Nat /\ z \in Nat /\ x <= y + 1 /\ y <= z + i
      BY <1>3, <3>1, <3>2 DEF x, y, z
    <3>5. x <= z + (i + 1)
      BY <3>3, <3>4
    <3> QED
      BY <3>5 DEF x, z
  <2> HIDE DEF Seen
  <2> QED
    BY <2>1, <2>4, <2>9, <2>10, <2>11, <2>12 DEF h
<1>6. n \in S
  <2> HIDE DEF S
  <2>1. 0..n \subseteq S
    BY <1>2, <1>4, <1>5, SetInduction
  <2>2. n \in 0..n
    BY <1>2
  <2> QED
    BY <2>1, <2>2
<1>7. /\ all \in InputState /\ Sound(all, all.latched, D)
      /\ Latches(all) /\ Kept(g, all) /\ Seen(all, n)
      /\ Told(K, g) => Told(K, all)
      /\ Len(all.sent) <= Len(g.sent) + n
  <2> HIDE DEF Seen
  <2> QED
    BY <1>1, <1>6
<1>8. all.down = now
  <2>1. \A j \in 1..n : Order[j] \in all.down <=> Order[j] \in now
    BY <1>2, <1>7
  <2>2. \A c \in Controls : c \in all.down <=> c \in now
    BY <2>1, ControlsFinite DEF n
  <2>3. all.down \subseteq Controls
    BY <1>7 DEF InputState
  <2> QED
    BY <2>2, <2>3
<1> HIDE DEF Seen
<1> QED
  BY <1>7, <1>8 DEF all, n

\* A native level: its key follows unless an action counts for it.
LEMMA NativeButtonDoes ==
    ASSUME NEW g \in InputState, NEW c \in Controls, NEW down \in BOOLEAN,
           NEW L \in SUBSET Controls, NEW D \in SUBSET Controls, NEW K \in SUBSET Keys,
           Sound(g, L, D)
    PROVE  LET h == NativeButton(g, c, down)
               want == down /\ ~Consumes(g, c)
           IN  /\ h \in InputState /\ Sound(h, L, D)
               /\ Rest(h) = Rest(g) /\ h.pressed = g.pressed /\ h.startKey = g.startKey
               /\ h.click = g.click
               /\ Told(K, g) => Told(K, h)
               /\ Len(h.sent) <= Len(g.sent) + 1
               /\ \A k \in h.keys : g.pressed[k] = 0 =>
                     IF k = NativeKey[c] THEN want ELSE k \in g.keys
<1> DEFINE h == NativeButton(g, c, down)
           k0 == NativeKey[c]
           want == down /\ ~Consumes(g, c)
<1>0. k0 \in Keys \cup {NoKey} /\ Len(g.sent) \in Nat /\ want \in BOOLEAN
      /\ g.pressed \in [Keys -> Nat] /\ g.keys \subseteq Keys
  BY DeliveryAssumption, LenProperties DEF InputState
<1>1. h = IF k0 = NoKey \/ (~want /\ g.pressed[k0] > 0) THEN g ELSE DeliverKey(g, k0, want)
  BY DEF NativeButton
<1> HIDE DEF h, k0, want
<1>2. CASE k0 = NoKey \/ (~want /\ g.pressed[k0] > 0)
  <2>1. h = g
    BY <1>1, <1>2
  <2>2. \A k \in g.keys : g.pressed[k] = 0 => k # k0
    BY <1>0, <1>2, KeysAre
  <2> QED
    BY <1>0, <2>1, <2>2 DEF h, k0, want
<1>3. CASE ~(k0 = NoKey \/ (~want /\ g.pressed[k0] > 0))
  <2>1. k0 \in Keys /\ h = DeliverKey(g, k0, want)
    BY <1>0, <1>1, <1>3
  <2>2. LET d == DeliverKey(g, k0, want)
        IN  /\ d \in InputState
            /\ d.keys = IF want THEN g.keys \cup {k0} ELSE g.keys \ {k0}
            /\ Rest(d) = Rest(g) /\ d.pressed = g.pressed /\ d.startKey = g.startKey
            /\ d.click = g.click
            /\ Told(K, g) => Told(K, d)
            /\ Len(d.sent) <= Len(g.sent) + 1
    <3>1. CASE want = TRUE
      BY <2>1, <3>1, DeliverKeyDoes
    <3>2. CASE want = FALSE
      BY <2>1, <3>2, DeliverKeyDoes
    <3> QED
      BY <1>0, <3>1, <3>2
  <2>3. /\ h \in InputState
        /\ h.keys = IF want THEN g.keys \cup {k0} ELSE g.keys \ {k0}
        /\ Rest(h) = Rest(g) /\ h.pressed = g.pressed /\ h.startKey = g.startKey
        /\ h.click = g.click
        /\ Told(K, g) => Told(K, h)
        /\ Len(h.sent) <= Len(g.sent) + 1
    BY <2>1, <2>2
  <2>4. \A k \in h.keys : IF k = k0 THEN want ELSE k \in g.keys
    BY <2>3
  <2>5. /\ \A k \in Keys : h.pressed[k] > 0 => k \in h.keys
        /\ \A k \in h.keys : h.pressed[k] = 0 => \E d \in Controls : NativeKey[d] = k
    <3>1. \A k \in Keys : h.pressed[k] > 0 => k \in h.keys
      BY <1>0, <1>3, <2>3 DEF Sound
    <3>2. \A k \in h.keys : h.pressed[k] = 0 => \E d \in Controls : NativeKey[d] = k
      BY <1>0, <2>3, <2>4 DEF Sound, k0
    <3> QED
      BY <3>1, <3>2
  <2>6. Sound(h, L, D)
    <3>1. /\ \A d : Decision(h, d) = Decision(g, d)
          /\ \A d : IsAction(h, d) = IsAction(g, d)
          /\ \A k : Owners(h, L, k) = Owners(g, L, k)
          /\ StartHeld(h, L, D) = StartHeld(g, L, D)
      BY <2>3, SameMoment
    <3> QED
      BY <2>3, <2>5, <3>1 DEF Sound
  <2> QED
    BY <2>3, <2>4, <2>6 DEF h, k0, want
<1> QED
  BY <1>2, <1>3

\* A key that no action holds is then the native key of a control that is held
\* and that the map leaves alone.
LEMMA NativeDoes ==
    ASSUME NEW g \in InputState, NEW now \in SUBSET Controls,
           NEW L \in SUBSET Controls, NEW D \in SUBSET Controls, NEW K \in SUBSET Keys,
           Sound(g, L, D)
    PROVE  LET h == NativeButtons(g, now)
           IN  /\ h \in InputState /\ Sound(h, L, D) /\ Rest(h) = Rest(g)
               /\ \A k \in h.keys : h.pressed[k] = 0 =>
                     \E c \in now : NativeKey[c] = k /\ ~Consumes(h, c)
               /\ Told(K, g) => Told(K, h)
               /\ Len(h.sent) <= Len(g.sent) + Len(Order)
<1> DEFINE n == Len(Order)
           all == NativeButtons(g, now)
           Of(k, i) == \E j \in 1..n : /\ NativeKey[Order[j]] = k
                                       /\ j <= i => Order[j] \in now /\ ~Consumes(g, Order[j])
           Owned(h, i) == \A k \in h.keys : g.pressed[k] = 0 => Of(k, i)
<1>1. PICK f : /\ f[0] = g
               /\ \A i \in 0 .. n : i < n =>
                     f[i + 1] = NativeButton(f[i], Order[i + 1], Order[i + 1] \in now)
               /\ all = f[n]
  BY NativeUnfolds
<1>2. n \in Nat /\ \A i \in 1..n : Order[i] \in Controls
  BY ControlsFinite
<1>3. Len(g.sent) \in Nat
  BY LenProperties DEF InputState
<1> DEFINE S == {i \in 0..n : /\ f[i] \in InputState /\ Sound(f[i], L, D)
                              /\ Rest(f[i]) = Rest(g) /\ f[i].pressed = g.pressed
                              /\ Owned(f[i], i)
                              /\ Told(K, g) => Told(K, f[i])
                              /\ Len(f[i].sent) <= Len(g.sent) + i}
<1> HIDE DEF n, all
<1>4. 0 \in S
  <2>1. 0 \in 0..n
    BY <1>2
  <2>2. Owned(g, 0)
    <3> SUFFICES ASSUME NEW k \in g.keys, g.pressed[k] = 0 PROVE Of(k, 0)
      OBVIOUS
    <3>1. PICK c \in Controls : NativeKey[c] = k
      BY DEF Sound
    <3>2. PICK j \in 1..n : Order[j] = c
      BY ControlsFinite DEF n
    <3>3. ~(j <= 0)
      BY <1>2
    <3> QED
      BY <3>1, <3>2, <3>3
  <2>3. Len(g.sent) <= Len(g.sent) + 0
    BY <1>3
  <2> HIDE DEF Owned
  <2> QED
    BY <1>1, <2>1, <2>2, <2>3
<1>5. ASSUME NEW i \in 0..n, i \in S, i < n PROVE i + 1 \in S
  <2> DEFINE c == Order[i + 1]
             e == f[i]
             h == f[i + 1]
  <2>1. i + 1 \in 1..n /\ i + 1 \in 0..n
    BY <1>2, <1>5
  <2>2. c \in Controls
    BY <1>2, <2>1
  <2>3. h = NativeButton(e, c, c \in now)
    BY <1>1, <1>5
  <2>4. /\ e \in InputState /\ Sound(e, L, D)
        /\ Rest(e) = Rest(g) /\ e.pressed = g.pressed
        /\ Owned(e, i)
        /\ Told(K, g) => Told(K, e)
        /\ Len(e.sent) <= Len(g.sent) + i
    <3> HIDE DEF Owned
    <3> QED BY <1>5
  <2> HIDE DEF c, e, h, Owned, Of
  <2>5. LET x == NativeButton(e, c, c \in now)
            want == c \in now /\ ~Consumes(e, c)
        IN  /\ x \in InputState /\ Sound(x, L, D)
            /\ Rest(x) = Rest(e) /\ x.pressed = e.pressed
            /\ Told(K, e) => Told(K, x)
            /\ Len(x.sent) <= Len(e.sent) + 1
            /\ \A k \in x.keys : e.pressed[k] = 0 =>
                  IF k = NativeKey[c] THEN want ELSE k \in e.keys
    <3> DEFINE down == c \in now
    <3>1. down \in BOOLEAN
      OBVIOUS
    <3> HIDE DEF down
    <3>2. LET x == NativeButton(e, c, down)
              want == down /\ ~Consumes(e, c)
          IN  /\ x \in InputState /\ Sound(x, L, D)
              /\ Rest(x) = Rest(e) /\ x.pressed = e.pressed
              /\ Told(K, e) => Told(K, x)
              /\ Len(x.sent) <= Len(e.sent) + 1
              /\ \A k \in x.keys : e.pressed[k] = 0 =>
                    IF k = NativeKey[c] THEN want ELSE k \in e.keys
      BY <2>2, <2>4, <3>1, NativeButtonDoes
    <3> QED
      BY <3>2 DEF down
  <2>6. /\ h \in InputState /\ Sound(h, L, D)
        /\ Rest(h) = Rest(e) /\ h.pressed = e.pressed
        /\ Told(K, e) => Told(K, h)
        /\ Len(h.sent) <= Len(e.sent) + 1
        /\ \A k \in h.keys : e.pressed[k] = 0 =>
              IF k = NativeKey[c] THEN c \in now /\ ~Consumes(e, c) ELSE k \in e.keys
    BY <2>3, <2>5
  <2>7. Owned(h, i + 1)
    <3> SUFFICES ASSUME NEW k \in h.keys, g.pressed[k] = 0 PROVE Of(k, i + 1)
      BY DEF Owned
    <3>1. CASE k = NativeKey[c]
      <4>1. c \in now /\ ~Consumes(g, c)
        BY <2>4, <2>6, <3>1, SameMoment
      <4> QED
        BY <2>1, <3>1, <4>1 DEF Of, c
    <3>2. CASE k # NativeKey[c]
      <4>1. Of(k, i)
        BY <2>4, <2>6, <3>2 DEF Owned
      <4>2. PICK j \in 1..n : /\ NativeKey[Order[j]] = k
                              /\ j <= i => Order[j] \in now /\ ~Consumes(g, Order[j])
        BY <4>1 DEF Of
      <4>3. j # i + 1
        BY <3>2, <4>2 DEF c
      <4>4. j <= i + 1 => j <= i
        BY <1>2, <2>1, <4>3
      <4> QED
        BY <4>2, <4>4 DEF Of
    <3> QED
      BY <3>1, <3>2
  <2>8. Len(h.sent) <= Len(g.sent) + (i + 1)
    <3>1. Len(h.sent) \in Nat /\ Len(e.sent) \in Nat
      BY <2>4, <2>6, LenProperties DEF InputState
    <3>2. Len(h.sent) <= Len(e.sent) + 1 /\ Len(e.sent) <= Len(g.sent) + i
      BY <2>4, <2>6
    <3>3. i \in Nat
      BY <1>2
    <3> DEFINE x == Len(h.sent)
               y == Len(e.sent)
               z == Len(g.sent)
    <3> HIDE DEF x, y, z
    <3>4. x \in Nat /\ y \in Nat /\ z \in Nat /\ x <= y + 1 /\ y <= z + i
      BY <1>3, <3>1, <3>2 DEF x, y, z
    <3>5. x <= z + (i + 1)
      BY <3>3, <3>4
    <3> QED
      BY <3>5 DEF x, z
  <2> QED
    BY <2>1, <2>4, <2>6, <2>7, <2>8 DEF h
<1>6. n \in S
  <2> HIDE DEF S
  <2>1. 0..n \subseteq S
    BY <1>2, <1>4, <1>5, SetInduction
  <2>2. n \in 0..n
    BY <1>2
  <2> QED
    BY <2>1, <2>2
<1>7. /\ all \in InputState /\ Sound(all, L, D)
      /\ Rest(all) = Rest(g) /\ all.pressed = g.pressed
      /\ Owned(all, n)
      /\ Told(K, g) => Told(K, all)
      /\ Len(all.sent) <= Len(g.sent) + n
  <2> HIDE DEF Owned
  <2> QED
    BY <1>1, <1>6
<1>8. \A k \in all.keys : all.pressed[k] = 0 =>
          \E c \in now : NativeKey[c] = k /\ ~Consumes(all, c)
  <2> SUFFICES ASSUME NEW k \in all.keys, all.pressed[k] = 0
               PROVE  \E c \in now : NativeKey[c] = k /\ ~Consumes(all, c)
    OBVIOUS
  <2>1. PICK j \in 1..n : /\ NativeKey[Order[j]] = k
                          /\ j <= n => Order[j] \in now /\ ~Consumes(g, Order[j])
    BY <1>7
  <2>2. j <= n
    BY <1>2
  <2>3. Order[j] \in now /\ ~Consumes(all, Order[j])
    BY <1>7, <2>1, <2>2, SameMoment
  <2> QED
    BY <2>1, <2>3
<1> HIDE DEF Owned
<1> QED
  BY <1>7, <1>8 DEF all, n

\* What a key event leaves alone besides START's own level.
Level(g) == <<g.now, g.latched, g.down, g.blocked, g.clicked, g.drag, g.touch>>

\* No key is down without a count that was not so before.
NoMoreNative(g, h) ==
    \A k \in h.keys : h.pressed[k] = 0 => k \in g.keys /\ g.pressed[k] = 0

\* The native START: at most one button holds it, natively or for an action.
LEMMA NativeStartDoes ==
    ASSUME NEW g \in InputState, NEW now \in SUBSET Controls, NEW paused,
           NEW L \in SUBSET now, NEW D \in SUBSET Controls, NEW K \in SUBSET Keys,
           OneStart, Sound(g, L, D)
    PROVE  LET h == NativeStart(g, now, paused)
           IN  /\ h \in InputState /\ Sound(h, L, now) /\ Level(h) = Level(g)
               /\ h.click = g.click
               /\ h.nativeStart => \E c \in now : NativeKey[c] = NoKey /\ ~Consumes(h, c)
               /\ NoMoreNative(g, h)
               /\ Told(K, g) => Told(K, h)
               /\ Len(h.sent) <= Len(g.sent) + 1
<1> DEFINE want == \E c \in now : NativeKey[c] = NoKey /\ ~Consumes(g, c)
           j == [g EXCEPT !.nativeStart = want]
           h == NativeStart(g, now, paused)
<1>0. Len(g.sent) \in Nat /\ g.nativeStart \in BOOLEAN /\ L \in SUBSET Controls
  BY LenProperties DEF InputState
<1>1. want \in BOOLEAN
  OBVIOUS
<1>2. h = IF want = g.nativeStart THEN g
          ELSE IF want \/ j.startKey # NoKey THEN StartPress(j, want, paused) ELSE j
  BY DEF NativeStart
<1> HIDE DEF want, h
<1>3. /\ j \in InputState /\ j.nativeStart = want /\ Level(j) = Level(g) /\ j.now = g.now
      /\ j.keys = g.keys /\ j.pressed = g.pressed /\ j.startKey = g.startKey
      /\ j.click = g.click /\ j.sent = g.sent
  BY <1>1 DEF InputState, Level
<1> HIDE DEF j
<1>4. (Told(K, g) => Told(K, j)) /\ Weight(j) = Weight(g)
  BY <1>3 DEF Told, Weight
<1>5. /\ \A c : Decision(j, c) = Decision(g, c)
      /\ \A c : IsAction(j, c) = IsAction(g, c) /\ Consumes(j, c) = Consumes(g, c)
      /\ \A k : Owners(j, L, k) = Owners(g, L, k)
  BY <1>3 DEF Decision, Proven, IsAction, Consumes, Owners
<1>6. \A k \in Keys : /\ g.pressed[k] \in Nat /\ Cardinality(Owners(g, L, k)) \in Nat
                      /\ g.pressed[k] <= Cardinality(Owners(g, L, k))
                           + (IF k = g.startKey /\ StartHeld(g, L, D) THEN 1 ELSE 0)
  BY <1>0, Pressed, OwnersCount DEF Sound
<1>7. CASE want = g.nativeStart
  <2>1. h = g
    BY <1>2, <1>7
  <2>2. StartHeld(g, L, D) => StartHeld(g, L, now)
    BY <1>7 DEF StartHeld, want
  <2>3. Sound(g, L, now)
    <3>1. \A k \in Keys : g.pressed[k] <= Cardinality(Owners(g, L, k))
                           + (IF k = g.startKey /\ StartHeld(g, L, now) THEN 1 ELSE 0)
      BY <1>6, <2>2
    <3> QED
      BY <3>1 DEF Sound
  <2>4. h.nativeStart => \E c \in now : NativeKey[c] = NoKey /\ ~Consumes(h, c)
    BY <1>7, <2>1 DEF want
  <2> QED
    BY <1>0, <2>1, <2>3, <2>4 DEF h, NoMoreNative
<1>8. CASE want = TRUE /\ g.nativeStart = FALSE
  <2>1. h = StartPress(j, TRUE, paused)
    BY <1>2, <1>8
  <2>2. PICK k0 \in {StartKey, BackKey} :
          /\ Event(j, h, TRUE, K) /\ h.click = j.click
          /\ h.startKey = k0 /\ h.keys = j.keys \cup {k0}
          /\ h.pressed = [j.pressed EXCEPT ![k0] = j.pressed[k0] + 1]
    BY <1>3, <2>1, StartPressed
  <2>3. k0 \in Keys /\ h \in InputState /\ Rest(h) = Rest(j)
    BY <2>2, KeysAre DEF Event
  <2>4. PICK c \in now : NativeKey[c] = NoKey /\ ~Consumes(g, c)
    BY <1>8 DEF want
  <2>5. ~StartHeld(g, L, D)
    <3> SUFFICES ASSUME NEW d \in L, Decision(g, d) = StartKey PROVE FALSE
      BY <1>8 DEF StartHeld
    <3>1. StartsIn(d) /\ Consumes(g, d)
      BY <1>0, DecidedStart
    <3>2. StartsIn(c)
      BY <2>4 DEF StartsIn
    <3> QED
      BY <1>0, <2>4, <3>1, <3>2, OnlyStart
  <2>6. h.nativeStart = TRUE /\ Level(h) = Level(g) /\ h.now = g.now
    BY <1>3, <1>8, <2>3 DEF Rest, Level
  <2>7. /\ \A d : Decision(h, d) = Decision(g, d)
        /\ \A d : IsAction(h, d) = IsAction(g, d) /\ Consumes(h, d) = Consumes(g, d)
        /\ \A k : Owners(h, L, k) = Owners(g, L, k)
    BY <2>6 DEF Decision, Proven, IsAction, Consumes, Owners
  <2>8. StartHeld(h, L, now)
    BY <2>4, <2>6 DEF StartHeld
  <2>9. \A k \in Keys : h.pressed[k] = g.pressed[k] + (IF k = k0 THEN 1 ELSE 0)
    BY <1>3, <2>2, <2>3, Pressed
  <2>10. \A k \in Keys : h.pressed[k] <= Cardinality(Owners(h, L, k))
                           + (IF k = h.startKey /\ StartHeld(h, L, now) THEN 1 ELSE 0)
    BY <1>6, <2>2, <2>5, <2>7, <2>8, <2>9
  <2>11. /\ \A k \in Keys : h.pressed[k] > 0 => k \in h.keys
         /\ \A k \in h.keys : h.pressed[k] = 0 => k \in g.keys /\ g.pressed[k] = 0
    BY <1>3, <1>6, <2>2, <2>3, <2>9, Pressed DEF Sound
  <2>12. Sound(h, L, now)
    <3>1. \A k \in h.keys : h.pressed[k] = 0 => \E d \in Controls : NativeKey[d] = k
      BY <2>11 DEF Sound
    <3>2. \A d \in L : IsAction(h, d)
      BY <2>7 DEF Sound
    <3>3. h.click => \E d \in L : Decision(h, d) = "click"
      BY <1>3, <2>2, <2>7 DEF Sound
    <3> QED
      BY <2>10, <2>11, <3>1, <3>2, <3>3 DEF Sound
  <2>13. /\ Told(K, g) => Told(K, h)
         /\ Len(h.sent) <= Len(g.sent) + 1
    BY <1>3, <1>4, <2>2 DEF Event
  <2>14. \E d \in now : NativeKey[d] = NoKey /\ ~Consumes(h, d)
    BY <2>4, <2>7
  <2> QED
    BY <1>3, <2>2, <2>3, <2>6, <2>11, <2>12, <2>13, <2>14 DEF h, NoMoreNative
<1>9. CASE want = FALSE /\ g.nativeStart = TRUE
  <2> DEFINE k0 == g.startKey
  <2>1. LET x == StartPress(j, FALSE, paused)
            k == j.startKey
        IN  /\ Event(j, x, FALSE, K) /\ x.click = j.click /\ x.startKey = NoKey
            /\ k = NoKey => x = j
            /\ k # NoKey =>
                 /\ k \in Keys
                 /\ x.pressed = [j.pressed EXCEPT ![k] = IF j.pressed[k] > 0
                                                         THEN j.pressed[k] - 1 ELSE 0]
                 /\ x.keys = IF x.pressed[k] = 0 THEN j.keys \ {k} ELSE j.keys
    BY <1>3, StartReleased
  <2>2. h = StartPress(j, FALSE, paused)
    BY <1>2, <1>9, <2>1
  <2>3. /\ Event(j, h, FALSE, K) /\ h.click = g.click /\ h.startKey = NoKey
        /\ k0 = NoKey => h = j
        /\ k0 # NoKey =>
             /\ k0 \in Keys
             /\ h.pressed = [g.pressed EXCEPT ![k0] = IF g.pressed[k0] > 0
                                                     THEN g.pressed[k0] - 1 ELSE 0]
             /\ h.keys = IF h.pressed[k0] = 0 THEN g.keys \ {k0} ELSE g.keys
    BY <1>3, <2>1, <2>2
  <2> HIDE DEF k0
  <2>4. h \in InputState /\ Rest(h) = Rest(j) /\ h.startKey \notin Keys
    BY <2>3, KeysAre DEF Event
  <2>5. h.nativeStart = FALSE /\ Level(h) = Level(g) /\ h.now = g.now
    BY <1>3, <1>9, <2>4 DEF Rest, Level
  <2>6. /\ \A d : Decision(h, d) = Decision(g, d)
        /\ \A d : IsAction(h, d) = IsAction(g, d)
        /\ \A k : Owners(h, L, k) = Owners(g, L, k)
    BY <2>5 DEF Decision, Proven, IsAction, Consumes, Owners
  <2>7. \A k \in Keys : h.pressed[k] <= Cardinality(Owners(h, L, k))
    <3>1. CASE k0 = NoKey
      BY <1>3, <1>6, <2>3, <2>6, <3>1, KeysAre DEF k0
    <3>2. CASE k0 # NoKey
      <4>1. \A k \in Keys : g.pressed[k] <= Cardinality(Owners(g, L, k)) + (IF k = k0 THEN 1 ELSE 0)
        BY <1>6 DEF k0
      <4>2. \A k \in Keys : h.pressed[k] = IF k = k0 THEN IF g.pressed[k] > 0 THEN g.pressed[k] - 1 ELSE 0
                                           ELSE g.pressed[k]
        BY <2>3, <3>2, Pressed
      <4> QED
        BY <1>6, <2>6, <4>1, <4>2
    <3> QED
      BY <3>1, <3>2
  <2>8. \A k \in Keys : h.pressed[k] <= Cardinality(Owners(h, L, k))
                           + (IF k = h.startKey /\ StartHeld(h, L, now) THEN 1 ELSE 0)
    BY <1>6, <2>4, <2>6, <2>7
  <2>9. /\ \A k \in Keys : h.pressed[k] > 0 => k \in h.keys
        /\ \A k \in h.keys : h.pressed[k] = 0 => k \in g.keys /\ g.pressed[k] = 0
    <3>1. CASE k0 = NoKey
      BY <1>3, <2>3, <3>1 DEF Sound
    <3>2. CASE k0 # NoKey
      <4>1. \A k \in Keys : k # k0 => h.pressed[k] = g.pressed[k]
        BY <2>3, <3>2, Pressed
      <4>2. h.pressed[k0] > 0 => g.pressed[k0] > 0
        BY <1>6, <2>3, <3>2, Pressed
      <4>3. h.keys \subseteq g.keys /\ \A k \in Keys : k # k0 /\ k \in g.keys => k \in h.keys
        BY <2>3, <3>2
      <4>4. h.pressed[k0] = 0 => k0 \notin h.keys
        BY <2>3, <3>2
      <4>5. h.pressed[k0] > 0 => h.keys = g.keys
        BY <2>3, <3>2
      <4> QED
        BY <4>1, <4>2, <4>3, <4>4, <4>5, Pressed DEF Sound
    <3> QED
      BY <3>1, <3>2
  <2>10. Sound(h, L, now)
    <3>1. \A k \in h.keys : h.pressed[k] = 0 => \E d \in Controls : NativeKey[d] = k
      BY <2>9 DEF Sound
    <3>2. \A d \in L : IsAction(h, d)
      BY <2>6 DEF Sound
    <3>3. h.click => \E d \in L : Decision(h, d) = "click"
      BY <2>3, <2>6 DEF Sound
    <3> QED
      BY <2>8, <2>9, <3>1, <3>2, <3>3 DEF Sound
  <2>11. /\ Told(K, g) => Told(K, h)
         /\ Len(h.sent) <= Len(g.sent) + 1
    BY <1>3, <1>4, <2>3 DEF Event
  <2> QED
    BY <2>3, <2>4, <2>5, <2>9, <2>10, <2>11 DEF h, NoMoreNative
<1> QED
  BY <1>0, <1>1, <1>7, <1>8, <1>9

\* A touch goes with the drag that began it, and the pointer knows of it.
Pointer(g) == g.touch = g.drag /\ (g.touch => g.clicked)

\* The pointer's touch ends with the menu or with the click.
LEMMA UpdateCursorDoes ==
    ASSUME NEW g \in InputState, NEW L, NEW D, NEW K, Sound(g, L, D), Pointer(g)
    PROVE  LET h == UpdateCursor(g)
           IN  /\ h \in InputState /\ Sound(h, L, D) /\ Pointer(h)
               /\ h.touch => h.click
               /\ h.now = g.now /\ h.latched = g.latched /\ h.down = g.down
               /\ h.blocked = g.blocked /\ h.nativeStart = g.nativeStart
               /\ h.keys = g.keys /\ h.pressed = g.pressed /\ h.sent = g.sent
<1> DEFINE h == UpdateCursor(g)
<1>0. g.touch \in BOOLEAN /\ g.drag \in BOOLEAN /\ g.click \in BOOLEAN /\ g.clicked \in BOOLEAN
  BY DEF InputState
<1>1. /\ h.now = g.now /\ h.latched = g.latched /\ h.down = g.down
      /\ h.blocked = g.blocked /\ h.nativeStart = g.nativeStart
      /\ h.keys = g.keys /\ h.pressed = g.pressed /\ h.sent = g.sent
      /\ h.startKey = g.startKey
      /\ h \in InputState
      /\ h.touch = h.drag /\ (h.touch => h.clicked) /\ (h.touch => h.click)
      /\ h.click => g.click
  <2>1. CASE g.now.context # "menu"
    <3>1. h = [g EXCEPT !.click = FALSE, !.touch = IF g.drag THEN FALSE ELSE @,
                        !.drag = FALSE, !.clicked = FALSE]
      BY <2>1 DEF UpdateCursor, CursorAway, InputState
    <3> QED
      BY <1>0, <3>1 DEF InputState, Pointer
  <2>2. CASE g.now.context = "menu"
    <3> DEFINE j == [g EXCEPT !.clicked = g.click]
    <3>1. CASE g.click /\ ~g.clicked
      <4>1. h = [j EXCEPT !.touch = TRUE, !.drag = TRUE, !.pauseOpen = FALSE]
        BY <2>2, <3>1 DEF UpdateCursor
      <4> QED
        BY <1>0, <3>1, <4>1 DEF InputState, Pointer
    <3>2. CASE ~g.click /\ g.clicked /\ g.drag
      <4>1. h = [j EXCEPT !.touch = FALSE, !.drag = FALSE]
        BY <2>2, <3>2 DEF UpdateCursor
      <4> QED
        BY <1>0, <3>2, <4>1 DEF InputState, Pointer
    <3>3. CASE ~(g.click /\ ~g.clicked) /\ ~(~g.click /\ g.clicked /\ g.drag)
      <4>1. h = j
        BY <2>2, <3>3 DEF UpdateCursor
      <4> QED
        BY <1>0, <3>3, <4>1 DEF InputState, Pointer
    <3> QED
      BY <3>1, <3>2, <3>3
  <2> QED
    BY <2>1, <2>2
<1> HIDE DEF h
<1>2. Sound(h, L, D)
  <2>1. /\ \A c : Decision(h, c) = Decision(g, c)
        /\ \A k : Owners(h, L, k) = Owners(g, L, k)
        /\ StartHeld(h, L, D) = StartHeld(g, L, D)
        /\ \A c : IsAction(h, c) = IsAction(g, c)
    BY <1>1 DEF Decision, Proven, IsAction, Owners, StartHeld
  <2> QED
    BY <1>1, <2>1 DEF Sound
<1> QED
  BY <1>1, <1>2 DEF Pointer, h

\* A poll is settled when what is still down or counted is held now.
HeldNow(g) ==
    /\ g.nativeStart => \E c \in g.down : NativeKey[c] = NoKey /\ ~Consumes(g, c)
    /\ \A k \in g.keys : g.pressed[k] = 0 =>
          \E c \in g.down : NativeKey[c] = k /\ ~Consumes(g, c)
    /\ g.touch => g.click

\* The rest of a poll: all that is down or counted is held now.
LEMMA DeliverDoes ==
    ASSUME NEW g \in InputState, NEW now \in SUBSET Controls, NEW paused,
           NEW K \in SUBSET Keys, OneStart, Sound(g, g.latched, g.down), Latches(g), Pointer(g)
    PROVE  LET h == Deliver(g, now, paused)
           IN  /\ h \in InputState /\ Sound(h, h.latched, h.down) /\ Latches(h) /\ Pointer(h)
               /\ HeldNow(h) /\ h.down = now /\ h.now = g.now
               /\ Told(K, g) => Told(K, h)
               /\ Len(h.sent) <= Len(g.sent) + 2 * Len(Order) + 1
<1> DEFINE fed == FeedButtons(g, now, paused)
           nat == NativeButtons(fed, now)
           st  == NativeStart(nat, now, paused)
           h   == UpdateCursor(st)
           n   == Len(Order)
<1>1. /\ fed \in InputState /\ Sound(fed, fed.latched, g.down) /\ Latches(fed) /\ Kept(g, fed)
      /\ fed.down = now
      /\ Told(K, g) => Told(K, fed)
      /\ Len(fed.sent) <= Len(g.sent) + n
  BY FeedingDoes
<1> HIDE DEF fed, n
<1> DEFINE L == fed.latched
           D == g.down
<1>2. L \in SUBSET now /\ L \in SUBSET Controls /\ D \in SUBSET Controls
  BY <1>1 DEF Latches, InputState
<1> HIDE DEF L, D
<1>3. /\ nat \in InputState /\ Sound(nat, L, D) /\ Rest(nat) = Rest(fed)
      /\ \A k \in nat.keys : nat.pressed[k] = 0 =>
            \E c \in now : NativeKey[c] = k /\ ~Consumes(nat, c)
      /\ Told(K, fed) => Told(K, nat)
      /\ Len(nat.sent) <= Len(fed.sent) + n
  BY <1>1, <1>2, NativeDoes DEF L, D, n
<1> HIDE DEF nat
<1>4. /\ st \in InputState /\ Sound(st, L, now) /\ Level(st) = Level(nat)
      /\ st.click = nat.click
      /\ st.nativeStart => \E c \in now : NativeKey[c] = NoKey /\ ~Consumes(st, c)
      /\ NoMoreNative(nat, st)
      /\ Told(K, nat) => Told(K, st)
      /\ Len(st.sent) <= Len(nat.sent) + 1
  <2>1. LET x == NativeStart(nat, now, paused)
        IN  /\ x \in InputState /\ Sound(x, L, now) /\ Level(x) = Level(nat)
            /\ x.click = nat.click
            /\ x.nativeStart => \E c \in now : NativeKey[c] = NoKey /\ ~Consumes(x, c)
            /\ NoMoreNative(nat, x)
            /\ Told(K, nat) => Told(K, x)
            /\ Len(x.sent) <= Len(nat.sent) + 1
    <3>1. nat \in InputState /\ Sound(nat, L, D) /\ L \in SUBSET now /\ D \in SUBSET Controls
      BY <1>2, <1>3
    <3> QED
      BY <3>1, NativeStartDoes
  <2> HIDE DEF st
  <2> QED
    BY <2>1 DEF st
<1> HIDE DEF st
<1>5. /\ st.latched = L /\ st.down = now /\ st.blocked = fed.blocked /\ st.now = g.now
      /\ st.now = nat.now /\ st.touch = g.touch /\ st.drag = g.drag /\ st.clicked = g.clicked
  BY <1>1, <1>3, <1>4 DEF Level, Rest, Kept, L
<1>6. Pointer(st)
  BY <1>5 DEF Pointer
<1>7. /\ h \in InputState /\ Sound(h, L, now) /\ Pointer(h)
      /\ h.touch => h.click
      /\ h.now = st.now /\ h.latched = st.latched /\ h.down = st.down
      /\ h.blocked = st.blocked /\ h.nativeStart = st.nativeStart
      /\ h.keys = st.keys /\ h.pressed = st.pressed /\ h.sent = st.sent
  BY <1>4, <1>6, UpdateCursorDoes
<1> HIDE DEF h
<1>8. \A c : Consumes(h, c) = Consumes(st, c) /\ Consumes(h, c) = Consumes(nat, c)
  BY <1>5, <1>7 DEF Consumes, Decision, Proven
<1>9. HeldNow(h)
  <2>1. h.nativeStart => \E c \in h.down : NativeKey[c] = NoKey /\ ~Consumes(h, c)
    BY <1>4, <1>5, <1>7, <1>8
  <2>2. \A k \in h.keys : h.pressed[k] = 0 =>
          \E c \in h.down : NativeKey[c] = k /\ ~Consumes(h, c)
    BY <1>3, <1>4, <1>5, <1>7, <1>8 DEF NoMoreNative
  <2> QED
    BY <1>7, <2>1, <2>2 DEF HeldNow
<1>10. Latches(h)
  BY <1>1, <1>5, <1>7 DEF Latches, L
<1>11. Told(K, g) => Told(K, h)
  BY <1>1, <1>3, <1>4, <1>7 DEF Told
<1>12. Len(h.sent) <= Len(g.sent) + 2 * n + 1
  <2>1. /\ n \in Nat /\ Len(g.sent) \in Nat /\ Len(fed.sent) \in Nat
        /\ Len(nat.sent) \in Nat /\ Len(st.sent) \in Nat
    BY <1>1, <1>3, <1>4, LenProperties, ControlsFinite DEF InputState, n
  <2>2. /\ Len(fed.sent) <= Len(g.sent) + n /\ Len(nat.sent) <= Len(fed.sent) + n
        /\ Len(st.sent) <= Len(nat.sent) + 1 /\ h.sent = st.sent
    BY <1>1, <1>3, <1>4, <1>7
  <2> DEFINE a == Len(g.sent)
             b == Len(fed.sent)
             c == Len(nat.sent)
             d == Len(st.sent)
  <2> HIDE DEF a, b, c, d
  <2>3. /\ n \in Nat /\ a \in Nat /\ b \in Nat /\ c \in Nat /\ d \in Nat
        /\ b <= a + n /\ c <= b + n /\ d <= c + 1
    BY <2>1, <2>2 DEF a, b, c, d
  <2>4. d <= a + 2 * n + 1
    BY <2>3
  <2> QED
    BY <2>2, <2>4 DEF a, d
<1>13. Deliver(g, now, paused) = h
  BY DEF Deliver, h, st, nat, fed
<1>14. h.down = now /\ h.now = g.now /\ Sound(h, h.latched, h.down)
  BY <1>5, <1>7
<1> QED
  BY <1>7, <1>9, <1>10, <1>11, <1>12, <1>13, <1>14 DEF n

\* What is true between the steps of the input machine.
InputTypeOK ==
    /\ s \in InputState
    /\ fingers \in SUBSET Controls /\ raw \in SUBSET Controls /\ held \in SUBSET Controls
    /\ guest \in SUBSET Keys /\ pad \in BOOLEAN
    /\ phase \in {"rendered", "events", "closed"}

\* What the guest was told, and how much more it can be told before it reads.
TellInv ==
    /\ phase \in {"rendered", "closed"} => s.sent = << >>
    /\ Told(guest, s)
    /\ Weight(s) <= Cardinality(Keys)

\* Who holds what.
OwnInv ==
    /\ Sound(s, s.latched, s.down) /\ Latches(s) /\ Pointer(s)
    /\ ~pad => s.keys = {}
    /\ phase = "rendered" /\ pad => s.down = held /\ HeldNow(s)

\* With every control known to the kernel, no finger means nothing held.
HealInv ==
    Controls = KeyBacked \cup HatBacked /\ phase = "rendered" /\ pad /\ guard /\ fingers = {}
        => held = {}

InputInv == InputTypeOK /\ TellInv /\ OwnInv /\ HealInv

\* The ring is larger than all that can happen before the guest reads: a release
\* for every key at a boundary, a transition and a native level for every control,
\* and START.
RingFits == Cardinality(Keys) + 2 * Len(Order) + 1 <= RingSize

\* The guest reads what the poll has sent.
LEMMA Rendered ==
    ASSUME NEW g \in InputState, NEW K \in SUBSET Keys, Told(K, g), Len(g.sent) <= RingSize
    PROVE  LET h == [g EXCEPT !.sent = << >>]
           IN  /\ Believed(K, g.sent) = g.keys
               /\ h \in InputState /\ h.sent = << >> /\ Told(g.keys, h)
               /\ Weight(h) <= Cardinality(Keys)
               /\ h.pressed = g.pressed /\ h.keys = g.keys /\ h.startKey = g.startKey
               /\ h.click = g.click /\ h.now = g.now /\ h.nativeStart = g.nativeStart
               /\ h.latched = g.latched /\ h.down = g.down /\ h.blocked = g.blocked
               /\ h.clicked = g.clicked /\ h.drag = g.drag /\ h.touch = g.touch
<1> DEFINE h == [g EXCEPT !.sent = << >>]
<1>1. g.sent \in Seq(KeyEvent) /\ g.keys \in SUBSET Keys
  BY DEF InputState
<1>2. Believed(K, g.sent) = g.keys
  BY <1>1, BelievesAll DEF Told
<1>3. /\ h \in InputState /\ h.sent = << >> /\ h.keys = g.keys
      /\ h.pressed = g.pressed /\ h.startKey = g.startKey
      /\ h.click = g.click /\ h.now = g.now /\ h.nativeStart = g.nativeStart
      /\ h.latched = g.latched /\ h.down = g.down /\ h.blocked = g.blocked
      /\ h.clicked = g.clicked /\ h.drag = g.drag /\ h.touch = g.touch
  <2>1. << >> \in Seq(KeyEvent)
    OBVIOUS
  <2> QED
    BY <2>1 DEF InputState
<1> HIDE DEF h
<1>4. Told(g.keys, h)
  BY <1>3, ReplayNone DEF Told
<1>5. Weight(h) <= Cardinality(Keys)
  <2>1. IsFiniteSet(Keys) /\ h.keys \subseteq Keys
    BY <1>1, <1>3, KeysAre
  <2>2. Cardinality(h.keys) <= Cardinality(Keys) /\ Cardinality(h.keys) \in Nat
    BY <2>1, FS_Subset, FS_CardinalityType
  <2>3. Len(h.sent) = 0
    BY <1>3
  <2> QED
    BY <2>2, <2>3 DEF Weight
<1> QED
  BY <1>2, <1>3, <1>4, <1>5 DEF h

\* What is read, counted and owned is so whatever the events were.
LEMMA SameInput ==
    ASSUME NEW g, NEW h, Sound(g, g.latched, g.down), Latches(g), Pointer(g),
           h.pressed = g.pressed, h.keys = g.keys, h.startKey = g.startKey,
           h.click = g.click, h.now = g.now, h.nativeStart = g.nativeStart,
           h.latched = g.latched, h.down = g.down, h.blocked = g.blocked,
           h.clicked = g.clicked, h.drag = g.drag, h.touch = g.touch
    PROVE  /\ Sound(h, h.latched, h.down) /\ Latches(h) /\ Pointer(h)
           /\ HeldNow(g) => HeldNow(h)
<1>1. Sound(h, h.latched, h.down)
  BY SoundSame
<1>2. \A c : Consumes(h, c) = Consumes(g, c)
  BY DEF Consumes, Decision, Proven
<1> QED
  BY <1>1, <1>2 DEF Latches, Pointer, HeldNow

\* What was sent before the poll fits, too.
LEMMA SentFits ==
    ASSUME NEW g \in InputState, Weight(g) <= Cardinality(Keys)
    PROVE  /\ Len(g.sent) \in Nat /\ Len(g.sent) <= Cardinality(Keys)
           /\ Cardinality(Keys) \in Nat /\ Len(Order) \in Nat /\ RingSize \in Nat
<1>1. IsFiniteSet(Keys) /\ g.keys \subseteq Keys
  BY KeysAre DEF InputState
<1>2. Cardinality(g.keys) \in Nat /\ Cardinality(Keys) \in Nat
  BY <1>1, FS_Subset, FS_CardinalityType
<1>3. Len(g.sent) \in Nat
  BY LenProperties DEF InputState
<1> QED
  BY <1>2, <1>3, ControlsFinite, DeliveryAssumption DEF Weight

\* The engine proves a context or none.
LEMMA FoundAre ==
    ASSUME NEW found \in Found
    PROVE  found[1] \in Moment
<1>1. PICK e \in Shown : found = <<EngineContext(e), e.paused>>
  BY DEF Found
<1>2. EngineContext(e) \in Moment
  <2>1. /\ Unproven \in Moment
        /\ [context |-> "gameplay", source |-> "game"] \in Moment
        /\ [context |-> "menu", source |-> "scene"] \in Moment
        /\ [context |-> "menu", source |-> "popup"] \in Moment
        /\ [context |-> "menu", source |-> "paused"] \in Moment
        /\ [context |-> "menu", source |-> "pause"] \in Moment
        /\ [context |-> "menu", source |-> "screen"] \in Moment
    BY DEF Moment, Contexts, Sources
  <2> QED
    BY <2>1 DEF EngineContext
<1> QED
  BY <1>1, <1>2

\* The steps of the machine, one after the other.
LEMMA InputInit == Init => InputInv
<1> SUFFICES ASSUME Init PROVE InputInv
  OBVIOUS
<1>1. Start \in InputState
  <2>1. [k \in Keys |-> 0] \in [Keys -> Nat]
    OBVIOUS
  <2>2. << >> \in Seq(KeyEvent) /\ Unproven \in Moment
    BY DEF Moment
  <2> QED
    BY <2>1, <2>2 DEF Start, InputState
<1>2. s = Start /\ phase = "rendered" /\ guest = {} /\ held = {} /\ pad = TRUE
      /\ fingers = {} /\ raw = {}
  BY DEF Init
<1>3. InputTypeOK
  BY <1>1, <1>2 DEF InputTypeOK
<1>4. TellInv
  <2>1. s.sent = << >> /\ s.keys = {}
    BY <1>2 DEF Start
  <2>2. Told(guest, s)
    BY <1>2, <2>1, ReplayNone DEF Told
  <2>3. Weight(s) = 0 /\ Cardinality(Keys) \in Nat
    BY <2>1, FS_EmptySet, FS_CardinalityType, KeysAre DEF Weight
  <2> QED
    BY <2>1, <2>2, <2>3 DEF TellInv
<1>5. OwnInv
  <2>1. /\ s.keys = {} /\ s.latched = {} /\ s.down = {} /\ s.blocked = {}
        /\ s.nativeStart = FALSE /\ s.click = FALSE
        /\ s.touch = FALSE /\ s.drag = FALSE /\ s.pressed = [k \in Keys |-> 0]
    BY <1>2 DEF Start
  <2>2. Sound(s, {}, {})
    <3>1. \A k \in Keys : s.pressed[k] = 0
      BY <2>1
    <3>2. \A k : Cardinality(Owners(s, {}, k)) = 0
      BY FS_EmptySet DEF Owners
    <3>3. \A k \in Keys : s.pressed[k] <= Cardinality(Owners(s, {}, k))
                            + (IF k = s.startKey /\ StartHeld(s, {}, {}) THEN 1 ELSE 0)
      BY <3>1, <3>2
    <3> QED
      BY <2>1, <3>1, <3>3 DEF Sound
  <2> QED
    BY <1>2, <2>1, <2>2 DEF OwnInv, Latches, Pointer, HeldNow
<1>6. HealInv
  BY <1>2 DEF HealInv
<1> QED
  BY <1>3, <1>4, <1>5, <1>6 DEF InputInv

\* GuardFails
LEMMA GuardKeeps ==
    ASSUME InputInv, GuardFails
    PROVE  InputInv'
BY DEF InputInv, InputTypeOK, TellInv, OwnInv, HealInv, GuardFails

\* The keys are up after a boundary, and nothing is owned.
LEMMA BoundaryKeeps ==
    ASSUME InputInv, Boundary, guest' = guest, pad' \in BOOLEAN, held' = held,
           fingers' \in SUBSET Controls, raw' \in SUBSET Controls
    PROVE  InputInv'
<1> DEFINE n == Neutral(s)
<1>1. s \in InputState /\ Sound(s, s.latched, s.down) /\ guest \in SUBSET Keys
      /\ s.down \in SUBSET Controls
  BY DEF InputInv, InputTypeOK, OwnInv, InputState
<1>2. /\ LetGo(s, n, guest) /\ Sound(n, {}, {}) /\ n.keys = {} /\ n.click = FALSE
      /\ n.now = Unproven /\ n.latched = {} /\ n.down = {}
      /\ n.nativeStart = s.nativeStart
      /\ n.clicked = s.clicked /\ n.drag = s.drag /\ n.touch = s.touch
  BY <1>1, NeutralDoes
<1> HIDE DEF n
<1>3. n \in InputState
  BY <1>2 DEF LetGo
<1>4. s' = [n EXCEPT !.click = FALSE] /\ phase' = "events"
  BY DEF Boundary, n
<1>5. s' = n
  BY <1>2, <1>3, <1>4 DEF InputState
<1>6. InputTypeOK'
  BY <1>3, <1>4, <1>5 DEF InputInv, InputTypeOK
<1>7. TellInv'
  <2>1. Told(guest, s) /\ Weight(s) <= Cardinality(Keys)
    BY DEF InputInv, TellInv
  <2>2. Told(guest, n) /\ Weight(n) <= Cardinality(Keys)
    BY <1>2, <2>1 DEF LetGo
  <2> QED
    BY <1>4, <1>5, <2>2 DEF TellInv
<1>8. OwnInv'
  <2>1. Sound(n, n.latched, n.down)
    BY <1>2
  <2>2. Latches(n) /\ Pointer(n)
    BY <1>2 DEF InputInv, OwnInv, Latches, Pointer
  <2> QED
    BY <1>2, <1>4, <1>5, <2>1, <2>2 DEF OwnInv
<1>9. HealInv'
  BY <1>4 DEF HealInv
<1> QED
  BY <1>6, <1>7, <1>8, <1>9 DEF InputInv

\* PadAdded
LEMMA AddedKeeps ==
    ASSUME InputInv, PadAdded
    PROVE  InputInv'
<1>1. /\ phase' = "events" /\ pad' = TRUE /\ s' = s /\ guest' = guest /\ held' = held
      /\ fingers' = fingers /\ raw' = raw
  BY DEF PadAdded
<1> QED
  BY <1>1 DEF InputInv, InputTypeOK, TellInv, OwnInv, HealInv

\* Poll: context, runtime, native path, pointer, and the guest reads.
LEMMA PollKeeps ==
    ASSUME OneStart, RingFits, InputInv, Poll
    PROVE  InputInv'
<1>1. /\ pad /\ pad' = pad /\ guard' = guard
      /\ fingers' \in SUBSET Controls
      /\ raw' \in {fingers' \cup lost : lost \in SUBSET (raw \ fingers')}
      /\ held' = Filtered(fingers', raw')
  BY DEF Poll
<1>2. PICK found \in Found : Render(Deliver(SetContext(s, found[1]), held', found[2]))
  BY DEF Poll
<1>3. /\ s \in InputState /\ Sound(s, s.latched, s.down) /\ Latches(s) /\ Pointer(s)
      /\ s.down \in SUBSET Controls /\ guest \in SUBSET Keys /\ raw \in SUBSET Controls
      /\ Told(guest, s) /\ Weight(s) <= Cardinality(Keys)
  BY DEF InputInv, InputTypeOK, OwnInv, TellInv, InputState
<1>4. raw' \in SUBSET Controls /\ fingers' \subseteq raw'
  BY <1>1, <1>3
<1>5. held' \in SUBSET Controls
  BY <1>1, <1>4 DEF Filtered
<1> DEFINE g == SetContext(s, found[1])
           h == Deliver(g, held', found[2])
<1>6. /\ LetGo(s, g, guest) /\ Sound(g, g.latched, s.down) /\ Latches(g)
      /\ g.now = found[1] /\ g.down = s.down /\ g.nativeStart = s.nativeStart
      /\ g.clicked = s.clicked /\ g.drag = s.drag /\ g.touch = s.touch
  BY <1>3, FoundAre, SetContextDoes
<1>a. s' = [h EXCEPT !.sent = << >>] /\ phase' = "rendered" /\ guest' = Believed(guest, h.sent)
  BY <1>2 DEF Render
<1> HIDE DEF g
<1>7. /\ g \in InputState /\ Sound(g, g.latched, g.down) /\ Pointer(g)
      /\ Told(guest, g) /\ Weight(g) <= Cardinality(Keys)
  BY <1>3, <1>6 DEF LetGo, Pointer
<1>8. /\ h \in InputState /\ Sound(h, h.latched, h.down) /\ Latches(h) /\ Pointer(h)
      /\ HeldNow(h) /\ h.down = held' /\ h.now = g.now
      /\ Told(guest, g) => Told(guest, h)
      /\ Len(h.sent) <= Len(g.sent) + 2 * Len(Order) + 1
  BY <1>3, <1>5, <1>6, <1>7, DeliverDoes
<1> HIDE DEF h
<1>9. Len(h.sent) <= RingSize
  <2> DEFINE a == Len(g.sent)
             b == Len(h.sent)
             m == Cardinality(Keys)
             n == Len(Order)
  <2>1. a \in Nat /\ m \in Nat /\ n \in Nat /\ RingSize \in Nat /\ a <= m
    BY <1>7, SentFits
  <2>2. b \in Nat
    BY <1>8, LenProperties DEF InputState
  <2>3. b <= a + 2 * n + 1 /\ m + 2 * n + 1 <= RingSize
    BY <1>8 DEF RingFits
  <2> HIDE DEF a, b, m, n
  <2>4. b <= RingSize
    BY <2>1, <2>2, <2>3
  <2> QED
    BY <2>4 DEF b
<1> DEFINE r == [h EXCEPT !.sent = << >>]
<1>10. /\ Believed(guest, h.sent) = h.keys
       /\ r \in InputState /\ r.sent = << >> /\ Told(h.keys, r)
       /\ Weight(r) <= Cardinality(Keys)
       /\ r.pressed = h.pressed /\ r.keys = h.keys /\ r.startKey = h.startKey
       /\ r.click = h.click /\ r.now = h.now /\ r.nativeStart = h.nativeStart
       /\ r.latched = h.latched /\ r.down = h.down /\ r.blocked = h.blocked
       /\ r.clicked = h.clicked /\ r.drag = h.drag /\ r.touch = h.touch
  BY <1>3, <1>7, <1>8, <1>9, Rendered
<1>b. s' = r
  BY <1>a
<1> HIDE DEF r
<1>11. Sound(r, r.latched, r.down) /\ Latches(r) /\ Pointer(r) /\ HeldNow(r)
  BY <1>8, <1>10, SameInput
<1>12. guest' = h.keys /\ h.keys \in SUBSET Keys
  BY <1>8, <1>10, <1>a DEF InputState
<1>13. InputTypeOK'
  BY <1>1, <1>4, <1>5, <1>10, <1>12, <1>a, <1>b DEF InputInv, InputTypeOK
<1>14. TellInv'
  BY <1>10, <1>12, <1>a, <1>b DEF TellInv
<1>15. OwnInv'
  BY <1>1, <1>8, <1>10, <1>11, <1>a, <1>b DEF OwnInv
<1>16. HealInv'
  <2> SUFFICES ASSUME Controls = KeyBacked \cup HatBacked, guard', fingers' = {}
               PROVE  held' = {}
    BY DEF HealInv
  <2>1. guard
    BY <1>1
  <2>2. held' = raw' \ UNION {kind \in {KeyBacked, HatBacked} : {} \cap kind = {}}
    BY <1>1, <2>1 DEF Filtered
  <2>3. UNION {kind \in {KeyBacked, HatBacked} : {} \cap kind = {}} = KeyBacked \cup HatBacked
    OBVIOUS
  <2> QED
    BY <1>4, <2>2, <2>3
<1> QED
  BY <1>13, <1>14, <1>15, <1>16 DEF InputInv

\* Without a pad, and when the port closes, the guest reads the releases.
LEMMA LastKeeps ==
    ASSUME RingFits, InputInv, NEW g \in InputState, NEW D \in SUBSET Controls,
           Sound(g, g.latched, D), Pointer(g), Told(guest, g), Weight(g) <= Cardinality(Keys),
           s' = [Neutral(g) EXCEPT !.sent = << >>], guest' = Believed(guest, Neutral(g).sent),
           phase' \in {"rendered", "closed"}, pad' = FALSE, held' = {},
           fingers' = fingers, raw' = raw
    PROVE  InputInv'
<1> DEFINE n == Neutral(g)
           r == [n EXCEPT !.sent = << >>]
<1>1. guest \in SUBSET Keys /\ fingers \in SUBSET Controls /\ raw \in SUBSET Controls
  BY DEF InputInv, InputTypeOK
<1>2. /\ LetGo(g, n, guest) /\ Sound(n, {}, {}) /\ n.keys = {} /\ n.click = FALSE
      /\ n.now = Unproven /\ n.latched = {} /\ n.down = {}
      /\ n.nativeStart = g.nativeStart
      /\ n.clicked = g.clicked /\ n.drag = g.drag /\ n.touch = g.touch
  BY <1>1, NeutralDoes
<1>3. s' = r /\ guest' = Believed(guest, n.sent)
  OBVIOUS
<1> HIDE DEF n
<1>4. n \in InputState /\ Told(guest, n) /\ Weight(n) <= Cardinality(Keys)
  BY <1>2 DEF LetGo
<1>5. Len(n.sent) <= RingSize
  <2> DEFINE b == Len(n.sent)
             m == Cardinality(Keys)
             o == Len(Order)
  <2>1. b \in Nat /\ m \in Nat /\ o \in Nat /\ RingSize \in Nat /\ b <= m
    BY <1>4, SentFits
  <2>2. m + 2 * o + 1 <= RingSize
    BY DEF RingFits
  <2> HIDE DEF b, m, o
  <2>3. b <= RingSize
    BY <2>1, <2>2
  <2> QED
    BY <2>3 DEF b
<1>6. /\ Believed(guest, n.sent) = n.keys
      /\ r \in InputState /\ r.sent = << >> /\ Told(n.keys, r)
      /\ Weight(r) <= Cardinality(Keys)
      /\ r.pressed = n.pressed /\ r.keys = n.keys /\ r.startKey = n.startKey
      /\ r.click = n.click /\ r.now = n.now /\ r.nativeStart = n.nativeStart
      /\ r.latched = n.latched /\ r.down = n.down /\ r.blocked = n.blocked
      /\ r.clicked = n.clicked /\ r.drag = n.drag /\ r.touch = n.touch
  BY <1>1, <1>4, <1>5, Rendered
<1> HIDE DEF r
<1>7. Sound(n, n.latched, n.down) /\ Latches(n) /\ Pointer(n)
  BY <1>2 DEF Latches, Pointer
<1>8. Sound(r, r.latched, r.down) /\ Latches(r) /\ Pointer(r)
  BY <1>6, <1>7, SameInput
<1>9. guest' = {} /\ r.keys = {}
  BY <1>2, <1>3, <1>6
<1>10. InputTypeOK'
  BY <1>1, <1>3, <1>6, <1>9 DEF InputTypeOK
<1>11. TellInv'
  BY <1>2, <1>3, <1>6, <1>9 DEF TellInv
<1>12. OwnInv'
  BY <1>3, <1>8, <1>9 DEF OwnInv
<1>13. HealInv'
  BY DEF HealInv
<1> QED
  BY <1>10, <1>11, <1>12, <1>13 DEF InputInv

\* All of them.
LEMMA InputKept == OneStart /\ RingFits /\ InputInv /\ [Next]_vars => InputInv'
<1> SUFFICES ASSUME OneStart, RingFits, InputInv, [Next]_vars PROVE InputInv'
  OBVIOUS
<1>0. /\ s \in InputState /\ Sound(s, s.latched, s.down) /\ Latches(s) /\ Pointer(s)
      /\ s.down \in SUBSET Controls /\ guest \in SUBSET Keys /\ pad \in BOOLEAN
      /\ fingers \in SUBSET Controls /\ raw \in SUBSET Controls
      /\ Told(guest, s) /\ Weight(s) <= Cardinality(Keys)
  BY DEF InputInv, InputTypeOK, OwnInv, TellInv, InputState
<1>1. CASE GuardFails
  BY <1>1, GuardKeeps
<1>2. CASE FocusLost
  <2>1. /\ Boundary /\ guest' = guest /\ pad' = pad /\ held' = held
        /\ fingers' = fingers /\ raw' = raw
    BY <1>2 DEF FocusLost, player
  <2> QED
    BY <1>0, <2>1, BoundaryKeeps
<1>3. CASE PadRemoved
  <2>1. /\ Boundary /\ guest' = guest /\ pad' \in BOOLEAN /\ held' = held
        /\ fingers' = {} /\ raw' = {}
    BY <1>3 DEF PadRemoved
  <2> QED
    BY <2>1, BoundaryKeeps
<1>4. CASE PadAdded
  BY <1>4, AddedKeeps
<1>5. CASE Poll
  BY <1>5, PollKeeps
<1>6. CASE PollWithoutPad
  <2>1. /\ ~pad /\ held' = {} /\ pad' = pad /\ fingers' = fingers /\ raw' = raw
    BY <1>6 DEF PollWithoutPad, player
  <2>2. PICK found \in Found : Render(Neutral(SetContext(s, found[1])))
    BY <1>6 DEF PollWithoutPad
  <2> DEFINE g == SetContext(s, found[1])
  <2>3. /\ LetGo(s, g, guest) /\ Sound(g, g.latched, s.down)
        /\ g.clicked = s.clicked /\ g.drag = s.drag /\ g.touch = s.touch
    BY <1>0, FoundAre, SetContextDoes
  <2>4. /\ s' = [Neutral(g) EXCEPT !.sent = << >>]
        /\ guest' = Believed(guest, Neutral(g).sent) /\ phase' = "rendered"
    BY <2>2 DEF Render
  <2> HIDE DEF g
  <2>5. /\ g \in InputState /\ Pointer(g)
        /\ Told(guest, g) /\ Weight(g) <= Cardinality(Keys)
    BY <1>0, <2>3 DEF LetGo, Pointer
  <2> QED
    BY <1>0, <2>1, <2>3, <2>4, <2>5, LastKeeps
<1>7. CASE Close
  <2>1. /\ s' = [Neutral(s) EXCEPT !.sent = << >>]
        /\ guest' = Believed(guest, Neutral(s).sent) /\ phase' = "closed"
        /\ held' = {} /\ pad' = FALSE /\ fingers' = fingers /\ raw' = raw
    BY <1>7 DEF Close
  <2> QED
    BY <1>0, <2>1, LastKeeps
<1>8. CASE UNCHANGED vars
  BY <1>8 DEF vars, InputInv, InputTypeOK, TellInv, OwnInv, HealInv
<1> QED
  BY <1>1, <1>2, <1>3, <1>4, <1>5, <1>6, <1>7, <1>8 DEF Next

\* What the three theorems rest on.
LEMMA InputInvariant ==
    ASSUME OneStart, RingFits
    PROVE  Spec => []InputInv
<1>1. Init => InputInv
  BY InputInit
<1>2. InputInv /\ [Next]_vars => InputInv'
  BY InputKept
<1> QED
  BY <1>1, <1>2, PTL DEF Spec

\* A key that is down after a poll is one that a control held now stands for.
LEMMA AccountedFor == InputInv => Accounted
<1> SUFFICES ASSUME InputInv PROVE Accounted
  OBVIOUS
<1>1. s \in InputState /\ Sound(s, s.latched, s.down) /\ Latches(s)
      /\ s.latched \in SUBSET Controls
  BY DEF InputInv, InputTypeOK, OwnInv, InputState
<1>2. ASSUME phase = "rendered", NEW k \in s.keys PROVE \E c \in held : k \in Accounts(c)
  <2>1. pad /\ s.down = held /\ HeldNow(s)
    BY <1>2 DEF InputInv, InputTypeOK, OwnInv
  <2>2. k \in Keys
    BY <1>1, Pressed
  <2>3. CASE s.pressed[k] = 0
    <3>1. PICK c \in held : NativeKey[c] = k /\ ~Consumes(s, c)
      BY <2>1, <2>3 DEF HeldNow
    <3> QED
      BY <2>2, <3>1, KeysAre DEF Accounts
  <2>4. CASE s.pressed[k] > 0 /\ Owners(s, s.latched, k) # {}
    <3>1. PICK c \in s.latched : Decision(s, c) = k /\ k # StartKey
      BY <2>4 DEF Owners
    <3>2. c \in held /\ Consumes(s, c)
      BY <1>1, <2>1, <3>1, Decided DEF Latches, Sound
    <3> QED
      BY <2>2, <3>1, <3>2, KeysAre DEF Accounts
  <2>5. CASE s.pressed[k] > 0 /\ Owners(s, s.latched, k) = {}
    <3>1. k = s.startKey /\ StartHeld(s, s.latched, s.down)
      <4>1. Cardinality(Owners(s, s.latched, k)) = 0
        BY <2>5, FS_EmptySet
      <4>2. s.pressed[k] \in Nat
        BY <1>1, <2>2, Pressed
      <4>3. s.pressed[k] <= Cardinality(Owners(s, s.latched, k))
                + (IF k = s.startKey /\ StartHeld(s, s.latched, s.down) THEN 1 ELSE 0)
        BY <1>1, <2>2 DEF Sound
      <4> QED
        BY <2>5, <4>1, <4>2, <4>3
    <3>2. k \in {StartKey, BackKey}
      BY <1>1, <2>2, <3>1, Pressed, KeysAre
    <3>3. CASE s.nativeStart
      <4>1. PICK c \in held : NativeKey[c] = NoKey /\ ~Consumes(s, c)
        BY <2>1, <3>3 DEF HeldNow
      <4> QED
        BY <3>2, <4>1 DEF Accounts
    <3>4. CASE ~s.nativeStart
      <4>1. PICK c \in s.latched : Decision(s, c) = StartKey
        BY <3>1, <3>4 DEF StartHeld
      <4>2. c \in held /\ Consumes(s, c)
        BY <1>1, <2>1, <4>1, Decided DEF Latches, Sound
      <4> QED
        BY <3>2, <4>1, <4>2 DEF Accounts
    <3> QED
      BY <3>3, <3>4
  <2>6. s.pressed[k] \in Nat
    BY <1>1, <2>2, Pressed
  <2> QED
    BY <2>3, <2>4, <2>5, <2>6
<1>3. TouchHeld
  <2> SUFFICES ASSUME phase = "rendered", pad, s.touch
               PROVE  \E c \in held : Decision(s, c) = "click"
    BY DEF TouchHeld
  <2>1. s.down = held /\ s.click
    BY DEF InputInv, OwnInv, HeldNow
  <2> QED
    BY <1>1, <2>1 DEF Sound, Latches
<1>4. ~pad => s.keys = {}
  BY DEF InputInv, OwnInv
<1> QED
  BY <1>2, <1>3, <1>4 DEF Accounted

\* Whatever screens come and go, a key that is down after a poll belongs to a
\* control that is held and stands for it now (input.c, st_input_poll and the
\* mapping runtime), for any map in which one button is START.
THEOREM KeysAreAccounted ==
    ASSUME OneStart, RingFits
    PROVE  Spec => []Accounted
BY InputInvariant, AccountedFor, PTL

\* The guest reads every payload before the ring of KeyEvents writes it again
\* (jni.c, key_payload): it believes down what the port has down.
THEOREM GuestBelieves ==
    ASSUME OneStart, RingFits
    PROVE  Spec => []GuestAgrees
<1>1. InputInv => GuestAgrees
  <2> SUFFICES ASSUME InputInv, phase \in {"rendered", "closed"} PROVE guest = s.keys
    BY DEF GuestAgrees
  <2>1. s.sent = << >> /\ Told(guest, s)
    BY DEF InputInv, TellInv
  <2> QED
    BY <2>1, ReplayNone DEF Told
<1> QED
  BY <1>1, InputInvariant, PTL

\* A release SDL has lost is made good by the kernel (input_guard.c) when every
\* control is one the kernel knows as a key or a hat.
THEOREM LostReleasesHeal ==
    ASSUME OneStart, RingFits, Controls = KeyBacked \cup HatBacked
    PROVE  Spec => []Healed
<1>1. InputInv => Healed
  <2> SUFFICES ASSUME InputInv, phase = "rendered", pad, guard, fingers = {}
               PROVE  s.keys = {} /\ ~s.drag
    BY DEF Healed
  <2>1. held = {}
    BY DEF InputInv, HealInv
  <2>2. Accounted
    BY AccountedFor
  <2>3. s.keys = {} /\ ~s.touch
    BY <2>1, <2>2 DEF Accounted, TouchHeld
  <2>4. s.touch = s.drag
    BY DEF InputInv, OwnInv, Pointer
  <2> QED
    BY <2>3, <2>4
<1> QED
  BY <1>1, InputInvariant, PTL
=============================================================================
