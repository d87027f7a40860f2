----------------------- MODULE FrameSynthesisPoolProofs -----------------------
(***************************************************************************)
(* Theorems about FrameSynthesisPool, for every number of workers, frames  *)
(* and window size. PoolInvariant is inductive; the rest follows from it.  *)
(***************************************************************************)
EXTENDS FrameSynthesisPoolProps, FiniteSetTheorems, SequenceTheorems, TLAPS

USE WorkerAssumption, FrameCountAssumption, MaxInFlightAssumption,
    SwitchAssumption, NoneAssumption

(* What the buffer operators return, whatever frame they are given. *)
LEMMA RecycledType ==
  ASSUME NEW f \in FrameType
  PROVE  Recycled(f) \in FrameType /\ Recycled(f).ok /\ Recycled(f).rows = <<>>
<1>1. f.samples \in Content /\ <<>> \in Seq(Frames)
  BY DEF FrameType
<1> QED BY <1>1 DEF Recycled, FrameType

LEMMA JobTypes ==
  ASSUME NEW f \in FrameType, NEW i \in Frames
  PROVE  /\ JobDone(f, i) \in FrameType
         /\ JobFailed(f) \in FrameType /\ ~JobFailed(f).ok
         /\ f.ok /\ f.rows = <<>> => JobDone(f, i) = SequentialFrame(i)
<1>1. f.samples \in Content /\ f.rows \in Seq(Frames) /\ f.ok \in BOOLEAN
  BY DEF FrameType
<1>2. Append(f.rows, i) \in Seq(Frames) /\ i \in Content
  BY <1>1 DEF Content
<1>3. f.ok /\ f.rows = <<>> => JobDone(f, i) = SequentialFrame(i)
  BY <1>1 DEF JobDone, SequentialFrame
<1> QED BY <1>1, <1>2, <1>3 DEF JobDone, JobFailed, FrameType

LEMMA NewFrameType == NewFrame \in FrameType
BY DEF FrameType, NewFrame, Content

(* The free list stays a list of frames. *)
LEMMA FreeListTypes ==
  ASSUME NEW s \in Seq(FrameType), s # <<>>
  PROVE  /\ Len(s) \in 1 .. Len(s)
         /\ s[Len(s)] \in FrameType
         /\ SubSeq(s, 1, Len(s) - 1) \in Seq(FrameType)
OBVIOUS

LEMMA ShorterFreeList ==
  ASSUME NEW s \in Seq(FrameType), s # <<>>
  PROVE  Len(SubSeq(s, 1, Len(s) - 1)) = Len(s) - 1
<1>1. Len(s) \in Nat \ {0} /\ \A i \in 1 .. Len(s) - 1 : s[i] \in FrameType
  OBVIOUS
<1>2. Len(SubSeq(s, 1, Len(s) - 1))
        = IF 1 <= Len(s) - 1 THEN (Len(s) - 1) - 1 + 1 ELSE 0
  BY <1>1, SubSeqProperties
<1> DEFINE n == Len(s)
           shorter == Len(SubSeq(s, 1, Len(s) - 1))
<1>3. n \in Nat \ {0} /\ shorter = IF 1 <= n - 1 THEN (n - 1) - 1 + 1 ELSE 0
  BY <1>1, <1>2
<1> HIDE DEF n, shorter
<1>4. shorter = n - 1
  BY <1>3
<1> QED BY <1>4 DEF n, shorter

-------------------------------------------------------------------------------
LEMMA TypeInit == Init => TypeOK
<1> SUFFICES ASSUME Init PROVE TypeOK
  OBVIOUS
<1>1. DOMAIN completed = {} /\ completed \in [DOMAIN completed -> FrameType]
  BY DEF Init
<1>2. <<>> \in Seq(FrameType) /\ NewFrame \in FrameType
  BY NewFrameType
<1>3. wpc \in [Worker -> WorkerLocations] /\ Claimed = {}
  BY DEF Init, WorkerLocations, Claimed
<1>4. /\ windex \in [Worker -> Nat] /\ wframe \in [Worker -> FrameType]
      /\ cframe \in FrameType /\ cpc \in ConsumerLocations
  BY <1>2 DEF Init, ConsumerLocations
<1>5. free_frames \in Seq(FrameType) /\ consumed \in Seq(FrameType)
  BY <1>2 DEF Init
<1>6. next_claim \in Nat /\ next_consume \in 0 .. FrameCount
  BY DEF Init
<1> QED BY <1>1, <1>3, <1>4, <1>5, <1>6 DEF Init, TypeOK

LEMMA TypeNext == TypeOK /\ [Next]_vars => TypeOK'
<1> SUFFICES ASSUME TypeOK, [Next]_vars PROVE TypeOK'
  OBVIOUS
<1> USE DEF TypeOK, buffer_vars, waiting_vars, worker_vars, consumer_vars
<1>1. ASSUME NEW w \in Worker, CheckStop(w) PROVE TypeOK'
  BY <1>1 DEF CheckStop, Goto, Claimed, WorkerLocations
<1>2. ASSUME NEW w \in Worker, Claim(w) PROVE TypeOK'
  BY <1>2 DEF Claim, Goto, Claimed, WorkerLocations, Frames
<1>3. ASSUME NEW w \in Worker, BeginFrame(w) PROVE TypeOK'
  BY <1>3 DEF BeginFrame, Goto, Claimed, WorkerLocations
<1>4. ASSUME NEW w \in Worker, Acquire(w) PROVE TypeOK'
  <2>1. free_frames' \in Seq(FrameType) /\ wframe' \in [Worker -> FrameType]
    <3>1. CASE free_frames = <<>>
      BY <1>4, <3>1, NewFrameType DEF Acquire
    <3>2. CASE free_frames # <<>>
      <4> DEFINE last == Len(free_frames)
      <4>1. /\ free_frames[last] \in FrameType
            /\ SubSeq(free_frames, 1, last - 1) \in Seq(FrameType)
        BY <3>2, FreeListTypes
      <4>2. Recycled(free_frames[last]) \in FrameType
        BY <4>1, RecycledType
      <4>3. /\ wframe' = [wframe EXCEPT ![w] = Recycled(free_frames[last])]
            /\ free_frames' = SubSeq(free_frames, 1, last - 1)
        BY <1>4, <3>2 DEF Acquire
      <4> QED BY <4>1, <4>2, <4>3
    <3> QED BY <3>1, <3>2
  <2> QED BY <1>4, <2>1 DEF Acquire, Goto, Claimed, WorkerLocations
<1>5. ASSUME NEW w \in Worker, RunJob(w) PROVE TypeOK'
  <2>1. windex[w] \in Frames
    BY <1>5 DEF RunJob, Goto, Claimed
  <2>2. /\ JobDone(wframe[w], windex[w]) \in FrameType
        /\ JobFailed(wframe[w]) \in FrameType
    BY <2>1, JobTypes
  <2>3. wframe' \in [Worker -> FrameType]
    BY <1>5, <2>2 DEF RunJob
  <2> QED BY <1>5, <2>3 DEF RunJob, Goto, Claimed, WorkerLocations
<1>6. ASSUME NEW w \in Worker, Push(w) PROVE TypeOK'
  <2>1. windex[w] \in Frames /\ wframe[w] \in FrameType
    BY <1>6 DEF Push, Goto, Claimed
  <2>2. /\ DOMAIN completed' \subseteq Frames
        /\ completed' \in [DOMAIN completed' -> FrameType]
    BY <1>6, <2>1 DEF Push, Store
  <2> QED BY <1>6, <2>2, NewFrameType DEF Push, Goto, Claimed, WorkerLocations
<1>7. ASSUME NEW w \in Worker, NotifyConsumer(w) PROVE TypeOK'
  BY <1>7 DEF NotifyConsumer, Goto, Claimed, WorkerLocations
<1>8. CASE Start
  BY <1>8 DEF Start, ConsumerGoto, Claimed, WorkerLocations, ConsumerLocations
<1>9. CASE LoopHead
  BY <1>9 DEF LoopHead, Claimed, ConsumerLocations
<1>10. CASE Pop
  <2>1. /\ next_consume' \in 0 .. FrameCount
        /\ DOMAIN completed' \subseteq Frames
        /\ completed' \in [DOMAIN completed' -> FrameType]
        /\ cframe' \in FrameType
    BY <1>10 DEF Pop, Frames
  <2> QED BY <1>10, <2>1 DEF Pop, Claimed, ConsumerLocations
<1>11. CASE ReleaseWindow
  BY <1>11 DEF ReleaseWindow, ConsumerGoto, Claimed, ConsumerLocations
<1>12. CASE Consume
  <2>1. consumed' \in Seq(FrameType)
    <3>1. Append(consumed, cframe) \in Seq(FrameType)
      OBVIOUS
    <3> QED BY <1>12, <3>1 DEF Consume
  <2> QED BY <1>12, <2>1 DEF Consume, Claimed, ConsumerLocations
<1>13. CASE Recycle
  BY <1>13, NewFrameType DEF Recycle, ConsumerGoto, Claimed, ConsumerLocations
<1>14. CASE Abort
  BY <1>14 DEF Abort, ConsumerGoto, Claimed, ConsumerLocations
<1>15. CASE WakeAll
  BY <1>15 DEF WakeAll, ConsumerGoto, Claimed, ConsumerLocations
<1>16. CASE Join
  BY <1>16 DEF Join, ConsumerGoto, Claimed, ConsumerLocations
<1>17. CASE RequestCancellation
  BY <1>17 DEF RequestCancellation, Claimed
<1>18. CASE SpuriousWakeup
  BY <1>18 DEF SpuriousWakeup, Claimed
<1>19. CASE UNCHANGED vars
  BY <1>19 DEF vars, Claimed
<1> QED BY <1>1, <1>2, <1>3, <1>4, <1>5, <1>6, <1>7, <1>8, <1>9, <1>10, <1>11,
           <1>12, <1>13, <1>14, <1>15, <1>16, <1>17, <1>18, <1>19
        DEF Next, WorkerStep, ConsumerStep, Returned

(* Every variable keeps its type, and an index in use is a frame's index. *)
THEOREM Typing == Spec => []TypeOK
BY TypeInit, TypeNext, PTL DEF Spec

-------------------------------------------------------------------------------
(* The inductive invariant, one conjunct at a time.                        *)

LEMMA InvariantInit == Init => PoolInvariant
<1> SUFFICES ASSUME Init PROVE PoolInvariant
  OBVIOUS
<1>1. TypeOK
  BY TypeInit
<1>2. ClaimsAccounted /\ InsideWindow /\ FramesIntact /\ ExitsExplained
  BY DEF Init, ClaimsAccounted, InsideWindow, FramesIntact, ExitsExplained,
         Claimed, Synthesising
<1>3. ConsumerInStep /\ DeliveredInOrder /\ PopIsLive
  BY DEF Init, ConsumerInStep, DeliveredInOrder, PopIsLive
<1> QED BY <1>1, <1>2, <1>3 DEF PoolInvariant

(***************************************************************************)
(* What the caller's location says about its progress. Among the workers   *)
(* only Push touches a variable this reads.                                *)
(***************************************************************************)
LEMMA ConsumerInStepNext ==
  PoolInvariant /\ [Next]_vars => ConsumerInStep' /\ PopIsLive'
<1> SUFFICES ASSUME PoolInvariant, [Next]_vars
             PROVE  ConsumerInStep' /\ PopIsLive'
  OBVIOUS
<1> USE DEF ConsumerInStep, PopIsLive, PoolInvariant
<1>0. /\ Len(consumed) \in Nat /\ next_consume \in 0 .. FrameCount
      /\ cpc \in ConsumerLocations /\ run_ok \in BOOLEAN
      /\ aborted \in BOOLEAN /\ cancelled \in BOOLEAN
      /\ wpc \in [Worker -> WorkerLocations]
  BY DEF TypeOK
<1>1. ASSUME NEW w \in Worker, WorkerStep(w)
      PROVE  ConsumerInStep' /\ PopIsLive'
  <2>1. UNCHANGED <<consumer_vars, next_consume, aborted>>
    BY <1>1 DEF WorkerStep, CheckStop, Claim, BeginFrame, Acquire, RunJob, Push,
                NotifyConsumer, buffer_vars
  <2>2. aborted => completed' = completed
    BY <1>1 DEF WorkerStep, CheckStop, Claim, BeginFrame, Acquire, RunJob, Push,
                NotifyConsumer, buffer_vars
  <2>3. cpc # "start"
    BY <1>0, <1>1 DEF WorkerStep, CheckStop, Claim, BeginFrame, Acquire, RunJob,
                Push, NotifyConsumer, Goto
  <2> QED BY <2>1, <2>2, <2>3 DEF consumer_vars
<1>2. CASE Start
  BY <1>0, <1>2 DEF Start, ConsumerGoto, buffer_vars
<1>3. CASE LoopHead
  <2>1. cpc = "loop" /\ ~aborted /\ run_ok /\ Len(consumed) = next_consume
    BY <1>3 DEF LoopHead
  <2>2. UNCHANGED <<next_consume, completed, aborted, cframe, consumed, wpc>>
    BY <1>3 DEF LoopHead, buffer_vars, worker_vars
  <2>3. CASE Len(consumed) = FrameCount /\ cpc' = "abort" /\ run_ok'
    BY <1>0, <2>1, <2>2, <2>3
  <2>4. CASE Len(consumed) < FrameCount /\ cpc' = "abort" /\ ~run_ok'
    BY <1>0, <2>1, <2>2, <2>4
  <2>5. CASE Len(consumed) < FrameCount /\ cpc' = "pop" /\ run_ok'
    BY <1>0, <2>1, <2>2, <2>5
  <2> QED BY <1>3, <2>1, <2>3, <2>4, <2>5 DEF LoopHead
<1>4. CASE Pop
  <2>1. UNCHANGED <<aborted, run_ok, consumed, wpc>> /\ cpc = "pop" /\ ~aborted
    BY <1>4 DEF Pop, worker_vars
  <2>2. CASE cpc' = "release_window" /\ next_consume' = next_consume + 1
    BY <1>0, <2>1, <2>2
  <2>3. CASE UNCHANGED <<next_consume, cpc>>
    BY <1>0, <2>1, <2>3
  <2> QED BY <1>4, <2>2, <2>3 DEF Pop
<1>5. CASE ReleaseWindow
  BY <1>0, <1>5 DEF ReleaseWindow, ConsumerGoto, buffer_vars, worker_vars
<1>6. CASE Consume
  <2>1. /\ UNCHANGED <<next_consume, completed, aborted, cframe, wpc>>
        /\ cpc = "consume" /\ ~aborted
    BY <1>6 DEF Consume, buffer_vars, worker_vars
  <2>2. CASE cpc' = "recycle"
    <3>1. cframe.ok /\ UNCHANGED run_ok /\ consumed' = Append(consumed, cframe)
      BY <1>6, <2>2 DEF Consume
    <3>2. Len(consumed') = Len(consumed) + 1
      BY <3>1 DEF TypeOK
    <3> QED BY <1>0, <2>1, <2>2, <3>1, <3>2
  <2>3. CASE cpc' = "abort"
    <3>1. run_ok' = FALSE /\ consumed' = consumed
      BY <1>6, <2>3 DEF Consume
    <3> QED BY <1>0, <2>1, <2>3, <3>1
  <2> QED BY <1>6, <2>2, <2>3 DEF Consume
<1>7. CASE Recycle
  BY <1>0, <1>7 DEF Recycle, ConsumerGoto, buffer_vars, worker_vars
<1>8. CASE Abort
  BY <1>0, <1>8 DEF Abort, ConsumerGoto, worker_vars
<1>9. CASE WakeAll
  BY <1>0, <1>9 DEF WakeAll, ConsumerGoto, buffer_vars, worker_vars
<1>10. CASE Join
  BY <1>0, <1>10 DEF Join, ConsumerGoto, buffer_vars, worker_vars
<1>11. CASE RequestCancellation \/ SpuriousWakeup
  BY <1>0, <1>11 DEF RequestCancellation, SpuriousWakeup, buffer_vars,
                     worker_vars, consumer_vars
<1>12. CASE UNCHANGED vars
  BY <1>12 DEF vars, buffer_vars, worker_vars, consumer_vars
<1> QED BY <1>1, <1>2, <1>3, <1>4, <1>5, <1>6, <1>7, <1>8, <1>9, <1>10, <1>11,
           <1>12 DEF Next, ConsumerStep, Returned

(***************************************************************************)
(* Where every claimed index is. Claim makes a new one, Push moves one     *)
(* from its worker to the buffer, Pop takes one out of it; a worker drops  *)
(* one only once the exchange is aborted.                                  *)
(***************************************************************************)
LEMMA ClaimsAccountedNext ==
  PoolInvariant /\ [Next]_vars => ClaimsAccounted'
<1> SUFFICES ASSUME PoolInvariant, [Next]_vars PROVE ClaimsAccounted'
  OBVIOUS
<1>0. /\ next_claim \in Nat /\ next_consume \in 0 .. FrameCount
      /\ wpc \in [Worker -> WorkerLocations] /\ windex \in [Worker -> Nat]
      /\ aborted \in BOOLEAN /\ DOMAIN completed \subseteq Frames
      /\ ClaimsAccounted
  BY DEF PoolInvariant, TypeOK
<1>1. ASSUME UNCHANGED <<next_claim, next_consume, completed, aborted, windex>>,
             Claimed' = Claimed
      PROVE  ClaimsAccounted'
  BY <1>0, <1>1 DEF ClaimsAccounted
<1>2. ASSUME NEW w \in Worker,
             \/ CheckStop(w) \/ Acquire(w) \/ RunJob(w) \/ NotifyConsumer(w)
      PROVE  ClaimsAccounted'
  <2>1. UNCHANGED <<next_claim, next_consume, completed, aborted, windex>>
    BY <1>2 DEF CheckStop, Acquire, RunJob, NotifyConsumer, buffer_vars
  <2>2. Claimed' = Claimed
    BY <1>0, <1>2 DEF CheckStop, Acquire, RunJob, NotifyConsumer, Goto, Claimed
  <2> QED BY <1>1, <2>1, <2>2
<1>3. ASSUME NEW w \in Worker, Claim(w) PROVE ClaimsAccounted'
  <2>1. /\ UNCHANGED <<next_consume, completed, aborted>> /\ wpc[w] = "claim"
        /\ next_claim' = next_claim + 1
        /\ windex' = [windex EXCEPT ![w] = next_claim]
    BY <1>3 DEF Claim, Goto, buffer_vars
  <2>2. w \notin Claimed
    BY <2>1 DEF Claimed
  <2>3. CASE next_claim >= FrameCount
    <3>1. Claimed' = Claimed
      BY <1>0, <1>3, <2>3 DEF Claim, Goto, Claimed
    <3> QED BY <1>0, <2>1, <2>2, <2>3, <3>1 DEF ClaimsAccounted, Frames, Claimed
  <2>4. CASE next_claim < FrameCount
    <3>1. Claimed' = Claimed \cup {w}
      BY <1>0, <1>3, <2>4 DEF Claim, Goto, Claimed
    <3>2. windex'[w] = next_claim /\ \A v \in Claimed : windex'[v] = windex[v]
      BY <1>0, <2>1, <2>2 DEF Claimed
    <3> QED BY <1>0, <2>1, <2>2, <2>4, <3>1, <3>2 DEF ClaimsAccounted
  <2> QED BY <1>0, <2>3, <2>4
<1>4. ASSUME NEW w \in Worker, BeginFrame(w) PROVE ClaimsAccounted'
  <2>1. UNCHANGED <<next_claim, next_consume, completed, aborted, windex>>
    BY <1>4 DEF BeginFrame, buffer_vars
  <2>2. Claimed' = Claimed \/ (aborted /\ Claimed' \subseteq Claimed)
    BY <1>0, <1>4 DEF BeginFrame, Goto, Claimed
  <2> QED BY <1>0, <2>1, <2>2 DEF ClaimsAccounted
<1>5. ASSUME NEW w \in Worker, Push(w) PROVE ClaimsAccounted'
  <2>1. /\ UNCHANGED <<next_claim, next_consume, aborted, windex>>
        /\ w \in Claimed /\ Claimed' = Claimed \ {w}
    BY <1>0, <1>5 DEF Push, Goto, Claimed
  <2>2. CASE aborted
    <3>1. completed' = completed
      BY <1>5, <2>2 DEF Push
    <3> QED BY <1>0, <2>1, <2>2, <3>1 DEF ClaimsAccounted
  <2>3. CASE ~aborted
    <3>1. DOMAIN completed' = DOMAIN completed \cup {windex[w]}
      BY <1>5, <2>3 DEF Push, Store
    <3> QED BY <1>0, <2>1, <2>3, <3>1 DEF ClaimsAccounted
  <2> QED BY <2>2, <2>3
<1>6. CASE Start
  <2>1. cpc = "start" /\ UNCHANGED <<next_claim, buffer_vars, windex>>
    BY <1>6 DEF Start, ConsumerGoto
  <2>2. Claimed = {}
    BY <2>1 DEF PoolInvariant, ConsumerInStep, Claimed
  <2>3. Claimed' = {}
    BY <1>6 DEF Start, Claimed
  <2> QED BY <1>1, <2>1, <2>2, <2>3 DEF buffer_vars
<1>7. CASE Pop
  <2>1. UNCHANGED <<next_claim, aborted, windex>> /\ Claimed' = Claimed
    BY <1>7 DEF Pop, worker_vars, Claimed
  <2>2. CASE next_consume \in DOMAIN completed
    <3>1. /\ next_consume' = next_consume + 1
          /\ DOMAIN completed' = DOMAIN completed \ {next_consume}
      BY <1>7, <2>2 DEF Pop
    <3> QED BY <1>0, <2>1, <2>2, <3>1 DEF ClaimsAccounted, Claimed
  <2>3. CASE next_consume \notin DOMAIN completed
    <3>1. UNCHANGED <<completed, next_consume>>
      BY <1>7, <2>3 DEF Pop
    <3> QED BY <1>1, <2>1, <3>1
  <2> QED BY <2>2, <2>3
<1>8. CASE Abort
  <2>1. /\ UNCHANGED <<next_claim, next_consume, windex>> /\ Claimed' = Claimed
        /\ aborted' /\ DOMAIN completed' = {}
    BY <1>8 DEF Abort, worker_vars, Claimed
  <2> QED BY <1>0, <2>1 DEF ClaimsAccounted
<1>9. CASE \/ LoopHead \/ ReleaseWindow \/ Consume \/ Recycle \/ WakeAll \/ Join
           \/ RequestCancellation \/ SpuriousWakeup \/ UNCHANGED vars
  <2>1. UNCHANGED <<next_claim, buffer_vars, worker_vars>>
    BY <1>9 DEF LoopHead, ReleaseWindow, Consume, Recycle, WakeAll, Join,
                RequestCancellation, SpuriousWakeup, vars
  <2> QED BY <1>1, <2>1 DEF buffer_vars, worker_vars, Claimed
<1> QED BY <1>2, <1>3, <1>4, <1>5, <1>6, <1>7, <1>8, <1>9
        DEF Next, WorkerStep, ConsumerStep, Returned

(***************************************************************************)
(* BeginFrame lets a worker past only inside the window, and the window    *)
(* only moves forward.                                                     *)
(***************************************************************************)
LEMMA InsideWindowNext == PoolInvariant /\ [Next]_vars => InsideWindow'
<1> SUFFICES ASSUME PoolInvariant, [Next]_vars PROVE InsideWindow'
  OBVIOUS
<1>0. /\ next_consume \in 0 .. FrameCount /\ InsideWindow
      /\ wpc \in [Worker -> WorkerLocations] /\ windex \in [Worker -> Nat]
      /\ DOMAIN completed \subseteq Frames
  BY DEF PoolInvariant, TypeOK
<1>1. ASSUME UNCHANGED <<next_consume, completed, windex>>,
             Synthesising' \subseteq Synthesising
      PROVE  InsideWindow'
  BY <1>0, <1>1 DEF InsideWindow, InWindow
<1>2. ASSUME NEW w \in Worker,
             CheckStop(w) \/ Acquire(w) \/ RunJob(w) \/ NotifyConsumer(w)
      PROVE  InsideWindow'
  <2>1. UNCHANGED <<next_consume, completed, windex>>
    BY <1>2 DEF CheckStop, Acquire, RunJob, NotifyConsumer, buffer_vars
  <2>2. Synthesising' = Synthesising
    BY <1>0, <1>2 DEF CheckStop, Acquire, RunJob, NotifyConsumer, Goto,
                      Synthesising
  <2> QED BY <1>1, <2>1, <2>2
<1>3. ASSUME NEW w \in Worker, Claim(w) PROVE InsideWindow'
  <2>1. /\ UNCHANGED <<next_consume, completed>> /\ w \notin Synthesising
        /\ windex' = [windex EXCEPT ![w] = next_claim]
    BY <1>3 DEF Claim, Goto, buffer_vars, Synthesising
  <2>2. Synthesising' = Synthesising
    BY <1>0, <1>3 DEF Claim, Goto, Synthesising
  <2>3. \A v \in Synthesising : windex'[v] = windex[v]
    BY <1>0, <2>1 DEF Synthesising
  <2> QED BY <1>0, <2>1, <2>2, <2>3 DEF InsideWindow, InWindow
<1>4. ASSUME NEW w \in Worker, BeginFrame(w) PROVE InsideWindow'
  <2>1. UNCHANGED <<next_consume, completed, windex>>
    BY <1>4 DEF BeginFrame, buffer_vars
  <2>2. \/ Synthesising' \subseteq Synthesising
        \/ InWindow(windex[w]) /\ Synthesising' = Synthesising \cup {w}
    BY <1>0, <1>4 DEF BeginFrame, Goto, Synthesising
  <2> QED BY <1>0, <1>1, <2>1, <2>2 DEF InsideWindow, InWindow
<1>5. ASSUME NEW w \in Worker, Push(w) PROVE InsideWindow'
  <2>1. /\ UNCHANGED <<next_consume, windex>>
        /\ w \in Synthesising /\ Synthesising' \subseteq Synthesising
        /\ DOMAIN completed' \subseteq DOMAIN completed \cup {windex[w]}
    BY <1>0, <1>5 DEF Push, Goto, Store, Synthesising
  <2> QED BY <1>0, <2>1 DEF InsideWindow, InWindow
<1>6. CASE Start
  <2>1. UNCHANGED buffer_vars /\ UNCHANGED windex /\ Synthesising' = {}
    BY <1>6 DEF Start, Synthesising
  <2> QED BY <1>1, <2>1 DEF buffer_vars
<1>7. CASE Pop
  <2>1. /\ UNCHANGED worker_vars
        /\ DOMAIN completed' \subseteq DOMAIN completed
        /\ next_consume' \in {next_consume, next_consume + 1}
    BY <1>7 DEF Pop
  <2> QED BY <1>0, <2>1, MaxInFlightAssumption
          DEF InsideWindow, InWindow, worker_vars, Synthesising, Frames
<1>8. CASE Abort
  <2>1. /\ UNCHANGED <<next_consume, worker_vars>> /\ DOMAIN completed' = {}
    BY <1>8 DEF Abort
  <2> QED BY <1>0, <2>1 DEF InsideWindow, InWindow, worker_vars, Synthesising
<1>9. CASE \/ LoopHead \/ ReleaseWindow \/ Consume \/ Recycle \/ WakeAll \/ Join
           \/ RequestCancellation \/ SpuriousWakeup \/ UNCHANGED vars
  <2>1. UNCHANGED <<next_claim, buffer_vars, worker_vars>>
    BY <1>9 DEF LoopHead, ReleaseWindow, Consume, Recycle, WakeAll, Join,
                RequestCancellation, SpuriousWakeup, vars
  <2> QED BY <1>1, <2>1 DEF buffer_vars, worker_vars, Synthesising
<1> QED BY <1>2, <1>3, <1>4, <1>5, <1>6, <1>7, <1>8, <1>9
        DEF Next, WorkerStep, ConsumerStep, Returned

(* A worker leaves an exchange nobody aborted on one of two grounds only. *)
LEMMA ExitsExplainedNext == PoolInvariant /\ [Next]_vars => ExitsExplained'
<1> SUFFICES ASSUME PoolInvariant, [Next]_vars PROVE ExitsExplained'
  OBVIOUS
<1>0. /\ next_claim \in Nat /\ wpc \in [Worker -> WorkerLocations]
      /\ ExitsExplained
  BY DEF PoolInvariant, TypeOK
<1>1. ASSUME NEW w \in Worker, CheckStop(w) PROVE ExitsExplained'
  BY <1>0, <1>1 DEF CheckStop, Goto, buffer_vars, ExitsExplained
<1>2. ASSUME NEW w \in Worker, Claim(w) PROVE ExitsExplained'
  BY <1>0, <1>2 DEF Claim, Goto, buffer_vars, ExitsExplained
<1>3. ASSUME NEW w \in Worker, BeginFrame(w) PROVE ExitsExplained'
  BY <1>0, <1>3 DEF BeginFrame, Goto, buffer_vars, ExitsExplained
<1>4. ASSUME NEW w \in Worker,
             Acquire(w) \/ RunJob(w) \/ NotifyConsumer(w) \/ Push(w)
      PROVE  ExitsExplained'
  BY <1>0, <1>4 DEF Acquire, RunJob, NotifyConsumer, Push, Goto, buffer_vars,
                    ExitsExplained
<1>5. CASE Start
  BY <1>5 DEF Start, ExitsExplained
<1>6. CASE \/ Pop \/ Abort \/ LoopHead \/ ReleaseWindow \/ Consume \/ Recycle
           \/ WakeAll \/ Join \/ RequestCancellation \/ SpuriousWakeup
           \/ UNCHANGED vars
  <2>1. /\ UNCHANGED <<next_claim, worker_vars>> /\ (aborted => aborted')
        /\ cancelled => cancelled'
    BY <1>6 DEF Pop, Abort, LoopHead, ReleaseWindow, Consume, Recycle, WakeAll,
                Join, RequestCancellation, SpuriousWakeup, buffer_vars, vars
  <2> QED BY <1>0, <2>1 DEF ExitsExplained, worker_vars
<1> QED BY <1>1, <1>2, <1>3, <1>4, <1>5, <1>6
        DEF Next, WorkerStep, ConsumerStep, Returned

(***************************************************************************)
(* What every frame in use contains. Acquire hands out cleared rows, a job *)
(* writes only its own index, and a worker that stores a finished frame    *)
(* still holds the index it was made for.                                  *)
(***************************************************************************)
LEMMA FramesIntactNext == PoolInvariant /\ [Next]_vars => FramesIntact'
<1> SUFFICES ASSUME PoolInvariant, [Next]_vars PROVE FramesIntact'
  OBVIOUS
<1>0. /\ wpc \in [Worker -> WorkerLocations] /\ windex \in [Worker -> Nat]
      /\ wframe \in [Worker -> FrameType] /\ free_frames \in Seq(FrameType)
      /\ completed \in [DOMAIN completed -> FrameType]
      /\ next_consume \in 0 .. FrameCount /\ FramesIntact
  BY DEF PoolInvariant, TypeOK
<1>1. ASSUME NEW w \in Worker, CheckStop(w) \/ BeginFrame(w) \/ NotifyConsumer(w)
      PROVE  FramesIntact'
  <2>1. UNCHANGED <<completed, windex, wframe, consumer_vars>>
    BY <1>1 DEF CheckStop, BeginFrame, NotifyConsumer, buffer_vars
  <2>2. \A v \in Worker : wpc'[v] \in {"job", "push"} => wpc'[v] = wpc[v]
    BY <1>0, <1>1 DEF CheckStop, BeginFrame, NotifyConsumer, Goto
  <2> QED BY <1>0, <2>1, <2>2 DEF FramesIntact, consumer_vars
<1>2. ASSUME NEW w \in Worker, Claim(w) PROVE FramesIntact'
  <2>1. /\ UNCHANGED <<completed, wframe, consumer_vars>>
        /\ windex' = [windex EXCEPT ![w] = next_claim]
    BY <1>2 DEF Claim, buffer_vars
  <2>2. \A v \in Worker : wpc'[v] \in {"job", "push"}
                            => wpc'[v] = wpc[v] /\ v # w
    BY <1>0, <1>2 DEF Claim, Goto
  <2> QED BY <1>0, <2>1, <2>2 DEF FramesIntact, consumer_vars
<1>3. ASSUME NEW w \in Worker, Acquire(w) PROVE FramesIntact'
  <2>1. /\ UNCHANGED <<completed, windex, consumer_vars>>
        /\ wpc' = [wpc EXCEPT ![w] = "job"]
    BY <1>3 DEF Acquire, Goto, buffer_vars
  <2>2. PICK f \in FrameType : wframe' = [wframe EXCEPT ![w] = f]
                               /\ f.ok /\ f.rows = <<>>
    <3>1. CASE free_frames = <<>>
      BY <1>3, <3>1, NewFrameType DEF Acquire, NewFrame
    <3>2. CASE free_frames # <<>>
      <4>1. free_frames[Len(free_frames)] \in FrameType
        BY <1>0, <3>2, FreeListTypes
      <4> QED BY <1>3, <3>2, <4>1, RecycledType DEF Acquire
    <3> QED BY <3>1, <3>2
  <2> QED BY <1>0, <2>1, <2>2 DEF FramesIntact, consumer_vars
<1>4. ASSUME NEW w \in Worker, RunJob(w) PROVE FramesIntact'
  <2>1. /\ UNCHANGED <<completed, windex, consumer_vars>>
        /\ wpc' = [wpc EXCEPT ![w] = "push"]
        /\ wframe[w].ok /\ wframe[w].rows = <<>> /\ windex[w] \in Frames
    BY <1>0, <1>4 DEF RunJob, Goto, buffer_vars, FramesIntact, PoolInvariant,
                      TypeOK, Claimed
  <2>2. PICK f : /\ wframe' = [wframe EXCEPT ![w] = f]
                 /\ f.ok => f = SequentialFrame(windex[w])
    BY <1>0, <1>4, <2>1, JobTypes DEF RunJob
  <2> QED BY <1>0, <2>1, <2>2 DEF FramesIntact, consumer_vars
<1>5. ASSUME NEW w \in Worker, Push(w) PROVE FramesIntact'
  <2>1. /\ UNCHANGED <<windex, consumer_vars>> /\ wpc[w] = "push"
        /\ wframe' = [wframe EXCEPT ![w] = NewFrame]
    BY <1>5 DEF Push, Goto
  <2>2. \A v \in Worker : wpc'[v] \in {"job", "push"}
                            => wpc'[v] = wpc[v] /\ v # w
    BY <1>0, <1>5 DEF Push, Goto
  <2>3. \A i \in DOMAIN completed' :
          completed'[i].ok => completed'[i] = SequentialFrame(i)
    <3>1. CASE aborted
      BY <1>0, <1>5, <3>1 DEF Push, FramesIntact
    <3>2. CASE ~aborted
      BY <1>0, <1>5, <2>1, <3>2 DEF Push, Store, FramesIntact
    <3> QED BY <3>1, <3>2
  <2> QED BY <1>0, <2>1, <2>2, <2>3 DEF FramesIntact, consumer_vars
<1>6. CASE Start
  BY <1>0, <1>6 DEF Start, ConsumerGoto, FramesIntact, buffer_vars
<1>7. CASE Pop
  <2>1. UNCHANGED <<worker_vars, consumed>> /\ Len(consumed) = next_consume
    BY <1>7 DEF Pop, PoolInvariant, ConsumerInStep
  <2>2. \A i \in DOMAIN completed' : i \in DOMAIN completed
                                     /\ completed'[i] = completed[i]
    BY <1>7 DEF Pop
  <2>3. cpc' \in {"release_window", "consume"} /\ cframe'.ok
          => cframe' = SequentialFrame(Len(consumed))
    BY <1>0, <1>7, <2>1 DEF Pop, FramesIntact
  <2> QED BY <1>0, <2>1, <2>2, <2>3 DEF FramesIntact, worker_vars
<1>8. CASE ReleaseWindow
  BY <1>0, <1>8 DEF ReleaseWindow, ConsumerGoto, FramesIntact, buffer_vars,
                    worker_vars
<1>9. CASE \/ LoopHead \/ Consume \/ Recycle \/ Abort \/ WakeAll \/ Join
  <2>1. UNCHANGED worker_vars /\ cpc' \notin {"release_window", "consume"}
    BY <1>9 DEF LoopHead, Consume, Recycle, Abort, WakeAll, Join, ConsumerGoto
  <2>2. \A i \in DOMAIN completed' : i \in DOMAIN completed
                                     /\ completed'[i] = completed[i]
    BY <1>9 DEF LoopHead, Consume, Recycle, Abort, WakeAll, Join, buffer_vars
  <2> QED BY <1>0, <2>1, <2>2 DEF FramesIntact, worker_vars
<1>10. CASE RequestCancellation \/ SpuriousWakeup \/ UNCHANGED vars
  BY <1>0, <1>10 DEF RequestCancellation, SpuriousWakeup, vars, FramesIntact,
                     buffer_vars, worker_vars, consumer_vars
<1> QED BY <1>1, <1>2, <1>3, <1>4, <1>5, <1>6, <1>7, <1>8, <1>9, <1>10
        DEF Next, WorkerStep, ConsumerStep, Returned

(* Consume is the only step that delivers, and it delivers the next frame. *)
LEMMA DeliveredInOrderNext ==
  PoolInvariant /\ [Next]_vars => DeliveredInOrder'
<1> SUFFICES ASSUME PoolInvariant, [Next]_vars PROVE DeliveredInOrder'
  OBVIOUS
<1>1. consumed \in Seq(FrameType) /\ DeliveredInOrder
  BY DEF PoolInvariant, TypeOK
<1>2. CASE consumed' = consumed
  BY <1>1, <1>2 DEF DeliveredInOrder
<1>3. CASE Consume /\ cframe.ok /\ consumed' = Append(consumed, cframe)
  <2>1. cframe = SequentialFrame(Len(consumed)) /\ cframe \in FrameType
    BY <1>3 DEF Consume, PoolInvariant, FramesIntact, TypeOK
  <2>2. /\ Len(consumed') = Len(consumed) + 1
        /\ consumed'[Len(consumed) + 1] = cframe
        /\ \A k \in 1 .. Len(consumed) : consumed'[k] = consumed[k]
    BY <1>1, <1>3, <2>1
  <2>3. Len(consumed) \in Nat
    BY <1>1
  <2> QED BY <1>1, <2>1, <2>2, <2>3 DEF DeliveredInOrder
<1> QED
  <2>1. CASE \E w \in Worker : WorkerStep(w)
    BY <1>2, <2>1 DEF WorkerStep, CheckStop, Claim, BeginFrame, Acquire, RunJob,
                      Push, NotifyConsumer, consumer_vars
  <2>2. CASE Consume
    BY <1>2, <1>3, <2>2 DEF Consume
  <2>3. CASE \/ Start \/ LoopHead \/ Pop \/ ReleaseWindow \/ Recycle \/ Abort
             \/ WakeAll \/ Join
    BY <1>2, <2>3 DEF Start, LoopHead, Pop, ReleaseWindow, Recycle, Abort,
                      WakeAll, Join, consumer_vars
  <2>4. CASE RequestCancellation \/ SpuriousWakeup \/ UNCHANGED vars
    BY <1>2, <2>4 DEF RequestCancellation, SpuriousWakeup, vars, consumer_vars
  <2> QED BY <2>1, <2>2, <2>3, <2>4 DEF Next, ConsumerStep, Returned

(* The invariant holds of every reachable state. *)
THEOREM PoolSafety == Spec => []PoolInvariant
<1>1. Init => PoolInvariant
  BY InvariantInit
<1>2. PoolInvariant /\ [Next]_vars => PoolInvariant'
  BY TypeNext, ClaimsAccountedNext, InsideWindowNext, FramesIntactNext,
     ConsumerInStepNext, ExitsExplainedNext, DeliveredInOrderNext
  DEF PoolInvariant
<1> QED BY <1>1, <1>2, PTL DEF Spec

-------------------------------------------------------------------------------
(* The results a caller of the pool relies on.                             *)

(***************************************************************************)
(* Whatever the number of workers and however they race, the consumer sees *)
(* what a sequential run would have produced, frame by frame.              *)
(***************************************************************************)
THEOREM InOrder == Spec => []DeliveredInOrder
BY PoolSafety, PTL DEF PoolInvariant

(* No index is synthesised twice and none is lost before an abort. *)
THEOREM OnceEach == Spec => []EachFrameOnce
<1>1. PoolInvariant => EachFrameOnce
  <2> SUFFICES ASSUME PoolInvariant PROVE EachFrameOnce
    OBVIOUS
  <2>1. /\ next_claim \in Nat /\ next_consume \in 0 .. FrameCount
        /\ DOMAIN completed \subseteq Frames
        /\ \A w \in Claimed : windex[w] \in Frames
    BY DEF PoolInvariant, TypeOK
  <2>2. ClaimsAccounted
    BY DEF PoolInvariant
  <2>3. ASSUME ~aborted
        PROVE  (0 .. next_claim - 1) \cap Frames
                 = (0 .. next_consume - 1) \cup DOMAIN completed
                     \cup {windex[w] : w \in Claimed}
    BY <2>1, <2>2, <2>3 DEF ClaimsAccounted, Frames
  <2> QED BY <2>2, <2>3 DEF EachFrameOnce, ClaimsAccounted
<1> QED BY <1>1, PoolSafety, PTL

(* The window bounds the frames between synthesis and consumption. *)
THEOREM Window == Spec => []WindowBounded
<1>1. PoolInvariant => WindowBounded
  <2> SUFFICES ASSUME PoolInvariant PROVE WindowBounded
    OBVIOUS
  <2> DEFINE first == next_consume
             last  == next_consume + MaxInFlight - 1
  <2>1. /\ next_consume \in Nat /\ DOMAIN completed \subseteq Frames
        /\ windex \in [Worker -> Nat]
    BY DEF PoolInvariant, TypeOK
  <2>2. InFlight \subseteq first .. last
    BY <2>1 DEF PoolInvariant, InFlight, InsideWindow, InWindow,
                ClaimsAccounted, Synthesising, Claimed, Frames
  <2>3. IsFiniteSet(first .. last) /\ Cardinality(first .. last) = MaxInFlight
    BY <2>1, FS_Interval
  <2>4. Cardinality(InFlight) <= MaxInFlight
    BY <2>2, <2>3, FS_Subset
  <2> QED BY <2>4 DEF WindowBounded
<1> QED BY <1>1, PoolSafety, PTL

(***************************************************************************)
(* The only way to strand the caller: every worker saw a cancellation      *)
(* before claiming the frame the caller is waiting for.                    *)
(***************************************************************************)
THEOREM StrandedRuns == Spec => []StrandedOnlyByCancellation
<1>1. PoolInvariant => StrandedOnlyByCancellation
  <2> SUFFICES ASSUME PoolInvariant, cpc = "pop", AllExited,
                      next_consume \notin DOMAIN completed
               PROVE  cancelled /\ next_consume = next_claim
    BY DEF StrandedOnlyByCancellation, Stranded
  <2>1. /\ next_claim \in Nat /\ next_consume \in Nat
        /\ ~aborted /\ next_consume < FrameCount /\ next_consume <= next_claim
    BY DEF PoolInvariant, TypeOK, PopIsLive, ClaimsAccounted
  <2>2. Claimed = {}
    BY DEF AllExited, Claimed
  <2>3. next_consume = next_claim
    BY <2>1, <2>2 DEF PoolInvariant, ClaimsAccounted, Frames
  <2>4. cancelled
    BY <2>1, <2>3, WorkerAssumption
    DEF PoolInvariant, ExitsExplained, AllExited
  <2> QED BY <2>3, <2>4
<1> QED BY <1>1, PoolSafety, PTL

(* All of it together. *)
THEOREM PoolIsSafe == Spec => []PoolSafe
BY PoolSafety, OnceEach, Window, StrandedRuns, PTL DEF PoolSafe

-------------------------------------------------------------------------------
(* The buffers. Only Acquire makes one, and it does with none free: those in *)
(* existence then are in the window or with the consumer.                    *)

Making == {w \in Worker : wpc[w] \in {"job", "push"}}

LEMMA ImageCardinality ==
  ASSUME NEW S, IsFiniteSet(S), NEW f,
         \A x, y \in S : x # y => f[x] # f[y]
  PROVE  /\ IsFiniteSet({f[x] : x \in S})
         /\ Cardinality({f[x] : x \in S}) = Cardinality(S)
<1> DEFINE T == {f[x] : x \in S}
           g == [x \in S |-> f[x]]
<1>1. g \in Surjection(S, T)
  BY DEF Surjection
<1>2. g \in Injection(S, T)
  <2>1. g \in [S -> T] /\ \A x \in S : g[x] = f[x]
    OBVIOUS
  <2> HIDE DEF g, T
  <2>2. \A x, y \in S : g[x] = g[y] => x = y
    BY <2>1
  <2> QED BY <2>1, <2>2, Zenon DEF Injection, IsInjective
<1> HIDE DEF g, T
<1>3. IsFiniteSet(T) /\ Cardinality(T) = Cardinality(S)
  BY <1>1, <1>2, FS_Surjection
<1> QED BY <1>3 DEF T

LEMMA Counts ==
  TypeOK =>
         /\ IsFiniteSet(Making) /\ Cardinality(Making) \in Nat
         /\ IsFiniteSet(DOMAIN completed) /\ Cardinality(DOMAIN completed) \in Nat
         /\ Len(free_frames) \in Nat /\ HeldByConsumer \in {0, 1}
<1> SUFFICES ASSUME TypeOK
             PROVE  /\ IsFiniteSet(Making) /\ IsFiniteSet(DOMAIN completed)
                    /\ Len(free_frames) \in Nat /\ HeldByConsumer \in {0, 1}
  BY FS_CardinalityType
<1>1. Making \in SUBSET Worker
  BY DEF Making
<1>2. IsFiniteSet(Making)
  BY <1>1, FS_Subset, WorkerAssumption
<1>3. DOMAIN completed \in SUBSET (0 .. FrameCount - 1)
  BY DEF TypeOK, Frames
<1>4. IsFiniteSet(0 .. FrameCount - 1)
  BY FS_Interval
<1>5. IsFiniteSet(DOMAIN completed)
  BY <1>3, <1>4, FS_Subset
<1>6. Len(free_frames) \in Nat /\ HeldByConsumer \in {0, 1}
  BY DEF TypeOK, HeldByConsumer
<1> QED BY <1>2, <1>5, <1>6

LEMMA CountsAfter ==
  TypeOK' =>
         /\ (Cardinality(Making))' \in Nat /\ Cardinality(DOMAIN completed') \in Nat
         /\ Len(free_frames') \in Nat /\ HeldByConsumer' \in {0, 1}
<1>1. TypeOK' => (/\ Cardinality(Making) \in Nat /\ Cardinality(DOMAIN completed) \in Nat
                  /\ Len(free_frames) \in Nat /\ HeldByConsumer \in {0, 1})'
  <2>1. TypeOK => /\ Cardinality(Making) \in Nat /\ Cardinality(DOMAIN completed) \in Nat
                  /\ Len(free_frames) \in Nat /\ HeldByConsumer \in {0, 1}
    BY Counts
  <2> QED BY <2>1, PTL
<1> QED BY <1>1

(* A worker about to acquire finds fewer frames made than the window holds. *)
LEMMA RoomForOne ==
  ASSUME PoolInvariant, NEW w \in Worker, wpc[w] = "acquire"
  PROVE  Cardinality(DOMAIN completed) + Cardinality(Making) < MaxInFlight
<1> DEFINE M == Making \cup {w}
           I == {windex[v] : v \in M}
           D == DOMAIN completed
<1>1. TypeOK /\ ClaimsAccounted /\ InsideWindow /\ windex \in [Worker -> Nat]
  BY DEF PoolInvariant, TypeOK
<1>2. M \subseteq Synthesising /\ M \subseteq Claimed /\ w \notin Making
  BY DEF Making, Synthesising, Claimed
<1>3. IsFiniteSet(M) /\ Cardinality(M) = Cardinality(Making) + 1
  BY <1>1, <1>2, Counts, FS_AddElement
<1>4. \A u, v \in M : u # v => windex[u] # windex[v]
  BY <1>1, <1>2 DEF ClaimsAccounted
<1>5. IsFiniteSet(I) /\ Cardinality(I) = Cardinality(M)
  <2> HIDE DEF M
  <2> QED BY <1>3, <1>4, ImageCardinality
<1>6. D \cap I = {}
  BY <1>1, <1>2 DEF ClaimsAccounted
<1>7. IsFiniteSet(D) /\ Cardinality(D) \in Nat
  BY <1>1, Counts
<1>8. Cardinality(D \cup I) = Cardinality(D) + Cardinality(I)
  <2> HIDE DEF D, I
  <2>1. Cardinality(D \cap I) = 0
    BY <1>6, FS_EmptySet
  <2>2. Cardinality(I) \in Nat
    BY <1>5, FS_CardinalityType
  <2>3. Cardinality(D \cup I) = Cardinality(D) + Cardinality(I) - Cardinality(D \cap I)
    BY ONLY <1>5, <1>7, FS_Union
  <2> QED BY <1>7, <2>1, <2>2, <2>3
<1> DEFINE first == next_consume
           last  == next_consume + MaxInFlight - 1
<1>9. D \cup I \in SUBSET (first .. last)
  BY <1>1, <1>2 DEF InsideWindow, InWindow, ClaimsAccounted, TypeOK, Frames
<1>10. IsFiniteSet(first .. last) /\ Cardinality(first .. last) = MaxInFlight
  <2>1. first \in Int /\ last \in Int /\ last - first + 1 = MaxInFlight /\ first <= last
    BY <1>1, MaxInFlightAssumption DEF TypeOK
  <2> HIDE DEF first, last
  <2> QED BY <2>1, FS_Interval
<1>11. Cardinality(D \cup I) <= MaxInFlight
  <2> HIDE DEF D, I, first, last
  <2> QED BY <1>9, <1>10, FS_Subset
<1>12. Cardinality(Making) \in Nat
  BY <1>1, Counts
<1> HIDE DEF I, M
<1> QED BY <1>3, <1>5, <1>7, <1>8, <1>11, <1>12

LEMMA BuffersInit == Init => BuffersBounded
<1> SUFFICES ASSUME Init PROVE BuffersBounded
  OBVIOUS
<1>1. free_frames = <<>> /\ DOMAIN completed = {} /\ HeldByConsumer = 0
  BY DEF Init, HeldByConsumer
<1>2. Making = {}
  BY DEF Init, Making
<1>3. Len(free_frames) = 0 /\ Cardinality(DOMAIN completed) = 0 /\ Cardinality(Making) = 0
  BY <1>1, <1>2, FS_EmptySet
<1>4. Len(free_frames) + Cardinality(DOMAIN completed) + HeldByConsumer
        + Cardinality(Making) <= PoolCapacity
  BY <1>1, <1>3 DEF PoolCapacity
<1> QED BY <1>4 DEF BuffersBounded, Making

LEMMA BuffersNext ==
  PoolInvariant /\ PoolInvariant' /\ BuffersBounded /\ [Next]_vars => BuffersBounded'
<1> SUFFICES ASSUME PoolInvariant, PoolInvariant', BuffersBounded, [Next]_vars
             PROVE  BuffersBounded'
  OBVIOUS
<1> DEFINE F == Len(free_frames)
           C == Cardinality(DOMAIN completed)
           H == HeldByConsumer
           M == Cardinality(Making)
<1>a. TypeOK /\ TypeOK'
  BY DEF PoolInvariant
<1>b. F \in Nat /\ C \in Nat /\ H \in {0, 1} /\ M \in Nat
  BY <1>a, Counts
<1>c. F' \in Nat /\ C' \in Nat /\ H' \in {0, 1} /\ M' \in Nat
  BY <1>a, CountsAfter
<1>d. F + C + H + M <= MaxInFlight + 1
  BY DEF BuffersBounded, Making, PoolCapacity
<1>e. SUFFICES F' + C' + H' + M' <= MaxInFlight + 1
  BY DEF BuffersBounded, Making, PoolCapacity
<1>f. IsFiniteSet(Making) /\ IsFiniteSet(DOMAIN completed)
  BY <1>a, Counts
<1>g. wpc \in [Worker -> WorkerLocations] /\ free_frames \in Seq(FrameType)
  BY <1>a DEF TypeOK
<1>1. ASSUME NEW w \in Worker, CheckStop(w) \/ Claim(w) \/ BeginFrame(w) \/ NotifyConsumer(w)
      PROVE  F' + C' + H' + M' <= MaxInFlight + 1
  <2>1. UNCHANGED <<free_frames, completed, cpc>>
    BY <1>1 DEF CheckStop, Claim, BeginFrame, NotifyConsumer, buffer_vars, consumer_vars
  <2>2. Making' = Making
    BY <1>1, <1>g DEF CheckStop, Claim, BeginFrame, NotifyConsumer, Goto, Making,
      worker_vars
  <2> QED BY <1>b, <1>d, <2>1, <2>2 DEF HeldByConsumer
<1>2. ASSUME NEW w \in Worker, Acquire(w)
      PROVE  F' + C' + H' + M' <= MaxInFlight + 1
  <2>1. wpc[w] = "acquire" /\ UNCHANGED <<completed, cpc>> /\ wpc' = [wpc EXCEPT ![w] = "job"]
    BY <1>2 DEF Acquire, Goto, buffer_vars, consumer_vars
  <2>2. Making' = Making \cup {w} /\ w \notin Making
    BY <2>1, <1>g DEF Making
  <2>3. M' = M + 1 /\ C' = C /\ H' = H
    BY <2>1, <2>2, <1>f, FS_AddElement DEF HeldByConsumer
  <2>4. CASE free_frames = <<>>
    <3>1. F' = 0
      BY <1>2, <2>4 DEF Acquire
    <3>2. C + M < MaxInFlight
      BY <2>1, RoomForOne
    <3> QED BY <1>b, <2>3, <3>1, <3>2
  <2>5. CASE free_frames # <<>>
    <3>1. free_frames' = SubSeq(free_frames, 1, Len(free_frames) - 1)
      BY <1>2, <2>5 DEF Acquire
    <3>2. F' = F - 1
      BY <3>1, <1>g, <2>5, ShorterFreeList
    <3> QED BY <1>b, <1>d, <2>3, <3>2
  <2> QED BY <2>4, <2>5
<1>3. ASSUME NEW w \in Worker, RunJob(w)
      PROVE  F' + C' + H' + M' <= MaxInFlight + 1
  <2>1. UNCHANGED <<free_frames, completed, cpc>>
    BY <1>3 DEF RunJob, buffer_vars, consumer_vars
  <2>2. Making' = Making
    BY <1>3, <1>g DEF RunJob, Goto, Making
  <2> QED BY <1>b, <1>d, <2>1, <2>2 DEF HeldByConsumer
<1>4. ASSUME NEW w \in Worker, Push(w)
      PROVE  F' + C' + H' + M' <= MaxInFlight + 1
  <2>1. UNCHANGED <<free_frames, cpc>> /\ wpc[w] = "push"
    BY <1>4 DEF Push, Goto, consumer_vars
  <2>2. wpc' = [wpc EXCEPT ![w] = IF aborted THEN "exited" ELSE "notify"]
    BY <1>4 DEF Push, Goto
  <2>3. Making' = Making \ {w} /\ w \in Making
    BY <2>1, <2>2, <1>g DEF Making
  <2>4. M' = M - 1 /\ F' = F /\ H' = H
    BY <2>1, <2>3, <1>f, FS_RemoveElement DEF HeldByConsumer
  <2>5. DOMAIN completed' \in {DOMAIN completed, DOMAIN completed \cup {windex[w]}}
    BY <1>4 DEF Push, Store
  <2>6. C' <= C + 1
    <3>1. Cardinality(DOMAIN completed \cup {windex[w]}) <= C + 1
      <4>1. Cardinality(DOMAIN completed \cup {windex[w]})
              = IF windex[w] \in DOMAIN completed THEN C ELSE C + 1
        BY ONLY <1>f, FS_AddElement
      <4> HIDE DEF C
      <4> QED BY <1>b, <4>1
    <3>2. C <= C + 1
      BY <1>b
    <3> QED BY ONLY <2>5, <3>1, <3>2
  <2> QED BY <1>b, <1>c, <1>d, <2>4, <2>6
<1>5. CASE Start
  <2>1. UNCHANGED <<free_frames, completed>> /\ cpc = "start" /\ cpc' \in {"returned", "loop"}
    BY <1>5 DEF Start, ConsumerGoto, buffer_vars
  <2>2. Making' = {}
    BY <1>5 DEF Start, Making
  <2>3. H' = 0 /\ F' = F /\ C' = C /\ M' = 0
    BY <2>1, <2>2, FS_EmptySet DEF HeldByConsumer
  <2> QED BY <1>b, <1>d, <2>3
<1>6. CASE LoopHead \/ ReleaseWindow \/ WakeAll
  <2>1. UNCHANGED <<free_frames, completed, wpc>>
    BY <1>6 DEF LoopHead, ReleaseWindow, WakeAll, buffer_vars, worker_vars
  <2>2. H' = H
    BY <1>6 DEF LoopHead, ReleaseWindow, WakeAll, ConsumerGoto, HeldByConsumer
  <2> QED BY <1>b, <1>d, <2>1, <2>2 DEF Making
<1>7. CASE Pop
  <2>1. UNCHANGED <<free_frames, wpc>> /\ cpc = "pop"
    BY <1>7 DEF Pop, worker_vars
  <2>2. CASE next_consume \in DOMAIN completed
    <3>1. DOMAIN completed' = DOMAIN completed \ {next_consume} /\ cpc' = "release_window"
      BY <1>7, <2>2 DEF Pop
    <3>2. C' = C - 1 /\ H = 0 /\ H' = 1
      BY <1>f, <2>1, <2>2, <3>1, FS_RemoveElement DEF HeldByConsumer
    <3> QED BY <1>b, <1>d, <2>1, <3>2 DEF Making
  <2>3. CASE next_consume \notin DOMAIN completed
    <3>1. UNCHANGED <<completed, cpc>>
      BY <1>7, <2>3 DEF Pop
    <3> QED BY <1>b, <1>d, <2>1, <3>1 DEF Making, HeldByConsumer
  <2> QED BY <2>2, <2>3
<1>8. CASE Consume
  <2>1. UNCHANGED <<free_frames, completed, wpc>> /\ cpc = "consume"
    BY <1>8 DEF Consume, worker_vars, buffer_vars
  <2>2. H = 1
    BY <2>1 DEF HeldByConsumer
  <2> QED BY <1>b, <1>c, <1>d, <2>1, <2>2 DEF Making
<1>9. CASE Recycle
  <2>1. UNCHANGED <<completed, wpc>> /\ cpc = "recycle" /\ cpc' = "loop"
    BY <1>9 DEF Recycle, ConsumerGoto, worker_vars, buffer_vars
  <2>2. H = 1 /\ H' = 0
    BY <2>1 DEF HeldByConsumer
  <2>3. F' <= F + 1
    BY <1>9, <1>g DEF Recycle
  <2> QED BY <1>b, <1>c, <1>d, <2>1, <2>2, <2>3 DEF Making
<1>10. CASE Abort
  <2>1. /\ UNCHANGED <<free_frames, wpc>> /\ DOMAIN completed' = {}
        /\ cpc = "abort" /\ cpc' = "wake_all"
    BY <1>10 DEF Abort, ConsumerGoto, worker_vars
  <2>2. C' = 0 /\ H' = H
    BY <2>1, FS_EmptySet DEF HeldByConsumer
  <2> QED BY <1>b, <1>d, <2>1, <2>2 DEF Making
<1>11. CASE Join
  <2>1. /\ UNCHANGED <<completed, wpc>> /\ free_frames' = <<>>
        /\ cpc = "join" /\ cpc' = "returned"
    BY <1>11 DEF Join, ConsumerGoto, worker_vars, buffer_vars
  <2>2. F' = 0 /\ H' = H
    BY <2>1 DEF HeldByConsumer
  <2> QED BY <1>b, <1>d, <2>1, <2>2 DEF Making
<1>12. CASE RequestCancellation \/ SpuriousWakeup \/ UNCHANGED vars
  <2>1. UNCHANGED <<free_frames, completed, wpc, cpc>>
    BY <1>12 DEF RequestCancellation, SpuriousWakeup, vars, worker_vars, buffer_vars,
      consumer_vars
  <2> QED BY <1>b, <1>d, <2>1 DEF Making, HeldByConsumer
<1> QED BY <1>1, <1>2, <1>3, <1>4, <1>5, <1>6, <1>7, <1>8, <1>9, <1>10, <1>11, <1>12
  DEF Next, WorkerStep, ConsumerStep, Returned

(* However long the run, no more whole-frame buffers exist than the pool is  *)
(* made for.                                                                 *)
THEOREM MemoryBounded == Spec => []BuffersBounded
<1>1. Init => PoolInvariant /\ BuffersBounded
  BY InvariantInit, BuffersInit
<1>2. PoolInvariant /\ BuffersBounded /\ PoolInvariant' /\ [Next]_vars => BuffersBounded'
  BY BuffersNext
<1> QED BY <1>1, <1>2, PoolSafety, PTL DEF Spec

-------------------------------------------------------------------------------
(* Aborting, and the abstract delivery.                                      *)

(* Nothing is stored or delivered once the exchange is aborted. *)
THEOREM FinalAbort == Spec => AbortIsFinal
<1>1. PoolInvariant /\ PoolInvariant' /\ [Next]_vars
        => [aborted => aborted' /\ DOMAIN completed' = {}
                                /\ consumed' = consumed]_vars
  <2> SUFFICES ASSUME PoolInvariant, PoolInvariant', [Next]_vars, aborted
               PROVE  aborted' /\ DOMAIN completed' = {} /\ consumed' = consumed
    OBVIOUS
  <2>1. cpc \in {"wake_all", "join", "returned"}
    BY DEF PoolInvariant, ConsumerInStep
  <2>2. aborted' /\ consumed' = consumed
    BY <2>1 DEF Next, WorkerStep, CheckStop, Claim, BeginFrame, Acquire, RunJob,
                Push, NotifyConsumer, ConsumerStep, Start, LoopHead, Pop,
                ReleaseWindow, Consume, Recycle, Abort, WakeAll, Join,
                ConsumerGoto, RequestCancellation, SpuriousWakeup, Returned,
                vars, buffer_vars, consumer_vars
  <2>3. DOMAIN completed' = {}
    BY <2>2 DEF PoolInvariant, ConsumerInStep
  <2> QED BY <2>2, <2>3
<1> QED BY <1>1, PoolSafety, PTL DEF Spec, AbortIsFinal

(***************************************************************************)
(* A run of the pool is an ordered delivery: a consumed frame is a Deliver *)
(* step, the return is Complete or Stop, and all else stutters.            *)
(***************************************************************************)
THEOREM Refinement == Spec => ImplementsOrderedDelivery
<1> DEFINE delivered == [k \in 1 .. Len(consumed) |-> consumed[k].samples]
<1>1. Init => Delivery!Init
  BY DEF Init, Delivery!Init
<1>2. ASSUME PoolInvariant
      PROVE  /\ delivered \in Seq(Content)
             /\ Len(delivered) = Len(consumed)
  <2>1. consumed \in Seq(FrameType) /\ Len(consumed) \in Nat
    BY <1>2 DEF PoolInvariant, TypeOK
  <2>2. \A k \in 1 .. Len(consumed) : consumed[k] \in FrameType
    BY <2>1
  <2>3. \A f \in FrameType : f.samples \in Content
    BY DEF FrameType
  <2> QED BY <2>1, <2>2, <2>3
<1>3. PoolInvariant /\ PoolInvariant' /\ [Next]_vars
        => [Delivery!Next]_Delivery!vars
  <2> SUFFICES ASSUME PoolInvariant, PoolInvariant', [Next]_vars
               PROVE  [Delivery!Next]_Delivery!vars
    OBVIOUS
  <2>0. /\ Len(consumed) \in Nat /\ next_consume \in 0 .. FrameCount
        /\ consumed \in Seq(FrameType) /\ ConsumerInStep /\ cframe \in FrameType
        /\ run_ok \in BOOLEAN
    BY DEF PoolInvariant, TypeOK
  <2>1. ASSUME UNCHANGED <<consumed, run_ok>>,
               cpc' = cpc \/ "returned" \notin {cpc, cpc'}
        PROVE  UNCHANGED Delivery!vars
    BY <2>1 DEF Delivery!vars, Returns
  <2>2. CASE Consume /\ cframe.ok /\ consumed' = Append(consumed, cframe)
                     /\ cpc' = "recycle"
    <3>1. cpc = "consume" /\ Len(consumed) < FrameCount
      BY <2>0, <2>2 DEF Consume, ConsumerInStep
    <3>2. cframe.samples = Len(delivered)
      BY <1>2, <2>2, <3>1
      DEF PoolInvariant, FramesIntact, SequentialFrame
    <3>3. Len(delivered) = Len(consumed) /\ Len(delivered') = Len(delivered) + 1
      BY <1>2, <2>0, <2>2
    <3>4. \A k \in 1 .. Len(delivered') :
            delivered'[k] = Append(delivered, Len(delivered))[k]
      BY <1>2, <2>0, <2>2, <3>2, <3>3
    <3>5. delivered' = Append(delivered, Len(delivered))
      BY <1>2, <2>0, <2>2, <3>2, <3>3, <3>4
    <3> QED BY <2>2, <3>1, <3>3, <3>5 DEF Delivery!Next, Delivery!Deliver
  <2>3. CASE Consume /\ consumed' = consumed /\ cpc' = "abort"
    BY <2>3 DEF Consume, Delivery!vars, Returns
  <2>4. CASE Start
    <3>1. cpc = "start" /\ run_ok /\ Len(consumed) = next_consume
          /\ consumed' = consumed /\ run_ok' = run_ok
      BY <2>0, <2>4 DEF Start, ConsumerGoto, ConsumerInStep
    <3>2. CASE FrameCount = 0
      <4>1. cpc # "returned" /\ cpc' = "returned" /\ Len(consumed) = FrameCount
        BY <2>0, <2>4, <3>1, <3>2 DEF Start, ConsumerGoto
      <4>2. Delivery!Next
        BY <3>1, <4>1 DEF Delivery!Next, Delivery!Complete, Returns
      <4> QED BY <4>2
    <3>3. CASE FrameCount # 0
      BY <2>1, <2>4, <3>1, <3>3 DEF Start, ConsumerGoto
    <3> QED BY <3>2, <3>3
  <2>5. CASE Join
    <3>1. /\ cpc = "join" /\ cpc' = "returned"
          /\ consumed' = consumed /\ run_ok' = run_ok
      BY <2>5 DEF Join, ConsumerGoto
    <3>2. CASE run_ok
      <4>1. Len(consumed) = FrameCount
        BY <2>0, <3>1, <3>2 DEF ConsumerInStep
      <4> QED BY <3>1, <3>2, <4>1
              DEF Delivery!Next, Delivery!Complete, Returns
    <3>3. CASE ~run_ok
      <4>1. Len(consumed) < FrameCount
        BY <2>0, <3>1, <3>3 DEF ConsumerInStep
      <4> QED BY <3>1, <3>3, <4>1 DEF Delivery!Next, Delivery!Stop, Returns
    <3> QED BY <3>2, <3>3
  <2>6. CASE \/ LoopHead \/ Pop \/ ReleaseWindow \/ Recycle \/ Abort \/ WakeAll
    <3>1. UNCHANGED consumed /\ "returned" \notin {cpc, cpc'}
      BY <2>6 DEF LoopHead, Pop, ReleaseWindow, Recycle, Abort, WakeAll,
                  ConsumerGoto
    <3> QED BY <3>1 DEF Delivery!vars
  <2>7. CASE \/ \E w \in Worker : WorkerStep(w)
             \/ RequestCancellation \/ SpuriousWakeup \/ UNCHANGED vars
    <3>1. UNCHANGED <<consumed, run_ok, cpc>>
      BY <2>7 DEF WorkerStep, CheckStop, Claim, BeginFrame, Acquire, RunJob,
                  Push, NotifyConsumer, RequestCancellation, SpuriousWakeup,
                  vars, consumer_vars
    <3> QED BY <2>1, <3>1
  <2> QED BY <2>2, <2>3, <2>4, <2>5, <2>6, <2>7
          DEF Next, ConsumerStep, Returned, Consume
<1> QED BY <1>1, <1>3, PoolSafety, PTL
        DEF Spec, ImplementsOrderedDelivery, Delivery!Spec
===============================================================================
