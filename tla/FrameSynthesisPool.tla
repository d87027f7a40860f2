-------------------------- MODULE FrameSynthesisPool --------------------------
(***************************************************************************)
(* FrameSynthesisPool::RunOrdered with the OrderedFrameReassemblyBuffer    *)
(* and the FrameBufferPool it owns: worker threads claim frame indices,    *)
(* synthesise them out of order inside a bounded window, and the calling   *)
(* thread consumes them in order.                                          *)
(*                                                                         *)
(* One action is one critical section, one atomic access or one            *)
(* notification of the code, so every interleaving of the threads is a     *)
(* behaviour. A condition variable is the set of threads blocked on it.    *)
(***************************************************************************)
EXTENDS Integers, Sequences, FiniteSets

CONSTANTS
  Worker,          \* the worker threads; thread_count_ is their number
  FrameCount,      \* frame_count
  MaxInFlight,     \* max_in_flight_; RunOrdered's is twice the workers
  Cancellable,     \* whether another thread may request cancellation
  JobsMayFail,     \* whether a job may fail or throw
  ConsumerMayFail, \* whether the consumer callback may return false
  None             \* the content of a buffer no job has written yet

ASSUME WorkerAssumption      == IsFiniteSet(Worker) /\ Worker # {}
ASSUME FrameCountAssumption  == FrameCount \in Nat
ASSUME MaxInFlightAssumption == MaxInFlight \in Nat \ {0}
ASSUME SwitchAssumption      == /\ Cancellable \in BOOLEAN
                                /\ JobsMayFail \in BOOLEAN
                                /\ ConsumerMayFail \in BOOLEAN
ASSUME NoneAssumption        == None \notin Nat

Frames == 0 .. FrameCount - 1

(***************************************************************************)
(* A SynthesizedFrame: which frame its sample and code buffers hold, the   *)
(* frames its dropout rows belong to, and whether its job succeeded.       *)
(***************************************************************************)
Content   == Frames \cup {None}
FrameType == [samples : Content, rows : Seq(Frames), ok : BOOLEAN]
NewFrame  == [samples |-> None, rows |-> <<>>, ok |-> TRUE]

(* FrameBufferPool's capacity: the window plus the frame being consumed. *)
PoolCapacity == MaxInFlight + 1

VARIABLES
  next_claim,        \* the atomic counter workers claim indices from
  next_consume,      \* next_consume_index_ of the reassembly buffer
  completed,         \* completed_frames_: a function from index to frame
  aborted,           \* aborted_
  free_frames,       \* the free list of the buffer pool, last in first out
  producer_waiting,  \* workers blocked on producer_cv_
  consumer_waiting,  \* whether the caller is blocked on consumer_cv_
  wpc, windex, wframe,      \* per worker: location, claimed index, frame held
  cpc, cframe, run_ok,      \* the caller: location, frame held, run_ok
  consumed,          \* what the consumer callback accepted, oldest first
  cancelled          \* the CancellationToken

buffer_vars   == <<next_consume, completed, aborted>>
waiting_vars  == <<producer_waiting, consumer_waiting>>
worker_vars   == <<wpc, windex, wframe>>
consumer_vars == <<cpc, cframe, run_ok, consumed>>
vars == <<next_claim, buffer_vars, free_frames, waiting_vars, worker_vars,
          consumer_vars, cancelled>>

WorkerLocations ==
  {"absent", "check", "claim", "begin", "acquire", "job", "push", "notify",
   "exited"}
ConsumerLocations ==
  {"start", "loop", "pop", "release_window", "consume", "recycle", "abort",
   "wake_all", "join", "returned"}

Init ==
  /\ next_claim = 0
  /\ next_consume = 0 /\ completed = [i \in {} |-> NewFrame] /\ aborted = FALSE
  /\ free_frames = <<>>
  /\ producer_waiting = {} /\ consumer_waiting = FALSE
  /\ wpc = [w \in Worker |-> "absent"]
  /\ windex = [w \in Worker |-> 0]
  /\ wframe = [w \in Worker |-> NewFrame]
  /\ cpc = "start" /\ cframe = NewFrame /\ run_ok = TRUE /\ consumed = <<>>
  /\ cancelled = FALSE

-------------------------------------------------------------------------------
(* The worker loop.                                                        *)

Goto(w, from, to) == wpc[w] = from /\ wpc' = [wpc EXCEPT ![w] = to]

(* Both flags are read in one step: each only ever goes from false to true. *)
CheckStop(w) ==
  /\ Goto(w, "check", IF aborted \/ cancelled THEN "exited" ELSE "claim")
  /\ UNCHANGED <<next_claim, buffer_vars, free_frames, waiting_vars, windex,
                 wframe, consumer_vars, cancelled>>

Claim(w) ==
  /\ Goto(w, "claim", IF next_claim >= FrameCount THEN "exited" ELSE "begin")
  /\ windex' = [windex EXCEPT ![w] = next_claim]
  /\ next_claim' = next_claim + 1
  /\ UNCHANGED <<buffer_vars, free_frames, waiting_vars, wframe,
                 consumer_vars, cancelled>>

InWindow(i) == i < next_consume + MaxInFlight

(* BeginFrame: return when aborted or inside the window, otherwise block. *)
BeginFrame(w) ==
  /\ w \notin producer_waiting
  /\ \/ /\ aborted
        /\ Goto(w, "begin", "exited")
        /\ UNCHANGED producer_waiting
     \/ /\ ~aborted /\ InWindow(windex[w])
        /\ Goto(w, "begin", "acquire")
        /\ UNCHANGED producer_waiting
     \/ /\ ~aborted /\ ~InWindow(windex[w])
        /\ wpc[w] = "begin"
        /\ producer_waiting' = producer_waiting \cup {w}
        /\ UNCHANGED wpc
  /\ UNCHANGED <<next_claim, buffer_vars, free_frames, consumer_waiting,
                 windex, wframe, consumer_vars, cancelled>>

(* Mutant: a recycled frame keeps the dropout rows of its last use. *)
RecycledWithRows(frame) ==
  [samples |-> frame.samples, rows |-> frame.rows, ok |-> TRUE]

(* FrameBufferPool::Acquire keeps the buffers and clears the result fields. *)
Recycled(frame) == [samples |-> frame.samples, rows |-> <<>>, ok |-> TRUE]

(* Mutant: a worker allocates a frame although one is free. *)
AcquireFresh(w) ==
  /\ Goto(w, "acquire", "job")
  /\ wframe' = [wframe EXCEPT ![w] = NewFrame]
  /\ UNCHANGED <<next_claim, buffer_vars, free_frames, waiting_vars, windex,
                 consumer_vars, cancelled>>

Acquire(w) ==
  /\ Goto(w, "acquire", "job")
  /\ IF free_frames = <<>>
       THEN /\ wframe' = [wframe EXCEPT ![w] = NewFrame]
            /\ UNCHANGED free_frames
       ELSE LET last == Len(free_frames) IN
            /\ wframe' = [wframe EXCEPT ![w] = Recycled(free_frames[last])]
            /\ free_frames' = SubSeq(free_frames, 1, last - 1)
  /\ UNCHANGED <<next_claim, buffer_vars, waiting_vars, windex,
                 consumer_vars, cancelled>>

(***************************************************************************)
(* The job. A good one rewrites the samples and appends this frame's       *)
(* dropout rows. A failed or throwing one leaves the frame marked; what is *)
(* in its buffers then no longer matters, a failed frame ends the run.     *)
(***************************************************************************)
JobDone(frame, i) ==
  [samples |-> i, rows |-> Append(frame.rows, i), ok |-> frame.ok]
JobFailed(frame) ==
  [samples |-> frame.samples, rows |-> frame.rows, ok |-> FALSE]

RunJob(w) ==
  /\ Goto(w, "job", "push")
  /\ \/ wframe' = [wframe EXCEPT ![w] = JobDone(@, windex[w])]
     \/ JobsMayFail /\ wframe' = [wframe EXCEPT ![w] = JobFailed(@)]
  /\ UNCHANGED <<next_claim, buffer_vars, free_frames, waiting_vars, windex,
                 consumer_vars, cancelled>>

Store(i, frame) ==
  [j \in DOMAIN completed \cup {i} |-> IF j = i THEN frame ELSE completed[j]]

Push(w) ==
  /\ Goto(w, "push", IF aborted THEN "exited" ELSE "notify")
  /\ completed' = IF aborted THEN completed ELSE Store(windex[w], wframe[w])
  /\ wframe' = [wframe EXCEPT ![w] = NewFrame]
  /\ UNCHANGED <<next_claim, next_consume, aborted, free_frames, waiting_vars,
                 windex, consumer_vars, cancelled>>

(* consumer_cv_.notify_one, after the lock is dropped. *)
NotifyConsumer(w) ==
  /\ Goto(w, "notify", "check")
  /\ consumer_waiting' = FALSE
  /\ UNCHANGED <<next_claim, buffer_vars, free_frames, producer_waiting,
                 windex, wframe, consumer_vars, cancelled>>

WorkerStep(w) ==
  \/ CheckStop(w) \/ Claim(w) \/ BeginFrame(w) \/ Acquire(w)
  \/ RunJob(w) \/ Push(w) \/ NotifyConsumer(w)

-------------------------------------------------------------------------------
(* The calling thread.                                                     *)

ConsumerGoto(from, to) == cpc = from /\ cpc' = to

(* No frames: return at once, without a thread. Otherwise start them all.   *)
Start ==
  /\ ConsumerGoto("start", IF FrameCount = 0 THEN "returned" ELSE "loop")
  /\ wpc' = [w \in Worker |-> IF FrameCount = 0 THEN "absent" ELSE "check"]
  /\ UNCHANGED <<next_claim, buffer_vars, free_frames, waiting_vars, windex,
                 wframe, cframe, run_ok, consumed, cancelled>>

(* The head of the consume loop: the loop condition, then the token. *)
LoopHead ==
  /\ cpc = "loop"
  /\ \/ Len(consumed) = FrameCount /\ cpc' = "abort" /\ UNCHANGED run_ok
     \/ /\ Len(consumed) < FrameCount
        /\ cpc' = IF cancelled THEN "abort" ELSE "pop"
        /\ run_ok' = (run_ok /\ ~cancelled)
  /\ UNCHANGED <<next_claim, buffer_vars, free_frames, waiting_vars,
                 worker_vars, cframe, consumed, cancelled>>

(* Mutant: Pop takes any frame that is ready. *)
PopAnyReady ==
  /\ cpc = "pop" /\ ~consumer_waiting
  /\ \/ \E i \in DOMAIN completed :
          /\ cframe' = completed[i]
          /\ completed' = [j \in DOMAIN completed \ {i} |-> completed[j]]
          /\ next_consume' = next_consume + 1
          /\ cpc' = "release_window"
          /\ UNCHANGED consumer_waiting
     \/ /\ completed = [j \in {} |-> NewFrame]
        /\ consumer_waiting' = TRUE
        /\ UNCHANGED <<cframe, completed, next_consume, cpc>>
  /\ UNCHANGED <<next_claim, aborted, free_frames, producer_waiting,
                 worker_vars, run_ok, consumed, cancelled>>

(***************************************************************************)
(* Pop takes the next frame in order, or blocks until it has been pushed.  *)
(* Its two other outcomes, all frames delivered and aborted, cannot arise  *)
(* here: invariant PopIsLive.                                              *)
(***************************************************************************)
Pop ==
  /\ cpc = "pop" /\ ~consumer_waiting
  /\ IF next_consume \in DOMAIN completed
       THEN /\ cframe' = completed[next_consume]
            /\ completed' = [j \in DOMAIN completed \ {next_consume} |->
                               completed[j]]
            /\ next_consume' = next_consume + 1
            /\ cpc' = "release_window"
            /\ UNCHANGED consumer_waiting
       ELSE /\ consumer_waiting' = TRUE
            /\ UNCHANGED <<cframe, completed, next_consume, cpc>>
  /\ UNCHANGED <<next_claim, aborted, free_frames, producer_waiting,
                 worker_vars, run_ok, consumed, cancelled>>

(* Mutant: Pop does not wake the workers the window held back. *)
ReleaseNobody ==
  /\ ConsumerGoto("release_window", "consume")
  /\ UNCHANGED <<next_claim, buffer_vars, free_frames, waiting_vars,
                 worker_vars, cframe, run_ok, consumed, cancelled>>

(* producer_cv_.notify_all, after Pop has dropped the lock. *)
ReleaseWindow ==
  /\ ConsumerGoto("release_window", "consume")
  /\ producer_waiting' = {}
  /\ UNCHANGED <<next_claim, buffer_vars, free_frames, consumer_waiting,
                 worker_vars, cframe, run_ok, consumed, cancelled>>

(* A failed frame ends the run; a good one goes to the consumer callback. *)
Consume ==
  /\ cpc = "consume"
  /\ \/ /\ cframe.ok
        /\ consumed' = Append(consumed, cframe)
        /\ cpc' = "recycle"
        /\ UNCHANGED run_ok
     \/ /\ ~cframe.ok \/ ConsumerMayFail
        /\ run_ok' = FALSE
        /\ cpc' = "abort"
        /\ UNCHANGED consumed
  /\ UNCHANGED <<next_claim, buffer_vars, free_frames, waiting_vars,
                 worker_vars, cframe, cancelled>>

(* FrameBufferPool::Release keeps the frame unless the list is full. *)
Recycle ==
  /\ ConsumerGoto("recycle", "loop")
  /\ free_frames' = IF Len(free_frames) >= PoolCapacity THEN free_frames
                    ELSE Append(free_frames, cframe)
  /\ cframe' = NewFrame
  /\ UNCHANGED <<next_claim, buffer_vars, waiting_vars, worker_vars, run_ok,
                 consumed, cancelled>>

Abort ==
  /\ ConsumerGoto("abort", "wake_all")
  /\ aborted' = TRUE
  /\ completed' = [i \in {} |-> NewFrame]
  /\ UNCHANGED <<next_claim, next_consume, free_frames, waiting_vars,
                 worker_vars, cframe, run_ok, consumed, cancelled>>

WakeAll ==
  /\ ConsumerGoto("wake_all", "join")
  /\ producer_waiting' = {} /\ consumer_waiting' = FALSE
  /\ UNCHANGED <<next_claim, buffer_vars, free_frames, worker_vars, cframe,
                 run_ok, consumed, cancelled>>

(* Joins every worker, frees the recycled frames and returns. *)
Join ==
  /\ \A w \in Worker : wpc[w] = "exited"
  /\ ConsumerGoto("join", "returned")
  /\ free_frames' = <<>>
  /\ UNCHANGED <<next_claim, buffer_vars, waiting_vars, worker_vars, cframe,
                 run_ok, consumed, cancelled>>

ConsumerStep ==
  \/ Start \/ LoopHead \/ Pop \/ ReleaseWindow \/ Consume \/ Recycle
  \/ Abort \/ WakeAll \/ Join

-------------------------------------------------------------------------------
(* The environment.                                                        *)

(* CancellationToken::RequestCancellation, from any other thread. *)
RequestCancellation ==
  /\ Cancellable /\ ~cancelled /\ cpc # "returned"
  /\ cancelled' = TRUE
  /\ UNCHANGED <<next_claim, buffer_vars, free_frames, waiting_vars,
                 worker_vars, consumer_vars>>

(* A condition variable may wake a thread nobody notified. *)
SpuriousWakeup ==
  /\ \/ /\ \E w \in producer_waiting :
             producer_waiting' = producer_waiting \ {w}
        /\ UNCHANGED consumer_waiting
     \/ /\ consumer_waiting /\ consumer_waiting' = FALSE
        /\ UNCHANGED producer_waiting
  /\ UNCHANGED <<next_claim, buffer_vars, free_frames, worker_vars,
                 consumer_vars, cancelled>>

(* RunOrdered has returned: the run is over and nothing more happens. *)
Returned == cpc = "returned" /\ UNCHANGED vars

Next ==
  \/ \E w \in Worker : WorkerStep(w)
  \/ ConsumerStep
  \/ RequestCancellation
  \/ SpuriousWakeup
  \/ Returned

Spec == Init /\ [][Next]_vars

(***************************************************************************)
(* The operating system runs every thread that is not blocked, and jobs    *)
(* and the consumer callback return. Nothing forces a cancellation or a    *)
(* spurious wakeup.                                                        *)
(***************************************************************************)
Fairness == WF_vars(ConsumerStep) /\ \A w \in Worker : WF_vars(WorkerStep(w))

FairSpec == Spec /\ Fairness
===============================================================================
