------------------------ MODULE FrameSynthesisPoolProps ------------------------
(***************************************************************************)
(* What FrameSynthesisPool promises: the properties of                     *)
(* frame_synthesis_pool.h, stated over the model of the code.              *)
(***************************************************************************)
EXTENDS FrameSynthesisPool

(* Workers that have claimed a frame and have not pushed it yet. *)
Claimed      == {w \in Worker : wpc[w] \in {"begin", "acquire", "job", "push"}}
Synthesising == {w \in Worker : wpc[w] \in {"acquire", "job", "push"}}

(* Types; an index in use is the index of a frame. *)
TypeOK ==
  /\ next_claim \in Nat /\ next_consume \in 0 .. FrameCount
  /\ DOMAIN completed \subseteq Frames
  /\ completed \in [DOMAIN completed -> FrameType]
  /\ aborted \in BOOLEAN /\ cancelled \in BOOLEAN /\ run_ok \in BOOLEAN
  /\ free_frames \in Seq(FrameType) /\ consumed \in Seq(FrameType)
  /\ producer_waiting \subseteq Worker /\ consumer_waiting \in BOOLEAN
  /\ wpc \in [Worker -> WorkerLocations]
  /\ windex \in [Worker -> Nat] /\ wframe \in [Worker -> FrameType]
  /\ \A w \in Claimed : windex[w] \in Frames
  /\ cpc \in ConsumerLocations /\ cframe \in FrameType

(***************************************************************************)
(* Frames claimed out of order by racing workers, with recycled buffers,   *)
(* reach the consumer in strict order, each with its own samples and only  *)
(* its own dropout rows: what a sequential run delivers.                   *)
(***************************************************************************)
SequentialFrame(i) == [samples |-> i, rows |-> <<i>>, ok |-> TRUE]
DeliveredInOrder ==
  \A k \in 1 .. Len(consumed) : consumed[k] = SequentialFrame(k - 1)

(* No frame is synthesised twice or by two workers, and none is dropped. *)
EachFrameOnce ==
  /\ \A v, w \in Claimed : v # w => windex[v] # windex[w]
  /\ \A w \in Claimed : windex[w] \notin DOMAIN completed
  /\ ~aborted => (0 .. next_claim - 1) \cap Frames
                   = (0 .. next_consume - 1) \cup DOMAIN completed
                       \cup {windex[w] : w \in Claimed}

(***************************************************************************)
(* The window: at most MaxInFlight frames exist between the start of their *)
(* synthesis and their consumption, however far ahead workers claim.       *)
(***************************************************************************)
InFlight == DOMAIN completed \cup {windex[w] : w \in Synthesising}
WindowBounded == Cardinality(InFlight) <= MaxInFlight

(***************************************************************************)
(* The buffers: recycling keeps the number of whole-frame buffers in       *)
(* existence at the window plus the one the consumer holds, so the free    *)
(* list never has to drop one.                                             *)
(***************************************************************************)
HeldByConsumer == IF cpc \in {"release_window", "consume", "recycle"}
                  THEN 1 ELSE 0
BuffersBounded ==
  Len(free_frames) + Cardinality(DOMAIN completed) + HeldByConsumer
    + Cardinality({w \in Worker : wpc[w] \in {"job", "push"}}) <= PoolCapacity

(* Pop is only entered while its frame is still to come. *)
PopIsLive == cpc = "pop" => ~aborted /\ next_consume < FrameCount

(***************************************************************************)
(* The caller can be left waiting for a frame no worker will push only     *)
(* when a cancellation arrived while every claimed frame had already been  *)
(* delivered: job failures and blocked producers alone never strand it.    *)
(***************************************************************************)
AllExited == \A w \in Worker : wpc[w] = "exited"
Stranded ==
  cpc = "pop" /\ AllExited /\ next_consume \notin DOMAIN completed
StrandedOnlyByCancellation ==
  Stranded => cancelled /\ next_consume = next_claim

(***************************************************************************)
(* The inductive invariant behind the safety properties: where each index  *)
(* below next_claim is, and what every held frame contains.                *)
(***************************************************************************)
ClaimsAccounted ==
  /\ next_consume <= next_claim
  /\ \A w \in Claimed : windex[w] \in next_consume .. next_claim - 1
  /\ \A i \in DOMAIN completed : i \in next_consume .. next_claim - 1
  /\ \A v, w \in Claimed : v # w => windex[v] # windex[w]
  /\ \A w \in Claimed : windex[w] \notin DOMAIN completed
  /\ ~aborted => \A i \in next_consume .. next_claim - 1 :
       i \in Frames => \/ i \in DOMAIN completed
                       \/ \E w \in Claimed : windex[w] = i
InsideWindow ==
  /\ \A w \in Synthesising : InWindow(windex[w])
  /\ \A i \in DOMAIN completed : InWindow(i)
FramesIntact ==
  /\ \A w \in Worker : wpc[w] = "job" => wframe[w].ok /\ wframe[w].rows = <<>>
  /\ \A w \in Worker : wpc[w] = "push" /\ wframe[w].ok
                         => wframe[w] = SequentialFrame(windex[w])
  /\ \A i \in DOMAIN completed : completed[i].ok
                                  => completed[i] = SequentialFrame(i)
  /\ cpc \in {"release_window", "consume"} /\ cframe.ok
       => cframe = SequentialFrame(Len(consumed))
ConsumerInStep ==
  /\ cpc \in {"start", "loop", "pop", "recycle"} => Len(consumed) = next_consume
  /\ cpc \in {"release_window", "consume"} => Len(consumed) + 1 = next_consume
  /\ cpc = "recycle" => cframe.ok
  /\ aborted => cpc \in {"wake_all", "join", "returned"} /\ DOMAIN completed = {}
  /\ cpc \in {"wake_all", "join"} => aborted
  /\ cpc \in {"abort", "wake_all", "join", "returned"}
       => Len(consumed) = FrameCount \/ ~run_ok
  /\ cpc \notin {"abort", "wake_all", "join", "returned"} => run_ok
  /\ ~run_ok => Len(consumed) < FrameCount
  /\ cpc = "start" => \A w \in Worker : wpc[w] = "absent"
ExitsExplained ==
  \A w \in Worker : wpc[w] = "exited" /\ ~aborted
                     => cancelled \/ next_claim >= FrameCount
PoolInvariant ==
  /\ TypeOK /\ ClaimsAccounted /\ InsideWindow /\ FramesIntact
  /\ ConsumerInStep /\ ExitsExplained /\ DeliveredInOrder /\ PopIsLive

(***************************************************************************)
(* RunOrdered over any interleaving of its threads, failing jobs, refused  *)
(* frames and cancellations: the frames in order, each once and intact, in *)
(* a bounded window, and a caller that is left waiting by one cause only.  *)
(***************************************************************************)
PoolSafe == PoolInvariant /\ EachFrameOnce /\ WindowBounded /\ StrandedOnlyByCancellation

(* Once aborted the exchange stays empty and nothing more is delivered. *)
AbortIsFinal ==
  [][aborted => aborted' /\ DOMAIN completed' = {} /\ consumed' = consumed]_vars

(* RunOrdered's return value. *)
Returns == run_ok /\ Len(consumed) = FrameCount

(* The run is an ordered delivery as its caller understands it. *)
Delivery == INSTANCE OrderedDelivery WITH
  delivered <- [k \in 1 .. Len(consumed) |-> consumed[k].samples],
  result <- IF cpc # "returned" THEN "running"
            ELSE IF Returns THEN "true" ELSE "false"
ImplementsOrderedDelivery == Delivery!Spec

(***************************************************************************)
(* Whichever jobs or callbacks fail and whenever a cancellation comes, the *)
(* run returns unless it is left stranded. With the invariant above, every *)
(* run nobody cancels returns, and so does every run that aborts.          *)
(***************************************************************************)
RunReturns == <>(cpc = "returned" \/ Stranded)

(***************************************************************************)
(* frame_synthesis_pool.h: "Stops early and returns false when:            *)
(* cancellation is requested".                                             *)
(***************************************************************************)
CancellationStopsRun == cancelled ~> cpc = "returned"
===============================================================================
