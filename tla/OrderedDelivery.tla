--------------------------- MODULE OrderedDelivery ---------------------------
(***************************************************************************)
(* What a frame synthesis run promises its caller, with no threads in it:  *)
(* the consumer callback receives frames 0, 1, 2, ... one at a time, and   *)
(* the run returns TRUE exactly when it has received every one of them.    *)
(* This is the contract of FrameSynthesisPool::RunOrdered in               *)
(* frame_synthesis_pool.h; module FrameSynthesisPool implements it, and    *)
(* module PipelineRun is written against it.                               *)
(***************************************************************************)
EXTENDS Naturals, Sequences

CONSTANT FrameCount   \* frame_count, the number of frames of the run

VARIABLES
  delivered,   \* the frames the consumer callback has accepted, oldest first
  result       \* "running", then what RunOrdered returns: "true" or "false"

vars == <<delivered, result>>

Init == delivered = <<>> /\ result = "running"

(* The consumer accepts the next frame in order. *)
Deliver ==
  /\ result = "running"
  /\ Len(delivered) < FrameCount
  /\ delivered' = Append(delivered, Len(delivered))
  /\ UNCHANGED result

(* Every frame was consumed. *)
Complete ==
  /\ result = "running"
  /\ Len(delivered) = FrameCount
  /\ result' = "true"
  /\ UNCHANGED delivered

(* Cancellation, a failed job or a failed consumer stops the run early. *)
Stop ==
  /\ result = "running"
  /\ Len(delivered) < FrameCount
  /\ result' = "false"
  /\ UNCHANGED delivered

Next == Deliver \/ Complete \/ Stop

Spec == Init /\ [][Next]_vars
==============================================================================
