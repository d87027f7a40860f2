-------------------------- MODULE PreviewFrameService --------------------------
(***************************************************************************)
(* gui/preview_frame_service.cpp: single frames synthesised on a worker    *)
(* thread for the preview, with latest-wins coalescing and a small cache.  *)
(*                                                                         *)
(* Everything but the two worker steps runs on the GUI thread. A signal    *)
(* runs the slots connected to it before it returns, and a slot may call   *)
(* the service again, so the GUI thread's remaining work is kept as a      *)
(* stack of calls and one action runs the call on top of it. The worker    *)
(* runs between any two calls. Module PreviewPane is the client.           *)
(***************************************************************************)
EXTENDS Integers, Sequences

CONSTANTS
  Projects,         \* the contents a project snapshot can have
  OutputFrames,     \* frames of each project's schedule; 0 for an invalid one
  Capacity,         \* cache_capacity_
  SynthesisMayFail, \* whether the synthesis of a frame may fail
  None

ASSUME OutputFramesAssumption == OutputFrames \in [Projects -> Nat]
ASSUME CapacityAssumption     == Capacity \in Nat \ {0}

Content == Projects \cup {None}
Frame   == [revision : Nat, index : Nat, content : Projects]
Workers == [revision : Nat, index : Nat, snapshot : Projects, context : Content]

ASSUME NoneAssumption ==
  /\ None \notin Projects /\ None \notin Nat
  /\ None \notin Frame /\ None \notin Workers

VARIABLES
  project,    \* project_, None until has_project_
  revision,   \* revision_
  context,    \* schedule_context_ and schedule_info_: the project they are of
  pending,    \* pending_request_
  active,     \* worker_active_
  worker,     \* the running worker thread, None when it has ended
  posted,     \* calls the worker has queued to the GUI thread, oldest first
  cache,      \* cache_, most recently used first
  calls       \* the GUI thread's call stack, top first

service_vars == <<project, revision, context, pending, active, worker, posted,
                  cache>>

Call(op, arg)  == <<[op |-> op, arg |-> arg]>>
Top(op)        == calls # <<>> /\ calls[1].op = op
Argument       == calls[1].arg
(* The call on top returns, after the calls it makes itself. *)
Return(nested) == calls' = nested \o Tail(calls)

ServiceInit ==
  /\ project = None /\ revision = 0 /\ context = None
  /\ pending = None /\ active = FALSE /\ worker = None /\ posted = <<>>
  /\ cache = <<>> /\ calls = <<>>

-------------------------------------------------------------------------------
(* GUI thread.                                                             *)

(* Mutant: the schedule of the project before survives. *)
SetProjectKeepSchedule(p) ==
  /\ project' = p /\ revision' = revision + 1
  /\ cache' = <<>> /\ pending' = None
  /\ UNCHANGED <<context, active, worker, posted>>
SetProject(p) ==
  /\ project' = p /\ revision' = revision + 1
  /\ context' = None /\ cache' = <<>> /\ pending' = None
  /\ UNCHANGED <<active, worker, posted>>

(* StartWorker for a request: the worker gets the schedule or, when there   *)
(* is none yet, a snapshot of the project to build it from.                 *)
Launch(index) ==
  /\ active' = TRUE /\ pending' = None
  /\ worker' = [revision |-> revision, index |-> index, snapshot |-> project,
                context |-> context]

CacheKey(f) == <<f.revision, f.index>>
Hits(key)   == {k \in 1 .. Len(cache) : CacheKey(cache[k]) = key}
Others(k)   == SubSeq(cache, 1, k - 1) \o SubSeq(cache, k + 1, Len(cache))
(* No key is in the cache twice, so remove_if erases one entry or none.     *)
Stored(f)   ==
  LET hits == Hits(CacheKey(f))
      all  == <<f>> \o (IF hits = {} THEN cache
                                     ELSE Others(CHOOSE k \in hits : TRUE))
  IN  SubSeq(all, 1, IF Len(all) < Capacity THEN Len(all) ELSE Capacity)

(* RequestFrame: a hit is shown at once, a miss replaces the pending one.   *)
RequestFrame ==
  /\ Top("RequestFrame")
  /\ LET hits == Hits(<<revision, Argument>>) IN
     \/ /\ project = None
        /\ Return(<<>>) /\ UNCHANGED service_vars
     \/ \E k \in hits :
          /\ cache' = <<cache[k]>> \o Others(k)
          /\ Return(Call("FrameReady", cache[k]))
          /\ UNCHANGED <<project, revision, context, pending, active, worker,
                         posted>>
     \/ /\ project # None /\ hits = {}
        /\ Return(<<>>)
        /\ IF active
             THEN pending' = Argument /\ UNCHANGED <<active, worker>>
             ELSE Launch(Argument)
        /\ UNCHANGED <<project, revision, context, posted, cache>>

(***************************************************************************)
(* PublishSuccess and PublishFailure, run by the event loop: the schedule  *)
(* is adopted when it is of this revision and there is none, then the      *)
(* frame is stored and shown or the failure reported, then the pending     *)
(* request is started. A result of an older revision is only dropped.      *)
(***************************************************************************)
Outcome(message) ==
  IF message.frame # None
    THEN Call("StoreInCache", message.frame) \o Call("FrameReady", message.frame)
    ELSE Call("PreviewFailed", message.revision)

Publish ==
  /\ calls = <<>> /\ posted # <<>>
  /\ LET message == posted[1]
         current == message.revision = revision
         adopt   == current /\ message.context # None /\ context = None IN
     /\ active' = FALSE /\ posted' = Tail(posted)
     /\ context' = IF adopt THEN message.context ELSE context
     /\ calls' = (IF adopt THEN Call("ScheduleInfoChanged", None) ELSE <<>>)
                   \o (IF current THEN Outcome(message) ELSE <<>>)
                   \o Call("StartWorker", None)
     /\ UNCHANGED <<project, revision, pending, worker, cache>>

StoreInCache ==
  /\ Top("StoreInCache")
  /\ cache' = Stored(Argument)
  /\ Return(<<>>)
  /\ UNCHANGED <<project, revision, context, pending, active, worker, posted>>

(* The last call of a publication; a slot may have started a worker already.*)
StartWorker ==
  /\ Top("StartWorker")
  /\ Return(<<>>)
  /\ IF active \/ pending = None THEN UNCHANGED <<pending, active, worker>>
                                 ELSE Launch(pending)
  /\ UNCHANGED <<project, revision, context, posted, cache>>

-------------------------------------------------------------------------------
(* Worker thread. Its last step queues one call to the GUI thread.         *)

Post(ctx, frame) ==
  /\ posted' = Append(posted, [revision |-> worker.revision, context |-> ctx,
                               frame |-> frame])
  /\ worker' = None

(* Validates the snapshot and builds its schedule. *)
BuildContext ==
  /\ worker # None /\ worker.context = None
  /\ IF OutputFrames[worker.snapshot] = 0
       THEN Post(None, None)
       ELSE /\ worker' = [worker EXCEPT !.context = worker.snapshot]
            /\ UNCHANGED posted
  /\ UNCHANGED <<project, revision, context, pending, active, cache, calls>>

(* An index past the schedule fails, and so may the synthesis itself. *)
Synthesize ==
  /\ worker # None /\ worker.context # None
  /\ \/ /\ worker.index < OutputFrames[worker.context]
        /\ Post(worker.context,
                [revision |-> worker.revision, index |-> worker.index,
                 content |-> worker.context])
     \/ /\ worker.index >= OutputFrames[worker.context] \/ SynthesisMayFail
        /\ Post(worker.context, None)
  /\ UNCHANGED <<project, revision, context, pending, active, cache, calls>>

WorkerStep == BuildContext \/ Synthesize
================================================================================
