------------------------------ MODULE LatestWins ------------------------------
(***************************************************************************)
(* The worker that gui/validation_controller.cpp and                       *)
(* gui/source_probe_controller.cpp both are: a request starts a debounce   *)
(* timer over again, the newest request is the one that waits, one thread  *)
(* works at a time, and its result returns to the GUI thread as a queued   *)
(* call.  A request and the result made from it are one value.             *)
(***************************************************************************)
CONSTANT NoRequest

VARIABLES
  pending,   \* pending_project_, pending_request_: NoRequest without one
  timer,     \* debounce_timer_ is running
  worker,    \* [at, of]: "idle", "working", or "posted" its result; of what
  result     \* issues_, report_: NoRequest before the first

latest_vars == <<pending, timer, worker, result>>

Idle == [at |-> "idle", of |-> NoRequest]

LatestInit ==
  pending = NoRequest /\ timer = FALSE /\ worker = Idle /\ result = NoRequest

(* True from the worker's start until its result has been published.          *)
Active == worker.at # "idle"

(* Mutant: what is asked during a run is taken to be covered by it.           *)
RequestWhenIdle(r) ==
  /\ IF Active THEN UNCHANGED <<pending, timer>> ELSE pending' = r /\ timer' = TRUE
  /\ UNCHANGED <<worker, result>>

(* The debounce starts over with every request.                               *)
Request(r) ==
  /\ pending' = r /\ timer' = TRUE
  /\ UNCHANGED <<worker, result>>

(* StartWorker for the request that waits; it joins the thread before, which  *)
(* has posted its result.                                                     *)
Start ==
  /\ worker' = [at |-> "working", of |-> pending]
  /\ pending' = NoRequest

Timeout ==
  /\ timer /\ timer' = FALSE
  /\ IF Active \/ pending = NoRequest THEN UNCHANGED <<pending, worker>>
     ELSE Start
  /\ UNCHANGED result

Complete ==
  /\ worker.at = "working"
  /\ worker' = [worker EXCEPT !.at = "posted"]
  /\ UNCHANGED <<pending, timer, result>>

(* Mutant: the request that came during the run is left to the timer.         *)
PublishOnly ==
  /\ worker.at = "posted"
  /\ result' = worker.of
  /\ worker' = Idle
  /\ UNCHANGED <<pending, timer>>

(* PublishResult: what came during the run starts at once.                    *)
Publish ==
  /\ worker.at = "posted"
  /\ result' = worker.of
  /\ IF pending = NoRequest THEN worker' = Idle /\ UNCHANGED pending ELSE Start
  /\ UNCHANGED timer

(* A request that waits is taken up by the timer or by the next publication.  *)
NotStranded == pending # NoRequest => timer \/ Active

(* What the next results will be about, the last of them first.               *)
Newest == IF pending # NoRequest THEN pending
          ELSE IF Active THEN worker.of ELSE result
===============================================================================
