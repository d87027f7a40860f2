--------------------------- MODULE PreviewPaneProps ---------------------------
(***************************************************************************)
(* What the preview promises its user: the picture, the navigator and the  *)
(* status line agree with the document once edits, scrubbing, hiding and   *)
(* late worker results have settled.                                       *)
(***************************************************************************)
EXTENDS PreviewPane

Operations == {"RequestFrame", "FrameReady", "PreviewFailed", "StoreInCache",
               "StartWorker", "ScheduleInfoChanged", "ShowSectionFirstFrame"}

(* Types; the cache keeps to its capacity, every frame in it exists and is  *)
(* there once.                                                              *)
TypeOK ==
  /\ project \in Content /\ context \in Content /\ document \in Projects
  /\ revision \in 0 .. MaxEdits + 1 /\ edits \in 0 .. MaxEdits
  /\ pending = None \/ pending \in Nat
  /\ active \in BOOLEAN
  /\ worker = None \/ /\ worker.revision \in 1 .. revision
                      /\ worker.index \in Nat /\ worker.context \in Content
  /\ \A m \in DOMAIN posted : posted[m].revision \in 1 .. revision
  /\ Len(cache) <= Capacity
  /\ \A k \in DOMAIN cache :
       /\ cache[k] \in Frame /\ cache[k].index < OutputFrames[cache[k].content]
       /\ Hits(CacheKey(cache[k])) = {k}
  /\ \A k \in DOMAIN calls : calls[k].op \in Operations
  /\ {visible, needs_refresh, timer, loading} \subseteq BOOLEAN
  /\ slider \in 0 .. slider_max /\ (jump = None \/ jump \in Sections)
  /\ (shown = None \/ shown \in Frame)
  /\ status \in {"", "out of date", "failed"}

(***************************************************************************)
(* Workers outlive the project snapshot they were started for. Nothing of  *)
(* an older snapshot is ever taken for the current one: the schedule, the  *)
(* cached frames and a picture of this revision are the current project's. *)
(***************************************************************************)
SnapshotConsistent ==
  /\ context \in {None, project}
  /\ \A k \in DOMAIN cache :
       cache[k].revision = revision /\ cache[k].content = project
  /\ shown # None /\ shown.revision = revision => shown.content = project

(***************************************************************************)
(* At most one worker or undelivered result exists, and worker_active_     *)
(* says so: the join in StartWorker never makes the GUI thread wait for a  *)
(* synthesis, and two workers never share one schedule context.            *)
(***************************************************************************)
SingleWorker ==
  Len(posted) + (IF worker # None THEN 1 ELSE 0) = (IF active THEN 1 ELSE 0)

(* Neither the placeholder nor a pending request is left with no worker.   *)
LoadingIsWorking == Idle /\ (loading \/ pending # None) => active

(***************************************************************************)
(* preview_pane.h: the status line is "an empty string when the frame is   *)
(* current". When nothing is left to do it does not call a stale or failed *)
(* picture current.                                                        *)
(***************************************************************************)
Settled == Idle /\ ~active /\ ~needs_refresh
StatusHonest ==
  Settled /\ shown # None /\ status = "" => shown.content = document

(* The placeholder always gives way to a picture or to a failure.          *)
LoadingEnds == loading ~> ~loading

(***************************************************************************)
(* A visible preview catches up with the document, whatever the user does  *)
(* with the navigator meanwhile: its picture, or a failure, follows.       *)
(***************************************************************************)
CaughtUp == \/ shown # None /\ shown.content = document
            \/ status = "failed"
PreviewFollowsDocument ==
  \A p \in Projects :
    (document = p /\ visible) ~> (document # p \/ ~visible \/ CaughtUp)

(***************************************************************************)
(* In every state of the pane and its service: no picture or schedule of   *)
(* an older project passes for the present one's, one worker at most, no   *)
(* placeholder without one, and a status line that does not hide a stale   *)
(* picture.                                                                *)
(***************************************************************************)
PreviewConsistent ==
  TypeOK /\ SnapshotConsistent /\ SingleWorker /\ LoadingIsWorking /\ StatusHonest

(* Whatever the user does meanwhile, loading ends and the picture follows. *)
PreviewCatchesUp == LoadingEnds /\ PreviewFollowsDocument

-------------------------------------------------------------------------------
(***************************************************************************)
(* Why PreviewConsistent holds: what is true of the worker, of its results *)
(* and of the calls that are still to be made, between any two calls.      *)
(***************************************************************************)
CurrentFrames ==
  {f \in Frame : /\ f.revision = revision /\ f.content = project
                 /\ f.index < OutputFrames[f.content]}
CacheInStep ==
  /\ cache \in Seq(CurrentFrames) /\ Len(cache) <= Capacity
  /\ \A i, j \in 1 .. Len(cache) :
       CacheKey(cache[i]) = CacheKey(cache[j]) => i = j

(* A schedule has at least one frame, and a current one is the project's.   *)
Schedule(c, r) ==
  c # None => /\ c \in Projects /\ OutputFrames[c] > 0
              /\ r = revision => c = project

Messages == [revision : Nat, context : Content, frame : Frame \cup {None}]
ResultsInStep ==
  /\ posted \in Seq(Messages)
  /\ \A m \in DOMAIN posted :
       /\ posted[m].revision \in 1 .. revision
       /\ Schedule(posted[m].context, posted[m].revision)
       /\ posted[m].frame # None =>
            /\ posted[m].frame.revision = posted[m].revision
            /\ posted[m].frame.content = posted[m].context
            /\ posted[m].frame.index < OutputFrames[posted[m].context]

WorkerInStep ==
  worker # None =>
    /\ worker \in Workers /\ worker.revision \in 1 .. revision
    /\ worker.revision = revision => worker.snapshot = project
    /\ Schedule(worker.context, worker.revision)

(* The calls on the stack are about the present project, and only the call  *)
(* on top can announce a schedule.                                          *)
SlotCalls ==
  [op : {"RequestFrame"}, arg : Nat]
    \cup [op : {"FrameReady", "StoreInCache"}, arg : CurrentFrames]
    \cup [op : {"PreviewFailed"}, arg : {revision}]
    \cup [op : {"ShowSectionFirstFrame"}, arg : Sections]
    \cup [op : {"StartWorker"}, arg : {None}]
Announcement == [op |-> "ScheduleInfoChanged", arg |-> None]
CallsInStep ==
  \/ calls \in Seq(SlotCalls)
  \/ /\ calls \in Seq({Announcement} \cup SlotCalls) /\ calls # <<>>
     /\ calls[1] = Announcement /\ context # None
     /\ Tail(calls) \in Seq(SlotCalls)

OnStack(op) == \E k \in DOMAIN calls : calls[k].op = op
Coming ==
  \/ OnStack("FrameReady") \/ OnStack("PreviewFailed") \/ OnStack("RequestFrame")
  \/ pending # None
  \/ worker # None /\ worker.revision = revision
  \/ \E m \in DOMAIN posted : posted[m].revision = revision

RefreshInStep ==
  /\ project \in Content /\ document \in Projects
  /\ revision \in Nat /\ edits \in 0 .. MaxEdits
  /\ visible \in BOOLEAN /\ needs_refresh \in BOOLEAN /\ timer \in BOOLEAN
  /\ timer => needs_refresh
  /\ revision + (IF needs_refresh THEN 1 ELSE 0) <= edits + 1
  /\ ~needs_refresh => project = document
  /\ project # None => revision >= 1

NavigatorInStep ==
  /\ slider_max \in Nat /\ slider \in 0 .. slider_max
  /\ jump = None \/ jump \in Sections
  /\ Schedule(context, revision)
  /\ context # None =>
       slider_max = OutputFrames[context] - 1 \/ Top("ScheduleInfoChanged")

PictureInStep ==
  /\ loading \in BOOLEAN /\ status \in {"", "out of date", "failed"}
  /\ shown = None \/ (shown \in Frame /\ shown.revision <= revision)
  /\ shown # None /\ shown.revision = revision => shown.content = project
  /\ loading => project # None /\ Coming
  /\ shown # None /\ status = "" /\ ~loading /\ ~needs_refresh =>
       shown.revision = revision

RequestInStep ==
  /\ active \in BOOLEAN
  /\ pending = None \/ (pending \in Nat /\ project # None)
  /\ pending # None => active \/ OnStack("StartWorker")

PreviewInvariant ==
  /\ CacheInStep /\ ResultsInStep /\ WorkerInStep /\ SingleWorker /\ CallsInStep
  /\ RefreshInStep /\ NavigatorInStep /\ PictureInStep /\ RequestInStep
===============================================================================
