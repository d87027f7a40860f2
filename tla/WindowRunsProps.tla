--------------------------- MODULE WindowRunsProps ---------------------------
EXTENDS WindowRuns

(* A request that waits is never forgotten: as long as one is pending the     *)
(* debounce timer counts or a worker is active, whose result takes it up      *)
(* (PublishResult, PublishReport), although the timer gives up when it fires  *)
(* during a run (StartWorker).                                                *)
RequestsNotStranded == Validation!NotStranded /\ Probe!NotStranded

(* The answer to Project, Validate is never the result for a project older    *)
(* than the one the user asked about: results of runs that were in progress   *)
(* are passed over until the controller has settled (the deferred look in     *)
(* main_window.cpp's IssuesChanged handler).                                  *)
VerdictAnswersRequest == verdict.of >= verdict.asked

(* When the user has stopped, the issues shown become those of the present    *)
(* document and an explicit validation is answered, unless the window is      *)
(* closed.                                                                    *)
IssuesCatchUp ==
  /\ <>[](v_result = edition \/ ~Alive)
  /\ explicit.requested ~> ~explicit.requested \/ ~Alive

LiveThread == thread.at \in {"working", "leaving"}

(* Menu and bar tell of the one run there is: Generate cannot be chosen       *)
(* during it, Cancel only then; the cancellation token is that of the thread; *)
(* what is queued comes from this run, in order, its end last; and a run that *)
(* is over in the window has nothing left to say.                             *)
RunShownTruthfully ==
  /\ actions.cancel = running /\ actions.bar = running
  /\ actions.generate = (IsOpen /\ ~running)
  /\ LiveThread => thread.run = token.run
  /\ thread.at = "working" => running
  /\ \A i \in 1..Len(events) :
       /\ running /\ events[i].run = token.run
       /\ events[i].kind = "finished" <=> i = Len(events) /\ thread.at # "working"
       /\ \A j \in 1..(i - 1) : events[j].frames <= events[i].frames

(* A run that is still working when the window closes has been cancelled, so  *)
(* that the destructor's join is short: no way through the two questions of   *)
(* closeEvent leaves a run behind that nobody stopped.                        *)
QuitCancelsRun == ~Alive /\ thread.at = "working" => token.cancelled

-------------------------------------------------------------------------------
(* The inductive invariant behind the safety properties.                      *)

WorkerOf(requests) == [at : {"idle", "working", "posted"}, of : requests]
Events == [kind : {"progress", "finished"}, run : Nat, frames : Nat]

(* Types.                                                                     *)
TypeOK ==
  /\ edition \in Nat /\ source \in [Sections -> Sources] /\ modified \in BOOLEAN
  /\ current \in Sections \cup {0} /\ (IsOpen => current \in Sections)
  /\ v_pending \in Nat /\ v_timer \in BOOLEAN /\ v_worker \in WorkerOf(Nat)
  /\ v_result \in Nat
  /\ p_pending \in Sources \cup {None} /\ p_timer \in BOOLEAN
  /\ p_worker \in WorkerOf(Sources \cup {None})
  /\ p_result \in Sources \cup {None}
  /\ explicit \in [requested : BOOLEAN, edition : Nat] /\ checks \in Nat
  /\ verdict \in [asked : Nat, of : Nat]
  /\ running \in BOOLEAN /\ token \in [run : Nat, cancelled : BOOLEAN]
  /\ thread \in [at : {"none", "working", "leaving", "ended"}, run : Nat,
                 frames : Nat]
  /\ events \in Seq(Events)
  /\ actions \in [generate : BOOLEAN, cancel : BOOLEAN, bar : BOOLEAN]
  /\ window \in {"open", "dialog", "asking", "saving", "closing", "closed"}
  /\ gestures \in Nat

(* What is being validated, or has been, once what waits is left out.         *)
InHand == IF Validation!Active THEN v_worker.of ELSE v_result

(* What the user asked about is on its way, and once a result has come since  *)
(* the request, nothing older is in hand.                                     *)
AnswerComing ==
  /\ explicit.edition <= edition
  /\ explicit.requested => Validation!Newest >= explicit.edition
  /\ explicit.requested /\ checks > 0 => InHand >= explicit.edition

(* A thread that works has told of no more frames than it has made.           *)
ReportsGrow ==
  thread.at = "working" =>
    \A i \in 1..Len(events) : events[i].frames <= thread.frames

(* Past the first question no run goes on without its cancellation.           *)
AskedFirst ==
  window \in {"saving", "closing", "closed"} /\ thread.at = "working"
    => token.cancelled

WindowInvariant ==
  /\ TypeOK /\ RequestsNotStranded /\ AnswerComing /\ VerdictAnswersRequest
  /\ RunShownTruthfully /\ ReportsGrow /\ AskedFirst
===============================================================================
