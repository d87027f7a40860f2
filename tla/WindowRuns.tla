------------------------------ MODULE WindowRuns ------------------------------
(***************************************************************************)
(* What the main window (gui/main_window.cpp) has running behind itself:   *)
(* the validation of the project and the probe of the section editor's     *)
(* source, which are LatestWins workers, and the generation run of         *)
(* gui/generation_controller.cpp, whose thread reports through calls       *)
(* queued for the GUI thread.  One action is one handler of the GUI        *)
(* thread, or one step of a worker's.  Queued calls of different senders   *)
(* are taken in any order, a user's gesture comes at any time no dialog    *)
(* holds the window.                                                       *)
(***************************************************************************)
EXTENDS Naturals, Sequences

CONSTANTS
  None,
  Sections,      \* sections of a project from 1 on; every project has the same
  Sources,       \* source files
  MaxGestures,   \* bound: gestures of the user
  TotalFrames    \* frames of a run

ASSUME BoundsAssumption == MaxGestures \in Nat /\ TotalFrames \in Nat \ {0}
ASSUME SectionsAssumption == Sections \subseteq Nat /\ 1 \in Sections /\ 0 \notin Sections
ASSUME SourcesAssumption == None \notin Sources

VARIABLES
  edition,      \* changes of the document so far: its present content; 0: none
  source,       \* the source of every section
  modified,     \* ProjectDocument::is_modified
  current,      \* SectionEditor::section_index_; 0 without one
  v_pending, v_timer, v_worker, v_result,    \* ValidationController, editions
  p_pending, p_timer, p_worker, p_result,    \* SourceProbeController, sources
  explicit,     \* explicit_validation_requested_: [requested, edition]
  checks,       \* deferred looks whether the explicit validation has settled
  verdict,      \* the last verdict shown: [asked, of], the editions
  running,      \* GenerationController::running_
  token,        \* cancellation_: [run, cancelled]; run 0: none yet
  thread,       \* worker_: [at, run, frames]
  events,       \* observer calls queued by the thread: [kind, run, frames]
  actions,      \* what is enabled or visible: generate, cancel, the bar
  window,       \* "open", "dialog", "asking", "saving", "closing", "closed"
  gestures

validation_vars == <<v_pending, v_timer, v_worker, v_result>>
probe_vars == <<p_pending, p_timer, p_worker, p_result>>
explicit_vars == <<explicit, checks, verdict>>
document_vars == <<edition, source, modified, current>>
run_vars == <<running, token, thread, events, actions>>
vars == <<document_vars, validation_vars, probe_vars, explicit_vars, run_vars,
          window, gestures>>

Validation == INSTANCE LatestWins WITH NoRequest <- 0,
  pending <- v_pending, timer <- v_timer, worker <- v_worker, result <- v_result
Probe == INSTANCE LatestWins WITH NoRequest <- None,
  pending <- p_pending, timer <- p_timer, worker <- p_worker, result <- p_result

IsOpen == edition > 0

Init ==
  /\ edition = 0 /\ source \in [Sections -> Sources] /\ modified = FALSE
  /\ current = 0
  /\ Validation!LatestInit /\ Probe!LatestInit
  /\ explicit = [requested |-> FALSE, edition |-> 0] /\ checks = 0
  /\ verdict = [asked |-> 0, of |-> 0]
  /\ running = FALSE /\ token = [run |-> 0, cancelled |-> FALSE]
  /\ thread = [at |-> "none", run |-> 0, frames |-> 0] /\ events = << >>
  /\ actions = [generate |-> FALSE, cancel |-> FALSE, bar |-> FALSE]
  /\ window = "open" /\ gestures = 0

-------------------------------------------------------------------------------
(* Gestures.                                                                  *)

Gesture == window = "open" /\ gestures < MaxGestures /\ gestures' = gestures + 1

ProbeSection(section) == Probe!Request(source'[section])

(* Mutant: the action enabled by the project alone.                           *)
MayGenerateWhenOpen == TRUE

(* UpdateProjectOpenState of an open project.                                 *)
MayGenerate == ~running

(* A new or opened project; its first section is selected.                    *)
LoadProject ==
  /\ Gesture
  /\ edition' = edition + 1 /\ source' \in [Sections -> Sources]
  /\ modified' = FALSE /\ current' = 1
  /\ explicit' = [explicit EXCEPT !.requested = FALSE]
  /\ Validation!Request(edition')
  /\ ProbeSection(current')
  /\ actions' = [actions EXCEPT !.generate = MayGenerate]
  /\ UNCHANGED <<checks, verdict, running, token, thread, events, window>>

(* A change of the document; the editor's own change of the source is the one *)
(* that is probed, an undo reloads the form only.                             *)
Change(sources) ==
  /\ edition' = edition + 1 /\ source' = sources /\ modified' = TRUE
  /\ Validation!Request(edition')
  /\ UNCHANGED <<current, explicit_vars, run_vars, window>>

EditSource ==
  /\ Gesture /\ IsOpen
  /\ \E s \in Sources \ {source[current]} : Change([source EXCEPT ![current] = s])
  /\ ProbeSection(current)

UndoChange ==
  /\ Gesture /\ IsOpen
  /\ \E sources \in [Sections -> Sources] : Change(sources)
  /\ UNCHANGED probe_vars

SelectSection ==
  /\ Gesture /\ IsOpen
  /\ current' \in Sections
  /\ UNCHANGED <<edition, source, modified, validation_vars, explicit_vars,
                 run_vars, window>>
  /\ ProbeSection(current')

(* Project, Validate.  A look deferred for an earlier request was taken when  *)
(* the menu opened.                                                           *)
ValidateProject ==
  /\ Gesture /\ IsOpen
  /\ explicit.requested \/ checks = 0
  /\ explicit' = IF explicit.requested THEN explicit
                 ELSE [requested |-> TRUE, edition |-> edition]
  /\ Validation!Request(edition)
  /\ UNCHANGED <<document_vars, probe_vars, checks, verdict, run_vars, window>>

(* JoinWorker: the thread of the run before has left.                         *)
Joined == thread.at \in {"none", "ended"}

(* OnGenerate and StartGeneration; an unsaved project is saved or not.        *)
StartGeneration ==
  /\ Gesture /\ actions.generate /\ ~running
  /\ Joined
  /\ running' = TRUE
  /\ token' = [run |-> token.run + 1, cancelled |-> FALSE]
  /\ thread' = [at |-> "working", run |-> token'.run, frames |-> 0]
  /\ actions' = [generate |-> FALSE, cancel |-> TRUE, bar |-> TRUE]
  /\ modified' \in {modified, FALSE}
  /\ UNCHANGED <<edition, source, current, validation_vars, probe_vars,
                 explicit_vars, events, window>>

Cancelled == IF running THEN [token EXCEPT !.cancelled = TRUE] ELSE token

CancelGeneration ==
  /\ Gesture /\ actions.cancel
  /\ token' = Cancelled
  /\ UNCHANGED <<document_vars, validation_vars, probe_vars, explicit_vars,
                 running, thread, events, actions, window>>

(* closeEvent: a run that is in progress is asked about first.                *)
CloseWindow ==
  /\ Gesture
  /\ window' = IF running THEN "asking" ELSE "saving"
  /\ UNCHANGED <<document_vars, validation_vars, probe_vars, explicit_vars,
                 run_vars>>

(* Mutant: whether to cancel is decided before the question is answered.      *)
QuitWithoutCancel == UNCHANGED token

QuitCancels == token' = Cancelled

AnswerQuit ==
  /\ window = "asking"
  /\ \/ window' = "open" /\ UNCHANGED token
     \/ window' = "saving" /\ QuitCancels
  /\ UNCHANGED <<document_vars, validation_vars, probe_vars, explicit_vars,
                 running, thread, events, actions, gestures>>

(* MaybeSave: saved, discarded, or the close is called off.                   *)
AnswerSave ==
  /\ window = "saving"
  /\ \/ window' = "closing" /\ modified' = FALSE
     \/ modified /\ window' = "open" /\ UNCHANGED modified
  /\ UNCHANGED <<edition, source, current, validation_vars, probe_vars,
                 explicit_vars, run_vars, gestures>>

DismissDialog ==
  /\ window = "dialog" /\ window' = "open"
  /\ UNCHANGED <<document_vars, validation_vars, probe_vars, explicit_vars,
                 run_vars, gestures>>

-------------------------------------------------------------------------------
(* Timers and queued calls of the GUI thread, until the window is destroyed.  *)

Alive == window \notin {"closing", "closed"}

ValidationTimeout ==
  /\ Alive /\ Validation!Timeout
  /\ UNCHANGED <<document_vars, probe_vars, explicit_vars, run_vars, window,
                 gestures>>

ProbeTimeout ==
  /\ Alive /\ Probe!Timeout
  /\ UNCHANGED <<document_vars, validation_vars, explicit_vars, run_vars, window,
                 gestures>>

PublishIssues ==
  /\ Alive /\ Validation!Publish
  /\ checks' = IF explicit.requested THEN checks + 1 ELSE checks
  /\ UNCHANGED <<document_vars, probe_vars, explicit, verdict, run_vars, window,
                 gestures>>

PublishReport ==
  /\ Alive /\ Probe!Publish
  /\ UNCHANGED <<document_vars, validation_vars, explicit_vars, run_vars, window,
                 gestures>>

(* Mutant: the first result after the request taken for its answer.           *)
AnyResult == explicit.requested

(* Only a result that has settled is an answer to the explicit validation.    *)
Settled == explicit.requested /\ ~Validation!Active

(* What IssuesChanged deferred; its dialog joins those that are open.         *)
CheckExplicit ==
  /\ Alive /\ checks > 0
  /\ checks' = checks - 1
  /\ IF Settled
     THEN /\ verdict' = [asked |-> explicit.edition, of |-> v_result]
          /\ explicit' = [explicit EXCEPT !.requested = FALSE]
          /\ window' = IF window = "open" THEN "dialog" ELSE window
     ELSE UNCHANGED <<verdict, explicit, window>>
  /\ UNCHANGED <<document_vars, validation_vars, probe_vars, run_vars, gestures>>

(* The bar counts; the end of the run disables and hides, and may open a      *)
(* dialog.                                                                    *)
HandleEvent ==
  /\ Alive /\ events # << >>
  /\ events' = Tail(events)
  /\ IF Head(events).kind = "progress" THEN UNCHANGED <<running, actions, window>>
     ELSE /\ running' = FALSE
          /\ actions' = [generate |-> IsOpen, cancel |-> FALSE, bar |-> FALSE]
          /\ window' \in {window, IF window = "open" THEN "dialog" ELSE window}
  /\ UNCHANGED <<document_vars, validation_vars, probe_vars, explicit_vars,
                 token, thread, gestures>>

-------------------------------------------------------------------------------
(* The workers.                                                               *)

Validate ==
  /\ Validation!Complete
  /\ UNCHANGED <<document_vars, probe_vars, explicit_vars, run_vars, window,
                 gestures>>

ProbeSource ==
  /\ Probe!Complete
  /\ UNCHANGED <<document_vars, validation_vars, explicit_vars, run_vars, window,
                 gestures>>

Post(kind, frames) ==
  events' = Append(events, [kind |-> kind, run |-> thread.run, frames |-> frames])

(* RunProject, as far as it is heard: a frame, or its end.  The frames of the *)
(* batch in which the token is set are still told.                            *)
Frame ==
  /\ thread.at = "working" /\ thread.frames < TotalFrames
  /\ thread' = [thread EXCEPT !.frames = @ + 1]
  /\ Post("progress", thread.frames + 1)

(* It may fail or, with the token set, stop between any two frames.           *)
Finish ==
  /\ thread.at = "working"
  /\ thread' = [thread EXCEPT !.at = "leaving"]
  /\ Post("finished", thread.frames)

Leave ==
  /\ thread.at = "leaving"
  /\ thread' = [thread EXCEPT !.at = "ended"]
  /\ UNCHANGED events

Generate ==
  /\ Frame \/ Finish \/ Leave
  /\ UNCHANGED <<document_vars, validation_vars, probe_vars, explicit_vars,
                 running, token, actions, window, gestures>>

(* The destructors join the threads; what they have posted is dropped.        *)
Destroy ==
  /\ window = "closing"
  /\ v_worker.at # "working" /\ p_worker.at # "working" /\ Joined
  /\ window' = "closed"
  /\ UNCHANGED <<document_vars, validation_vars, probe_vars, explicit_vars,
                 run_vars, gestures>>

Next ==
  \/ LoadProject \/ EditSource \/ UndoChange \/ SelectSection \/ ValidateProject
  \/ StartGeneration \/ CancelGeneration
  \/ CloseWindow \/ AnswerQuit \/ AnswerSave \/ DismissDialog
  \/ ValidationTimeout \/ ProbeTimeout \/ PublishIssues \/ PublishReport
  \/ CheckExplicit \/ HandleEvent
  \/ Validate \/ ProbeSource \/ Generate \/ Destroy

(***************************************************************************)
(* Timers expire, the event loop takes queued calls, threads go on and     *)
(* finish.  Of the user only that dialogs are answered is assumed.         *)
(***************************************************************************)
Fairness ==
  /\ WF_vars(ValidationTimeout) /\ WF_vars(ProbeTimeout)
  /\ WF_vars(PublishIssues) /\ WF_vars(PublishReport)
  /\ WF_vars(CheckExplicit) /\ WF_vars(HandleEvent)
  /\ WF_vars(Validate) /\ WF_vars(ProbeSource) /\ WF_vars(Generate)
  /\ WF_vars(AnswerQuit) /\ WF_vars(AnswerSave) /\ WF_vars(DismissDialog)
  /\ WF_vars(Destroy)

Spec == Init /\ [][Next]_vars /\ Fairness
===============================================================================
