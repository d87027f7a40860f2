------------------------------ MODULE PreviewPane ------------------------------
(***************************************************************************)
(* gui/preview_pane.cpp with the PreviewFrameService it owns: the frame    *)
(* navigator, the debounced refresh after an edit of the document, the     *)
(* "Loading" placeholder, the status line and the jump to a section.       *)
(***************************************************************************)
EXTENDS PreviewFrameService

CONSTANTS
  FirstFrames,  \* section_first_output_frame of each project, by section
  MaxEdits      \* bound: edits of the document

ASSUME FirstFramesAssumption ==
  /\ FirstFrames \in [Projects -> Seq(Nat)]
  /\ \A p \in Projects : \A s \in DOMAIN FirstFrames[p] :
       FirstFrames[p][s] < OutputFrames[p]
ASSUME MaxEditsAssumption == MaxEdits \in Nat

Sections == UNION {1 .. Len(FirstFrames[p]) : p \in Projects}

VARIABLES
  document,       \* ProjectDocument's project
  edits,          \* how many edits it has had
  visible,        \* IsAnyPanelVisible
  needs_refresh,  \* needs_refresh_
  timer,          \* whether refresh_timer_ is running
  slider,         \* frame_slider_'s value
  slider_max,     \* and its range
  jump,           \* pending_section_jump_
  shown,          \* current_frame_
  loading,        \* whether the placeholder covers the picture
  status          \* status_message_: "" when it says the frame is current

document_vars == <<document, edits>>
refresh_vars  == <<visible, needs_refresh, timer>>
navigator_vars == <<slider, slider_max, jump>>
picture_vars  == <<shown, loading, status>>
vars == <<service_vars, calls, document_vars, refresh_vars, navigator_vars,
          picture_vars>>

Init ==
  /\ ServiceInit
  /\ document \in Projects /\ edits = 0
  /\ visible \in BOOLEAN /\ needs_refresh = TRUE /\ timer = visible
  /\ slider = 0 /\ slider_max = 0 /\ jump = None
  /\ shown = None /\ loading = FALSE /\ status = ""

RequestCurrentFrame == Call("RequestFrame", slider)

-------------------------------------------------------------------------------
(* Events of the GUI thread's loop.                                        *)

Idle == calls = <<>>

(* DocumentChanged and DocumentReset. *)
EditDocument ==
  /\ Idle /\ edits < MaxEdits
  /\ document' \in Projects \ {document}
  /\ edits' = edits + 1
  /\ needs_refresh' = TRUE /\ timer' = (timer \/ visible)
  /\ status' = IF shown # None THEN "out of date" ELSE status
  /\ UNCHANGED <<service_vars, calls, visible, navigator_vars, shown, loading>>

(* Mutant: a pane that becomes visible does not refresh. *)
ShowWithoutRefresh ==
  /\ Idle
  /\ visible' = ~visible
  /\ UNCHANGED <<service_vars, calls, document_vars, needs_refresh, timer,
                 navigator_vars, picture_vars>>

(* showEvent and eventFilter; a hidden pane keeps its timer. *)
ShowOrHide ==
  /\ Idle
  /\ visible' = ~visible
  /\ timer' = (timer \/ (visible' /\ needs_refresh))
  /\ UNCHANGED <<service_vars, calls, document_vars, needs_refresh,
                 navigator_vars, picture_vars>>

(* PushProjectToService. *)
RefreshTimeout ==
  /\ Idle /\ timer
  /\ timer' = FALSE /\ needs_refresh' = FALSE
  /\ SetProject(document)
  /\ loading' = TRUE
  /\ calls' = RequestCurrentFrame
  /\ UNCHANGED <<document_vars, visible, navigator_vars, shown, status>>

(* The user moves the navigator: OnFrameIndexChanged. *)
Scrub ==
  /\ Idle
  /\ slider' \in 0 .. slider_max \ {slider}
  /\ calls' = Call("RequestFrame", slider')
  /\ UNCHANGED <<service_vars, document_vars, refresh_vars, slider_max, jump,
                 picture_vars>>

SelectSection ==
  /\ Idle
  /\ \E s \in Sections : calls' = Call("ShowSectionFirstFrame", s)
  /\ UNCHANGED <<service_vars, document_vars, refresh_vars, navigator_vars,
                 picture_vars>>

-------------------------------------------------------------------------------
(* Slots and calls.                                                        *)

(***************************************************************************)
(* Without a schedule the jump waits for one. With one, the navigator goes *)
(* to the section's first frame, which is requested whether it moves or    *)
(* not.                                                                    *)
(***************************************************************************)
ShowSectionFirstFrame ==
  /\ Top("ShowSectionFirstFrame")
  /\ \/ /\ context = None
        /\ jump' = Argument
        /\ timer' = (timer \/ needs_refresh)
        /\ Return(IF needs_refresh THEN <<>> ELSE RequestCurrentFrame)
        /\ UNCHANGED slider
     \/ /\ context # None /\ Argument > Len(FirstFrames[context])
        /\ Return(<<>>)
        /\ UNCHANGED <<jump, timer, slider>>
     \/ /\ context # None /\ Argument <= Len(FirstFrames[context])
        /\ slider' = FirstFrames[context][Argument]
        /\ Return(Call("RequestFrame", slider'))
        /\ UNCHANGED <<jump, timer>>
  /\ UNCHANGED <<service_vars, document_vars, visible, needs_refresh,
                 slider_max, picture_vars>>

(* The navigator's range follows the schedule; a value that it clamps is    *)
(* requested again, and then the waiting jump is made.                      *)
ScheduleInfoChanged ==
  /\ Top("ScheduleInfoChanged")
  /\ slider_max' = OutputFrames[context] - 1
  /\ slider' = IF slider > slider_max' THEN slider_max' ELSE slider
  /\ jump' = None
  /\ Return((IF slider' # slider THEN Call("RequestFrame", slider') ELSE <<>>)
              \o (IF jump # None THEN Call("ShowSectionFirstFrame", jump)
                                 ELSE <<>>))
  /\ UNCHANGED <<service_vars, document_vars, refresh_vars, picture_vars>>

FrameReady ==
  /\ Top("FrameReady")
  /\ Return(<<>>)
  /\ IF Argument.revision = revision
       THEN shown' = Argument /\ loading' = FALSE /\ status' = ""
       ELSE UNCHANGED picture_vars
  /\ UNCHANGED <<service_vars, document_vars, refresh_vars, navigator_vars>>

PreviewFailed ==
  /\ Top("PreviewFailed")
  /\ Return(<<>>)
  /\ IF Argument = revision
       THEN loading' = FALSE /\ status' = "failed" /\ UNCHANGED shown
       ELSE UNCHANGED picture_vars
  /\ UNCHANGED <<service_vars, document_vars, refresh_vars, navigator_vars>>

ServiceCall == RequestFrame \/ StoreInCache \/ StartWorker
PaneCall == ShowSectionFirstFrame \/ ScheduleInfoChanged \/ FrameReady
              \/ PreviewFailed
RunCall == PaneCall \/ (ServiceCall /\ UNCHANGED <<document_vars, refresh_vars,
                                           navigator_vars, picture_vars>>)

Background(step) ==
  step /\ UNCHANGED <<document_vars, refresh_vars, navigator_vars, picture_vars>>
PublishEvent == Background(Publish)

Next ==
  \/ EditDocument \/ ShowOrHide \/ Scrub \/ SelectSection
  \/ RefreshTimeout \/ PublishEvent \/ RunCall
  \/ Background(WorkerStep)

(***************************************************************************)
(* The worker thread runs; a call of the GUI thread returns; and its event *)
(* loop serves queued calls and expired timers in turn with user input, so *)
(* the user cannot keep them from being served.                            *)
(***************************************************************************)
Fairness ==
  /\ WF_vars(Background(WorkerStep)) /\ WF_vars(RunCall)
  /\ SF_vars(PublishEvent) /\ SF_vars(RefreshTimeout)

Spec == Init /\ [][Next]_vars /\ Fairness
================================================================================
