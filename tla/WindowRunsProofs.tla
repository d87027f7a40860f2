--------------------------- MODULE WindowRunsProofs ---------------------------
(***************************************************************************)
(* The main window's safety properties for every number of sections,       *)
(* gestures and frames.  A worker sees five kinds of step, whichever of    *)
(* the window's actions makes them; the lemmas on moves say so, and the    *)
(* invariants about a worker follow from its moves.                        *)
(***************************************************************************)
EXTENDS WindowRunsProps, TLAPS

USE BoundsAssumption, SectionsAssumption, SourcesAssumption

(* What a step does to the validation's worker, and to the probe's.           *)
ValidationMove ==
  \/ Validation!Request(edition')
  \/ Validation!Timeout
  \/ Validation!Complete
  \/ Validation!Publish
  \/ UNCHANGED validation_vars

ProbeMove ==
  \/ \E s \in Sources : Probe!Request(s)
  \/ Probe!Timeout
  \/ Probe!Complete
  \/ Probe!Publish
  \/ UNCHANGED probe_vars

DocumentType ==
  /\ edition \in Nat /\ source \in [Sections -> Sources] /\ modified \in BOOLEAN
  /\ current \in Sections \cup {0} /\ (IsOpen => current \in Sections)

ValidationType ==
  /\ v_pending \in Nat /\ v_timer \in BOOLEAN /\ v_worker \in WorkerOf(Nat)
  /\ v_result \in Nat

ProbeType ==
  /\ p_pending \in Sources \cup {None} /\ p_timer \in BOOLEAN
  /\ p_worker \in WorkerOf(Sources \cup {None})
  /\ p_result \in Sources \cup {None}

ExplicitType ==
  /\ explicit \in [requested : BOOLEAN, edition : Nat] /\ checks \in Nat
  /\ verdict \in [asked : Nat, of : Nat]

RunType ==
  /\ running \in BOOLEAN /\ token \in [run : Nat, cancelled : BOOLEAN]
  /\ thread \in [at : {"none", "working", "leaving", "ended"}, run : Nat,
                 frames : Nat]
  /\ events \in Seq(Events)
  /\ actions \in [generate : BOOLEAN, cancel : BOOLEAN, bar : BOOLEAN]

WindowType ==
  /\ window \in {"open", "dialog", "asking", "saving", "closing", "closed"}
  /\ gestures \in Nat

LEMMA TypeParts ==
  TypeOK <=> /\ DocumentType /\ ValidationType /\ ProbeType /\ ExplicitType
             /\ RunType /\ WindowType
BY DEF TypeOK, DocumentType, ValidationType, ProbeType, ExplicitType, RunType,
       WindowType

-------------------------------------------------------------------------------
(* Moves.                                                                     *)

LEMMA ValidationMoves == Next => ValidationMove
<1> SUFFICES ASSUME Next PROVE ValidationMove
  OBVIOUS
<1>1. CASE LoadProject
  BY <1>1 DEF LoadProject, ValidationMove
<1>2. CASE EditSource \/ UndoChange
  BY <1>2 DEF EditSource, UndoChange, Change, ValidationMove
<1>3. CASE ValidateProject
  <2>1. Validation!Request(edition) /\ edition' = edition
    BY <1>3 DEF ValidateProject, document_vars
  <2> QED BY <2>1 DEF ValidationMove, Validation!Request
<1>4. CASE ValidationTimeout
  BY <1>4 DEF ValidationTimeout, ValidationMove
<1>5. CASE PublishIssues
  BY <1>5 DEF PublishIssues, ValidationMove
<1>6. CASE Validate
  BY <1>6 DEF Validate, ValidationMove
<1>7. CASE \/ SelectSection \/ StartGeneration \/ CancelGeneration \/ CloseWindow
           \/ AnswerQuit \/ AnswerSave \/ DismissDialog \/ ProbeTimeout
           \/ PublishReport \/ CheckExplicit \/ HandleEvent \/ ProbeSource
           \/ Generate \/ Destroy
  <2>1. UNCHANGED validation_vars
    BY <1>7 DEF SelectSection, StartGeneration, CancelGeneration, CloseWindow,
      AnswerQuit, AnswerSave, DismissDialog, ProbeTimeout, PublishReport,
      CheckExplicit, HandleEvent, ProbeSource, Generate, Destroy
  <2> QED BY <2>1 DEF ValidationMove
<1> QED BY <1>1, <1>2, <1>3, <1>4, <1>5, <1>6, <1>7 DEF Next

LEMMA ProbeMoves ==
  ASSUME TypeOK, source' \in [Sections -> Sources], Next
  PROVE  ProbeMove
<1>1. CASE LoadProject \/ EditSource \/ SelectSection
  <2>1. PICK section \in Sections : Probe!Request(source'[section])
    BY <1>1 DEF LoadProject, EditSource, SelectSection, ProbeSection, TypeOK,
      Gesture, IsOpen
  <2>2. source'[section] \in Sources
    OBVIOUS
  <2> QED BY <2>1, <2>2 DEF ProbeMove
<1>2. CASE ProbeTimeout
  BY <1>2 DEF ProbeTimeout, ProbeMove
<1>3. CASE PublishReport
  BY <1>3 DEF PublishReport, ProbeMove
<1>4. CASE ProbeSource
  BY <1>4 DEF ProbeSource, ProbeMove
<1>5. CASE \/ UndoChange \/ ValidateProject \/ StartGeneration
           \/ CancelGeneration \/ CloseWindow
           \/ AnswerQuit \/ AnswerSave \/ DismissDialog \/ ValidationTimeout
           \/ PublishIssues \/ CheckExplicit \/ HandleEvent \/ Validate
           \/ Generate \/ Destroy
  <2>1. UNCHANGED probe_vars
    BY <1>5 DEF UndoChange, ValidateProject, StartGeneration, CancelGeneration,
      CloseWindow, AnswerQuit, AnswerSave, DismissDialog, ValidationTimeout,
      PublishIssues, CheckExplicit, HandleEvent, Validate, Generate, Destroy
  <2> QED BY <2>1 DEF ProbeMove
<1> QED BY <1>1, <1>2, <1>3, <1>4, <1>5 DEF Next

-------------------------------------------------------------------------------
(* Types.                                                                     *)

LEMMA TypeInit == Init => TypeOK
<1> SUFFICES ASSUME Init PROVE TypeOK
  OBVIOUS
<1>1. DocumentType
  <2>1. modified \in BOOLEAN
    BY Zenon DEF Init
  <2>2. edition = 0 /\ source \in [Sections -> Sources] /\ current = 0
    BY DEF Init
  <2> QED BY <2>1, <2>2 DEF DocumentType, IsOpen
<1>6. ExplicitType
  BY DEF Init, ExplicitType
<1>2. ValidationType
  BY DEF Init, ValidationType, Validation!LatestInit, Validation!Idle, WorkerOf
<1>3. ProbeType
  BY DEF Init, ProbeType, Probe!LatestInit, Probe!Idle, WorkerOf
<1>4. RunType
  <2>1. events = << >> /\ running = FALSE
        /\ token = [run |-> 0, cancelled |-> FALSE]
        /\ thread = [at |-> "none", run |-> 0, frames |-> 0]
        /\ actions = [generate |-> FALSE, cancel |-> FALSE, bar |-> FALSE]
    BY DEF Init
  <2>2. running \in BOOLEAN /\ token \in [run : Nat, cancelled : BOOLEAN]
    BY <2>1
  <2>3. thread \in [at : {"none", "working", "leaving", "ended"}, run : Nat,
                    frames : Nat]
    BY <2>1
  <2>4. events \in Seq(Events)
    BY <2>1
  <2>5. actions \in [generate : BOOLEAN, cancel : BOOLEAN, bar : BOOLEAN]
    BY <2>1
  <2> QED BY <2>2, <2>3, <2>4, <2>5 DEF RunType
<1>5. WindowType
  BY DEF Init, WindowType
<1> QED BY <1>1, <1>2, <1>3, <1>4, <1>5, <1>6, TypeParts

LEMMA DocumentTyped ==
  ASSUME DocumentType, Next
  PROVE  DocumentType'
<1> USE DEF DocumentType, IsOpen
<1>1. CASE LoadProject
  <2>1. /\ edition' = edition + 1 /\ source' \in [Sections -> Sources]
        /\ modified' = FALSE /\ current' = 1
    BY <1>1 DEF LoadProject
  <2>2. edition' \in Nat
    BY <2>1
  <2>3. modified' \in BOOLEAN
    BY <2>1, Zenon
  <2>4. current' \in Sections
    BY <2>1
  <2> QED BY <2>1, <2>2, <2>3, <2>4
<1>2. CASE EditSource
  <2>1. PICK s \in Sources : Change([source EXCEPT ![current] = s])
    BY <1>2 DEF EditSource
  <2>2. /\ edition' = edition + 1 /\ source' = [source EXCEPT ![current] = s]
        /\ modified' = TRUE /\ current' = current /\ IsOpen
    BY <1>2, <2>1 DEF EditSource, Change
  <2> QED BY <2>2
<1>7. CASE UndoChange
  <2>1. PICK sources \in [Sections -> Sources] : Change(sources)
    BY <1>7 DEF UndoChange
  <2>2. /\ edition' = edition + 1 /\ source' = sources
        /\ modified' = TRUE /\ current' = current /\ IsOpen
    BY <1>7, <2>1 DEF UndoChange, Change
  <2> QED BY <2>2
<1>3. CASE SelectSection
  BY <1>3 DEF SelectSection
<1>4. CASE StartGeneration
  BY <1>4 DEF StartGeneration
<1>5. CASE AnswerSave
  BY <1>5 DEF AnswerSave
<1>6. CASE \/ ValidateProject \/ CancelGeneration \/ CloseWindow \/ AnswerQuit
           \/ DismissDialog \/ ValidationTimeout \/ ProbeTimeout
           \/ PublishIssues \/ PublishReport \/ CheckExplicit \/ HandleEvent
           \/ Validate \/ ProbeSource \/ Generate \/ Destroy
  <2>1. UNCHANGED document_vars
    BY <1>6 DEF ValidateProject, CancelGeneration, CloseWindow, AnswerQuit,
      DismissDialog, ValidationTimeout, ProbeTimeout, PublishIssues,
      PublishReport, CheckExplicit, HandleEvent, Validate, ProbeSource, Generate,
      Destroy
  <2> QED BY <2>1 DEF document_vars
<1> QED BY <1>1, <1>2, <1>3, <1>4, <1>5, <1>6, <1>7 DEF Next

LEMMA ValidationTyped ==
  ASSUME ValidationType, edition' \in Nat, ValidationMove
  PROVE  ValidationType'
<1> USE DEF ValidationType, WorkerOf
<1>1. CASE Validation!Request(edition')
  BY <1>1 DEF Validation!Request
<1>2. CASE Validation!Timeout
  <2>1. v_timer' = FALSE /\ v_result' = v_result
    BY <1>2 DEF Validation!Timeout
  <2>2. CASE UNCHANGED <<v_pending, v_worker>>
    BY <2>1, <2>2
  <2>3. CASE v_worker' = [at |-> "working", of |-> v_pending] /\ v_pending' = 0
    BY <2>1, <2>3
  <2> QED BY <1>2, <2>2, <2>3 DEF Validation!Timeout, Validation!Start
<1>3. CASE Validation!Complete
  BY <1>3 DEF Validation!Complete
<1>4. CASE Validation!Publish
  BY <1>4 DEF Validation!Publish, Validation!Start, Validation!Idle
<1>5. CASE UNCHANGED validation_vars
  BY <1>5 DEF validation_vars
<1> QED BY <1>1, <1>2, <1>3, <1>4, <1>5 DEF ValidationMove

LEMMA ProbeTyped ==
  ASSUME ProbeType, ProbeMove
  PROVE  ProbeType'
<1> USE DEF ProbeType, WorkerOf
<1>1. CASE \E s \in Sources : Probe!Request(s)
  BY <1>1 DEF Probe!Request
<1>2. CASE Probe!Timeout
  <2>1. p_timer' = FALSE /\ p_result' = p_result
    BY <1>2 DEF Probe!Timeout
  <2>2. CASE UNCHANGED <<p_pending, p_worker>>
    BY <2>1, <2>2
  <2>3. CASE p_worker' = [at |-> "working", of |-> p_pending] /\ p_pending' = None
    BY <2>1, <2>3
  <2> QED BY <1>2, <2>2, <2>3 DEF Probe!Timeout, Probe!Start
<1>3. CASE Probe!Complete
  BY <1>3 DEF Probe!Complete
<1>4. CASE Probe!Publish
  BY <1>4 DEF Probe!Publish, Probe!Start, Probe!Idle
<1>5. CASE UNCHANGED probe_vars
  BY <1>5 DEF probe_vars
<1> QED BY <1>1, <1>2, <1>3, <1>4, <1>5 DEF ProbeMove

LEMMA ExplicitTyped ==
  ASSUME ExplicitType, edition \in Nat, v_result \in Nat, Next
  PROVE  ExplicitType'
<1> USE DEF ExplicitType
<1>1. CASE LoadProject
  BY <1>1 DEF LoadProject
<1>2. CASE ValidateProject
  BY <1>2 DEF ValidateProject
<1>3. CASE PublishIssues
  BY <1>3 DEF PublishIssues
<1>4. CASE CheckExplicit
  <2>1. checks' \in Nat
    BY <1>4 DEF CheckExplicit
  <2>2. explicit' \in [requested : BOOLEAN, edition : Nat]
    BY <1>4 DEF CheckExplicit
  <2>3. verdict' \in [asked : Nat, of : Nat]
    BY <1>4 DEF CheckExplicit
  <2> QED BY <2>1, <2>2, <2>3
<1>5. CASE \/ EditSource \/ UndoChange \/ SelectSection \/ StartGeneration
           \/ CancelGeneration \/ CloseWindow \/ AnswerQuit \/ AnswerSave
           \/ DismissDialog \/ ValidationTimeout \/ ProbeTimeout
           \/ PublishReport \/ HandleEvent \/ Validate \/ ProbeSource
           \/ Generate \/ Destroy
  <2>1. UNCHANGED explicit_vars
    BY <1>5 DEF EditSource, UndoChange, Change, SelectSection, StartGeneration,
      CancelGeneration, CloseWindow, AnswerQuit, AnswerSave, DismissDialog,
      ValidationTimeout, ProbeTimeout, PublishReport, HandleEvent, Validate,
      ProbeSource, Generate, Destroy
  <2> QED BY <2>1 DEF explicit_vars
<1> QED BY <1>1, <1>2, <1>3, <1>4, <1>5 DEF Next

LEMMA RunTyped ==
  ASSUME RunType, Next
  PROVE  RunType'
<1> USE DEF RunType
<1>1. CASE LoadProject
  BY <1>1 DEF LoadProject, MayGenerate
<1>2. CASE StartGeneration
  BY <1>2 DEF StartGeneration
<1>3. CASE CancelGeneration \/ AnswerQuit
  BY <1>3 DEF CancelGeneration, AnswerQuit, QuitCancels, Cancelled
<1>4. CASE HandleEvent
  <2>1. running' \in BOOLEAN /\ UNCHANGED <<token, thread>>
    BY <1>4 DEF HandleEvent
  <2>2. events' \in Seq(Events)
    BY <1>4 DEF HandleEvent
  <2>3. actions' \in [generate : BOOLEAN, cancel : BOOLEAN, bar : BOOLEAN]
    <3>1. \/ actions' = actions
          \/ actions' = [generate |-> IsOpen, cancel |-> FALSE, bar |-> FALSE]
      BY <1>4 DEF HandleEvent
    <3>2. IsOpen \in BOOLEAN
      BY DEF IsOpen
    <3>3. CASE actions' = actions
      BY <3>3
    <3>4. CASE actions' = [generate |-> IsOpen, cancel |-> FALSE, bar |-> FALSE]
      BY <3>2, <3>4
    <3> QED BY <3>1, <3>3, <3>4
  <2> QED BY <2>1, <2>2, <2>3
<1>5. CASE Generate
  <2>1. UNCHANGED <<running, token, actions>>
    BY <1>5 DEF Generate
  <2>2. CASE Frame
    BY <2>1, <2>2 DEF Frame, Post, Events
  <2>3. CASE Finish
    <3>1. [kind |-> "finished", run |-> thread.run, frames |-> thread.frames] \in Events
      BY DEF Events
    <3>2. events' \in Seq(Events)
      BY <2>3, <3>1 DEF Finish, Post
    <3> QED BY <2>1, <2>3, <3>2 DEF Finish
  <2>4. CASE Leave
    BY <2>1, <2>4 DEF Leave
  <2> QED BY <1>5, <2>2, <2>3, <2>4 DEF Generate
<1>6. CASE \/ EditSource \/ UndoChange \/ SelectSection \/ ValidateProject
           \/ CloseWindow \/ AnswerSave \/ DismissDialog \/ ValidationTimeout
           \/ ProbeTimeout \/ PublishIssues \/ PublishReport \/ CheckExplicit
           \/ Validate \/ ProbeSource \/ Destroy
  <2>1. UNCHANGED run_vars
    BY <1>6 DEF EditSource, UndoChange, Change, SelectSection, ValidateProject,
      CloseWindow, AnswerSave, DismissDialog, ValidationTimeout, ProbeTimeout,
      PublishIssues, PublishReport, CheckExplicit, Validate, ProbeSource, Destroy
  <2> QED BY <2>1 DEF run_vars
<1> QED BY <1>1, <1>2, <1>3, <1>4, <1>5, <1>6 DEF Next

LEMMA WindowTyped ==
  ASSUME WindowType, Next
  PROVE  WindowType'
<1> USE DEF WindowType
<1>1. CASE \/ LoadProject \/ EditSource \/ UndoChange \/ SelectSection
           \/ ValidateProject \/ StartGeneration \/ CancelGeneration
           \/ CloseWindow
  <2>1. gestures' = gestures + 1
    BY <1>1 DEF LoadProject, EditSource, UndoChange, SelectSection,
      ValidateProject, StartGeneration, CancelGeneration, CloseWindow, Gesture
  <2>2. window' \in {window, "asking", "saving"}
    BY <1>1 DEF LoadProject, EditSource, UndoChange, Change, SelectSection,
      ValidateProject, StartGeneration, CancelGeneration, CloseWindow
  <2> QED BY <2>1, <2>2
<1>2. CASE AnswerQuit \/ AnswerSave \/ DismissDialog \/ Destroy
  BY <1>2 DEF AnswerQuit, AnswerSave, DismissDialog, Destroy
<1>3. CASE CheckExplicit \/ HandleEvent
  BY <1>3 DEF CheckExplicit, HandleEvent
<1>4. CASE \/ ValidationTimeout \/ ProbeTimeout \/ PublishIssues
           \/ PublishReport \/ Validate \/ ProbeSource \/ Generate
  BY <1>4 DEF ValidationTimeout, ProbeTimeout, PublishIssues, PublishReport,
    Validate, ProbeSource, Generate
<1> QED BY <1>1, <1>2, <1>3, <1>4 DEF Next

LEMMA TypeStep == TypeOK /\ [Next]_vars => TypeOK'
<1> SUFFICES ASSUME TypeOK, [Next]_vars PROVE TypeOK'
  OBVIOUS
<1>1. CASE Next
  <2>1. DocumentType' /\ ExplicitType' /\ RunType' /\ WindowType'
    BY <1>1, TypeParts, DocumentTyped, ExplicitTyped, RunTyped, WindowTyped
      DEF DocumentType, ValidationType
  <2>2. ValidationType'
    BY <1>1, <2>1, TypeParts, ValidationMoves, ValidationTyped DEF DocumentType
  <2>3. ProbeType'
    BY <1>1, <2>1, TypeParts, ProbeMoves, ProbeTyped DEF DocumentType
  <2> QED BY <2>1, <2>2, <2>3 DEF TypeOK, DocumentType, ValidationType,
    ProbeType, ExplicitType, RunType, WindowType, IsOpen
<1>2. CASE UNCHANGED vars
  BY <1>2 DEF TypeOK, vars, document_vars, validation_vars, probe_vars,
    explicit_vars, run_vars, IsOpen
<1> QED BY <1>1, <1>2

(* Every value the window handles is of the kind its variable is declared     *)
(* for, through any number of gestures, runs and results.                     *)
THEOREM WindowTypes == Spec => []TypeOK
BY TypeInit, TypeStep, PTL DEF Spec

-------------------------------------------------------------------------------
(* Requests.                                                                  *)

LEMMA ValidationNotStranded ==
  ASSUME ValidationType, Validation!NotStranded, ValidationMove
  PROVE  Validation!NotStranded'
<1> USE DEF ValidationType, WorkerOf, Validation!NotStranded, Validation!Active
<1>1. CASE Validation!Request(edition')
  BY <1>1 DEF Validation!Request
<1>2. CASE Validation!Timeout
  BY <1>2 DEF Validation!Timeout, Validation!Start
<1>3. CASE Validation!Complete
  BY <1>3 DEF Validation!Complete
<1>4. CASE Validation!Publish
  BY <1>4 DEF Validation!Publish, Validation!Start, Validation!Idle
<1>5. CASE UNCHANGED validation_vars
  BY <1>5 DEF validation_vars
<1> QED BY <1>1, <1>2, <1>3, <1>4, <1>5 DEF ValidationMove

LEMMA ProbeNotStranded ==
  ASSUME ProbeType, Probe!NotStranded, ProbeMove
  PROVE  Probe!NotStranded'
<1> USE DEF ProbeType, WorkerOf, Probe!NotStranded, Probe!Active
<1>1. CASE \E s \in Sources : Probe!Request(s)
  BY <1>1 DEF Probe!Request
<1>2. CASE Probe!Timeout
  BY <1>2 DEF Probe!Timeout, Probe!Start
<1>3. CASE Probe!Complete
  BY <1>3 DEF Probe!Complete
<1>4. CASE Probe!Publish
  BY <1>4 DEF Probe!Publish, Probe!Start, Probe!Idle
<1>5. CASE UNCHANGED probe_vars
  BY <1>5 DEF probe_vars
<1> QED BY <1>1, <1>2, <1>3, <1>4, <1>5 DEF ProbeMove

LEMMA NotStrandedStep ==
  TypeOK /\ TypeOK' /\ RequestsNotStranded /\ [Next]_vars => RequestsNotStranded'
<1> SUFFICES ASSUME TypeOK, TypeOK', RequestsNotStranded, [Next]_vars
             PROVE  RequestsNotStranded'
  OBVIOUS
<1>1. CASE Next
  BY <1>1, TypeParts, ValidationMoves, ProbeMoves, ValidationNotStranded,
    ProbeNotStranded DEF RequestsNotStranded, TypeOK
<1>2. CASE UNCHANGED vars
  BY <1>2 DEF vars, validation_vars, probe_vars, RequestsNotStranded,
    Validation!NotStranded, Probe!NotStranded, Validation!Active, Probe!Active
<1> QED BY <1>1, <1>2

LEMMA NotStrandedInit == Init => RequestsNotStranded
BY DEF Init, RequestsNotStranded, Validation!LatestInit, Probe!LatestInit,
  Validation!NotStranded, Probe!NotStranded

(* No request to validate or to probe is ever left waiting with neither a     *)
(* timer nor a worker to take it up.                                          *)
THEOREM NoRequestStranded == Spec => []RequestsNotStranded
<1>1. Init => TypeOK /\ RequestsNotStranded
  BY TypeInit, NotStrandedInit
<1>2. TypeOK /\ RequestsNotStranded /\ [Next]_vars => (TypeOK /\ RequestsNotStranded)'
  BY TypeStep, NotStrandedStep
<1> QED BY <1>1, <1>2, PTL DEF Spec

-------------------------------------------------------------------------------
(* Explicit validation.  The newest request stays the newest until another is *)
(* made, and what is in hand only changes to it.                              *)

LEMMA NewestAfterRequest ==
  ASSUME ValidationType, edition' \in Nat, edition' > 0,
         Validation!Request(edition')
  PROVE  Validation!Newest' = edition' /\ InHand' = InHand
BY DEF Validation!Request, Validation!Newest, InHand, Validation!Active

LEMMA NewestOtherwise ==
  ASSUME ValidationType,
         \/ Validation!Timeout \/ Validation!Complete \/ UNCHANGED validation_vars
  PROVE  Validation!Newest' = Validation!Newest /\ InHand' \in {InHand, Validation!Newest}
<1> USE DEF ValidationType, WorkerOf, Validation!Newest, InHand, Validation!Active
<1>1. CASE Validation!Timeout
  BY <1>1 DEF Validation!Timeout, Validation!Start
<1>2. CASE Validation!Complete
  BY <1>2 DEF Validation!Complete
<1>3. CASE UNCHANGED validation_vars
  BY <1>3 DEF validation_vars
<1> QED BY <1>1, <1>2, <1>3

LEMMA NewestAfterPublish ==
  ASSUME ValidationType, Validation!Publish
  PROVE  Validation!Newest' = Validation!Newest /\ InHand' = Validation!Newest
BY DEF ValidationType, WorkerOf, Validation!Newest, InHand, Validation!Active,
  Validation!Publish, Validation!Start, Validation!Idle

LEMMA NewestIsEdition ==
  ASSUME ValidationType
  PROVE  Validation!Newest \in Nat /\ InHand \in Nat
BY DEF ValidationType, WorkerOf, Validation!Newest, InHand, Validation!Active

LEMMA AnswerStep ==
  TypeOK /\ TypeOK' /\ AnswerComing /\ VerdictAnswersRequest /\ [Next]_vars
    => (AnswerComing /\ VerdictAnswersRequest)'
<1> SUFFICES ASSUME TypeOK, TypeOK', AnswerComing, VerdictAnswersRequest, [Next]_vars
             PROVE  (AnswerComing /\ VerdictAnswersRequest)'
  OBVIOUS
<1>a. ValidationType /\ ExplicitType /\ edition \in Nat
  BY TypeParts DEF DocumentType
<1>b. edition' \in Nat
  BY DEF TypeOK
<1>c. /\ Validation!Newest \in Nat /\ InHand \in Nat
  BY <1>a, NewestIsEdition
<1>1. CASE LoadProject
  <2>1. edition' > 0 /\ Validation!Request(edition') /\ edition' = edition + 1
    BY <1>1, <1>a DEF LoadProject
  <2>2. explicit' = [explicit EXCEPT !.requested = FALSE] /\ verdict' = verdict
    BY <1>1 DEF LoadProject
  <2>3. explicit'.requested = FALSE /\ explicit'.edition = explicit.edition
    BY <2>2, <1>a DEF ExplicitType
  <2> QED BY <2>1, <2>2, <2>3, <1>a DEF AnswerComing, VerdictAnswersRequest, ExplicitType
<1>2. CASE EditSource \/ UndoChange
  <2>1. Validation!Request(edition') /\ edition' = edition + 1 /\ UNCHANGED explicit_vars
    BY <1>2 DEF EditSource, UndoChange, Change
  <2>2. edition' > 0
    BY <2>1, <1>a
  <2>3. Validation!Newest' = edition' /\ InHand' = InHand
    BY <1>a, <1>b, <2>1, <2>2, NewestAfterRequest
  <2> QED BY <2>1, <2>3, <1>a, <1>c DEF AnswerComing, VerdictAnswersRequest,
    ExplicitType, explicit_vars
<1>3. CASE ValidateProject
  <2>1. /\ Validation!Request(edition) /\ edition' = edition
        /\ UNCHANGED <<checks, verdict>> /\ (explicit.requested \/ checks = 0)
        /\ explicit' = IF explicit.requested THEN explicit
                       ELSE [requested |-> TRUE, edition |-> edition]
    BY <1>3 DEF ValidateProject, document_vars
  <2>2. edition' > 0 /\ Validation!Request(edition')
    BY <1>3, <2>1 DEF ValidateProject, IsOpen, Validation!Request
  <2>3. Validation!Newest' = edition' /\ InHand' = InHand
    BY <1>a, <1>b, <2>2, NewestAfterRequest
  <2> QED BY <2>1, <2>3, <1>a, <1>c DEF AnswerComing, VerdictAnswersRequest,
    ExplicitType
<1>4. CASE PublishIssues
  <2>1. /\ Validation!Publish /\ edition' = edition
        /\ UNCHANGED <<explicit, verdict>>
    BY <1>4 DEF PublishIssues, document_vars
  <2>2. Validation!Newest' = Validation!Newest /\ InHand' = Validation!Newest
    BY <1>a, <2>1, NewestAfterPublish
  <2> QED BY <2>1, <2>2, <1>a, <1>c DEF AnswerComing, VerdictAnswersRequest,
    ExplicitType
<1>5. CASE CheckExplicit
  <2>1. UNCHANGED validation_vars /\ edition' = edition /\ checks > 0
    BY <1>5 DEF CheckExplicit, document_vars
  <2>2. /\ Validation!Newest' = Validation!Newest /\ InHand' = InHand
    BY <2>1 DEF validation_vars, Validation!Newest, InHand, Validation!Active
  <2>3. CASE Settled
    <3>1. /\ verdict' = [asked |-> explicit.edition, of |-> v_result]
          /\ explicit' = [explicit EXCEPT !.requested = FALSE]
      BY <1>5, <2>3 DEF CheckExplicit
    <3>2. InHand = v_result /\ v_result >= explicit.edition
      BY <2>1, <2>3 DEF Settled, InHand, AnswerComing
    <3> QED BY <3>1, <3>2, <2>1, <1>a DEF AnswerComing, VerdictAnswersRequest,
      ExplicitType
  <2>4. CASE ~Settled
    <3>1. UNCHANGED <<verdict, explicit>>
      BY <1>5, <2>4 DEF CheckExplicit
    <3> QED BY <3>1, <2>1, <2>2 DEF AnswerComing, VerdictAnswersRequest
  <2> QED BY <2>3, <2>4
<1>6. CASE ValidationTimeout \/ Validate
  <2>1. /\ Validation!Timeout \/ Validation!Complete
        /\ UNCHANGED explicit_vars /\ edition' = edition
    BY <1>6 DEF ValidationTimeout, Validate, document_vars
  <2>2. Validation!Newest' = Validation!Newest /\ InHand' \in {InHand, Validation!Newest}
    BY <2>1, <1>a, NewestOtherwise
  <2> QED BY <2>1, <2>2, <1>a, <1>c DEF AnswerComing, VerdictAnswersRequest,
    ExplicitType, explicit_vars
<1>7. CASE \/ SelectSection \/ StartGeneration \/ CancelGeneration \/ CloseWindow
           \/ AnswerQuit \/ AnswerSave \/ DismissDialog \/ ProbeTimeout
           \/ PublishReport \/ HandleEvent \/ ProbeSource \/ Generate
           \/ Destroy \/ UNCHANGED vars
  <2>1. UNCHANGED validation_vars /\ UNCHANGED explicit_vars
    BY <1>7 DEF SelectSection, StartGeneration, CancelGeneration, CloseWindow,
      AnswerQuit, AnswerSave, DismissDialog, ProbeTimeout, PublishReport,
      HandleEvent, ProbeSource, Generate, Destroy, vars
  <2>2. edition' = edition
    BY <1>7 DEF SelectSection, StartGeneration, CancelGeneration, CloseWindow,
      AnswerQuit, AnswerSave, DismissDialog, ProbeTimeout, PublishReport,
      HandleEvent, ProbeSource, Generate, Destroy, vars, document_vars
  <2> QED BY <2>1, <2>2 DEF validation_vars, explicit_vars, AnswerComing,
    VerdictAnswersRequest, Validation!Newest, InHand, Validation!Active
<1> QED BY <1>1, <1>2, <1>3, <1>4, <1>5, <1>6, <1>7 DEF Next

LEMMA AnswerInit == Init => AnswerComing /\ VerdictAnswersRequest
BY DEF Init, AnswerComing, VerdictAnswersRequest

(* The verdict shown is never older than the question.                        *)
THEOREM VerdictIsAnAnswer == Spec => []VerdictAnswersRequest
<1> DEFINE Inv == TypeOK /\ AnswerComing /\ VerdictAnswersRequest
<1>1. Init => Inv
  BY TypeInit, AnswerInit
<1>2. Inv /\ [Next]_vars => Inv'
  BY TypeStep, AnswerStep
<1>3. Inv => VerdictAnswersRequest
  OBVIOUS
<1> QED BY <1>1, <1>2, <1>3, PTL DEF Spec

-------------------------------------------------------------------------------
(* The generation run.  What is queued, in terms of the thread that queued    *)
(* it: nothing once the window has taken the end of the run.                  *)

ShownInMenu ==
  /\ actions.cancel = running /\ actions.bar = running
  /\ actions.generate = (IsOpen /\ ~running)

OneRun ==
  /\ LiveThread => thread.run = token.run
  /\ thread.at = "working" => running

ReportsOf(evs, run) ==
  \A i \in 1..Len(evs) :
    /\ evs[i].run = run
    /\ \A j \in 1..(i - 1) : evs[j].frames <= evs[i].frames

EndsLast(evs, ended) ==
  \A i \in 1..Len(evs) : evs[i].kind = "finished" <=> i = Len(evs) /\ ended

AtMost(evs, frames) == \A i \in 1..Len(evs) : evs[i].frames <= frames

RunInvariant ==
  /\ ShownInMenu /\ OneRun
  /\ ~running => events = << >>
  /\ ReportsOf(events, token.run)
  /\ EndsLast(events, thread.at # "working")
  /\ thread.at = "working" => AtMost(events, thread.frames)

LEMMA RunInvariantShows == TypeOK /\ RunInvariant => RunShownTruthfully /\ ReportsGrow
<1> SUFFICES ASSUME TypeOK, RunInvariant PROVE RunShownTruthfully /\ ReportsGrow
  OBVIOUS
<1>1. ReportsGrow
  BY DEF RunInvariant, ReportsGrow, AtMost
<1>2. ASSUME NEW i \in 1..Len(events)
      PROVE  /\ running /\ events[i].run = token.run
             /\ events[i].kind = "finished" <=> i = Len(events) /\ thread.at # "working"
             /\ \A j \in 1..(i - 1) : events[j].frames <= events[i].frames
  <2>1. running
    BY <1>2 DEF RunInvariant
  <2> QED BY <1>2, <2>1 DEF RunInvariant, ReportsOf, EndsLast
<1> QED BY <1>1, <1>2 DEF RunInvariant, RunShownTruthfully, ShownInMenu, OneRun

(* Taking the first report, and adding one.                                   *)
LEMMA ReportsTail ==
  ASSUME NEW evs \in Seq(Events), evs # << >>, NEW run, NEW ended \in BOOLEAN,
         ReportsOf(evs, run), EndsLast(evs, ended)
  PROVE  ReportsOf(Tail(evs), run) /\ EndsLast(Tail(evs), ended)
<1> DEFINE t == Tail(evs)
<1>1. /\ Len(t) = Len(evs) - 1 /\ Len(evs) \in Nat
      /\ \A i \in 1..Len(t) : t[i] = evs[i + 1]
  OBVIOUS
<1> HIDE DEF t
<1>2. ReportsOf(t, run)
  <2> SUFFICES ASSUME NEW i \in 1..Len(t)
               PROVE  t[i].run = run /\ \A j \in 1..(i - 1) : t[j].frames <= t[i].frames
    BY DEF ReportsOf
  <2>1. i + 1 \in 1..Len(evs) /\ t[i] = evs[i + 1]
    BY <1>1
  <2>2. \A j \in 1..(i - 1) : j + 1 \in 1..((i + 1) - 1) /\ t[j] = evs[j + 1]
    BY <1>1
  <2> QED BY <2>1, <2>2 DEF ReportsOf
<1>3. EndsLast(t, ended)
  BY <1>1 DEF EndsLast
<1> QED BY <1>2, <1>3 DEF t

LEMMA AtMostTail ==
  ASSUME NEW evs \in Seq(Events), evs # << >>, NEW frames, AtMost(evs, frames)
  PROVE  AtMost(Tail(evs), frames)
<1> DEFINE t == Tail(evs)
<1>1. /\ Len(t) = Len(evs) - 1 /\ Len(evs) \in Nat
      /\ \A i \in 1..Len(t) : t[i] = evs[i + 1]
  OBVIOUS
<1> HIDE DEF t
<1>2. AtMost(t, frames)
  BY <1>1 DEF AtMost
<1> QED BY <1>2 DEF t

LEMMA ReportsAppend ==
  ASSUME NEW evs \in Seq(Events), NEW e \in Events, NEW frames \in Nat,
         frames <= e.frames,
         ReportsOf(evs, e.run), AtMost(evs, frames), EndsLast(evs, FALSE)
  PROVE  /\ ReportsOf(Append(evs, e), e.run)
         /\ EndsLast(Append(evs, e), e.kind = "finished")
         /\ AtMost(Append(evs, e), e.frames)
<1> DEFINE a == Append(evs, e)
<1>1. /\ Len(a) = Len(evs) + 1 /\ Len(evs) \in Nat /\ a[Len(a)] = e
      /\ \A i \in 1..Len(evs) : a[i] = evs[i]
  OBVIOUS
<1>2. e.frames \in Nat /\ \A i \in 1..Len(evs) : evs[i].frames \in Nat
  <2>1. \A i \in 1..Len(evs) : evs[i] \in Events
    OBVIOUS
  <2> QED BY <2>1 DEF Events
<1> HIDE DEF a
<1>3. \A i \in 1..Len(evs) : evs[i].frames <= e.frames
  BY <1>2 DEF AtMost
<1>4. ReportsOf(a, e.run)
  <2> SUFFICES ASSUME NEW i \in 1..Len(a)
               PROVE  a[i].run = e.run /\ \A j \in 1..(i - 1) : a[j].frames <= a[i].frames
    BY DEF ReportsOf
  <2>1. CASE i \in 1..Len(evs)
    BY <2>1, <1>1 DEF ReportsOf
  <2>2. CASE i = Len(a)
    BY <2>2, <1>1, <1>3
  <2> QED BY <2>1, <2>2, <1>1
<1>5. EndsLast(a, e.kind = "finished")
  BY <1>1 DEF EndsLast
<1>6. AtMost(a, e.frames)
  BY <1>1, <1>2, <1>3 DEF AtMost
<1> QED BY <1>4, <1>5, <1>6 DEF a

LEMMA RunInvariantInit == Init => RunInvariant
<1> SUFFICES ASSUME Init PROVE RunInvariant
  OBVIOUS
<1>1. /\ edition = 0 /\ running = FALSE /\ events = << >>
      /\ thread.at = "none" /\ ~LiveThread
      /\ actions = [generate |-> FALSE, cancel |-> FALSE, bar |-> FALSE]
  BY DEF Init, LiveThread
<1>2. ShownInMenu
  <2>1. actions.cancel = FALSE /\ actions.bar = FALSE /\ actions.generate = FALSE
    BY <1>1
  <2>2. ~IsOpen
    BY <1>1 DEF IsOpen
  <2> QED BY ONLY <1>1, <2>1, <2>2, Zenon DEF ShownInMenu
<1>3. ReportsOf(events, token.run) /\ EndsLast(events, thread.at # "working")
  BY <1>1 DEF ReportsOf, EndsLast
<1> QED BY <1>1, <1>2, <1>3 DEF RunInvariant, OneRun

(* The run's state after a step that leaves it alone but for the token's      *)
(* cancellation, of a window that stays as open as it was.                    *)
LEMMA RunInvariantKept ==
  ASSUME RunInvariant,
         UNCHANGED <<running, thread, events, actions>>, token'.run = token.run,
         IsOpen' = IsOpen
  PROVE  RunInvariant'
BY DEF RunInvariant, ShownInMenu, OneRun, LiveThread

LEMMA RunInvariantStep ==
  TypeOK /\ RunInvariant /\ [Next]_vars => RunInvariant'
<1> SUFFICES ASSUME TypeOK, RunInvariant, [Next]_vars PROVE RunInvariant'
  OBVIOUS
<1>a. RunType /\ edition \in Nat
  BY TypeParts DEF DocumentType
<1>1. CASE LoadProject
  <2>1. /\ actions' = [actions EXCEPT !.generate = ~running] /\ edition' = edition + 1
        /\ UNCHANGED <<running, token, thread, events>>
    BY <1>1 DEF LoadProject, MayGenerate
  <2>2. ShownInMenu'
    BY <2>1, <1>a DEF RunInvariant, ShownInMenu, RunType, IsOpen
  <2> QED BY <2>1, <2>2 DEF RunInvariant, OneRun, LiveThread
<1>2. CASE EditSource \/ UndoChange
  <2>1. UNCHANGED run_vars /\ edition' = edition + 1 /\ edition > 0
    BY <1>2 DEF EditSource, UndoChange, Change, IsOpen
  <2> QED BY <2>1, <1>a, RunInvariantKept DEF run_vars, IsOpen
<1>3. CASE StartGeneration
  <2>1. /\ ~running /\ actions.generate /\ running' = TRUE
        /\ token' = [run |-> token.run + 1, cancelled |-> FALSE]
        /\ thread' = [at |-> "working", run |-> token'.run, frames |-> 0]
        /\ actions' = [generate |-> FALSE, cancel |-> TRUE, bar |-> TRUE]
        /\ UNCHANGED <<edition, events>>
    BY <1>3 DEF StartGeneration
  <2>2. events' = << >>
    BY <2>1 DEF RunInvariant
  <2>3. ShownInMenu' /\ OneRun'
    BY <2>1 DEF ShownInMenu, OneRun, LiveThread, IsOpen
  <2> QED BY <2>1, <2>2, <2>3 DEF RunInvariant, ReportsOf, EndsLast, AtMost
<1>4. CASE CancelGeneration \/ AnswerQuit
  <2>1. /\ UNCHANGED <<edition, running, thread, events, actions>>
        /\ token' \in {token, Cancelled}
    BY <1>4 DEF CancelGeneration, AnswerQuit, QuitCancels, document_vars
  <2>2. token'.run = token.run
    BY <2>1, <1>a DEF Cancelled, RunType
  <2> QED BY <2>1, <2>2, RunInvariantKept DEF IsOpen
<1>5. CASE HandleEvent
  <2>1. events # << >> /\ events' = Tail(events) /\ UNCHANGED <<edition, token, thread>>
    BY <1>5 DEF HandleEvent, document_vars
  <2>2. /\ ReportsOf(events', token'.run) /\ EndsLast(events', thread'.at # "working")
    BY <2>1, <1>a, ReportsTail DEF RunInvariant, RunType
  <2>3. thread'.at = "working" => AtMost(events', thread'.frames)
    BY <2>1, <1>a, AtMostTail DEF RunInvariant, RunType
  <2>4. running
    BY <2>1 DEF RunInvariant
  <2>5. CASE Head(events).kind = "progress"
    <3>1. UNCHANGED <<running, actions>>
      BY <1>5, <2>5 DEF HandleEvent
    <3> QED BY <2>1, <2>2, <2>3, <2>4, <3>1 DEF RunInvariant, ShownInMenu, OneRun,
      LiveThread, IsOpen
  <2>6. CASE Head(events).kind # "progress"
    <3>1. /\ running' = FALSE
          /\ actions' = [generate |-> IsOpen, cancel |-> FALSE, bar |-> FALSE]
      BY <1>5, <2>6 DEF HandleEvent
    <3>2. Head(events) = events[1] /\ events[1] \in Events /\ 1 \in 1..Len(events)
      BY <2>1, <1>a DEF RunType
    <3>3. events[1].kind = "finished"
      BY <2>6, <3>2 DEF Events
    <3>4. Len(events) = 1 /\ thread.at # "working"
      BY <3>2, <3>3 DEF RunInvariant, EndsLast
    <3>5. events' = << >>
      BY <2>1, <3>4, <1>a DEF RunType
    <3>6. ShownInMenu'
      <4>1. actions'.cancel = FALSE /\ actions'.bar = FALSE
        BY <3>1
      <4>2. actions'.generate = IsOpen
        BY <3>1
      <4>3. IsOpen' = IsOpen
        BY <2>1 DEF IsOpen
      <4>4. (IsOpen' /\ ~running') = IsOpen'
        <5>1. IsOpen' \in BOOLEAN
          BY DEF IsOpen
        <5> QED BY ONLY <5>1, <3>1, Zenon
      <4> QED BY ONLY <3>1, <4>1, <4>2, <4>3, <4>4, Zenon DEF ShownInMenu
    <3> QED BY <2>1, <2>2, <2>3, <3>1, <3>4, <3>5, <3>6 DEF RunInvariant, OneRun,
      LiveThread
  <2> QED BY <2>5, <2>6
<1>6. CASE Generate
  <2>1. UNCHANGED <<edition, running, token, actions>>
    BY <1>6 DEF Generate, document_vars
  <2>2. CASE Frame \/ Finish
    <3>1. thread.at = "working" /\ running /\ thread.run = token.run
      BY <2>2 DEF Frame, Finish, RunInvariant, OneRun, LiveThread
    <3>2. PICK e \in Events :
            /\ events' = Append(events, e) /\ e.run = thread.run
            /\ thread.frames <= e.frames
            /\ thread'.run = thread.run
            /\ \/ /\ e.kind = "progress" /\ thread'.at = "working"
                  /\ thread'.frames = e.frames
               \/ e.kind = "finished" /\ thread'.at = "leaving"
      <4>1. CASE Frame
        <5> DEFINE e == [kind |-> "progress", run |-> thread.run, frames |-> thread.frames + 1]
        <5>1. e \in Events
          BY <1>a DEF RunType, Events
        <5> QED BY <4>1, <5>1, <1>a DEF RunType, Frame, Post
      <4>2. CASE Finish
        <5> DEFINE e == [kind |-> "finished", run |-> thread.run, frames |-> thread.frames]
        <5>1. e \in Events
          BY <1>a DEF RunType, Events
        <5> QED BY <4>2, <5>1, <1>a DEF RunType, Finish, Post
      <4> QED BY <2>2, <4>1, <4>2
    <3>3. EndsLast(events, FALSE) /\ AtMost(events, thread.frames) /\ ReportsOf(events, e.run)
      BY <3>1, <3>2 DEF RunInvariant, EndsLast
    <3>4. /\ ReportsOf(events', e.run) /\ AtMost(events', e.frames)
          /\ EndsLast(events', e.kind = "finished")
      BY <3>2, <3>3, <1>a, ReportsAppend DEF RunType
    <3>5. (e.kind = "finished") = (thread'.at # "working")
      BY <3>2
    <3>6. EndsLast(events', thread'.at # "working")
      BY <3>4, <3>5
    <3> QED BY <2>1, <3>1, <3>2, <3>4, <3>6 DEF RunInvariant, ShownInMenu, OneRun,
      LiveThread, IsOpen
  <2>3. CASE Leave
    <3>1. thread.at = "leaving" /\ thread'.at = "ended" /\ UNCHANGED events
      BY <2>3, <1>a DEF Leave, RunType
    <3> QED BY <2>1, <3>1 DEF RunInvariant, ShownInMenu, OneRun, LiveThread,
      EndsLast, IsOpen
  <2> QED BY <1>6, <2>2, <2>3 DEF Generate
<1>7. CASE \/ SelectSection \/ ValidateProject \/ CloseWindow \/ AnswerSave
           \/ DismissDialog \/ ValidationTimeout \/ ProbeTimeout
           \/ PublishIssues \/ PublishReport \/ CheckExplicit
           \/ Validate \/ ProbeSource \/ Destroy \/ UNCHANGED vars
  <2>1. UNCHANGED run_vars /\ edition' = edition
    BY <1>7 DEF SelectSection, ValidateProject, CloseWindow, AnswerSave,
      DismissDialog, ValidationTimeout, ProbeTimeout, PublishIssues, PublishReport,
      CheckExplicit, Validate, ProbeSource, Destroy, vars, document_vars
  <2> QED BY <2>1, RunInvariantKept DEF run_vars, IsOpen
<1> QED BY <1>1, <1>2, <1>3, <1>4, <1>5, <1>6, <1>7 DEF Next

(* Menu, bar and queued reports are about the one run there is.               *)
THEOREM RunIsShownTruthfully == Spec => []RunShownTruthfully
<1>1. Init => TypeOK /\ RunInvariant
  BY TypeInit, RunInvariantInit
<1>2. TypeOK /\ RunInvariant /\ [Next]_vars => (TypeOK /\ RunInvariant)'
  BY TypeStep, RunInvariantStep
<1>3. TypeOK /\ RunInvariant => RunShownTruthfully
  BY RunInvariantShows
<1> QED BY <1>1, <1>2, <1>3, PTL DEF Spec

-------------------------------------------------------------------------------
(* Quitting.  The window is asked about unsaved changes only when no run goes *)
(* on or its cancellation has been asked for, and starts no run from there.   *)

LEMMA AskedFirstStep ==
  TypeOK /\ RunInvariant /\ AskedFirst /\ [Next]_vars => AskedFirst'
<1> SUFFICES ASSUME TypeOK, RunInvariant, AskedFirst, [Next]_vars PROVE AskedFirst'
  OBVIOUS
<1>a. RunType
  BY TypeParts
<1>1. CASE StartGeneration
  BY <1>1 DEF StartGeneration, Gesture, AskedFirst
<1>2. CASE CancelGeneration
  BY <1>2 DEF CancelGeneration, Gesture, AskedFirst
<1>3. CASE CloseWindow
  <2>1. thread' = thread /\ window' = IF running THEN "asking" ELSE "saving"
    BY <1>3 DEF CloseWindow, run_vars
  <2> QED BY <2>1 DEF AskedFirst, RunInvariant, OneRun
<1>4. CASE AnswerQuit
  <2>1. thread' = thread /\ (window' = "open" \/ token' = Cancelled)
    BY <1>4 DEF AnswerQuit, QuitCancels
  <2>2. thread.at = "working" => Cancelled.cancelled
    BY <1>a DEF Cancelled, RunInvariant, OneRun, RunType
  <2> QED BY <2>1, <2>2 DEF AskedFirst
<1>5. CASE CheckExplicit \/ HandleEvent
  <2>1. thread' = thread /\ token' = token /\ window' \in {window, "dialog"}
    BY <1>5 DEF CheckExplicit, HandleEvent, run_vars
  <2> QED BY <2>1 DEF AskedFirst
<1>6. CASE Generate
  <2>1. token' = token /\ window' = window /\ (thread'.at = "working" => thread.at = "working")
    BY <1>6, <1>a DEF Generate, Frame, Finish, Leave, RunType
  <2> QED BY <2>1 DEF AskedFirst
<1>7. CASE \/ LoadProject \/ EditSource \/ UndoChange \/ SelectSection
           \/ ValidateProject \/ ValidationTimeout \/ ProbeTimeout
           \/ PublishIssues \/ PublishReport \/ Validate \/ ProbeSource
           \/ UNCHANGED vars
  <2>1. UNCHANGED <<token, thread, window>>
    BY <1>7 DEF LoadProject, EditSource, UndoChange, Change, SelectSection,
      ValidateProject, ValidationTimeout, ProbeTimeout, PublishIssues,
      PublishReport, Validate, ProbeSource, run_vars, vars
  <2> QED BY <2>1 DEF AskedFirst
<1>8. CASE AnswerSave \/ DismissDialog \/ Destroy
  <2>1. /\ UNCHANGED <<token, thread>>
        /\ \/ window' = "open" \/ window \in {"saving", "closing"}
    BY <1>8 DEF AnswerSave, DismissDialog, Destroy, run_vars
  <2> QED BY <2>1 DEF AskedFirst
<1> QED BY <1>1, <1>2, <1>3, <1>4, <1>5, <1>6, <1>7, <1>8 DEF Next

(* A window that closes over a working run has cancelled it.                  *)
THEOREM QuittingCancels == Spec => []QuitCancelsRun
<1> DEFINE Inv == TypeOK /\ RunInvariant /\ AskedFirst
<1>1. Init => Inv
  <2>1. Init => AskedFirst
    BY DEF Init, AskedFirst
  <2> QED BY <2>1, TypeInit, RunInvariantInit
<1>2. Inv /\ [Next]_vars => Inv'
  BY TypeStep, RunInvariantStep, AskedFirstStep
<1>3. Inv => QuitCancelsRun
  BY DEF AskedFirst, QuitCancelsRun, Alive
<1> QED BY <1>1, <1>2, <1>3, PTL DEF Spec
===============================================================================
