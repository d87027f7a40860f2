----------------------------- MODULE ProjectWindow -----------------------------
(***************************************************************************)
(* The GUI around a ProjectDocument: the section list (gui/section_list_   *)
(* dock.cpp), the section editor's commit (gui/section_editor.cpp) and the *)
(* main window's open, save, undo and settings dialog. A gesture of the    *)
(* user queues the calls of its handler; one action runs one call, and the *)
(* next gesture waits until the handler has returned.                      *)
(***************************************************************************)
EXTENDS ProjectDocument, FiniteSets

CONSTANTS
  Files,        \* the projects that can be opened
  Styles,       \* what a section can hold besides its name
  Values,       \* what a settings slice can hold
  MaxGestures,  \* bound: editing gestures on one project
  MaxSections   \* bound: sections of a project

(* A project: its settings, and its sections, of which the model keeps the *)
(* name and one more field. A name is made of numbers.                     *)
Section  == [name : Seq(Nat), style : Styles]
Projects == [settings : Seq(Values), sections : Seq(Section)]

ASSUME BoundsAssumption == MaxGestures \in Nat /\ MaxSections \in Nat
ASSUME FilesAssumption  == Files \subseteq Projects
ASSUME NoneAssumption   == None \notin Nat

VARIABLES
  selected,  \* the rows selected in the section list
  current,   \* its current row, None without one; the editor edits it
  file,      \* the contents of the project's file
  calls,     \* calls the running handler has still to make
  gestures   \* editing gestures since the project was loaded

vars == <<document_vars, selected, current, file, calls, gestures>>

Init ==
  /\ DocumentInit
  /\ selected = {} /\ current = None /\ file = NoProject /\ calls = <<>>
  /\ gestures = 0

Call(op, arg) == [op |-> op, arg |-> arg]
Do(command)   == Call("Submit", command)
(* A ScopedUndoBatch, opened when the gesture is on more than one row.     *)
Batched(many, cs) ==
  IF many THEN <<Call("BeginBatch", None)>> \o cs \o <<Call("EndBatch", None)>>
          ELSE cs
Reselect(first, rows) == <<Call("Select", [first |-> first, rows |-> rows])>>

Count       == Len(project.sections)
Rows        == 1 .. Count
Sorted(set) ==
  [k \in 1 .. Cardinality(set) |->
     CHOOSE r \in set : Cardinality({q \in set : q <= r}) = k]
Smallest(set) == CHOOSE r \in set : \A q \in set : r <= q
Largest(set)  == CHOOSE r \in set : \A q \in set : r >= q

(* The rows a list operation acts on: the selection or the current row.    *)
ActedOn == IF selected # {} THEN selected
           ELSE IF current # None THEN {current} ELSE {}

Ready == is_open /\ calls = <<>> /\ gestures < MaxGestures
Gesture(cs) ==
  /\ calls' = cs /\ gestures' = gestures + 1
  /\ UNCHANGED <<document_vars, selected, current, file>>

-------------------------------------------------------------------------------
(* The section list.                                                       *)

(* Clicks: a Ctrl-click may leave the current row out of the selection.    *)
Click ==
  /\ Ready
  /\ selected' \in SUBSET Rows /\ current' \in Rows
  /\ UNCHANGED <<document_vars, file, calls, gestures>>

OnAddSection ==
  /\ Ready /\ Count < MaxSections
  /\ \E style \in Styles :
       Gesture(<<Do(Command("insert", Count + 1,
                            [name |-> <<Count + 1>>, style |-> style]))>>
                 \o Reselect(Count + 1, {}))

(* From the highest row down, so that the rows still to go keep their index.*)
OnRemove ==
  /\ Ready /\ ActedOn # {}
  /\ LET rows  == Reverse(Sorted(ActedOn))
         first == rows[Len(rows)]
         above == Count - Len(rows) IN
     Gesture(Batched(Len(rows) > 1,
               [k \in DOMAIN rows |-> Do(Command("remove", rows[k], None))])
               \o Reselect(IF first < above THEN first ELSE above, {}))

OnDuplicate ==
  /\ Ready /\ ActedOn # {} /\ Count + Cardinality(ActedOn) <= MaxSections
  /\ LET rows == Sorted(ActedOn)
         last == Largest(ActedOn) IN
     Gesture(Batched(Len(rows) > 1,
               [k \in DOMAIN rows |->
                  Call("Duplicate", [row |-> rows[k], to |-> last + k])])
               \o Reselect(last + 1, last + 1 .. last + Len(rows)))

(* MakeDuplicateSection: "(copy)", "(copy 2)" and so on, the first unused.  *)
Duplicated(s) ==
  LET taken == {project.sections[r].name : r \in Rows}
      free  == {k \in 1 .. Count + 1 : Append(s.name, k) \notin taken} IN
  [s EXCEPT !.name = Append(s.name, Smallest(free))]

(***************************************************************************)
(* PlanMoveSectionsUp and PlanMoveSectionsDown: rows packed against the    *)
(* edge stay, every other row moves by one; the rows nearest to the edge   *)
(* move first.                                                             *)
(***************************************************************************)
PlanMoveSectionsUp(rows) == Sorted({r \in rows : ~(1 .. r \subseteq rows)})

(* Mutant: a packed block slides. *)
PlanAllDown(rows) == Reverse(Sorted({r \in rows : r < Count}))
PlanMoveSectionsDown(rows) ==
  Reverse(Sorted({r \in rows : ~(r .. Count \subseteq rows)}))

ApplyMovePlan(moving, by) ==
  LET MovedTo(r) == IF r \in ToSet(moving) THEN r + by ELSE r
      first      == IF current # None THEN current ELSE 1 IN
  /\ Ready /\ moving # <<>>
  /\ Gesture(Batched(Len(moving) > 1,
               [k \in DOMAIN moving |->
                  Do(Command("move", moving[k], moving[k] + by))])
               \o Reselect(MovedTo(first), {MovedTo(r) : r \in ActedOn}))

OnMoveUp   == ApplyMovePlan(PlanMoveSectionsUp(ActedOn), -1)
OnMoveDown == ApplyMovePlan(PlanMoveSectionsDown(ActedOn), 1)

-------------------------------------------------------------------------------
(***************************************************************************)
(* CommitSectionToDocument: one field of the current section is edited, and the other *)
(* selected ones take what the edit changed except the name.               *)
(***************************************************************************)
CommitSection ==
  /\ Ready /\ current # None
  /\ \E section \in {[project.sections[current] EXCEPT !.name = <<0>>]}
                      \cup {[project.sections[current] EXCEPT !.style = style] :
                             style \in Styles} :
       LET before == project.sections[current]
           others == Sorted(selected \ {current})
           Mirrored(r) ==
             IF section.style = before.style THEN project.sections[r]
             ELSE [project.sections[r] EXCEPT !.style = section.style] IN
       /\ section # before
       /\ Gesture(Batched(Cardinality(selected) > 1,
                    <<Do(Command("set", current, section))>>
                      \o [k \in DOMAIN others |->
                            Do(Command("set", others[k], Mirrored(others[k])))]))

(* OnEditProject: the accepted dialog's slices are set one after the other.*)
OnEditProject ==
  /\ Ready
  /\ \E edited \in [DOMAIN project.settings -> Values] :
       Gesture([s \in DOMAIN project.settings |->
                  Do(Command("settings", s, edited[s]))])

(***************************************************************************)
(* OnSave and OnSaveAs: a file that cannot be opened stays as it is; one   *)
(* that is opened is truncated, and then written or left torn.             *)
(***************************************************************************)
Torn == None
SaveToPath ==
  /\ is_open /\ calls = <<>>
  /\ \/ file' = project /\ MarkSaved
     \/ file' = Torn /\ UNCHANGED document_vars
  /\ UNCHANGED <<selected, current, calls, gestures>>

(* OnNewProject and LoadProjectFromFile; the changes of an open project    *)
(* have been saved or are discarded.                                       *)
LoadProject ==
  /\ calls = <<>>
  /\ \E p \in Files : ResetProject(p) /\ file' = p
  /\ selected' = {} /\ current' = None
  /\ calls' = Reselect(1, {}) /\ gestures' = 0

-------------------------------------------------------------------------------
(***************************************************************************)
(* The slots of the change signals: a change of the row set resets the     *)
(* list's model and with it the view's selection; an edit keeps it.        *)
(***************************************************************************)
ResetsList(commands) ==
  \E k \in DOMAIN commands : commands[k].op \in {"insert", "remove", "move"}
ShowChanges(commands) ==
  IF ResetsList(commands) THEN selected' = {} /\ current' = None
                          ELSE UNCHANGED <<selected, current>>

UndoAction ==
  /\ is_open /\ calls = <<>>
  /\ Undo
  /\ ShowChanges(undo_stack[undo_index])
  /\ UNCHANGED <<file, calls, gestures>>

RedoAction ==
  /\ is_open /\ calls = <<>>
  /\ Redo
  /\ ShowChanges(undo_stack[undo_index'])
  /\ UNCHANGED <<file, calls, gestures>>

(* The first row becomes current and selected, then the others selected;   *)
(* a row that is not there clears the selection.                           *)
Select(first, rows) ==
  IF first \in Rows
    THEN current' = first /\ selected' = {first} \cup rows
    ELSE selected' = {} /\ UNCHANGED current

SubmitAndShow(command) ==
  /\ Submit(command)
  /\ IF Effective(command) THEN ShowChanges(<<command>>)
                           ELSE UNCHANGED <<selected, current>>

RunCall ==
  /\ calls # <<>>
  /\ calls' = Tail(calls)
  /\ UNCHANGED <<file, gestures>>
  /\ LET call == calls[1] IN
     \/ call.op = "Submit" /\ SubmitAndShow(call.arg)
     \/ call.op = "Duplicate" /\
          SubmitAndShow(Command("insert", call.arg.to,
                                Duplicated(project.sections[call.arg.row])))
     \/ call.op = "BeginBatch" /\ BeginBatch /\ UNCHANGED <<selected, current>>
     \/ call.op = "EndBatch" /\ EndBatch /\ UNCHANGED <<selected, current>>
     \/ call.op = "Select" /\ Select(call.arg.first, call.arg.rows)
                           /\ UNCHANGED document_vars

Next ==
  \/ Click \/ OnAddSection \/ OnRemove \/ OnDuplicate \/ OnMoveUp \/ OnMoveDown
  \/ CommitSection \/ OnEditProject \/ SaveToPath \/ LoadProject
  \/ UndoAction \/ RedoAction \/ RunCall

Spec == Init /\ [][Next]_vars
================================================================================
