-------------------------- MODULE ProjectWindowProps --------------------------
(***************************************************************************)
(* What the editing GUI promises: undo and redo restore the exact states   *)
(* of the project, a project that is not marked modified is the one in its *)
(* file, and list operations act on the sections the user selected.        *)
(***************************************************************************)
EXTENDS ProjectWindow

(***************************************************************************)
(* Types. The selection and the current row, which the list and the editor *)
(* use as indices into the sections, never outlive the rows they name.     *)
(***************************************************************************)
TypeOK ==
  /\ project \in Projects
  /\ is_open \in BOOLEAN /\ modified \in BOOLEAN
  /\ undo_index \in 0 .. Len(undo_stack)
  /\ saved_undo_index \in Unreachable .. Len(undo_stack)
  /\ batch_depth \in {0, 1} /\ (batch_commands # <<>> => batch_depth = 1)
  /\ selected \subseteq Rows /\ current \in Rows \cup {None}
  /\ file \in Projects \cup {Torn}

(***************************************************************************)
(* project_document.h: "The modified flag tracks the stack position of the *)
(* last save". Close, New and Open ask about unsaved changes only when it  *)
(* is set, so a project that is not modified must be the one in the file,  *)
(* whatever was undone, redone or edited over since the save. A file that  *)
(* a failed save has torn is reported to the user at once.                 *)
(***************************************************************************)
CleanMeansSaved == ~modified /\ file # Torn => project = file

(***************************************************************************)
(* The projects at the positions of the undo stack, as reverting and       *)
(* applying its entries from the present one yields them. An open batch    *)
(* counts as not made yet.                                                 *)
(***************************************************************************)
StatesOf(stack, index, p, batch) ==
  LET present == RevertEntry(batch, p).project
      back[k \in 0 .. index] ==
        IF k = index THEN present
        ELSE RevertEntry(stack[k + 1], back[k + 1]).project
      forth[k \in index .. Len(stack)] ==
        IF k = index THEN present ELSE ApplyEntry(stack[k], forth[k - 1]).project
  IN [k \in 1 .. Len(stack) + 1 |->
        IF k <= index THEN back[k - 1] ELSE forth[k - 1]]

VARIABLE states  \* auxiliary: StatesOf the document

Follow == states' = StatesOf(undo_stack', undo_index', project',
                             batch_commands')

InitWithStates == Init /\ states = <<NoProject>>
NextWithStates ==
  \/ Click /\ Follow
  \/ OnAddSection /\ Follow
  \/ OnRemove /\ Follow
  \/ OnDuplicate /\ Follow
  \/ OnMoveUp /\ Follow
  \/ OnMoveDown /\ Follow
  \/ CommitSection /\ Follow
  \/ OnEditProject /\ Follow
  \/ SaveToPath /\ Follow
  \/ LoadProject /\ Follow
  \/ UndoAction /\ Follow
  \/ RedoAction /\ Follow
  \/ RunCall /\ Follow
SpecWithStates == InitWithStates /\ [][NextWithStates]_<<vars, states>>

History == INSTANCE EditHistory
  WITH Documents <- Projects, at <- undo_index + 1

(***************************************************************************)
(* Undo and redo only move along the states the project has had: commands  *)
(* that hold swapped values, and batches undone in reverse order, restore  *)
(* each of them exactly, after any number of undos, redos and new edits.   *)
(***************************************************************************)
UndoIsExact == History!Spec

-------------------------------------------------------------------------------
(* The project and the selection that a queued handler will leave.         *)
Made(c, p) ==
  IF c.op = "Submit" /\ c.arg.index \in DOMAIN p.sections
  THEN Apply(c.arg, p).project ELSE p
After(cs) ==
  LET after[k \in 0 .. Len(cs)] ==
        IF k = 0 THEN project ELSE Made(cs[k], after[k - 1])
  IN  after[Len(cs)]
Reselected(cs) == LET last == cs[Len(cs)].arg IN {last.first} \cup last.rows
At(p, rows) == LET order == Sorted(rows) IN
               [k \in DOMAIN order |-> p.sections[order[k]]]

(***************************************************************************)
(* section_list_dock.h: moves act on "every selected row", "reselecting    *)
(* the rows at their new positions". Afterwards the same sections are      *)
(* selected, and neither they nor the others have changed their order.     *)
(***************************************************************************)
MoveKeepsSections ==
  [][(OnMoveUp \/ OnMoveDown) /\ current \in ActedOn =>
       LET p == After(calls') rows == Reselected(calls') IN
       /\ At(p, rows) = At(project, ActedOn)
       /\ At(p, Rows \ rows) = At(project, Rows \ ActedOn)]_vars

(* "Remove acts on every selected row", and on no other.                   *)
RemoveTakesSelected ==
  [][OnRemove => After(calls').sections = At(project, Rows \ ActedOn)]_vars

(* The list's gestures act on the selected sections and on no others.      *)
ListActsOnSelection == MoveKeepsSections /\ RemoveTakesSelected

(* The document's position, selection and modified flag agree with it.     *)
DocumentConsistent == TypeOK /\ CleanMeansSaved

-------------------------------------------------------------------------------
(***************************************************************************)
(* Why DocumentConsistent and UndoIsExact hold: what is true of the undo   *)
(* entries, of the saved position and of the calls still to be made,       *)
(* between any two calls.                                                  *)
(***************************************************************************)
Commands ==
  [op : {"settings"}, index : Nat, value : Values]
    \cup [op : {"insert", "remove", "set"}, index : Nat, value : Section]
    \cup [op : {"move"}, index : Nat, value : Nat]

(***************************************************************************)
(* Along the projects way[0], way[1], ... the commands of an entry lead    *)
(* from each to the next and back again; done are the commands as applied, *)
(* undone as reverted. The row set changes only if a command says so.      *)
(***************************************************************************)
Way(way, done, undone) ==
  /\ done \in Seq(Commands) /\ undone \in Seq(Commands)
  /\ Len(undone) = Len(done) /\ way \in [0 .. Len(done) -> Projects]
  /\ \A k \in 1 .. Len(done) :
       /\ Apply(undone[k], way[k - 1]) = Outcome(way[k], done[k])
       /\ Revert(done[k], way[k]) = Outcome(way[k - 1], undone[k])
       /\ undone[k].op = done[k].op
  /\ ~ResetsList(done) =>
       \A k \in 0 .. Len(done) : Len(way[k].sections) = Len(way[0].sections)

(* An applied entry can be reverted from q to p, a reverted one reapplied. *)
Done(entry, p, q) ==
  LET way == Reverted(entry, q) IN
  /\ Way(way, entry, RevertEntry(entry, q).entry)
  /\ way[0] = p /\ way[Len(entry)] = q
Undone(entry, p, q) ==
  LET way == Applied(entry, p) IN
  /\ Way(way, ApplyEntry(entry, p).entry, entry)
  /\ way[0] = p /\ way[Len(entry)] = q

StatesInStep ==
  /\ undo_stack \in Seq(Seq(Commands)) /\ batch_commands \in Seq(Commands)
  /\ states \in Seq(Projects) /\ Len(states) = Len(undo_stack) + 1
  /\ \A k \in 1 .. undo_index : Done(undo_stack[k], states[k], states[k + 1])
  /\ \A k \in undo_index + 1 .. Len(undo_stack) :
       Undone(undo_stack[k], states[k], states[k + 1])
  /\ Done(batch_commands, states[undo_index + 1], project)

(* The saved position is that of the file, and an unmodified project is at it. *)
SavedInStep ==
  /\ saved_undo_index # Unreachable /\ file # Torn =>
       states[saved_undo_index + 1] = file
  /\ ~modified => undo_index = saved_undo_index /\ batch_commands = <<>>

(* Batches are opened and closed within one handler, and do not nest.      *)
NoBatch(k) == calls[k].op \notin {"BeginBatch", "EndBatch"}
BatchInStep ==
  \/ batch_depth = 0 /\ \A k \in DOMAIN calls : NoBatch(k)
  \/ /\ batch_depth = 0 /\ calls # <<>> /\ calls[1].op = "BeginBatch"
     /\ \E m \in DOMAIN calls \ {1} :
          calls[m].op = "EndBatch" /\ \A k \in DOMAIN calls \ {1, m} : NoBatch(k)
  \/ /\ batch_depth = 1
     /\ \E m \in DOMAIN calls :
          calls[m].op = "EndBatch" /\ \A k \in DOMAIN calls \ {m} : NoBatch(k)

QueuedCommands ==
  [op : {"settings"}, index : Nat, value : Values]
    \cup [op : {"insert", "set"}, index : Nat, value : Section]
    \cup [op : {"remove"}, index : Nat, value : {None}]
    \cup [op : {"move"}, index : Nat, value : Nat]
QueuedCalls ==
  [op : {"Submit"}, arg : QueuedCommands]
    \cup [op : {"Duplicate"}, arg : [row : Nat, to : Nat \ {0}]]
    \cup [op : {"BeginBatch", "EndBatch"}, arg : {None}]
    \cup [op : {"Select"}, arg : [first : Int, rows : SUBSET (Nat \ {0})]]

(***************************************************************************)
(* A queued call names a row that is there, or will be when its turn comes *)
(* because a duplicate queued before it makes it. Nothing is removed while *)
(* such calls are queued.                                                  *)
(***************************************************************************)
Reached(r, k) ==
  \/ r <= Count
  \/ \E j \in 1 .. k - 1 : calls[j].op = "Duplicate" /\ calls[j].arg.to = r
QueueInStep ==
  /\ calls \in Seq(QueuedCalls)
  /\ \A k \in DOMAIN calls :
       /\ calls[k].op = "Submit" /\ calls[k].arg.op = "settings" =>
            calls[k].arg.index \in DOMAIN project.settings
       /\ calls[k].op = "Duplicate" =>
            calls[k].arg.row \in Rows /\ Reached(calls[k].arg.to - 1, k)
       /\ calls[k].op = "Select" => \A r \in calls[k].arg.rows : Reached(r, k)
  /\ (\E j \in DOMAIN calls :
         calls[j].op = "Submit" /\ calls[j].arg.op = "remove") =>
       \A k \in DOMAIN calls :
         /\ calls[k].op # "Duplicate"
         /\ calls[k].op = "Select" => calls[k].arg.rows = {}

DocumentInvariant ==
  /\ TypeOK /\ StatesInStep /\ SavedInStep /\ BatchInStep /\ QueueInStep
===============================================================================
