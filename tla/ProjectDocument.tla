---------------------------- MODULE ProjectDocument ----------------------------
(***************************************************************************)
(* gui/project_document.cpp: the project the GUI edits, its undo stack of  *)
(* commands and the flag that says whether it differs from its file. The   *)
(* operators whose names are verbs are the document's methods; module      *)
(* ProjectWindow calls them. Section indices start at 1 here.              *)
(***************************************************************************)
EXTENDS Integers, Sequences, SequencesExt

CONSTANTS None

Unreachable == -1   \* kSavedStateUnreachable

VARIABLES
  project,           \* project_: its settings by slice, and its sections
  is_open,           \* open_
  modified,          \* modified_
  undo_stack,        \* undo_stack_: entries of one or more commands
  undo_index,        \* undo_index_: entries that are applied
  saved_undo_index,  \* saved_undo_index_
  batch_depth,       \* batch_depth_
  batch_commands     \* batch_commands_

document_vars == <<project, is_open, modified, undo_stack, undo_index,
                   saved_undo_index, batch_depth, batch_commands>>

NoProject == [settings |-> <<>>, sections |-> <<>>]

DocumentInit ==
  /\ project = NoProject /\ is_open = FALSE /\ modified = FALSE
  /\ undo_stack = <<>> /\ undo_index = 0 /\ saved_undo_index = 0
  /\ batch_depth = 0 /\ batch_commands = <<>>

-------------------------------------------------------------------------------
(***************************************************************************)
(* Commands. Applying or reverting one yields the project and the command  *)
(* as it is afterwards: a swap holds the other value, a removal the        *)
(* section it removed.                                                     *)
(***************************************************************************)
Command(op, index, value) == [op |-> op, index |-> index, value |-> value]
Outcome(p, c)             == [project |-> p, command |-> c]

WithSections(p, s) == [p EXCEPT !.sections = s]
Inserted(p, i, s)  == WithSections(p, InsertAt(p.sections, i, s))
Erased(p, i)       == WithSections(p, RemoveAt(p.sections, i))
Moved(p, from, to) == Inserted(Erased(p, from), to, p.sections[from])

(* SwapValueCommand, SetProjectInfoCommand and SetSectionCommand.          *)
Swap(c, p) ==
  IF c.op = "settings"
    THEN Outcome([p EXCEPT !.settings[c.index] = c.value],
                 [c EXCEPT !.value = p.settings[c.index]])
    ELSE Outcome([p EXCEPT !.sections[c.index] = c.value],
                 [c EXCEPT !.value = p.sections[c.index]])

Apply(c, p) ==
  CASE c.op = "insert" -> Outcome(Inserted(p, c.index, c.value), c)
    [] c.op = "remove" -> Outcome(Erased(p, c.index),
                                  [c EXCEPT !.value = p.sections[c.index]])
    [] c.op = "move"   -> Outcome(Moved(p, c.index, c.value), c)
    [] OTHER           -> Swap(c, p)

(* Mutant: a removed section comes back at the end. *)
RevertAppending(c, p) ==
  CASE c.op = "insert" -> Outcome(Erased(p, c.index), c)
    [] c.op = "remove" -> Outcome(Inserted(p, Len(p.sections) + 1, c.value), c)
    [] c.op = "move"   -> Outcome(Moved(p, c.value, c.index), c)
    [] OTHER           -> Swap(c, p)
Revert(c, p) ==
  CASE c.op = "insert" -> Outcome(Erased(p, c.index), c)
    [] c.op = "remove" -> Outcome(Inserted(p, c.index, c.value), c)
    [] c.op = "move"   -> Outcome(Moved(p, c.value, c.index), c)
    [] OTHER           -> Swap(c, p)

(***************************************************************************)
(* An entry's commands, applied first to last or reverted last to first:   *)
(* the projects on the way, and the last one with the entry as it is then. *)
(***************************************************************************)
Applied(entry, p) ==
  LET before[k \in 0 .. Len(entry)] ==
        IF k = 0 THEN p ELSE Apply(entry[k], before[k - 1]).project
  IN before
ApplyEntry(entry, p) ==
  LET before == Applied(entry, p) IN
  [project |-> before[Len(entry)],
   entry   |-> [k \in DOMAIN entry |-> Apply(entry[k], before[k - 1]).command]]

Reverted(entry, p) ==
  LET after[k \in 0 .. Len(entry)] ==
        IF k = Len(entry) THEN p ELSE Revert(entry[k + 1], after[k + 1]).project
  IN after
RevertEntry(entry, p) ==
  LET after == Reverted(entry, p) IN
  [project |-> after[0],
   entry   |-> [k \in DOMAIN entry |-> Revert(entry[k], after[k]).command]]

(* What the typed mutations check before they submit a command.            *)
Effective(c) ==
  LET count == Len(project.sections)
      rows  == DOMAIN project.sections IN
  \/ c.op = "settings" /\ project.settings[c.index] # c.value
  \/ c.op = "insert"   /\ c.index \in 1 .. count + 1
  \/ c.op = "remove"   /\ c.index \in rows
  \/ c.op = "move"     /\ {c.index, c.value} \subseteq rows /\ c.index # c.value
  \/ c.op = "set"      /\ c.index \in rows /\ project.sections[c.index] # c.value

-------------------------------------------------------------------------------
(* Mutant: the saved position survives the entries it counts.              *)
PushKeepingSaved(entry) ==
  /\ undo_stack' = Append(SubSeq(undo_stack, 1, undo_index), entry)
  /\ undo_index' = undo_index + 1
  /\ UNCHANGED saved_undo_index

(* The redo tail goes, and with it a saved state that lay there.           *)
PushUndoEntry(entry) ==
  /\ undo_stack' = Append(SubSeq(undo_stack, 1, undo_index), entry)
  /\ undo_index' = undo_index + 1
  /\ saved_undo_index' = IF saved_undo_index > undo_index THEN Unreachable
                                                          ELSE saved_undo_index

UpdateModified ==
  modified' = (batch_depth' > 0 \/ batch_commands' # <<>>
                 \/ undo_index' # saved_undo_index')

(* A command in an open batch waits for the outermost EndBatch.            *)
ApplyCommand(c) ==
  LET done == Apply(c, project) IN
  /\ project' = done.project
  /\ UNCHANGED <<is_open, batch_depth>>
  /\ \/ /\ batch_depth > 0
        /\ batch_commands' = Append(batch_commands, done.command)
        /\ modified' = TRUE
        /\ UNCHANGED <<undo_stack, undo_index, saved_undo_index>>
     \/ /\ batch_depth = 0
        /\ UNCHANGED batch_commands
        /\ PushUndoEntry(<<done.command>>)
        /\ UpdateModified

Submit(c) ==
  IF Effective(c) THEN ApplyCommand(c) ELSE UNCHANGED document_vars

BeginBatch ==
  /\ batch_depth' = batch_depth + 1
  /\ UNCHANGED <<project, is_open, modified, undo_stack, undo_index,
                 saved_undo_index, batch_commands>>

EndBatch ==
  /\ batch_depth' = IF batch_depth = 0 THEN 0 ELSE batch_depth - 1
  /\ IF batch_depth = 1 /\ batch_commands # <<>>
       THEN /\ batch_commands' = <<>>
            /\ PushUndoEntry(batch_commands)
            /\ UpdateModified
       ELSE UNCHANGED <<batch_commands, undo_stack, undo_index,
                        saved_undo_index, modified>>
  /\ UNCHANGED <<project, is_open>>

CanUndo == batch_depth = 0 /\ undo_index > 0
CanRedo == batch_depth = 0 /\ undo_index < Len(undo_stack)

Undo ==
  /\ CanUndo
  /\ LET done == RevertEntry(undo_stack[undo_index], project) IN
     /\ project' = done.project
     /\ undo_stack' = [undo_stack EXCEPT ![undo_index] = done.entry]
  /\ undo_index' = undo_index - 1
  /\ UNCHANGED <<is_open, saved_undo_index, batch_depth, batch_commands>>
  /\ UpdateModified

Redo ==
  /\ CanRedo
  /\ undo_index' = undo_index + 1
  /\ LET done == ApplyEntry(undo_stack[undo_index'], project) IN
     /\ project' = done.project
     /\ undo_stack' = [undo_stack EXCEPT ![undo_index'] = done.entry]
  /\ UNCHANGED <<is_open, saved_undo_index, batch_depth, batch_commands>>
  /\ UpdateModified

ResetProject(p) ==
  /\ project' = p /\ is_open' = TRUE /\ modified' = FALSE
  /\ undo_stack' = <<>> /\ undo_index' = 0 /\ saved_undo_index' = 0
  /\ batch_depth' = 0 /\ batch_commands' = <<>>

MarkSaved ==
  /\ saved_undo_index' = undo_index /\ modified' = FALSE
  /\ UNCHANGED <<project, is_open, undo_stack, undo_index, batch_depth,
                 batch_commands>>
================================================================================
