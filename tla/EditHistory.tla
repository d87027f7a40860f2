------------------------------ MODULE EditHistory ------------------------------
(***************************************************************************)
(* What an undo stack promises: a list of the states the document has had  *)
(* and the place in it of the present one. Undo and redo move the place    *)
(* and never change a state; an edit forgets the states after the place.   *)
(***************************************************************************)
EXTENDS Integers, Sequences

CONSTANT Documents

VARIABLES states, at

vars == <<states, at>>

Single(list) == Len(list) = 1 /\ list[1] \in Documents

Init == Single(states) /\ at = 1

Load == at' = 1 /\ Single(states')

Edit ==
  /\ at' = at + 1 /\ Len(states') = at'
  /\ SubSeq(states', 1, at) = SubSeq(states, 1, at)
  /\ states'[at'] \in Documents

Undo == at > 1 /\ at' = at - 1 /\ UNCHANGED states
Redo == at < Len(states) /\ at' = at + 1 /\ UNCHANGED states

Next == Load \/ Edit \/ Undo \/ Redo

Spec == Init /\ [][Next]_vars
================================================================================
