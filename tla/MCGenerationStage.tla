-------------------------- MODULE MCGenerationStage --------------------------
(* Small projects, with one source more than the cache holds.              *)
EXTENDS GenerationStageProps

CONSTANTS ClipB, StillS

Take(source, all, start, duration, repeat, number) ==
  [source |-> source, all |-> all, start |-> start, duration |-> duration,
   repeat |-> repeat, number |-> number]

MCLength == [clip \in {ClipB} |-> 2]

(* A cut of a clip, the whole clip with a frame of the cut again, and a     *)
(* still replayed at one picture number: a template is admitted while one  *)
(* thread wants it and another makes it, and one finds no room.            *)
MCProject == <<Take(ClipB, FALSE, 1, 1, 1, 4), Take(ClipB, TRUE, 0, 0, 1, 0)>> \o
             [k \in 1 .. 3 |-> Take(StillS, FALSE, 0, 1, 1, 4)]
===============================================================================
