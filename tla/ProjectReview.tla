---------------------------- MODULE ProjectReview ----------------------------
(* A project on its way between the file, the program and the validator:      *)
(* LoadProject and Validate of main.cpp and project_document.cpp, the edits   *)
(* of the forms, and Save.                                                    *)
EXTENDS ProjectValidator, EfmTrackLayout

CONSTANTS Files,        \* trees that a user may have written
          Edits(_),     \* the projects one edit away
          SourceFrames, \* source -> the frames it holds
          MaxEdits      \* bound: edits of a run

VARIABLES file, project, verdict, edits

vars == <<file, project, verdict, edits>>

Init == file \in Files /\ project = Unset /\ verdict = Unset /\ edits = 0

Open ==
  /\ project \in {Unset, Bad}
  /\ project' = Parse(file)
  /\ UNCHANGED <<file, verdict, edits>>

Opened == project \notin {Unset, Bad}

Edit ==
  /\ Opened /\ edits < MaxEdits
  /\ project' \in Edits(project)
  /\ edits' = edits + 1
  /\ verdict' = Unset
  /\ UNCHANGED file

Review ==
  /\ Opened
  /\ verdict' = Validate(project)
  /\ UNCHANGED <<file, project, edits>>

Save ==
  /\ Opened
  /\ file' = EmitString(project)
  /\ UNCHANGED <<project, verdict, edits>>

(* The window is closed, saved or not, and another run of the program opens   *)
(* the file.                                                                  *)
Close ==
  /\ Opened
  /\ project' = Unset /\ verdict' = Unset
  /\ UNCHANGED <<file, edits>>

Next == Open \/ Edit \/ Review \/ Save \/ Close
Spec == Init /\ [][Next]_vars

--------------------------------------------------------------------------------
(* The stored frames of a project, for the tracks of its digital audio.       *)
OutputParts(p) ==
  [k \in DOMAIN p.sections |->
     LET s == p.sections[k] IN
     [area |-> AreaForSection(s.section_type),
      frames |-> IF s.all THEN SourceFrames[s.source] * s.repeat ELSE s.frames]]

CodesOf(s) == {c.code_type : c \in Elements(Codes(s))}

Assigned(p, s, line) ==
  GetAssignment(p.presets.standard, p.line_injections.disc_type, s.section_type,
                CodesOf(s), line).code # "none"

--------------------------------------------------------------------------------
(* What the file keeps of a project, and what the validator's word is worth   *)
(* to the parts of the program that generate from it without looking again.   *)

Accepted == verdict # Unset /\ verdict.is_valid

(* What an accepted project may lose: settings that have no effect.           *)
Silenced(channel) == IF channel.enabled THEN channel ELSE NewChannel
Effective(p) ==
  [p EXCEPT !.sections = Each(p.sections, LAMBDA s :
     [s EXCEPT !.repeat = IF s.all THEN @ ELSE 1,
               !.noise = IF @.enabled THEN @ ELSE [NewNoise EXCEPT !.seed = s.noise.seed],
               !.pairs = Each(@, LAMBDA c :
                 [c EXCEPT !.left = Silenced(@), !.right = Silenced(@)])])]

(* A project that the validator accepted is the same project after it was     *)
(* saved and opened again, but for settings without effect: the emitter       *)
(* leaves out what the parser would fill in with the same value.              *)
AcceptedSurvivesSave == Accepted => Parse(EmitString(project)) = Effective(project)

(* What the emitter writes of any project, finished or not, the strict parser *)
(* reads, and saving it again writes the same file.                           *)
SavingSettles ==
  Opened => LET again == Parse(EmitString(project)) IN
            again # Bad /\ EmitString(again) = EmitString(project)

(* The sections of an accepted project follow the order of a disc, so the     *)
(* track table of its digital audio can be built without a gap, in order and  *)
(* with the pause inside its first track.                                     *)
Marked(p) == \E s \in Elements(p.sections) : s.section_type \in {"lead_in", "lead_out"}
Tiles(layout, total) ==
  LET e == layout.entries IN
  /\ e[1].start = 0
  /\ e[Len(e)].start + e[Len(e)].count = total
  /\ \A k \in 1 .. Len(e) - 1 : e[k].start + e[k].count = e[k + 1].start
  /\ \A pause \in layout.pause : \E k \in DOMAIN e :
       e[k].track = 1 /\ pause.from = e[k].start /\ pause.to <= pause.from + e[k].count

AcceptedIsADisc ==
  Accepted =>
    LET n == Len(project.sections)
        type(k) == project.sections[k].section_type
        layout == BuildEfmTrackLayout(project.presets.standard, OutputParts(project))
    IN  /\ Marked(project) => \A k \in 1 .. n :
             CASE type(k) = "lead_in" -> k = 1
               [] type(k) = "lead_out" -> k = n
               [] OTHER -> type(k) = "programme_area"
        /\ ProjectEfmAudioPair(project) # -1 =>
             layout.ok /\ Tiles(layout, TotalSections(project.presets.standard,
                                                      OutputParts(project)))

(* No test signal of an accepted laserdisc stands on a line to which the line *)
(* placement gives a code in any section, and no two of them on one line: the *)
(* generator paints them one over the other without a check.                  *)
SignalsKeepOffTheCodes ==
  Accepted =>
    LET lines == AllVitsLines(project.line_injections.vits) IN
    /\ ~Repeats(lines)
    /\ \A s \in Elements(project.sections) : SectionHasLaserdiscInjection(s) =>
         \A line \in Elements(lines) : ~Assigned(project, s, line)

(* In the plan of every test signal that an accepted project carries, two     *)
(* neighbouring bars of the luma overlap exactly where they touched, no part  *)
(* leaves the line, and each part is rendered once.                           *)
Touch(p, q) == p.end = q.start \/ q.end = p.start
Overlapping(p, q) == p.start < q.end /\ q.start < p.end
Solid(p) == p.combine_mode = "replace"

SignalsJoin ==
  Accepted => \A v \in Elements(project.line_injections.vits) :
    LET d == TryGetDefinition(project.presets.standard, v.vits_type)
        plan == BuildSynthesisPlan(d)
        made == d.primitives
    IN  /\ \A i, j \in DOMAIN plan : i # j /\ Solid(made[i]) /\ Solid(made[j]) =>
             (Overlapping(plan[i], plan[j]) <=>
                Touch(made[i], made[j]) \/ Overlapping(made[i], made[j]))
        /\ \A p \in Elements(plan) : 0 <= p.start /\ p.start < p.end /\ p.end <= 63492
        /\ Len(RenderOrder(d)) = Len(plan)
        /\ Elements(RenderOrder(d)) = {p.id : p \in Elements(plan)}

================================================================================
