---------------------------- MODULE EfmTrackLayout ----------------------------
(* efm_track_layout.cpp: the tracks of the digital audio, in subcode sections *)
(* of 1/75 s.  The output frames are given as the parts of the programme they *)
(* come from, [area, frames] each.                                            *)
EXTENDS Integers, Sequences, FiniteSets

SamplesPerSubcodeSection == 588
MaxTrackNumber == 79
TrackOnePauseSections == 150

(* The frames of one sample less than their neighbours, of the first ones of  *)
(* a sequence of 100 frames.                                                  *)
ShortFrames(rest) == Cardinality({23, 47, 71} \cap 1 .. rest)

(* EfmAudioSamplesForFrame, summed over the first frames of the output.       *)
SamplesBefore(standard, frames) ==
  LET sequences == frames \div 100
      rest == frames % 100
  IN  IF standard = "PAL" THEN 1764 * frames
      ELSE 147147 * sequences + 1471 * rest + (rest + 1) \div 2
             - ShortFrames(rest)

(* A section without a type is a programme.                                   *)
AreaForSection(type) ==
  IF type \in {"lead_in", "lead_out"} THEN type ELSE "programme"
AreaOrder(area) ==
  CASE area = "lead_in" -> 0 [] area = "programme" -> 1 [] OTHER -> 2

FramesBefore(parts, k) ==
  LET f[j \in 0 .. k] == IF j = 0 THEN 0 ELSE f[j - 1] + parts[j].frames
  IN  f[k]

(* A new run where the area is not that of the run before, or a programme.    *)
BuildRuns(standard, parts) ==
  LET begins == {k \in DOMAIN parts :
                   k = 1 \/ parts[k].area = "programme"
                         \/ parts[k].area # parts[k - 1].area}
      Runs[k \in 0 .. Len(parts)] ==
        IF k = 0 THEN << >> ELSE IF k \notin begins THEN Runs[k - 1]
        ELSE Append(Runs[k - 1],
               [area |-> parts[k].area,
                start |-> SamplesBefore(standard, FramesBefore(parts, k - 1))])
  IN  Runs[Len(parts)]

TotalSections(standard, parts) ==
  SamplesBefore(standard, FramesBefore(parts, Len(parts)))
    \div SamplesPerSubcodeSection

(* The nearest subcode section.                                               *)
StartSection(run) ==
  (run.start + SamplesPerSubcodeSection \div 2) \div SamplesPerSubcodeSection

Earlier(a, b) == IF a < b THEN a ELSE b

BuildEfmTrackLayout(standard, parts) ==
  LET runs == BuildRuns(standard, parts)
      n == Len(runs)
      total == TotalSections(standard, parts)
      start == [k \in 1 .. n + 1 |->
                  IF k > n THEN total
                  ELSE IF k = 1 THEN 0 ELSE StartSection(runs[k])]
      number(k) == Cardinality({j \in 1 .. k : runs[j].area = "programme"})
      entry(k) == [area |-> runs[k].area, start |-> start[k],
                   count |-> start[k + 1] - start[k],
                   track |-> IF runs[k].area = "programme" THEN number(k) ELSE 0]
      first == {k \in 1 .. n : number(k) = 1 /\ runs[k].area = "programme"}
  IN  [ok |-> /\ standard \in {"PAL", "NTSC"} /\ n > 0
              /\ \A k \in 1 .. n : start[k] < start[k + 1]
              /\ \A k \in 1 .. n - 1 :
                   AreaOrder(runs[k].area) <= AreaOrder(runs[k + 1].area)
              /\ number(n) <= MaxTrackNumber,
       entries |-> [k \in 1 .. n |-> entry(k)],
       pause |-> {[from |-> start[k],
                   to |-> start[k] + Earlier(TrackOnePauseSections,
                                             start[k + 1] - start[k])] :
                    k \in first}]
===============================================================================
