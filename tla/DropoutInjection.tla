--------------------------- MODULE DropoutInjection ---------------------------
(***************************************************************************)
(* dropout_injection_stage.cpp: where the dropouts of a frame lie and what *)
(* the sidecar says of them.  A dropout is a run of samples [start,        *)
(* count]; its direction and its depth are left out, and what the random   *)
(* generators draw is any value of the range they draw from.               *)
(***************************************************************************)
EXTENDS DropoutScale, Sequences, FiniteSets, SequencesExt, FiniteSetsExt

CONSTANTS
  LinesPerFrame, SamplesPerLine,
  ActivePictureStart, ActivePictureEnd    \* first and last sample of the picture

SamplesPerFrame == LinesPerFrame * SamplesPerLine

(* No single dropout is as wide as the picture, whatever its scale.           *)
ASSUME PictureAssumption ==
  /\ LinesPerFrame \in Nat /\ SamplesPerLine \in Nat
  /\ 0 < ActivePictureStart /\ ActivePictureEnd < SamplesPerFrame - 1
  /\ ActivePictureStart < ActivePictureEnd

Run(start, count) == [start |-> start, count |-> count]
RunEnd(run) == run.start + run.count
SamplesOf(run) == run.start .. RunEnd(run) - 1
Clamp(x, low, high) == IF x < low THEN low ELSE IF x > high THEN high ELSE x
ByStart(r, s) == r.start < s.start

(***************************************************************************)
(* Scratch events [line, offset, duration, width]: what                    *)
(* ComputeScratchEvents may draw for one section.                          *)
(***************************************************************************)
MayScratch(scale) ==
  [line : 0 .. LinesPerFrame - 1, offset : 0 .. SamplesPerLine - 1,
   duration : 1 .. MaxDurFrames[scale], width : 1 .. MaxWidthSamples[scale]]

(* The width, a triangle over the event's life, rounded; 0 outside of it.     *)
ScratchWidth(event, frame_in_section) ==
  LET last == event.duration - 1
      distance == 2 * frame_in_section - last
      height == last - (IF distance < 0 THEN -distance ELSE distance)
  IN  IF frame_in_section \notin 0 .. last \/ last = 0 THEN 0
      ELSE (2 * event.width * height + last) \div (2 * last)

ScratchRun(event, frame_in_section) ==
  LET width == ScratchWidth(event, frame_in_section)
  IN  Run(Clamp(event.line * SamplesPerLine + event.offset, 0,
                SamplesPerFrame - width), width)

(* ProcessScratchDropouts: the runs in the order of the events.               *)
ScratchRuns(events, frame_in_section) ==
  LET shown == SelectSeq(events,
                         LAMBDA e : ScratchWidth(e, frame_in_section) > 0)
  IN  [i \in DOMAIN shown |-> ScratchRun(shown[i], frame_in_section)]

(***************************************************************************)
(* ClipAgainstScratch: what of a random run no scratch covers, from left   *)
(* to right over the sorted scratches.                                     *)
(***************************************************************************)
Remainders(run, scratches) ==
  LET n == Len(scratches)
      walk[i \in 0 .. n] ==
        IF i = 0 THEN [low |-> run.start, kept |-> << >>]
        ELSE LET at == walk[i - 1]
                 s == scratches[i]
             IN  IF s.start >= RunEnd(run) \/ RunEnd(s) <= at.low
                    \/ at.low >= RunEnd(run)
                 THEN at
                 ELSE [low |-> RunEnd(s),
                       kept |-> IF at.low < s.start
                                THEN Append(at.kept, Run(at.low, s.start - at.low))
                                ELSE at.kept]
      low == walk[n].low
  IN  walk[n].kept \o IF low < RunEnd(run) THEN <<Run(low, RunEnd(run) - low)>>
                      ELSE << >>

(* Runs that meet become one.                                                 *)
Merged(runs) ==
  LET merge(done, r) ==
        IF done # << >> /\ r.start <= RunEnd(Last(done))
        THEN LET back == Last(done)
             IN  Append(Front(done),
                        Run(back.start,
                            Max({RunEnd(back), RunEnd(r)}) - back.start))
        ELSE Append(done, r)
  IN  FoldLeft(merge, << >>, runs)

(* Mutant: the scratches taken in the order of their events.                  *)
ClipUnsorted(events, scratches) ==
  LET remainders == FlattenSeq([i \in DOMAIN events |->
                                  Remainders(events[i], scratches)])
  IN  Merged(SortSeq(remainders, ByStart))

ClipAgainstScratch(events, scratches) ==
  LET sorted == SortSeq(scratches, LAMBDA r, s :
                  r.start < s.start \/ (r.start = s.start /\ r.count < s.count))
      remainders == FlattenSeq([i \in DOMAIN events |->
                                  Remainders(events[i], sorted)])
  IN  Merged(SortSeq(remainders, ByStart))

(* ProcessRandomDropouts: a draw is cut off at the end of the frame.          *)
RandomRuns(draws, scratches) ==
  ClipAgainstScratch(
    [i \in DOMAIN draws |->
       Run(draws[i].start, Min({draws[i].count,
                                SamplesPerFrame - draws[i].start}))],
    scratches)

(***************************************************************************)
(* ApplyAndRecordRun: the rows of a run, cut where it crosses an edge of   *)
(* the active picture.                                                     *)
(***************************************************************************)
Row(start, count, severity) ==
  [start |-> start, count |-> count, severity |-> severity]
NonVisible == 25
Visible == 75

RowsOf(run) ==
  LET first == run.start
      end == RunEnd(run)
      picture_end == ActivePictureEnd + 1
  IN  CASE run.count <= 0 -> << >>
        [] end <= ActivePictureStart -> <<Row(first, run.count, NonVisible)>>
        [] first >= ActivePictureStart /\ end <= picture_end ->
             <<Row(first, run.count, Visible)>>
        [] first > ActivePictureEnd -> <<Row(first, run.count, NonVisible)>>
        [] first < ActivePictureStart /\ end > ActivePictureStart ->
             <<Row(first, ActivePictureStart - first, NonVisible),
               Row(ActivePictureStart, end - ActivePictureStart, Visible)>>
        [] OTHER ->
             <<Row(first, picture_end - first, Visible),
               Row(picture_end, end - picture_end, NonVisible)>>

(* CommitSidecarRows: the table takes no second row of a frame with the same  *)
(* first sample, and nobody is told.                                          *)
Stored(rows) ==
  LET insert(table, row) == IF \E r \in table : r.start = row.start THEN table
                            ELSE table \cup {row}
  IN  FoldLeft(insert, {}, rows)
===============================================================================
