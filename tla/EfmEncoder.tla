------------------------------ MODULE EfmEncoder ------------------------------
(***************************************************************************)
(* subcode_generator.cpp: the P and Q channels of every subcode section    *)
(* of a track table, a sequence of entries [area, start, count, track].    *)
(* A time of minutes, seconds and frames stands as the sections it counts; *)
(* BCD, CRC and the order of the bits are left out.  circ_encoder.cpp: how *)
(* long the interleave keeps each symbol of a frame before it sends it; the*)
(* parity symbols, which hold no audio, are left out.                      *)
(***************************************************************************)
EXTENDS EfmTrackLayout, SequencesExt, FiniteSetsExt

SectionsPerMinute == 75 * 60
MaxSubcodeMinutes == 99
StartFlagSections == 150
LeadOutPSilentSections == 150
LeadOutPHalfPeriodSections == 19
TocItemRepeats == 3
TrackNumberLeadIn == 0
TrackNumberLeadOut == 170
PointFirstTrack == 160
PointLastTrack == 161
PointLeadOutStart == 162

(* The minutes stop at 99, seconds and frames go on.                          *)
SubcodeTimeFromSections(n) ==
  Earlier(n \div SectionsPerMinute, MaxSubcodeMinutes) * SectionsPerMinute
    + (n % SectionsPerMinute)

Of(table, area) == {k \in DOMAIN table : table[k].area = area}
End(entry) == entry.start + entry.count
ProgrammeStart(table) == table[Min(Of(table, "programme"))].start
LeadOutStart(table) == table[Min(Of(table, "lead_out"))].start

(* Begin: whether a table is a timeline.                                      *)
Accepts(table) ==
  /\ table # << >> /\ table[1].start = 0
  /\ \A k \in DOMAIN table :
       /\ table[k].count > 0
       /\ k > 1 => /\ table[k].start = End(table[k - 1])
                   /\ AreaOrder(table[k - 1].area) <= AreaOrder(table[k].area)
       /\ table[k].area = "programme" => table[k].track \in 1 .. MaxTrackNumber

(* Only the first track of the programme begins with a pause.                 *)
PauseSections(table, entry) ==
  IF entry.start = ProgrammeStart(table)
  THEN Earlier(TrackOnePauseSections, entry.count) ELSE 0
AudioStart(table, entry) == entry.start + PauseSections(table, entry)

StartFlagTargets(table) ==
  {AudioStart(table, table[k]) : k \in Of(table, "programme")}
    \cup IF Of(table, "lead_out") = {} THEN {} ELSE {LeadOutStart(table)}

(* The start of every track, then the points A0, A1 and A2.                   *)
TocItems(table) ==
  LET tracks == Of(table, "programme")
      track == [k \in 1 .. Cardinality(tracks) |-> table[Min(tracks) + k - 1]]
      n == Len(track)
      item(k) == [point |-> track[k].track,
                  time |-> SubcodeTimeFromSections(
                             AudioStart(table, track[k]) - track[1].start)]
      programme_end == IF Of(table, "lead_out") = {} THEN End(table[Len(table)])
                       ELSE LeadOutStart(table)
  IN  IF tracks = {} \/ Of(table, "lead_in") = {} THEN << >>
      ELSE [k \in 1 .. n |-> item(k)] \o
           << [point |-> PointFirstTrack, time |-> track[1].track],
              [point |-> PointLastTrack, time |-> track[n].track],
              [point |-> PointLeadOutStart, time |->
                SubcodeTimeFromSections(programme_end - track[1].start)] >>

EntryForSection(table, s) == table[Min({k \in DOMAIN table : s < End(table[k])})]

UndelayedPFlag(table, s) ==
  /\ Of(table, "programme") # {} /\ s >= ProgrammeStart(table)
  /\ IF Of(table, "lead_out") # {} /\ s >= LeadOutStart(table)
     THEN LET offset == s - LeadOutStart(table) - LeadOutPSilentSections
          IN  /\ offset >= 0
              /\ (offset \div LeadOutPHalfPeriodSections) % 2 = 0
     ELSE \E target \in StartFlagTargets(table) :
            s < target /\ s + StartFlagSections >= target

(* Mutant: the P channel not delayed against the Q channel.                   *)
PFlagAtOnce(table, s) == UndelayedPFlag(table, s)

(* One section behind the Q channel.                                          *)
PFlag(table, s) == s > 0 /\ UndelayedPFlag(table, s - 1)

Payload(track, index, time, absolute) ==
  [track |-> track, index |-> index, time |-> SubcodeTimeFromSections(time),
   absolute |-> absolute]

BuildLeadInPayload(table, entry, s) ==
  LET items == TocItems(table)
      item == items[(((s - entry.start) \div TocItemRepeats) % Len(items)) + 1]
  IN  IF items = << >> THEN Payload(TrackNumberLeadIn, 0, s - entry.start, 0)
      ELSE Payload(TrackNumberLeadIn, item.point, s - entry.start, item.time)

BuildProgrammePayload(table, entry, s) ==
  LET audio_start == AudioStart(table, entry)
      absolute == SubcodeTimeFromSections(s - ProgrammeStart(table))
  IN  IF s < audio_start
      THEN Payload(entry.track, 0, audio_start - 1 - s, absolute)
      ELSE Payload(entry.track, 1, s - audio_start, absolute)

BuildLeadOutPayload(table, entry, s) ==
  LET absolute_start == IF Of(table, "programme") # {}
                        THEN ProgrammeStart(table) ELSE entry.start
  IN  Payload(TrackNumberLeadOut, 1, s - entry.start,
              SubcodeTimeFromSections(s - absolute_start))

BuildPayload(table, s) ==
  LET entry == EntryForSection(table, s)
  IN  CASE entry.area = "lead_in" -> BuildLeadInPayload(table, entry, s)
        [] entry.area = "programme" -> BuildProgrammePayload(table, entry, s)
        [] OTHER -> BuildLeadOutPayload(table, entry, s)
-------------------------------------------------------------------------------
(* The interleave of the audio.                                               *)

Symbols == 0 .. 23            \* two to a word, twelve words to an F1 frame
FirstDelayFrames == 2
SecondDelayUnitFrames == 4

(* Mutant: only what the encoder itself still holds.                          *)
PipelineLatencyFrames == 108

CircDrainFrames == 111

DelayedGroupWords == <<0, 4, 8, 1, 5, 9>>
CurrentGroupWords == <<2, 6, 10, 3, 7, 11>>
DelayedGroupStart == 0
CurrentGroupStart == 16
Delayed(symbol) == Contains(DelayedGroupWords, symbol \div 2)

(* Its place in the C2 codeword, which is its place in the output frame.      *)
PlaceOf(symbol) ==
  LET among(words) == 2 * (CHOOSE i \in DOMAIN words :
                             words[i] = symbol \div 2) - 2 + (symbol % 2)
  IN  IF Delayed(symbol) THEN DelayedGroupStart + among(DelayedGroupWords)
      ELSE CurrentGroupStart + among(CurrentGroupWords)

(* EncodeFrame: the three delay sections.                                     *)
SymbolDelay(symbol) ==
  (IF Delayed(symbol) THEN FirstDelayFrames ELSE 0)
    + SecondDelayUnitFrames * PlaceOf(symbol)
    + (IF PlaceOf(symbol) % 2 = 0 THEN 1 ELSE 0)
===============================================================================
