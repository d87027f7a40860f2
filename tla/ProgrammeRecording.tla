-------------------------- MODULE ProgrammeRecording --------------------------
(***************************************************************************)
(* One pass of the output frames through the stages that write beside the  *)
(* video: DropoutInjectionStage with its sidecar, and AudioTrackGenerator  *)
(* with one AudioWavWriter and the AudioEfmWriter of the same channel pair.*)
(*                                                                         *)
(* A programme is [standard, parts]; a part is one section of the project: *)
(* [area, frames, first, scale, scratches], its number of output frames,   *)
(* its start_frame, the scale of its random dropouts (0: none) and the     *)
(* events of its scratches.  A channel frame of the EFM stream counts one  *)
(* in its files: how many T values it takes is data.                       *)
(***************************************************************************)
EXTENDS EfmEncoder, DropoutInjection

CONSTANTS
  Programmes,       \* the programmes that may be recorded
  Draws(_),         \* a scale's random dropouts: sequences of runs as drawn
  RiffLimit         \* the largest size that the 32 bits of a WAV header hold

ASSUME RiffAssumption == RiffLimit \in Nat

(* The schedule fails when a section yields no frame.                         *)
ASSUME ProgrammesAssumption ==
  \A p \in Programmes :
    /\ p.parts \in Seq(Range(p.parts))
    /\ \A part \in Range(p.parts) : part.frames \in Nat \ {0}

VARIABLES
  programme,
  session,      \* "begin", "open", "done", "failed" or "refused"
  layout,       \* efm_layout_
  frame,        \* output frames recorded so far
  wav,          \* [bytes, riff_size, data_size]: the file, its header's fields
  pending,      \* AudioFrameAssembler: samples that wait for a whole F1 frame
  channel_frames,   \* frame_index_ of the encoder: channel frames sent
  efm,          \* [values, rows, last]: the file, its index rows, the last row
  synthesis,    \* [wav, efm]: samples synthesised since the section began
  dropouts      \* the last frame's [scratches, randoms, rows]

vars == <<programme, session, layout, frame, wav, pending, channel_frames, efm,
          synthesis, dropouts>>
audio_vars == <<wav, pending, channel_frames, efm, synthesis>>

KHeaderBytes == 44
FrameBytes(samples) == samples * 2 * 3       \* two channels of 24 bits
StereoSamplesPerF1Frame == 6
FramesPerSubcodeSection == 98

AudioSamplesForFrame(standard, k) ==
  IF standard = "PAL" THEN 1920 ELSE IF k % 5 \in {1, 3} THEN 1601 ELSE 1602
EfmAudioSamplesForFrame(standard, k) ==
  SamplesBefore(standard, k + 1) - SamplesBefore(standard, k)

Parts == programme.parts
TotalFrames == FramesBefore(Parts, Len(Parts))
PartOf(k) == Min({j \in DOMAIN Parts : k < FramesBefore(Parts, j)})
FrameInSection(k) == k - FramesBefore(Parts, PartOf(k) - 1)

(* FrameScheduleItem::source_frame_index                                      *)
SourceFrameIndex(k) == Parts[PartOf(k)].first + FrameInSection(k)

NoDropouts == [scratches |-> << >>, randoms |-> << >>, rows |-> {}]

Init ==
  /\ programme \in Programmes
  /\ session = "begin" /\ layout = << >> /\ frame = 0
  /\ wav = [bytes |-> 0, riff_size |-> 0, data_size |-> 0]
  /\ pending = 0 /\ channel_frames = 0
  /\ efm = [values |-> 0, rows |-> 0, last |-> [offset |-> 0, count |-> 0]]
  /\ synthesis = [wav |-> 0, efm |-> 0]
  /\ dropouts = NoDropouts

(***************************************************************************)
(* AudioTrackGenerator::Begin: the layout, then the WAV file, then the EFM *)
(* file, whose encoder must accept the layout.                             *)
(***************************************************************************)
Begin ==
  /\ session = "begin"
  /\ LET built == BuildEfmTrackLayout(programme.standard, Parts)
     IN  /\ layout' = built
         /\ session' = IF ~built.ok THEN "failed"
                       ELSE IF ~Accepts(built.entries) THEN "refused" ELSE "open"
  /\ UNCHANGED <<programme, frame, audio_vars, dropouts>>

(* ComputeFrameDropouts and CommitSidecarRows for one frame.                  *)
ComputeFrameDropouts(draws) ==
  LET scratches == ScratchRuns(Parts[PartOf(frame)].scratches,
                               SourceFrameIndex(frame))
      randoms == RandomRuns(draws, scratches)
      rows == FlattenSeq([i \in 1 .. Len(scratches) + Len(randoms) |->
                            RowsOf((scratches \o randoms)[i])])
  IN  [scratches |-> scratches, randoms |-> randoms, rows |-> Stored(rows)]

(* EfmStreamEncoder::PushSamples and the row that indexes what it yields.     *)
PushSamples(samples) ==
  LET sent == (pending + samples) \div StereoSamplesPerF1Frame
  IN  /\ pending' = (pending + samples) % StereoSamplesPerF1Frame
      /\ channel_frames' = channel_frames + sent
      /\ efm' = [values |-> efm.values + sent, rows |-> efm.rows + 1,
                 last |-> [offset |-> efm.values, count |-> sent]]

(* Mutant: the EFM synthesisers run on over the start of a section.           *)
SynthesisedOn(wav_samples, efm_samples) ==
  IF FrameInSection(frame) = 0
  THEN [wav |-> wav_samples, efm |-> synthesis.efm + efm_samples]
  ELSE [wav |-> synthesis.wav + wav_samples, efm |-> synthesis.efm + efm_samples]

(* BeginRun: a section's first frame resets the synthesisers.                 *)
Synthesised(wav_samples, efm_samples) ==
  IF FrameInSection(frame) = 0 THEN [wav |-> wav_samples, efm |-> efm_samples]
  ELSE [wav |-> synthesis.wav + wav_samples, efm |-> synthesis.efm + efm_samples]

(* Mutant: the pause taken for the beginning of the stream.                   *)
MutedFromTheStart(sample) ==
  \E p \in layout.pause : sample < (p.to - p.from) * SamplesPerSubcodeSection

(* MuteTrackOnePause: the samples of the stream that are silenced.            *)
Muted(sample) ==
  \E p \in layout.pause : sample \in p.from * SamplesPerSubcodeSection
                                   .. p.to * SamplesPerSubcodeSection - 1

(* Mutant: the header's own bytes forgotten.                                  *)
ExceedsRiffData(bytes) == wav.bytes + bytes > RiffLimit

(* AppendFrameAudio refuses what the header could not state.                  *)
ExceedsRiff(bytes) == wav.bytes + bytes + (KHeaderBytes - 8) > RiffLimit

RecordFrame ==
  /\ session = "open" /\ frame < TotalFrames
  /\ \E draws \in Draws(Parts[PartOf(frame)].scale) :
       dropouts' = ComputeFrameDropouts(draws)
  /\ LET wav_samples == AudioSamplesForFrame(programme.standard, frame)
         efm_samples == EfmAudioSamplesForFrame(programme.standard, frame)
     IN  IF ExceedsRiff(FrameBytes(wav_samples))
         THEN /\ session' = "failed"
              /\ UNCHANGED <<frame, audio_vars>>
         ELSE /\ frame' = frame + 1
              /\ wav' = [wav EXCEPT !.bytes = @ + FrameBytes(wav_samples)]
              /\ PushSamples(efm_samples)
              /\ synthesis' = Synthesised(wav_samples, efm_samples)
              /\ UNCHANGED session
  /\ UNCHANGED <<programme, layout>>

(* A partial frame is filled with silence, then silence drains the encoder.   *)
FlushedFrames == (IF pending > 0 THEN 1 ELSE 0) + CircDrainFrames

(* Mutant: the last row left as it was.                                       *)
SameRow(row, sent) == row

(* What is left extends the last row of the index.                            *)
ExtendedRow(row, sent) == [row EXCEPT !.count = @ + sent]

(***************************************************************************)
(* Finalize: the sizes, modulo 2^32, go to the WAV header; the encoder's   *)
(* remainder goes to the EFM file and to its last row.                     *)
(***************************************************************************)
Finalize ==
  /\ session = "open" /\ frame = TotalFrames
  /\ session' = "done"
  /\ wav' = [wav EXCEPT
               !.riff_size = (KHeaderBytes - 8 + wav.bytes) % (RiffLimit + 1),
               !.data_size = wav.bytes % (RiffLimit + 1)]
  /\ pending' = 0
  /\ channel_frames' = channel_frames + FlushedFrames
  /\ efm' = [efm EXCEPT !.values = @ + FlushedFrames,
                        !.last = ExtendedRow(@, FlushedFrames)]
  /\ UNCHANGED <<programme, layout, frame, synthesis, dropouts>>

Next == Begin \/ RecordFrame \/ Finalize

Spec == Init /\ [][Next]_vars

-------------------------------------------------------------------------------
(* What the files written beside the video promise to those who read them.    *)

(* Dropouts.                                                                  *)

Samples(runs) == UNION {SamplesOf(r) : r \in runs}
Damaged == Samples(Range(dropouts.scratches)) \cup Samples(Range(dropouts.randoms))

(* The sidecar is the ground truth of a frame: a row lies over samples that   *)
(* a dropout shifted, on one side of the picture's edge and rated for it; no  *)
(* random dropout touches a scratch or another random one; and a shifted      *)
(* sample has a row, except where two runs begin with the same sample, of     *)
(* which the table keeps the first (WriteSidecarRow reports no failure).      *)
RowsTellTheDamage ==
  LET picture == ActivePictureStart .. ActivePictureEnd
      scratched == Samples(Range(dropouts.scratches))
      begins(i) == {r.start : r \in Range(RowsOf(dropouts.scratches[i]))}
      clashing == {i \in DOMAIN dropouts.scratches :
                     \E j \in DOMAIN dropouts.scratches \ {i} :
                       begins(i) \cap begins(j) # {}}
  IN  /\ \A r \in dropouts.rows :
           /\ SamplesOf(r) \subseteq Damaged
           /\ IF r.severity = Visible THEN SamplesOf(r) \subseteq picture
              ELSE SamplesOf(r) \cap picture = {}
      /\ \A i \in DOMAIN dropouts.randoms :
           LET random == SamplesOf(dropouts.randoms[i])
           IN  /\ random \cap scratched = {}
               /\ \A j \in 1 .. i - 1 :
                    random \cap SamplesOf(dropouts.randoms[j]) = {}
      /\ Damaged \subseteq
           Samples(dropouts.rows) \cup
             Samples({dropouts.scratches[i] : i \in clashing})

-------------------------------------------------------------------------------
(* Digital audio.                                                             *)

Table == layout.entries
SectionOf(sample) == sample \div SamplesPerSubcodeSection

(* The subcode sections that the audio of the last frame belongs to.          *)
SectionsOfFrame ==
  IF session # "open" \/ frame = 0 THEN {}
  ELSE SectionOf(SamplesBefore(programme.standard, frame - 1))
         .. Min({SectionOf(SamplesBefore(programme.standard, frame) - 1),
                 End(Last(Table)) - 1})

InPause(s) == LET q == BuildPayload(Table, s)
              IN  q.track \in 1 .. MaxTrackNumber /\ q.index = 0
Plays(s) == LET q == BuildPayload(Table, s)
            IN  q.track # TrackNumberLeadIn /\ q.index = 1
Begins(s) == Plays(s) /\ ~(s > 0 /\ Plays(s - 1)
                           /\ BuildPayload(Table, s - 1).track
                                = BuildPayload(Table, s).track)

(* The audio is silent in exactly the sections whose subcode says pause: the  *)
(* pause the layout hands to AudioTrackGenerator and the one SubcodeGenerator *)
(* derives from the table are the same, to the sample.                        *)
PauseIsSilent ==
  \A s \in SectionsOfFrame :
    /\ Muted(s * SamplesPerSubcodeSection) = InPause(s)
    /\ Muted((s + 1) * SamplesPerSubcodeSection - 1) = InPause(s)

(* A player finds what the disc's table of contents names: every table the    *)
(* layout builds is accepted by the encoder; a track or the lead-out begins,  *)
(* with X = 01, in exactly the section whose absolute time its item gives;    *)
(* and channel P falls exactly there, one section behind channel Q.           *)
PlayerFindsTracks ==
  /\ session # "refused"
  /\ \A s \in SectionsOfFrame :
       LET q == BuildPayload(Table, s)
           point == IF q.track = TrackNumberLeadOut THEN PointLeadOutStart
                    ELSE q.track
           listed == \E item \in Range(TocItems(Table)) :
                       item = [point |-> point, time |-> q.absolute]
           in_lead_out == q.track = TrackNumberLeadOut /\ ~Begins(s)
       IN  /\ TocItems(Table) # << >> /\ q.track # TrackNumberLeadIn
                => (listed <=> Begins(s))
           /\ ~in_lead_out /\ s + 1 < End(Last(Table))
                => ((PFlag(Table, s) /\ ~PFlag(Table, s + 1)) <=> Begins(s))

WavSamplesBefore(k) ==
  IF programme.standard = "PAL" THEN 1920 * k
  ELSE 8008 * (k \div 5) + <<0, 1602, 3203, 4805, 6406>>[(k % 5) + 1]

(* A tone that sweeps over a whole section ends with it, in the WAV file and  *)
(* in the EFM stream, each on its own grid of samples: at the end of a        *)
(* section both synthesisers have made the samples the sweep was scaled to.   *)
SweepsEndWithTheSection ==
  \A j \in DOMAIN Parts :
    session \in {"open", "done"} /\ frame = FramesBefore(Parts, j) =>
      LET begin == FramesBefore(Parts, j - 1)
      IN  synthesis =
            [wav |-> WavSamplesBefore(frame) - WavSamplesBefore(begin),
             efm |-> SamplesBefore(programme.standard, frame)
                       - SamplesBefore(programme.standard, begin)]

(* The files describe themselves: the last row of the EFM index always ends   *)
(* where the file ends, the drained encoder's remainder included, with a row  *)
(* for every frame; and the sizes in a finished WAV header, fields of 32      *)
(* bits, are those of the file.                                               *)
FilesDescribeThemselves ==
  /\ session \in {"open", "done"} =>
       /\ efm.rows = frame
       /\ efm.last.offset + efm.last.count = efm.values
  /\ session = "done" => /\ wav.data_size = wav.bytes
                         /\ wav.riff_size = wav.bytes + KHeaderBytes - 8

(* The EFM file ends after the last sample of the programme has left the      *)
(* interleave and can be taken out of a decoder that mirrors its delays.      *)
AudioReachesTheFile ==
  session = "done" =>
    LET total == SamplesBefore(programme.standard, TotalFrames)
        last == (total - 1) \div StereoSamplesPerF1Frame
        delays == {SymbolDelay(i) : i \in Symbols}
    IN  last + Max(delays) + Min(delays) < channel_frames
===============================================================================
