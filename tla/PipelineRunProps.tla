--------------------------- MODULE PipelineRunProps ---------------------------
(***************************************************************************)
(* What a pipeline run promises about its status, its progress reports and *)
(* the files it leaves on the output paths.                                *)
(***************************************************************************)
EXTENDS PipelineRun

(* Types. *)
TypeOK ==
  /\ run \in 0 .. MaxRuns /\ features \in Projects /\ mode \in Modes
  /\ pc \in Locations /\ status \in Statuses
  /\ cancelled \in BOOLEAN /\ cancelled_at \in 0 .. FrameCount
  /\ written \in 0 .. FrameCount /\ audio_index \in 0 .. written
  /\ rows \in 0 .. FrameCount /\ refused \in BOOLEAN
  /\ progress \in Seq(1 .. FrameCount)
  /\ disk \in [Artefact -> FileType \cup {Absent}]

Expected ==
  {"video", "metadata"}
    \cup (IF "audio" \in features THEN {"wav"} ELSE {})
    \cup (IF "efm" \in features THEN {"efm", "efm_index"} ELSE {})
    \cup (IF "dropouts" \in features THEN {"dropouts"} ELSE {})
Complete(end) == [run |-> run, frames |-> FrameCount, end |-> end]

(* The files that a session may complete without all that was handed to it: *)
(* the streams it closes and the rows it inserts without reading the result.*)
Unread   == {"video", "wav", "dropouts"}
Whole(a) == disk[a] = Complete("whole")
Finished(a) == Whole(a) \/ (a \in Unread /\ disk[a] = Complete("torn"))

(***************************************************************************)
(* A generating run reports success exactly when every session of the      *)
(* project has been completed, in this run and with every frame. No error  *)
(* is invented: a run that failed lacks a file. And none is swallowed but  *)
(* those nobody reads: the last close of the video and of a WAV file       *)
(* (output_stage.cpp:758-761, audio_wav_writer.cpp:238) and the insert of  *)
(* a dropout row (dropout_injection_stage.cpp:392), which alone can leave  *)
(* a file of a successful run torn; the metadata, the EFM stream and its   *)
(* index are whole.                                                        *)
(***************************************************************************)
SuccessMeansComplete ==
  pc = "idle" /\ status \in {"succeeded", "failed", "cancelled"}
      /\ mode # "validate_only"
    => (status = "succeeded" <=> \A a \in Expected : Finished(a))

(***************************************************************************)
(* A cancelled run leaves no file it opened, whatever it was writing when  *)
(* the token was read, and no metadata of an earlier run without its video.*)
(***************************************************************************)
CancelledLeavesNothing ==
  pc = "idle" /\ status = "cancelled"
    => /\ \A a \in Artefact : disk[a] # Absent => disk[a].run < run
       /\ disk["metadata"] # Absent => disk["video"] # Absent

(***************************************************************************)
(* The tracks are frame-locked: whenever the next frame or batch is about  *)
(* to start, video, audio, EFM and the dropout sidecar have been handed    *)
(* the same frames.                                                        *)
(***************************************************************************)
FrameLocked ==
  pc \in {"head", "finalize_output"} =>
    /\ disk["video"].frames = written /\ Processed = written
    /\ "audio" \in features => disk["wav"].frames = written
    /\ "efm" \in features => disk["efm"].frames = written
    /\ "dropouts" \in features => rows = written

(***************************************************************************)
(* Reported progress only grows, never runs ahead of what every track      *)
(* holds, and reaches the total when the run succeeds.                     *)
(***************************************************************************)
ProgressTruthful ==
  /\ \A k \in 1 .. Len(progress) - 1 : progress[k] < progress[k + 1]
  /\ Processed <= written
  /\ "audio" \in features => Processed <= audio_index
  /\ "dropouts" \in features => Processed <= rows
  /\ status = "succeeded" /\ mode # "validate_only" => Processed = FrameCount

(***************************************************************************)
(* Metadata never stands without a video, nor beside the video of a run    *)
(* older than its own, and completed metadata describes exactly the frames *)
(* that were handed to the completed video of its run: not even after a    *)
(* failure or a crash. What may stand beside a newer video that is not     *)
(* complete is the metadata of an earlier run, which only FinalizeWrite    *)
(* removes.                                                                *)
(***************************************************************************)
MetadataTruthful ==
  LET video == disk["video"] metadata == disk["metadata"] IN
  metadata # Absent =>
    /\ video # Absent /\ metadata.run <= video.run
    /\ metadata.end = "whole" /\ metadata.run = video.run =>
         video.end # "open" /\ video.frames = metadata.frames

(***************************************************************************)
(* CancellationToken is polled between frame batches: after a request at   *)
(* most the batch in progress is still written.                            *)
(***************************************************************************)
CancellationPrompt ==
  cancelled => written <= cancelled_at + (IF mode = "pool" THEN 1 ELSE Batch)

(* A cancellation takes effect at the next poll and takes the files away.  *)
CancellationHonoured == CancelledLeavesNothing /\ CancellationPrompt

(* What is written, counted and reported keeps step in every track.        *)
TracksInStep == TypeOK /\ FrameLocked /\ ProgressTruthful

-------------------------------------------------------------------------------
(***************************************************************************)
(* Why it all holds: what is true of the counters, of the disk and of the  *)
(* status at each call of RunProject. Inductive, together with the types.  *)
(***************************************************************************)
BeforeFrames == {"validate", "schedule", "begin_output", "begin_dropouts",
                 "begin_audio"}
InFrames     == {"head", "append", "emit", "report"}

(* The counters step through a frame or batch in the order of the calls.   *)
CountersInStep ==
  /\ \A k \in 1 .. Len(progress) - 1 : progress[k] < progress[k + 1]
  /\ pc \in BeforeFrames =>
       written = 0 /\ audio_index = 0 /\ rows = 0 /\ progress = <<>>
  /\ pc \in {"head", "append", "finalize_output"} => Processed = written
  /\ pc = "append" => Processed < FrameCount
  /\ pc \in {"emit", "report"} =>
       Processed < FrameCount /\ written = Processed + BatchSize
  /\ pc \in {"finalize_output", "finalize_audio", "finalize_dropouts"} =>
       Processed = FrameCount /\ written = FrameCount
  /\ Processed <= written
  /\ "audio" \in features =>
       /\ Processed <= audio_index
       /\ pc \in {"head", "append"} => audio_index = Processed
       /\ pc = "report" => audio_index = written
  /\ "dropouts" \in features =>
       /\ Processed <= rows
       /\ pc = "head" => rows = Processed
       /\ pc = "append" =>
            rows = Processed + (IF mode = "pool" THEN 0 ELSE BatchSize)
       /\ pc \in {"emit", "report"} => rows = written
       /\ pc \in {"finalize_output", "finalize_audio", "finalize_dropouts"} =>
            rows = written

(* The pool has delivered what has been reported.                          *)
PoolInStep ==
  /\ delivered \in Seq(Nat)
  /\ mode = "pool" /\ pc \in BeforeFrames \cup InFrames =>
       result = "running" /\ Len(delivered) = Processed

(* A token that is set lets the batch in progress end, and no other begin. *)
TokenInStep ==
  /\ cancelled_at <= written
  /\ cancelled /\ pc = "append" => written = cancelled_at

(* A file of an earlier run, or none.                                      *)
Older(a)  == disk[a] # Absent => disk[a].run < run
Held(n)   == [run |-> run, frames |-> n, end |-> "open"]

(* Which files are this run's, and how far they have been written.         *)
VideoInStep ==
  /\ pc \in {"validate", "schedule", "begin_output"} => Older("video")
  /\ pc \in {"begin_dropouts", "begin_audio", "finalize_output", "fail_close",
             "cancel_output"} \cup InFrames =>
       disk["video"] = Held(written) /\ Older("metadata")
  /\ pc \in BeforeFrames => Older("metadata")
  /\ pc \in {"finalize_audio", "finalize_dropouts"} =>
       Finished("video") /\ Whole("metadata")
  /\ pc \in {"cancel_audio", "cancel_dropouts"} =>
       disk["video"] = Absent /\ disk["metadata"] = Absent
AudioInStep ==
  /\ pc \in BeforeFrames => Older("wav") /\ Older("efm")
  /\ pc \in BeforeFrames \cup InFrames \cup {"finalize_output", "finalize_audio"}
       => Older("efm_index")
  /\ "audio" \in features =>
       /\ pc \in InFrames \cup {"finalize_output", "finalize_audio"} =>
            disk["wav"] = Held(audio_index)
       /\ pc = "finalize_dropouts" => Finished("wav")
       /\ pc = "fail_close" => written < FrameCount \/ ~Finished("wav")
  /\ "efm" \in features =>
       /\ pc \in InFrames \cup {"finalize_output", "finalize_audio"} =>
            disk["efm"] = Held(audio_index)
       /\ pc = "finalize_dropouts" => Whole("efm") /\ Whole("efm_index")
  /\ "audio" \notin features /\ pc = "fail_close" => written < FrameCount
  /\ pc = "cancel_dropouts" => Older("wav") /\ Older("efm") /\ Older("efm_index")
DropoutsInStep ==
  /\ pc \in BeforeFrames \ {"begin_audio"} => Older("dropouts")
  /\ "dropouts" \in features
       /\ pc \in {"begin_audio", "finalize_output", "finalize_audio",
                  "finalize_dropouts"} \cup InFrames
       => disk["dropouts"] = Held(0)

(* No file is newer than the run; only what the project declares is of it. *)
FilesInStep ==
  /\ \A a \in Artefact : disk[a] # Absent => disk[a].run <= run
  /\ \A a \in Artefact \ Expected : Older(a)
  /\ disk["metadata"] # Absent => disk["video"] # Absent

StatusInStep == pc # "idle" => run >= 1 /\ status = "none"
AfterValidation ==
  pc \notin {"idle", "validate"} => mode # "validate_only"

PipelineInvariant ==
  /\ TypeOK /\ CountersInStep /\ PoolInStep /\ TokenInStep
  /\ VideoInStep /\ AudioInStep /\ DropoutsInStep /\ FilesInStep
  /\ StatusInStep /\ AfterValidation
  /\ SuccessMeansComplete /\ CancellationHonoured /\ ProgressTruthful
  /\ MetadataTruthful
===============================================================================
