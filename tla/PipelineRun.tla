------------------------------ MODULE PipelineRun ------------------------------
(***************************************************************************)
(* VideoSynthPipeline::RunProject and the write sessions it drives: the    *)
(* OutputStage (video and metadata), the AudioTrackGenerator with its WAV  *)
(* and EFM writers, and the sidecar of the DropoutInjectionStage. Runs     *)
(* follow each other on the same output paths, each with stages of its     *)
(* own, as in main.cpp and GenerationController::RunDefaultPipeline.       *)
(*                                                                         *)
(* The frame synthesis pool appears through its contract, OrderedDelivery. *)
(*                                                                         *)
(* A file is one record: the run that opened it, the frames handed to it   *)
(* and how its session ended. "open": it was never completed. "whole": it  *)
(* was completed. "torn": it was completed too, but part of what was       *)
(* handed to it is not in it, because the result of a close or of an       *)
(* insert is not read. "video" stands for the luma and chroma files of a   *)
(* Y/C project together, "wav" for all channel pairs.                      *)
(***************************************************************************)
EXTENDS Integers, Sequences

CONSTANTS
  FrameCount,   \* total_disc_frames
  Batch,        \* ComputeBatchFrameCount, for the sequential loop
  MaxRuns,      \* bound: how many runs share the output paths
  Faults,       \* whether a job, a write or a database call may fail
  Absent        \* the content of a file that does not exist

ASSUME FrameCountAssumption == FrameCount \in Nat \ {0}
ASSUME BatchAssumption      == Batch \in Nat \ {0}
ASSUME MaxRunsAssumption    == MaxRuns \in Nat
ASSUME FaultsAssumption     == Faults \in BOOLEAN

Artefact == {"video", "metadata", "wav", "efm", "efm_index", "dropouts"}
FileType == [run : 1 .. MaxRuns, frames : 0 .. FrameCount,
             end : {"open", "whole", "torn"}]

ASSUME AbsentAssumption == Absent \notin FileType

(***************************************************************************)
(* What a project declares: audio channel pairs, EFM output of one of      *)
(* them, dropout injection. And how it is run: validation only, the        *)
(* sequential loop, or the synthesis pool.                                 *)
(***************************************************************************)
Projects == {f \in SUBSET {"audio", "efm", "dropouts"} :
               "efm" \in f => "audio" \in f}
Modes    == {"validate_only", "sequential", "pool"}

VARIABLES
  run,          \* the number of the current or last run
  features,     \* the project's features
  mode,
  pc,           \* the next call of RunProject, "idle" between runs
  status,       \* the terminal status of the last run
  cancelled,    \* the run's CancellationToken
  cancelled_at, \* frames written when it was requested
  written,      \* written_samples_, in frames
  audio_index,  \* audio_output_index
  rows,         \* frames whose dropout rows were handed to the transaction
  refused,      \* whether sqlite has refused one of those rows
  progress,     \* what OnFrameProgress has reported, oldest first
  delivered,    \* OrderedDelivery: frames the pool's consumer accepted
  result,       \* OrderedDelivery: what RunOrdered returned
  disk          \* the file system: Artefact -> file or Absent

options     == <<run, features, mode>>
token       == <<cancelled, cancelled_at>>
counters    == <<written, audio_index, rows, refused>>
pool_vars   == <<delivered, result>>
vars == <<options, pc, status, token, counters, progress, pool_vars, disk>>

Pool == INSTANCE OrderedDelivery

Locations ==
  {"idle", "validate", "schedule", "begin_output", "begin_dropouts",
   "begin_audio", "head", "append", "emit", "report", "finalize_output",
   "finalize_audio", "finalize_dropouts", "fail_close", "cancel_output",
   "cancel_audio", "cancel_dropouts"}
Statuses == {"none", "succeeded", "failed", "cancelled", "crashed"}

Init ==
  /\ run = 0 /\ features = {} /\ mode = "validate_only"
  /\ pc = "idle" /\ status = "none"
  /\ cancelled = FALSE /\ cancelled_at = 0
  /\ written = 0 /\ audio_index = 0 /\ rows = 0 /\ refused = FALSE
  /\ progress = <<>>
  /\ Pool!Init
  /\ disk = [a \in Artefact |-> Absent]

Opened == [run |-> run, frames |-> 0, end |-> "open"]
AddFrames(d, a, n)  == [d EXCEPT ![a].frames = @ + n]
Completed(d, a, how) == [d EXCEPT ![a].end = how]
Without(d, as)      == [a \in Artefact |-> IF a \in as THEN Absent ELSE d[a]]

(* How a file ends whose stream is closed without looking at the result:   *)
(* the bytes still buffered may be lost, and the session goes on.          *)
UncheckedClose == {"whole"} \cup (IF Faults THEN {"torn"} ELSE {})
AudioFiles == {"wav"} \cup (features \cap {"efm"})

Goto(from, to) == pc = from /\ pc' = to /\ UNCHANGED status

(* FinishRun reports the status; the stages are destroyed with the run. *)
Finish(from, outcome) == pc = from /\ pc' = "idle" /\ status' = outcome

-------------------------------------------------------------------------------
(* Up to the first frame.                                                  *)

StartRun ==
  /\ pc = "idle" /\ run < MaxRuns
  /\ run' = run + 1
  /\ features' \in Projects /\ mode' \in Modes
  /\ pc' = "validate" /\ status' = "none"
  /\ cancelled' = FALSE /\ cancelled_at' = 0
  /\ written' = 0 /\ audio_index' = 0 /\ rows' = 0 /\ refused' = FALSE
  /\ progress' = <<>>
  /\ delivered' = <<>> /\ result' = "running"
  /\ UNCHANGED disk

(* Parse errors and validation errors end the run; then the token is read. *)
Validate ==
  /\ \/ Finish("validate", "failed")
     \/ mode = "validate_only" /\ Finish("validate", "succeeded")
     \/ mode # "validate_only" /\ cancelled /\ Finish("validate", "cancelled")
     \/ mode # "validate_only" /\ ~cancelled /\ Goto("validate", "schedule")
  /\ UNCHANGED <<options, token, counters, progress, pool_vars, disk>>

BuildSchedule ==
  /\ \/ Goto("schedule", "begin_output")
     \/ Faults /\ Finish("schedule", "failed")
  /\ UNCHANGED <<options, token, counters, progress, pool_vars, disk>>

(* Opening truncates the video; a chroma file that cannot be opened leaves  *)
(* the luma file behind.                                                    *)
BeginOutput ==
  /\ \/ /\ Goto("begin_output", "begin_dropouts")
        /\ disk' = [disk EXCEPT !["video"] = Opened]
     \/ /\ Faults /\ Finish("begin_output", "failed")
        /\ disk' \in {disk, [disk EXCEPT !["video"] = Opened]}
  /\ UNCHANGED <<options, token, counters, progress, pool_vars>>

(***************************************************************************)
(* The sidecar's schema is recreated and a transaction begun. A failure    *)
(* closes the output session, in which no frame has been written yet.      *)
(***************************************************************************)
BeginDropouts ==
  /\ \/ /\ "dropouts" \notin features /\ Goto("begin_dropouts", "begin_audio")
        /\ UNCHANGED disk
     \/ /\ "dropouts" \in features /\ Goto("begin_dropouts", "begin_audio")
        /\ disk' = [disk EXCEPT !["dropouts"] = Opened]
     \/ /\ "dropouts" \in features /\ Faults /\ Finish("begin_dropouts", "failed")
        /\ disk' \in {disk, [disk EXCEPT !["dropouts"] = Opened]}
  /\ UNCHANGED <<options, token, counters, progress, pool_vars>>

(***************************************************************************)
(* Opens the WAV files, then the EFM stream. A WAV file whose header       *)
(* cannot be written stays; when a later pair or the EFM stream cannot be  *)
(* opened the WAV files before it are removed again.                       *)
(***************************************************************************)
BeginAudio ==
  /\ \/ /\ "audio" \notin features /\ Goto("begin_audio", "head")
        /\ UNCHANGED disk
     \/ /\ "audio" \in features /\ Goto("begin_audio", "head")
        /\ disk' = [a \in Artefact |-> IF a \in AudioFiles THEN Opened
                                       ELSE disk[a]]
     \/ /\ "audio" \in features /\ Faults /\ Goto("begin_audio", "fail_close")
        /\ disk' \in {disk, [disk EXCEPT !["wav"] = Opened],
                      Without(disk, {"wav"})}
  /\ UNCHANGED <<options, token, counters, progress, pool_vars>>

-------------------------------------------------------------------------------
(* The frames.                                                             *)

Processed == IF progress = <<>> THEN 0 ELSE progress[Len(progress)]
BatchSize ==
  IF mode = "pool" THEN 1
  ELSE IF Batch < FrameCount - Processed THEN Batch ELSE FrameCount - Processed

(* WriteSidecarRow does not look at what sqlite3_step returns: a row it     *)
(* refuses, for want of space or for its key, is missing without an error.  *)
HandRows(n) ==
  IF "dropouts" \in features
    THEN rows' = rows + n /\ refused' \in {refused, TRUE}
    ELSE UNCHANGED <<rows, refused>>

(***************************************************************************)
(* The sequential loop: the token is read once per batch, a batch is       *)
(* generated, and its dropout rows are handed to the transaction before    *)
(* the video samples are written.                                          *)
(***************************************************************************)
SequentialHead ==
  /\ mode = "sequential"
  /\ \/ /\ Processed = FrameCount
        /\ Goto("head", "finalize_output") /\ UNCHANGED <<rows, refused>>
     \/ /\ Processed < FrameCount /\ cancelled
        /\ Goto("head", "cancel_output") /\ UNCHANGED <<rows, refused>>
     \/ /\ Processed < FrameCount /\ ~cancelled
        /\ Goto("head", "append") /\ HandRows(BatchSize)
     \/ /\ Processed < FrameCount /\ ~cancelled /\ Faults
        /\ Goto("head", "fail_close") /\ UNCHANGED <<rows, refused>>
  /\ UNCHANGED <<options, token, written, audio_index, progress, pool_vars,
                 disk>>

(* FinishFailedPoolRun: a cancellation takes precedence over any error. *)
AfterFailedPool == IF cancelled THEN "cancel_output" ELSE "fail_close"

(***************************************************************************)
(* The pool: it reads the token before each frame, stops on it or on a     *)
(* failed job, and otherwise hands the next frame to ConsumeFrame.         *)
(***************************************************************************)
PoolHead ==
  /\ mode = "pool"
  /\ \/ Pool!Complete /\ Goto("head", "finalize_output")
     \/ /\ Len(delivered) < FrameCount /\ ~cancelled
        /\ Goto("head", "append") /\ UNCHANGED pool_vars
     \/ /\ cancelled \/ Faults
        /\ Pool!Stop /\ Goto("head", AfterFailedPool)
  /\ UNCHANGED <<options, token, counters, progress, disk>>

(* A consumer that fails stops the pool. *)
Refuse(from) ==
  IF mode = "pool" THEN Pool!Stop /\ Goto(from, AfterFailedPool)
  ELSE Goto(from, "fail_close") /\ UNCHANGED pool_vars

(***************************************************************************)
(* AppendSamples or AppendEncodedFrame. A failure may leave part of a      *)
(* batch written. The pool hands over the frame's dropout rows afterwards. *)
(***************************************************************************)
Append_ ==
  /\ \/ /\ Goto("append", "emit")
        /\ written' = written + BatchSize
        /\ disk' = AddFrames(disk, "video", BatchSize)
        /\ IF mode = "pool" THEN HandRows(1) ELSE UNCHANGED <<rows, refused>>
        /\ UNCHANGED pool_vars
     \/ /\ Faults /\ Refuse("append")
        /\ \E n \in 0 .. BatchSize - 1 :
             written' = written + n /\ disk' = AddFrames(disk, "video", n)
        /\ UNCHANGED <<rows, refused>>
  /\ UNCHANGED <<options, token, audio_index, progress>>

(* Mutant: one audio frame is emitted per batch instead of one per frame. *)
EmitOncePerBatch ==
  /\ pc = "emit"
  /\ \/ /\ "audio" \notin features \/ audio_index > Processed
        /\ Goto("emit", "report")
        /\ UNCHANGED <<audio_index, disk>>
     \/ /\ "audio" \in features /\ audio_index <= Processed
        /\ Goto("emit", "emit")
        /\ audio_index' = audio_index + 1
        /\ disk' = [a \in Artefact |->
                      IF a \in AudioFiles
                        THEN [disk[a] EXCEPT !.frames = @ + 1] ELSE disk[a]]
  /\ UNCHANGED <<options, token, written, rows, refused, progress, pool_vars>>

(***************************************************************************)
(* EmitAudioFrame for every frame just written, one frame at a time: each  *)
(* pair's WAV samples, then the EFM stream's.                              *)
(***************************************************************************)
EmitAudio ==
  /\ pc = "emit"
  /\ \/ /\ "audio" \notin features \/ audio_index = written
        /\ Goto("emit", "report")
        /\ UNCHANGED <<audio_index, disk, pool_vars>>
     \/ /\ "audio" \in features /\ audio_index < written
        /\ Goto("emit", "emit")
        /\ audio_index' = audio_index + 1
        /\ disk' = [a \in Artefact |->
                      IF a \in AudioFiles
                        THEN [disk[a] EXCEPT !.frames = @ + 1] ELSE disk[a]]
        /\ UNCHANGED pool_vars
     \/ /\ "audio" \in features /\ audio_index < written
        /\ Faults /\ Refuse("emit")
        /\ disk' \in {disk} \cup
             (IF "efm" \in features THEN {AddFrames(disk, "wav", 1)} ELSE {})
        /\ UNCHANGED audio_index
  /\ UNCHANGED <<options, token, written, rows, refused, progress>>

(* NotifyProgress, and the pool's consumer returns true. *)
Report ==
  /\ Goto("report", "head")
  /\ progress' = Append(progress, Processed + BatchSize)
  /\ IF mode = "pool" THEN Pool!Deliver ELSE UNCHANGED pool_vars
  /\ UNCHANGED <<options, token, counters, disk>>

-------------------------------------------------------------------------------
(* The end of a run.                                                       *)

(***************************************************************************)
(* OutputStage::FinalizeWrite as a relation between two states of the      *)
(* disk. A frame count other than the expected one closes the files and    *)
(* fails; otherwise the streams are closed, unchecked, and the metadata    *)
(* database is removed, unchecked too, and written anew.                   *)
(***************************************************************************)
MetadataWritten(how) ==
  [Completed(disk, "video", how) EXCEPT
     !["metadata"] = [run |-> run, frames |-> FrameCount, end |-> "whole"]]
(* Mutant: the number of frames written is not compared with the schedule. *)
OutputFinalizedUnchecked ==
  \E how \in UncheckedClose : disk' = MetadataWritten(how)
OutputFinalized ==
  written = FrameCount /\ \E how \in UncheckedClose : disk' = MetadataWritten(how)
OutputNotFinalized ==
  \/ written # FrameCount /\ UNCHANGED disk
  \/ /\ written = FrameCount /\ Faults
     /\ \E how \in UncheckedClose, m \in {Absent, Opened, disk["metadata"]} :
          disk' = [Completed(disk, "video", how) EXCEPT !["metadata"] = m]

FinalizeOutput ==
  /\ \/ Goto("finalize_output", "finalize_audio") /\ OutputFinalized
     \/ Finish("finalize_output", "failed") /\ OutputNotFinalized
  /\ UNCHANGED <<options, token, counters, progress, pool_vars>>

(***************************************************************************)
(* Every writer is finalised even after one has failed. A WAV writer        *)
(* patches its header and closes the file unchecked; the EFM writer         *)
(* flushes its stream, checks the close and writes the frame index beside.  *)
(***************************************************************************)
FinalizedWriters(ok, how) ==
  [a \in Artefact |->
     IF a \in AudioFiles /\ a \in ok
       THEN [disk[a] EXCEPT !.end = IF a = "wav" THEN how ELSE "whole"]
       ELSE disk[a]]
(* Mutant: the frame index is not written beside the EFM stream. *)
FinalizedStreams(ok, how, index) == FinalizedWriters(ok, how)
FinalizedAudio(ok, how, index) ==
  [a \in Artefact |-> IF a = "efm_index" /\ "efm" \in ok THEN index
                      ELSE FinalizedWriters(ok, how)[a]]
WholeIndex == [run |-> run, frames |-> audio_index, end |-> "whole"]

FinalizeAudio ==
  /\ \/ /\ "audio" \notin features
        /\ Goto("finalize_audio", "finalize_dropouts") /\ UNCHANGED disk
     \/ /\ "audio" \in features
        /\ Goto("finalize_audio", "finalize_dropouts")
        /\ \E how \in UncheckedClose :
             disk' = FinalizedAudio(AudioFiles, how, WholeIndex)
     \/ /\ "audio" \in features /\ Faults
        /\ Finish("finalize_audio", "failed")
        /\ \E ok \in SUBSET AudioFiles, how \in UncheckedClose,
              index \in {Absent, Opened, WholeIndex} :
             /\ ok # AudioFiles \/ (AudioFiles # {"wav"} /\ index # WholeIndex)
             /\ disk' = FinalizedAudio(ok, how, index)
  /\ UNCHANGED <<options, token, counters, progress, pool_vars>>

(* COMMIT makes the rows sqlite accepted the sidecar's content. *)
FinalizeDropouts ==
  /\ \/ /\ "dropouts" \notin features
        /\ Finish("finalize_dropouts", "succeeded") /\ UNCHANGED disk
     \/ /\ "dropouts" \in features
        /\ Finish("finalize_dropouts", "succeeded")
        /\ disk' = [disk EXCEPT !["dropouts"] =
                      [run |-> run, frames |-> rows,
                       end |-> IF refused THEN "torn" ELSE "whole"]]
     \/ /\ "dropouts" \in features /\ Faults
        /\ Finish("finalize_dropouts", "failed") /\ UNCHANGED disk
  /\ UNCHANGED <<options, token, counters, progress, pool_vars>>

(* CloseOutputSessionOnFailure: only the output stage is told. *)
FailClose ==
  /\ Finish("fail_close", "failed")
  /\ OutputFinalized \/ OutputNotFinalized
  /\ UNCHANGED <<options, token, counters, progress, pool_vars>>

(* CancelRun: each open session removes its files. *)
CancelOutput ==
  /\ Goto("cancel_output", "cancel_audio")
  /\ disk' = Without(disk, {"video", "metadata"})
  /\ UNCHANGED <<options, token, counters, progress, pool_vars>>

(* Mutant: a cancelled run leaves its audio sessions to their destructors. *)
CancelNoAudio ==
  /\ Goto("cancel_audio", "cancel_dropouts")
  /\ UNCHANGED <<options, token, counters, progress, pool_vars, disk>>

CancelAudio ==
  /\ Goto("cancel_audio", "cancel_dropouts")
  /\ disk' = IF "audio" \notin features THEN disk
             ELSE Without(disk, AudioFiles \cup
                    (IF "efm" \in features THEN {"efm_index"} ELSE {}))
  /\ UNCHANGED <<options, token, counters, progress, pool_vars>>

CancelDropouts ==
  /\ Finish("cancel_dropouts", "cancelled")
  /\ disk' = Without(disk, features \cap {"dropouts"})
  /\ UNCHANGED <<options, token, counters, progress, pool_vars>>

-------------------------------------------------------------------------------
(* The environment.                                                        *)

RequestCancellation ==
  /\ pc # "idle" /\ ~cancelled
  /\ cancelled' = TRUE /\ cancelled_at' = written
  /\ UNCHANGED <<options, pc, status, counters, progress, pool_vars, disk>>

(* The process dies; an open sqlite transaction is rolled back. *)
Crash ==
  /\ Faults /\ pc # "idle"
  /\ pc' = "idle" /\ status' = "crashed"
  /\ UNCHANGED <<options, token, counters, progress, pool_vars, disk>>

NoMoreRuns == pc = "idle" /\ run = MaxRuns /\ UNCHANGED vars

Next ==
  \/ StartRun \/ Validate \/ BuildSchedule
  \/ BeginOutput \/ BeginDropouts \/ BeginAudio
  \/ SequentialHead \/ PoolHead \/ Append_ \/ EmitAudio \/ Report
  \/ FinalizeOutput \/ FinalizeAudio \/ FinalizeDropouts \/ FailClose
  \/ CancelOutput \/ CancelAudio \/ CancelDropouts
  \/ RequestCancellation \/ Crash \/ NoMoreRuns

Spec == Init /\ [][Next]_vars
===============================================================================
