---------------------------- MODULE PipelineRunProofs ----------------------------
(***************************************************************************)
(* A pipeline run's safety properties for every number of frames, every    *)
(* batch size and every number of runs over the same output paths. First   *)
(* what each call of the run does to the files, one lemma per call; then   *)
(* one lemma per conjunct of PipelineInvariant; then the theorems.         *)
(***************************************************************************)
EXTENDS PipelineRunProps, SequenceTheorems, TLAPS

USE FrameCountAssumption, BatchAssumption, MaxRunsAssumption, FaultsAssumption,
    AbsentAssumption

-------------------------------------------------------------------------------
(* Progress.                                                               *)

LEMMA Last ==
  ASSUME progress \in Seq(1 .. FrameCount)
  PROVE  Processed \in 0 .. FrameCount
BY DEF Processed

(* A report adds a batch to the progress, which stays increasing.          *)
LEMMA Reported ==
  ASSUME progress \in Seq(1 .. FrameCount), Processed \in 0 .. FrameCount,
         NEW b \in Nat \ {0}, Processed + b \in 1 .. FrameCount,
         progress' = Append(progress, Processed + b)
  PROVE  /\ progress' \in Seq(1 .. FrameCount)
         /\ Processed' = Processed + b
         /\ Len(progress') = Len(progress) + 1
         /\ (\A k \in 1 .. Len(progress) - 1 : progress[k] < progress[k + 1])
              => \A k \in 1 .. Len(progress') - 1 : progress'[k] < progress'[k + 1]
<1>1. progress' \in Seq(1 .. FrameCount)
  OBVIOUS
<1>2. Len(progress') = Len(progress) + 1 /\ Len(progress) \in Nat
  OBVIOUS
<1>3. progress' # <<>> /\ progress'[Len(progress')] = Processed + b
  BY <1>2
<1>4. Processed' = Processed + b
  BY <1>3 DEF Processed
<1>5. \A k \in 1 .. Len(progress) : progress'[k] = progress[k]
  BY <1>2
<1>6. ASSUME \A k \in 1 .. Len(progress) - 1 : progress[k] < progress[k + 1],
             NEW k \in 1 .. Len(progress') - 1
      PROVE  progress'[k] < progress'[k + 1]
  <2>1. CASE k < Len(progress)
    BY <1>2, <1>5, <1>6, <2>1
  <2>2. CASE k = Len(progress)
    <3>1. progress # <<>> /\ progress[k] = Processed
      BY <2>2, <1>2, <1>6 DEF Processed
    <3>2. progress'[k] = Processed /\ progress'[k + 1] = Processed + b
      BY <1>2, <1>3, <1>5, <2>2, <3>1, <1>6
    <3> QED BY <3>2
  <2> QED BY <1>2, <1>6, <2>1, <2>2
<1> QED BY <1>1, <1>2, <1>4, <1>6

(* A batch is never empty and never longer than what is left.              *)
LEMMA Step ==
  ASSUME progress \in Seq(1 .. FrameCount), Processed < FrameCount
  PROVE  BatchSize \in 1 .. FrameCount - Processed
BY Last DEF BatchSize

(* What handing over rows does to the counters.                            *)
LEMMA RowsHanded ==
  \A n : HandRows(n) =>
    /\ rows' = IF "dropouts" \in features THEN rows + n ELSE rows
    /\ refused \in BOOLEAN => refused' \in BOOLEAN
BY DEF HandRows

-------------------------------------------------------------------------------
(* Files.                                                                  *)
DiskType == [Artefact -> FileType \cup {Absent}]

LEMMA FileOf ==
  ASSUME NEW r \in 1 .. MaxRuns, NEW n \in 0 .. FrameCount,
         NEW e \in {"open", "whole", "torn"}
  PROVE  [run |-> r, frames |-> n, end |-> e] \in FileType
BY DEF FileType

LEMMA FileIs ==
  ASSUME NEW f \in FileType
  PROVE  f = [run |-> f.run, frames |-> f.frames, end |-> f.end]
BY DEF FileType

(* A file of this run that is still written, and what more frames and its  *)
(* completion make of it.                                                  *)
LEMMA HeldFile ==
  ASSUME run \in 1 .. MaxRuns, NEW n \in 0 .. FrameCount
  PROVE  /\ Held(n) \in FileType
         /\ Held(n).run = run /\ Held(n).frames = n /\ Held(n).end = "open"
BY DEF Held, FileType

LEMMA HeldGrows ==
  ASSUME run \in 1 .. MaxRuns, NEW n \in 0 .. FrameCount, NEW k \in Int,
         n + k \in 0 .. FrameCount, NEW g, g = [Held(n) EXCEPT !.frames = @ + k]
  PROVE  g = Held(n + k)
<1>1. g \in FileType /\ g.run = run /\ g.frames = n + k /\ g.end = "open"
  BY DEF Held, FileType
<1> QED BY <1>1, FileIs DEF Held

LEMMA HeldCompletes ==
  ASSUME run \in 1 .. MaxRuns, NEW how \in {"whole", "torn"},
         NEW g, g = [Held(FrameCount) EXCEPT !.end = how]
  PROVE  g = Complete(how)
<1>1. /\ g \in FileType
      /\ g.run = run /\ g.frames = FrameCount /\ g.end = how
  BY DEF Held, FileType
<1> QED BY <1>1, FileIs DEF Complete

(* What a completed file of this run is, and is not.                       *)
LEMMA CompleteFile ==
  ASSUME run \in 1 .. MaxRuns
  PROVE  /\ \A how \in {"whole", "torn"} :
              /\ Complete(how) \in FileType /\ Complete(how) # Absent
              /\ Complete(how).run = run
              /\ \A n : Held(n) # Complete(how)
         /\ UncheckedClose \subseteq {"whole", "torn"}
<1>1. \A how \in {"whole", "torn"} : Complete(how) \in FileType
  BY DEF Complete, FileType
<1>2. \A how \in {"whole", "torn"} : Complete(how).end # "open" /\ Complete(how).run = run
  BY DEF Complete
<1>3. \A n : Held(n).end = "open"
  BY DEF Held
<1> QED BY <1>1, <1>2, <1>3 DEF UncheckedClose

LEMMA FramesAdded ==
  ASSUME disk \in DiskType, NEW a \in Artefact, run \in 1 .. MaxRuns,
         NEW n \in 0 .. FrameCount, NEW k \in Int, n + k \in 0 .. FrameCount,
         disk[a] = Held(n), NEW e, e = AddFrames(disk, a, k)
  PROVE  /\ e \in DiskType
         /\ e[a] = Held(n + k)
         /\ \A b \in Artefact \ {a} : e[b] = disk[b]
<1>1. PICK g : g = [Held(n) EXCEPT !.frames = @ + k]
  OBVIOUS
<1>2. g = Held(n + k) /\ g \in FileType
  BY <1>1, HeldGrows, HeldFile
<1>3. e = [disk EXCEPT ![a] = g]
  BY <1>1 DEF AddFrames
<1>4. e \in DiskType /\ e[a] = g /\ \A b \in Artefact \ {a} : e[b] = disk[b]
  BY <1>2, <1>3 DEF DiskType
<1> QED BY <1>2, <1>4

LEMMA FilesRemoved ==
  ASSUME NEW d \in DiskType, NEW as \in SUBSET Artefact,
         NEW e, e = Without(d, as)
  PROVE  /\ e \in DiskType
         /\ \A a \in as : e[a] = Absent
         /\ \A a \in Artefact \ as : e[a] = d[a]
BY DEF DiskType, Without

-------------------------------------------------------------------------------
(* What each call of the run does to the files.                            *)
Same(as) == \A a \in Artefact \ as : disk'[a] = disk[a]

(* The files as are the only ones touched: removed or of this run.         *)
Only(as) ==
  /\ disk' \in DiskType /\ Same(as)
  /\ \A a \in as : disk'[a] \in {disk[a], Absent} \/ disk'[a].run = run

(* The types the invariant gives to the steps below.                       *)
LEMMA InvariantTypes ==
  ASSUME PipelineInvariant
  PROVE  /\ disk \in DiskType
         /\ run \in 0 .. MaxRuns /\ written \in 0 .. FrameCount
         /\ audio_index \in 0 .. written /\ rows \in 0 .. FrameCount
         /\ progress \in Seq(1 .. FrameCount)
         /\ features \subseteq {"audio", "efm", "dropouts"}
         /\ "efm" \in features => "audio" \in features
         /\ pc # "idle" => run \in 1 .. MaxRuns
         /\ \A a \in Artefact : disk[a] # Absent => disk[a].run \in 1 .. MaxRuns
         /\ \A a \in AudioFiles : a \in Artefact
         /\ "wav" \in AudioFiles
<1>1. TypeOK /\ (pc # "idle" => run >= 1)
  BY DEF PipelineInvariant, StatusInStep
<1>2. features \subseteq {"audio", "efm", "dropouts"}
      /\ ("efm" \in features => "audio" \in features)
  BY <1>1 DEF TypeOK, Projects
<1>3. pc # "idle" => run \in 1 .. MaxRuns
  BY <1>1 DEF TypeOK
<1>4. (\A a \in AudioFiles : a \in Artefact) /\ "wav" \in AudioFiles
  BY DEF AudioFiles, Artefact
<1>5. \A a \in Artefact : disk[a] # Absent => disk[a].run \in 1 .. MaxRuns
  BY <1>1 DEF TypeOK, FileType
<1> QED BY <1>1, <1>2, <1>3, <1>4, <1>5 DEF TypeOK, DiskType

LEMMA HeldRun == \A n : Held(n).run = run
BY DEF Held

LEMMA OpenedHeld ==
  /\ Opened = Held(0)
  /\ PipelineInvariant /\ pc # "idle" => Held(0) \in FileType
<1>1. run \in 1 .. MaxRuns => Held(0) \in FileType
  BY DEF Held, FileType
<1> QED BY <1>1, InvariantTypes DEF Opened, Held

LEMMA FileOpened ==
  ASSUME PipelineInvariant, pc # "idle", NEW a \in Artefact,
         disk' = [disk EXCEPT ![a] = Opened]
  PROVE  Only({a}) /\ disk'[a] = Held(0)
<1>1. disk \in DiskType /\ Opened = Held(0) /\ Opened \in FileType
  BY InvariantTypes, HeldRun, OpenedHeld
<1> QED BY <1>1, HeldRun DEF DiskType, Only, Same

LEMMA BeginOutputFiles ==
  ASSUME PipelineInvariant, BeginOutput
  PROVE  /\ Only({"video"})
         /\ disk'["video"] \in {disk["video"], Held(0)}
         /\ pc' # "idle" => disk'["video"] = Held(0)
<1>1. CASE disk' = disk /\ pc' = "idle"
  BY <1>1, InvariantTypes, HeldRun DEF Only, Same
<1>2. CASE disk' = [disk EXCEPT !["video"] = Opened]
  BY <1>2, FileOpened DEF BeginOutput, Goto, Finish, Artefact
<1> QED BY <1>1, <1>2 DEF BeginOutput, Finish

LEMMA BeginDropoutsFiles ==
  ASSUME PipelineInvariant, BeginDropouts
  PROVE  /\ Only({"dropouts"})
         /\ disk'["dropouts"] \in {disk["dropouts"], Held(0)}
         /\ "dropouts" \notin features => Same({})
         /\ pc' # "idle" /\ "dropouts" \in features => disk'["dropouts"] = Held(0)
<1>1. CASE disk' = disk /\ (pc' = "idle" \/ "dropouts" \notin features)
  BY <1>1, InvariantTypes, HeldRun DEF Only, Same
<1>2. CASE disk' = [disk EXCEPT !["dropouts"] = Opened] /\ "dropouts" \in features
  BY <1>2, FileOpened DEF BeginDropouts, Goto, Finish, Artefact
<1> QED BY <1>1, <1>2 DEF BeginDropouts, Goto, Finish

LEMMA BeginAudioFiles ==
  ASSUME PipelineInvariant, BeginAudio
  PROVE  /\ Only(AudioFiles)
         /\ "audio" \notin features => Same({})
         /\ "audio" \in features /\ pc' = "head" =>
              \A a \in AudioFiles : disk'[a] = Held(0)
         /\ pc' = "fail_close" =>
              /\ "audio" \in features /\ Same({"wav"})
              /\ disk'["wav"] \in {disk["wav"], Held(0), Absent}
<1>1. pc = "begin_audio" /\ "wav" \in Artefact
  BY DEF BeginAudio, Goto, Artefact
<1>2. CASE disk' = disk /\ (pc' = "fail_close" => "audio" \in features)
             /\ ("audio" \in features => pc' = "fail_close")
  BY <1>2, InvariantTypes, HeldRun DEF Only, Same
<1>3. CASE disk' = [a \in Artefact |-> IF a \in AudioFiles THEN Opened
                                       ELSE disk[a]] /\ pc' = "head"
            /\ "audio" \in features
  <2>1. disk \in DiskType /\ Opened = Held(0) /\ Opened \in FileType
    BY <1>1, InvariantTypes, HeldRun, OpenedHeld
  <2> QED BY <1>3, <2>1, InvariantTypes, HeldRun DEF Only, Same, DiskType
<1>4. CASE /\ "audio" \in features /\ pc' = "fail_close"
           /\ disk' = [disk EXCEPT !["wav"] = Opened]
  BY <1>1, <1>4, FileOpened, InvariantTypes, HeldRun DEF Only, Same
<1>5. CASE "audio" \in features /\ pc' = "fail_close"
             /\ disk' = Without(disk, {"wav"})
  BY <1>1, <1>5, FilesRemoved, InvariantTypes, HeldRun DEF Only, Same
<1> QED BY <1>2, <1>3, <1>4, <1>5 DEF BeginAudio, Goto

LEMMA AppendFiles ==
  ASSUME PipelineInvariant, Append_
  PROVE  /\ Only({"video"})
         /\ written' \in 0 .. FrameCount
         /\ disk'["video"] = Held(written')
<1>1. pc = "append"
  BY DEF Append_, Goto, Refuse
<1>2. /\ disk["video"] = Held(written) /\ Processed = written
      /\ Processed < FrameCount
  BY <1>1 DEF PipelineInvariant, CountersInStep, VideoInStep, InFrames
<1>3. BatchSize \in 1 .. FrameCount - Processed
  BY <1>2, InvariantTypes, HeldRun, Step
<1>4. PICK n \in 0 .. BatchSize : /\ written' = written + n
                                  /\ disk' = AddFrames(disk, "video", n)
  BY <1>3 DEF Append_
<1>5. /\ "video" \in Artefact /\ n \in Int /\ written + n \in 0 .. FrameCount
  BY <1>2, <1>3, <1>4, InvariantTypes, HeldRun DEF Artefact
<1> QED BY <1>1, <1>2, <1>4, <1>5, InvariantTypes, HeldRun, FramesAdded
    DEF Only, Same

LEMMA EmitAudioFiles ==
  ASSUME PipelineInvariant, EmitAudio
  PROVE  /\ Only(AudioFiles)
         /\ "audio" \notin features => Same({})
         /\ "audio" \in features /\ pc' \in {"emit", "report"} =>
              \A a \in AudioFiles : disk'[a] = Held(audio_index')
         /\ pc' \notin {"emit", "report"} =>
              /\ "audio" \in features
              /\ disk'["wav"] \in {Held(audio_index), Held(audio_index + 1)}
<1>1. pc = "emit" /\ "wav" \in Artefact
  BY DEF EmitAudio, Artefact
<1>2. "audio" \in features => \A a \in AudioFiles : disk[a] = Held(audio_index)
  BY <1>1 DEF AudioFiles, PipelineInvariant, AudioInStep, InFrames
<1>3. CASE /\ UNCHANGED <<audio_index, disk>>
           /\ pc' \notin {"emit", "report"} => "audio" \in features
  BY <1>2, <1>3, InvariantTypes, HeldRun DEF Only, Same
<1>4. CASE /\ "audio" \in features /\ audio_index < written /\ pc' = "emit"
           /\ audio_index' = audio_index + 1
           /\ disk' = [a \in Artefact |->
                      IF a \in AudioFiles
                        THEN [disk[a] EXCEPT !.frames = @ + 1] ELSE disk[a]]
  <2>1. PICK g : g = [Held(audio_index) EXCEPT !.frames = @ + 1]
    OBVIOUS
  <2>2. g = Held(audio_index') /\ g \in FileType
    <3>1. /\ run \in 1 .. MaxRuns /\ audio_index \in 0 .. FrameCount
          /\ audio_index + 1 \in 0 .. FrameCount
      BY <1>1, <1>4, InvariantTypes, HeldRun
    <3>2. g = Held(audio_index + 1)
      BY <2>1, <3>1, HeldGrows
    <3>3. Held(audio_index + 1) \in FileType
      BY ONLY <3>1, HeldFile
    <3> QED BY <1>4, <3>2, <3>3
  <2>3. disk' = [a \in Artefact |-> IF a \in AudioFiles THEN g ELSE disk[a]]
    BY <1>2, <1>4, <2>1
  <2> QED BY <1>4, <2>2, <2>3, InvariantTypes, HeldRun DEF Only, Same, DiskType
<1>5. CASE /\ "audio" \in features /\ audio_index < written
           /\ pc' \notin {"emit", "report"}
           /\ disk' = AddFrames(disk, "wav", 1)
  <2>1. /\ disk["wav"] = Held(audio_index) /\ audio_index \in 0 .. FrameCount
        /\ audio_index + 1 \in 0 .. FrameCount
    BY <1>2, <1>5, InvariantTypes, HeldRun
  <2>2. /\ disk' \in DiskType /\ disk'["wav"] = Held(audio_index + 1)
        /\ \A b \in Artefact \ {"wav"} : disk'[b] = disk[b]
    BY <1>1, <1>5, <2>1, InvariantTypes, HeldRun, FramesAdded
  <2> QED BY <1>5, <2>2, InvariantTypes, HeldRun DEF Only, Same
<1> QED BY <1>3, <1>4, <1>5 DEF EmitAudio, Refuse, Goto, AfterFailedPool

LEMMA OutputFiles ==
  ASSUME PipelineInvariant, pc \in {"finalize_output", "fail_close"}, run' = run,
         OutputFinalized \/ OutputNotFinalized
  PROVE  /\ Only({"video", "metadata"})
         /\ written # FrameCount => Same({})
         /\ written = FrameCount => Finished("video")'
         /\ OutputFinalized => written = FrameCount /\ Whole("metadata")'
         /\ ~OutputFinalized /\ written = FrameCount =>
              disk'["metadata"] \in {Absent, Held(0), disk["metadata"]}
<1>1. /\ disk["video"] = Held(written) /\ disk \in DiskType
      /\ run \in 1 .. MaxRuns
      /\ "video" \in Artefact /\ "metadata" \in Artefact
  BY InvariantTypes, HeldRun DEF PipelineInvariant, VideoInStep, Artefact
<1>2. /\ \A how \in {"whole", "torn"} :
           Complete(how) \in FileType /\ Complete(how).run = run
      /\ UncheckedClose \subseteq {"whole", "torn"} /\ Held(0) \in FileType
  BY <1>1, CompleteFile, OpenedHeld
<1>3. CASE written # FrameCount
  BY <1>1, <1>3 DEF Only, Same, OutputFinalized, OutputNotFinalized
<1>4. ASSUME written = FrameCount, NEW how \in UncheckedClose,
             NEW m \in {Absent, Held(0), Complete("whole"), disk["metadata"]},
             disk' = [Completed(disk, "video", how) EXCEPT !["metadata"] = m]
      PROVE  /\ Only({"video", "metadata"}) /\ Finished("video")'
             /\ disk'["metadata"] = m
  <2>1. PICK g : g = [Held(FrameCount) EXCEPT !.end = how]
    OBVIOUS
  <2>2. g = Complete(how) /\ g \in FileType /\ g.run = run /\ how \in {"whole", "torn"}
    BY <1>1, <1>2, <2>1, HeldCompletes
  <2>3. Completed(disk, "video", how) = [disk EXCEPT !["video"] = g]
    BY <1>1, <1>4, <2>1 DEF Completed
  <2>4. /\ disk' = [disk EXCEPT !["video"] = g, !["metadata"] = m]
    BY <1>4, <2>3
  <2>5. m \in FileType \cup {Absent}
    BY <1>1, <1>2, <1>4 DEF DiskType
  <2>6. /\ disk' \in DiskType /\ disk'["video"] = g /\ disk'["metadata"] = m
        /\ Same({"video", "metadata"})
    BY <1>1, <2>2, <2>4, <2>5 DEF Same, DiskType
  <2>7. Only({"video", "metadata"})
    BY <1>2, <1>4, <2>2, <2>6, HeldRun DEF Only
  <2>8. Finished("video")'
    BY <2>2, <2>6 DEF Finished, Whole, Unread, Complete
  <2> QED BY <2>6, <2>7, <2>8
<1>5. CASE written = FrameCount /\ OutputFinalized
  <2>1. PICK how \in UncheckedClose : disk' = MetadataWritten(how)
    BY <1>5 DEF OutputFinalized
  <2>2. disk' = [Completed(disk, "video", how) EXCEPT
                   !["metadata"] = Complete("whole")]
    BY <2>1 DEF MetadataWritten, Complete
  <2>3. /\ Only({"video", "metadata"}) /\ Finished("video")'
        /\ disk'["metadata"] = Complete("whole")
    BY <1>4, <1>5, <2>2
  <2>4. Whole("metadata")'
    BY <2>3 DEF Whole, Complete
  <2> QED BY <1>5, <2>3, <2>4
<1>6. CASE written = FrameCount /\ ~OutputFinalized
  <2>1. PICK how \in UncheckedClose, m \in {Absent, Opened, disk["metadata"]} :
          disk' = [Completed(disk, "video", how) EXCEPT !["metadata"] = m]
    BY <1>6 DEF OutputNotFinalized
  <2>2. m \in {Absent, Held(0), disk["metadata"]}
    BY <2>1, OpenedHeld
  <2>3. /\ Only({"video", "metadata"}) /\ Finished("video")'
        /\ disk'["metadata"] = m
    BY <1>4, <1>6, <2>1, <2>2
  <2> QED BY <1>6, <2>2, <2>3
<1> QED BY <1>3, <1>5, <1>6

LEMMA FinalizeAudioFiles ==
  ASSUME PipelineInvariant, FinalizeAudio
  PROVE  /\ Only(AudioFiles \cup
                 (IF "efm" \in features THEN {"efm_index"} ELSE {}))
         /\ "audio" \notin features => Same({}) /\ pc' = "finalize_dropouts"
         /\ "audio" \in features /\ pc' = "finalize_dropouts" =>
              /\ \A a \in AudioFiles : Finished(a)'
              /\ "efm" \in features => Finished("efm_index")'
         /\ pc' = "idle" =>
              \/ \E a \in AudioFiles : ~Finished(a)'
              \/ "efm" \in features /\ ~Finished("efm_index")'
<1>1. /\ pc = "finalize_audio" /\ run' = run
      /\ "efm_index" \in Artefact /\ "efm_index" \notin AudioFiles
      /\ "efm" \in features <=> "efm" \in AudioFiles
      /\ AudioFiles # {"wav"} <=> "efm" \in features
  BY DEF FinalizeAudio, Goto, Finish, options, Artefact, AudioFiles
<1>2. /\ disk \in DiskType /\ run \in 1 .. MaxRuns
      /\ \A a \in AudioFiles : a \in Artefact
      /\ Held(0) \in FileType
  BY <1>1, InvariantTypes, HeldRun, OpenedHeld DEF FileType
<1>3. /\ \A how \in {"whole", "torn"} :
           /\ Complete(how) \in FileType /\ Complete(how).run = run
           /\ Complete(how) # Absent /\ \A n : Held(n) # Complete(how)
      /\ UncheckedClose \subseteq {"whole", "torn"}
  BY <1>2, CompleteFile
<1>4. ASSUME "audio" \in features
      PROVE  audio_index = FrameCount /\ \A a \in AudioFiles : disk[a] = Held(FrameCount)
  <2>1. audio_index = FrameCount
    BY <1>1, <1>4, InvariantTypes, HeldRun DEF PipelineInvariant, CountersInStep
  <2>2. \A a \in AudioFiles : disk[a] = Held(audio_index)
    BY <1>1, <1>4 DEF PipelineInvariant, AudioInStep, AudioFiles
  <2> QED BY <2>1, <2>2
<1>5. "audio" \in features => WholeIndex = Complete("whole")
  BY <1>4 DEF WholeIndex, Complete
<1>6. \A a : Complete(a)' = Complete(a)
  BY <1>1 DEF Complete
<1>7. CASE "audio" \notin features
  BY <1>1, <1>2, <1>7 DEF FinalizeAudio, Goto, Only, Same
<1>8. ASSUME "audio" \in features, NEW ok \in SUBSET AudioFiles,
             NEW how \in UncheckedClose,
             NEW index \in {Absent, Held(0), Complete("whole")},
             disk' = FinalizedAudio(ok, how, index)
      PROVE  /\ Only(AudioFiles \cup
                      (IF "efm" \in features THEN {"efm_index"} ELSE {}))
             /\ \A a \in ok :
                  disk'[a] = Complete(IF a = "wav" THEN how ELSE "whole")
             /\ \A a \in AudioFiles \ ok : disk'[a] = Held(FrameCount)
             /\ "efm" \in ok => disk'["efm_index"] = index
  <2>1. /\ DOMAIN disk' = Artefact
        /\ \A a \in Artefact :
             /\ a \in ok => disk'[a] = [disk[a] EXCEPT !.end =
                                          IF a = "wav" THEN how ELSE "whole"]
             /\ a = "efm_index" /\ "efm" \in ok => disk'[a] = index
             /\ a \notin ok /\ ~(a = "efm_index" /\ "efm" \in ok) =>
                  disk'[a] = disk[a]
    BY <1>1, <1>8 DEF FinalizedAudio, FinalizedWriters
  <2>2. ASSUME NEW a \in ok
        PROVE  /\ disk'[a] = Complete(IF a = "wav" THEN how ELSE "whole")
               /\ disk'[a] \in FileType /\ disk'[a].run = run
    <3>1. PICK e \in {"whole", "torn"} : e = IF a = "wav" THEN how ELSE "whole"
      BY <1>3
    <3>2. a \in Artefact /\ disk[a] = Held(FrameCount)
      BY <1>2, <1>4, <1>8, <2>2
    <3>3. disk'[a] = [Held(FrameCount) EXCEPT !.end = e]
      BY <2>1, <3>1, <3>2
    <3>4. disk'[a] = Complete(e)
      BY <1>2, <3>3, HeldCompletes
    <3> QED BY <1>3, <3>1, <3>4
  <2>3. disk' \in DiskType
    <3>1. \A a \in Artefact : disk'[a] \in FileType \cup {Absent}
      BY <1>2, <1>3, <1>8, <2>1, <2>2 DEF DiskType
    <3>2. disk' = [b \in Artefact |-> disk'[b]]
      BY <1>8 DEF FinalizedAudio
    <3> QED BY <3>1, <3>2 DEF DiskType
  <2>4. Same(AudioFiles \cup
              (IF "efm" \in features THEN {"efm_index"} ELSE {}))
    BY <1>1, <1>8, <2>1 DEF Same
  <2>5. \A a \in AudioFiles \ ok : disk'[a] = Held(FrameCount)
    BY <1>1, <1>2, <1>4, <2>1, <1>8
  <2>6. \A a \in AudioFiles : disk'[a].run = run
    BY <1>8, <2>2, <2>5, HeldRun
  <2>7. "efm" \in features /\ "efm" \notin ok => disk'["efm_index"] = disk["efm_index"]
    BY <1>1, <1>8, <2>1
  <2>8. "efm" \in ok => disk'["efm_index"] = index
    BY <1>1, <2>1
  <2>9. Only(AudioFiles \cup
              (IF "efm" \in features THEN {"efm_index"} ELSE {}))
    BY <1>1, <1>2, <1>3, <1>8, <2>3, <2>4, <2>6, <2>7, <2>8, HeldRun DEF Only
  <2> QED BY <2>2, <2>5, <2>8, <2>9
<1>9. ASSUME "audio" \in features, pc' = "finalize_dropouts",
             NEW how \in UncheckedClose,
             disk' = FinalizedAudio(AudioFiles, how, WholeIndex)
      PROVE  /\ Only(AudioFiles \cup
                      (IF "efm" \in features THEN {"efm_index"} ELSE {}))
             /\ \A a \in AudioFiles : Finished(a)'
             /\ "efm" \in features => Finished("efm_index")'
  <2>1. WholeIndex \in {Absent, Held(0), Complete("whole")}
    BY <1>5, <1>9
  <2>2. /\ Only(AudioFiles \cup
                 (IF "efm" \in features THEN {"efm_index"} ELSE {}))
        /\ \A a \in AudioFiles :
             disk'[a] = Complete(IF a = "wav" THEN how ELSE "whole")
        /\ "efm" \in AudioFiles => disk'["efm_index"] = WholeIndex
    BY <1>8, <1>9, <2>1
  <2>3. how \in {"whole", "torn"}
    BY <1>3
  <2>4. \A a \in AudioFiles : Finished(a)'
    BY <1>6, <2>2, <2>3 DEF Finished, Whole, Unread
  <2>5. "efm" \in features => Finished("efm_index")'
    BY <1>1, <1>5, <1>6, <1>9, <2>2 DEF Finished, Whole
  <2> QED BY <2>2, <2>4, <2>5
<1>10. CASE "audio" \in features /\ pc' = "idle"
  <2>1. PICK ok \in SUBSET AudioFiles, how \in UncheckedClose,
             index \in {Absent, Opened, WholeIndex} :
             /\ ok # AudioFiles \/ (AudioFiles # {"wav"} /\ index # WholeIndex)
             /\ disk' = FinalizedAudio(ok, how, index)
    BY <1>10 DEF FinalizeAudio, Goto, Finish
  <2>2. index \in {Absent, Held(0), Complete("whole")}
    BY <1>5, <1>10, <2>1, OpenedHeld
  <2>3. /\ Only(AudioFiles \cup
                 (IF "efm" \in features THEN {"efm_index"} ELSE {}))
        /\ \A a \in AudioFiles \ ok : disk'[a] = Held(FrameCount)
        /\ "efm" \in ok => disk'["efm_index"] = index
    BY <1>8, <1>10, <2>1, <2>2
  <2>4. CASE ok # AudioFiles
    <3>1. PICK a \in AudioFiles : a \notin ok
      BY <2>1, <2>4
    <3>2. disk'[a] = Held(FrameCount)
      BY <2>3, <3>1
    <3>3. ~Finished(a)'
      BY <1>3, <1>6, <3>2 DEF Finished, Whole
    <3> QED BY <1>10, <2>3, <3>1, <3>3
  <2>5. CASE ok = AudioFiles /\ index # WholeIndex /\ AudioFiles # {"wav"}
    <3>1. /\ "efm" \in features /\ "efm" \in ok
          /\ disk'["efm_index"] # Complete("whole")
      BY <1>1, <1>5, <1>10, <2>3, <2>5
    <3>2. ~Finished("efm_index")'
      BY <1>6, <3>1 DEF Finished, Whole, Unread
    <3> QED BY <1>10, <2>3, <3>1, <3>2
  <2> QED BY <2>1, <2>4, <2>5
<1> QED BY <1>7, <1>9, <1>10 DEF FinalizeAudio, Goto, Finish

LEMMA FinalizeDropoutsFiles ==
  ASSUME PipelineInvariant, FinalizeDropouts
  PROVE  /\ Only({"dropouts"})
         /\ "dropouts" \notin features => Same({}) /\ status' = "succeeded"
         /\ "dropouts" \in features /\ status' = "succeeded" => Finished("dropouts")'
         /\ status' # "succeeded" => Same({}) /\ "dropouts" \in features
<1> DEFINE how == IF refused THEN "torn" ELSE "whole"
           file == [run |-> run, frames |-> rows, end |-> how]
<1>1. /\ pc = "finalize_dropouts" /\ run' = run /\ "dropouts" \in Artefact
      /\ disk \in DiskType /\ file \in FileType /\ how \in {"whole", "torn"}
  <2>1. pc = "finalize_dropouts"
    BY DEF FinalizeDropouts, Finish
  <2>2. run \in 1 .. MaxRuns /\ rows \in 0 .. FrameCount /\ disk \in DiskType
    BY <2>1, InvariantTypes, HeldRun
  <2> QED BY <2>1, <2>2, FileOf DEF FinalizeDropouts, options, Artefact
<1>2. "dropouts" \in features => file = Complete(how)
  BY <1>1 DEF PipelineInvariant, CountersInStep, Complete
<1>3. CASE disk' = disk /\ (status' = "succeeded" => "dropouts" \notin features)
             /\ (status' # "succeeded" => "dropouts" \in features)
  BY <1>1, <1>3 DEF Only, Same
<1>4. CASE "dropouts" \in features /\ status' = "succeeded"
             /\ disk' = [disk EXCEPT !["dropouts"] = file]
  <2>1. file.run = run
    OBVIOUS
  <2> HIDE DEF file, how
  <2>2. /\ disk' \in DiskType /\ disk'["dropouts"] = file /\ Same({"dropouts"})
    BY <1>1, <1>4 DEF DiskType, Only, Same
  <2>3. Only({"dropouts"})
    BY <2>1, <2>2 DEF Only
  <2>4. Finished("dropouts")'
    BY <1>1, <1>2, <1>4, <2>2 DEF Finished, Whole, Unread, Complete
  <2> QED BY <1>4, <2>3, <2>4
<1> QED BY <1>3, <1>4 DEF FinalizeDropouts, Finish

LEMMA CancelOutputFiles ==
  ASSUME PipelineInvariant, CancelOutput
  PROVE  /\ Only({"video", "metadata"})
         /\ disk'["video"] = Absent /\ disk'["metadata"] = Absent
<1>1. {"video", "metadata"} \in SUBSET Artefact
  BY DEF Artefact
<1> QED BY <1>1, InvariantTypes, HeldRun DEF CancelOutput, Only, Same, Without,
    DiskType

LEMMA CancelAudioFiles ==
  ASSUME PipelineInvariant, CancelAudio
  PROVE  /\ Only({"wav", "efm", "efm_index"})
         /\ "audio" \notin features => Same({})
         /\ "efm" \notin features => Same({"wav"})
         /\ "audio" \in features => disk'["wav"] = Absent
         /\ "efm" \in features => disk'["efm"] = Absent /\ disk'["efm_index"] = Absent
<1>1. PICK as : as = AudioFiles \cup
                      (IF "efm" \in features THEN {"efm_index"} ELSE {})
  OBVIOUS
<1>2. /\ as \in SUBSET Artefact /\ "wav" \in as
      /\ \A a \in as : a \in {"wav", "efm", "efm_index"}
      /\ "efm" \notin features => \A a \in as : a = "wav"
      /\ "efm" \in features => "efm" \in as /\ "efm_index" \in as
  BY <1>1 DEF AudioFiles, Artefact
<1>3. CASE "audio" \notin features /\ disk' = disk
  BY <1>3, InvariantTypes, HeldRun DEF Only, Same
<1>4. CASE "audio" \in features /\ disk' = Without(disk, as)
  <2>1. /\ disk' \in DiskType
        /\ \A a \in as : disk'[a] = Absent
        /\ \A a \in Artefact \ as : disk'[a] = disk[a]
    BY <1>2, <1>4, InvariantTypes DEF Without, DiskType
  <2> QED BY <1>2, <1>4, <2>1 DEF Only, Same, Artefact
<1> QED BY <1>1, <1>3, <1>4 DEF CancelAudio

LEMMA CancelDropoutsFiles ==
  ASSUME PipelineInvariant, CancelDropouts
  PROVE  /\ Only({"dropouts"})
         /\ "dropouts" \notin features => Same({})
         /\ "dropouts" \in features => disk'["dropouts"] = Absent
<1>1. /\ features \cap {"dropouts"} \in SUBSET Artefact
      /\ disk' = Without(disk, features \cap {"dropouts"})
  BY DEF Artefact, CancelDropouts
<1> QED BY <1>1, InvariantTypes DEF Only, Same, Without, DiskType

-------------------------------------------------------------------------------
(* How the files keep step with the calls.                                 *)
(* To a run that starts, every file is of an earlier one.                  *)
LEMMA OldFiles ==
  ASSUME PipelineInvariant, StartRun
  PROVE  /\ \A a \in Artefact : Older(a)'
         /\ \A a \in Artefact : disk'[a] # Absent => disk'[a].run <= run'
<1>1. \A a \in Artefact : disk[a] # Absent =>
        disk[a].run \in 1 .. MaxRuns /\ disk[a].run <= run
  BY InvariantTypes DEF PipelineInvariant, FilesInStep
<1> QED BY <1>1, InvariantTypes DEF StartRun, Older

(* The calls that touch a file.                                            *)
LEMMA FilesAlone ==
  ASSUME PipelineInvariant, [Next]_vars
  PROVE  \/ StartRun
         \/ UNCHANGED <<run, features, disk>>
         \/ BeginOutput \/ BeginDropouts \/ BeginAudio \/ Append_ \/ EmitAudio
         \/ FinalizeOutput \/ FinalizeAudio \/ FinalizeDropouts \/ FailClose
         \/ CancelOutput \/ CancelAudio \/ CancelDropouts
BY DEF Next, vars, options, Validate, BuildSchedule, SequentialHead, PoolHead,
       Report, RequestCancellation, Crash, NoMoreRuns

(* A call that touches only the files of its project keeps FilesInStep.    *)
LEMMA FilesStay ==
  ASSUME PipelineInvariant, run' = run, features' = features,
         NEW as \in SUBSET Artefact, as \subseteq Expected, Only(as),
         disk'["metadata"] # Absent => disk'["video"] # Absent
  PROVE  FilesInStep'
<1>1. \A a \in Artefact : disk[a] # Absent => disk[a].run <= run
  BY DEF PipelineInvariant, FilesInStep
<1>2. ASSUME NEW a \in Artefact, disk'[a] # Absent
      PROVE  disk'[a].run <= run'
  <2>1. CASE disk'[a].run = run
    BY <2>1, InvariantTypes
  <2>2. CASE disk'[a] = disk[a]
    BY <1>1, <1>2, <2>2
  <2> QED BY <1>2, <2>1, <2>2 DEF Only, Same
<1>3. Expected' = Expected
  BY DEF Expected
<1>4. \A a \in Artefact \ Expected : disk'[a] = disk[a] /\ Older(a)
  BY DEF Only, Same, PipelineInvariant, FilesInStep
<1> QED BY <1>2, <1>3, <1>4 DEF FilesInStep, Older

(* What a call touches belongs to the project.                             *)
LEMMA Declared ==
  /\ {"video"} \subseteq Expected /\ {"video", "metadata"} \subseteq Expected
  /\ "dropouts" \in features => {"dropouts"} \subseteq Expected
  /\ "audio" \in features =>
       /\ AudioFiles \subseteq Expected
       /\ AudioFiles \cup (IF "efm" \in features THEN {"efm_index"} ELSE {})
            \subseteq Expected
       /\ "efm" \in features => {"wav", "efm", "efm_index"} \subseteq Expected
       /\ {"wav"} \subseteq Expected
  /\ Expected \subseteq Artefact
BY DEF Expected, AudioFiles, Artefact

LEMMA NothingTouched ==
  ASSUME Same({}), NEW as, Only(as)
  PROVE  Only({}) /\ {} \subseteq Expected
BY DEF Same, Only

LEMMA FileThere ==
  ASSUME PipelineInvariant, pc # "idle"
  PROVE  /\ \A n \in 0 .. FrameCount : Held(n) # Absent
         /\ run' = run /\ Finished("video")' => disk'["video"] # Absent
<1>1. run \in 1 .. MaxRuns
  BY InvariantTypes
<1>2. \A n \in 0 .. FrameCount : Held(n) \in FileType
  BY <1>1, HeldFile
<1>3. Complete("whole") # Absent /\ Complete("torn") # Absent
  BY <1>1, CompleteFile
<1>4. run' = run => \A how : Complete(how)' = Complete(how)
  BY DEF Complete
<1> QED BY <1>2, <1>3, <1>4 DEF Finished, Whole

LEMMA FilesKeep ==
  ASSUME PipelineInvariant, [Next]_vars
  PROVE  FilesInStep'
<1>1. CASE StartRun
  BY <1>1, OldFiles DEF FilesInStep, PipelineInvariant, StartRun
<1>2. CASE UNCHANGED <<run, features, disk>>
  BY <1>2 DEF FilesInStep, PipelineInvariant, Older, Expected
<1>3. disk["metadata"] # Absent => disk["video"] # Absent
  BY DEF FilesInStep, PipelineInvariant
<1>4. ASSUME run' = run, features' = features,
             NEW as \in SUBSET Expected, Only(as),
             "video" \notin as \/ disk'["video"] # Absent,
             "metadata" \notin as
      PROVE  FilesInStep'
  <2>1. disk'["metadata"] # Absent => disk'["video"] # Absent
    BY <1>3, <1>4 DEF Only, Same, Artefact
  <2>2. as \in SUBSET Artefact
    BY <1>4, Declared
  <2> QED BY <1>4, <2>1, <2>2, FilesStay
<1>5. CASE BeginOutput
  <2>1. run' = run /\ features' = features /\ pc # "idle"
    BY <1>5 DEF BeginOutput, options, Goto, Finish
  <2>2. CASE disk'["video"] = Held(0)
    <3>1. disk'["video"] # Absent
      BY <2>1, <2>2, FileThere
    <3>2. {"video"} \in SUBSET Expected /\ "metadata" \notin {"video"}
      BY Declared
    <3>3. Only({"video"})
      BY <1>5, BeginOutputFiles
    <3> QED BY ONLY <1>4, <2>1, <3>1, <3>2, <3>3
  <2>3. CASE disk'["video"] = disk["video"]
    <3>1. disk'["metadata"] # Absent => disk'["video"] # Absent
      BY <1>3, <1>5, <2>3, BeginOutputFiles DEF Only, Same, Artefact
    <3>2. {"video"} \in SUBSET Artefact /\ {"video"} \subseteq Expected
      BY Declared DEF Artefact
    <3> QED BY <1>5, <2>1, <3>1, <3>2, BeginOutputFiles, FilesStay
  <2> QED BY <1>5, <2>2, <2>3, BeginOutputFiles
<1>6. ASSUME run' = run, features' = features, NEW as, Only(as), Same({})
      PROVE  FilesInStep'
  <2>1. Only({}) /\ {} \in SUBSET Expected /\ "video" \notin {}
        /\ "metadata" \notin {}
    BY <1>6, NothingTouched
  <2> QED BY ONLY <1>4, <1>6, <2>1
<1>7. CASE BeginDropouts
  <2>1. run' = run /\ features' = features
    BY <1>7 DEF BeginDropouts, options
  <2>2. CASE "dropouts" \in features
    <3>1. {"dropouts"} \in SUBSET Expected /\ "metadata" \notin {"dropouts"}
          /\ "video" \notin {"dropouts"}
      BY <2>2, Declared
    <3>2. Only({"dropouts"})
      BY <1>7, BeginDropoutsFiles
    <3> QED BY ONLY <1>4, <2>1, <3>1, <3>2
  <2> QED BY <1>6, <1>7, <2>1, <2>2, BeginDropoutsFiles
<1>8. CASE BeginAudio
  <2>1. run' = run /\ features' = features
    BY <1>8 DEF BeginAudio, options
  <2>2. CASE "audio" \in features
    <3>1. AudioFiles \in SUBSET Expected /\ "metadata" \notin AudioFiles
          /\ "video" \notin AudioFiles
      BY <2>2, Declared DEF AudioFiles
    <3>2. Only(AudioFiles)
      BY <1>8, BeginAudioFiles
    <3> QED BY ONLY <1>4, <2>1, <3>1, <3>2
  <2> QED BY <1>6, <1>8, <2>1, <2>2, BeginAudioFiles
<1>9. CASE EmitAudio
  <2>1. run' = run /\ features' = features
    BY <1>9 DEF EmitAudio, options
  <2>2. CASE "audio" \in features
    <3>1. AudioFiles \in SUBSET Expected /\ "metadata" \notin AudioFiles
          /\ "video" \notin AudioFiles
      BY <2>2, Declared DEF AudioFiles
    <3>2. Only(AudioFiles)
      BY <1>9, EmitAudioFiles
    <3> QED BY ONLY <1>4, <2>1, <3>1, <3>2
  <2> QED BY <1>6, <1>9, <2>1, <2>2, EmitAudioFiles
<1>10. CASE FinalizeAudio
  <2>1. run' = run /\ features' = features
    BY <1>10 DEF FinalizeAudio, options
  <2>2. CASE "audio" \in features
    <3>1. PICK as : as = AudioFiles \cup
                      (IF "efm" \in features THEN {"efm_index"} ELSE {})
      OBVIOUS
    <3>2. as \in SUBSET Expected /\ "metadata" \notin as /\ "video" \notin as
      BY <2>2, <3>1, Declared DEF AudioFiles
    <3>3. Only(as)
      BY <1>10, <3>1, FinalizeAudioFiles
    <3> QED BY ONLY <1>4, <2>1, <3>2, <3>3
  <2>3. CASE "audio" \notin features
    <3>1. PICK as : as = AudioFiles \cup
                      (IF "efm" \in features THEN {"efm_index"} ELSE {})
      OBVIOUS
    <3>2. Only(as) /\ Same({})
      BY <1>10, <2>3, <3>1, FinalizeAudioFiles
    <3> QED BY ONLY <1>6, <2>1, <3>2
  <2> QED BY <2>2, <2>3
<1>11. CASE FinalizeDropouts
  <2>1. run' = run /\ features' = features
    BY <1>11 DEF FinalizeDropouts, options
  <2>2. CASE "dropouts" \in features
    <3>1. {"dropouts"} \in SUBSET Expected /\ "metadata" \notin {"dropouts"}
          /\ "video" \notin {"dropouts"}
      BY <2>2, Declared
    <3>2. Only({"dropouts"})
      BY <1>11, FinalizeDropoutsFiles
    <3> QED BY ONLY <1>4, <2>1, <3>1, <3>2
  <2> QED BY <1>6, <1>11, <2>1, <2>2, FinalizeDropoutsFiles
<1>12. CASE CancelAudio
  <2>1. run' = run /\ features' = features
    BY <1>12 DEF CancelAudio, options
  <2>2. Only({"wav", "efm", "efm_index"})
    BY <1>12, CancelAudioFiles
  <2>3. CASE "efm" \in features
    <3>1. {"wav", "efm", "efm_index"} \in SUBSET Expected
          /\ "metadata" \notin {"wav", "efm", "efm_index"}
          /\ "video" \notin {"wav", "efm", "efm_index"}
      BY <2>3, Declared, InvariantTypes
    <3> QED BY ONLY <1>4, <2>1, <2>2, <3>1
  <2>4. CASE "efm" \notin features /\ "audio" \in features
    <3>1. {"wav"} \in SUBSET Expected /\ "metadata" \notin {"wav"}
          /\ "video" \notin {"wav"}
      BY <2>4, Declared
    <3>2. Only({"wav"})
      BY <1>12, <2>2, <2>4, CancelAudioFiles DEF Only
    <3> QED BY ONLY <1>4, <2>1, <3>1, <3>2
  <2>5. CASE "audio" \notin features
    <3>1. Same({})
      BY <1>12, <2>5, CancelAudioFiles
    <3> QED BY ONLY <1>6, <2>1, <2>2, <3>1
  <2> QED BY <2>3, <2>4, <2>5
<1>13. CASE CancelDropouts
  <2>1. run' = run /\ features' = features
    BY <1>13 DEF CancelDropouts, options
  <2>2. CASE "dropouts" \in features
    <3>1. {"dropouts"} \in SUBSET Expected /\ "metadata" \notin {"dropouts"}
          /\ "video" \notin {"dropouts"}
      BY <2>2, Declared
    <3>2. Only({"dropouts"})
      BY <1>13, CancelDropoutsFiles
    <3> QED BY ONLY <1>4, <2>1, <3>1, <3>2
  <2> QED BY <1>6, <1>13, <2>1, <2>2, CancelDropoutsFiles
<1>14. CASE Append_
  <2>1. run' = run /\ features' = features /\ pc # "idle"
    BY <1>14 DEF Append_, options, Goto, Refuse
  <2>2. disk'["video"] # Absent /\ Only({"video"})
    BY <1>14, <2>1, AppendFiles, FileThere
  <2>3. {"video"} \in SUBSET Expected /\ "metadata" \notin {"video"}
    BY Declared
  <2> QED BY ONLY <1>4, <2>1, <2>2, <2>3
<1>15. CASE FinalizeOutput \/ FailClose \/ CancelOutput
  <2>1. run' = run /\ features' = features /\ pc # "idle"
    BY <1>15 DEF FinalizeOutput, FailClose, CancelOutput, options, Goto, Finish
  <2>2. disk'["metadata"] # Absent => disk'["video"] # Absent
    <3>1. CASE CancelOutput
      BY <3>1, CancelOutputFiles
    <3>2. CASE FinalizeOutput \/ FailClose
      <4>1. pc \in {"finalize_output", "fail_close"}
            /\ (OutputFinalized \/ OutputNotFinalized)
        BY <3>2 DEF FinalizeOutput, FailClose, Goto, Finish
      <4>2. CASE written = FrameCount
        BY <2>1, <4>1, <4>2, OutputFiles, FileThere
      <4>3. CASE written # FrameCount
        BY <1>3, <2>1, <4>1, <4>3, OutputFiles DEF Same, Artefact
      <4> QED BY <4>2, <4>3
    <3> QED BY <1>15, <3>1, <3>2
  <2>3. {"video", "metadata"} \in SUBSET Artefact
        /\ {"video", "metadata"} \subseteq Expected
    BY Declared DEF Artefact
  <2>4. Only({"video", "metadata"})
    <3>1. CASE CancelOutput
      BY <3>1, CancelOutputFiles
    <3>2. CASE FinalizeOutput \/ FailClose
      BY <2>1, <3>2, OutputFiles DEF FinalizeOutput, FailClose, Goto, Finish
    <3> QED BY <1>15, <3>1, <3>2
  <2> QED BY <2>1, <2>2, <2>3, <2>4, FilesStay
<1> QED BY <1>1, <1>2, <1>5, <1>7, <1>8, <1>9, <1>10, <1>11, <1>12, <1>13,
    <1>14,
           <1>15, FilesAlone

LEMMA DiskTyped ==
  ASSUME PipelineInvariant, [Next]_vars
  PROVE  disk' \in DiskType
<1>1. CASE FinalizeOutput \/ FailClose
  <2>1. run' = run /\ pc \in {"finalize_output", "fail_close"}
        /\ (OutputFinalized \/ OutputNotFinalized)
    BY <1>1 DEF FinalizeOutput, FailClose, options, Goto, Finish
  <2> QED BY <2>1, OutputFiles DEF Only
<1>2. CASE StartRun \/ UNCHANGED <<run, features, disk>>
  BY <1>2, InvariantTypes DEF StartRun
<1> QED BY <1>1, <1>2, FilesAlone, BeginOutputFiles, BeginDropoutsFiles,
           BeginAudioFiles, AppendFiles, EmitAudioFiles, FinalizeAudioFiles,
           FinalizeDropoutsFiles, CancelOutputFiles, CancelAudioFiles,
           CancelDropoutsFiles DEF Only

-------------------------------------------------------------------------------
(* The counters, the token, the pool and the status, call by call.         *)
LEMMA TypesKeep ==
  ASSUME PipelineInvariant, [Next]_vars
  PROVE  /\ run' \in 0 .. MaxRuns /\ features' \in Projects /\ mode' \in Modes
         /\ pc' \in Locations /\ status' \in Statuses
         /\ cancelled' \in BOOLEAN /\ cancelled_at' \in 0 .. FrameCount
         /\ written' \in 0 .. FrameCount /\ audio_index' \in 0 .. written'
         /\ rows' \in 0 .. FrameCount /\ refused' \in BOOLEAN
         /\ progress' \in Seq(1 .. FrameCount)
<1> USE DEF vars, options, token, counters, pool_vars, Goto, Finish, TypeOK,
  CountersInStep, StatusInStep, BeforeFrames, InFrames, Locations, Statuses
<1>a. Processed \in 0 .. FrameCount /\
      (Processed < FrameCount => BatchSize \in 1 .. FrameCount - Processed)
  BY Last, Step, InvariantTypes
<1> HIDE DEF Projects, Modes
<1>0. TypeOK /\ CountersInStep /\ StatusInStep
  BY InvariantTypes DEF PipelineInvariant
<1>1. CASE StartRun
  <2>1. /\ run' \in 0 .. MaxRuns /\ features' \in Projects /\ mode' \in Modes
    BY <1>0, <1>1 DEF StartRun
  <2>2. /\ pc' = "validate" /\ status' = "none" /\ cancelled' = FALSE
        /\ cancelled_at' = 0 /\ written' = 0 /\ audio_index' = 0 /\ rows' = 0
        /\ refused' = FALSE /\ progress' = <<>>
    BY <1>1 DEF StartRun
  <2>3. progress' \in Seq(1 .. FrameCount)
    BY <2>2
  <2>4. 0 \in 0 .. FrameCount /\ 0 \in 0 .. 0 /\ FALSE \in BOOLEAN
    OBVIOUS
  <2> HIDE DEF Modes
  <2> QED BY <2>1, <2>2, <2>3, <2>4
<1>2. CASE Validate
  BY <1>0, <1>2, <1>a DEF Validate
<1>3. CASE BuildSchedule
  BY <1>0, <1>3, <1>a DEF BuildSchedule
<1>4. CASE BeginOutput
  BY <1>0, <1>4, <1>a DEF BeginOutput
<1>5. CASE BeginDropouts
  BY <1>0, <1>5, <1>a DEF BeginDropouts
<1>6. CASE BeginAudio
  BY <1>0, <1>6, <1>a DEF BeginAudio
<1>7. CASE SequentialHead
  BY <1>0, <1>7, RowsHanded, <1>a DEF SequentialHead
<1>8. CASE PoolHead
  BY <1>0, <1>8, <1>a DEF PoolHead, Pool!Complete, Pool!Stop, AfterFailedPool
<1>9. CASE Append_
  BY <1>0, <1>9, RowsHanded, <1>a DEF Append_, Refuse, AfterFailedPool, Pool!Stop
<1>10. CASE EmitAudio
  BY <1>0, <1>10, <1>a DEF EmitAudio, Refuse, AfterFailedPool, Pool!Stop
<1>11. CASE Report
  BY <1>0, <1>11, <1>a DEF Report
<1>12. CASE FinalizeOutput
  BY <1>0, <1>12, <1>a DEF FinalizeOutput
<1>13. CASE FinalizeAudio
  BY <1>0, <1>13, <1>a DEF FinalizeAudio
<1>14. CASE FinalizeDropouts
  BY <1>0, <1>14, <1>a DEF FinalizeDropouts
<1>15. CASE FailClose
  BY <1>0, <1>15, <1>a DEF FailClose
<1>16. CASE CancelOutput
  BY <1>0, <1>16, <1>a DEF CancelOutput
<1>17. CASE CancelAudio
  BY <1>0, <1>17, <1>a DEF CancelAudio
<1>18. CASE CancelDropouts
  BY <1>0, <1>18, <1>a DEF CancelDropouts
<1>19. CASE RequestCancellation
  BY <1>0, <1>19, <1>a DEF RequestCancellation
<1>20. CASE Crash
  BY <1>0, <1>20, <1>a DEF Crash
<1>21. CASE NoMoreRuns
  BY <1>0, <1>21, <1>a DEF NoMoreRuns
<1>22. CASE UNCHANGED vars
  BY <1>0, <1>22
<1> QED BY <1>1, <1>2, <1>3, <1>4, <1>5, <1>6, <1>7, <1>8, <1>9, <1>10, <1>11,
    <1>12, <1>13, <1>14, <1>15, <1>16, <1>17, <1>18, <1>19, <1>20, <1>21, <1>22
    DEF Next

LEMMA CountersKeep ==
  ASSUME PipelineInvariant, [Next]_vars
  PROVE  CountersInStep'
<1> USE DEF vars, options, token, counters, pool_vars, Goto, Finish, TypeOK,
  CountersInStep, PoolInStep, BeforeFrames, InFrames
<1>a. /\ Processed \in 0 .. FrameCount
      /\ Processed < FrameCount => BatchSize \in 1 .. FrameCount - Processed
      /\ mode = "pool" => BatchSize = 1
      /\ mode # "pool" => BatchSize <= Batch
  BY Last, Step, InvariantTypes DEF BatchSize
<1>b. /\ progress' = progress => Processed' = Processed
      /\ progress' = progress /\ mode' = mode => BatchSize' = BatchSize
      /\ progress' = <<>> => Processed' = 0
  BY DEF Processed, BatchSize
<1>0. TypeOK /\ CountersInStep /\ PoolInStep
  BY InvariantTypes DEF PipelineInvariant
<1>1. CASE StartRun
  BY <1>0, <1>1, <1>a, <1>b DEF StartRun
<1>2. CASE Validate
  BY <1>0, <1>2, <1>a, <1>b DEF Validate
<1>3. CASE BuildSchedule
  BY <1>0, <1>3, <1>a, <1>b DEF BuildSchedule
<1>4. CASE BeginOutput
  BY <1>0, <1>4, <1>a, <1>b DEF BeginOutput
<1>5. CASE BeginDropouts
  BY <1>0, <1>5, <1>a, <1>b DEF BeginDropouts
<1>6. CASE BeginAudio
  BY <1>0, <1>6, <1>a, <1>b DEF BeginAudio
<1>7. CASE SequentialHead
  BY <1>0, <1>7, RowsHanded, <1>a, <1>b DEF SequentialHead
<1>8. CASE PoolHead
  BY <1>0, <1>8, <1>a, <1>b DEF PoolHead, Pool!Complete, Pool!Stop,
    AfterFailedPool
<1>9. CASE Append_
  <2>1. pc = "append" /\ UNCHANGED <<options, audio_index, progress>>
    BY <1>9 DEF Append_, Refuse
  <2>2. CASE /\ pc' = "emit" /\ written' = written + BatchSize /\ UNCHANGED pool_vars
             /\ IF mode = "pool" THEN HandRows(1) ELSE UNCHANGED <<rows, refused>>
    <3>1. rows' = IF mode = "pool" /\ "dropouts" \in features
                    THEN rows + 1 ELSE rows
      BY <2>2, RowsHanded
    <3> QED BY <1>0, <1>a, <1>b, <2>1, <2>2, <3>1
  <2>3. CASE /\ Faults /\ Refuse("append") /\ UNCHANGED rows
             /\ \E n \in 0 .. BatchSize - 1 : written' = written + n
    <3>1. PICK n \in 0 .. BatchSize - 1 : written' = written + n
      BY <2>3
    <3>2. pc' \in {"cancel_output", "fail_close"} /\ UNCHANGED mode
      BY <2>1, <2>3 DEF Refuse, AfterFailedPool
    <3>3. Processed' = Processed /\ Processed' <= written'
      BY <1>0, <1>a, <1>b, <2>1, <3>1
    <3> QED BY <1>0, <2>1, <2>3, <3>2, <3>3
  <2> QED BY <1>9, <2>2, <2>3 DEF Append_
<1>10. CASE EmitAudio
  <2>1. /\ pc = "emit" /\ UNCHANGED <<options, written, rows, progress>>
    BY <1>10 DEF EmitAudio
  <2>2. CASE pc' = "report" /\ UNCHANGED audio_index
             /\ ("audio" \notin features \/ audio_index = written)
             /\ UNCHANGED pool_vars
    BY <1>0, <1>a, <1>b, <2>1, <2>2
  <2>3. CASE pc' = "emit" /\ audio_index' = audio_index + 1 /\ audio_index < written
             /\ UNCHANGED pool_vars
    BY <1>0, <1>a, <1>b, <2>1, <2>3
  <2>4. CASE pc' \in {"fail_close", "cancel_output"} /\ UNCHANGED audio_index
    BY <1>0, <1>a, <1>b, <2>1, <2>4
  <2> QED BY <1>10, <2>2, <2>3, <2>4 DEF EmitAudio, Refuse, AfterFailedPool
<1>11. CASE Report
  <2>1. /\ pc = "report" /\ pc' = "head"
        /\ progress' = Append(progress, Processed + BatchSize)
        /\ UNCHANGED <<options, counters>>
    BY <1>11 DEF Report
  <2>2. /\ progress \in Seq(1 .. FrameCount) /\ Processed + BatchSize \in 1 .. FrameCount
        /\ Processed < FrameCount /\ BatchSize \in Nat \ {0}
    BY <1>0, <1>a, <2>1
  <2>3. /\ Processed' = Processed + BatchSize
        /\ \A k \in 1 .. Len(progress') - 1 : progress'[k] < progress'[k + 1]
    <3>1. \A k \in 1 .. Len(progress) - 1 : progress[k] < progress[k + 1]
      BY ONLY PipelineInvariant DEF PipelineInvariant, CountersInStep
    <3> QED BY <1>a, <2>1, <2>2, <3>1, Reported
  <2> QED BY <1>0, <1>a, <2>1, <2>2, <2>3
<1>12. CASE FinalizeOutput
  BY <1>0, <1>12, <1>a, <1>b DEF FinalizeOutput
<1>13. CASE FinalizeAudio
  BY <1>0, <1>13, <1>a, <1>b DEF FinalizeAudio
<1>14. CASE FinalizeDropouts
  BY <1>0, <1>14, <1>a, <1>b DEF FinalizeDropouts
<1>15. CASE FailClose
  BY <1>0, <1>15, <1>a, <1>b DEF FailClose
<1>16. CASE CancelOutput
  BY <1>0, <1>16, <1>a, <1>b DEF CancelOutput
<1>17. CASE CancelAudio
  BY <1>0, <1>17, <1>a, <1>b DEF CancelAudio
<1>18. CASE CancelDropouts
  BY <1>0, <1>18, <1>a, <1>b DEF CancelDropouts
<1>19. CASE RequestCancellation
  BY <1>0, <1>19, <1>a, <1>b DEF RequestCancellation
<1>20. CASE Crash
  BY <1>0, <1>20, <1>a, <1>b DEF Crash
<1>21. CASE NoMoreRuns
  BY <1>0, <1>21, <1>a, <1>b DEF NoMoreRuns
<1>22. CASE UNCHANGED vars
  BY <1>0, <1>22, <1>b
<1> QED BY <1>1, <1>2, <1>3, <1>4, <1>5, <1>6, <1>7, <1>8, <1>9, <1>10, <1>11,
    <1>12, <1>13, <1>14, <1>15, <1>16, <1>17, <1>18, <1>19, <1>20, <1>21, <1>22
    DEF Next

LEMMA TokenKeep ==
  ASSUME PipelineInvariant, [Next]_vars
  PROVE  TokenInStep'
<1> USE DEF vars, options, token, counters, pool_vars, Goto, Finish, TypeOK,
  CountersInStep, TokenInStep, BeforeFrames, InFrames
<1>a. /\ Processed \in 0 .. FrameCount
      /\ Processed < FrameCount => BatchSize \in 1 .. FrameCount - Processed
      /\ mode = "pool" => BatchSize = 1
      /\ mode # "pool" => BatchSize <= Batch
  BY Last, Step, InvariantTypes DEF BatchSize
<1>b. /\ progress' = progress => Processed' = Processed
      /\ progress' = progress /\ mode' = mode => BatchSize' = BatchSize
      /\ progress' = <<>> => Processed' = 0
  BY DEF Processed, BatchSize
<1>0. TypeOK /\ CountersInStep /\ TokenInStep
  BY InvariantTypes DEF PipelineInvariant
<1>1. CASE StartRun
  BY <1>0, <1>1, <1>a DEF StartRun
<1>2. CASE Validate
  BY <1>0, <1>2, <1>a DEF Validate
<1>3. CASE BuildSchedule
  BY <1>0, <1>3, <1>a DEF BuildSchedule
<1>4. CASE BeginOutput
  BY <1>0, <1>4, <1>a DEF BeginOutput
<1>5. CASE BeginDropouts
  BY <1>0, <1>5, <1>a DEF BeginDropouts
<1>6. CASE BeginAudio
  BY <1>0, <1>6, <1>a DEF BeginAudio
<1>7. CASE SequentialHead
  BY <1>0, <1>7, <1>a DEF SequentialHead
<1>8. CASE PoolHead
  BY <1>0, <1>8, <1>a DEF PoolHead, Pool!Complete, Pool!Stop, AfterFailedPool
<1>9. CASE Append_
  BY <1>0, <1>9, <1>a DEF Append_, Refuse, AfterFailedPool, Pool!Stop
<1>10. CASE EmitAudio
  BY <1>0, <1>10, <1>a DEF EmitAudio, Refuse, AfterFailedPool, Pool!Stop
<1>11. CASE Report
  BY <1>0, <1>11, <1>a DEF Report
<1>12. CASE FinalizeOutput
  BY <1>0, <1>12, <1>a DEF FinalizeOutput
<1>13. CASE FinalizeAudio
  BY <1>0, <1>13, <1>a DEF FinalizeAudio
<1>14. CASE FinalizeDropouts
  BY <1>0, <1>14, <1>a DEF FinalizeDropouts
<1>15. CASE FailClose
  BY <1>0, <1>15, <1>a DEF FailClose
<1>16. CASE CancelOutput
  BY <1>0, <1>16, <1>a DEF CancelOutput
<1>17. CASE CancelAudio
  BY <1>0, <1>17, <1>a DEF CancelAudio
<1>18. CASE CancelDropouts
  BY <1>0, <1>18, <1>a DEF CancelDropouts
<1>19. CASE RequestCancellation
  BY <1>0, <1>19, <1>a DEF RequestCancellation
<1>20. CASE Crash
  BY <1>0, <1>20, <1>a DEF Crash
<1>21. CASE NoMoreRuns
  BY <1>0, <1>21, <1>a DEF NoMoreRuns
<1>22. CASE UNCHANGED vars
  BY <1>0, <1>22
<1> QED BY <1>1, <1>2, <1>3, <1>4, <1>5, <1>6, <1>7, <1>8, <1>9, <1>10, <1>11,
    <1>12, <1>13, <1>14, <1>15, <1>16, <1>17, <1>18, <1>19, <1>20, <1>21, <1>22
    DEF Next

LEMMA PromptKeep ==
  ASSUME PipelineInvariant, [Next]_vars
  PROVE  CancellationPrompt'
<1> USE DEF vars, options, token, counters, pool_vars, Goto, Finish, TypeOK,
  TokenInStep, CountersInStep, CancellationPrompt
<1>a. /\ Processed \in 0 .. FrameCount
      /\ Processed < FrameCount => BatchSize \in 1 .. FrameCount - Processed
      /\ mode = "pool" => BatchSize = 1
      /\ mode # "pool" => BatchSize <= Batch
  BY Last, Step, InvariantTypes DEF BatchSize
<1>b. /\ progress' = progress => Processed' = Processed
      /\ progress' = progress /\ mode' = mode => BatchSize' = BatchSize
      /\ progress' = <<>> => Processed' = 0
  BY DEF Processed, BatchSize
<1>0. TypeOK /\ TokenInStep /\ CountersInStep /\ CancellationPrompt
  BY InvariantTypes DEF PipelineInvariant, CancellationHonoured
<1>1. CASE StartRun
  BY <1>0, <1>1, <1>a DEF StartRun
<1>2. CASE Validate
  BY <1>0, <1>2, <1>a DEF Validate
<1>3. CASE BuildSchedule
  BY <1>0, <1>3, <1>a DEF BuildSchedule
<1>4. CASE BeginOutput
  BY <1>0, <1>4, <1>a DEF BeginOutput
<1>5. CASE BeginDropouts
  BY <1>0, <1>5, <1>a DEF BeginDropouts
<1>6. CASE BeginAudio
  BY <1>0, <1>6, <1>a DEF BeginAudio
<1>7. CASE SequentialHead
  BY <1>0, <1>7, <1>a DEF SequentialHead
<1>8. CASE PoolHead
  BY <1>0, <1>8, <1>a DEF PoolHead, Pool!Complete, Pool!Stop, AfterFailedPool
<1>9. CASE Append_
  BY <1>0, <1>9, <1>a DEF Append_, Refuse, AfterFailedPool, Pool!Stop
<1>10. CASE EmitAudio
  BY <1>0, <1>10, <1>a DEF EmitAudio, Refuse, AfterFailedPool, Pool!Stop
<1>11. CASE Report
  BY <1>0, <1>11, <1>a DEF Report
<1>12. CASE FinalizeOutput
  BY <1>0, <1>12, <1>a DEF FinalizeOutput
<1>13. CASE FinalizeAudio
  BY <1>0, <1>13, <1>a DEF FinalizeAudio
<1>14. CASE FinalizeDropouts
  BY <1>0, <1>14, <1>a DEF FinalizeDropouts
<1>15. CASE FailClose
  BY <1>0, <1>15, <1>a DEF FailClose
<1>16. CASE CancelOutput
  BY <1>0, <1>16, <1>a DEF CancelOutput
<1>17. CASE CancelAudio
  BY <1>0, <1>17, <1>a DEF CancelAudio
<1>18. CASE CancelDropouts
  BY <1>0, <1>18, <1>a DEF CancelDropouts
<1>19. CASE RequestCancellation
  BY <1>0, <1>19, <1>a DEF RequestCancellation
<1>20. CASE Crash
  BY <1>0, <1>20, <1>a DEF Crash
<1>21. CASE NoMoreRuns
  BY <1>0, <1>21, <1>a DEF NoMoreRuns
<1>22. CASE UNCHANGED vars
  BY <1>0, <1>22
<1> QED BY <1>1, <1>2, <1>3, <1>4, <1>5, <1>6, <1>7, <1>8, <1>9, <1>10, <1>11,
    <1>12, <1>13, <1>14, <1>15, <1>16, <1>17, <1>18, <1>19, <1>20, <1>21, <1>22
    DEF Next

LEMMA PoolKeep ==
  ASSUME PipelineInvariant, [Next]_vars
  PROVE  PoolInStep'
<1> USE DEF vars, options, token, counters, pool_vars, Goto, Finish, TypeOK,
  PoolInStep, CountersInStep, BeforeFrames, InFrames
<1>a. /\ Processed \in 0 .. FrameCount
      /\ Processed < FrameCount => BatchSize \in 1 .. FrameCount - Processed
      /\ mode = "pool" => BatchSize = 1
      /\ mode # "pool" => BatchSize <= Batch
  BY Last, Step, InvariantTypes DEF BatchSize
<1>b. /\ progress' = progress => Processed' = Processed
      /\ progress' = progress /\ mode' = mode => BatchSize' = BatchSize
      /\ progress' = <<>> => Processed' = 0
  BY DEF Processed, BatchSize
<1>0. TypeOK /\ CountersInStep /\ PoolInStep
  BY InvariantTypes DEF PipelineInvariant
<1>1. CASE StartRun
  BY <1>0, <1>1, <1>a, <1>b DEF StartRun
<1>2. CASE Validate
  BY <1>0, <1>2, <1>a, <1>b DEF Validate
<1>3. CASE BuildSchedule
  BY <1>0, <1>3, <1>a, <1>b DEF BuildSchedule
<1>4. CASE BeginOutput
  BY <1>0, <1>4, <1>a, <1>b DEF BeginOutput
<1>5. CASE BeginDropouts
  BY <1>0, <1>5, <1>a, <1>b DEF BeginDropouts
<1>6. CASE BeginAudio
  BY <1>0, <1>6, <1>a, <1>b DEF BeginAudio
<1>7. CASE SequentialHead
  BY <1>0, <1>7, <1>a, <1>b DEF SequentialHead
<1>8. CASE PoolHead
  BY <1>0, <1>8, <1>a, <1>b DEF PoolHead, Pool!Complete, Pool!Stop,
    AfterFailedPool
<1>9. CASE Append_
  BY <1>0, <1>9, <1>a, <1>b DEF Append_, Refuse, AfterFailedPool, Pool!Stop
<1>10. CASE EmitAudio
  BY <1>0, <1>10, <1>a, <1>b DEF EmitAudio, Refuse, AfterFailedPool, Pool!Stop
<1>11. CASE Report
  <2>1. /\ pc = "report" /\ pc' = "head"
        /\ progress' = Append(progress, Processed + BatchSize)
        /\ UNCHANGED <<options, counters>>
    BY <1>11 DEF Report
  <2>2. Processed + BatchSize \in 1 .. FrameCount /\ BatchSize \in Nat \ {0}
    BY <1>0, <1>a, <2>1
  <2>3. Processed' = Processed + BatchSize
    BY <1>0, <1>a, <2>1, <2>2, Reported
  <2>4. CASE mode = "pool"
    <3>1. result = "running" /\ Len(delivered) = Processed /\ delivered \in Seq(Nat)
      BY <1>0, <2>1, <2>4
    <3>2. delivered' = Append(delivered, Len(delivered)) /\ result' = result
      BY <1>11, <2>4 DEF Report, Pool!Deliver
    <3>3. delivered' \in Seq(Nat) /\ Len(delivered') = Processed + 1
      BY <3>1, <3>2
    <3> QED BY <1>a, <2>1, <2>3, <2>4, <3>1, <3>2, <3>3
  <2>5. CASE mode # "pool"
    BY <1>0, <1>11, <2>1, <2>5 DEF Report
  <2> QED BY <2>4, <2>5
<1>12. CASE FinalizeOutput
  BY <1>0, <1>12, <1>a, <1>b DEF FinalizeOutput
<1>13. CASE FinalizeAudio
  BY <1>0, <1>13, <1>a, <1>b DEF FinalizeAudio
<1>14. CASE FinalizeDropouts
  BY <1>0, <1>14, <1>a, <1>b DEF FinalizeDropouts
<1>15. CASE FailClose
  BY <1>0, <1>15, <1>a, <1>b DEF FailClose
<1>16. CASE CancelOutput
  BY <1>0, <1>16, <1>a, <1>b DEF CancelOutput
<1>17. CASE CancelAudio
  BY <1>0, <1>17, <1>a, <1>b DEF CancelAudio
<1>18. CASE CancelDropouts
  BY <1>0, <1>18, <1>a, <1>b DEF CancelDropouts
<1>19. CASE RequestCancellation
  BY <1>0, <1>19, <1>a, <1>b DEF RequestCancellation
<1>20. CASE Crash
  BY <1>0, <1>20, <1>a, <1>b DEF Crash
<1>21. CASE NoMoreRuns
  BY <1>0, <1>21, <1>a, <1>b DEF NoMoreRuns
<1>22. CASE UNCHANGED vars
  BY <1>0, <1>22, <1>b
<1> QED BY <1>1, <1>2, <1>3, <1>4, <1>5, <1>6, <1>7, <1>8, <1>9, <1>10, <1>11,
    <1>12, <1>13, <1>14, <1>15, <1>16, <1>17, <1>18, <1>19, <1>20, <1>21, <1>22
    DEF Next

LEMMA StatusKeep ==
  ASSUME PipelineInvariant, [Next]_vars
  PROVE  (StatusInStep /\ AfterValidation)'
<1> USE DEF vars, options, token, counters, pool_vars, Goto, Finish, TypeOK,
  StatusInStep, AfterValidation
<1>0. TypeOK /\ StatusInStep /\ AfterValidation
  BY InvariantTypes DEF PipelineInvariant
<1>1. CASE StartRun
  BY <1>0, <1>1 DEF StartRun
<1>2. CASE Validate
  BY <1>0, <1>2 DEF Validate
<1>3. CASE BuildSchedule
  BY <1>0, <1>3 DEF BuildSchedule
<1>4. CASE BeginOutput
  BY <1>0, <1>4 DEF BeginOutput
<1>5. CASE BeginDropouts
  BY <1>0, <1>5 DEF BeginDropouts
<1>6. CASE BeginAudio
  BY <1>0, <1>6 DEF BeginAudio
<1>7. CASE SequentialHead
  BY <1>0, <1>7 DEF SequentialHead
<1>8. CASE PoolHead
  BY <1>0, <1>8 DEF PoolHead, Pool!Complete, Pool!Stop, AfterFailedPool
<1>9. CASE Append_
  BY <1>0, <1>9 DEF Append_, Refuse, AfterFailedPool, Pool!Stop
<1>10. CASE EmitAudio
  BY <1>0, <1>10 DEF EmitAudio, Refuse, AfterFailedPool, Pool!Stop
<1>11. CASE Report
  BY <1>0, <1>11 DEF Report
<1>12. CASE FinalizeOutput
  BY <1>0, <1>12 DEF FinalizeOutput
<1>13. CASE FinalizeAudio
  BY <1>0, <1>13 DEF FinalizeAudio
<1>14. CASE FinalizeDropouts
  BY <1>0, <1>14 DEF FinalizeDropouts
<1>15. CASE FailClose
  BY <1>0, <1>15 DEF FailClose
<1>16. CASE CancelOutput
  BY <1>0, <1>16 DEF CancelOutput
<1>17. CASE CancelAudio
  BY <1>0, <1>17 DEF CancelAudio
<1>18. CASE CancelDropouts
  BY <1>0, <1>18 DEF CancelDropouts
<1>19. CASE RequestCancellation
  BY <1>0, <1>19 DEF RequestCancellation
<1>20. CASE Crash
  BY <1>0, <1>20 DEF Crash
<1>21. CASE NoMoreRuns
  BY <1>0, <1>21 DEF NoMoreRuns
<1>22. CASE UNCHANGED vars
  BY <1>0, <1>22
<1> QED BY <1>1, <1>2, <1>3, <1>4, <1>5, <1>6, <1>7, <1>8, <1>9, <1>10, <1>11,
    <1>12, <1>13, <1>14, <1>15, <1>16, <1>17, <1>18, <1>19, <1>20, <1>21, <1>22
    DEF Next


-------------------------------------------------------------------------------
(* A run that closes its output after a failure has not written its last   *)
(* frame, unless its audio failed.                                         *)
LEMMA ClosedEarly ==
  ASSUME PipelineInvariant, SequentialHead \/ PoolHead \/ Append_,
         pc' = "fail_close"
  PROVE  written' < FrameCount
<1>1. CASE SequentialHead
  BY <1>1, InvariantTypes DEF SequentialHead, Goto, PipelineInvariant,
    CountersInStep
<1>2. CASE PoolHead
  BY <1>2, InvariantTypes DEF PoolHead, Pool!Complete, Pool!Stop, Goto,
    AfterFailedPool, counters, PipelineInvariant, CountersInStep, PoolInStep,
    InFrames
<1>3. CASE Append_
  <2>1. pc = "append"
    BY <1>3 DEF Append_, Goto, Refuse
  <2>2. Processed = written /\ Processed < FrameCount
    BY <2>1 DEF PipelineInvariant, CountersInStep
  <2>3. BatchSize \in 1 .. FrameCount - Processed
    BY <2>2, Step, InvariantTypes
  <2>4. PICK n \in 0 .. BatchSize - 1 : written' = written + n
    BY <1>3 DEF Append_, Goto
  <2> QED BY <2>2, <2>3, <2>4, InvariantTypes
<1> QED BY <1>1, <1>2, <1>3

LEMMA VideoKeep ==
  ASSUME PipelineInvariant, [Next]_vars
  PROVE  VideoInStep'
<1> USE DEF vars, options, token, counters, pool_vars, Goto, Finish,
  BeforeFrames, InFrames, Only, Same, Artefact, AudioFiles, Older, Held, Whole, Finished,
  Complete, Unread,
  CountersInStep, VideoInStep
<1>0. /\ disk \in DiskType
      /\ run \in 0 .. MaxRuns
      /\ written \in 0 .. FrameCount
      /\ CountersInStep
      /\ VideoInStep
  BY InvariantTypes DEF PipelineInvariant
<1>1. CASE StartRun
  BY <1>0, <1>1, OldFiles DEF StartRun
<1>2. CASE Validate
  BY <1>0, <1>2, InvariantTypes DEF Validate
<1>3. CASE BuildSchedule
  BY <1>0, <1>3, InvariantTypes DEF BuildSchedule
<1>4. CASE BeginOutput
  BY <1>0, <1>4, InvariantTypes, BeginOutputFiles DEF BeginOutput
<1>5. CASE BeginDropouts
  BY <1>0, <1>5, InvariantTypes, BeginDropoutsFiles DEF BeginDropouts
<1>6. CASE BeginAudio
  BY <1>0, <1>6, InvariantTypes, BeginAudioFiles DEF BeginAudio
<1>7. CASE SequentialHead
  BY <1>0, <1>7, InvariantTypes DEF SequentialHead
<1>8. CASE PoolHead
  BY <1>0, <1>8, InvariantTypes DEF PoolHead, Pool!Complete, Pool!Stop,
    AfterFailedPool
<1>9. CASE Append_
  BY <1>0, <1>9, InvariantTypes, AppendFiles DEF Append_, Refuse,
    AfterFailedPool, Pool!Stop
<1>10. CASE EmitAudio
  BY <1>0, <1>10, InvariantTypes, EmitAudioFiles DEF EmitAudio, Refuse,
    AfterFailedPool, Pool!Stop
<1>11. CASE Report
  BY <1>0, <1>11, InvariantTypes DEF Report
<1>12. CASE FinalizeOutput
  BY <1>0, <1>12, InvariantTypes, OutputFiles DEF FinalizeOutput
<1>13. CASE FinalizeAudio
  BY <1>0, <1>13, InvariantTypes, FinalizeAudioFiles DEF FinalizeAudio
<1>14. CASE FinalizeDropouts
  BY <1>0, <1>14, InvariantTypes, FinalizeDropoutsFiles DEF FinalizeDropouts
<1>15. CASE FailClose
  BY <1>0, <1>15, InvariantTypes, OutputFiles DEF FailClose
<1>16. CASE CancelOutput
  BY <1>0, <1>16, InvariantTypes, CancelOutputFiles DEF CancelOutput
<1>17. CASE CancelAudio
  BY <1>0, <1>17, InvariantTypes, CancelAudioFiles DEF CancelAudio
<1>18. CASE CancelDropouts
  BY <1>0, <1>18, InvariantTypes, CancelDropoutsFiles DEF CancelDropouts
<1>19. CASE RequestCancellation
  BY <1>0, <1>19, InvariantTypes DEF RequestCancellation
<1>20. CASE Crash
  BY <1>0, <1>20, InvariantTypes DEF Crash
<1>21. CASE NoMoreRuns
  BY <1>0, <1>21, InvariantTypes DEF NoMoreRuns
<1>22. CASE UNCHANGED vars
  BY <1>0, <1>22
<1> QED BY <1>1, <1>2, <1>3, <1>4, <1>5, <1>6, <1>7, <1>8, <1>9, <1>10, <1>11,
    <1>12, <1>13, <1>14, <1>15, <1>16, <1>17, <1>18, <1>19, <1>20, <1>21, <1>22
    DEF Next

LEMMA AudioKeep ==
  ASSUME PipelineInvariant, [Next]_vars
  PROVE  AudioInStep'
<1> USE DEF vars, options, token, counters, pool_vars, Goto, Finish,
  BeforeFrames, InFrames, Only, Same, Artefact, AudioFiles, Older, Held, Whole, Finished,
  Complete, Unread,
  AudioInStep, FilesInStep
<1>0. /\ disk \in DiskType
      /\ run \in 0 .. MaxRuns
      /\ written \in 0 .. FrameCount
      /\ CountersInStep
      /\ AudioInStep
      /\ FilesInStep
  BY InvariantTypes DEF PipelineInvariant
<1>1. CASE StartRun
  BY <1>0, <1>1, OldFiles DEF StartRun
<1>2. CASE Validate
  BY <1>0, <1>2 DEF Validate
<1>3. CASE BuildSchedule
  BY <1>0, <1>3 DEF BuildSchedule
<1>4. CASE BeginOutput
  BY <1>0, <1>4, BeginOutputFiles DEF BeginOutput
<1>5. CASE BeginDropouts
  BY <1>0, <1>5, BeginDropoutsFiles DEF BeginDropouts
<1>6. CASE BeginAudio
  <2>1. /\ pc = "begin_audio" /\ pc' \in {"head", "fail_close"}
        /\ run' = run /\ features' = features
        /\ written' = 0 /\ audio_index' = 0
    BY <1>0, <1>6 DEF BeginAudio, CountersInStep
  <2>2. disk'["efm_index"] = disk["efm_index"]
    BY <1>6, BeginAudioFiles
  <2>3. CASE pc' = "head"
    <3>1. /\ "audio" \in features => disk'["wav"] = Held(audio_index)'
          /\ "efm" \in features => disk'["efm"] = Held(audio_index)'
      <4>1. "audio" \in features => \A a \in AudioFiles : disk'[a] = Held(0)
        BY <1>6, <2>3, BeginAudioFiles
      <4>2. "efm" \in features => "audio" \in features
        BY InvariantTypes
      <4> QED BY <2>1, <4>1, <4>2
    <3>2. Older("efm_index")'
      BY <1>0, <2>1, <2>2
    <3> QED BY <2>1, <2>3, <3>1, <3>2
  <2>4. CASE pc' = "fail_close"
    BY <1>0, <1>6, <2>1, <2>2, <2>4, BeginAudioFiles
  <2> QED BY <2>1, <2>3, <2>4
<1>7. CASE SequentialHead
  BY <1>0, <1>7, ClosedEarly DEF SequentialHead
<1>8. CASE PoolHead
  BY <1>0, <1>8, ClosedEarly DEF PoolHead, Pool!Complete, Pool!Stop,
    AfterFailedPool
<1>9. CASE Append_
  BY <1>0, <1>9, ClosedEarly, AppendFiles DEF Append_, Refuse, AfterFailedPool,
    Pool!Stop
<1>10. CASE EmitAudio
  <2>1. /\ pc = "emit"
        /\ pc' \in {"emit", "report", "fail_close", "cancel_output"}
        /\ run' = run /\ features' = features
    BY <1>10 DEF EmitAudio, Refuse, AfterFailedPool
  <2>2. disk'["efm_index"] = disk["efm_index"]
    BY <1>10, EmitAudioFiles
  <2>3. CASE pc' \in {"emit", "report"}
    <3>1. /\ "audio" \in features => disk'["wav"] = Held(audio_index)'
          /\ "efm" \in features => disk'["efm"] = Held(audio_index)'
      <4>1. "audio" \in features => \A a \in AudioFiles : disk'[a] = Held(audio_index')
        BY <1>10, <2>3, EmitAudioFiles
      <4>2. "efm" \in features => "audio" \in features
        BY InvariantTypes
      <4> QED BY <2>1, <4>1, <4>2
    <3>2. Older("efm_index")'
      BY <1>0, <2>1, <2>2
    <3> QED BY <2>1, <2>3, <3>1, <3>2
  <2>4. CASE pc' = "fail_close"
    <3>1. "audio" \in features /\ disk'["wav"].end = "open"
      BY <1>10, <2>4, EmitAudioFiles
    <3>2. ~Finished("wav")'
      BY <3>1
    <3> QED BY <2>1, <2>4, <3>1, <3>2
  <2>5. CASE pc' = "cancel_output"
    BY <2>5
  <2> QED BY <2>1, <2>3, <2>4, <2>5
<1>11. CASE Report
  BY <1>0, <1>11 DEF Report
<1>12. CASE FinalizeOutput
  BY <1>0, <1>12, OutputFiles DEF FinalizeOutput
<1>13. CASE FinalizeAudio
  <2>1. /\ pc' \in {"idle", "finalize_dropouts"}
        /\ run' = run /\ features' = features
    BY <1>13 DEF FinalizeAudio
  <2>2. CASE pc' = "idle"
    BY <2>2
  <2>3. CASE pc' = "finalize_dropouts"
    <3>1. /\ "audio" \in features => Finished("wav")'
          /\ "efm" \in features => Whole("efm")' /\ Whole("efm_index")'
      BY <1>13, <2>3, FinalizeAudioFiles, InvariantTypes
    <3> QED BY <2>1, <2>3, <3>1
  <2> QED BY <2>1, <2>2, <2>3
<1>14. CASE FinalizeDropouts
  BY <1>0, <1>14, FinalizeDropoutsFiles DEF FinalizeDropouts
<1>15. CASE FailClose
  BY <1>0, <1>15, OutputFiles DEF FailClose
<1>16. CASE CancelOutput
  BY <1>0, <1>16, CancelOutputFiles DEF CancelOutput
<1>17. CASE CancelAudio
  <2>1. pc' = "cancel_dropouts" /\ run' = run /\ features' = features
    BY <1>17 DEF CancelAudio
  <2>2. /\ "audio" \notin features => Older("wav")
        /\ "efm" \notin features => Older("efm") /\ Older("efm_index")
    BY InvariantTypes DEF PipelineInvariant, FilesInStep, Expected
  <2>3. /\ Older("wav")' /\ Older("efm")' /\ Older("efm_index")'
    BY <1>17, <2>1, <2>2, CancelAudioFiles
  <2> QED BY <2>1, <2>3
<1>18. CASE CancelDropouts
  BY <1>0, <1>18, CancelDropoutsFiles DEF CancelDropouts
<1>19. CASE RequestCancellation
  BY <1>0, <1>19 DEF RequestCancellation
<1>20. CASE Crash
  BY <1>0, <1>20 DEF Crash
<1>21. CASE NoMoreRuns
  BY <1>0, <1>21 DEF NoMoreRuns
<1>22. CASE UNCHANGED vars
  BY <1>0, <1>22
<1> QED BY <1>1, <1>2, <1>3, <1>4, <1>5, <1>6, <1>7, <1>8, <1>9, <1>10, <1>11,
    <1>12, <1>13, <1>14, <1>15, <1>16, <1>17, <1>18, <1>19, <1>20, <1>21, <1>22
    DEF Next

LEMMA DropoutsKeep ==
  ASSUME PipelineInvariant, [Next]_vars
  PROVE  DropoutsInStep'
<1> USE DEF vars, options, token, counters, pool_vars, Goto, Finish,
  BeforeFrames, InFrames, Only, Same, Artefact, AudioFiles, Older, Held, Whole, Finished,
  Complete, Unread,
  DropoutsInStep
<1>0. /\ disk \in DiskType
      /\ run \in 0 .. MaxRuns
      /\ written \in 0 .. FrameCount
      /\ DropoutsInStep
  BY InvariantTypes DEF PipelineInvariant
<1>1. CASE StartRun
  BY <1>0, <1>1, OldFiles DEF StartRun
<1>2. CASE Validate
  BY <1>0, <1>2 DEF Validate
<1>3. CASE BuildSchedule
  BY <1>0, <1>3 DEF BuildSchedule
<1>4. CASE BeginOutput
  BY <1>0, <1>4, BeginOutputFiles DEF BeginOutput
<1>5. CASE BeginDropouts
  BY <1>0, <1>5, BeginDropoutsFiles DEF BeginDropouts
<1>6. CASE BeginAudio
  BY <1>0, <1>6, BeginAudioFiles DEF BeginAudio
<1>7. CASE SequentialHead
  BY <1>0, <1>7 DEF SequentialHead
<1>8. CASE PoolHead
  BY <1>0, <1>8 DEF PoolHead, Pool!Complete, Pool!Stop, AfterFailedPool
<1>9. CASE Append_
  BY <1>0, <1>9, AppendFiles DEF Append_, Refuse, AfterFailedPool, Pool!Stop
<1>10. CASE EmitAudio
  BY <1>0, <1>10, EmitAudioFiles DEF EmitAudio, Refuse, AfterFailedPool,
    Pool!Stop
<1>11. CASE Report
  BY <1>0, <1>11 DEF Report
<1>12. CASE FinalizeOutput
  BY <1>0, <1>12, OutputFiles DEF FinalizeOutput
<1>13. CASE FinalizeAudio
  BY <1>0, <1>13, FinalizeAudioFiles DEF FinalizeAudio
<1>14. CASE FinalizeDropouts
  BY <1>0, <1>14, FinalizeDropoutsFiles DEF FinalizeDropouts
<1>15. CASE FailClose
  BY <1>0, <1>15, OutputFiles DEF FailClose
<1>16. CASE CancelOutput
  BY <1>0, <1>16, CancelOutputFiles DEF CancelOutput
<1>17. CASE CancelAudio
  BY <1>0, <1>17, CancelAudioFiles DEF CancelAudio
<1>18. CASE CancelDropouts
  BY <1>0, <1>18, CancelDropoutsFiles DEF CancelDropouts
<1>19. CASE RequestCancellation
  BY <1>0, <1>19 DEF RequestCancellation
<1>20. CASE Crash
  BY <1>0, <1>20 DEF Crash
<1>21. CASE NoMoreRuns
  BY <1>0, <1>21 DEF NoMoreRuns
<1>22. CASE UNCHANGED vars
  BY <1>0, <1>22
<1> QED BY <1>1, <1>2, <1>3, <1>4, <1>5, <1>6, <1>7, <1>8, <1>9, <1>10, <1>11,
    <1>12, <1>13, <1>14, <1>15, <1>16, <1>17, <1>18, <1>19, <1>20, <1>21, <1>22
    DEF Next

-------------------------------------------------------------------------------
(* A file of an earlier run, none, or one still written is not finished.   *)
LEMMA OldNotFinished ==
  ASSUME PipelineInvariant, pc # "idle", run' = run
  PROVE  /\ \A a : Older(a) => ~Finished(a)
         /\ \A a : disk'[a] = disk[a] => (Finished(a)' <=> Finished(a))
         /\ \A a : (disk'[a] = Absent \/ \E n : disk'[a] = Held(n))
                    => ~Finished(a)'
<1>1. run \in 1 .. MaxRuns
  BY InvariantTypes
<1>2. \A how \in {"whole", "torn"} :
        /\ Complete(how) # Absent /\ Complete(how).run = run
        /\ \A n : Held(n) # Complete(how)
  BY <1>1, CompleteFile
<1>3. \A how : Complete(how)' = Complete(how)
  BY DEF Complete
<1>4. \A a : Older(a) => ~Finished(a)
  BY <1>1, <1>2 DEF Older, Finished, Whole
<1> QED BY <1>2, <1>3, <1>4 DEF Finished, Whole

(* A run that ends unsuccessfully owes one file that is not finished.      *)
LEMMA Incomplete ==
  ASSUME features' = features, NEW a \in Expected, ~Finished(a)',
         status' # "succeeded"
  PROVE  SuccessMeansComplete'
<1>1. Expected' = Expected
  BY DEF Expected
<1> QED BY <1>1 DEF SuccessMeansComplete

(* The promises on the files when a run ends.                              *)
LEMMA SuccessKeep ==
  ASSUME PipelineInvariant, [Next]_vars
  PROVE  SuccessMeansComplete'
<1>1. SuccessMeansComplete /\ (pc # "idle" => status = "none")
  BY DEF PipelineInvariant, StatusInStep
<1>2. \A a \in {"video", "metadata"} : a \in Expected /\ a \in Artefact
  BY DEF Expected, Artefact
<1>3. CASE UNCHANGED <<pc, status, features, mode, run, disk>>
  BY <1>1, <1>3 DEF SuccessMeansComplete, Expected, Finished, Whole, Complete
<1>4. CASE pc' # "idle" \/ status' \in {"none", "crashed"}
             \/ mode' = "validate_only"
  BY <1>4 DEF SuccessMeansComplete
<1>5. ASSUME features' = features, run' = run, pc # "idle", Older("metadata"),
             disk'["metadata"] = disk["metadata"], status' # "succeeded"
      PROVE  SuccessMeansComplete'
  <2>1. ~Finished("metadata")'
    BY <1>5, OldNotFinished
  <2> QED BY <1>2, <1>5, <2>1, Incomplete
<1>6. CASE Validate
  <2>1. features' = features /\ run' = run /\ mode' = mode /\ pc = "validate"
        /\ disk' = disk
    BY <1>6 DEF Validate, options, Goto, Finish
  <2>2. Older("metadata")
    BY <2>1 DEF PipelineInvariant, VideoInStep, BeforeFrames
  <2>3. status' = "succeeded" => mode = "validate_only" \/ status = "succeeded"
    BY <1>6 DEF Validate, Goto, Finish
  <2> QED BY <1>1, <1>4, <1>5, <2>1, <2>2, <2>3
<1>7. CASE BuildSchedule \/ BeginOutput \/ BeginDropouts
  <2>1. /\ features' = features /\ run' = run
        /\ pc \in {"schedule", "begin_output", "begin_dropouts"}
        /\ status' # "succeeded" \/ status' = status
    BY <1>7 DEF BuildSchedule, BeginOutput, BeginDropouts, options, Goto, Finish
  <2>2. disk'["metadata"] = disk["metadata"]
    BY <1>7, BeginOutputFiles, BeginDropoutsFiles
       DEF BuildSchedule, Only, Same, Artefact
  <2>3. Older("metadata")
    BY <2>1 DEF PipelineInvariant, VideoInStep, BeforeFrames
  <2> QED BY <1>1, <1>4, <1>5, <2>1, <2>2, <2>3
<1>8. CASE FinalizeOutput \/ FailClose
  <2>1. /\ features' = features /\ run' = run
        /\ pc \in {"finalize_output", "fail_close"}
        /\ OutputFinalized \/ OutputNotFinalized
    BY <1>8 DEF FinalizeOutput, FailClose, options, Goto, Finish
  <2>2. pc' # "idle" \/ status' = "failed"
    BY <1>8 DEF FinalizeOutput, FailClose, Goto, Finish
  <2>3. CASE status' = "failed" /\ written # FrameCount
    <3>1. disk'["metadata"] = disk["metadata"]
      BY <2>1, <2>3, OutputFiles DEF Same, Artefact
    <3>2. Older("metadata")
      BY <2>1 DEF PipelineInvariant, VideoInStep
    <3> QED BY <1>5, <2>1, <2>3, <3>1, <3>2
  <2>4. CASE status' = "failed" /\ written = FrameCount /\ ~OutputFinalized
    <3>1. disk'["metadata"] \in {Absent, Held(0), disk["metadata"]}
      BY <2>1, <2>4, OutputFiles
    <3>2. Older("metadata")
      BY <2>1 DEF PipelineInvariant, VideoInStep
    <3>3. ~Finished("metadata")'
      BY <2>1, <3>1, <3>2, OldNotFinished
    <3> QED BY <1>2, <2>1, <2>4, <3>3, Incomplete
  <2>5. CASE FailClose /\ written = FrameCount
    <3>1. "audio" \in features /\ ~Finished("wav")
      BY <2>5 DEF FailClose, Finish, PipelineInvariant, AudioInStep
    <3>2. disk'["wav"] = disk["wav"]
      BY <2>1, <2>5, OutputFiles DEF Only, Same, Artefact
    <3>3. ~Finished("wav")' /\ "wav" \in Expected /\ status' = "failed"
      BY <2>1, <2>5, <3>1, <3>2, OldNotFinished
         DEF FailClose, Finish, Expected
    <3> QED BY <2>1, <3>3, Incomplete
  <2>6. CASE FinalizeOutput /\ OutputFinalized /\ status' = "failed"
    <3>1. CASE pc' # "idle"
      BY <1>4, <3>1
    <3>2. CASE OutputNotFinalized /\ written = FrameCount
      <4>1. Whole("metadata")'
        BY <2>1, <2>6, OutputFiles
      <4>2. PICK how \in UncheckedClose, m \in {Absent, Opened, disk["metadata"]} :
              disk' = [Completed(disk, "video", how) EXCEPT !["metadata"] = m]
        BY <3>2 DEF OutputNotFinalized
      <4>3. disk'["metadata"] = m
        BY <4>2, InvariantTypes DEF Completed, DiskType, Artefact
      <4>4. Older("metadata")
        BY <2>1 DEF PipelineInvariant, VideoInStep
      <4>5. ~Finished("metadata")'
        BY <2>1, <4>2, <4>3, <4>4, OpenedHeld, OldNotFinished
      <4> QED BY <4>1, <4>5 DEF Finished
    <3> QED BY <1>1, <2>1, <2>6, <3>1, <3>2 DEF FinalizeOutput, Goto, Finish,
               OutputFinalized, OutputNotFinalized
  <2> QED BY <1>4, <1>8, <2>2, <2>3, <2>4, <2>5, <2>6
<1>9. CASE FinalizeAudio
  <2>1. /\ features' = features /\ run' = run /\ pc = "finalize_audio"
        /\ status' # "succeeded"
    BY <1>1, <1>9 DEF FinalizeAudio, options, Goto, Finish
  <2>2. CASE pc' = "idle"
    <3>1. PICK a \in AudioFiles \cup (IF "efm" \in features THEN {"efm_index"} ELSE {}) :
            ~Finished(a)'
      BY <1>9, <2>2, FinalizeAudioFiles
    <3>2. "audio" \in features
      BY <1>9, <2>2 DEF FinalizeAudio, Goto, Finish
    <3>3. a \in Expected
      BY <3>1, <3>2 DEF AudioFiles, Expected
    <3> QED BY <2>1, <3>1, <3>3, Incomplete
  <2> QED BY <1>4, <2>2
<1>10. CASE FinalizeDropouts
  <2>1. /\ features' = features /\ run' = run /\ pc = "finalize_dropouts"
        /\ status' \in {"succeeded", "failed"}
    BY <1>10 DEF FinalizeDropouts, options, Finish
  <2>2. CASE status' = "failed"
    <3>1. "dropouts" \in features /\ disk'["dropouts"] = disk["dropouts"]
      BY <1>10, <2>2, FinalizeDropoutsFiles DEF Same, Artefact
    <3>2. disk["dropouts"] = Held(0)
      BY <2>1, <3>1 DEF PipelineInvariant, DropoutsInStep
    <3>3. ~Finished("dropouts")' /\ "dropouts" \in Expected
      BY <2>1, <3>1, <3>2, OldNotFinished DEF Expected
    <3> QED BY <2>1, <2>2, <3>3, Incomplete
  <2>3. CASE status' = "succeeded"
    <3>1. \A a \in Expected \ {"dropouts"} : Finished(a)
      BY <2>1, InvariantTypes
         DEF PipelineInvariant, VideoInStep, AudioInStep, Expected, Finished
    <3>2. \A a \in Expected \ {"dropouts"} : disk'[a] = disk[a]
      BY <1>10, Declared, FinalizeDropoutsFiles DEF Only, Same
    <3>3. \A a \in Expected \ {"dropouts"} : Finished(a)'
      BY <2>1, <3>1, <3>2, OldNotFinished
    <3>4. "dropouts" \in Expected => Finished("dropouts")'
      BY <1>10, <2>3, FinalizeDropoutsFiles DEF Expected
    <3>5. Expected' = Expected
      BY <2>1 DEF Expected
    <3> QED BY <2>3, <3>3, <3>4, <3>5 DEF SuccessMeansComplete
  <2> QED BY <2>1, <2>2, <2>3
<1>11. CASE CancelDropouts
  <2>1. /\ features' = features /\ run' = run /\ pc = "cancel_dropouts"
        /\ status' = "cancelled"
    BY <1>11 DEF CancelDropouts, options, Finish
  <2>2. disk'["video"] = Absent
    BY <1>11, <2>1, CancelDropoutsFiles
       DEF PipelineInvariant, VideoInStep, Only, Same, Artefact
  <2>3. ~Finished("video")'
    BY <2>1, <2>2, OldNotFinished
  <2> QED BY <1>2, <2>1, <2>3, Incomplete
<1>12. CASE StartRun \/ BeginAudio \/ SequentialHead \/ PoolHead \/ Append_
            \/ EmitAudio \/ Report \/ CancelOutput \/ CancelAudio
            \/ RequestCancellation \/ Crash
  BY <1>4, <1>12 DEF StartRun, BeginAudio, SequentialHead, PoolHead, Append_,
     EmitAudio, Report, CancelOutput, CancelAudio, RequestCancellation, Crash,
     Goto, Refuse, AfterFailedPool
<1>13. CASE NoMoreRuns \/ UNCHANGED vars
  BY <1>3, <1>13 DEF NoMoreRuns, vars, options
<1> QED BY <1>6, <1>7, <1>8, <1>9, <1>10, <1>11, <1>12, <1>13 DEF Next

LEMMA CancelledKeep ==
  ASSUME PipelineInvariant, [Next]_vars
  PROVE  CancelledLeavesNothing'
<1>1. /\ CancelledLeavesNothing
      /\ disk["metadata"] # Absent => disk["video"] # Absent
  BY DEF PipelineInvariant, CancellationHonoured, FilesInStep
<1>2. CASE UNCHANGED <<pc, status, run, disk>>
  BY <1>1, <1>2 DEF CancelledLeavesNothing
<1>3. CASE pc' # "idle" \/ status' # "cancelled"
  BY <1>3 DEF CancelledLeavesNothing
<1>4. CASE Validate /\ pc' = "idle"
  <2>1. pc = "validate" /\ run' = run /\ disk' = disk
    BY <1>4 DEF Validate, options, Goto, Finish
  <2>2. \A a \in Artefact : Older(a)
    BY <2>1 DEF PipelineInvariant, VideoInStep, AudioInStep, DropoutsInStep,
       BeforeFrames, Artefact
  <2> QED BY <1>1, <2>1, <2>2 DEF CancelledLeavesNothing, Older
<1>5. CASE CancelDropouts
  <2>1. /\ pc = "cancel_dropouts" /\ run' = run
    BY <1>5 DEF CancelDropouts, options, Finish
  <2>2. /\ disk["video"] = Absent /\ disk["metadata"] = Absent
        /\ Older("wav") /\ Older("efm") /\ Older("efm_index")
        /\ "dropouts" \notin features => Older("dropouts")
    BY <2>1 DEF PipelineInvariant, VideoInStep, AudioInStep, FilesInStep,
       Artefact, Expected
  <2>3. "dropouts" \in features => disk'["dropouts"] = Absent
    BY <1>5, CancelDropoutsFiles
  <2>4. "dropouts" \notin features => disk'["dropouts"] = disk["dropouts"]
    BY <1>5, CancelDropoutsFiles DEF Same, Artefact
  <2>5. \A a \in Artefact : a # "dropouts" => disk'[a] = disk[a]
    BY <1>5, CancelDropoutsFiles DEF Only, Same
  <2>6. \A a \in Artefact : disk'[a] # Absent => disk'[a].run < run
    BY <2>2, <2>3, <2>4, <2>5 DEF Artefact, Older
  <2>7. disk'["metadata"] = Absent
    BY <2>2, <2>5 DEF Artefact
  <2> QED BY <2>1, <2>6, <2>7 DEF CancelledLeavesNothing
<1>6. pc # "idle" => status = "none"
  BY DEF PipelineInvariant, StatusInStep
<1> QED BY <1>2, <1>3, <1>4, <1>5, <1>6 DEF Next, StartRun, Validate,
    BuildSchedule,
  BeginOutput, BeginDropouts, BeginAudio, SequentialHead, PoolHead, Append_,
  EmitAudio, Report, FinalizeOutput, FinalizeAudio, FinalizeDropouts, FailClose,
  CancelOutput, CancelAudio, RequestCancellation, Crash, NoMoreRuns, vars,
  options, Goto, Finish, Refuse, AfterFailedPool

LEMMA MetadataKeep ==
  ASSUME PipelineInvariant, [Next]_vars
  PROVE  MetadataTruthful'
<1>1. MetadataTruthful
  BY DEF PipelineInvariant
<1>2. CASE /\ disk'["video"] = disk["video"]
           /\ disk'["metadata"] = disk["metadata"]
  BY <1>1, <1>2 DEF MetadataTruthful
<1>3. ASSUME Older("metadata"), disk'["metadata"] = disk["metadata"],
             NEW n, disk'["video"] = Held(n), pc # "idle",
             disk'["metadata"] # Absent => disk'["video"] # Absent
      PROVE  MetadataTruthful'
  <2>1. disk["metadata"] # Absent =>
          disk["metadata"].run < run /\ disk["metadata"].run \in Int /\ run \in Int
    BY <1>3, InvariantTypes DEF Older, Artefact
  <2> QED BY <1>3, <2>1, HeldRun DEF MetadataTruthful
<1>4. CASE BeginOutput \/ Append_
  <2>1. pc \in {"begin_output", "append"}
    BY <1>4 DEF BeginOutput, Append_, Goto, Finish, Refuse
  <2>2. Older("metadata")
    BY <2>1 DEF PipelineInvariant, VideoInStep, BeforeFrames, InFrames
  <2>3. disk'["metadata"] = disk["metadata"]
    BY <1>4, BeginOutputFiles, AppendFiles DEF Only, Same, Artefact
  <2>4. PICK n : disk'["video"] \in {disk["video"], Held(n)}
    BY <1>4, BeginOutputFiles, AppendFiles
  <2>5. disk'["metadata"] # Absent => disk'["video"] # Absent
    BY FilesKeep DEF FilesInStep
  <2> QED BY <1>2, <1>3, <2>1, <2>2, <2>3, <2>4, <2>5
<1>5. CASE FinalizeOutput \/ FailClose
  <2>1. /\ run' = run /\ pc \in {"finalize_output", "fail_close"}
        /\ OutputFinalized \/ OutputNotFinalized
    BY <1>5 DEF FinalizeOutput, FailClose, options, Goto, Finish
  <2>2. CASE written # FrameCount
    BY <1>2, <2>1, <2>2, OutputFiles DEF Same, Artefact
  <2>3. written = FrameCount =>
          /\ disk'["video"].run = run /\ disk'["video"].end # "open"
          /\ disk'["video"].frames = FrameCount /\ disk'["video"] # Absent
    <3>1. written = FrameCount => Finished("video")' /\ disk'["video"] # Absent
      BY <2>1, OutputFiles, FileThere
    <3>2. \A how \in {"whole", "torn"} :
            /\ Complete(how)'.run = run /\ Complete(how)'.end # "open"
            /\ Complete(how)'.frames = FrameCount
      BY <2>1 DEF Complete
    <3> QED BY <3>1, <3>2 DEF Finished, Whole
  <2>4. run \in Nat
    BY InvariantTypes
  <2>5. CASE written = FrameCount /\ OutputFinalized
    <3>1. disk'["metadata"].run = run /\ disk'["metadata"].frames = FrameCount
      BY <2>1, <2>5, OutputFiles DEF Whole, Complete
    <3> QED BY <2>3, <2>4, <2>5, <3>1 DEF MetadataTruthful
  <2>6. CASE written = FrameCount /\ ~OutputFinalized
    <3>1. disk'["metadata"] \in {Absent, Held(0), disk["metadata"]}
      BY <2>1, <2>6, OutputFiles
    <3>2. CASE disk'["metadata"] = Held(0)
      BY <2>3, <2>4, <2>6, <3>2 DEF MetadataTruthful, Held
    <3>3. CASE disk'["metadata"] = disk["metadata"] /\ disk["metadata"] # Absent
      <4>1. disk["metadata"].run < run /\ disk["metadata"].run \in Int
        BY <2>1, <3>3, InvariantTypes
           DEF PipelineInvariant, VideoInStep, Older, Artefact
      <4> QED BY <2>3, <2>4, <2>6, <3>3, <4>1 DEF MetadataTruthful
    <3> QED BY <3>1, <3>2, <3>3 DEF MetadataTruthful
  <2> QED BY <2>2, <2>5, <2>6
<1>6. CASE CancelOutput
  BY <1>6, CancelOutputFiles DEF MetadataTruthful
<1>7. CASE \/ BeginDropouts \/ BeginAudio \/ EmitAudio \/ FinalizeAudio
           \/ FinalizeDropouts \/ CancelAudio \/ CancelDropouts
  <2>1. \A a \in {"video", "metadata"} : a \in Artefact /\ a \notin AudioFiles
    BY DEF Artefact, AudioFiles
  <2> QED BY <1>2, <1>7, <2>1, BeginDropoutsFiles, BeginAudioFiles,
             EmitAudioFiles, FinalizeAudioFiles, FinalizeDropoutsFiles,
             CancelAudioFiles, CancelDropoutsFiles DEF Only, Same
<1> QED BY <1>2, <1>4, <1>5, <1>6, <1>7, FilesAlone DEF StartRun

LEMMA ProgressKeep ==
  ASSUME PipelineInvariant, [Next]_vars
  PROVE  ProgressTruthful'
<1>1. CountersInStep'
  BY CountersKeep
<1>2. ProgressTruthful /\ CountersInStep /\ StatusInStep
  BY DEF PipelineInvariant
<1>3. CASE UNCHANGED <<status, mode, progress>>
  <2>1. status' = "succeeded" /\ mode' # "validate_only" => Processed' = FrameCount
    BY <1>2, <1>3 DEF ProgressTruthful, Processed
  <2> QED BY <1>1, <2>1 DEF ProgressTruthful, CountersInStep
<1>4. CASE status' # "succeeded" \/ mode' = "validate_only"
  BY <1>1, <1>4 DEF ProgressTruthful, CountersInStep
<1>5. CASE FinalizeDropouts
  <2>1. pc = "finalize_dropouts" /\ progress' = progress
    BY <1>5 DEF FinalizeDropouts, Finish
  <2>2. Processed' = FrameCount
    BY <1>2, <2>1 DEF CountersInStep, Processed
  <2> QED BY <1>1, <2>2 DEF ProgressTruthful, CountersInStep
<1>6. pc # "idle" => status = "none"
  BY <1>2 DEF StatusInStep
<1> QED BY <1>3, <1>4, <1>5, <1>6 DEF Next, StartRun, Validate, BuildSchedule,
  BeginOutput, BeginDropouts, BeginAudio, SequentialHead, PoolHead, Append_,
  EmitAudio, Report, FinalizeOutput, FinalizeAudio, FailClose,
  CancelOutput, CancelAudio, CancelDropouts, RequestCancellation, Crash,
  NoMoreRuns, vars, options, Goto, Finish, Refuse, AfterFailedPool

-------------------------------------------------------------------------------
LEMMA Initially == Init => PipelineInvariant
<1> SUFFICES ASSUME Init PROVE PipelineInvariant
  OBVIOUS
<1>1. /\ run = 0 /\ features = {} /\ mode = "validate_only"
      /\ pc = "idle" /\ status = "none"
      /\ cancelled = FALSE /\ cancelled_at = 0
      /\ written = 0 /\ audio_index = 0 /\ rows = 0 /\ refused = FALSE
      /\ progress = <<>> /\ delivered = <<>>
      /\ disk \in [Artefact -> {Absent}]
  BY DEF Init, Pool!Init
<1>2. Processed = 0 /\ Len(progress) = 0
  BY <1>1 DEF Processed
<1>3. \A a \in Artefact : disk[a] = Absent
  BY <1>1
<1>4. TypeOK
  <2>1. /\ features \in Projects /\ mode \in Modes
        /\ pc \in Locations /\ status \in Statuses
    BY <1>1 DEF Projects, Modes, Locations, Statuses
  <2>2. progress \in Seq(1 .. FrameCount)
    BY <1>1
  <2>3. disk \in [Artefact -> FileType \cup {Absent}]
    BY <1>1
  <2>4. /\ 0 \in 0 .. MaxRuns /\ 0 \in 0 .. FrameCount /\ 0 \in 0 .. 0
        /\ FALSE \in BOOLEAN
    OBVIOUS
  <2> QED BY <1>1, <2>1, <2>2, <2>3, <2>4 DEF TypeOK
<1>5. CountersInStep /\ ProgressTruthful
  BY <1>1, <1>2 DEF CountersInStep, ProgressTruthful, BeforeFrames
<1>6. PoolInStep /\ TokenInStep /\ StatusInStep /\ AfterValidation
  BY <1>1 DEF PoolInStep, TokenInStep, StatusInStep, AfterValidation,
    BeforeFrames,
     InFrames
<1>7. VideoInStep /\ AudioInStep /\ DropoutsInStep /\ FilesInStep
  BY <1>1, <1>3 DEF VideoInStep, AudioInStep, DropoutsInStep, FilesInStep,
     BeforeFrames, InFrames, Older, Artefact
<1>8. SuccessMeansComplete /\ CancellationHonoured /\ MetadataTruthful
  BY <1>1, <1>3 DEF SuccessMeansComplete, CancellationHonoured,
     CancelledLeavesNothing, CancellationPrompt, MetadataTruthful, Artefact
<1> QED BY <1>4, <1>5, <1>6, <1>7, <1>8 DEF PipelineInvariant

LEMMA Inductive == PipelineInvariant /\ [Next]_vars => PipelineInvariant'
<1> SUFFICES ASSUME PipelineInvariant, [Next]_vars PROVE PipelineInvariant'
  OBVIOUS
<1>1. TypeOK'
  BY TypesKeep, DiskTyped DEF TypeOK, DiskType
<1>2. CountersInStep' /\ PoolInStep' /\ TokenInStep' /\ VideoInStep' /\ AudioInStep'
  BY CountersKeep, PoolKeep, TokenKeep, VideoKeep, AudioKeep
<1>3. DropoutsInStep' /\ FilesInStep' /\ StatusInStep' /\ AfterValidation'
  BY DropoutsKeep, FilesKeep, StatusKeep
<1>4. SuccessMeansComplete' /\ CancellationHonoured'
  BY SuccessKeep, CancelledKeep, PromptKeep DEF CancellationHonoured
<1>5. ProgressTruthful' /\ MetadataTruthful'
  BY ProgressKeep, MetadataKeep
<1> QED BY <1>1, <1>2, <1>3, <1>4, <1>5 DEF PipelineInvariant

(* The invariant of RunProject: counters, files and status keep step       *)
(* through every call, failure, cancellation and crash.                    *)
THEOREM PipelineCorrect == Spec => []PipelineInvariant
<1> QED BY Initially, Inductive, PTL DEF Spec

(* Video, audio, EFM, dropout rows and reported progress agree on the      *)
(* number of frames at the head of every batch, whatever the batch size.   *)
THEOREM TracksStayInStep == Spec => []TracksInStep
<1>1. PipelineInvariant => TracksInStep
  <2> SUFFICES ASSUME PipelineInvariant PROVE TracksInStep
    OBVIOUS
  <2>1. TypeOK /\ ProgressTruthful
    BY DEF PipelineInvariant
  <2>2. FrameLocked
    <3>1. CASE pc \in {"head", "finalize_output"}
      <4>1. disk["video"] = Held(written) /\ Processed = written
        BY <3>1 DEF PipelineInvariant, VideoInStep, CountersInStep, InFrames
      <4>2. "audio" \in features => disk["wav"] = Held(audio_index)
        BY <3>1 DEF PipelineInvariant, AudioInStep, InFrames
      <4>3. "efm" \in features => disk["efm"] = Held(audio_index)
        BY <3>1 DEF PipelineInvariant, AudioInStep, InFrames
      <4>4. "audio" \in features => audio_index = written
        BY <3>1, <2>1, InvariantTypes DEF PipelineInvariant, CountersInStep
      <4>5. "dropouts" \in features => rows = written
        BY <3>1 DEF PipelineInvariant, CountersInStep
      <4>6. \A n : Held(n).frames = n
        BY DEF Held
      <4> QED BY <4>1, <4>2, <4>3, <4>4, <4>5, <4>6, InvariantTypes
          DEF FrameLocked
    <3> QED BY <3>1 DEF FrameLocked
  <2> QED BY <2>1, <2>2 DEF TracksInStep
<1> QED BY <1>1, PipelineCorrect, PTL

(* A generating run reports success exactly when every session of the      *)
(* project has been completed with every frame; only a file whose last     *)
(* close or whose inserts are unread may be torn by then.                  *)
THEOREM SuccessIsComplete == Spec => []SuccessMeansComplete
<1>1. PipelineInvariant => SuccessMeansComplete
  BY DEF PipelineInvariant
<1> QED BY <1>1, PipelineCorrect, PTL

(* A cancelled run leaves no file of its own and writes at most the batch  *)
(* in progress after the request.                                          *)
THEOREM CancellationIsHonoured == Spec => []CancellationHonoured
<1>1. PipelineInvariant => CancellationHonoured
  BY DEF PipelineInvariant
<1> QED BY <1>1, PipelineCorrect, PTL

(* Metadata is never newer than the video beside it, and completed         *)
(* metadata counts the frames handed to the completed video of its run,    *)
(* after any failure, cancellation, crash or rerun.                        *)
THEOREM MetadataStaysTruthful == Spec => []MetadataTruthful
<1>1. PipelineInvariant => MetadataTruthful
  BY DEF PipelineInvariant
<1> QED BY <1>1, PipelineCorrect, PTL
===============================================================================
