# videosynth: specifications, model checks and proofs

videosynth turns a YAML project (sections of sources, line injections, audio,
impairments) into a CVBS or Y/C video file with its metadata database, audio
tracks, an EFM stream and a dropout sidecar. A command line and a Qt GUI drive
the same pipeline. This directory holds TLA+ modules for two kinds of code: what
depends on order (threads, sessions that may fail half way, queued results,
undo), and the rules that several parts of the program must agree on without
ever meeting (the codes of a disc, the project file and its validator, the track
layout and its subcode). Every definition is translated from the C++ source; the
table `map` in `PROJECT.json` names the lines each one stands for.

Run a model with `tlc -workers 2 -config X.cfg M`, a proof with `tlapm M.tla`.

## 1. The system and its parts

```
 main.cpp ─────────────┐                      ┌── project_document ◄── section list, editor,
                       │                      │      settings and injection forms (undo/redo)
                       ▼                      ▼
        ┌──── pipeline.cpp ◄──── generation_controller, preview_frame_service,
        │     VideoSynthPipeline   validation_controller, source_probe_controller
        │     ::RunProject                    (each: GUI thread + one worker)
        ▼
  parse → validate → schedule → frames → finalize
                        │
        FrameSynthesisPool::RunOrdered (worker threads)
            │                            │ in order
   generation_stage, noise, dropouts     output_stage, audio_track_generator
   (progressive_frame_source,            (audio_wav_writer, audio_efm_writer
    biphase_injection_manager, VITS)      with the efm/ chain), dropout sidecar
```

| Part | State it keeps | Operations | What makes it correct | Modelled by |
|---|---|---|---|---|
| Frame synthesis pool | claim counter, reassembly window, free buffers, two condition variables, abort flag | claim, begin, acquire, job, push, pop, consume, recycle, abort, join | frames in order, each once, bounded memory, always returns | `FrameSynthesisPool` |
| Pipeline run | the stages' write sessions, samples written, audio index, progress | validate, schedule, begin, batch or pool frames, finalize, fail, cancel | status matches the files, tracks frame-locked, nothing left by a cancelled run | `PipelineRun` |
| Video output and metadata | open file, frame count, an sqlite transaction | begin, append, finalize, cancel | what is on disk is complete or is reported as not | `PipelineRun` (sessions, not the samples) |
| Audio track writing | synthesisers' position, WAV size, EFM index | begin, one frame, mute the pause, finalize | tracks keep to the video; the files describe themselves | `PipelineRun` (sessions), `ProgrammeRecording` (counts) |
| Dropout injection | a section's scratch events, sidecar rows | a frame's runs, clip, record, commit | the sidecar tells of every damaged sample | `PipelineRun` (session), `DropoutInjection` |
| EFM encoder chain | interleaver delays, subcode position, run of zero bits | layout, push, subcode section, modulate, flush | a player finds the tracks; nothing lost at the end; legal channel bits | `EfmTrackLayout`, `EfmEncoder`, `EfmModulator` |
| Generation stage, schedule | schedule of source and disc frames, template cache | build schedule, generate a frame in any thread | each frame is its own picture at its own colour phase; templates are built once and within their budget | `GenerationStage` |
| Frame source | decoded sources, per-source lock, prefetch thread | generate frame, prefetch, clear | a frame is of the asked source whatever is evicted; memory is bounded; the destructor returns | `ProgressiveFrameSource` |
| Biphase and FM codes | picture number, time code, chapter | one code set per frame | numbers continue over sections and never overflow silently | `DiscCodes`, `DiscInjection` |
| Line placement, VITS | none (tables and plans) | a line for each code, a plan for each test signal | no two signals on one line; parts of a signal join | `LinePlacement`, `VitsCatalogue` |
| Project validator | none (rules) | validate | what other parts assume about a project is enforced | `ProjectValidator` |
| Project file | none | parse, emit | what is saved is what is opened | `ProjectFile`, `ProjectModel` |
| Preview frame service | project snapshot, revision, pending request, worker, cache | set project, request, publish | nothing of an old snapshot; one worker | `PreviewFrameService` |
| Preview pane | refresh debounce, navigator, pending jump, placeholder, status | edit, show, scrub, jump, slots | shown picture and status agree with the document | `PreviewPane` |
| Project document | project, undo stack, saved position, batch | mutations, batches, undo, redo, save mark | exact undo, honest modified flag | `ProjectDocument`, `EditHistory` |
| Section list, editor commit | selection, current row | add, remove, duplicate, move, commit | operations act on the selected sections | `ProjectWindow` |
| Validation and probe controllers | pending snapshot, debounce, worker | request, time out, publish | the report becomes that of the newest document | `LatestWins`, `WindowRuns` |
| Generation controller, main window | running flag, token, thread, queued events, enabled actions | start, cancel, events, close | one run at a time, shown as it is; the window can always close | `WindowRuns` |
| Source probe | none | one probe | | not modelled: its result is an input of the validator and of the window |
| Signal synthesis, noise, chroma, OSD | none | sample arithmetic | numeric | not modelled: floating point, no control state |
| Command line, other widgets, themes, logging | presentation | | | not modelled: no state a property is about |

Interactions that are hard, and that the modules are about:

* **threads and condition variables**: pool workers, the consumer, a canceller
  in another thread, spurious wakeups; synthesis threads that share decoded
  sources and templates;
* **partial failure over several resources**: five write sessions, any call of
  which may fail, with cancellation or a crash between any two calls;
* **queued results**: a worker posts to the GUI thread; by the time it is
  delivered the project, the request or the selection has changed;
* **re-entrancy**: a Qt signal runs its slots before it returns, and slots call
  back into the object that is still publishing;
* **stale indices**: list operations compute rows first and then change the
  rows one by one; undo entries hold indices and swapped values;
* **agreement at a distance**: the emitter and the parser share no table of
  defaults; the section list repeats the counting of the injection manager; the
  pause is computed once from the layout and once from the subcode; the
  generator paints test signals on lines only the validator has compared with
  the lines of the codes.

`PROJECT.json` lists the hazards with the line where each bites and the
properties that would catch it.

## 2. Modules and how they correspond to the code

**`OrderedDelivery`** is the contract of `RunOrdered`: frames 0, 1, 2, ...
one at a time, then TRUE exactly if all were taken. `FrameSynthesisPool`
implements it (checked and proved) and `PipelineRun` is written against it
(`Pool == INSTANCE OrderedDelivery`), so the pipeline's model does not repeat
the threads.

**`FrameSynthesisPool`** models `frame_synthesis_pool.cpp`. One action is one
critical section, one atomic access or one notification. `next_claim` is the
atomic counter; `next_consume`, `completed`, `aborted` are the reassembly
buffer's fields; `free_frames` is the buffer pool's free list. A condition
variable is the set of threads blocked on it, so notify-after-unlock, missed
notifications and spurious wakeups are all behaviours. A frame's content is the
index its samples hold, the frames its dropout rows belong to, and `ok`: enough
to see a recycled buffer leak into another frame. `Pop`'s early returns are
shown unreachable (`PopIsLive`) rather than modelled.
`FrameSynthesisPoolProps` states the properties and the inductive invariant.

**`PipelineRun`** models `RunProject` call by call: `pc` names the next call.
Its state is what the pipeline and its stages hold (`written`, `audio_index`,
`rows`, `progress`) and what is on `disk`, one record per artefact: the run that
opened it, the frames handed to it, and how it ended: still `open`, `whole`, or
`torn` by an error whose result the code does not read. Runs follow each
other on the same paths, which is where stale files come from. Every call may
fail (`Faults`), leaving what the code leaves; the unread ones go on instead. The sequential loop and the pool
are both there; the pool through its contract.

**`PreviewFrameService`** and **`PreviewPane`** model
`gui/preview_frame_service.cpp` and `gui/preview_pane.cpp`. The GUI thread's
remaining work is a stack, `calls`: an action runs the call on top and may push
the calls of the slots it signals, which is exactly Qt's direct connection. The
worker runs between any two of them and queues its result in `posted`. The
preview options belong to the frame index. The picture is the project content
it was made from.

**`ProjectDocument`**, **`ProjectWindow`** model
`gui/project_document.cpp`, the section list's operations
(`section_list_dock.cpp`, `section_list_model.cpp`), the editor's
`CommitSectionToDocument` and the main window's open, save, undo, redo and
settings dialog. A gesture computes its calls from the rows it sees, and they
are run one by one, so a row that has moved meanwhile is really wrong. Commands
are records that swap values, as the code's do. A section is its name and one
more field; settings are slices. `EditHistory` is the abstract undo history.

**`LatestWins`** is the debounced single worker that
`gui/validation_controller.cpp` and `gui/source_probe_controller.cpp` both
implement: a pending snapshot, a timer that gives up when it fires during a run,
a worker, and a publication that starts what is pending. **`WindowRuns`**
instantiates it twice and adds what `gui/main_window.cpp` and
`gui/generation_controller.cpp` have running: the explicit validation with its
deferred look, the generation thread with its queued observer calls, the enabled
actions, and `closeEvent` with its two questions. A project is its `edition`, a
counter of changes. Queued calls of one sender keep their order, calls of
different senders come in any order.

**`ProgressiveFrameSource`** models `progressive_frame_source.cpp`. An entry
(`DecodedSource`) is a member of `Entry`, the memory it lives in, so an entry
evicted from the table while a caller still holds its `shared_ptr` is a
reachable state and `Alive` is the count reaching zero. A caller's steps are
those between which another thread can run: the table's lock
(`AcquireCacheEntry`), the entry's lock with the test whether enough is decoded
(`Enter`), and the decode that keeps that lock (`Decode`), which may fail. The
same three steps are run by the synthesis threads and by the prefetch thread.
A frame is the source it is of and its place in it.

**`GenerationStage`** composes it with `generation_stage.cpp`: the schedule with
its disc frame numbers, the choice of what to prefetch, and the template cache
(`Acquire`'s admission and ghost set under its lock, `call_once` as waiting for
the builder). Its client is the pipeline's pool, which claims frames in order
and gives up at the first failure, or the preview, which asks for any frame from
one thread and may drop the stage at any time; the destructor's two steps then
stop and join the prefetch thread. The pool's window is left out: it only
restricts which claims overlap. A clean frame is an image at a colour phase.
Each stage builds one schedule, so the clearing of its (empty) caches at the
head of `BuildFrameSchedule` is its initial state.

**`LinePlacement`**, **`DiscCodes`**, **`DiscInjection`** model
`line_placement_engine.cpp`, the code generators and
`biphase_injection_manager.cpp`. `DiscCodes` has the words as sequences of hex
digits, the generators as records with an `Advance`. `DiscInjection` is the loop
of `BuildFrameSchedule` over the frames of a disc: sections are entered, the
four generators that outlive a section are kept, the others made, lines resolved
and the generators advanced. It also has the second computation of the same
positions, `BuildDiscFrameOffsets` of the section list.

**`ProjectModel`**, **`ProjectFile`**, **`ProjectValidator`**, **`ProjectReview`**
model `model.h`, `yaml_project_emitter.cpp`, `yaml_project_parser.cpp` and
`project_validator.cpp`. A YAML document is a function from the keys that are
present to values, so "the emitter leaves the key out" is a missing key and "the
parser fills in" is a default. The validator is its set of errors, one operator
per rule. `ProjectReview` is the user: opens a file (of any settings), changes a
setting, validates, saves. **`VitsCatalogue`** has the test signals and the plan
that `vits_generator.cpp` makes of each.

**`EfmTrackLayout`**, **`EfmEncoder`** and **`DropoutScale`**,
**`DropoutInjection`** are functions; **`ProgrammeRecording`** runs them over a
programme, one frame per step, with the samples counted rather than computed:
what `audio_track_generator.cpp`, the two audio writers and the dropout stage do
with each frame, and what their files hold at the end. `EfmEncoder` has the
subcode sections of `subcode_generator.cpp` and the interleaver's delays of
`circ_encoder.cpp`. **`EfmModulator`** is the channel: one step per symbol, the
symbol free, the merging bits chosen as `SelectMergingBits` chooses them, the
digital sum value (which ranks the legal choices) left open.

`MC...` modules hold the instances' constants; `...Props` the properties, which
for the disc and the recording stand at the end of their own modules;
`...Proofs` the theorems.

## 3. What each run asks, and its bounds

| Run | Question | Bounds and why they are enough |
|---|---|---|
| `pool` | Do racing workers, failing jobs, a refusing consumer, cancellation and spurious wakeups ever break order, lose or duplicate a frame, pass the window or the buffers' bound? Does the pool refine `OrderedDelivery`? Does the run always return, or reach the one stranding described? | 2 workers, 5 frames, a window of 2: frames exceed the window and the buffers, so producers block on it, a buffer is recycled twice and the counter runs past the end. `RunOrdered` opens the window to twice its workers, `OrderedFrameReassemblyBuffer` takes any; with a window of 4, 6 frames would be needed to go through the same cases. The proofs remove the bounds for all but `RunReturns`. |
| `pool_cancel` | *violation*: a cancelled run stops (`frame_synthesis_pool.h`). | 3 frames suffice. |
| `pipeline` | Does the status tell the truth about the files after any failure, cancellation, crash, and which errors does a success hide? Do the tracks keep step? | 3 frames in batches of 2, so the last batch is short and a batch may fail in the middle; 2 runs, so every file can be an older run's. All feature combinations and modes. |
| `preview` | Can anything of an old project be shown as current, and does a visible pane always catch up? | 3 projects (three frames, one frame, invalid), 2 edits, cache of 2: revisions overlap, the navigator is clamped, the cache evicts. |
| `document` | Is undo exact, is "not modified" true, do list operations act on the selected sections? | 2 gestures between any number of saves, undos, redos and reloads; up to 4 sections, so selections of every shape (gaps, both ends, current row outside) occur. Two gestures are needed for a swap to be swapped twice and for an edit to bury a saved state. The proofs remove the bounds. |
| `window` | Is a request for validation or a probe ever stranded, an explicit validation answered with an older verdict, a run shown that is over, a window destroyed over a run nobody cancelled? | 4 gestures (load, edit, validate, generate, close and their mixtures), one section, two sources, a run of one frame. Three gestures already put a request, a running worker and an expiring timer together; the fourth is a change under the explicit validation. The proofs remove the bounds for all but `IssuesCatchUp`. |
| `generation` | Is every delivered frame its own picture at its own phase, whatever is evicted, half decoded, prefetched or shared? Are both caches bounded, does a failure always come from a file, does everything asked for come to an end? | 2 threads and the prefetch thread; a still and a clip of 2 frames with a table of one, so every change of source evicts (`kMaxCachedSources` is 3; the proof covers any number); memory for 4 entries, the least the assumption allows; 2 phases and room for 1 template, so a second key competes for it; `MaxRequests` = 2 frames asked for by a preview. The clip is used in part and as a whole, so entries grow while in use. |
| `disc` | Are the numbers, chapters and times on every frame those of its place on the disc, in the section list and the overlay too, and does a reader recognise each word? Where the documents promise something else of the FM number and the stop bit (`disc_documented`), only what both say is asked here. | Discs of every standard and type, three programme sections with any of the codes, with and without lead-in and lead-out; a few with a section as long as its source. The scale is reduced so that every wrap and limit is passed: seconds of 3 frames (2 on PAL), minutes of 4 seconds, largest picture numbers 7 and 9, the FM number's 6, a stop bit after 4 frames (so that a chapter of 8 is a long one: the last CLV section alone, or two CAV sections), an NTSC correction every 8. The proofs remove the bounds: any disc the validator accepts, at the scale of the code as at the reduced one. |
| `disc_documented` | *violation*: an FM start value re-anchors the count of its section, and a chapter that is short or the disc's first has its stop bit set throughout (`CodesAsDocumented`). | One NTSC disc. Its second programme section states an FM start and begins the only chapter, so that its first frame contradicts both documents at once. |
| `project` | Does an accepted project survive saving, does every file settle, and does acceptance imply what the track layout and the test signals rely on? | Four projects (a CAV and a CLV disc, a PAL-M and an NTSC tape) and any 2 of about 150 settings on top of each, which is every pair of fields that a rule could relate. |
| `recording` | Does the sidecar account for every damaged sample, does a player find tracks and pause, does the interleaver drain, do the files describe themselves? | Five programmes of 2 to 7 seconds: PAL and NTSC, with and without lead-in, one too long for its WAV file, one out of order. The raster is 5 lines of 40 samples with the picture in the middle; `RiffLimit` is placed so that one programme passes it by its header alone. The proofs remove the bounds for all but `RowsTellTheDamage` and `PlayerFindsTracks`. |
| `channel` | Are all runs of channel bits 3 to 11 long, and is the sync pattern in headers only? | All 256 symbols at every place, with every choice the rules allow, so the digital sum value is irrelevant. A frame has 3 symbols instead of 33: a control symbol, which may be a subcode sync, and the rest, of which only first and last have a place of their own; the state between two symbols is a run of zero bits, so longer frames add no state. |

Deadlock is checked except where the system stops: `pool` (a stranded run has no
successor, which is `Stranded` itself, and a returned one neither), `window`
(closed), `disc` and `recording` (the last frame is done).

Every property of a passing run has a mutant in `PROJECT.json`: a definition
changed as a plausible bug in its code would, under which the property fails.

### What the violations show (findings)

1. **A cancelled run can hang.** A worker that sees the token leaves without
   notifying `consumer_cv_`. If the caller has just tested the token and then
   waits in `Pop` when no claimed frame is outstanding, nobody wakes it.
   `PoolSafe` shows that this is the only way to hang.
2. **A first or a short chapter has no stop bit.** `ChapterNumberGenerator` takes
   `always_stop_bit_one` for these two cases, and its comment, the reference and
   the design document promise a set bit; the injection manager never passes it,
   so that a player's search passes through the first 400 tracks of those
   chapters too (`cav_code_generator.h:134`, `laserdisc-codes.md:128-129`,
   `biphase-design.md:534`).
3. **A second FM start value is ignored.** The FM generator is made once; the
   start value that a later section states is never read, although the reference
   and the help text say that it anchors that section
   (`section-line-injections.md:62`, `line_injection_presenter.cpp:227`).

### Smaller divergences

Met while the modules were written; the models do what the code does. Where one
contradicts a document or a comment, that is quoted by its place.

*Pipeline and generation.* A run without dropouts returns before it opens the
sidecar, so the sidecar of an earlier run stays beside the new video
(`dropout_injection_stage.cpp:241` against its comment at 266). A clip shorter
than its section's count does not loop (`sources.md`, `sections.md`): the
schedule asks for frames past its end and the run fails. An explicit picture
number moves the colour phase, so the signal's sequence is not continuous over
sections (`generation_stage.cpp:1462` against `video-signal.md:66`), while the
metadata always says that it is (`output_stage.cpp:309`). When
`AudioEfmWriter::FinalizeWrite` fails, `AbortWrite` removes nothing, and an older
`.efm.meta` can outlive its stream. Three results are never read, so that a run
can succeed over a torn file, although "the exit code is zero on success and
non-zero on failure" (`cli.md:53`): the last close of the video and chroma files
(`output_stage.cpp:758-761`), that of a WAV file (`audio_wav_writer.cpp:238`) and
the insert of a dropout row (`dropout_injection_stage.cpp:392`);
`SuccessMeansComplete` names them, and that there are no others. `BeginWrite`
truncates the video but leaves the metadata of an earlier run, which only
`FinalizeWrite` removes: until a run gets that far, also after a failure or a crash,
an older database stands beside a newer, unfinished video (`MetadataTruthful`
excludes the reverse, and any mixture within one run).

*Preview.* Scrubbing to a new frame and back to a cached one ends on the new one:
a cache hit neither clears the pending request nor outdates the worker
(`preview_frame_service.h` promises latest-wins). A frame requested before an
edit and delivered after it clears the "out of date" line until the debounce
expires (`preview_pane.cpp:347`).

*Document and window.* An edit of one selected section and a current one outside
the selection makes two undo steps (`section_editor.cpp:898` against `gui.md`).
`ApplyMovePlan` makes the current row current again, so a current row the user
had deselected joins the selection (`section_list_dock.cpp:227`;
`MoveKeepsSections` is stated for a current row that is acted on). `EmitFile`
truncates the project file before it writes, so a failed save leaves it torn
while a document unchanged since its last save stays unmodified
(`yaml_project_emitter.cpp:382`; the exception in `CleanMeansSaved`). A request
that arrives during a validation is started when the run ends although its
debounce may still count (`validation_controller.cpp:86`). An undo of a source,
or a change of the standard, reloads the form without a new probe
(`section_editor.cpp:85`), and selecting another section shows the last one's
report until its own arrives. Declining to save after "cancel and quit" leaves
the window open with its run cancelled. The summary of a run does not name its
`.efm` files.

*Project file and validator.* Besides settings without effect, a saved file loses
a repeat of a counted duration (a refused repeat of 0 is accepted after saving)
and a negative dropout scale without a seed. Unknown values of lenient fields
take defaults. `codes` that are no sequence fail without a message. PAL-M: the
validator's largest picture number is 79999, the generator's 99999, and FM codes
are accepted for which no encoder is made. `programme_status` is never checked
and `users_code` is read differently by the validator and the manager, so a
validated project can fail when the schedule is built; a `users_code` such as
`F2D345` is accepted, whose first digit is another code's
(`project_validator.cpp:676`), so it is read as one (`CodesReadBack` asks for words
of their own form). That the last picture number fits (`troubleshooting.md`) is
not checked either: the generator stays at the largest. More than 79 untyped
sections with digital audio pass the validator but not the layout.

*Codes of a disc.* The deferral of the white flag is never used. For a stated
start of 0 the section list shows 00001, the disc 00000
(`section_list_model.cpp:111`, whose comment says that it mirrors
`InitializeSection`). The list adds nothing for a section of duration "all"
(`section_list_model.cpp:121-124`), while the disc's numbers run on through it: the
sections after one are listed too early, by its length (`CodedThroughout` allows
it for the programme's last section only). Generators stand still in sections
without laserdisc codes (`laserdisc-codes.md` has the picture number run
"continuously across every section"), while the section list and the overlay's
time code count on. The overlay keeps showing a picture number in the lead-out
(`osd.md:55`). NTSC minutes are 1800 frames in the time code
while the CLV seconds are corrected. A picture number of 0 yields a colour frame
of -1.

*Dropouts.* The index that grows and fades a scratch is the schedule's
`source_frame_index`, which counts from `start_frame`, not the position within the
section as the comment says (`dropout_injection_stage.cpp:714-716`): a section that
starts late in its source shows no scratch, one that replays its source shows it
in each pass. At scratch scale 1 lifespans are at most 2 frames, where the envelope
is 0, so no scratch appears. Two runs of a frame that start with one sample have
one primary key, and the second row is lost silently (`section-dropouts.md:80`).
The table in `section-dropouts.md` gives other ranges than `dropout_scale.h`.

## 4. Fairness

* Pool: weak fairness of the caller and of each worker. The operating system
  runs a thread that is not blocked, and jobs and the consumer return. Mutex
  acquisition is folded into the critical section's action: `std::mutex` is held
  only for short, loop-free sections. Nothing forces a cancellation, a failure
  or a spurious wakeup.
* Preview: weak fairness of the worker thread and of a call on the GUI stack;
  strong fairness of the queued publication and of the refresh timer, because
  Qt's event loop takes posted events and expired timers in turn with input, so
  a user who keeps scrubbing disables them again and again but not for ever.
  Nothing forces an edit, a scrub or a jump.
* Window: weak fairness of the workers, of the timers, of each queue of the event
  loop and of the answer to a dialog that holds the window. Gestures are bounded
  and none is forced.
* Generation stage: weak fairness of each thread's steps, of the prefetch thread
  and of the destructor. A thread waiting for an entry's lock or for `call_once`
  is simply not enabled; weak fairness is enough because the frames of a run are
  finitely many, so an entry's lock is taken ahead of a waiting thread only
  finitely often, and a template stays ready. Nothing forces a
  client to ask for another frame or to leave. `StageSettles` states the outcome
  for a run as a whole: with finitely many requests, each being answered is the
  same as no thread, queue or destructor being left busy for ever.
* Pipeline, document, disc, project, recording, channel: safety only.

## 5. Proofs

`FrameSynthesisPoolProofs` proves for **any finite non-empty set of workers, any
number of frames and any window** (the `ASSUME`s of `FrameSynthesisPool`):

| Theorem | Statement |
|---|---|
| `Typing` | `Spec => []TypeOK` |
| `PoolSafety` | `Spec => []PoolInvariant`, the inductive invariant |
| `InOrder`, `OnceEach`, `Window`, `StrandedRuns` | the four parts of `PoolSafe` |
| `PoolIsSafe` | `Spec => []PoolSafe`, the property of the run |
| `MemoryBounded` | `Spec => []BuffersBounded` |
| `FinalAbort` | after `Abort`, the exchange stays empty and nothing is delivered |
| `Refinement` | `Spec => OrderedDelivery!Spec` under the refinement mapping |

The properties are not inductive: "in order" says nothing of the frames still in
the exchange or with a worker. `PoolInvariant` adds where every index is.
`ClaimsAccounted`: an index below `next_claim` that has not been consumed is
stored or held by exactly one worker, and before an abort none is missing.
`InsideWindow`: what is stored or being synthesised is inside the window, which
only moves forward. `FramesIntact`: a held frame has the content its place says.
`ConsumerInStep`: how `next_consume`, `consumed`, `run_ok` and `aborted` relate
at each of the caller's locations. `ExitsExplained`: a worker leaves only because
of the token, the abort or the end of the frames, which is what makes stranding
impossible without a cancellation. The proof that a step preserves it has one
lemma per conjunct and one step per action. `BuffersBounded` is inductive beside
it: only `Acquire` makes a buffer, when the free list is empty, and then
`WindowBounded` leaves room for one more (`RoomForOne`); every other step moves
buffers between the four places that are counted (`CountsAfter`). The refinement
maps `Consume` to `Deliver`, the step that returns to `Complete` or `Stop`, and
every other step to a stutter.

`WindowRunsProofs` proves, for **any sections and sources, any length of a run
and any number of gestures**:

| Theorem | Statement |
|---|---|
| `WindowTypes` | `Spec => []TypeOK` |
| `NoRequestStranded` | `Spec => []RequestsNotStranded` |
| `VerdictIsAnAnswer` | `Spec => []VerdictAnswersRequest` |
| `RunIsShownTruthfully` | `Spec => []RunShownTruthfully` |
| `QuittingCancels` | `Spec => []QuitCancelsRun` |

What is true of a `LatestWins` worker after each of its moves is proved once
(`ValidationMoves`, `ProbeMoves`) and used for every handler of the window.
`VerdictAnswersRequest` needs `AnswerComing`: the newest thing the controller
knows of is never older than the explicit request, and once a result has come
since the request, what is in hand is not either, although the flag alone does
not tell whose result it is. `RunShownTruthfully` needs `ReportsGrow`, that no
queued event is ahead of its thread; the proof has a lemma for each of what the
menu shows, that there is one run, that the queue is of it, that its end is last
and that reports grow. `QuitCancelsRun` follows from `AskedFirst`: past the first
question no thread works without its cancellation.

`GenerationStageProofs` proves, for **any project, any stills and clips, any
finite set of threads and any sizes of the two caches**:

| Theorem | Statement |
|---|---|
| `StageKept` | `Spec => []StageInvariant`, the inductive invariant and the property of the run |
| `StageTypes`, `CleanFramesDelivered`, `TemplatesWithinBudget`, `DecodedSourcesBounded` | its parts that stand for themselves, and the bound on decoded sources |
| `SourceKept` | `Spec => []SourceInvariant`, its strengthening for what the entries hold |
| `FramesServed` | `Spec => []SourceServes` |
| `NothingShrinks` | `Spec => CacheNeverShrinks` |

`DeliveredIsClean` says nothing of a picture on its way. `StageInvariant` adds
what a frame passes through: `OnSchedule` (a thread works on a frame of the
schedule, which has stopped growing), `EntriesSound` (an entry holds frames of
its own source in their places), `HandlesSound` (a caller inside `GenerateFrame`
holds the entry of the source it asks for, also after its eviction),
`AnswersSound` and `SlotsSound` (the answer and the finished templates are those
of the thread's frame and of their key). `NothingLeaks` bounds memory: what is
alive is in the table or with a caller; it is also what shows that there is
always memory for a new entry (`MemoryForOne`), from `EntryAssumption`. Two lemmas carry
most of the induction: `MemoryStep` for a caller inside the frame source and
`ElsewhereSound` for steps that change no frame; the step lemmas follow the
actions one by one. `InitialFrameOffset` is a choice of the first numbered
section, whose existence is a fact about the well-founded order of the naturals.

`FailsOnlyOnDecodeError` and `CacheNeverShrinks` need to know what is decoded
when. `SourceInvariant` adds `EntriesFit` (an entry holds no more than its file,
and all of it once complete), `DecodesWhatLacks` (who decodes owns the entry's
lock, and the entry still lacks what that caller needs: the lock keeps the test
of `EnsureMkvDecoded` true until the decode) and `ScheduleFits` (a section asks
for frames of its own part of the clip). `DecodedFits` shows that a decode of
such an entry gives more than it had, `EnoughIn` that a satisfied test leaves
every frame the section can ask for; `LockStep` and `ReturnFits` carry them
through the steps of other callers. `CacheEntryFits` uses `NothingLeaks`: memory
for a new entry is that of a freed one.

`PipelineRunProofs` proves, for **any number of frames, batch length, artefact
features, faults and number of runs on the same paths**:

| Theorem | Statement |
|---|---|
| `PipelineCorrect` | `Spec => []PipelineInvariant`, the inductive invariant |
| `TracksStayInStep` | `Spec => []TracksInStep` |
| `SuccessIsComplete` | `Spec => []SuccessMeansComplete` |
| `CancellationIsHonoured` | `Spec => []CancellationHonoured` |
| `MetadataStaysTruthful` | `Spec => []MetadataTruthful` |

The properties speak of a run that has ended or of the head of its loop, so
`PipelineInvariant` says, call by call, what is true in between.
`CountersInStep`: the order in which `written`, `audio_index`, `rows` and the
reported progress pass each other within a batch. `VideoInStep`, `AudioInStep`
and `DropoutsInStep`: which file is this run's, how much it holds, and which
files are at most those of an older run; the calls that clean up after a failure
or a cancellation need to know that what they do not remove is older.
`FilesInStep`: metadata never stands without a video and is never of a newer run
than it. Opening the video leaves an earlier run's metadata where it is;
`FinalizeWrite` removes it, or fails to, before it writes its own, and what it has
written describes the video it has just closed, so no database is ever half one
run's and half another's. `TokenInStep` is
what bounds the work after a cancellation to one batch; the pool enters by its
contract (`PoolInStep`). The proof has one lemma per call. What `SuccessIsComplete` does not
say is said in it: the video, a WAV file and the dropout sidecar of a successful
run may be torn (`Unread`), each by the one call whose result the code drops;
`rows` counts the frames handed to the sidecar, and `refused` that sqlite took not
all of their rows. The only assumption
beyond the sizes is that "no file" is not a file (`AbsentAssumption`).

`PreviewPaneProofs` proves, for **any set of projects, frame counts, cache size
and number of edits**:

| Theorem | Statement |
|---|---|
| `PreviewInStep` | `Spec => []PreviewInvariant`, the inductive invariant |
| `PreviewIsConsistent` | `Spec => []PreviewConsistent`, the property of the run |

`PreviewConsistent` compares the picture with the document. Between them lie a
cache, a worker, its queued results and a stack of calls not yet made, and what
is wrong in any of them reaches the screen later. `CacheInStep`: the cache holds
frames of the present revision only, no key twice, within `Capacity`.
`ResultsInStep` and `WorkerInStep`: a result or a worker of the present revision
is of the present project, one of an earlier revision may hold anything that was
a project then; that is what makes the revision test of `FinishRequest`
sufficient. `CallsInStep`: every call on the stack is about the present project,
and only the call on top announces a new schedule, so that a slot that runs
below it never meets a navigator range of the schedule before
(`NavigatorInStep`). `RefreshInStep`: while no refresh is due, the service works
on the document; the revision is at most the number of edits, plus one.
`PictureInStep` has the strengthening that `LoadingIsWorking` needs: when the
pane says it is loading, an answer or a failure of the present revision is on
the stack, posted, in work or pending. The proof has one lemma per call, plus
those on the cache (`StoreInCache` with a hit, a free place or an eviction). It
assumes that "none" is no project, number, frame or worker (`NoneAssumption`).

`ProjectWindowProofs` proves, for **any files, styles and settings, any number of
sections and of gestures**, with the auxiliary variable `states` (the projects at
the positions of the undo stack, a function of the other variables):

| Theorem | Statement |
|---|---|
| `DocumentInStep` | `SpecWithStates => []DocumentInvariant`, the inductive invariant |
| `DocumentStaysConsistent` | `SpecWithStates => []DocumentConsistent`, the property of the run |
| `UndoImplementsHistory` | `SpecWithStates => UndoIsExact`: the document implements `EditHistory` |
| `GesturesActOnSelection` | `SpecWithStates => ListActsOnSelection` |

An undo entry does not hold a project but commands that hold *other* values each
time they are applied or reverted, so nothing in the state says what undoing it
yields. `Way` says it: along a row of projects each command of the entry leads
from one to the next and the reverted command back, `Done` and `Undone` are the
two halves of it, and `DoneReverts` and `UndoneReapplies` show that each becomes
the other. It rests on one lemma per command (`InsertTurns` and its like: a
removed section put back at its place gives the sequence there was, a move and
its reverse cancel). `StatesInStep` says that the entries below the place are
done and those above it undone, between consecutive `states`; an open batch is a
done entry of its own from the present state to the project, which is why joining
a command to it (`OneMoreIsDone`) and closing it change no state but the last.
`SavedInStep` is what makes the modified flag honest: the saved position, while
it can be reached, is a position whose state is the file. The rest concerns the
gestures: `BatchInStep` (a handler opens one batch at most and closes it, so undo
never meets an open one) and `QueueInStep` (each queued call names a row that is
there, or that a duplicate queued before it makes; nothing is removed while such
calls wait). The latter is why the selection stays inside the list and why the
copies of a duplicated selection land one below the other. That a free name
exists for a copy (`FreeName`) is the pigeonhole principle. The proof has one
lemma per document method, per gesture and per kind of call. `Applied`,
`Reverted` and `StatesOf` are recursive functions; that they equal a given row of
projects is shown at the smallest place where the two would differ (`OnlyWayBack`,
`OnlyStatesBack`), since the library's induction theorems cannot be instantiated.

`ListActsOnSelection` compares the rows before a gesture with those after *all*
the calls it queues, so its proof follows the calls one by one without taking the
steps: `MadeAlong` and `AlongCalls` cut the recursive `Made` and `After` at any
call. A gesture lists the selected rows with `SortSeq`, and `SortedIs` shows that
this is the only increasing listing. Removals run from the highest row down, so
that the calls still to come find their rows where they were: after the first n
the sections are those without the n highest rows (`Removed`, `RemovalsLeave`).
A plan of moves exchanges neighbours, one of the selection and one not
(`NeighboursSwap`), which keeps the order within each (`SwapKeepsOrder`); that no
move ever meets a row of the selection still to be moved (`MovesInto`) is why the
plan is built upwards for a move up and downwards for a move down
(`UpwardPlan`, `DownwardPlan`). The theorem assumes, beside the sizes, only that
"no row" is not a row (`NoneAssumption`).

`DiscInjectionProofs` proves for **any disc the validator accepts** (any number of
sections of any length, any codes and start values) and any scale of the codes:

| Theorem | Statement |
|---|---|
| `DiscCorrect` | `Spec => []DiscInvariant`, the inductive invariant |
| `DiscTyping` | `Spec => []TypeOK` |
| `PictureNumbersContinue` | `Spec => []NumbersContinue` |
| `StopBitsAreLate` | `Spec => []ChapterStopsLate` |
| `ClocksRun` | `Spec => []ClvClockRuns` |
| `ListShowsTheDisc` | `Spec => []ListShowsDiscPosition` |
| `CodesAreReadBack` | `Spec => []CodesReadBack` |

The properties relate the code on a line to a count over the whole disc so far,
while a generator knows only its own last value. `Counting` connects them: each
generator that outlives its section (`Persistent`) is the state that counting
reaches (`CounterAt`) from the start its last anchor stated, after the coded
frames since then (`StepsOf`). `SectionCounts` shows it for the entry of a
section, which makes, keeps or re-anchors a generator, `CounterGoesOn` for a
frame within it. `Making` says that the other generators are made for the section
they are in, `FmCounting` the same as `Counting` for the FM number, whose start is
read once. `FrameIs` and `ShownIn` carry what the generators held over to the
frame last resolved: its lines are reserved ones, each with the code of its
generator, and its overlay shows what is on them. The time code needs arithmetic
of its own: `ClockAt` gives the clock after n frames in closed form,
`CorrectedSteps` and `ClockAdvances` that a step of the generator, corrected or
not, is the step from n to n + 1. The list's agreement
(`ListAgrees`) is shown along the sections: on a disc whose programme carries its
numbers throughout, its counter at a section is what the generator shows on the
section's first frame, as long as no section before it is open ended (after one
the counter is behind, which `ListAgrees` leaves open).
`StopBitsAreLate` and `PictureNumbersContinue` rest on lemmas that say exactly what
the code does (`ChapterSeen`, `FmNumberSeen`); the theorems claim the part of it on
which the documents agree. `CodesAreReadBack` goes digit by digit through the words:
no two codes have words in common, whatever their values.

Assumed: `ProjectsAssumption`, that projects keep the validator's rules on section
types, durations, codes and start values (`IsDisc`; that acceptance implies the
order of the section types is `AcceptedIsADisc` of the run `project`); that an
unset code is not a generator (`UnsetAssumption`); `DiscScale`,
that the scale's numbers are naturals and not 0; and `CorrectionClosesSeconds`,
that with the dropped number the steps between two corrections are whole seconds
(899 + 1 frame numbers are 30 seconds on NTSC).

`ProgrammeRecordingProofs` proves for **any list of sections, any lengths and any
dropouts drawn**:

| Theorem | Statement |
|---|---|
| `RecordingCorrect` | `Spec => []RecordingInvariant`, the inductive invariant |
| `TablesAreAccepted` | `Spec => [](session # "refused")` |
| `FilesAreDescribed` | `Spec => []FilesDescribeThemselves` |
| `SweepsEnd` | `Spec => []SweepsEndWithTheSection` |
| `AudioIsComplete` | `Spec => []AudioReachesTheFile` |
| `PausesAreSilent` | `Spec => []PauseIsSilent` |

`RecordingInvariant` has one part for each thing the properties compare at the end
and the steps change along the way. `LayoutKept`: an open session has the layout
of its sections. `IndexClosed`: index and EFM file end together after every frame.
`SizesFit`: what has been appended was let in by the size check, so that the
header still fits at the end. `SamplesSent`: what the encoder has taken and what
waits in it are the samples up to the present frame, and after the drain nothing
waits. `SynthesisInStep`: the synthesisers count from the first frame of the
present section (`PartIs`, `SynthesisKept`). `SamplesOfFrame` and
`WavSamplesOfFrame` are the two sample grids, with the five-frame pattern of NTSC
(1602, 1601, 1602, 1601, 1602). The table of tracks is a `Timeline`, from 0
without gaps, in order and with tracks 1 to 79 (`TableIsTimeline`, along the runs
of one area that the layout collects); `SubcodeGenerator::Begin` refuses none
such (`TimelineAccepted`), `EntryIs` finds the entry of a section, and
`PausesAgree` compares the pause of the layout with that of the subcode.
`AudioIsComplete` needs the largest delay of the interleaver (`DelaysOfSymbols`).
Assumed: that every section yields a frame, without which the schedule fails
(`ProgrammesAssumption`, `generation_stage.cpp:367`), and that the file size limit
is a number.

Only model-checked:

* liveness under fairness and whatever needs `ENABLED`, which is outside the
  prover's reach: `RunReturns`, `PreviewCatchesUp`, `IssuesCatchUp`,
  `StageSettles`;
* the five properties of `project`. They compare two passes over a whole document
  (emitter and parser, or a rule and its user) that are folds of sequences, and
  what a fold does for every input needs induction over data, for which the
  library's theorems cannot be instantiated. The instance has every pair of
  settings;
* `RowsTellTheDamage`, for the same reason (runs are sorted and merged by folds);
  for arbitrary draws it is not a theorem either: enough random runs merge into one
  that crosses the picture;
* `PlayerFindsTracks`. Absolute minutes saturate at 99 and the P flags of tracks
  shorter than two seconds run together, so it is true of programmes such as the
  instances and not of all: the validator does no more than warn;
* `TValuesAreLegal` and `SyncOnlyInHeader`: the table of 256 symbols is fixed, and
  TLC goes through every state there is.

## 6. What is not modelled, and why

Sample arithmetic (synthesis, chroma, noise, shaping, the waveforms of codes and
test signals, parities and checksums) is floating point or byte arithmetic with
no control state. Text conversion (YAML syntax, paths, tokens) appears only by
its outcomes. Widgets, forms, themes and logs hold no state the properties speak
of: their edits reach the document through the commands that are modelled. The
source probe and the command line are one pass without state.

In the modelled parts: what a source file holds is external (a still one image, a
clip as many as its length); the random numbers of dropouts are any; sample
encodings and file headers are abstracted to counts; the preview's drawing and
waveform scope are left out; `ProjectDocument::CloseProject` is called by nothing;
the preview's replacement of a generation stage on the GUI thread, which joins a
prefetch decode, is a delay and not a state; memory exhaustion is not modelled.
The window and the preview are separate instances: they share the GUI thread but
no state that either's properties mention.
