--------------------------- MODULE GenerationStage ---------------------------
(***************************************************************************)
(* generation_stage.cpp: a project's sections become a schedule of frames, *)
(* and threads synthesise frames of it at the same time. Each decodes its  *)
(* source image through ProgressiveFrameSource and then takes the clean    *)
(* frame from the template cache or makes it. A clean frame is an image    *)
(* encoded at a colour phase; codes, noise and text are added afterwards.  *)
(*                                                                         *)
(* The threads are those of the pipeline's pool, which claims the frames   *)
(* in order and inside a window, or the single one of the preview, which   *)
(* asks for any frame. The pool's window only restricts this. A stage      *)
(* serves one project, so the template cache's check of its configuration  *)
(* and the section type, always "progressive", tell nothing apart.         *)
(***************************************************************************)
EXTENDS ProgressiveFrameSource

CONSTANTS
  Project,       \* the project's sections
  Phases,        \* ColourSequencePeriodFrames
  Capacity,      \* how many templates capacity_bytes_ has room for
  MaxGhostKeys,  \* kMaxGhostKeys
  MaxRequests    \* bound: how many frames a preview asks for

SectionType == [source : Source, all : BOOLEAN, start : Nat, duration : Nat,
                repeat : Nat \ {0}, number : Nat]
ASSUME ProjectAssumption ==
  /\ Project \in Seq(SectionType) /\ Project # <<>>
  /\ \A s \in DOMAIN Project : Project[s].all \/ Project[s].duration > 0
ASSUME NumberAssumption ==
  {Capacity, MaxGhostKeys, MaxRequests} \subseteq Nat /\ Phases \in Nat \ {0}

VARIABLES
  client,          \* who uses the stage: "pool" or "preview"
  stage,           \* "scheduling", "running", and the destructor's steps
  scheduled,       \* how many sections are in the schedule
  schedule,        \* the frames: section, source frame and disc frame index
  claimed,         \* how many frames were asked for
  frame,           \* per thread: the frame it works on
  slots,           \* the template cache: builder and template of each key
  requested_once,  \* keys asked for once and not admitted
  reserved,        \* reserved_bytes_, in templates
  clean            \* per thread: the clean frame it delivers

cache_vars == <<slots, requested_once, reserved>>
stage_vars == <<client, stage, scheduled, schedule, claimed, frame, cache_vars,
                clean>>
vars == <<source_vars, stage_vars>>

NoFrame == [image |-> NoImage, phase |-> 0]

Init ==
  /\ SourceInit
  /\ client \in {"pool", "preview"} /\ stage = "scheduling"
  /\ scheduled = 0 /\ schedule = <<>> /\ claimed = 0
  /\ frame = [t \in Thread |-> 0]
  /\ slots = [key \in {} |-> None] /\ requested_once = {} /\ reserved = 0
  /\ clean = [t \in Thread |-> NoFrame]

Sections  == DOMAIN Project
Section(f) == Project[schedule[f].section]
Phase(f)   == schedule[f].disc % Phases
Busy       == {t \in Thread : at[t] # "idle"}

-------------------------------------------------------------------------------
(* BuildFrameSchedule, before any thread asks for a frame: a stage builds  *)
(* one schedule, and the caches it clears first are still empty.           *)

(* The source frame indices of a section whose source has so many frames.  *)
SectionFrames(section, length) ==
  IF section.all THEN [k \in 1 .. (length * section.repeat) |->
                         ((k - 1) % length) + section.start]
  ELSE [k \in 1 .. section.duration |-> k - 1 + section.start]

(* ResolveFrameCount: the whole clip is decoded to count it.               *)
ResolvedIn(found, source) ==
  [found.entries EXCEPT ![found.entry] =
     IF Satisfies(@, source, 0, TRUE) THEN @ ELSE Decoded(@, source, 0, TRUE)]

(* A section's picture number start, 0 without one, sets the disc frame:   *)
(* others count from the start of the output, moved by the first start     *)
(* value above 1 of the project.                                           *)
Numbered == {s \in Sections : Project[s].number > 1}
InitialFrameOffset ==
  IF Numbered = {} THEN 0
  ELSE Project[CHOOSE s \in Numbered : \A r \in Numbered : s <= r].number - 1

DiscFrame(section, k) ==
  IF section.number > 0 THEN section.number - 1 + k - 1
  ELSE Len(schedule) + k - 1 + InitialFrameOffset

(* The section's part of BuildFrameSchedule; a count may fail to decode.   *)
ScheduleSection ==
  /\ stage = "scheduling"
  /\ LET section == Project[scheduled + 1]
         counted == section.all /\ section.source \in Clip
         found   == CacheEntry(section.source)
         indices == SectionFrames(section, Len(File(section.source))) IN
     /\ cached_sources' = IF counted THEN found.table ELSE cached_sources
     /\ \/ /\ schedule' = schedule \o
               [k \in DOMAIN indices |->
                  [section |-> scheduled + 1, index |-> indices[k],
                   disc |-> DiscFrame(section, k)]]
           /\ entries' = IF counted
                THEN Alive(ResolvedIn(found, section.source), cached_sources', handle)
                ELSE entries
           /\ scheduled' = scheduled + 1
           /\ stage' = IF scheduled' = Len(Project) THEN "running" ELSE stage
        \/ /\ counted /\ Faults
           /\ ~Satisfies(found.entries[found.entry], section.source, 0, TRUE)
           /\ stage' = "destroyed"
           /\ entries' = Alive(found.entries, cached_sources', handle)
           /\ UNCHANGED <<schedule, scheduled>>
  /\ UNCHANGED <<at, request, handle, answer, queue_vars, client, claimed,
                 frame, cache_vars, clean>>

-------------------------------------------------------------------------------
(* GenerateFrameBatch for one frame.                                       *)

(* The frames the client may have the thread synthesise next.              *)
MayClaim(t) ==
  IF client = "pool" THEN {claimed + 1} \cap DOMAIN schedule
  ELSE {f \in DOMAIN schedule : claimed < MaxRequests /\ Busy = {}
                                 /\ t = CHOOSE u \in Thread : TRUE}

Claim(t) ==
  /\ stage = "running" /\ at[t] = "idle"
  /\ \E f \in MayClaim(t) :
       /\ frame' = [frame EXCEPT ![t] = f]
       /\ request' = [request EXCEPT ![t] = [section |-> Section(f),
                                             index |-> schedule[f].index]]
  /\ claimed' = claimed + 1 /\ at' = [at EXCEPT ![t] = "prefetch"]
  /\ UNCHANGED <<cached_sources, entries, handle, answer, queue_vars, client,
                 stage, scheduled, schedule, cache_vars, clean>>

(* The first frame of a section asks for the next section's source.        *)
PrefetchNext(t) ==
  /\ at[t] = "prefetch"
  /\ LET f     == frame[t]
         first == f = 1 \/ schedule[f - 1].section # schedule[f].section
         next  == schedule[f].section + 1
         ahead == first /\ next \in Sections
                        /\ Project[next].source # Section(f).source
         queue == IF ahead THEN Prefetched(Project[next], Project[next].start)
                           ELSE prefetch_queue IN
     /\ prefetch_queue' = queue
     /\ prefetch_waiting' = (prefetch_waiting /\ queue = prefetch_queue)
     /\ at' = [at EXCEPT ![t] = "acquire",
                         ![Prefetcher] = IF @ = "absent" /\ queue # <<>>
                                           THEN "loop" ELSE @]
  /\ UNCHANGED <<cached_sources, entries, request, handle, answer,
                 prefetch_stopping, stage_vars>>

(* SlotKey: a still is the same image at every index.                      *)
Key(t) ==
  [source |-> Section(frame[t]).source,
   index  |-> IF Section(frame[t]).source \in Still THEN 0
              ELSE schedule[frame[t]].index,
   phase  |-> Phase(frame[t])]

(* SynthesiseTemplate. *)
Synthesised(t) == [image |-> answer[t].image, phase |-> Phase(frame[t])]

EmptySlot == [builder |-> None, ready |-> FALSE, template |-> NoFrame]

(* Admission: on a key's second request, if there is room.                 *)
Admitted(key) ==
  key \notin DOMAIN slots /\ key \in requested_once /\ reserved < Capacity

(***************************************************************************)
(* TemplateCache::Acquire up to its unlock. A thread without a slot makes  *)
(* the clean frame for itself.                                             *)
(***************************************************************************)
AcquireTemplate(t) ==
  /\ at[t] = "template"
  /\ LET key == Key(t) IN
     \/ /\ Capacity > 0 /\ key \in DOMAIN slots
        /\ at' = [at EXCEPT ![t] = "once"]
        /\ UNCHANGED <<cache_vars, clean>>
     \/ /\ Capacity > 0 /\ Admitted(key)
        /\ requested_once' = IF Cardinality(requested_once) > MaxGhostKeys
                               THEN {} ELSE requested_once \ {key}
        /\ slots' = [k \in DOMAIN slots \cup {key} |->
                       IF k = key THEN EmptySlot ELSE slots[k]]
        /\ reserved' = reserved + 1
        /\ at' = [at EXCEPT ![t] = "once"]
        /\ UNCHANGED clean
     \/ /\ Capacity = 0 \/ (key \notin DOMAIN slots /\ ~Admitted(key))
        /\ requested_once' = IF Capacity = 0 THEN requested_once
                             ELSE requested_once \cup {key}
        /\ clean' = [clean EXCEPT ![t] = Synthesised(t)]
        /\ at' = [at EXCEPT ![t] = "deliver"]
        /\ UNCHANGED <<slots, reserved>>
  /\ UNCHANGED <<cached_sources, entries, request, handle, answer, queue_vars,
                 client, stage, scheduled, schedule, claimed, frame>>

(* Mutant: a thread does not wait for a template that is being made. *)
CallOnceUnsynchronised(t) ==
  /\ at[t] = "once"
  /\ at' = [at EXCEPT ![t] = IF slots[Key(t)].builder # None THEN "deliver"
                             ELSE "build"]
  /\ slots' = [slots EXCEPT ![Key(t)].builder = t]
  /\ clean' = [clean EXCEPT ![t] = slots[Key(t)].template]
  /\ UNCHANGED <<cached_sources, entries, request, handle, answer, queue_vars,
                 client, stage, scheduled, schedule, claimed, frame,
                 requested_once, reserved>>

(* call_once: the first thread makes the template, others wait for it.     *)
CallOnce(t) ==
  /\ at[t] = "once"
  /\ LET slot == slots[Key(t)] IN
     \/ /\ slot.ready
        /\ clean' = [clean EXCEPT ![t] = slot.template]
        /\ at' = [at EXCEPT ![t] = "deliver"]
        /\ UNCHANGED slots
     \/ /\ slot.builder = None
        /\ slots' = [slots EXCEPT ![Key(t)].builder = t]
        /\ at' = [at EXCEPT ![t] = "build"]
        /\ UNCHANGED clean
  /\ UNCHANGED <<cached_sources, entries, request, handle, answer, queue_vars,
                 client, stage, scheduled, schedule, claimed, frame,
                 requested_once, reserved>>

BuildTemplate(t) ==
  /\ at[t] = "build"
  /\ slots' = [slots EXCEPT ![Key(t)] = [builder |-> t, ready |-> TRUE,
                                         template |-> Synthesised(t)]]
  /\ clean' = [clean EXCEPT ![t] = Synthesised(t)]
  /\ at' = [at EXCEPT ![t] = "deliver"]
  /\ UNCHANGED <<cached_sources, entries, request, handle, answer, queue_vars,
                 client, stage, scheduled, schedule, claimed, frame,
                 requested_once, reserved>>

(* The frame, or its failure, goes to the client.                          *)
Deliver(t) ==
  /\ at[t] \in {"deliver", "failed"}
  /\ at' = [at EXCEPT ![t] = "idle"]
  /\ request' = [request EXCEPT ![t] = NoRequest]
  /\ answer' = [answer EXCEPT ![t] = Answered(NoImage)]
  /\ clean' = [clean EXCEPT ![t] = NoFrame]
  /\ stage' = IF at[t] = "failed" /\ client = "pool" THEN "destroyed" ELSE stage
  /\ UNCHANGED <<cached_sources, entries, handle, queue_vars, client,
                 scheduled, schedule, claimed, frame, cache_vars>>

ThreadStep(t) ==
  \/ PrefetchNext(t)
  \/ (SourceStep(t) /\ UNCHANGED stage_vars)
  \/ AcquireTemplate(t) \/ CallOnce(t) \/ BuildTemplate(t) \/ Deliver(t)

-------------------------------------------------------------------------------
(* The client is done with the stage, or cancels, or has another project.  *)
Leave ==
  /\ stage = "running"
  /\ stage' = "destroyed"
  /\ UNCHANGED <<source_vars, client, scheduled, schedule, claimed, frame,
                 cache_vars, clean>>

(* Mutant: the prefetch thread is not woken to stop. *)
StopUnnotified ==
  /\ stage = "destroyed" /\ Busy = {}
  /\ prefetch_stopping' = TRUE /\ prefetch_queue' = <<>>
  /\ stage' = "join"
  /\ UNCHANGED <<cached_sources, entries, at, request, handle, answer, client,
                 prefetch_waiting, scheduled, schedule, claimed, frame,
                 cache_vars, clean>>
(* ~ProgressiveFrameSource, once no thread uses the stage.                 *)
StopPrefetch ==
  /\ stage = "destroyed" /\ Busy = {}
  /\ prefetch_stopping' = TRUE /\ prefetch_queue' = <<>>
  /\ prefetch_waiting' = FALSE
  /\ stage' = "join"
  /\ UNCHANGED <<cached_sources, entries, at, request, handle, answer, client,
                 scheduled, schedule, claimed, frame, cache_vars, clean>>

JoinPrefetch ==
  /\ stage = "join" /\ at[Prefetcher] \in {"absent", "exited"}
  /\ stage' = "gone"
  /\ UNCHANGED <<source_vars, client, scheduled, schedule, claimed, frame,
                 cache_vars, clean>>

Gone == stage = "gone" /\ UNCHANGED vars

Destroy == StopPrefetch \/ JoinPrefetch

Next ==
  \/ ScheduleSection
  \/ \E t \in Thread : Claim(t) \/ ThreadStep(t)
  \/ (PrefetchStep /\ UNCHANGED stage_vars)
  \/ Leave \/ Destroy \/ Gone

(* Threads that are not blocked run; nothing forces a client to go on.     *)
Fairness ==
  /\ \A t \in Thread : WF_vars(ThreadStep(t))
  /\ WF_vars(PrefetchStep /\ UNCHANGED stage_vars)
  /\ WF_vars(Destroy)

Spec == Init /\ [][Next]_vars /\ Fairness
===============================================================================
