------------------------- MODULE GenerationStageProps -------------------------
(***************************************************************************)
(* What the generation stage promises the threads that synthesise frames.  *)
(***************************************************************************)
EXTENDS GenerationStage

Images    == [of : Source \cup {None}, index : Nat]
Cleans    == [image : Images, phase : Nat]
Keys      == [source : Source, index : Nat, phase : Nat]
Slots     == [builder : Thread \cup {None}, ready : BOOLEAN, template : Cleans]
Items     == [section : Sections, index : Nat, disc : Nat]
Requests  == [section : ToSet(Project), index : Nat]
EntryType == [source : Source \cup {None}, frames : Seq(Images),
              is_complete : BOOLEAN, owner : Caller \cup {None}]
Answers   == [image : Images, error : {"", "decode", "past end"}]
InSource  == {"acquire", "enter", "decode"}
OfThread  == InSource \cup {"idle", "prefetch", "template", "once", "build",
                           "deliver", "failed"}
OfPrefetcher == InSource \cup {"absent", "loop", "exited"}

SourceTypeOK ==
  /\ cached_sources \in Seq(Entry) /\ entries \in [Entry -> EntryType]
  /\ at \in [Caller -> OfThread \cup OfPrefetcher]
  /\ at[Prefetcher] \in OfPrefetcher /\ \A t \in Thread : at[t] \in OfThread
  /\ request \in [Caller -> Requests \cup {NoRequest}]
  /\ handle \in [Caller -> Entry \cup {None}]
  /\ answer \in [Caller -> Answers]
  /\ prefetch_queue \in Seq(Requests)
  /\ prefetch_waiting \in BOOLEAN /\ prefetch_stopping \in BOOLEAN

StageTypeOK ==
  /\ client \in {"pool", "preview"}
  /\ stage \in {"scheduling", "running", "destroyed", "join", "gone"}
  /\ scheduled \in 0 .. Len(Project) /\ schedule \in Seq(Items)
  /\ claimed \in Nat /\ frame \in [Thread -> Nat]
  /\ DOMAIN slots \subseteq Keys /\ slots \in [DOMAIN slots -> Slots]
  /\ requested_once \subseteq Keys /\ reserved \in Nat
  /\ clean \in [Thread -> Cleans]

(* Every variable holds a value of the C++ type it stands for.             *)
TypeOK == SourceTypeOK /\ StageTypeOK

-------------------------------------------------------------------------------
(* The picture a frame of the schedule must show, at its colour phase.     *)
Wanted(f) ==
  [image |-> Image(Section(f).source,
                   IF Section(f).source \in Still THEN 0 ELSE schedule[f].index),
   phase |-> Phase(f)]

(***************************************************************************)
(* GenerateFrameBatch delivers the frame's own picture at its own colour   *)
(* phase, whichever entries were evicted, decoded in part or ahead of time *)
(* meanwhile, and whoever made the template.                               *)
(***************************************************************************)
DeliveredIsClean ==
  \A t \in Thread : at[t] = "deliver" => clean[t] = Wanted(frame[t])

(* Templates in the cache are paid for and fit the capacity, and a key is  *)
(* not both admitted and waiting for admission (TemplateCache::Acquire).   *)
TemplateBudget ==
  /\ reserved = Cardinality(DOMAIN slots) /\ reserved <= Capacity
  /\ DOMAIN slots \cap requested_once = {}

(***************************************************************************)
(* Decoded sources in memory: those of the table, which kMaxCachedSources  *)
(* bounds, and one for each caller inside GenerateFrame, whose entry may   *)
(* have been evicted (AcquireCacheEntry).                                  *)
(***************************************************************************)
CacheBounded ==
  Cardinality({e \in Entry : entries[e].source # None})
    <= MaxCachedSources + Cardinality({c \in Caller : at[c] \in {"enter", "decode"}})

(* An entry that stays in use has no fewer frames than before.             *)
Grows(old, new) ==
  (old.source # None /\ new.source # None) =>
    /\ Len(new.frames) >= Len(old.frames)
    /\ old.is_complete => new.is_complete
CacheGrows == \A e \in Entry : Grows(entries[e], entries'[e])

(***************************************************************************)
(* EnsureMkvDecoded replaces what an entry holds only by more: threads of  *)
(* sections that need less of a clip cannot take frames away from others.  *)
(***************************************************************************)
CacheNeverShrinks == [][CacheGrows]_vars

(* Every frame the section asks for is in its source.                      *)
Fits(section) ==
  section.source \in Clip =>
    IF section.all THEN section.start = 0
    ELSE section.start + section.duration <= Length[section.source]

(***************************************************************************)
(* Where all sections fit, a frame fails only because its file could not   *)
(* be decoded, never because too little of it was (GenerateFrame).         *)
(***************************************************************************)
FailsOnlyOnDecodeError ==
  (\A s \in Sections : Fits(Project[s])) =>
    \A t \in Thread : answer[t].error # "past end"

(* The frame source keeps no more than it may, and enough of it.           *)
SourceServes == CacheBounded /\ FailsOnlyOnDecodeError

-------------------------------------------------------------------------------
(* The inductive invariant behind them.                                    *)

(* A thread works on a frame of the schedule, which no longer grows.       *)
OnSchedule ==
  /\ stage = "scheduling" =>
       /\ scheduled < Len(Project)
       /\ at[Prefetcher] = "absent" /\ \A t \in Thread : at[t] = "idle"
  /\ \A t \in Thread : at[t] # "idle" =>
       /\ frame[t] \in DOMAIN schedule
       /\ request[t] = [section |-> Section(frame[t]),
                        index |-> schedule[frame[t]].index]
  /\ at[Prefetcher] \in InSource => request[Prefetcher] \in Requests

(* An entry holds frames of its own source, in place.                      *)
EntriesSound ==
  \A e \in Entry : \A k \in DOMAIN entries[e].frames :
    entries[e].source # None /\ entries[e].frames[k] = Image(entries[e].source, k - 1)

(* A caller inside GenerateFrame, and no other, holds the entry of the     *)
(* source it asks for.                                                     *)
HandlesSound ==
  \A c \in Caller :
    IF at[c] \in {"enter", "decode"}
      THEN /\ handle[c] \in Entry
           /\ entries[handle[c]].source = request[c].section.source
      ELSE handle[c] = None

(* Every entry in memory is in the table or with a caller.                 *)
NothingLeaks ==
  /\ Len(cached_sources) <= MaxCachedSources
  /\ \A e \in Entry : entries[e].source # None =>
       e \in Referenced(cached_sources, handle)

AnswersSound ==
  \A t \in Thread : at[t] \in {"template", "once", "build"} =>
    answer[t].image = Wanted(frame[t]).image

(* A finished template is its key's.                                       *)
SlotsSound ==
  /\ \A key \in DOMAIN slots : slots[key].ready =>
       slots[key].template = [image |-> Image(key.source, key.index),
                              phase |-> key.phase]
  /\ \A t \in Thread : at[t] \in {"once", "build"} => Key(t) \in DOMAIN slots

StageInvariant ==
  /\ TypeOK /\ OnSchedule /\ EntriesSound /\ HandlesSound /\ NothingLeaks
  /\ AnswersSound /\ SlotsSound /\ DeliveredIsClean
  /\ IsFiniteSet(DOMAIN slots) /\ TemplateBudget

(* What an entry holds is no more than its file, and all of it if complete. *)
FitsFile(entry) ==
  entry.source # None =>
    /\ Len(entry.frames) <= Len(File(entry.source))
    /\ entry.is_complete => Len(entry.frames) = Len(File(entry.source))
EntriesFit == \A e \in Entry : FitsFile(entries[e])

(* A caller that decodes has the lock of an entry that lacks what it needs. *)
DecodesWhatLacks ==
  \A c \in Caller : at[c] = "decode" =>
    /\ entries[handle[c]].owner = c
    /\ ~Satisfies(entries[handle[c]], request[c].section.source,
                  RequiredFrames(request[c].section, request[c].index),
                  request[c].section.all)

(* The schedule asks a clip for frames of the section's part only.         *)
ScheduleFits ==
  \A f \in DOMAIN schedule : Section(f).source \in Clip =>
    schedule[f].index < Section(f).start
      + (IF Section(f).all THEN Length[Section(f).source] ELSE Section(f).duration)

SourceInvariant == EntriesFit /\ DecodesWhatLacks /\ ScheduleFits /\ FailsOnlyOnDecodeError

(***************************************************************************)
(* Everything that a stage was asked for comes to an end: with requests    *)
(* that are finitely many, a thread that asked for a frame gets it or an   *)
(* error whatever the others decode, wait for or fail at, a queued         *)
(* prefetch is taken up (PrefetchLoop misses no notification), and the     *)
(* destructor's join of the prefetch thread returns.                       *)
(***************************************************************************)
StageSettles ==
  <>[](Busy = {} /\ prefetch_queue = <<>> /\ stage \notin {"destroyed", "join"})
===============================================================================
