------------------------ MODULE ProgressiveFrameSource ------------------------
(***************************************************************************)
(* progressive_frame_source.cpp: decoded source frames, handed to the      *)
(* synthesis workers from a small cache of sources and decoded ahead of    *)
(* time by a prefetch thread. A cache entry is created under the table's   *)
(* lock and filled under a lock of its own, and whoever uses one keeps it  *)
(* alive after its eviction. What a file holds is external: a still has    *)
(* one image, a clip as many as its length. A stage has one standard, so a *)
(* source alone is the key of an entry.                                    *)
(***************************************************************************)
EXTENDS Integers, Sequences, SequencesExt

CONSTANTS
  Still, Clip,       \* the EXR and the MKV files
  Length,            \* the number of frames of each clip
  Thread,            \* the threads that ask for frames
  Prefetcher,        \* the prefetch thread
  Entry,             \* the memory for cache entries
  MaxCachedSources,  \* kMaxCachedSources
  Faults,            \* whether a decode may fail
  None

ASSUME SourceAssumption == Still \cap Clip = {} /\ None \notin Still \cup Clip
ASSUME LengthAssumption == Length \in [Clip -> Nat \ {0}]
ASSUME CallerAssumption == Prefetcher \notin Thread /\ None \notin Thread \cup {Prefetcher}
ASSUME DepthAssumption  == MaxCachedSources \in Nat \ {0}
ASSUME EntryAssumption  == \* memory does not run out
  /\ None \notin Entry /\ IsFiniteSet(Thread) /\ IsFiniteSet(Entry)
  /\ Cardinality(Entry) >= MaxCachedSources + Cardinality(Thread \cup {Prefetcher})
ASSUME FaultsAssumption == Faults \in BOOLEAN

Source == Still \cup Clip
Caller == Thread \cup {Prefetcher}

Image(source, index) == [of |-> source, index |-> index]
NoImage == Image(None, 0)
File(source) ==
  IF source \in Still THEN <<Image(source, 0)>>
  ELSE [k \in 1 .. Length[source] |-> Image(source, k - 1)]

VARIABLES
  cached_sources,     \* the table: entries, most recently used first
  entries,            \* every DecodedSource in memory
  at,                 \* per caller: location
  request,            \* per caller: the section and frame index it asks for
  handle,             \* per caller: the entry it holds a reference to
  answer,             \* per caller: the image it was given, or the error
  prefetch_queue,     \* sections and frame indices, oldest first
  prefetch_waiting,   \* whether the prefetch thread is blocked
  prefetch_stopping   \* prefetch_stopping_

queue_vars  == <<prefetch_queue, prefetch_waiting, prefetch_stopping>>
source_vars == <<cached_sources, entries, at, request, handle, answer, queue_vars>>

NewEntry(source) ==
  [source |-> source, frames |-> <<>>, is_complete |-> FALSE, owner |-> None]
Freed == NewEntry(None)

Answered(image) == [image |-> image, error |-> ""]
Failed(error)   == [image |-> NoImage, error |-> error]
NoRequest       == [section |-> None, index |-> 0]

SourceInit ==
  /\ cached_sources = <<>> /\ entries = [e \in Entry |-> Freed]
  /\ at = [c \in Caller |-> IF c = Prefetcher THEN "absent" ELSE "idle"]
  /\ request = [c \in Caller |-> NoRequest]
  /\ handle = [c \in Caller |-> None]
  /\ answer = [c \in Caller |-> Answered(NoImage)]
  /\ prefetch_queue = <<>>
  /\ prefetch_waiting = FALSE /\ prefetch_stopping = FALSE

-------------------------------------------------------------------------------
(* An entry that neither the table nor a caller refers to is destroyed.    *)
Referenced(table, handles) == ToSet(table) \cup {handles[c] : c \in Caller}
Alive(memory, table, handles) ==
  [e \in Entry |-> IF e \in Referenced(table, handles) THEN memory[e] ELSE Freed]

Evicted ==
  SubSeq(cached_sources, 1,
         IF Len(cached_sources) < MaxCachedSources THEN Len(cached_sources)
                                                   ELSE MaxCachedSources - 1)

(* AcquireCacheEntry: the source's entry, or a new one, becomes the first. *)
CacheEntry(source) ==
  LET hits == {k \in DOMAIN cached_sources :
                 entries[cached_sources[k]].source = source}
      hit  == CHOOSE k \in hits : TRUE
      new  == CHOOSE e \in Entry \ Referenced(cached_sources, handle) : TRUE
  IN IF hits # {}
       THEN [entry |-> cached_sources[hit], entries |-> entries,
             table |-> <<cached_sources[hit]>> \o RemoveAt(cached_sources, hit)]
       ELSE [entry |-> new, entries |-> [entries EXCEPT ![new] = NewEntry(source)],
             table |-> <<new>> \o Evicted]

(* Mutant: a section's frames are counted from the start of the clip. *)
RequiredFromStart(section, index) ==
  IF ~section.all /\ section.duration > 0 THEN section.duration ELSE index + 1
(* required_frames: how much of the clip the section will ask for. *)
RequiredFrames(section, index) ==
  IF ~section.all /\ section.duration > 0 THEN section.start + section.duration
  ELSE index + 1

(* EnsureMkvDecoded's test, and for a still whether it has been loaded.    *)
Satisfies(entry, source, required, complete) ==
  /\ entry.frames # <<>>
  /\ \/ source \in Still
     \/ entry.is_complete
     \/ ~complete /\ Len(entry.frames) >= required

(* LoadExrFrame, or DecodeMkvFrames of the whole clip or of a prefix.      *)
Decoded(entry, source, required, complete) ==
  [entry EXCEPT
     !.frames = SubSeq(File(source), 1,
                       IF complete \/ required > Len(File(source))
                         THEN Len(File(source)) ELSE required),
     !.is_complete = source \in Still \/ complete,
     !.owner = None]

Delivered(frames, source, index) ==
  IF source \in Still THEN Answered(frames[1])
  ELSE IF index < Len(frames) THEN Answered(frames[index + 1])
  ELSE Failed("past end")

-------------------------------------------------------------------------------
(* GenerateFrame, from the call of AcquireCacheEntry on.                   *)

AcquireCacheEntry(c) ==
  /\ at[c] = "acquire" /\ at' = [at EXCEPT ![c] = "enter"]
  /\ LET found == CacheEntry(request[c].section.source) IN
     /\ handle' = [handle EXCEPT ![c] = found.entry]
     /\ cached_sources' = found.table
     /\ entries' = Alive(found.entries, cached_sources', handle')
  /\ UNCHANGED <<request, answer, queue_vars>>

(* The caller returns; only a worker looks at what it was given.           *)
Return(c, memory, result) ==
  /\ at' = [at EXCEPT ![c] = IF c = Prefetcher THEN "loop"
                             ELSE IF result.error = "" THEN "template"
                             ELSE "failed"]
  /\ answer' = [answer EXCEPT ![c] = IF c = Prefetcher THEN @ ELSE result]
  /\ request' = [request EXCEPT ![c] = IF c = Prefetcher THEN NoRequest ELSE @]
  /\ handle' = [handle EXCEPT ![c] = None]
  /\ entries' = Alive(memory, cached_sources, handle')

(* Mutant: an entry is read while another thread decodes into it. *)
EnterUnlocked(c) ==
  /\ at[c] = "enter"
  /\ LET e == handle[c] section == request[c].section index == request[c].index
         needs == RequiredFrames(section, index) IN
     \/ /\ Satisfies(entries[e], section.source, needs, section.all)
        /\ Return(c, entries,
                  Delivered(entries[e].frames, section.source, index))
     \/ /\ ~Satisfies(entries[e], section.source, needs, section.all)
        /\ entries' = [entries EXCEPT ![e].owner = c]
        /\ at' = [at EXCEPT ![c] = "decode"]
        /\ UNCHANGED <<request, handle, answer>>
  /\ UNCHANGED <<cached_sources, queue_vars>>

(* Takes the entry's lock, and keeps it if there is something to decode.   *)
Enter(c) ==
  /\ at[c] = "enter" /\ entries[handle[c]].owner = None
  /\ LET e == handle[c] section == request[c].section index == request[c].index
         needs == RequiredFrames(section, index) IN
     \/ /\ Satisfies(entries[e], section.source, needs, section.all)
        /\ Return(c, entries,
                  Delivered(entries[e].frames, section.source, index))
     \/ /\ ~Satisfies(entries[e], section.source, needs, section.all)
        /\ entries' = [entries EXCEPT ![e].owner = c]
        /\ at' = [at EXCEPT ![c] = "decode"]
        /\ UNCHANGED <<request, handle, answer>>
  /\ UNCHANGED <<cached_sources, queue_vars>>

(* A decode that fails leaves the entry as it was.                         *)
Decode(c) ==
  /\ at[c] = "decode"
  /\ LET e == handle[c] section == request[c].section index == request[c].index
         memory == [entries EXCEPT ![e] =
                      Decoded(@, section.source,
                              RequiredFrames(section, index), section.all)] IN
     \/ Return(c, memory, Delivered(memory[e].frames, section.source, index))
     \/ /\ Faults
        /\ Return(c, [entries EXCEPT ![e].owner = None], Failed("decode"))
  /\ UNCHANGED <<cached_sources, queue_vars>>

SourceStep(c) == AcquireCacheEntry(c) \/ Enter(c) \/ Decode(c)

-------------------------------------------------------------------------------
(* The prefetch thread.                                                    *)

(* PrefetchSection, as a relation between two states of the queue: dropped *)
(* when the source is queued already; the first request starts the thread. *)
Prefetched(section, index) ==
  IF prefetch_stopping \/ \E k \in DOMAIN prefetch_queue :
                             prefetch_queue[k].section.source = section.source
    THEN prefetch_queue
    ELSE Append(prefetch_queue, [section |-> section, index |-> index])

(* The head of PrefetchLoop: it leaves, blocks or takes the next request.  *)
PrefetchLoop ==
  /\ at[Prefetcher] = "loop" /\ ~prefetch_waiting
  /\ \/ /\ prefetch_stopping
        /\ at' = [at EXCEPT ![Prefetcher] = "exited"]
        /\ UNCHANGED <<request, queue_vars>>
     \/ /\ prefetch_queue = <<>> /\ ~prefetch_stopping
        /\ prefetch_waiting' = TRUE
        /\ UNCHANGED <<at, request, prefetch_queue, prefetch_stopping>>
     \/ /\ prefetch_queue # <<>> /\ ~prefetch_stopping
        /\ request' = [request EXCEPT ![Prefetcher] = Head(prefetch_queue)]
        /\ prefetch_queue' = Tail(prefetch_queue)
        /\ at' = [at EXCEPT ![Prefetcher] = "acquire"]
        /\ UNCHANGED <<prefetch_waiting, prefetch_stopping>>
  /\ UNCHANGED <<cached_sources, entries, handle, answer>>

PrefetchStep == PrefetchLoop \/ SourceStep(Prefetcher)
===============================================================================
