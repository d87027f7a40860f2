------------------------ MODULE GenerationStageProofs ------------------------
(***************************************************************************)
(* Theorems about GenerationStage, for every project, every set of files   *)
(* and threads and every size of the two caches. StageInvariant is         *)
(* inductive; what a thread delivers and what the caches hold follow.      *)
(***************************************************************************)
EXTENDS GenerationStageProps, FiniteSetTheorems, WellFoundedInduction, TLAPS

(* Intervals and sequences.                                                *)
LEMMA IntervalSize ==
  ASSUME NEW n \in Nat
  PROVE  IsFiniteSet(1 .. n) /\ Cardinality(1 .. n) = n
BY FS_Interval

LEMMA RemoveAtSeq ==
  ASSUME NEW S, NEW s \in Seq(S), NEW i \in 1 .. Len(s)
  PROVE  RemoveAt(s, i) \in Seq(S) /\ Len(RemoveAt(s, i)) = Len(s) - 1
<1> DEFINE a == SubSeq(s, 1, i - 1)
           b == SubSeq(s, i + 1, Len(s))
<1>1. a \in Seq(S) /\ Len(a) = i - 1
  OBVIOUS
<1>2. b \in Seq(S) /\ Len(b) = Len(s) - i
  OBVIOUS
<1>3. RemoveAt(s, i) = a \o b
  BY DEF RemoveAt
<1> HIDE DEF a, b
<1>4. a \o b \in Seq(S) /\ Len(a \o b) = Len(a) + Len(b)
  BY <1>1, <1>2
<1> QED BY <1>1, <1>2, <1>3, <1>4

LEMMA FieldsOfRequest ==
  ASSUME NEW s, NEW i, NEW r, r = [section |-> s, index |-> i]
  PROVE  r.section = s /\ r.index = i
OBVIOUS

LEMMA SmallestOf ==
  ASSUME NEW S \in SUBSET Nat, S # {}
  PROVE  \E s \in S : \A r \in S : s <= r
<1>1. \E s \in S : \A r \in S : <<r, s>> \notin OpToRel(<, Nat)
  BY NatLessThanWellFounded, WFMin
<1>2. \A s, r \in Nat : <<r, s>> \notin OpToRel(<, Nat) => s <= r
  BY DEF OpToRel
<1> QED BY <1>1, <1>2

LEMMA SameLength ==
  ASSUME NEW S, NEW T, NEW s \in Seq(T), NEW f, f = [k \in DOMAIN s |-> f[k]],
         \A k \in DOMAIN s : f[k] \in S
  PROVE  f \in Seq(S)
OBVIOUS

LEMMA Joined ==
  ASSUME NEW S, NEW a \in Seq(S), NEW b \in Seq(S)
  PROVE  a \o b \in Seq(S)
OBVIOUS

USE SourceAssumption, LengthAssumption, CallerAssumption, DepthAssumption,
    FaultsAssumption, NumberAssumption

(* What a file holds, and any beginning of it.                             *)
LEMMA FileFrames ==
  ASSUME NEW source \in Source
  PROVE  /\ File(source) \in Seq(Images) /\ Len(File(source)) >= 1
         /\ \A k \in 1 .. Len(File(source)) : File(source)[k] = Image(source, k - 1)
         /\ source \in Still => Len(File(source)) = 1
<1>1. CASE source \in Still
  BY <1>1 DEF File, Image, Images
<1>2. CASE source \notin Still
  <2>1. Length[source] \in Nat \ {0} /\ File(source) = [k \in 1 .. Length[source] |-> Image(source, k - 1)]
    BY <1>2 DEF File, Source
  <2>2. \A k \in 1 .. Length[source] : Image(source, k - 1) \in Images
    BY DEF Image, Images
  <2>3. File(source) \in Seq(Images) /\ Len(File(source)) = Length[source]
    BY <2>1, <2>2
  <2> QED BY <1>2, <2>1, <2>3
<1> QED BY <1>1, <1>2

LEMMA SectionOf ==
  ASSUME NEW s \in Sections
  PROVE  Project[s] \in SectionType /\ Project[s].source \in Source
<1>1. Project[s] \in SectionType
  BY ProjectAssumption DEF Sections
<1> QED BY <1>1 DEF SectionType

(* What the project may ask for.                                           *)
LEMMA RequestFacts ==
  ASSUME NEW r \in Requests
  PROVE  /\ r.section \in SectionType /\ r.section.source \in Source
         /\ r.section.all \/ r.section.duration > 0
         /\ r.index \in Nat
         /\ RequiredFrames(r.section, r.index) \in Nat \ {0}
<1>1. PICK s \in DOMAIN Project : r.section = Project[s]
  BY DEF Requests, ToSet
<1>2. r.section \in SectionType /\ (r.section.all \/ r.section.duration > 0)
  BY <1>1, ProjectAssumption
<1> QED BY <1>2 DEF Requests, SectionType, RequiredFrames

(* A decoded entry is an entry of the same source, holds frames of it in   *)
(* place and is not empty.                                                 *)
LEMMA DecodedSound ==
  ASSUME NEW entry \in EntryType, NEW source \in Source, entry.source = source,
         NEW required \in Nat, NEW complete \in BOOLEAN,
         complete \/ required > 0
  PROVE  LET d == Decoded(entry, source, required, complete) IN
         /\ d \in EntryType /\ d.source = source /\ d.frames # <<>>
         /\ \A k \in DOMAIN d.frames : d.frames[k] = Image(source, k - 1)
<1> DEFINE n == IF complete \/ required > Len(File(source))
                  THEN Len(File(source)) ELSE required
           f == SubSeq(File(source), 1, n)
<1>1. /\ File(source) \in Seq(Images) /\ Len(File(source)) >= 1
      /\ \A k \in 1 .. Len(File(source)) : File(source)[k] = Image(source, k - 1)
  BY FileFrames
<1>2. n \in 1 .. Len(File(source))
  BY <1>1
<1> HIDE DEF n
<1>3. f \in Seq(Images) /\ Len(f) = n /\ \A k \in 1 .. n : f[k] = File(source)[k]
  BY <1>1, <1>2
<1>4. f # <<>> /\ \A k \in DOMAIN f : f[k] = Image(source, k - 1)
  BY <1>1, <1>2, <1>3
<1>5. Decoded(entry, source, required, complete)
        = [entry EXCEPT !.frames = f,
             !.is_complete = source \in Still \/ complete, !.owner = None]
  BY DEF Decoded, n
<1> HIDE DEF f
<1> QED BY <1>3, <1>4, <1>5 DEF EntryType

(* What GenerateFrame returns of an entry that holds frames in place.      *)
LEMMA DeliveredSound ==
  ASSUME NEW frames \in Seq(Images), frames # <<>>, NEW source \in Source,
         NEW index \in Nat,
         \A k \in DOMAIN frames : frames[k] = Image(source, k - 1)
  PROVE  LET a == Delivered(frames, source, index) IN
         /\ a \in Answers
         /\ a.error = "" => a.image = Image(source, IF source \in Still THEN 0
                                                    ELSE index)
<1>1. 1 \in DOMAIN frames /\ frames[1] = Image(source, 0) /\ frames[1] \in Images
  OBVIOUS
<1>2. index < Len(frames) =>
        frames[index + 1] = Image(source, index) /\ frames[index + 1] \in Images
  <2> SUFFICES ASSUME index < Len(frames)
               PROVE frames[index + 1] = Image(source, index) /\ frames[index + 1] \in Images
    OBVIOUS
  <2>1. index + 1 \in DOMAIN frames /\ index + 1 - 1 = index
    OBVIOUS
  <2> QED BY <2>1
<1>3. NoImage \in Images
  BY DEF NoImage, Image, Images
<1> QED BY <1>1, <1>2, <1>3 DEF Delivered, Answered, Failed, Answers

LEMMA TableFacts ==
  ASSUME TypeOK, NothingLeaks
  PROVE  /\ cached_sources \in Seq(Entry) /\ entries \in [Entry -> EntryType]
         /\ Len(cached_sources) <= MaxCachedSources /\ Len(cached_sources) \in Nat
         /\ DOMAIN cached_sources = 1 .. Len(cached_sources)
<1>1. cached_sources \in Seq(Entry) /\ entries \in [Entry -> EntryType]
  BY DEF TypeOK, SourceTypeOK
<1>2. Len(cached_sources) <= MaxCachedSources
  BY DEF NothingLeaks
<1> QED BY <1>1, <1>2

(* The memory for a new entry.                                             *)
LEMMA FinitelyManyCallers ==
  IsFiniteSet(Caller) /\ Cardinality(Caller) \in Nat
BY EntryAssumption, FS_AddElement, FS_CardinalityType, FS_Singleton, FS_Union DEF Caller

LEMMA TableIsFinite ==
  ASSUME NEW table \in Seq(Entry)
  PROVE  IsFiniteSet(ToSet(table)) /\ Cardinality(ToSet(table)) <= Len(table)
<1> DEFINE f == [k \in 1 .. Len(table) |-> table[k]]
<1>1. f \in Surjection(1 .. Len(table), ToSet(table))
  <2>1. DOMAIN table = 1 .. Len(table) /\ ToSet(table) = {table[k] : k \in 1 .. Len(table)}
    BY DEF ToSet
  <2> QED BY <2>1 DEF Surjection
<1>2. IsFiniteSet(1 .. Len(table)) /\ Cardinality(1 .. Len(table)) = Len(table)
  BY IntervalSize, Len(table) \in Nat
<1> QED BY <1>1, <1>2, FS_Surjection

(* Entries held by the callers of a set, as HandlesSound has them.         *)
LEMMA HandlesAreFinite ==
  ASSUME NEW callers \in SUBSET Caller
  PROVE  LET held == {handle[c] : c \in callers} IN
         /\ IsFiniteSet(held) /\ Cardinality(held) <= Cardinality(callers)
         /\ Cardinality(callers) \in Nat /\ Cardinality(held) \in Nat
<1> DEFINE held == {handle[c] : c \in callers}
           f == [c \in callers |-> handle[c]]
<1>1. f \in Surjection(callers, held)
  BY DEF Surjection
<1>2. IsFiniteSet(callers)
  BY FinitelyManyCallers, FS_Subset
<1> QED BY <1>1, <1>2, FS_Surjection, FS_CardinalityType

(* While a caller holds no entry there is memory for a new one.            *)
LEMMA MemoryForOne ==
  ASSUME TypeOK, HandlesSound, NothingLeaks, NEW c \in Caller, handle[c] = None
  PROVE  \E e \in Entry : e \notin Referenced(cached_sources, handle)
<1> DEFINE others == Caller \ {c}
           held   == {handle[d] : d \in others}
           used   == ToSet(cached_sources) \cup held
<1>1. IsFiniteSet(held) /\ Cardinality(held) <= Cardinality(others) /\ Cardinality(held) \in Nat
  BY HandlesAreFinite
<1>2. Cardinality(others) = Cardinality(Caller) - 1 /\ Cardinality(Caller) \in Nat
  BY FinitelyManyCallers, FS_RemoveElement
<1>3. /\ IsFiniteSet(ToSet(cached_sources))
      /\ Cardinality(ToSet(cached_sources)) <= MaxCachedSources
      /\ Cardinality(ToSet(cached_sources)) \in Nat
  <2>1. cached_sources \in Seq(Entry) /\ Len(cached_sources) <= MaxCachedSources
        /\ Len(cached_sources) \in Nat
    BY TableFacts
  <2> QED BY <2>1, TableIsFinite, FS_CardinalityType
<1>4. IsFiniteSet(used) /\ Cardinality(used) <= Cardinality(ToSet(cached_sources)) + Cardinality(held)
      /\ Cardinality(used) \in Nat
  <2>1. /\ IsFiniteSet(used)
        /\ Cardinality(used) = Cardinality(ToSet(cached_sources)) + Cardinality(held)
                               - Cardinality(ToSet(cached_sources) \cap held)
    BY <1>1, <1>3, FS_Union
  <2>2. Cardinality(ToSet(cached_sources) \cap held) \in Nat
    BY <1>1, <1>3, FS_Intersection, FS_CardinalityType
  <2>3. Cardinality(used) \in Nat
    BY <2>1, FS_CardinalityType
  <2> QED BY <2>1, <2>2, <2>3, <1>1, <1>3
<1>5. Cardinality(used) < Cardinality(Entry)
  <2>1. Cardinality(Entry) >= MaxCachedSources + Cardinality(Caller) /\ Cardinality(Entry) \in Nat
    BY EntryAssumption, FS_CardinalityType DEF Caller
  <2> QED BY <1>1, <1>2, <1>3, <1>4, <2>1
<1>6. ~(Entry \subseteq used)
  <2>1. Entry \subseteq used => Cardinality(Entry) <= Cardinality(used)
    BY <1>4, FS_Subset
  <2>2. Cardinality(Entry) \in Nat
    BY EntryAssumption, FS_CardinalityType
  <2> QED BY <1>4, <1>5, <2>1, <2>2
<1>7. Referenced(cached_sources, handle) \subseteq used \cup {None}
  BY DEF Referenced
<1> QED BY <1>6, <1>7, EntryAssumption

(* AcquireCacheEntry for a caller without an entry.                        *)
LEMMA CacheEntrySound ==
  ASSUME TypeOK, EntriesSound, HandlesSound, NothingLeaks,
         NEW c \in Caller, handle[c] = None, NEW source \in Source
  PROVE  LET found == CacheEntry(source) IN
         /\ found.entry \in Entry /\ found.entries \in [Entry -> EntryType]
         /\ found.entries[found.entry].source = source
         /\ found.table \in Seq(Entry) /\ Len(found.table) <= MaxCachedSources
         /\ found.entry \in ToSet(found.table)
         /\ \A d \in Caller : handle[d] \in Entry =>
              found.entries[handle[d]] = entries[handle[d]]
         /\ \A e \in Entry : \A k \in DOMAIN found.entries[e].frames :
              /\ found.entries[e].source # None
              /\ found.entries[e].frames[k] = Image(found.entries[e].source, k - 1)
<1> DEFINE hits == {k \in DOMAIN cached_sources :
                     entries[cached_sources[k]].source = source}
           hit  == CHOOSE k \in hits : TRUE
           new  == CHOOSE e \in Entry \ Referenced(cached_sources, handle) : TRUE
<1>1. /\ cached_sources \in Seq(Entry) /\ entries \in [Entry -> EntryType]
      /\ Len(cached_sources) <= MaxCachedSources /\ Len(cached_sources) \in Nat
      /\ DOMAIN cached_sources = 1 .. Len(cached_sources)
  BY TableFacts
<1>2. CASE hits # {}
  <2>1. hit \in 1 .. Len(cached_sources) /\ entries[cached_sources[hit]].source = source
    BY <1>1, <1>2
  <2>2. CacheEntry(source) =
          [entry |-> cached_sources[hit], entries |-> entries,
           table |-> <<cached_sources[hit]>> \o RemoveAt(cached_sources, hit)]
    BY <1>2 DEF CacheEntry
  <2> HIDE DEF hit
  <2> DEFINE rest == RemoveAt(cached_sources, hit)
             table == <<cached_sources[hit]>> \o rest
  <2>3. rest \in Seq(Entry) /\ Len(rest) = Len(cached_sources) - 1
    BY <1>1, <2>1, RemoveAtSeq
  <2>4. cached_sources[hit] \in Entry
    BY <1>1, <2>1
  <2> HIDE DEF rest
  <2>5. table \in Seq(Entry) /\ Len(table) = Len(cached_sources) /\ table[1] = cached_sources[hit]
    BY <2>3, <2>4, <1>1, <2>1
  <2>6. 1 \in DOMAIN table
    BY <2>1, <2>5, <1>1
  <2>7. cached_sources[hit] \in ToSet(table)
    BY <2>5, <2>6 DEF ToSet
  <2> QED BY <1>1, <2>1, <2>2, <2>4, <2>5, <2>7 DEF EntriesSound, rest
<1>3. CASE hits = {}
  <2>1. new \in Entry /\ new \notin Referenced(cached_sources, handle)
    BY MemoryForOne
  <2>2. CacheEntry(source) =
          [entry |-> new, entries |-> [entries EXCEPT ![new] = NewEntry(source)],
           table |-> <<new>> \o Evicted]
    BY <1>3 DEF CacheEntry
  <2> HIDE DEF new
  <2>3. Evicted \in Seq(Entry) /\ Len(Evicted) <= MaxCachedSources - 1 /\ Len(Evicted) \in Nat
    BY <1>1 DEF Evicted
  <2> DEFINE table == <<new>> \o Evicted
  <2>4. table \in Seq(Entry) /\ Len(table) <= MaxCachedSources /\ table[1] = new /\ 1 \in DOMAIN table
    BY <2>1, <2>3
  <2>5. new \in ToSet(table)
    BY <2>4 DEF ToSet
  <2>6. NewEntry(source) \in EntryType /\ NewEntry(source).frames = <<>>
        /\ NewEntry(source).source = source
    BY DEF NewEntry, EntryType
  <2>7. \A d \in Caller : handle[d] # new
    BY <2>1 DEF Referenced
  <2> QED BY <1>1, <2>1, <2>2, <2>4, <2>5, <2>6, <2>7 DEF EntriesSound
<1> QED BY <1>2, <1>3

-------------------------------------------------------------------------------
(* What every caller inside GenerateFrame asks for.                        *)
LEMMA AskedFor ==
  ASSUME StageInvariant, NEW c \in Caller, at[c] \in InSource
  PROVE  request[c] \in Requests
<1>1. CASE c = Prefetcher
  BY <1>1 DEF StageInvariant, OnSchedule
<1>2. CASE c \in Thread
  <2>1. /\ frame[c] \in DOMAIN schedule
        /\ request[c] = [section |-> Section(frame[c]),
                         index |-> schedule[frame[c]].index]
    BY <1>2 DEF StageInvariant, OnSchedule, InSource
  <2>2. schedule \in Seq(Items)
    BY DEF StageInvariant, TypeOK, StageTypeOK
  <2>3. schedule[frame[c]] \in Items
    BY <2>1, <2>2
  <2>4. schedule[frame[c]].section \in DOMAIN Project /\ schedule[frame[c]].index \in Nat
    BY <2>3 DEF Items, Sections
  <2> QED BY <2>1, <2>4 DEF Section, Requests, ToSet
<1> QED BY <1>1, <1>2 DEF Caller

(* What keeps of the memory when some references are dropped.              *)
LEMMA AliveSound ==
  ASSUME NEW memory \in [Entry -> EntryType], NEW table, NEW handles,
         \A e \in Entry : \A k \in DOMAIN memory[e].frames :
           /\ memory[e].source # None
           /\ memory[e].frames[k] = Image(memory[e].source, k - 1),
         NEW kept, kept = Alive(memory, table, handles)
  PROVE  /\ kept \in [Entry -> EntryType]
         /\ \A e \in Entry : e \in Referenced(table, handles) => kept[e] = memory[e]
         /\ \A e \in Entry : kept[e].source # None => e \in Referenced(table, handles)
         /\ \A e \in Entry : \A k \in DOMAIN kept[e].frames :
              /\ kept[e].source # None
              /\ kept[e].frames[k] = Image(kept[e].source, k - 1)
<1>1. Freed \in EntryType /\ Freed.source = None /\ DOMAIN Freed.frames = {}
  BY DEF Freed, NewEntry, EntryType
<1> QED BY <1>1 DEF Alive

(* What a step of a caller inside GenerateFrame leaves as it is.           *)
LEMMA SourceStepElsewhere ==
  ASSUME StageInvariant, NEW c \in Caller, at[c] \in InSource,
         UNCHANGED <<queue_vars, stage_vars>>,
         NEW l, at' = [at EXCEPT ![c] = l],
         IF c = Prefetcher THEN l \in {"enter", "decode", "loop"}
                           ELSE l \in {"enter", "decode", "template", "failed"},
         request' = [request EXCEPT ![c] = IF l = "loop" THEN NoRequest ELSE @],
         NEW a \in Answers, answer' = [answer EXCEPT ![c] = a],
         l = "template" => a.image = Wanted(frame[c]).image
  PROVE  /\ StageTypeOK' /\ OnSchedule' /\ AnswersSound' /\ SlotsSound'
         /\ DeliveredIsClean' /\ IsFiniteSet(DOMAIN slots)' /\ TemplateBudget'
         /\ at' \in [Caller -> OfThread \cup OfPrefetcher]
         /\ at'[Prefetcher] \in OfPrefetcher /\ \A t \in Thread : at'[t] \in OfThread
         /\ request' \in [Caller -> Requests \cup {NoRequest}]
         /\ answer' \in [Caller -> Answers]
         /\ prefetch_queue' \in Seq(Requests)
         /\ prefetch_waiting' \in BOOLEAN /\ prefetch_stopping' \in BOOLEAN
<1> USE DEF stage_vars, cache_vars, queue_vars
<1>1. TypeOK /\ OnSchedule /\ AnswersSound /\ SlotsSound /\ DeliveredIsClean
      /\ IsFiniteSet(DOMAIN slots) /\ TemplateBudget
  BY DEF StageInvariant
<1>2. at \in [Caller -> OfThread \cup OfPrefetcher] /\ request \in [Caller -> Requests \cup {NoRequest}]
      /\ answer \in [Caller -> Answers]
  BY <1>1 DEF TypeOK, SourceTypeOK
<1>3. StageTypeOK' /\ IsFiniteSet(DOMAIN slots)' /\ TemplateBudget'
  BY <1>1 DEF TypeOK, StageTypeOK, TemplateBudget
<1>4. /\ at' \in [Caller -> OfThread \cup OfPrefetcher]
      /\ at'[Prefetcher] \in OfPrefetcher /\ \A t \in Thread : at'[t] \in OfThread
  BY <1>1, <1>2 DEF TypeOK, SourceTypeOK, OfThread, OfPrefetcher, InSource, Caller
<1>5. request' \in [Caller -> Requests \cup {NoRequest}] /\ answer' \in [Caller -> Answers]
  BY <1>2
<1>6. prefetch_queue' \in Seq(Requests) /\ prefetch_waiting' \in BOOLEAN /\ prefetch_stopping' \in BOOLEAN
  BY <1>1 DEF TypeOK, SourceTypeOK
<1>7. \A u \in Thread : u # c => at'[u] = at[u] /\ request'[u] = request[u] /\ answer'[u] = answer[u]
  BY <1>2 DEF Caller
<1>8. c \in Thread => at'[c] = l /\ request'[c] = request[c] /\ answer'[c] = a /\ at[c] # "idle"
  BY <1>2 DEF InSource
<1>9. OnSchedule'
  <2>1. stage # "scheduling"
    BY <1>1, <1>8 DEF OnSchedule, InSource, Caller
  <2>2. \A u \in Thread : at'[u] # "idle" => at[u] # "idle" /\ request'[u] = request[u]
    BY <1>7, <1>8
  <2>3. at'[Prefetcher] \in InSource => request'[Prefetcher] \in Requests
    <3>1. CASE c = Prefetcher
      BY <3>1, <1>2, AskedFor DEF InSource
    <3>2. CASE c # Prefetcher
      BY <3>2, <1>1, <1>2 DEF OnSchedule, Caller
    <3> QED BY <3>1, <3>2
  <2> QED BY <1>1, <2>1, <2>2, <2>3 DEF OnSchedule, Section
<1>10. AnswersSound'
  BY <1>1, <1>7, <1>8 DEF AnswersSound, Wanted, Section, Phase
<1>11. SlotsSound' /\ DeliveredIsClean'
  <2>1. \A u \in Thread : at'[u] \in {"once", "build", "deliver"} => at'[u] = at[u]
    BY <1>7, <1>8
  <2> QED BY <1>1, <2>1 DEF SlotsSound, DeliveredIsClean, Key, Wanted, Section, Phase
<1> QED BY <1>3, <1>4, <1>5, <1>6, <1>9, <1>10, <1>11

(* The parts of the inductive invariant that are about memory, and what a  *)
(* step of one caller must do to keep them.                                *)
LEMMA MemoryStep ==
  ASSUME StageInvariant, NEW c \in Caller,
         cached_sources' \in Seq(Entry), Len(cached_sources') <= MaxCachedSources,
         entries' \in [Entry -> EntryType], EntriesSound',
         \A e \in Entry : entries'[e].source # None =>
           e \in Referenced(cached_sources', handle'),
         \A d \in Caller : d # c /\ handle[d] \in Entry =>
           entries'[handle[d]].source = entries[handle[d]].source,
         NEW l, at' = [at EXCEPT ![c] = l],
         NEW h, handle' = [handle EXCEPT ![c] = h],
         \A d \in Caller : d # c => request'[d] = request[d],
         \/ l \notin {"enter", "decode"} /\ h = None
         \/ /\ l \in {"enter", "decode"} /\ h \in Entry
            /\ entries'[h].source = request'[c].section.source
  PROVE  /\ cached_sources' \in Seq(Entry) /\ entries' \in [Entry -> EntryType]
         /\ handle' \in [Caller -> Entry \cup {None}]
         /\ EntriesSound' /\ HandlesSound' /\ NothingLeaks'
<1>1. at \in [Caller -> OfThread \cup OfPrefetcher] /\ handle \in [Caller -> Entry \cup {None}]
      /\ HandlesSound
  BY DEF StageInvariant, TypeOK, SourceTypeOK
<1>2. handle' \in [Caller -> Entry \cup {None}] /\ handle'[c] = h /\ at'[c] = l
  BY <1>1
<1>3. \A d \in Caller : d # c => handle'[d] = handle[d] /\ at'[d] = at[d]
  BY <1>1
<1>4. HandlesSound'
  <2> SUFFICES ASSUME NEW d \in Caller
               PROVE  IF at'[d] \in {"enter", "decode"}
                        THEN /\ handle'[d] \in Entry
                             /\ entries'[handle'[d]].source = request'[d].section.source
                        ELSE handle'[d] = None
    BY DEF HandlesSound
  <2>1. CASE d = c
    BY <2>1, <1>2
  <2>2. CASE d # c
    <3>1. handle'[d] = handle[d] /\ at'[d] = at[d] /\ request'[d] = request[d]
      BY <2>2, <1>3
    <3>2. CASE at[d] \in {"enter", "decode"}
      <4>1. handle[d] \in Entry /\ entries[handle[d]].source = request[d].section.source
        BY <3>2, <1>1 DEF HandlesSound
      <4>2. entries'[handle[d]].source = entries[handle[d]].source
        BY <4>1, <2>2
      <4> QED BY <3>1, <3>2, <4>1, <4>2
    <3>3. CASE at[d] \notin {"enter", "decode"}
      BY <3>1, <3>3, <1>1 DEF HandlesSound
    <3> QED BY <3>2, <3>3
  <2> QED BY <2>1, <2>2
<1>5. NothingLeaks'
  BY DEF NothingLeaks
<1> QED BY <1>2, <1>4, <1>5

(* GenerateFrame returns.                                                  *)
LEMMA ReturnSound ==
  ASSUME StageInvariant, NEW c \in Caller, at[c] \in {"enter", "decode"},
         NEW memory \in [Entry -> EntryType],
         \A e \in Entry : \A k \in DOMAIN memory[e].frames :
           /\ memory[e].source # None
           /\ memory[e].frames[k] = Image(memory[e].source, k - 1),
         \A d \in Caller : d # c /\ handle[d] \in Entry =>
           memory[handle[d]].source = entries[handle[d]].source,
         NEW result \in Answers,
         result.error = "" =>
           result.image = Image(request[c].section.source,
                                IF request[c].section.source \in Still THEN 0
                                ELSE request[c].index),
         Return(c, memory, result),
         UNCHANGED <<cached_sources, queue_vars, stage_vars>>
  PROVE  StageInvariant'
<1> DEFINE l == IF c = Prefetcher THEN "loop"
                ELSE IF result.error = "" THEN "template" ELSE "failed"
           a == IF c = Prefetcher THEN answer[c] ELSE result
<1>1. at[c] \in InSource
  BY DEF InSource
<1>2. /\ at' = [at EXCEPT ![c] = l] /\ answer' = [answer EXCEPT ![c] = a]
      /\ request' = [request EXCEPT ![c] = IF l = "loop" THEN NoRequest ELSE @]
      /\ handle' = [handle EXCEPT ![c] = None]
      /\ entries' = Alive(memory, cached_sources', handle')
  BY DEF Return
<1>3. /\ cached_sources' \in Seq(Entry) /\ Len(cached_sources') <= MaxCachedSources
      /\ request \in [Caller -> Requests \cup {NoRequest}]
      /\ answer \in [Caller -> Answers]
  BY DEF StageInvariant, TypeOK, SourceTypeOK, NothingLeaks
<1>4. a \in Answers
  BY <1>3
<1>5. l = "template" => a.image = Wanted(frame[c]).image
  <2> SUFFICES ASSUME l = "template" PROVE a.image = Wanted(frame[c]).image
    OBVIOUS
  <2>1. c \in Thread /\ a = result /\ result.error = ""
    BY DEF Caller
  <2> HIDE DEF l, a
  <2>2. request[c] = [section |-> Section(frame[c]), index |-> schedule[frame[c]].index]
    BY <2>1, <1>1 DEF StageInvariant, OnSchedule, InSource
  <2>3. request[c].section = Section(frame[c]) /\ request[c].index = schedule[frame[c]].index
    BY ONLY <2>2, FieldsOfRequest
  <2>4. result.image = Image(Section(frame[c]).source,
                             IF Section(frame[c]).source \in Still THEN 0
                             ELSE schedule[frame[c]].index)
    BY <2>1, <2>3
  <2> QED BY <2>1, <2>4 DEF Wanted
<1>6. IF c = Prefetcher THEN l \in {"enter", "decode", "loop"}
                        ELSE l \in {"enter", "decode", "template", "failed"}
  OBVIOUS
<1>7. l \notin {"enter", "decode"} /\ \A d \in Caller : d # c => request'[d] = request[d]
  BY <1>2, <1>3
<1> HIDE DEF l, a
<1>8. UNCHANGED <<queue_vars, stage_vars>>
  OBVIOUS
<1>9. /\ StageTypeOK' /\ OnSchedule' /\ AnswersSound' /\ SlotsSound'
      /\ DeliveredIsClean' /\ IsFiniteSet(DOMAIN slots)' /\ TemplateBudget'
      /\ at' \in [Caller -> OfThread \cup OfPrefetcher]
      /\ at'[Prefetcher] \in OfPrefetcher /\ \A t \in Thread : at'[t] \in OfThread
      /\ request' \in [Caller -> Requests \cup {NoRequest}]
      /\ answer' \in [Caller -> Answers]
      /\ prefetch_queue' \in Seq(Requests)
      /\ prefetch_waiting' \in BOOLEAN /\ prefetch_stopping' \in BOOLEAN
  BY <1>1, <1>2, <1>4, <1>5, <1>6, <1>8, SourceStepElsewhere
<1>10. /\ entries' \in [Entry -> EntryType]
       /\ \A e \in Entry : e \in Referenced(cached_sources', handle') =>
            entries'[e] = memory[e]
       /\ \A e \in Entry : entries'[e].source # None =>
            e \in Referenced(cached_sources', handle')
       /\ \A e \in Entry : \A k \in DOMAIN entries'[e].frames :
            /\ entries'[e].source # None
            /\ entries'[e].frames[k] = Image(entries'[e].source, k - 1)
  <2>1. memory \in [Entry -> EntryType] /\ entries' = Alive(memory, cached_sources', handle')
    BY <1>2
  <2>2. \A e \in Entry : \A k \in DOMAIN memory[e].frames :
          memory[e].source # None /\ memory[e].frames[k] = Image(memory[e].source, k - 1)
    OBVIOUS
  <2> QED BY ONLY <2>1, <2>2, AliveSound
<1>11. \A d \in Caller : d # c /\ handle[d] \in Entry =>
        entries'[handle[d]].source = entries[handle[d]].source
  <2> SUFFICES ASSUME NEW d \in Caller, d # c, handle[d] \in Entry
               PROVE  entries'[handle[d]] = memory[handle[d]]
    OBVIOUS
  <2>1. handle \in [Caller -> Entry \cup {None}]
    BY DEF StageInvariant, TypeOK, SourceTypeOK
  <2>2. handle'[d] = handle[d]
    BY <2>1, <1>2
  <2>3. handle[d] \in Referenced(cached_sources', handle')
    BY <2>2 DEF Referenced
  <2> QED BY <2>3, <1>10
<1>12. EntriesSound'
  BY <1>10 DEF EntriesSound
<1>13. /\ cached_sources' \in Seq(Entry) /\ entries' \in [Entry -> EntryType]
       /\ handle' \in [Caller -> Entry \cup {None}]
       /\ EntriesSound' /\ HandlesSound' /\ NothingLeaks'
  BY <1>2, <1>3, <1>7, <1>10, <1>11, <1>12, MemoryStep
<1> QED BY <1>9, <1>13 DEF StageInvariant, TypeOK, SourceTypeOK

(* What a caller inside GenerateFrame has in hand.                         *)
LEMMA InHand ==
  ASSUME StageInvariant, NEW c \in Caller, at[c] \in {"enter", "decode"}
  PROVE  /\ handle[c] \in Entry /\ entries[handle[c]] \in EntryType
         /\ entries[handle[c]].source = request[c].section.source
         /\ request[c] \in Requests /\ request[c].section.source \in Source
         /\ entries[handle[c]].frames \in Seq(Images)
         /\ \A k \in DOMAIN entries[handle[c]].frames :
              entries[handle[c]].frames[k] = Image(request[c].section.source, k - 1)
<1>1. HandlesSound /\ EntriesSound /\ entries \in [Entry -> EntryType]
  BY DEF StageInvariant, TypeOK, SourceTypeOK
<1>2. handle[c] \in Entry /\ entries[handle[c]].source = request[c].section.source
  BY <1>1 DEF HandlesSound
<1>3. request[c] \in Requests
  BY AskedFor DEF InSource
<1>4. request[c].section.source \in Source
  BY <1>3, RequestFacts
<1>5. entries[handle[c]] \in EntryType
  BY <1>1, <1>2
<1>6. entries[handle[c]].frames \in Seq(Images)
  BY <1>5 DEF EntryType
<1>7. \A k \in DOMAIN entries[handle[c]].frames :
        entries[handle[c]].frames[k] = Image(entries[handle[c]].source, k - 1)
  BY <1>1, <1>2 DEF EntriesSound
<1> QED BY <1>2, <1>3, <1>4, <1>5, <1>6, <1>7

(* One step of the source that keeps a caller inside it.                   *)
LEMMA InsideSound ==
  ASSUME StageInvariant, NEW c \in Caller, at[c] \in InSource,
         NEW l \in {"enter", "decode"}, at' = [at EXCEPT ![c] = l],
         UNCHANGED <<request, answer, queue_vars, stage_vars>>,
         NEW h \in Entry, handle' = [handle EXCEPT ![c] = h],
         entries'[h].source = request[c].section.source,
         cached_sources' \in Seq(Entry), Len(cached_sources') <= MaxCachedSources,
         entries' \in [Entry -> EntryType], EntriesSound',
         \A e \in Entry : entries'[e].source # None =>
           e \in Referenced(cached_sources', handle'),
         \A d \in Caller : d # c /\ handle[d] \in Entry =>
           entries'[handle[d]].source = entries[handle[d]].source
  PROVE  StageInvariant'
<1>1. request \in [Caller -> Requests \cup {NoRequest}] /\ answer \in [Caller -> Answers]
  BY DEF StageInvariant, TypeOK, SourceTypeOK
<1>2. /\ request' = [request EXCEPT ![c] = IF l = "loop" THEN NoRequest ELSE @]
      /\ answer' = [answer EXCEPT ![c] = answer[c]] /\ answer[c] \in Answers
      /\ l # "template" /\ UNCHANGED <<queue_vars, stage_vars>>
  BY <1>1
<1>3. /\ StageTypeOK' /\ OnSchedule' /\ AnswersSound' /\ SlotsSound'
      /\ DeliveredIsClean' /\ IsFiniteSet(DOMAIN slots)' /\ TemplateBudget'
      /\ at' \in [Caller -> OfThread \cup OfPrefetcher]
      /\ at'[Prefetcher] \in OfPrefetcher /\ \A t \in Thread : at'[t] \in OfThread
      /\ request' \in [Caller -> Requests \cup {NoRequest}]
      /\ answer' \in [Caller -> Answers]
      /\ prefetch_queue' \in Seq(Requests)
      /\ prefetch_waiting' \in BOOLEAN /\ prefetch_stopping' \in BOOLEAN
  BY <1>2, SourceStepElsewhere
<1>4. request' = request
  OBVIOUS
<1>5. /\ cached_sources' \in Seq(Entry) /\ entries' \in [Entry -> EntryType]
      /\ handle' \in [Caller -> Entry \cup {None}]
      /\ EntriesSound' /\ HandlesSound' /\ NothingLeaks'
  BY <1>4, MemoryStep
<1> QED BY <1>3, <1>5 DEF StageInvariant, TypeOK, SourceTypeOK

LEMMA AcquireCacheEntrySound ==
  ASSUME StageInvariant, NEW c \in Caller, AcquireCacheEntry(c), UNCHANGED stage_vars
  PROVE  StageInvariant'
<1> DEFINE source == request[c].section.source
           found  == CacheEntry(source)
<1>1. /\ at[c] = "acquire" /\ at' = [at EXCEPT ![c] = "enter"]
      /\ handle' = [handle EXCEPT ![c] = found.entry]
      /\ cached_sources' = found.table
      /\ entries' = Alive(found.entries, cached_sources', handle')
      /\ UNCHANGED <<request, answer, queue_vars, stage_vars>>
  BY DEF AcquireCacheEntry
<1>2. at[c] \in InSource
  BY <1>1 DEF InSource
<1>3. source \in Source
  BY <1>2, AskedFor, RequestFacts
<1> HIDE DEF source
<1>4. handle[c] = None /\ handle \in [Caller -> Entry \cup {None}]
  BY <1>1 DEF StageInvariant, HandlesSound, TypeOK, SourceTypeOK
<1>5. /\ found.entry \in Entry /\ found.entries \in [Entry -> EntryType]
      /\ found.entries[found.entry].source = source
      /\ found.table \in Seq(Entry) /\ Len(found.table) <= MaxCachedSources
      /\ \A d \in Caller : handle[d] \in Entry =>
           found.entries[handle[d]] = entries[handle[d]]
      /\ \A e \in Entry : \A k \in DOMAIN found.entries[e].frames :
           /\ found.entries[e].source # None
           /\ found.entries[e].frames[k] = Image(found.entries[e].source, k - 1)
  BY <1>3, <1>4, CacheEntrySound DEF StageInvariant
<1> HIDE DEF found
<1>6. /\ entries' \in [Entry -> EntryType]
      /\ \A e \in Entry : e \in Referenced(cached_sources', handle') =>
           entries'[e] = found.entries[e]
      /\ \A e \in Entry : entries'[e].source # None =>
           e \in Referenced(cached_sources', handle')
      /\ \A e \in Entry : \A k \in DOMAIN entries'[e].frames :
           /\ entries'[e].source # None
           /\ entries'[e].frames[k] = Image(entries'[e].source, k - 1)
  BY ONLY <1>1, <1>5, AliveSound
<1>7. EntriesSound'
  BY <1>6 DEF EntriesSound
<1>8. \A d \in Caller : d # c => handle'[d] = handle[d]
  BY <1>1, <1>4
<1>9. \A d \in Caller : handle'[d] \in Referenced(cached_sources', handle')
  BY DEF Referenced
<1>10. entries'[found.entry].source = source
  <2>1. handle'[c] = found.entry
    BY <1>1, <1>4
  <2> QED BY <2>1, <1>5, <1>6, <1>9
<1>11. \A d \in Caller : d # c /\ handle[d] \in Entry =>
         entries'[handle[d]].source = entries[handle[d]].source
  BY <1>5, <1>6, <1>8, <1>9
<1> QED BY <1>1, <1>2, <1>5, <1>6, <1>7, <1>10, <1>11, InsideSound DEF source

LEMMA EnterSound ==
  ASSUME StageInvariant, NEW c \in Caller, Enter(c), UNCHANGED stage_vars
  PROVE  StageInvariant'
<1> DEFINE e == handle[c]
           source == request[c].section.source
           needs == RequiredFrames(request[c].section, request[c].index)
<1>1. /\ at[c] = "enter" /\ entries[e].owner = None
      /\ UNCHANGED <<cached_sources, queue_vars, stage_vars>>
      /\ \/ /\ Satisfies(entries[e], source, needs, request[c].section.all)
            /\ Return(c, entries, Delivered(entries[e].frames, source, request[c].index))
         \/ /\ entries' = [entries EXCEPT ![e].owner = c]
            /\ at' = [at EXCEPT ![c] = "decode"]
            /\ UNCHANGED <<request, handle, answer>>
  BY DEF Enter
<1>2. at[c] \in InSource /\ at[c] \in {"enter", "decode"}
  BY <1>1 DEF InSource
<1>3. /\ e \in Entry /\ entries[e] \in EntryType /\ entries[e].source = source
      /\ request[c] \in Requests /\ source \in Source
      /\ entries[e].frames \in Seq(Images)
      /\ \A k \in DOMAIN entries[e].frames : entries[e].frames[k] = Image(source, k - 1)
  BY <1>2, InHand
<1>4. request[c].index \in Nat
  BY <1>3, RequestFacts
<1>5. /\ entries \in [Entry -> EntryType] /\ EntriesSound /\ NothingLeaks
      /\ handle \in [Caller -> Entry \cup {None}]
      /\ cached_sources \in Seq(Entry)
  BY DEF StageInvariant, TypeOK, SourceTypeOK
<1> HIDE DEF needs
<1>6. CASE /\ Satisfies(entries[e], source, needs, request[c].section.all)
           /\ Return(c, entries, Delivered(entries[e].frames, source, request[c].index))
  <2> DEFINE result == Delivered(entries[e].frames, source, request[c].index)
  <2>1. entries[e].frames # <<>>
    BY <1>6 DEF Satisfies
  <2>2. /\ result \in Answers
        /\ result.error = "" => result.image = Image(source, IF source \in Still THEN 0
                                                             ELSE request[c].index)
    BY ONLY <2>1, <1>3, <1>4, DeliveredSound
  <2> HIDE DEF result
  <2>3. Return(c, entries, result) /\ UNCHANGED <<cached_sources, queue_vars, stage_vars>>
    BY <1>1, <1>6 DEF result
  <2>4. \A f \in Entry : \A k \in DOMAIN entries[f].frames :
          entries[f].source # None /\ entries[f].frames[k] = Image(entries[f].source, k - 1)
    BY <1>5 DEF EntriesSound
  <2> QED BY <1>2, <1>5, <2>2, <2>3, <2>4, ReturnSound
<1>7. CASE /\ entries' = [entries EXCEPT ![e].owner = c]
           /\ at' = [at EXCEPT ![c] = "decode"]
           /\ UNCHANGED <<request, handle, answer>>
  <2>1. /\ entries' \in [Entry -> EntryType]
        /\ \A f \in Entry : entries'[f].source = entries[f].source
                             /\ entries'[f].frames = entries[f].frames
    BY <1>3, <1>5, <1>7 DEF EntryType
  <2>2. EntriesSound'
    BY <1>5, <2>1 DEF EntriesSound
  <2>3. handle' = [handle EXCEPT ![c] = e] /\ handle' = handle /\ cached_sources' = cached_sources
    BY <1>1, <1>5, <1>7
  <2>4. \A f \in Entry : entries'[f].source # None =>
          f \in Referenced(cached_sources', handle')
    BY <1>5, <2>1, <2>3 DEF NothingLeaks
  <2>5. Len(cached_sources') <= MaxCachedSources /\ cached_sources' \in Seq(Entry)
    BY <1>5, <2>3 DEF NothingLeaks
  <2>6. \A d \in Caller : d # c /\ handle[d] \in Entry =>
          entries'[handle[d]].source = entries[handle[d]].source
    BY <2>1
  <2>7. entries'[e].source = request[c].section.source
    BY <2>1, <1>3
  <2>8. UNCHANGED <<request, answer, queue_vars, stage_vars>>
    BY <1>1, <1>7
  <2> HIDE DEF e
  <2> QED BY <1>2, <1>3, <1>7, <2>1, <2>2, <2>3, <2>4, <2>5, <2>6, <2>7, <2>8, InsideSound
<1> QED BY <1>1, <1>6, <1>7

LEMMA DecodeSound ==
  ASSUME StageInvariant, NEW c \in Caller, Decode(c), UNCHANGED stage_vars
  PROVE  StageInvariant'
<1> DEFINE e == handle[c]
           section == request[c].section
           needs == RequiredFrames(section, request[c].index)
           decoded == Decoded(entries[e], section.source, needs, section.all)
           memory == [entries EXCEPT ![e] = decoded]
           failed == [entries EXCEPT ![e].owner = None]
<1>1. at[c] \in InSource /\ at[c] \in {"enter", "decode"}
  BY DEF InSource, Decode
<1>2. /\ e \in Entry /\ entries[e] \in EntryType /\ entries[e].source = section.source
      /\ request[c] \in Requests /\ section.source \in Source
  BY <1>1, InHand
<1>3. /\ request[c].index \in Nat /\ needs \in Nat /\ needs > 0
      /\ section.all \in BOOLEAN
  BY <1>2, RequestFacts DEF SectionType
<1>4. /\ entries \in [Entry -> EntryType] /\ EntriesSound
  BY DEF StageInvariant, TypeOK, SourceTypeOK
<1>5. \/ Return(c, memory, Delivered(memory[e].frames, section.source, request[c].index))
      \/ Return(c, failed, Failed("decode"))
  BY <1>2, <1>4 DEF Decode
<1>6. UNCHANGED <<cached_sources, queue_vars, stage_vars>>
  BY DEF Decode
<1> HIDE DEF needs
<1>7. /\ decoded \in EntryType /\ decoded.source = section.source /\ decoded.frames # <<>>
      /\ \A k \in DOMAIN decoded.frames : decoded.frames[k] = Image(section.source, k - 1)
  BY ONLY <1>2, <1>3, DecodedSound, SMTT(60)
<1> HIDE DEF decoded
<1>8. section.source # None
  BY <1>2 DEF Source
<1>9. /\ memory \in [Entry -> EntryType] /\ memory[e] = decoded
       /\ \A f \in Entry : f # e => memory[f] = entries[f]
  BY <1>2, <1>4, <1>7
<1>10. /\ failed \in [Entry -> EntryType]
       /\ \A f \in Entry : failed[f].source = entries[f].source
                            /\ failed[f].frames = entries[f].frames
  BY <1>2, <1>4 DEF EntryType
<1> HIDE DEF memory, failed
<1>11. CASE Return(c, memory, Delivered(memory[e].frames, section.source, request[c].index))
  <2> DEFINE result == Delivered(decoded.frames, section.source, request[c].index)
  <2>1. decoded.frames \in Seq(Images)
    BY <1>7 DEF EntryType
  <2>2. /\ result \in Answers
        /\ result.error = "" =>
             result.image = Image(section.source, IF section.source \in Still THEN 0
                                                  ELSE request[c].index)
    BY ONLY <2>1, <1>2, <1>3, <1>7, DeliveredSound
  <2>3. Return(c, memory, result)
    BY <1>9, <1>11
  <2> HIDE DEF result
  <2>4. \A f \in Entry : \A k \in DOMAIN memory[f].frames :
          memory[f].source # None /\ memory[f].frames[k] = Image(memory[f].source, k - 1)
    BY <1>4, <1>7, <1>8, <1>9 DEF EntriesSound
  <2>5. \A d \in Caller : d # c /\ handle[d] \in Entry =>
          memory[handle[d]].source = entries[handle[d]].source
    BY <1>2, <1>7, <1>9
  <2> QED BY <1>1, <1>6, <1>9, <2>2, <2>3, <2>4, <2>5, ReturnSound
<1>12. CASE Return(c, failed, Failed("decode"))
  <2>1. Failed("decode") \in Answers /\ Failed("decode").error = "decode"
    BY DEF Failed, Answers, NoImage, Image, Images
  <2>2. \A f \in Entry : \A k \in DOMAIN failed[f].frames :
          failed[f].source # None /\ failed[f].frames[k] = Image(failed[f].source, k - 1)
    BY <1>4, <1>10 DEF EntriesSound
  <2>3. \A d \in Caller : d # c /\ handle[d] \in Entry =>
          failed[handle[d]].source = entries[handle[d]].source
    BY <1>10
  <2> QED BY <1>1, <1>6, <1>10, <1>12, <2>1, <2>2, <2>3, ReturnSound
<1> QED BY <1>5, <1>11, <1>12

-------------------------------------------------------------------------------
(* Steps that leave the entries and the references to them alone.          *)
LEMMA MemoryKept ==
  ASSUME StageInvariant, UNCHANGED <<cached_sources, entries, handle>>,
         \A c \in Caller :
           IF at'[c] \in {"enter", "decode"}
             THEN at[c] \in {"enter", "decode"} /\ request'[c] = request[c]
             ELSE at[c] \notin {"enter", "decode"}
  PROVE  /\ cached_sources' \in Seq(Entry) /\ entries' \in [Entry -> EntryType]
         /\ handle' \in [Caller -> Entry \cup {None}]
         /\ EntriesSound' /\ HandlesSound' /\ NothingLeaks'
<1>1. /\ cached_sources \in Seq(Entry) /\ entries \in [Entry -> EntryType]
      /\ handle \in [Caller -> Entry \cup {None}]
      /\ EntriesSound /\ HandlesSound /\ NothingLeaks
  BY DEF StageInvariant, TypeOK, SourceTypeOK
<1>2. EntriesSound' /\ NothingLeaks'
  BY <1>1 DEF EntriesSound, NothingLeaks
<1>3. HandlesSound'
  BY <1>1 DEF HandlesSound
<1> QED BY <1>1, <1>2, <1>3

(* The picture a frame must show, and its key.                             *)
LEMMA KeyFacts ==
  ASSUME StageInvariant, NEW t \in Thread, at[t] # "idle"
  PROVE  /\ Key(t) \in Keys
         /\ Wanted(frame[t]) = [image |-> Image(Key(t).source, Key(t).index),
                                phase |-> Key(t).phase]
         /\ Wanted(frame[t]) \in Cleans
         /\ at[t] \in {"template", "once", "build"} => Synthesised(t) = Wanted(frame[t])
<1>1. frame[t] \in DOMAIN schedule /\ schedule \in Seq(Items)
  BY DEF StageInvariant, OnSchedule, TypeOK, StageTypeOK
<1>2. schedule[frame[t]] \in Items
  BY <1>1
<1>3. /\ schedule[frame[t]].section \in DOMAIN Project
      /\ schedule[frame[t]].index \in Nat /\ schedule[frame[t]].disc \in Nat
  BY <1>2 DEF Items, Sections
<1>4. Section(frame[t]) \in SectionType
  BY <1>3, ProjectAssumption DEF Section
<1>5. Section(frame[t]).source \in Source
  BY <1>4 DEF SectionType
<1>6. Phase(frame[t]) \in Nat
  BY <1>3 DEF Phase
<1> DEFINE index == IF Section(frame[t]).source \in Still THEN 0
                    ELSE schedule[frame[t]].index
<1>7. index \in Nat
  BY <1>3
<1>8. /\ Key(t) = [source |-> Section(frame[t]).source, index |-> index,
                   phase |-> Phase(frame[t])]
      /\ Wanted(frame[t]) = [image |-> Image(Section(frame[t]).source, index),
                             phase |-> Phase(frame[t])]
  BY DEF Key, Wanted
<1>9. at[t] \in {"template", "once", "build"} => answer[t].image = Wanted(frame[t]).image
  BY DEF StageInvariant, AnswersSound
<1> HIDE DEF index
<1>10. Image(Section(frame[t]).source, index) \in Images
  BY <1>5, <1>7 DEF Image, Images
<1> QED BY ONLY <1>5, <1>6, <1>7, <1>8, <1>9, <1>10 DEF Synthesised, Keys, Cleans

(* A step that takes a thread on from its template to its frame.           *)
LEMMA TemplateStep ==
  ASSUME StageInvariant, NEW t \in Thread,
         at[t] \in {"template", "once", "build"},
         NEW l \in {"once", "build", "deliver"}, at' = [at EXCEPT ![t] = l],
         UNCHANGED <<cached_sources, entries, request, handle, answer, queue_vars,
                     client, stage, scheduled, schedule, claimed, frame>>
  PROVE  /\ SourceTypeOK' /\ OnSchedule' /\ EntriesSound' /\ HandlesSound'
         /\ NothingLeaks' /\ AnswersSound'
         /\ at'[t] = l /\ \A u \in Thread : u # t => at'[u] = at[u]
         /\ \A u \in Thread : Key(u)' = Key(u) /\ Wanted(frame[u])' = Wanted(frame[u])
<1>1. SourceTypeOK /\ OnSchedule /\ AnswersSound
  BY DEF StageInvariant, TypeOK
<1>2. at \in [Caller -> OfThread \cup OfPrefetcher] /\ at[Prefetcher] \in OfPrefetcher
      /\ \A u \in Thread : at[u] \in OfThread
  BY <1>1 DEF SourceTypeOK
<1>3. at'[t] = l /\ \A c \in Caller : c # t => at'[c] = at[c]
  BY <1>2 DEF Caller
<1>4. l \in OfThread
  BY DEF OfThread
<1>5. /\ at' \in [Caller -> OfThread \cup OfPrefetcher] /\ at'[Prefetcher] \in OfPrefetcher
      /\ \A u \in Thread : at'[u] \in OfThread
  BY <1>2, <1>3, <1>4 DEF Caller
<1>6. SourceTypeOK'
  BY <1>1, <1>5 DEF SourceTypeOK, queue_vars
<1>7. EntriesSound' /\ HandlesSound' /\ NothingLeaks'
  <2>1. \A c \in Caller : IF at'[c] \in {"enter", "decode"}
                            THEN at[c] \in {"enter", "decode"} /\ request'[c] = request[c]
                            ELSE at[c] \notin {"enter", "decode"}
    BY <1>3
  <2>2. UNCHANGED <<cached_sources, entries, handle>>
    OBVIOUS
  <2> QED BY <2>1, <2>2, MemoryKept
<1>8. \A u \in Thread : Key(u)' = Key(u) /\ Wanted(frame[u])' = Wanted(frame[u])
  BY DEF Key, Wanted, Section, Phase
<1>9. OnSchedule'
  <2>1. stage # "scheduling"
    BY <1>1 DEF OnSchedule
  <2>2. \A u \in Thread : at'[u] # "idle" => at[u] # "idle"
    BY <1>3
  <2>3. at'[Prefetcher] = at[Prefetcher]
    BY <1>3 DEF Caller
  <2> QED BY <1>1, <2>1, <2>2, <2>3 DEF OnSchedule, Section
<1>10. AnswersSound'
  <2>1. \A u \in Thread : at'[u] \in {"template", "once", "build"} =>
          at[u] \in {"template", "once", "build"}
    BY <1>3
  <2> QED BY <1>1, <1>8, <2>1 DEF AnswersSound
<1> QED BY <1>3, <1>6, <1>7, <1>8, <1>9, <1>10 DEF Caller

LEMMA AcquireTemplateSound ==
  ASSUME StageInvariant, NEW t \in Thread, AcquireTemplate(t)
  PROVE  StageInvariant'
<1> DEFINE key == Key(t)
<1>1. /\ StageTypeOK /\ SlotsSound /\ DeliveredIsClean /\ TemplateBudget
      /\ IsFiniteSet(DOMAIN slots)
  BY DEF StageInvariant, TypeOK
<1>2. /\ DOMAIN slots \subseteq Keys /\ slots \in [DOMAIN slots -> Slots]
      /\ requested_once \subseteq Keys /\ reserved \in Nat /\ clean \in [Thread -> Cleans]
  BY <1>1 DEF StageTypeOK
<1>3. at[t] = "template" /\ at[t] # "idle"
  BY DEF AcquireTemplate
<1>4. UNCHANGED <<cached_sources, entries, request, handle, answer, queue_vars,
                  client, stage, scheduled, schedule, claimed, frame>>
  BY DEF AcquireTemplate
<1>5. /\ key \in Keys /\ Wanted(frame[t]) \in Cleans
      /\ Synthesised(t) = Wanted(frame[t])
  BY <1>3, KeyFacts
<1>6. ASSUME NEW l \in {"once", "build", "deliver"}, at' = [at EXCEPT ![t] = l]
      PROVE  /\ SourceTypeOK' /\ OnSchedule' /\ EntriesSound' /\ HandlesSound'
             /\ NothingLeaks' /\ AnswersSound'
             /\ at'[t] = l /\ \A u \in Thread : u # t => at'[u] = at[u]
             /\ \A u \in Thread : Key(u)' = Key(u)
                                  /\ Wanted(frame[u])' = Wanted(frame[u])
  BY <1>3, <1>4, <1>6, TemplateStep
<1>7. /\ client \in {"pool", "preview"}
      /\ stage \in {"scheduling", "running", "destroyed", "join", "gone"}
      /\ scheduled \in 0 .. Len(Project) /\ schedule \in Seq(Items)
      /\ claimed \in Nat /\ frame \in [Thread -> Nat]
  BY <1>1 DEF StageTypeOK
<1> HIDE DEF key
<1>8. CASE /\ key \in DOMAIN slots /\ at' = [at EXCEPT ![t] = "once"]
           /\ UNCHANGED <<cache_vars, clean>>
  <2>1. StageTypeOK' /\ TemplateBudget' /\ IsFiniteSet(DOMAIN slots)'
    BY <1>1, <1>4, <1>8 DEF StageTypeOK, TemplateBudget, cache_vars
  <2>2. DeliveredIsClean'
    BY <1>1, <1>6, <1>8 DEF DeliveredIsClean
  <2>3. SlotsSound'
    BY <1>1, <1>6, <1>8 DEF SlotsSound, cache_vars, key
  <2> QED BY <1>6, <1>8, <2>1, <2>2, <2>3 DEF StageInvariant, TypeOK
<1>9. CASE /\ Admitted(key)
           /\ requested_once' = IF Cardinality(requested_once) > MaxGhostKeys
                                  THEN {} ELSE requested_once \ {key}
           /\ slots' = [k \in DOMAIN slots \cup {key} |->
                          IF k = key THEN EmptySlot ELSE slots[k]]
           /\ reserved' = reserved + 1
           /\ at' = [at EXCEPT ![t] = "once"]
           /\ UNCHANGED clean
  <2>1. key \notin DOMAIN slots /\ reserved < Capacity
    BY <1>9 DEF Admitted
  <2>2. DOMAIN slots' = DOMAIN slots \cup {key} /\ requested_once' \subseteq requested_once \ {key}
    BY <1>9
  <2>3. EmptySlot \in Slots /\ EmptySlot.ready = FALSE
    BY DEF EmptySlot, Slots, Cleans, NoFrame, NoImage, Image, Images
  <2>4. slots' \in [DOMAIN slots' -> Slots]
    BY <1>2, <1>9, <2>2, <2>3
  <2>5. StageTypeOK'
    <3>1. DOMAIN slots' \subseteq Keys /\ requested_once' \subseteq Keys
      BY <1>2, <1>5, <2>2 DEF key
    <3>2. reserved' \in Nat /\ clean' = clean
      BY <1>2, <1>9
    <3> QED BY <1>2, <1>4, <1>7, <2>4, <3>1, <3>2 DEF StageTypeOK
  <2>6. IsFiniteSet(DOMAIN slots)' /\ Cardinality(DOMAIN slots') = Cardinality(DOMAIN slots) + 1
    BY <1>1, <2>1, <2>2, FS_AddElement
  <2>7. TemplateBudget'
    <3>1. reserved' = Cardinality(DOMAIN slots')
      BY <1>1, <1>9, <2>6 DEF TemplateBudget
    <3>2. reserved' <= Capacity
      BY <1>2, <1>9, <2>1
    <3>3. DOMAIN slots' \cap requested_once' = {}
      BY <1>1, <2>2 DEF TemplateBudget
    <3> QED BY <3>1, <3>2, <3>3 DEF TemplateBudget
  <2>8. DeliveredIsClean'
    BY <1>1, <1>6, <1>9 DEF DeliveredIsClean
  <2>9. SlotsSound'
    <3>1. \A k \in DOMAIN slots' : slots'[k].ready => k \in DOMAIN slots /\ slots'[k] = slots[k]
      BY <1>9, <2>2, <2>3
    <3>2. \A u \in Thread : at'[u] \in {"once", "build"} => Key(u)' \in DOMAIN slots'
      BY <1>1, <1>6, <1>9, <2>2 DEF SlotsSound, key
    <3> QED BY <1>1, <3>1, <3>2 DEF SlotsSound
  <2> QED BY <1>6, <1>9, <2>5, <2>6, <2>7, <2>8, <2>9 DEF StageInvariant, TypeOK
<1>10. CASE /\ Capacity = 0 \/ key \notin DOMAIN slots
            /\ requested_once' = IF Capacity = 0 THEN requested_once
                                 ELSE requested_once \cup {key}
            /\ clean' = [clean EXCEPT ![t] = Synthesised(t)]
            /\ at' = [at EXCEPT ![t] = "deliver"]
            /\ UNCHANGED <<slots, reserved>>
  <2>1. StageTypeOK'
    BY <1>2, <1>4, <1>5, <1>7, <1>10 DEF StageTypeOK
  <2>2. IsFiniteSet(DOMAIN slots)' /\ TemplateBudget'
    BY <1>1, <1>10 DEF TemplateBudget
  <2>3. DeliveredIsClean'
    BY <1>1, <1>2, <1>5, <1>6, <1>10 DEF DeliveredIsClean
  <2>4. SlotsSound'
    BY <1>1, <1>6, <1>10 DEF SlotsSound
  <2> QED BY <1>6, <1>10, <2>1, <2>2, <2>3, <2>4 DEF StageInvariant, TypeOK
<1> QED BY <1>8, <1>9, <1>10 DEF AcquireTemplate, key

LEMMA CallOnceSound ==
  ASSUME StageInvariant, NEW t \in Thread, CallOnce(t)
  PROVE  StageInvariant'
<1> DEFINE key == Key(t)
<1>1. /\ StageTypeOK /\ SlotsSound /\ DeliveredIsClean /\ TemplateBudget
      /\ IsFiniteSet(DOMAIN slots)
  BY DEF StageInvariant, TypeOK
<1>2. /\ DOMAIN slots \subseteq Keys /\ slots \in [DOMAIN slots -> Slots]
      /\ clean \in [Thread -> Cleans]
  BY <1>1 DEF StageTypeOK
<1>3. at[t] = "once" /\ at[t] # "idle"
  BY DEF CallOnce
<1>4. UNCHANGED <<cached_sources, entries, request, handle, answer, queue_vars,
                  client, stage, scheduled, schedule, claimed, frame,
                  requested_once, reserved>>
  BY DEF CallOnce
<1>5. Wanted(frame[t]) = [image |-> Image(key.source, key.index), phase |-> key.phase]
  BY <1>3, KeyFacts
<1>6. ASSUME NEW l \in {"once", "build", "deliver"}, at' = [at EXCEPT ![t] = l]
      PROVE  /\ SourceTypeOK' /\ OnSchedule' /\ EntriesSound' /\ HandlesSound'
             /\ NothingLeaks' /\ AnswersSound'
             /\ at'[t] = l /\ \A u \in Thread : u # t => at'[u] = at[u]
             /\ \A u \in Thread : Key(u)' = Key(u)
                                  /\ Wanted(frame[u])' = Wanted(frame[u])
  BY <1>3, <1>4, <1>6, TemplateStep
<1>7. key \in DOMAIN slots
  BY <1>1, <1>3 DEF SlotsSound
<1>8. slots[key] \in Slots
  BY <1>2, <1>7
<1> HIDE DEF key
<1>9. CASE /\ slots[key].ready /\ clean' = [clean EXCEPT ![t] = slots[key].template]
           /\ at' = [at EXCEPT ![t] = "deliver"] /\ UNCHANGED slots
  <2>1. slots[key].template = Wanted(frame[t]) /\ slots[key].template \in Cleans
    BY <1>1, <1>5, <1>7, <1>8, <1>9 DEF SlotsSound, Slots
  <2>2. StageTypeOK'
    BY <1>1, <1>4, <1>9, <2>1 DEF StageTypeOK
  <2>3. IsFiniteSet(DOMAIN slots)' /\ TemplateBudget'
    BY <1>1, <1>4, <1>9 DEF TemplateBudget
  <2>4. DeliveredIsClean'
    BY <1>1, <1>2, <1>6, <1>9, <2>1 DEF DeliveredIsClean
  <2>5. SlotsSound'
    BY <1>1, <1>6, <1>9 DEF SlotsSound
  <2> QED BY <1>6, <1>9, <2>2, <2>3, <2>4, <2>5 DEF StageInvariant, TypeOK
<1>10. CASE /\ slots' = [slots EXCEPT ![key].builder = t]
            /\ at' = [at EXCEPT ![t] = "build"] /\ UNCHANGED clean
  <2>1. /\ DOMAIN slots' = DOMAIN slots /\ slots' \in [DOMAIN slots -> Slots]
        /\ \A k \in DOMAIN slots : slots'[k].ready = slots[k].ready
                                   /\ slots'[k].template = slots[k].template
    BY <1>2, <1>7, <1>8, <1>10 DEF Slots
  <2>2. StageTypeOK'
    BY <1>1, <1>4, <1>10, <2>1 DEF StageTypeOK
  <2>3. IsFiniteSet(DOMAIN slots)' /\ TemplateBudget'
    BY <1>1, <1>4, <2>1 DEF TemplateBudget
  <2>4. DeliveredIsClean'
    BY <1>1, <1>6, <1>10 DEF DeliveredIsClean
  <2>5. SlotsSound'
    BY <1>1, <1>6, <1>7, <1>10, <2>1 DEF SlotsSound, key
  <2> QED BY <1>6, <1>10, <2>2, <2>3, <2>4, <2>5 DEF StageInvariant, TypeOK
<1> QED BY <1>9, <1>10 DEF CallOnce, key

LEMMA BuildTemplateSound ==
  ASSUME StageInvariant, NEW t \in Thread, BuildTemplate(t)
  PROVE  StageInvariant'
<1> DEFINE key == Key(t)
           slot == [builder |-> t, ready |-> TRUE, template |-> Synthesised(t)]
<1>1. /\ StageTypeOK /\ SlotsSound /\ DeliveredIsClean /\ TemplateBudget
      /\ IsFiniteSet(DOMAIN slots)
  BY DEF StageInvariant, TypeOK
<1>2. /\ slots \in [DOMAIN slots -> Slots] /\ clean \in [Thread -> Cleans]
  BY <1>1 DEF StageTypeOK
<1>3. /\ at[t] = "build" /\ at[t] # "idle" /\ at' = [at EXCEPT ![t] = "deliver"]
      /\ slots' = [slots EXCEPT ![key] = slot]
      /\ clean' = [clean EXCEPT ![t] = Synthesised(t)]
      /\ UNCHANGED <<cached_sources, entries, request, handle, answer, queue_vars,
                     client, stage, scheduled, schedule, claimed, frame,
                     requested_once, reserved>>
  BY DEF BuildTemplate
<1>4. /\ Synthesised(t) = Wanted(frame[t]) /\ Synthesised(t) \in Cleans
      /\ Synthesised(t) = [image |-> Image(key.source, key.index), phase |-> key.phase]
  BY <1>3, KeyFacts
<1>5. /\ SourceTypeOK' /\ OnSchedule' /\ EntriesSound' /\ HandlesSound'
      /\ NothingLeaks' /\ AnswersSound'
      /\ at'[t] = "deliver" /\ \A u \in Thread : u # t => at'[u] = at[u]
      /\ \A u \in Thread : Key(u)' = Key(u) /\ Wanted(frame[u])' = Wanted(frame[u])
  BY <1>3, TemplateStep
<1>6. slot \in Slots /\ slot.template = Synthesised(t)
  BY <1>4 DEF Slots
<1> HIDE DEF key, slot
<1>7. DOMAIN slots' = DOMAIN slots /\ slots' \in [DOMAIN slots -> Slots]
  BY <1>2, <1>3, <1>6
<1>8. StageTypeOK'
  BY <1>1, <1>3, <1>4, <1>7 DEF StageTypeOK
<1>9. IsFiniteSet(DOMAIN slots)' /\ TemplateBudget'
  BY <1>1, <1>3, <1>7 DEF TemplateBudget
<1>10. DeliveredIsClean'
  BY <1>1, <1>2, <1>3, <1>4, <1>5 DEF DeliveredIsClean
<1>11. SlotsSound'
  <2>1. \A k \in DOMAIN slots : slots'[k] = IF k = key THEN slot ELSE slots[k]
    BY <1>2, <1>3
  <2>2. \A k \in DOMAIN slots' : slots'[k].ready =>
          slots'[k].template = [image |-> Image(k.source, k.index), phase |-> k.phase]
    <3> SUFFICES ASSUME NEW k \in DOMAIN slots, slots'[k].ready
                 PROVE  slots'[k].template = [image |-> Image(k.source, k.index),
                                              phase |-> k.phase]
      BY <1>7
    <3>1. CASE k = key
      BY <3>1, <1>4, <1>6, <2>1
    <3>2. CASE k # key
      BY <3>2, <1>1, <2>1 DEF SlotsSound
    <3> QED BY <3>1, <3>2
  <2>3. \A u \in Thread : at'[u] \in {"once", "build"} => Key(u)' \in DOMAIN slots'
    BY <1>1, <1>5, <1>7 DEF SlotsSound
  <2> QED BY <2>2, <2>3 DEF SlotsSound
<1> QED BY <1>5, <1>8, <1>9, <1>10, <1>11 DEF StageInvariant, TypeOK

LEMMA DeliverSound ==
  ASSUME StageInvariant, NEW t \in Thread, Deliver(t)
  PROVE  StageInvariant'
<1>1. /\ SourceTypeOK /\ StageTypeOK /\ OnSchedule /\ AnswersSound /\ SlotsSound
      /\ DeliveredIsClean /\ TemplateBudget /\ IsFiniteSet(DOMAIN slots)
  BY DEF StageInvariant, TypeOK
<1>2. /\ at[t] \in {"deliver", "failed"} /\ at' = [at EXCEPT ![t] = "idle"]
      /\ request' = [request EXCEPT ![t] = NoRequest]
      /\ answer' = [answer EXCEPT ![t] = Answered(NoImage)]
      /\ clean' = [clean EXCEPT ![t] = NoFrame]
      /\ stage' \in {"destroyed", stage}
      /\ UNCHANGED <<cached_sources, entries, handle, queue_vars, client,
                     scheduled, schedule, claimed, frame, cache_vars>>
  BY DEF Deliver
<1>3. /\ at \in [Caller -> OfThread \cup OfPrefetcher] /\ at[Prefetcher] \in OfPrefetcher
      /\ \A u \in Thread : at[u] \in OfThread
      /\ request \in [Caller -> Requests \cup {NoRequest}] /\ answer \in [Caller -> Answers]
  BY <1>1 DEF SourceTypeOK
<1>4. /\ at'[t] = "idle" /\ \A c \in Caller : c # t => at'[c] = at[c] /\ request'[c] = request[c]
                                                     /\ answer'[c] = answer[c]
  BY <1>2, <1>3 DEF Caller
<1>5. SourceTypeOK'
  <2>1. "idle" \in OfThread /\ Answered(NoImage) \in Answers
    BY DEF OfThread, Answered, Answers, NoImage, Image, Images
  <2>2. /\ at' \in [Caller -> OfThread \cup OfPrefetcher] /\ at'[Prefetcher] \in OfPrefetcher
        /\ \A u \in Thread : at'[u] \in OfThread
    BY <1>2, <1>3, <1>4, <2>1 DEF Caller
  <2>3. request' \in [Caller -> Requests \cup {NoRequest}] /\ answer' \in [Caller -> Answers]
    BY <1>2, <1>3, <2>1
  <2> QED BY <1>1, <1>2, <2>2, <2>3 DEF SourceTypeOK, queue_vars
<1>6. StageTypeOK'
  <2>1. NoFrame \in Cleans
    BY DEF NoFrame, Cleans, NoImage, Image, Images
  <2> QED BY <1>1, <1>2, <2>1 DEF StageTypeOK, cache_vars
<1>7. EntriesSound' /\ HandlesSound' /\ NothingLeaks'
  <2>1. \A c \in Caller : IF at'[c] \in {"enter", "decode"}
                            THEN at[c] \in {"enter", "decode"} /\ request'[c] = request[c]
                            ELSE at[c] \notin {"enter", "decode"}
    BY <1>2, <1>4
  <2> QED BY <1>2, <2>1, MemoryKept
<1>8. OnSchedule'
  <2>1. stage' # "scheduling"
    BY <1>1, <1>2 DEF OnSchedule
  <2>2. \A u \in Thread : at'[u] # "idle" => at[u] # "idle" /\ request'[u] = request[u]
    BY <1>4 DEF Caller
  <2>3. at'[Prefetcher] = at[Prefetcher] /\ request'[Prefetcher] = request[Prefetcher]
    BY <1>4 DEF Caller
  <2> QED BY <1>1, <1>2, <2>1, <2>2, <2>3 DEF OnSchedule, Section
<1>9. \A u \in Thread : at'[u] # "idle" => /\ at'[u] = at[u] /\ answer'[u] = answer[u]
                                            /\ clean'[u] = clean[u]
  <2>1. clean \in [Thread -> Cleans]
    BY <1>1 DEF StageTypeOK
  <2> QED BY <1>2, <1>4, <2>1 DEF Caller
<1>10. \A u \in Thread : Key(u)' = Key(u) /\ Wanted(frame[u])' = Wanted(frame[u])
  BY <1>2 DEF Key, Wanted, Section, Phase
<1>11. AnswersSound' /\ DeliveredIsClean'
  BY <1>1, <1>9, <1>10 DEF AnswersSound, DeliveredIsClean
<1>12. SlotsSound'
  BY <1>1, <1>2, <1>9, <1>10 DEF SlotsSound, cache_vars
<1>13. TemplateBudget' /\ IsFiniteSet(DOMAIN slots)'
  BY <1>1, <1>2 DEF TemplateBudget, cache_vars
<1> QED BY <1>5, <1>6, <1>7, <1>8, <1>11, <1>12, <1>13 DEF StageInvariant, TypeOK

LEMMA ClaimSound ==
  ASSUME StageInvariant, NEW t \in Thread, Claim(t)
  PROVE  StageInvariant'
<1>1. /\ SourceTypeOK /\ StageTypeOK /\ OnSchedule /\ AnswersSound /\ SlotsSound
      /\ DeliveredIsClean /\ TemplateBudget /\ IsFiniteSet(DOMAIN slots)
  BY DEF StageInvariant, TypeOK
<1>2. PICK f \in MayClaim(t) :
        /\ frame' = [frame EXCEPT ![t] = f]
        /\ request' = [request EXCEPT ![t] = [section |-> Section(f),
                                              index |-> schedule[f].index]]
  BY DEF Claim
<1>3. /\ stage = "running" /\ at[t] = "idle" /\ claimed' = claimed + 1
      /\ at' = [at EXCEPT ![t] = "prefetch"]
      /\ UNCHANGED <<cached_sources, entries, handle, answer, queue_vars, client,
                     stage, scheduled, schedule, cache_vars, clean>>
  BY DEF Claim
<1>4. f \in DOMAIN schedule /\ schedule \in Seq(Items)
  BY <1>1 DEF MayClaim, StageTypeOK
<1>5. schedule[f] \in Items /\ f \in Nat
  BY <1>4
<1> DEFINE asked == [section |-> Section(f), index |-> schedule[f].index]
<1>6. asked \in Requests
  BY <1>5 DEF Items, Sections, Section, Requests, ToSet
<1> HIDE DEF asked
<1>7. /\ at \in [Caller -> OfThread \cup OfPrefetcher] /\ at[Prefetcher] \in OfPrefetcher
      /\ \A u \in Thread : at[u] \in OfThread
      /\ request \in [Caller -> Requests \cup {NoRequest}]
  BY <1>1 DEF SourceTypeOK
<1>8. frame \in [Thread -> Nat] /\ claimed \in Nat
  BY <1>1 DEF StageTypeOK
<1>9. request' = [request EXCEPT ![t] = asked]
  BY <1>2 DEF asked
<1>10. /\ at'[t] = "prefetch" /\ frame'[t] = f /\ request'[t] = asked
       /\ \A c \in Caller : c # t => at'[c] = at[c] /\ request'[c] = request[c]
       /\ \A u \in Thread : u # t => frame'[u] = frame[u]
  BY <1>2, <1>3, <1>7, <1>8, <1>9 DEF Caller
<1>11. SourceTypeOK'
  <2>1. /\ at' \in [Caller -> OfThread \cup OfPrefetcher] /\ at'[Prefetcher] \in OfPrefetcher
        /\ \A u \in Thread : at'[u] \in OfThread
    <3>1. "prefetch" \in OfThread
      BY DEF OfThread
    <3> QED BY <1>3, <1>7, <1>10, <3>1 DEF Caller
  <2>2. request' \in [Caller -> Requests \cup {NoRequest}]
    BY <1>6, <1>7, <1>9
  <2> QED BY <1>1, <1>3, <2>1, <2>2 DEF SourceTypeOK, queue_vars
<1>12. StageTypeOK'
  <2>1. frame' \in [Thread -> Nat] /\ claimed' \in Nat
    BY <1>2, <1>3, <1>5, <1>8
  <2> QED BY <1>1, <1>3, <2>1 DEF StageTypeOK, cache_vars
<1>13. EntriesSound' /\ HandlesSound' /\ NothingLeaks'
  <2>1. \A c \in Caller : IF at'[c] \in {"enter", "decode"}
                            THEN at[c] \in {"enter", "decode"} /\ request'[c] = request[c]
                            ELSE at[c] \notin {"enter", "decode"}
    BY <1>3, <1>10
  <2> QED BY <1>3, <2>1, MemoryKept
<1>14. OnSchedule'
  <2>1. stage' # "scheduling"
    BY <1>3
  <2>2. ASSUME NEW u \in Thread, at'[u] # "idle"
        PROVE  /\ frame'[u] \in DOMAIN schedule'
               /\ request'[u] = [section |-> Section(frame[u])',
                                 index |-> schedule'[frame'[u]].index]
    <3>1. schedule' = schedule
      BY <1>3
    <3>2. CASE u = t
      BY <3>1, <3>2, <1>4, <1>10 DEF asked, Section
    <3>3. CASE u # t
      <4>1. at[u] # "idle" /\ request'[u] = request[u] /\ frame'[u] = frame[u]
        BY <3>3, <2>2, <1>10 DEF Caller
      <4>2. /\ frame[u] \in DOMAIN schedule
            /\ request[u] = [section |-> Section(frame[u]),
                             index |-> schedule[frame[u]].index]
        BY <4>1, <1>1 DEF OnSchedule
      <4> QED BY <3>1, <4>1, <4>2 DEF Section
    <3> QED BY <3>2, <3>3
  <2>3. at'[Prefetcher] = at[Prefetcher] /\ request'[Prefetcher] = request[Prefetcher]
    BY <1>10 DEF Caller
  <2> QED BY <1>1, <2>1, <2>2, <2>3 DEF OnSchedule
<1>15. \A u \in Thread : at'[u] \in {"template", "once", "build", "deliver"} =>
         /\ at'[u] = at[u] /\ Key(u)' = Key(u) /\ Wanted(frame[u])' = Wanted(frame[u])
  BY <1>3, <1>10 DEF Key, Wanted, Section, Phase, Caller
<1>16. AnswersSound' /\ DeliveredIsClean' /\ SlotsSound'
  BY <1>1, <1>3, <1>15 DEF AnswersSound, DeliveredIsClean, SlotsSound, cache_vars
<1>17. TemplateBudget' /\ IsFiniteSet(DOMAIN slots)'
  BY <1>1, <1>3 DEF TemplateBudget, cache_vars
<1> QED BY <1>11, <1>12, <1>13, <1>14, <1>16, <1>17 DEF StageInvariant, TypeOK

(* Steps that change no thread's frame, nor anything of the stage but its  *)
(* progress to its end.                                                    *)
LEMMA ElsewhereSound ==
  ASSUME StageInvariant, SourceTypeOK',
         UNCHANGED <<cached_sources, entries, handle, answer, client, scheduled,
                     schedule, claimed, frame, cache_vars, clean>>,
         stage' \in {stage, "destroyed", "join", "gone"},
         \A u \in Thread :
           /\ request'[u] = request[u]
           /\ at'[u] = at[u] \/ (at[u] = "prefetch" /\ at'[u] = "acquire"),
         stage' # "scheduling" \/ at'[Prefetcher] = at[Prefetcher],
         \/ at'[Prefetcher] = at[Prefetcher] /\ request'[Prefetcher] = request[Prefetcher]
         \/ /\ {at[Prefetcher], at'[Prefetcher]} \cap {"enter", "decode"} = {}
            /\ at'[Prefetcher] = "acquire" => request'[Prefetcher] \in Requests
  PROVE  StageInvariant'
<1>1. /\ StageTypeOK /\ OnSchedule /\ AnswersSound /\ SlotsSound
      /\ DeliveredIsClean /\ TemplateBudget /\ IsFiniteSet(DOMAIN slots)
  BY DEF StageInvariant, TypeOK
<1>2. /\ StageTypeOK' /\ TemplateBudget' /\ IsFiniteSet(DOMAIN slots)'
  BY <1>1 DEF StageTypeOK, TemplateBudget, cache_vars
<1>3. EntriesSound' /\ HandlesSound' /\ NothingLeaks'
  <2>1. \A c \in Caller : IF at'[c] \in {"enter", "decode"}
                            THEN at[c] \in {"enter", "decode"} /\ request'[c] = request[c]
                            ELSE at[c] \notin {"enter", "decode"}
    <3> SUFFICES ASSUME NEW c \in Caller
                 PROVE  IF at'[c] \in {"enter", "decode"}
                          THEN at[c] \in {"enter", "decode"} /\ request'[c] = request[c]
                          ELSE at[c] \notin {"enter", "decode"}
      OBVIOUS
    <3>1. CASE c \in Thread
      BY <3>1
    <3>2. CASE c = Prefetcher
      BY <3>2
    <3> QED BY <3>1, <3>2 DEF Caller
  <2> QED BY <2>1, MemoryKept
<1>4. OnSchedule'
  <2>1. stage' = "scheduling" => /\ scheduled' < Len(Project) /\ at'[Prefetcher] = "absent"
                                 /\ \A u \in Thread : at'[u] = "idle"
    BY <1>1 DEF OnSchedule
  <2>2. \A u \in Thread : at'[u] # "idle" => at[u] # "idle" /\ request'[u] = request[u]
    OBVIOUS
  <2>3. at'[Prefetcher] \in InSource => request'[Prefetcher] \in Requests
    BY <1>1 DEF OnSchedule, InSource
  <2> QED BY <1>1, <2>1, <2>2, <2>3 DEF OnSchedule, Section
<1>5. \A u \in Thread : at'[u] \in {"template", "once", "build", "deliver"} =>
        /\ at'[u] = at[u] /\ Key(u)' = Key(u) /\ Wanted(frame[u])' = Wanted(frame[u])
  BY DEF Key, Wanted, Section, Phase
<1>6. AnswersSound' /\ DeliveredIsClean' /\ SlotsSound'
  BY <1>1, <1>5 DEF AnswersSound, DeliveredIsClean, SlotsSound, cache_vars
<1> QED BY <1>2, <1>3, <1>4, <1>6 DEF StageInvariant, TypeOK

LEMMA PrefetchNextSound ==
  ASSUME StageInvariant, NEW t \in Thread, PrefetchNext(t)
  PROVE  StageInvariant'
<1> DEFINE section == schedule[frame[t]].section
<1>1. /\ at \in [Caller -> OfThread \cup OfPrefetcher] /\ at[Prefetcher] \in OfPrefetcher
      /\ \A u \in Thread : at[u] \in OfThread
      /\ prefetch_queue \in Seq(Requests) /\ prefetch_waiting \in BOOLEAN
  BY DEF StageInvariant, TypeOK, SourceTypeOK
<1>2. PICK ahead \in BOOLEAN, l \in {"loop", at[Prefetcher]} :
        /\ ahead => section + 1 \in Sections
        /\ prefetch_queue' = IF ahead THEN Prefetched(Project[section + 1],
                                                      Project[section + 1].start)
                             ELSE prefetch_queue
        /\ l # at[Prefetcher] => at[Prefetcher] = "absent"
        /\ at' = [at EXCEPT ![t] = "acquire", ![Prefetcher] = l]
  BY <1>1 DEF PrefetchNext, Caller
<1>3. /\ at[t] = "prefetch" /\ prefetch_waiting' \in BOOLEAN
      /\ UNCHANGED <<cached_sources, entries, request, handle, answer,
                     prefetch_stopping, stage_vars>>
  BY <1>1 DEF PrefetchNext
<1>4. prefetch_queue' \in Seq(Requests)
  <2>1. CASE ahead
    <3> DEFINE next == Project[section + 1]
               asked == [section |-> next, index |-> next.start]
    <3>1. next \in SectionType /\ next \in ToSet(Project)
      BY <1>2, <2>1, ProjectAssumption DEF Sections, ToSet
    <3>2. asked \in Requests
      BY <3>1 DEF SectionType, Requests
    <3>3. prefetch_queue' \in {prefetch_queue, Append(prefetch_queue, asked)}
      BY <1>2, <2>1 DEF Prefetched
    <3> HIDE DEF asked
    <3> QED BY <1>1, <3>2, <3>3
  <2>2. CASE ~ahead
    BY <1>1, <1>2, <2>2
  <2> QED BY <2>1, <2>2
<1> HIDE DEF section
<1>5. /\ at'[t] = "acquire" /\ at'[Prefetcher] = l
      /\ \A u \in Thread : u # t => at'[u] = at[u]
  BY <1>1, <1>2 DEF Caller
<1>6. SourceTypeOK'
  <2>1. "acquire" \in OfThread /\ l \in OfPrefetcher
    BY <1>1 DEF OfThread, OfPrefetcher, InSource
  <2>2. /\ at' \in [Caller -> OfThread \cup OfPrefetcher] /\ at'[Prefetcher] \in OfPrefetcher
        /\ \A u \in Thread : at'[u] \in OfThread
    BY <1>1, <1>2, <1>5, <2>1
  <2> QED BY <1>3, <1>4, <2>2 DEF StageInvariant, TypeOK, SourceTypeOK
<1>7. stage # "scheduling"
  BY <1>3 DEF StageInvariant, OnSchedule
<1>8. \A u \in Thread : /\ request'[u] = request[u]
                        /\ at'[u] = at[u] \/ (at[u] = "prefetch" /\ at'[u] = "acquire")
  BY <1>3, <1>5
<1>9. \/ at'[Prefetcher] = at[Prefetcher] /\ request'[Prefetcher] = request[Prefetcher]
      \/ /\ {at[Prefetcher], at'[Prefetcher]} \cap {"enter", "decode"} = {}
         /\ at'[Prefetcher] = "acquire" => request'[Prefetcher] \in Requests
  BY <1>2, <1>3, <1>5
<1>10. /\ UNCHANGED <<cached_sources, entries, handle, answer, client, scheduled,
                      schedule, claimed, frame, cache_vars, clean>>
       /\ stage' = stage
  BY <1>3 DEF stage_vars
<1> QED BY <1>6, <1>7, <1>8, <1>9, <1>10, ElsewhereSound

LEMMA PrefetchLoopSound ==
  ASSUME StageInvariant, PrefetchLoop, UNCHANGED stage_vars
  PROVE  StageInvariant'
<1>1. /\ at \in [Caller -> OfThread \cup OfPrefetcher] /\ at[Prefetcher] \in OfPrefetcher
      /\ \A u \in Thread : at[u] \in OfThread
      /\ request \in [Caller -> Requests \cup {NoRequest}]
      /\ prefetch_queue \in Seq(Requests) /\ prefetch_waiting \in BOOLEAN
      /\ prefetch_stopping \in BOOLEAN
  BY DEF StageInvariant, TypeOK, SourceTypeOK
<1>2. /\ at[Prefetcher] = "loop"
      /\ UNCHANGED <<cached_sources, entries, handle, answer>>
  BY DEF PrefetchLoop
<1>3. stage # "scheduling"
  BY <1>2 DEF StageInvariant, OnSchedule
<1>4. UNCHANGED <<client, scheduled, schedule, claimed, frame, cache_vars, clean>> /\ stage' = stage
  BY DEF stage_vars
<1>5. PICK l \in {"loop", "exited", "acquire"}, r \in Requests \cup {NoRequest} :
        /\ at' = [at EXCEPT ![Prefetcher] = l]
        /\ request' = [request EXCEPT ![Prefetcher] = r]
        /\ l = "acquire" => r \in Requests
        /\ prefetch_queue' \in Seq(Requests)
        /\ prefetch_waiting' \in BOOLEAN /\ prefetch_stopping' \in BOOLEAN
  <2>1. request[Prefetcher] \in Requests \cup {NoRequest}
        /\ request = [request EXCEPT ![Prefetcher] = request[Prefetcher]]
        /\ at = [at EXCEPT ![Prefetcher] = at[Prefetcher]]
    BY <1>1 DEF Caller
  <2>2. CASE prefetch_stopping
    BY <1>1, <2>1, <2>2 DEF PrefetchLoop, queue_vars
  <2>3. CASE prefetch_queue = <<>> /\ ~prefetch_stopping
    BY <1>1, <1>2, <2>1, <2>3 DEF PrefetchLoop
  <2>4. CASE prefetch_queue # <<>> /\ ~prefetch_stopping
    <3>1. Head(prefetch_queue) \in Requests /\ Tail(prefetch_queue) \in Seq(Requests)
      BY <1>1, <2>4
    <3> QED BY <1>1, <2>4, <3>1 DEF PrefetchLoop
  <2> QED BY <2>2, <2>3, <2>4
<1>6. /\ at'[Prefetcher] = l /\ request'[Prefetcher] = r
      /\ \A u \in Thread : at'[u] = at[u] /\ request'[u] = request[u]
  BY <1>1, <1>5 DEF Caller
<1>7. SourceTypeOK'
  <2>1. l \in OfPrefetcher
    BY DEF OfPrefetcher, InSource
  <2>2. /\ at' \in [Caller -> OfThread \cup OfPrefetcher] /\ at'[Prefetcher] \in OfPrefetcher
        /\ \A u \in Thread : at'[u] \in OfThread
        /\ request' \in [Caller -> Requests \cup {NoRequest}]
    BY <1>1, <1>5, <1>6, <2>1
  <2> QED BY <1>2, <1>5, <2>2 DEF StageInvariant, TypeOK, SourceTypeOK
<1>8. /\ {at[Prefetcher], at'[Prefetcher]} \cap {"enter", "decode"} = {}
      /\ at'[Prefetcher] = "acquire" => request'[Prefetcher] \in Requests
  BY <1>2, <1>5, <1>6
<1> QED BY <1>2, <1>3, <1>4, <1>6, <1>7, <1>8, ElsewhereSound

(* The steps of the client and of the destructor.                          *)
LEMMA EndSound ==
  ASSUME StageInvariant, Leave \/ Destroy \/ UNCHANGED vars
  PROVE  StageInvariant'
<1>1. /\ UNCHANGED <<cached_sources, entries, at, request, handle, answer, client,
                     scheduled, schedule, claimed, frame, cache_vars, clean>>
      /\ stage' \in {stage, "destroyed", "join", "gone"}
      /\ prefetch_queue' \in {prefetch_queue, <<>>}
      /\ prefetch_waiting' \in {prefetch_waiting, FALSE}
      /\ prefetch_stopping' \in {prefetch_stopping, TRUE}
  BY DEF Leave, Destroy, StopPrefetch, JoinPrefetch, vars, source_vars, stage_vars, queue_vars
<1>2. SourceTypeOK
  BY DEF StageInvariant, TypeOK
<1>3. SourceTypeOK'
  <2>1. /\ prefetch_queue \in Seq(Requests) /\ prefetch_waiting \in BOOLEAN
        /\ prefetch_stopping \in BOOLEAN
    BY <1>2 DEF SourceTypeOK
  <2>2. prefetch_queue' \in Seq(Requests)
    <3>1. <<>> \in Seq(Requests)
      OBVIOUS
    <3> QED BY <1>1, <2>1, <3>1
  <2>3. prefetch_waiting' \in BOOLEAN /\ prefetch_stopping' \in BOOLEAN
    BY <1>1, <2>1
  <2> QED BY <1>1, <1>2, <2>2, <2>3 DEF SourceTypeOK
<1> QED BY <1>1, <1>3, ElsewhereSound

(* The disc frame of the k-th frame of a section is a frame number.        *)
LEMMA DiscFrameType ==
  ASSUME NEW section \in SectionType, NEW k \in Nat \ {0}, schedule \in Seq(Items)
  PROVE  DiscFrame(section, k) \in Nat
<1>1. InitialFrameOffset \in Nat
  <2>1. CASE Numbered = {}
    BY <2>1 DEF InitialFrameOffset
  <2>2. CASE Numbered # {}
    <3> DEFINE first == CHOOSE s \in Numbered : \A r \in Numbered : s <= r
    <3>1. Numbered \subseteq Nat
      BY ProjectAssumption DEF Numbered, Sections
    <3>2. first \in Numbered
      BY <2>2, <3>1, SmallestOf
    <3>3. Project[first] \in SectionType /\ Project[first].number > 1
      BY <3>2, ProjectAssumption DEF Numbered, Sections
    <3>4. InitialFrameOffset = Project[first].number - 1
      BY <2>2 DEF InitialFrameOffset
    <3> HIDE DEF first
    <3> QED BY <3>3, <3>4 DEF SectionType
  <2> QED BY <2>1, <2>2
<1>2. section.number \in Nat /\ Len(schedule) \in Nat
  BY DEF SectionType
<1> QED BY <1>1, <1>2 DEF DiscFrame

(* The indices of a section's frames.                                      *)
LEMMA SectionFramesType ==
  ASSUME NEW section \in SectionType, NEW length \in Nat \ {0}
  PROVE  SectionFrames(section, length) \in Seq(Nat)
<1>1. section.repeat \in Nat /\ section.start \in Nat /\ section.duration \in Nat
  BY DEF SectionType
<1>2. CASE section.all
  <2> DEFINE n == length * section.repeat
             index(k) == ((k - 1) % length) + section.start
  <2>1. n \in Nat
    BY <1>1
  <2>2. \A k \in Nat \ {0} : index(k) \in Nat
    BY <1>1
  <2>3. SectionFrames(section, length) = [k \in 1 .. n |-> index(k)]
    BY <1>2 DEF SectionFrames
  <2> HIDE DEF n, index
  <2>4. [k \in 1 .. n |-> index(k)] \in Seq(Nat)
    BY <2>1, <2>2
  <2> QED BY <2>3, <2>4
<1>3. CASE ~section.all
  BY <1>1, <1>3 DEF SectionFrames
<1> QED BY <1>2, <1>3

(* What scheduling a section leaves in memory.                             *)
LEMMA ScheduledMemory ==
  ASSUME StageInvariant, UNCHANGED <<at, handle, request>>,
         \A c \in Caller : at[c] \notin {"enter", "decode"},
         NEW memory \in [Entry -> EntryType],
         \A e \in Entry : \A k \in DOMAIN memory[e].frames :
           /\ memory[e].source # None
           /\ memory[e].frames[k] = Image(memory[e].source, k - 1),
         cached_sources' \in Seq(Entry), Len(cached_sources') <= MaxCachedSources,
         entries' = Alive(memory, cached_sources', handle')
  PROVE  /\ entries' \in [Entry -> EntryType]
         /\ EntriesSound' /\ HandlesSound' /\ NothingLeaks'
<1>1. /\ memory \in [Entry -> EntryType] /\ entries' = Alive(memory, cached_sources', handle')
      /\ \A e \in Entry : \A k \in DOMAIN memory[e].frames :
           memory[e].source # None /\ memory[e].frames[k] = Image(memory[e].source, k - 1)
  OBVIOUS
<1>2. /\ entries' \in [Entry -> EntryType]
      /\ \A e \in Entry : entries'[e].source # None =>
           e \in Referenced(cached_sources', handle')
      /\ \A e \in Entry : \A k \in DOMAIN entries'[e].frames :
           /\ entries'[e].source # None
           /\ entries'[e].frames[k] = Image(entries'[e].source, k - 1)
  BY ONLY <1>1, AliveSound
<1>3. HandlesSound'
  BY DEF StageInvariant, HandlesSound
<1> QED BY <1>2, <1>3 DEF EntriesSound, NothingLeaks

(* The part of the schedule a section adds.                                *)
LEMMA SectionScheduled ==
  ASSUME StageInvariant, stage = "scheduling",
         schedule' = LET section == Project[scheduled + 1]
                         indices == SectionFrames(section, Len(File(section.source)))
                     IN schedule \o
                          [k \in DOMAIN indices |->
                             [section |-> scheduled + 1, index |-> indices[k],
                              disc |-> DiscFrame(section, k)]]
  PROVE  schedule' \in Seq(Items)
<1> DEFINE section == Project[scheduled + 1]
           indices == SectionFrames(section, Len(File(section.source)))
           item(k) == [section |-> scheduled + 1, index |-> indices[k],
                       disc |-> DiscFrame(section, k)]
           part == [k \in DOMAIN indices |-> item(k)]
<1>1. scheduled + 1 \in Sections /\ schedule \in Seq(Items)
  BY ProjectAssumption DEF StageInvariant, OnSchedule, TypeOK, StageTypeOK, Sections
<1>2. section \in SectionType /\ section.source \in Source
  BY <1>1, SectionOf
<1>3. indices \in Seq(Nat)
  <2>1. Len(File(section.source)) \in Nat \ {0}
    BY <1>2, FileFrames
  <2> QED BY <1>2, <2>1, SectionFramesType
<1>4. schedule' = schedule \o part
  OBVIOUS
<1> HIDE DEF section, indices
<1>5. \A k \in DOMAIN indices : k \in Nat \ {0} /\ indices[k] \in Nat
  BY <1>3
<1>6. \A k \in DOMAIN indices : DiscFrame(section, k) \in Nat
  BY <1>1, <1>2, <1>5, DiscFrameType
<1>7. \A k \in DOMAIN indices : item(k) \in Items
  BY <1>1, <1>5, <1>6 DEF Items
<1> HIDE DEF item
<1>8. part \in Seq(Items)
  <2>1. part = [k \in DOMAIN indices |-> part[k]] /\ \A k \in DOMAIN indices : part[k] \in Items
    BY <1>7
  <2> HIDE DEF part
  <2> QED BY <1>3, <2>1, SameLength
<1> HIDE DEF part
<1> QED BY ONLY <1>1, <1>4, <1>8, Joined

LEMMA ScheduleSectionSound ==
  ASSUME StageInvariant, ScheduleSection
  PROVE  StageInvariant'
<1> DEFINE section == Project[scheduled + 1]
           source  == section.source
           counted == section.all /\ source \in Clip
           found   == CacheEntry(source)
           resolved == ResolvedIn(found, source)
<1>1. /\ SourceTypeOK /\ StageTypeOK /\ OnSchedule /\ AnswersSound /\ SlotsSound
      /\ DeliveredIsClean /\ TemplateBudget /\ IsFiniteSet(DOMAIN slots)
      /\ EntriesSound /\ HandlesSound /\ NothingLeaks
  BY DEF StageInvariant, TypeOK
<1>2. /\ stage = "scheduling"
      /\ UNCHANGED <<at, request, handle, answer, queue_vars, client, claimed,
                     frame, cache_vars, clean>>
      /\ cached_sources' = IF counted THEN found.table ELSE cached_sources
  BY DEF ScheduleSection
<1>3. \/ /\ schedule' = schedule \o
              [k \in DOMAIN SectionFrames(section, Len(File(source))) |->
                 [section |-> scheduled + 1,
                  index |-> SectionFrames(section, Len(File(source)))[k],
                  disc |-> DiscFrame(section, k)]]
         /\ entries' = IF counted THEN Alive(resolved, cached_sources', handle)
                                  ELSE entries
         /\ scheduled' = scheduled + 1
         /\ stage' = IF scheduled' = Len(Project) THEN "running" ELSE stage
      \/ /\ counted /\ stage' = "destroyed"
         /\ entries' = Alive(found.entries, cached_sources', handle)
         /\ UNCHANGED <<schedule, scheduled>>
  BY DEF ScheduleSection
<1>4. /\ at[Prefetcher] = "absent" /\ \A t \in Thread : at[t] = "idle"
      /\ scheduled < Len(Project) /\ scheduled \in Nat /\ schedule \in Seq(Items)
  BY <1>1, <1>2, ProjectAssumption DEF OnSchedule, StageTypeOK
<1>5. \A c \in Caller : at[c] \notin {"enter", "decode"}
  BY <1>4 DEF Caller
<1>6. section \in SectionType /\ source \in Source
  <2>1. scheduled + 1 \in Sections
    BY <1>4, ProjectAssumption DEF Sections
  <2> QED BY <2>1, SectionOf
<1>7. Prefetcher \in Caller /\ handle[Prefetcher] = None
  BY <1>1, <1>5 DEF HandlesSound, Caller
<1>8. /\ found.entry \in Entry /\ found.entries \in [Entry -> EntryType]
      /\ found.entries[found.entry].source = source
      /\ found.table \in Seq(Entry) /\ Len(found.table) <= MaxCachedSources
      /\ \A e \in Entry : \A k \in DOMAIN found.entries[e].frames :
           /\ found.entries[e].source # None
           /\ found.entries[e].frames[k] = Image(found.entries[e].source, k - 1)
  BY <1>1, <1>6, <1>7, CacheEntrySound DEF TypeOK
<1> HIDE DEF found
<1>9. /\ resolved \in [Entry -> EntryType]
      /\ \A e \in Entry : \A k \in DOMAIN resolved[e].frames :
           /\ resolved[e].source # None
           /\ resolved[e].frames[k] = Image(resolved[e].source, k - 1)
  <2> DEFINE old == found.entries[found.entry]
             new == Decoded(old, source, 0, TRUE)
  <2>1. old \in EntryType /\ old.source = source /\ source # None
    BY <1>6, <1>8 DEF Source
  <2>2. /\ new \in EntryType /\ new.source = source
        /\ \A k \in DOMAIN new.frames : new.frames[k] = Image(source, k - 1)
    <3> HIDE DEF old, source
    <3>1. 0 \in Nat /\ TRUE \in BOOLEAN
      OBVIOUS
    <3> QED BY ONLY <1>6, <2>1, <3>1, DecodedSound DEF new
  <2>3. resolved \in {found.entries, [found.entries EXCEPT ![found.entry] = new]}
    BY <1>8 DEF ResolvedIn
  <2> HIDE DEF new, old
  <2> QED BY <1>8, <2>1, <2>2, <2>3
<1> HIDE DEF resolved
<1>10. /\ cached_sources' \in Seq(Entry) /\ Len(cached_sources') <= MaxCachedSources
  BY <1>1, <1>2, <1>8 DEF NothingLeaks, SourceTypeOK
<1>11. UNCHANGED <<at, handle, request>> /\ handle' = handle
  BY <1>2
<1>12. /\ entries' \in [Entry -> EntryType]
       /\ EntriesSound' /\ HandlesSound' /\ NothingLeaks'
  <2>1. CASE entries' = Alive(resolved, cached_sources', handle)
    BY <1>5, <1>9, <1>10, <1>11, <2>1, ScheduledMemory
  <2>2. CASE entries' = Alive(found.entries, cached_sources', handle)
    BY <1>5, <1>8, <1>10, <1>11, <2>2, ScheduledMemory
  <2>3. CASE ~counted /\ entries' = entries
    BY <1>1, <1>2, <2>3 DEF SourceTypeOK, EntriesSound, HandlesSound, NothingLeaks
  <2> QED BY <1>3, <2>1, <2>2, <2>3
<1>13. schedule' \in Seq(Items)
  <2>1. CASE UNCHANGED schedule
    BY <1>4, <2>1
  <2>2. CASE ~UNCHANGED schedule
    BY <1>2, <1>3, <2>2, SectionScheduled
  <2> QED BY <2>1, <2>2
<1>14. /\ scheduled' \in 0 .. Len(Project)
       /\ stage' \in {"scheduling", "running", "destroyed"}
       /\ stage' = "scheduling" => scheduled' < Len(Project)
  <2>1. Len(Project) \in Nat
    BY ProjectAssumption
  <2> QED BY <1>2, <1>3, <1>4, <2>1
<1> HIDE DEF section, source, counted
<1>15. SourceTypeOK'
  BY <1>1, <1>2, <1>10, <1>12 DEF SourceTypeOK, queue_vars
<1>16. StageTypeOK'
  BY <1>1, <1>2, <1>13, <1>14 DEF StageTypeOK, cache_vars
<1>17. OnSchedule'
  BY <1>2, <1>4, <1>14 DEF OnSchedule, InSource
<1>18. AnswersSound' /\ DeliveredIsClean' /\ SlotsSound'
  BY <1>1, <1>2, <1>4 DEF AnswersSound, DeliveredIsClean, SlotsSound, cache_vars
<1>19. TemplateBudget' /\ IsFiniteSet(DOMAIN slots)'
  BY <1>1, <1>2 DEF TemplateBudget, cache_vars
<1> QED BY <1>12, <1>15, <1>16, <1>17, <1>18, <1>19 DEF StageInvariant, TypeOK

-------------------------------------------------------------------------------
LEMMA StageInit == Init => StageInvariant
<1> SUFFICES ASSUME Init PROVE StageInvariant
  OBVIOUS
<1> USE DEF Init, SourceInit
<1>1. /\ Freed \in EntryType /\ Freed.source = None /\ DOMAIN Freed.frames = {}
      /\ Answered(NoImage) \in Answers /\ NoFrame \in Cleans
  <2>1. Freed \in EntryType /\ Freed.source = None /\ DOMAIN Freed.frames = {}
    BY DEF Freed, NewEntry, EntryType
  <2>2. NoImage \in Images
    BY DEF NoImage, Image, Images
  <2>3. Answered(NoImage) \in Answers /\ NoFrame \in Cleans
    BY <2>2 DEF Answered, Answers, NoFrame, Cleans
  <2> QED BY <2>1, <2>3
<1>2. /\ at[Prefetcher] = "absent" /\ \A t \in Thread : at[t] = "idle"
      /\ at \in [Caller -> {"absent", "idle"}]
  BY DEF Caller
<1>3. SourceTypeOK
  <2>1. /\ at \in [Caller -> OfThread \cup OfPrefetcher] /\ at[Prefetcher] \in OfPrefetcher
        /\ \A t \in Thread : at[t] \in OfThread
    BY <1>2 DEF OfThread, OfPrefetcher
  <2>2. cached_sources \in Seq(Entry) /\ prefetch_queue \in Seq(Requests)
    OBVIOUS
  <2> QED BY <1>1, <2>1, <2>2 DEF SourceTypeOK
<1>4. /\ DOMAIN slots = {} /\ requested_once = {} /\ reserved = 0
      /\ IsFiniteSet(DOMAIN slots) /\ Cardinality(DOMAIN slots) = 0
  BY FS_EmptySet
<1>5. Len(Project) \in Nat /\ 0 < Len(Project)
  BY ProjectAssumption
<1>6. StageTypeOK
  <2>1. schedule \in Seq(Items)
    OBVIOUS
  <2> QED BY <1>1, <1>4, <1>5, <2>1 DEF StageTypeOK
<1>7. OnSchedule
  BY <1>2, <1>5 DEF OnSchedule, InSource
<1>8. EntriesSound /\ HandlesSound /\ NothingLeaks
  BY <1>1, <1>2 DEF EntriesSound, HandlesSound, NothingLeaks
<1>9. AnswersSound /\ SlotsSound /\ DeliveredIsClean
  BY <1>2, <1>4 DEF AnswersSound, SlotsSound, DeliveredIsClean
<1>10. TemplateBudget
  BY <1>4 DEF TemplateBudget
<1> QED BY <1>3, <1>4, <1>6, <1>7, <1>8, <1>9, <1>10 DEF StageInvariant, TypeOK

LEMMA StageStep == StageInvariant /\ [Next]_vars => StageInvariant'
<1> SUFFICES ASSUME StageInvariant, [Next]_vars PROVE StageInvariant'
  OBVIOUS
<1>1. CASE ScheduleSection
  BY <1>1, ScheduleSectionSound
<1>2. ASSUME NEW t \in Thread, Claim(t) PROVE StageInvariant'
  BY <1>2, ClaimSound
<1>3. ASSUME NEW t \in Thread, ThreadStep(t) PROVE StageInvariant'
  <2>1. t \in Caller
    BY DEF Caller
  <2>2. CASE PrefetchNext(t)
    BY <2>2, PrefetchNextSound
  <2>3. CASE AcquireCacheEntry(t) /\ UNCHANGED stage_vars
    BY <2>1, <2>3, AcquireCacheEntrySound
  <2>4. CASE Enter(t) /\ UNCHANGED stage_vars
    BY <2>1, <2>4, EnterSound
  <2>5. CASE Decode(t) /\ UNCHANGED stage_vars
    BY <2>1, <2>5, DecodeSound
  <2>6. CASE AcquireTemplate(t)
    BY <2>6, AcquireTemplateSound
  <2>7. CASE CallOnce(t)
    BY <2>7, CallOnceSound
  <2>8. CASE BuildTemplate(t)
    BY <2>8, BuildTemplateSound
  <2>9. CASE Deliver(t)
    BY <2>9, DeliverSound
  <2> QED BY <1>3, <2>2, <2>3, <2>4, <2>5, <2>6, <2>7, <2>8, <2>9 DEF ThreadStep, SourceStep
<1>4. CASE PrefetchStep /\ UNCHANGED stage_vars
  <2>1. Prefetcher \in Caller
    BY DEF Caller
  <2>2. CASE PrefetchLoop
    BY <1>4, <2>2, PrefetchLoopSound
  <2>3. CASE AcquireCacheEntry(Prefetcher)
    BY <1>4, <2>1, <2>3, AcquireCacheEntrySound
  <2>4. CASE Enter(Prefetcher)
    BY <1>4, <2>1, <2>4, EnterSound
  <2>5. CASE Decode(Prefetcher)
    BY <1>4, <2>1, <2>5, DecodeSound
  <2> QED BY <1>4, <2>2, <2>3, <2>4, <2>5 DEF PrefetchStep, SourceStep
<1>5. CASE Leave \/ Destroy \/ Gone \/ UNCHANGED vars
  BY <1>5, EndSound DEF Gone
<1> QED BY <1>1, <1>2, <1>3, <1>4, <1>5 DEF Next

-------------------------------------------------------------------------------
(***************************************************************************)
(* StageInvariant is inductive: the generation stage keeps its schedule,   *)
(* its decoded sources and its templates in order (generation_stage.cpp    *)
(* and progressive_frame_source.cpp).                                      *)
(***************************************************************************)
THEOREM StageKept == Spec => []StageInvariant
<1>1. Init => StageInvariant
  BY StageInit
<1>2. StageInvariant /\ [Next]_vars => StageInvariant'
  BY StageStep
<1> QED BY <1>1, <1>2, PTL DEF Spec

(* Every variable of the stage and of its frame source keeps its type.     *)
THEOREM StageTypes == Spec => []TypeOK
<1>1. StageInvariant => TypeOK
  BY DEF StageInvariant
<1> QED BY <1>1, StageKept, PTL

(***************************************************************************)
(* GenerateFrameBatch never delivers another frame's picture or colour     *)
(* phase, however many threads share the caches of sources and templates.  *)
(***************************************************************************)
THEOREM CleanFramesDelivered == Spec => []DeliveredIsClean
<1>1. StageInvariant => DeliveredIsClean
  BY DEF StageInvariant
<1> QED BY <1>1, StageKept, PTL

(* TemplateCache::Acquire never admits more than the capacity, and counts  *)
(* every template it admitted.                                             *)
THEOREM TemplatesWithinBudget == Spec => []TemplateBudget
<1>1. StageInvariant => TemplateBudget
  BY DEF StageInvariant
<1> QED BY <1>1, StageKept, PTL

(***************************************************************************)
(* Memory for decoded sources is bounded by kMaxCachedSources and by the   *)
(* callers that use one, whatever is evicted while in use.                 *)
(***************************************************************************)
THEOREM DecodedSourcesBounded == Spec => []CacheBounded
<1>1. StageInvariant => CacheBounded
  <2> SUFFICES ASSUME StageInvariant PROVE CacheBounded
    OBVIOUS
  <2> DEFINE users == {c \in Caller : at[c] \in {"enter", "decode"}}
             held  == {handle[c] : c \in users}
             table == ToSet(cached_sources)
             live  == {e \in Entry : entries[e].source # None}
  <2>1. TypeOK /\ HandlesSound /\ NothingLeaks
    BY DEF StageInvariant
  <2>2. cached_sources \in Seq(Entry) /\ Len(cached_sources) <= MaxCachedSources
        /\ Len(cached_sources) \in Nat
    BY <2>1, TableFacts
  <2>3. /\ IsFiniteSet(table) /\ Cardinality(table) <= Len(cached_sources)
        /\ Cardinality(table) \in Nat
    BY <2>2, TableIsFinite, FS_CardinalityType
  <2>4. /\ IsFiniteSet(held) /\ Cardinality(held) <= Cardinality(users)
        /\ Cardinality(users) \in Nat /\ Cardinality(held) \in Nat
    BY users \in SUBSET Caller, HandlesAreFinite
  <2>5. live \subseteq table \cup held
    <3> SUFFICES ASSUME NEW e \in Entry, entries[e].source # None
                 PROVE  e \in table \cup held
      OBVIOUS
    <3>1. e \in Referenced(cached_sources, handle) /\ e # None
      BY <2>1, EntryAssumption DEF NothingLeaks
    <3>2. \A c \in Caller : handle[c] = e => c \in users
      BY <2>1, <3>1 DEF HandlesSound
    <3> QED BY <3>1, <3>2 DEF Referenced
  <2> HIDE DEF table, held, users, live
  <2>6. /\ IsFiniteSet(table \cup held)
        /\ Cardinality(table \cup held)
             = Cardinality(table) + Cardinality(held) - Cardinality(table \cap held)
        /\ Cardinality(table \cap held) \in Nat
    BY <2>3, <2>4, FS_Union, FS_Intersection, FS_CardinalityType
  <2>7. /\ Cardinality(live) <= Cardinality(table \cup held)
        /\ Cardinality(live) \in Nat /\ Cardinality(table \cup held) \in Nat
    BY <2>5, <2>6, FS_Subset, FS_CardinalityType
  <2>8. Cardinality(live) <= MaxCachedSources + Cardinality(users)
    BY <2>2, <2>3, <2>4, <2>6, <2>7
  <2> QED BY <2>8 DEF CacheBounded, live, users
<1> QED BY <1>1, StageKept, PTL

-------------------------------------------------------------------------------
(* What the entries hold, and that they only gain (SourceInvariant).       *)

LEMMA DecodedFits ==
  ASSUME NEW entry \in EntryType, NEW source \in Source, entry.source = source,
         FitsFile(entry), NEW required \in Nat, NEW complete \in BOOLEAN,
         complete \/ required > 0, ~Satisfies(entry, source, required, complete)
  PROVE  LET d == Decoded(entry, source, required, complete) IN
         /\ FitsFile(d) /\ Grows(entry, d)
         /\ \A index \in Nat :
              (index < Len(File(source)) /\ (complete \/ index < required)) =>
                index < Len(d.frames)
<1> DEFINE whole == Len(File(source))
           n == IF complete \/ required > whole THEN whole ELSE required
           f == SubSeq(File(source), 1, n)
           d == Decoded(entry, source, required, complete)
<1>1. File(source) \in Seq(Images) /\ whole \in Nat /\ whole >= 1
      /\ (source \in Still => whole = 1)
  BY FileFrames
<1>2. n \in 1 .. whole
  BY <1>1
<1>3. f \in Seq(Images) /\ Len(f) = n
  <2> HIDE DEF n
  <2> QED BY <1>1, <1>2
<1>4. d.source = source /\ d.frames = f /\ (d.is_complete <=> (source \in Still \/ complete))
  <2>1. d = [entry EXCEPT !.frames = f,
               !.is_complete = source \in Still \/ complete, !.owner = None]
    BY DEF Decoded
  <2> HIDE DEF d, f
  <2> QED BY <2>1 DEF EntryType
<1>5. source # None
  BY DEF Source
<1>6. /\ entry.frames \in Seq(Images) /\ Len(entry.frames) \in Nat
      /\ Len(entry.frames) <= whole
      /\ entry.is_complete => Len(entry.frames) = whole
  BY <1>5 DEF FitsFile, EntryType
<1>7. entry.frames = <<>> \/ (source \notin Still /\ ~entry.is_complete
                               /\ (complete \/ Len(entry.frames) < required))
  <2>1. required \in Nat /\ Len(entry.frames) \in Nat
    BY <1>6
  <2> QED BY <2>1 DEF Satisfies
<1>8. entry.frames = <<>> => Len(entry.frames) = 0 /\ ~entry.is_complete
  BY <1>1, <1>6
<1> HIDE DEF f, d
<1>9. FitsFile(d)
  BY <1>1, <1>2, <1>3, <1>4 DEF FitsFile
<1>10. Grows(entry, d)
  <2>1. ~entry.is_complete
    BY <1>7, <1>8
  <2>2. Len(entry.frames) <= n
    BY <1>1, <1>6, <1>7, <1>8
  <2> QED BY <1>3, <1>4, <2>1, <2>2 DEF Grows
<1>11. ASSUME NEW index \in Nat, index < whole, complete \/ index < required
       PROVE  index < Len(d.frames)
  BY <1>1, <1>3, <1>4, <1>11
<1> QED BY <1>9, <1>10, <1>11 DEF d

LEMMA KeepsItself ==
  ASSUME NEW memory \in [Entry -> EntryType]
  PROVE  \A e \in Entry : Grows(memory[e], memory[e])
<1>1. \A e \in Entry : Len(memory[e].frames) \in Nat
  BY DEF EntryType
<1> QED BY <1>1 DEF Grows

(* What satisfies a request holds every frame that the request is for.     *)
LEMMA EnoughIn ==
  ASSUME NEW entry \in EntryType, NEW source \in Clip, entry.source = source,
         FitsFile(entry), NEW required \in Nat, NEW complete \in BOOLEAN,
         Satisfies(entry, source, required, complete),
         NEW index \in Nat, index < Len(File(source)), complete \/ index < required
  PROVE  index < Len(entry.frames)
<1>1. source # None /\ source \notin Still /\ source \in Source
  BY DEF Source
<1>2. Len(entry.frames) \in Nat /\ Len(File(source)) \in Nat
  BY <1>1, FileFrames DEF EntryType
<1>3. entry.is_complete => Len(entry.frames) = Len(File(source))
  BY <1>1 DEF FitsFile
<1> QED BY <1>1, <1>2, <1>3 DEF Satisfies

(* AcquireCacheEntry takes memory only from an entry that was freed.       *)
LEMMA CacheEntryFits ==
  ASSUME StageInvariant, EntriesFit, NEW c \in Caller, handle[c] = None,
         NEW source \in Source
  PROVE  \A e \in Entry : /\ FitsFile(CacheEntry(source).entries[e])
                          /\ Grows(entries[e], CacheEntry(source).entries[e])
<1> DEFINE found == CacheEntry(source)
           new == CHOOSE e \in Entry \ Referenced(cached_sources, handle) : TRUE
<1>1. /\ TypeOK /\ HandlesSound /\ NothingLeaks /\ EntriesSound
      /\ entries \in [Entry -> EntryType]
  BY DEF StageInvariant, TypeOK, SourceTypeOK
<1>2. \A e \in Entry : Grows(entries[e], entries[e])
  BY <1>1, KeepsItself
<1>3. CASE found.entries = entries
  BY <1>2, <1>3 DEF EntriesFit
<1>4. CASE found.entries = [entries EXCEPT ![new] = NewEntry(source)]
  <2>1. new \in Entry /\ new \notin Referenced(cached_sources, handle)
    BY <1>1, MemoryForOne
  <2> HIDE DEF new
  <2>2. entries[new].source = None
    BY <1>1, <2>1 DEF NothingLeaks
  <2>3. found.entries[new] = NewEntry(source)
        /\ \A e \in Entry : e # new => found.entries[e] = entries[e]
    BY <1>1, <1>4, <2>1
  <2>4. FitsFile(NewEntry(source))
    <3>1. Len(File(source)) >= 1 /\ Len(File(source)) \in Nat
      BY FileFrames
    <3> QED BY <3>1 DEF FitsFile, NewEntry
  <2>5. Grows(entries[new], NewEntry(source))
    BY <2>2 DEF Grows
  <2> QED BY <1>2, <2>3, <2>4, <2>5 DEF EntriesFit
<1> QED BY <1>3, <1>4 DEF CacheEntry

LEMMA AliveFits ==
  ASSUME entries \in [Entry -> EntryType], NEW memory, NEW table, NEW handles,
         \A e \in Entry : FitsFile(memory[e]) /\ Grows(entries[e], memory[e]),
         NEW kept, kept = Alive(memory, table, handles)
  PROVE  \A e \in Entry : FitsFile(kept[e]) /\ Grows(entries[e], kept[e])
<1>1. Freed.source = None
  BY DEF Freed, NewEntry
<1>2. FitsFile(Freed) /\ \A e \in Entry : Grows(entries[e], Freed)
  BY <1>1 DEF FitsFile, Grows
<1>3. \A e \in Entry : kept[e] = memory[e] \/ kept[e] = Freed
  BY DEF Alive
<1> QED BY <1>2, <1>3

(* The lock of an entry keeps what it holds as its owner found it.         *)
LEMMA LockStep ==
  ASSUME DecodesWhatLacks, NEW c \in Caller,
         \A d \in Caller : d # c =>
           at'[d] = at[d] /\ handle'[d] = handle[d] /\ request'[d] = request[d],
         \A d \in Caller : d # c /\ at[d] = "decode" =>
           entries'[handle[d]] = entries[handle[d]],
         at'[c] = "decode" =>
           /\ entries'[handle'[c]].owner = c
           /\ ~Satisfies(entries'[handle'[c]], request'[c].section.source,
                         RequiredFrames(request'[c].section, request'[c].index),
                         request'[c].section.all)
  PROVE  DecodesWhatLacks'
<1> SUFFICES ASSUME NEW d \in Caller, at'[d] = "decode"
             PROVE  /\ entries'[handle'[d]].owner = d
                    /\ ~Satisfies(entries'[handle'[d]], request'[d].section.source,
                                  RequiredFrames(request'[d].section, request'[d].index),
                                  request'[d].section.all)
  BY DEF DecodesWhatLacks
<1>1. CASE d = c
  BY <1>1
<1>2. CASE d # c
  <2>1. /\ at[d] = "decode" /\ handle'[d] = handle[d] /\ request'[d] = request[d]
        /\ entries'[handle[d]] = entries[handle[d]]
    BY <1>2
  <2>2. /\ entries[handle[d]].owner = d
        /\ ~Satisfies(entries[handle[d]], request[d].section.source,
                      RequiredFrames(request[d].section, request[d].index),
                      request[d].section.all)
    BY <2>1 DEF DecodesWhatLacks
  <2> QED BY <2>1, <2>2
<1> QED BY <1>1, <1>2

(* A step outside the source.                                              *)
LEMMA QuietStep ==
  ASSUME StageInvariant, SourceInvariant,
         UNCHANGED <<entries, handle, schedule>>,
         \A c \in Caller : at'[c] = "decode" => at[c] = "decode" /\ request'[c] = request[c],
         \A t \in Thread : answer'[t] = answer[t] \/ answer'[t].error = ""
  PROVE  SourceInvariant' /\ CacheGrows
<1> USE DEF SourceInvariant
<1>1. EntriesFit'
  BY DEF EntriesFit, FitsFile
<1>2. DecodesWhatLacks'
  BY DEF DecodesWhatLacks
<1>3. ScheduleFits'
  BY DEF ScheduleFits, Section
<1>4. FailsOnlyOnDecodeError'
  BY DEF FailsOnlyOnDecodeError
<1>5. CacheGrows
  <2>1. entries \in [Entry -> EntryType]
    BY DEF StageInvariant, TypeOK, SourceTypeOK
  <2>2. \A e \in Entry : Grows(entries[e], entries[e])
    BY ONLY <2>1, KeepsItself
  <2>3. entries' = entries
    OBVIOUS
  <2> QED BY <2>2, <2>3 DEF CacheGrows
<1> QED BY <1>1, <1>2, <1>3, <1>4, <1>5

(* Where the sections fit, what GenerateFrame returns to a thread is a     *)
(* frame of the file.                                                      *)
LEMMA AskedFits ==
  ASSUME StageInvariant, ScheduleFits, \A s \in Sections : Fits(Project[s]),
         NEW t \in Thread, at[t] \in {"enter", "decode"},
         request[t].section.source \in Clip
  PROVE  /\ request[t].index \in Nat
         /\ request[t].index < Len(File(request[t].section.source))
         /\ \/ request[t].section.all
            \/ request[t].index < RequiredFrames(request[t].section, request[t].index)
<1> DEFINE f == frame[t]
           section == Section(f)
           source == section.source
<1>1. /\ f \in DOMAIN schedule
      /\ request[t] = [section |-> section, index |-> schedule[f].index]
  BY DEF StageInvariant, OnSchedule
<1>2. request[t].section = section /\ request[t].index = schedule[f].index
  BY ONLY <1>1, FieldsOfRequest
<1>3. schedule[f].section \in Sections /\ schedule[f].index \in Nat
  <2>1. schedule \in Seq(Items)
    BY DEF StageInvariant, TypeOK, StageTypeOK
  <2>2. schedule[f] \in Items
    BY <1>1, <2>1
  <2> QED BY <2>2 DEF Items
<1>4. section \in SectionType /\ Fits(section) /\ (section.all \/ section.duration > 0)
  BY <1>3, ProjectAssumption DEF Section, Sections
<1>5. source \in Clip /\ source \notin Still
  BY <1>2
<1>6. schedule[f].index < section.start
                          + (IF section.all THEN Length[source] ELSE section.duration)
  BY <1>1, <1>5 DEF ScheduleFits
<1>7. Len(File(source)) = Length[source] /\ Length[source] \in Nat
  BY <1>5 DEF File
<1>8. section.start \in Nat /\ section.duration \in Nat
  BY <1>4 DEF SectionType
<1> HIDE DEF f, section
<1>9. schedule[f].index < Length[source]
  BY <1>3, <1>4, <1>5, <1>6, <1>7, <1>8 DEF Fits
<1>10. section.all \/ schedule[f].index < RequiredFrames(section, schedule[f].index)
  BY <1>3, <1>4, <1>6, <1>8 DEF RequiredFrames
<1> QED BY <1>2, <1>3, <1>7, <1>9, <1>10

LEMMA NeverPastEnd ==
  ASSUME NEW source \in Source, NEW index, NEW frames,
         source \in Clip => index < Len(frames)
  PROVE  Delivered(frames, source, index).error = ""
BY DEF Delivered, Answered, Source

(* A step of the source that gives one thread an answer.                   *)
LEMMA AnswerStep ==
  ASSUME StageInvariant, SourceInvariant, NEW c \in Caller,
         UNCHANGED <<schedule>>,
         NEW a, answer' = [answer EXCEPT ![c] = a],
         c \in Thread /\ (\A s \in Sections : Fits(Project[s])) => a.error # "past end"
  PROVE  ScheduleFits' /\ FailsOnlyOnDecodeError'
<1>1. ScheduleFits'
  BY DEF SourceInvariant, ScheduleFits, Section
<1>2. answer \in [Caller -> Answers] /\ Thread \subseteq Caller
  BY DEF StageInvariant, TypeOK, SourceTypeOK, Caller
<1>3. FailsOnlyOnDecodeError'
  <2> SUFFICES ASSUME \A s \in Sections : Fits(Project[s]), NEW t \in Thread
               PROVE  answer'[t].error # "past end"
    BY DEF FailsOnlyOnDecodeError
  <2>1. CASE t = c
    BY <1>2, <2>1
  <2>2. CASE t # c
    <3>1. answer'[t] = answer[t]
      BY <1>2, <2>2
    <3> QED BY <3>1 DEF SourceInvariant, FailsOnlyOnDecodeError
  <2> QED BY <2>1, <2>2
<1> QED BY <1>1, <1>3

(* The return of GenerateFrame keeps all that it does not free.            *)
LEMMA ReturnFits ==
  ASSUME StageInvariant, SourceInvariant, NEW c \in Caller,
         at[c] \in {"enter", "decode"},
         NEW memory \in [Entry -> EntryType],
         \A e \in Entry : FitsFile(memory[e]) /\ Grows(entries[e], memory[e]),
         \A d \in Caller : d # c /\ at[d] = "decode" =>
           memory[handle[d]] = entries[handle[d]],
         NEW result, Return(c, memory, result),
         c \in Thread /\ (\A s \in Sections : Fits(Project[s])) =>
           result.error # "past end",
         UNCHANGED <<cached_sources, queue_vars, stage_vars>>
  PROVE  SourceInvariant' /\ CacheGrows
<1>1. /\ at \in [Caller -> OfThread \cup OfPrefetcher]
      /\ handle \in [Caller -> Entry \cup {None}] /\ HandlesSound
      /\ request \in [Caller -> Requests \cup {NoRequest}]
      /\ entries \in [Entry -> EntryType] /\ answer \in [Caller -> Answers]
  BY DEF StageInvariant, TypeOK, SourceTypeOK
<1>2. /\ entries' = Alive(memory, cached_sources', handle')
      /\ \A d \in Caller : d # c => /\ at'[d] = at[d] /\ handle'[d] = handle[d]
                                    /\ request'[d] = request[d]
      /\ at'[c] # "decode"
  BY <1>1 DEF Return
<1>3. \A e \in Entry : FitsFile(entries'[e]) /\ Grows(entries[e], entries'[e])
  <2>1. \A e \in Entry : FitsFile(memory[e]) /\ Grows(entries[e], memory[e])
    OBVIOUS
  <2> QED BY ONLY <1>1, <1>2, <2>1, AliveFits
<1>4. EntriesFit' /\ CacheGrows
  BY <1>3 DEF EntriesFit, CacheGrows
<1>5. \A d \in Caller : d # c /\ at[d] = "decode" =>
        entries'[handle[d]] = entries[handle[d]]
  <2> SUFFICES ASSUME NEW d \in Caller, d # c, at[d] = "decode"
               PROVE  entries'[handle[d]] = memory[handle[d]]
    OBVIOUS
  <2>1. handle[d] \in Entry
    BY <1>1 DEF HandlesSound
  <2>2. handle[d] \in Referenced(cached_sources', handle')
    BY <1>2 DEF Referenced
  <2> QED BY <1>2, <2>1, <2>2 DEF Alive
<1>6. DecodesWhatLacks'
  BY <1>2, <1>5, LockStep DEF SourceInvariant
<1>7. ScheduleFits' /\ FailsOnlyOnDecodeError'
  <2> DEFINE a == IF c = Prefetcher THEN answer[c] ELSE result
  <2>1. answer' = [answer EXCEPT ![c] = a]
    BY <1>1 DEF Return
  <2>2. c \in Thread /\ (\A s \in Sections : Fits(Project[s])) => a.error # "past end"
    OBVIOUS
  <2>3. UNCHANGED <<schedule>>
    BY DEF stage_vars
  <2> HIDE DEF a
  <2> QED BY <2>1, <2>2, <2>3, AnswerStep
<1> QED BY <1>4, <1>6, <1>7 DEF SourceInvariant

LEMMA EnterFits ==
  ASSUME StageInvariant, SourceInvariant, NEW c \in Caller, Enter(c),
         UNCHANGED stage_vars
  PROVE  SourceInvariant' /\ CacheGrows
<1> DEFINE e == handle[c]
           section == request[c].section
           index == request[c].index
           needs == RequiredFrames(section, index)
<1>1. /\ at[c] = "enter" /\ entries[e].owner = None
      /\ UNCHANGED <<cached_sources, queue_vars, stage_vars>>
      /\ \/ /\ Satisfies(entries[e], section.source, needs, section.all)
            /\ Return(c, entries, Delivered(entries[e].frames, section.source, index))
         \/ /\ ~Satisfies(entries[e], section.source, needs, section.all)
            /\ entries' = [entries EXCEPT ![e].owner = c]
            /\ at' = [at EXCEPT ![c] = "decode"]
            /\ UNCHANGED <<request, handle, answer>>
  BY DEF Enter
<1>2. /\ e \in Entry /\ entries[e] \in EntryType /\ entries[e].source = section.source
      /\ request[c] \in Requests /\ section.source \in Source
  BY <1>1, InHand
<1>3. index \in Nat /\ needs \in Nat /\ section.all \in BOOLEAN
  BY <1>2, RequestFacts DEF SectionType
<1>4. /\ entries \in [Entry -> EntryType] /\ EntriesFit /\ DecodesWhatLacks
      /\ ScheduleFits /\ at \in [Caller -> OfThread \cup OfPrefetcher]
      /\ answer \in [Caller -> Answers] /\ HandlesSound
  BY DEF StageInvariant, TypeOK, SourceTypeOK, SourceInvariant
<1>5. \A f \in Entry : FitsFile(entries[f]) /\ Grows(entries[f], entries[f])
  BY <1>4, KeepsItself DEF EntriesFit
<1>6. CASE /\ Satisfies(entries[e], section.source, needs, section.all)
           /\ Return(c, entries, Delivered(entries[e].frames, section.source, index))
  <2> DEFINE result == Delivered(entries[e].frames, section.source, index)
  <2>1. ASSUME c \in Thread, \A s \in Sections : Fits(Project[s])
        PROVE  result.error # "past end"
    <3>1. section.source \in Clip => index < Len(entries[e].frames)
      <4> SUFFICES ASSUME section.source \in Clip PROVE index < Len(entries[e].frames)
        OBVIOUS
      <4>1. index < Len(File(section.source)) /\ (section.all \/ index < needs)
        BY <1>1, <1>4, <2>1, AskedFits
      <4>2. FitsFile(entries[e])
        BY <1>2, <1>5
      <4> HIDE DEF e, section, index, needs
      <4> QED BY <1>2, <1>3, <1>6, <4>1, <4>2, EnoughIn
    <3> HIDE DEF e, section, index
    <3> QED BY <1>2, <3>1, NeverPastEnd
  <2> HIDE DEF result
  <2>2. Return(c, entries, result)
    BY <1>6 DEF result
  <2> QED BY <1>1, <1>4, <1>5, <2>1, <2>2, ReturnFits
<1>7. CASE /\ ~Satisfies(entries[e], section.source, needs, section.all)
           /\ entries' = [entries EXCEPT ![e].owner = c]
           /\ at' = [at EXCEPT ![c] = "decode"]
           /\ UNCHANGED <<request, handle, answer>>
  <2>1. /\ entries'[e].owner = c
        /\ \A f \in Entry : /\ entries'[f].source = entries[f].source
                            /\ entries'[f].frames = entries[f].frames
                            /\ entries'[f].is_complete = entries[f].is_complete
                            /\ f # e => entries'[f] = entries[f]
    BY <1>2, <1>4, <1>7 DEF EntryType
  <2>2. EntriesFit' /\ CacheGrows
    BY <1>5, <2>1 DEF EntriesFit, CacheGrows, FitsFile, Grows
  <2>3. ~Satisfies(entries'[e], section.source, needs, section.all)
    BY <1>2, <1>7, <2>1 DEF Satisfies
  <2>4. \A d \in Caller : d # c /\ at[d] = "decode" =>
          entries'[handle[d]] = entries[handle[d]]
    <3> SUFFICES ASSUME NEW d \in Caller, d # c, at[d] = "decode"
                 PROVE  entries'[handle[d]] = entries[handle[d]]
      OBVIOUS
    <3>1. entries[handle[d]].owner = d /\ handle[d] \in Entry
      BY <1>4 DEF DecodesWhatLacks, HandlesSound
    <3>2. d # None
      BY DEF Caller
    <3> QED BY <1>1, <2>1, <3>1, <3>2
  <2>5. \A d \in Caller : d # c =>
          at'[d] = at[d] /\ handle'[d] = handle[d] /\ request'[d] = request[d]
    BY <1>4, <1>7
  <2>6. /\ entries'[handle'[c]].owner = c
        /\ ~Satisfies(entries'[handle'[c]], request'[c].section.source,
                      RequiredFrames(request'[c].section, request'[c].index),
                      request'[c].section.all)
    BY <1>7, <2>1, <2>3
  <2>7. DecodesWhatLacks'
    BY <1>4, <2>4, <2>5, <2>6, LockStep
  <2>8. ScheduleFits' /\ FailsOnlyOnDecodeError'
    <3>1. UNCHANGED <<schedule, answer>>
      BY <1>7 DEF stage_vars
    <3> QED BY <1>4, <3>1 DEF ScheduleFits, Section, FailsOnlyOnDecodeError, SourceInvariant
  <2> QED BY <2>2, <2>7, <2>8 DEF SourceInvariant
<1> QED BY <1>1, <1>6, <1>7

LEMMA DecodeFits ==
  ASSUME StageInvariant, SourceInvariant, NEW c \in Caller, Decode(c),
         UNCHANGED stage_vars
  PROVE  SourceInvariant' /\ CacheGrows
<1> DEFINE e == handle[c]
           section == request[c].section
           index == request[c].index
           needs == RequiredFrames(section, index)
           decoded == Decoded(entries[e], section.source, needs, section.all)
           memory == [entries EXCEPT ![e] = decoded]
           failed == [entries EXCEPT ![e].owner = None]
<1>1. /\ at[c] = "decode" /\ at[c] \in {"enter", "decode"}
      /\ UNCHANGED <<cached_sources, queue_vars, stage_vars>>
  BY DEF Decode
<1>2. /\ e \in Entry /\ entries[e] \in EntryType /\ entries[e].source = section.source
      /\ request[c] \in Requests /\ section.source \in Source
  BY <1>1, InHand
<1>3. /\ index \in Nat /\ needs \in Nat /\ needs > 0 /\ section.all \in BOOLEAN
  BY <1>2, RequestFacts DEF SectionType
<1>4. /\ entries \in [Entry -> EntryType] /\ EntriesFit /\ DecodesWhatLacks
      /\ ScheduleFits /\ HandlesSound
  BY DEF StageInvariant, TypeOK, SourceTypeOK, SourceInvariant
<1>5. \A f \in Entry : FitsFile(entries[f]) /\ Grows(entries[f], entries[f])
  BY <1>4, KeepsItself DEF EntriesFit
<1>6. /\ entries[e].owner = c
      /\ ~Satisfies(entries[e], section.source, needs, section.all)
  BY <1>1, <1>4 DEF DecodesWhatLacks
<1>7. \/ Return(c, memory, Delivered(memory[e].frames, section.source, index))
      \/ Return(c, failed, Failed("decode"))
  BY <1>2, <1>4 DEF Decode
<1>8. \A d \in Caller : d # c /\ at[d] = "decode" => handle[d] \in Entry /\ handle[d] # e
  BY <1>4, <1>6 DEF DecodesWhatLacks, HandlesSound
<1>9. CASE Return(c, memory, Delivered(memory[e].frames, section.source, index))
  <2> HIDE DEF needs
  <2>1. decoded \in EntryType
    BY ONLY <1>2, <1>3, DecodedSound
  <2>2. /\ FitsFile(decoded) /\ Grows(entries[e], decoded)
        /\ \A i \in Nat : (i < Len(File(section.source)) /\ (section.all \/ i < needs))
                            => i < Len(decoded.frames)
    <3>1. FitsFile(entries[e])
      BY <1>2, <1>5
    <3> QED BY <1>2, <1>3, <1>6, <3>1, DecodedFits
  <2> HIDE DEF decoded
  <2>3. /\ memory \in [Entry -> EntryType] /\ memory[e] = decoded
        /\ \A f \in Entry : f # e => memory[f] = entries[f]
    BY <1>2, <1>4, <2>1
  <2> DEFINE result == Delivered(decoded.frames, section.source, index)
  <2>4. Return(c, memory, result)
    BY <1>9, <2>3
  <2> HIDE DEF memory
  <2>5. \A f \in Entry : FitsFile(memory[f]) /\ Grows(entries[f], memory[f])
    BY <1>5, <2>2, <2>3
  <2>6. \A d \in Caller : d # c /\ at[d] = "decode" =>
          memory[handle[d]] = entries[handle[d]]
    BY <1>8, <2>3
  <2>7. ASSUME c \in Thread, \A s \in Sections : Fits(Project[s])
        PROVE  result.error # "past end"
    <3>1. section.source \in Clip => index < Len(decoded.frames)
      <4> SUFFICES ASSUME section.source \in Clip PROVE index < Len(decoded.frames)
        OBVIOUS
      <4>1. index < Len(File(section.source)) /\ (section.all \/ index < needs)
        BY <1>1, <1>4, <2>7, AskedFits DEF needs
      <4> QED BY <1>3, <2>2, <4>1
    <3> HIDE DEF section, index
    <3> QED BY <1>2, <3>1, NeverPastEnd
  <2> HIDE DEF result
  <2> QED BY <1>1, <2>3, <2>4, <2>5, <2>6, <2>7, ReturnFits
<1>10. CASE Return(c, failed, Failed("decode"))
  <2>1. /\ failed \in [Entry -> EntryType]
        /\ \A f \in Entry : /\ failed[f].source = entries[f].source
                            /\ failed[f].frames = entries[f].frames
                            /\ failed[f].is_complete = entries[f].is_complete
                            /\ f # e => failed[f] = entries[f]
    BY <1>2, <1>4 DEF EntryType
  <2> HIDE DEF failed
  <2>2. \A f \in Entry : FitsFile(failed[f]) /\ Grows(entries[f], failed[f])
    BY <1>5, <2>1 DEF FitsFile, Grows
  <2>3. \A d \in Caller : d # c /\ at[d] = "decode" =>
          failed[handle[d]] = entries[handle[d]]
    BY <1>8, <2>1
  <2>4. Failed("decode").error # "past end"
    BY DEF Failed
  <2> QED BY <1>1, <1>10, <2>1, <2>2, <2>3, <2>4, ReturnFits
<1> QED BY <1>7, <1>9, <1>10

LEMMA AcquireFits ==
  ASSUME StageInvariant, SourceInvariant, NEW c \in Caller, AcquireCacheEntry(c),
         UNCHANGED stage_vars
  PROVE  SourceInvariant' /\ CacheGrows
<1> DEFINE source == request[c].section.source
           found  == CacheEntry(source)
<1>1. /\ at[c] = "acquire" /\ at' = [at EXCEPT ![c] = "enter"]
      /\ handle' = [handle EXCEPT ![c] = found.entry]
      /\ entries' = Alive(found.entries, cached_sources', handle')
      /\ UNCHANGED <<request, answer>>
  BY DEF AcquireCacheEntry
<1>2. source \in Source
  BY <1>1, AskedFor, RequestFacts DEF InSource
<1> HIDE DEF source
<1>3. /\ handle[c] = None /\ handle \in [Caller -> Entry \cup {None}]
      /\ at \in [Caller -> OfThread \cup OfPrefetcher]
      /\ entries \in [Entry -> EntryType] /\ HandlesSound
      /\ EntriesFit /\ DecodesWhatLacks
  BY <1>1 DEF StageInvariant, HandlesSound, TypeOK, SourceTypeOK, SourceInvariant
<1>4. \A e \in Entry : FitsFile(found.entries[e]) /\ Grows(entries[e], found.entries[e])
  BY <1>2, <1>3, CacheEntryFits
<1>5. \A d \in Caller : handle[d] \in Entry => found.entries[handle[d]] = entries[handle[d]]
  BY <1>2, <1>3, CacheEntrySound DEF StageInvariant
<1> HIDE DEF found
<1>6. EntriesFit' /\ CacheGrows
  <2>1. \A e \in Entry : FitsFile(entries'[e]) /\ Grows(entries[e], entries'[e])
    BY ONLY <1>1, <1>3, <1>4, AliveFits
  <2> QED BY <2>1 DEF EntriesFit, CacheGrows
<1>7. /\ at'[c] # "decode"
      /\ \A d \in Caller : d # c => /\ at'[d] = at[d] /\ handle'[d] = handle[d]
                                    /\ request'[d] = request[d]
  BY <1>1, <1>3
<1>8. \A d \in Caller : d # c /\ at[d] = "decode" =>
        entries'[handle[d]] = entries[handle[d]]
  <2> SUFFICES ASSUME NEW d \in Caller, d # c, at[d] = "decode"
               PROVE  entries'[handle[d]] = entries[handle[d]]
    OBVIOUS
  <2>1. handle[d] \in Entry
    BY <1>3 DEF HandlesSound
  <2>2. handle[d] \in Referenced(cached_sources', handle')
    BY <1>7 DEF Referenced
  <2> QED BY <1>1, <1>5, <2>1, <2>2 DEF Alive
<1>9. DecodesWhatLacks'
  BY <1>3, <1>7, <1>8, LockStep
<1>10. ScheduleFits' /\ FailsOnlyOnDecodeError'
  <2>1. UNCHANGED <<schedule, answer>>
    BY <1>1 DEF stage_vars
  <2> QED BY <2>1 DEF ScheduleFits, Section, FailsOnlyOnDecodeError, SourceInvariant
<1> QED BY <1>6, <1>9, <1>10 DEF SourceInvariant

(* A section asks for frames of its own part of the clip.                  *)
LEMMA SectionFramesFit ==
  ASSUME NEW section \in SectionType, NEW length \in Nat \ {0},
         NEW k \in DOMAIN SectionFrames(section, length)
  PROVE  SectionFrames(section, length)[k]
           < section.start + (IF section.all THEN length ELSE section.duration)
<1>1. section.repeat \in Nat /\ section.start \in Nat /\ section.duration \in Nat
  BY DEF SectionType
<1>2. CASE section.all
  <2> DEFINE n == length * section.repeat
  <2>1. n \in Nat
    BY <1>1
  <2>2. SectionFrames(section, length) =
          [i \in 1 .. n |-> ((i - 1) % length) + section.start]
    BY <1>2 DEF SectionFrames
  <2> HIDE DEF n
  <2>3. k \in Nat \ {0}
    BY <2>1, <2>2
  <2>4. (k - 1) % length \in 0 .. length - 1
    BY <2>3
  <2>5. SectionFrames(section, length)[k] = ((k - 1) % length) + section.start
    BY <2>1, <2>2
  <2> QED BY <1>1, <1>2, <2>4, <2>5
<1>3. CASE ~section.all
  <2>1. SectionFrames(section, length) =
          [i \in 1 .. section.duration |-> i - 1 + section.start]
    BY <1>3 DEF SectionFrames
  <2> QED BY <1>1, <1>3, <2>1
<1> QED BY <1>2, <1>3

LEMMA JoinedAt ==
  ASSUME NEW S, NEW T, NEW a \in Seq(S), NEW b \in Seq(T), NEW f \in DOMAIN (a \o b)
  PROVE  \/ f \in DOMAIN a /\ (a \o b)[f] = a[f]
         \/ \E k \in DOMAIN b : (a \o b)[f] = b[k]
<1>1. /\ Len(a) \in Nat /\ Len(b) \in Nat /\ DOMAIN a = 1 .. Len(a) /\ DOMAIN b = 1 .. Len(b)
      /\ a \in Seq(S \cup T) /\ b \in Seq(S \cup T)
  OBVIOUS
<1>2. f \in 1 .. Len(a) + Len(b)
  BY <1>1
<1>3. CASE f <= Len(a)
  BY <1>1, <1>2, <1>3
<1>4. CASE f > Len(a)
  <2>1. f - Len(a) \in DOMAIN b /\ (a \o b)[f] = b[f - Len(a)]
    BY <1>1, <1>2, <1>4
  <2> QED BY <2>1
<1> QED BY <1>1, <1>2, <1>3, <1>4

LEMMA ClipLength ==
  ASSUME NEW source \in Clip
  PROVE  Len(File(source)) = Length[source]
<1>1. source \notin Still /\ Length[source] \in Nat
  OBVIOUS
<1> QED BY <1>1 DEF File

LEMMA SectionFitsSchedule ==
  ASSUME StageInvariant, stage = "scheduling", ScheduleFits,
         schedule' = LET section == Project[scheduled + 1]
                         indices == SectionFrames(section, Len(File(section.source)))
                     IN schedule \o
                          [k \in DOMAIN indices |->
                             [section |-> scheduled + 1, index |-> indices[k],
                              disc |-> DiscFrame(section, k)]]
  PROVE  ScheduleFits'
<1> DEFINE section == Project[scheduled + 1]
           length == Len(File(section.source))
           indices == SectionFrames(section, length)
           item(k) == [section |-> scheduled + 1, index |-> indices[k],
                       disc |-> DiscFrame(section, k)]
           part == [k \in DOMAIN indices |-> item(k)]
<1>1. scheduled + 1 \in Sections /\ schedule \in Seq(Items)
  BY ProjectAssumption DEF StageInvariant, OnSchedule, TypeOK, StageTypeOK, Sections
<1>2. section \in SectionType /\ section.source \in Source
  BY <1>1, SectionOf
<1>3. length \in Nat \ {0} /\ (section.source \in Clip => length = Length[section.source])
  <2>1. length \in Nat \ {0}
    BY <1>2, FileFrames
  <2>2. ASSUME section.source \in Clip PROVE length = Length[section.source]
    BY <2>2, ClipLength
  <2> QED BY <2>1, <2>2
<1>4. schedule' = schedule \o part
  OBVIOUS
<1>5. indices \in Seq(Nat)
  BY <1>2, <1>3, SectionFramesType
<1>6. \A k \in DOMAIN indices :
        indices[k] < section.start + (IF section.all THEN length ELSE section.duration)
  BY <1>2, <1>3, SectionFramesFit
<1> HIDE DEF section, length, indices
<1>7. \A k \in DOMAIN indices : item(k).section = scheduled + 1 /\ item(k).index = indices[k]
  OBVIOUS
<1>8. /\ part \in Seq({item(k) : k \in DOMAIN indices}) /\ DOMAIN part = DOMAIN indices
      /\ \A k \in DOMAIN part : part[k] = item(k)
  <2>1. part = [k \in DOMAIN indices |-> part[k]]
        /\ \A k \in DOMAIN indices : part[k] \in {item(i) : i \in DOMAIN indices}
    OBVIOUS
  <2>2. DOMAIN part = DOMAIN indices /\ \A k \in DOMAIN part : part[k] = item(k)
    OBVIOUS
  <2> HIDE DEF part, item
  <2> QED BY <1>5, <2>1, <2>2, SameLength
<1> HIDE DEF item, part
<1>9. ASSUME NEW f \in DOMAIN schedule'
      PROVE  \/ f \in DOMAIN schedule /\ schedule'[f] = schedule[f]
             \/ \E k \in DOMAIN part : schedule'[f] = part[k]
  <2>1. f \in DOMAIN (schedule \o part)
    BY <1>4, <1>9
  <2> QED BY ONLY <1>1, <1>4, <1>8, <2>1, JoinedAt
<1> SUFFICES ASSUME NEW f \in DOMAIN schedule',
                    Project[schedule'[f].section].source \in Clip
             PROVE  schedule'[f].index < Project[schedule'[f].section].start
                      + (IF Project[schedule'[f].section].all
                           THEN Length[Project[schedule'[f].section].source]
                           ELSE Project[schedule'[f].section].duration)
  BY DEF ScheduleFits, Section
<1>10. CASE f \in DOMAIN schedule /\ schedule'[f] = schedule[f]
  BY <1>10 DEF ScheduleFits, Section
<1>11. CASE \E k \in DOMAIN part : schedule'[f] = part[k]
  <2>1. PICK k \in DOMAIN indices : schedule'[f] = item(k)
    BY <1>8, <1>11
  <2>2. schedule'[f].section = scheduled + 1 /\ schedule'[f].index = indices[k]
    BY <1>7, <2>1
  <2>3. Project[schedule'[f].section] = section
    BY <2>2 DEF section
  <2> QED BY <1>3, <1>6, <2>2, <2>3
<1> QED BY <1>9, <1>10, <1>11

LEMMA ScheduleSectionFits ==
  ASSUME StageInvariant, SourceInvariant, ScheduleSection
  PROVE  SourceInvariant' /\ CacheGrows
<1> DEFINE section == Project[scheduled + 1]
           source  == section.source
           counted == section.all /\ source \in Clip
           found   == CacheEntry(source)
           resolved == ResolvedIn(found, source)
<1>1. /\ stage = "scheduling" /\ UNCHANGED <<at, request, handle, answer>>
      /\ \/ /\ schedule' = schedule \o
                 [k \in DOMAIN SectionFrames(section, Len(File(source))) |->
                    [section |-> scheduled + 1,
                     index |-> SectionFrames(section, Len(File(source)))[k],
                     disc |-> DiscFrame(section, k)]]
            /\ entries' = IF counted THEN Alive(resolved, cached_sources', handle)
                                     ELSE entries
         \/ /\ entries' = Alive(found.entries, cached_sources', handle)
            /\ schedule' = schedule
  BY DEF ScheduleSection
<1>2. /\ at[Prefetcher] = "absent" /\ \A t \in Thread : at[t] = "idle"
      /\ entries \in [Entry -> EntryType] /\ HandlesSound /\ EntriesFit
  BY <1>1 DEF StageInvariant, OnSchedule, TypeOK, SourceTypeOK, SourceInvariant
<1>3. \A c \in Caller : at[c] \notin {"enter", "decode"}
  BY <1>2 DEF Caller
<1>4. Prefetcher \in Caller /\ handle[Prefetcher] = None
  BY <1>2, <1>3 DEF HandlesSound, Caller
<1>5. source \in Source /\ source # None
  <2>1. scheduled + 1 \in Sections
    BY <1>1, ProjectAssumption DEF StageInvariant, OnSchedule, TypeOK, StageTypeOK, Sections
  <2>2. source \in Source
    BY <2>1, SectionOf
  <2> QED BY <2>2 DEF Source
<1>6. /\ found.entry \in Entry /\ found.entries \in [Entry -> EntryType]
      /\ found.entries[found.entry].source = source
  BY <1>4, <1>5, CacheEntrySound DEF StageInvariant
<1>7. \A e \in Entry : FitsFile(found.entries[e]) /\ Grows(entries[e], found.entries[e])
  BY <1>2, <1>4, <1>5, CacheEntryFits
<1>8. ScheduleFits'
  <2>1. CASE schedule' = schedule
    BY <2>1 DEF SourceInvariant, ScheduleFits, Section
  <2>2. CASE schedule' # schedule
    BY <1>1, <2>2, SectionFitsSchedule DEF SourceInvariant
  <2> QED BY <2>1, <2>2
<1> HIDE DEF found, source
<1>9. \A e \in Entry : FitsFile(resolved[e]) /\ Grows(entries[e], resolved[e])
  <2> DEFINE held == found.entries[found.entry]
             more == Decoded(held, source, 0, TRUE)
  <2>1. held \in EntryType /\ held.source = source /\ FitsFile(held)
    BY <1>6, <1>7
  <2>2. \/ resolved = found.entries
        \/ /\ ~Satisfies(held, source, 0, TRUE)
           /\ resolved = [found.entries EXCEPT ![found.entry] = more]
    BY <1>6 DEF ResolvedIn
  <2>3. CASE resolved = found.entries
    BY <1>7, <2>3
  <2>4. CASE /\ ~Satisfies(held, source, 0, TRUE)
             /\ resolved = [found.entries EXCEPT ![found.entry] = more]
    <3>1. FitsFile(more) /\ Grows(held, more) /\ more.source = source /\ more \in EntryType
      <4>1. 0 \in Nat /\ TRUE \in BOOLEAN
        OBVIOUS
      <4> HIDE DEF held
      <4>2. FitsFile(more) /\ Grows(held, more)
        BY ONLY <1>5, <2>1, <2>4, <4>1, DecodedFits, LengthAssumption, SourceAssumption
      <4>3. more.source = source /\ more \in EntryType
        BY ONLY <1>5, <2>1, <4>1, DecodedSound, LengthAssumption, SourceAssumption
      <4> QED BY <4>2, <4>3
    <3>2. Grows(entries[found.entry], held) /\ entries[found.entry] \in EntryType
      BY <1>2, <1>6, <1>7
    <3> HIDE DEF more, held
    <3>3. Grows(entries[found.entry], more)
      <4>1. /\ Len(more.frames) \in Nat /\ Len(held.frames) \in Nat
            /\ Len(entries[found.entry].frames) \in Nat
        BY <2>1, <3>1, <3>2 DEF EntryType
      <4> QED BY <1>5, <2>1, <3>1, <3>2, <4>1 DEF Grows
    <3>4. resolved[found.entry] = more
          /\ \A e \in Entry : e # found.entry => resolved[e] = found.entries[e]
      BY <1>6, <2>4
    <3> QED BY <1>7, <3>1, <3>3, <3>4
  <2> QED BY <2>2, <2>3, <2>4
<1> HIDE DEF resolved
<1>10. EntriesFit' /\ CacheGrows
  <2>1. CASE entries' = entries
    BY <1>2, <2>1, KeepsItself DEF EntriesFit, CacheGrows
  <2>2. CASE entries' = Alive(resolved, cached_sources', handle)
    <3>1. \A e \in Entry : FitsFile(entries'[e]) /\ Grows(entries[e], entries'[e])
      BY ONLY <1>2, <1>9, <2>2, AliveFits
    <3> QED BY <3>1 DEF EntriesFit, CacheGrows
  <2>3. CASE entries' = Alive(found.entries, cached_sources', handle)
    <3>1. \A e \in Entry : FitsFile(entries'[e]) /\ Grows(entries[e], entries'[e])
      BY ONLY <1>2, <1>7, <2>3, AliveFits
    <3> QED BY <3>1 DEF EntriesFit, CacheGrows
  <2> QED BY <1>1, <2>1, <2>2, <2>3
<1>11. DecodesWhatLacks'
  BY <1>1, <1>3 DEF DecodesWhatLacks
<1>12. FailsOnlyOnDecodeError'
  BY <1>1 DEF SourceInvariant, FailsOnlyOnDecodeError
<1> QED BY <1>8, <1>10, <1>11, <1>12 DEF SourceInvariant

-------------------------------------------------------------------------------
LEMMA SourceInvariantInit == Init => SourceInvariant
<1> SUFFICES ASSUME Init PROVE SourceInvariant
  OBVIOUS
<1> USE DEF Init, SourceInit
<1>1. EntriesFit
  BY DEF EntriesFit, FitsFile, Freed, NewEntry
<1>2. DecodesWhatLacks
  BY DEF DecodesWhatLacks
<1>3. ScheduleFits
  BY DEF ScheduleFits
<1>4. FailsOnlyOnDecodeError
  BY DEF FailsOnlyOnDecodeError, Answered, Caller
<1> QED BY <1>1, <1>2, <1>3, <1>4 DEF SourceInvariant

(* A step of a thread or of the prefetch thread outside the source.        *)
LEMMA OutsideFits ==
  ASSUME StageInvariant, SourceInvariant,
         \/ \E t \in Thread : \/ Claim(t) \/ PrefetchNext(t) \/ AcquireTemplate(t)
                              \/ CallOnce(t) \/ BuildTemplate(t) \/ Deliver(t)
         \/ PrefetchLoop /\ UNCHANGED stage_vars
         \/ Leave \/ Destroy \/ UNCHANGED vars
  PROVE  SourceInvariant' /\ CacheGrows
<1>1. /\ at \in [Caller -> OfThread \cup OfPrefetcher] /\ answer \in [Caller -> Answers]
      /\ request \in [Caller -> Requests \cup {NoRequest}] /\ Thread \subseteq Caller
  BY DEF StageInvariant, TypeOK, SourceTypeOK, Caller
<1>2. UNCHANGED <<entries, handle, schedule>>
  BY DEF Claim, PrefetchNext, AcquireTemplate, CallOnce, BuildTemplate, Deliver,
         PrefetchLoop, Leave, Destroy, StopPrefetch, JoinPrefetch, vars, source_vars,
         stage_vars
<1>3. \A t \in Thread : answer'[t] = answer[t] \/ answer'[t].error = ""
  <2>1. \A t \in Thread : Deliver(t) =>
          \A u \in Thread : answer'[u] = answer[u] \/ answer'[u].error = ""
    <3> SUFFICES ASSUME NEW t \in Thread, Deliver(t), NEW u \in Thread
                 PROVE  answer'[u] = answer[u] \/ answer'[u].error = ""
      OBVIOUS
    <3>1. answer' = [answer EXCEPT ![t] = Answered(NoImage)]
      BY DEF Deliver
    <3>2. Answered(NoImage).error = ""
      BY DEF Answered
    <3>3. answer'[u] \in {answer[u], Answered(NoImage)}
      BY <1>1, <3>1
    <3> QED BY <3>2, <3>3
  <2>2. answer' = answer \/ \E t \in Thread : Deliver(t)
    BY DEF Claim, PrefetchNext, AcquireTemplate, CallOnce, BuildTemplate,
           PrefetchLoop, Leave, Destroy, StopPrefetch, JoinPrefetch, vars, source_vars
  <2> QED BY <2>1, <2>2
<1>4. \A c \in Caller : at'[c] = "decode" => at[c] = "decode" /\ request'[c] = request[c]
  <2> SUFFICES ASSUME NEW c \in Caller, at'[c] = "decode"
               PROVE  at[c] = "decode" /\ request'[c] = request[c]
    OBVIOUS
  <2>1. ASSUME NEW t \in Thread, Claim(t) \/ Deliver(t)
        PROVE  at[c] = "decode" /\ request'[c] = request[c]
    BY <1>1, <2>1 DEF Claim, Deliver
  <2>2. ASSUME NEW t \in Thread, PrefetchNext(t)
        PROVE  at[c] = "decode" /\ request'[c] = request[c]
    BY <1>1, <2>2 DEF PrefetchNext
  <2>3. ASSUME NEW t \in Thread, AcquireTemplate(t) \/ CallOnce(t) \/ BuildTemplate(t)
        PROVE  at[c] = "decode" /\ request'[c] = request[c]
    BY <1>1, <2>3 DEF AcquireTemplate, CallOnce, BuildTemplate
  <2>4. CASE PrefetchLoop
    BY <1>1, <2>4 DEF PrefetchLoop, Caller
  <2>5. CASE Leave \/ Destroy \/ UNCHANGED vars
    BY <2>5 DEF Leave, Destroy, StopPrefetch, JoinPrefetch, vars, source_vars
  <2> QED BY <2>1, <2>2, <2>3, <2>4, <2>5
<1> QED BY <1>2, <1>3, <1>4, QuietStep

LEMMA SourceStepFits ==
  StageInvariant /\ SourceInvariant /\ [Next]_vars => SourceInvariant' /\ CacheGrows
<1> SUFFICES ASSUME StageInvariant, SourceInvariant, [Next]_vars
             PROVE  SourceInvariant' /\ CacheGrows
  OBVIOUS
<1>1. CASE ScheduleSection
  BY <1>1, ScheduleSectionFits
<1>2. ASSUME NEW c \in Caller, SourceStep(c), UNCHANGED stage_vars
      PROVE  SourceInvariant' /\ CacheGrows
  BY <1>2, AcquireFits, EnterFits, DecodeFits DEF SourceStep
<1>3. ASSUME NEW t \in Thread, Claim(t) \/ ThreadStep(t)
      PROVE  SourceInvariant' /\ CacheGrows
  BY <1>2, <1>3, OutsideFits DEF ThreadStep, Caller
<1>4. CASE PrefetchStep /\ UNCHANGED stage_vars
  BY <1>2, <1>4, OutsideFits DEF PrefetchStep, Caller
<1>5. CASE Leave \/ Destroy \/ Gone \/ UNCHANGED vars
  BY <1>5, OutsideFits DEF Gone
<1> QED BY <1>1, <1>3, <1>4, <1>5 DEF Next

(***************************************************************************)
(* An entry never holds more than its file, and is decoded into only by    *)
(* its lock's owner and only while it lacks what that caller needs         *)
(* (EnsureMkvDecoded): nothing another thread decoded is done again or     *)
(* replaced by less.                                                       *)
(***************************************************************************)
THEOREM SourceKept == Spec => []SourceInvariant
<1>1. Init => SourceInvariant
  BY SourceInvariantInit
<1>2. StageInvariant /\ SourceInvariant /\ [Next]_vars => SourceInvariant'
  BY SourceStepFits
<1> QED BY <1>1, <1>2, StageKept, PTL DEF Spec

(***************************************************************************)
(* Memory for decoded sources stays bounded, and where the sections fit    *)
(* their files GenerateFrame fails only if a decode does: a partial decode *)
(* by one section never leaves another short.                              *)
(***************************************************************************)
THEOREM FramesServed == Spec => []SourceServes
<1>1. SourceInvariant => FailsOnlyOnDecodeError
  BY DEF SourceInvariant
<1>2. CacheBounded /\ FailsOnlyOnDecodeError => SourceServes
  BY DEF SourceServes
<1> QED BY <1>1, <1>2, SourceKept, DecodedSourcesBounded, PTL

(* A cached source that stays in use never loses frames, nor the fact that *)
(* all of it is decoded (EnsureMkvDecoded).                                *)
THEOREM NothingShrinks == Spec => CacheNeverShrinks
<1>1. StageInvariant /\ SourceInvariant /\ [Next]_vars => [CacheGrows]_vars
  BY SourceStepFits
<1> QED BY <1>1, StageKept, SourceKept, PTL DEF Spec, CacheNeverShrinks
===============================================================================
