--------------------------- MODULE PreviewPaneProofs ---------------------------
(***************************************************************************)
(* The preview's safety for every set of projects, every length of their   *)
(* schedules and every capacity of the cache. First what a call does to    *)
(* the call stack, a lookup or a new frame to the cache and a publication  *)
(* to both; then one lemma per part of PreviewInvariant, with a step per   *)
(* action of the pane and its service; then the theorems.                  *)
(***************************************************************************)
EXTENDS PreviewPaneProps, SequenceTheorems, TLAPS

USE OutputFramesAssumption, CapacityAssumption, NoneAssumption, MaxEditsAssumption

-------------------------------------------------------------------------------
(* The call stack.                                                         *)

(* What the calls on the stack are given.                                  *)
LEMMA CallArguments ==
  ASSUME NEW c \in SlotCalls
  PROVE  /\ c.op = "RequestFrame" => c.arg \in Nat
         /\ c.op \in {"FrameReady", "StoreInCache"} => c.arg \in CurrentFrames
         /\ c.op = "PreviewFailed" => c.arg = revision
         /\ c.op = "ShowSectionFirstFrame" => c.arg \in Sections
         /\ c.op \in Operations \ {"ScheduleInfoChanged"}
BY DEF SlotCalls, Operations

LEMMA CallMade ==
  /\ <<>> \in Seq(SlotCalls)
  /\ \A n \in Nat : Call("RequestFrame", n) \in Seq(SlotCalls)
  /\ \A f \in CurrentFrames : Call("FrameReady", f) \in Seq(SlotCalls)
  /\ \A f \in CurrentFrames : Call("StoreInCache", f) \in Seq(SlotCalls)
  /\ Call("PreviewFailed", revision) \in Seq(SlotCalls)
  /\ \A s \in Sections : Call("ShowSectionFirstFrame", s) \in Seq(SlotCalls)
  /\ Call("StartWorker", None) \in Seq(SlotCalls)
<1>1. \A c \in SlotCalls : <<c>> \in Seq(SlotCalls)
  OBVIOUS
<1>2. \A n \in Nat : [op |-> "RequestFrame", arg |-> n] \in SlotCalls
  BY DEF SlotCalls
<1>3. \A f \in CurrentFrames : [op |-> "FrameReady", arg |-> f] \in SlotCalls
  BY DEF SlotCalls
<1>4. \A f \in CurrentFrames : [op |-> "StoreInCache", arg |-> f] \in SlotCalls
  BY DEF SlotCalls
<1>5. [op |-> "PreviewFailed", arg |-> revision] \in SlotCalls
  BY DEF SlotCalls
<1>6. \A s \in Sections : [op |-> "ShowSectionFirstFrame", arg |-> s] \in SlotCalls
  BY DEF SlotCalls
<1>7. [op |-> "StartWorker", arg |-> None] \in SlotCalls
  BY DEF SlotCalls
<1> QED BY <1>1, <1>2, <1>3, <1>4, <1>5, <1>6, <1>7 DEF Call

LEMMA CallHead ==
  \A o, a : LET c == Call(o, a) IN
    Len(c) = 1 /\ DOMAIN c = 1 .. 1 /\ c[1] = [op |-> o, arg |-> a]
      /\ c[1].op = o /\ c[1].arg = a
BY DEF Call

(* The call on top, its argument and the calls under it.                   *)
LEMMA CallOnTop ==
  ASSUME PreviewInvariant, calls # <<>>
  PROVE  /\ Tail(calls) \in Seq(SlotCalls)
         /\ Len(calls) \in Nat \ {0} /\ DOMAIN calls = 1 .. Len(calls)
         /\ Len(Tail(calls)) = Len(calls) - 1
         /\ \A i \in 1 .. Len(calls) - 1 : Tail(calls)[i] = calls[i + 1]
         /\ Top("RequestFrame") => Argument \in Nat
         /\ Top("FrameReady") => Argument \in CurrentFrames
         /\ Top("StoreInCache") => Argument \in CurrentFrames
         /\ Top("PreviewFailed") => Argument = revision
         /\ Top("ShowSectionFirstFrame") => Argument \in Sections
         /\ Top("ScheduleInfoChanged") => context # None
         /\ ~Top("ScheduleInfoChanged") => calls \in Seq(SlotCalls)
         /\ calls[1].op \in Operations
<1>1. CASE calls \in Seq(SlotCalls)
  <2>1. Tail(calls) \in Seq(SlotCalls) /\ Len(calls) \in Nat \ {0}
        /\ Len(Tail(calls)) = Len(calls) - 1 /\ DOMAIN calls = 1 .. Len(calls)
        /\ \A i \in 1 .. Len(calls) - 1 : Tail(calls)[i] = calls[i + 1]
    BY <1>1, HeadTailProperties, EmptySeq, LenProperties
  <2>2. calls[1] \in SlotCalls
    BY <1>1, <2>1, ElementOfSeq
  <2> QED BY <1>1, <2>1, <2>2, CallArguments DEF Top, Argument
<1>2. CASE /\ calls \in Seq({Announcement} \cup SlotCalls)
           /\ calls[1] = Announcement /\ context # None
           /\ Tail(calls) \in Seq(SlotCalls)
  <2>2. Len(calls) \in Nat \ {0} /\ DOMAIN calls = 1 .. Len(calls)
        /\ Len(Tail(calls)) = Len(calls) - 1
        /\ \A i \in 1 .. Len(calls) - 1 : Tail(calls)[i] = calls[i + 1]
    BY <1>2, HeadTailProperties, EmptySeq, LenProperties
  <2>3. calls[1].op = "ScheduleInfoChanged" /\ calls[1].op \in Operations
    BY <1>2 DEF Announcement, Operations
  <2> QED BY <1>2, <2>2, <2>3 DEF Top
<1> QED BY <1>1, <1>2 DEF PreviewInvariant, CallsInStep

(* A call that returns leaves the calls it makes above those under it.     *)
LEMMA CallReturns ==
  ASSUME PreviewInvariant, calls # <<>>, NEW nested \in Seq(SlotCalls),
         Return(nested)
  PROVE  /\ calls' \in Seq(SlotCalls)
         /\ \A k \in 2 .. Len(calls) : \E j \in DOMAIN calls' : calls'[j] = calls[k]
         /\ \A k \in DOMAIN nested : \E j \in DOMAIN calls' : calls'[j] = nested[k]
<1>1. /\ Tail(calls) \in Seq(SlotCalls) /\ Len(calls) \in Nat \ {0}
      /\ Len(Tail(calls)) = Len(calls) - 1
      /\ \A i \in 1 .. Len(calls) - 1 : Tail(calls)[i] = calls[i + 1]
  BY CallOnTop
<1>2. calls' = nested \o Tail(calls)
  BY DEF Return
<1>3. /\ calls' \in Seq(SlotCalls) /\ Len(nested) \in Nat
      /\ Len(calls') = Len(nested) + Len(calls) - 1
      /\ DOMAIN calls' = 1 .. Len(calls') /\ DOMAIN nested = 1 .. Len(nested)
      /\ \A i \in 1 .. Len(nested) + (Len(calls) - 1) : calls'[i] =
           IF i <= Len(nested) THEN nested[i] ELSE Tail(calls)[i - Len(nested)]
  BY <1>1, <1>2, ConcatProperties, LenProperties
<1>4. ASSUME NEW k \in 2 .. Len(calls)
      PROVE  \E j \in DOMAIN calls' : calls'[j] = calls[k]
  <2>1. PICK i : i = Len(nested) + (k - 1)
    OBVIOUS
  <2>2. /\ i \in 1 .. Len(nested) + (Len(calls) - 1) /\ i \in DOMAIN calls'
        /\ ~(i <= Len(nested)) /\ i - Len(nested) = k - 1
        /\ k - 1 \in 1 .. Len(calls) - 1 /\ (k - 1) + 1 = k
    BY <1>1, <1>3, <2>1
  <2>3. calls'[i] = Tail(calls)[k - 1] /\ Tail(calls)[k - 1] = calls[k]
    BY <1>1, <1>3, <2>2
  <2> QED BY <2>2, <2>3
<1>5. ASSUME NEW k \in DOMAIN nested
      PROVE  \E j \in DOMAIN calls' : calls'[j] = nested[k]
  BY <1>1, <1>3
<1> QED BY <1>3, <1>4, <1>5

(* What waits on the stack still does, unless it was on top.               *)
LEMMA StillOnStack ==
  ASSUME PreviewInvariant, calls # <<>>, NEW nested \in Seq(SlotCalls),
         Return(nested), NEW op, OnStack(op), calls[1].op # op
  PROVE  OnStack(op)'
<1>1. PICK k \in DOMAIN calls : calls[k].op = op
  BY DEF OnStack
<1>2. k \in 2 .. Len(calls)
  BY <1>1, CallOnTop
<1>3. PICK j \in DOMAIN calls' : calls'[j] = calls[k]
  BY <1>2, CallReturns
<1> QED BY <1>1, <1>3 DEF OnStack

LEMMA NowOnStack ==
  ASSUME PreviewInvariant, calls # <<>>, NEW nested \in Seq(SlotCalls),
         Return(nested), NEW k \in DOMAIN nested
  PROVE  OnStack(nested[k].op)'
BY CallReturns DEF OnStack
-------------------------------------------------------------------------------
(* The cache.                                                              *)
LEMMA InvariantTypes ==
  ASSUME PreviewInvariant
  PROVE  /\ project \in Content /\ context \in Content /\ document \in Projects
         /\ revision \in Nat /\ edits \in 0 .. MaxEdits
         /\ pending = None \/ pending \in Nat
         /\ active \in BOOLEAN /\ visible \in BOOLEAN /\ needs_refresh \in BOOLEAN
         /\ timer \in BOOLEAN /\ loading \in BOOLEAN
         /\ slider \in Nat /\ slider_max \in Nat /\ slider <= slider_max
         /\ jump = None \/ jump \in Sections
         /\ shown = None \/ shown \in Frame
         /\ \A p \in Projects : OutputFrames[p] \in Nat
<1>1. /\ project \in Content /\ document \in Projects
      /\ revision \in Nat /\ edits \in 0 .. MaxEdits
      /\ visible \in BOOLEAN /\ needs_refresh \in BOOLEAN /\ timer \in BOOLEAN
  BY DEF PreviewInvariant, RefreshInStep
<1>2. /\ slider_max \in Nat /\ slider \in 0 .. slider_max
      /\ jump = None \/ jump \in Sections
      /\ Schedule(context, revision)
  BY DEF PreviewInvariant, NavigatorInStep
<1>3. context \in Content
  BY <1>2 DEF Schedule, Content
<1>4. slider \in Nat /\ slider <= slider_max
  BY <1>2
<1>5. loading \in BOOLEAN /\ (shown = None \/ shown \in Frame)
  BY DEF PreviewInvariant, PictureInStep
<1>6. active \in BOOLEAN /\ (pending = None \/ pending \in Nat)
  BY DEF PreviewInvariant, RequestInStep
<1>7. \A p \in Projects : OutputFrames[p] \in Nat
  OBVIOUS
<1> QED BY <1>1, <1>2, <1>3, <1>4, <1>5, <1>6, <1>7

LEMMA FrameFields ==
  \A f \in Frame : /\ f # None /\ f.revision \in Nat /\ f.index \in Nat
                   /\ f.content \in Projects
BY DEF Frame

LEMMA EntryRemoved ==
  ASSUME NEW S, cache \in Seq(S), NEW k \in 1 .. Len(cache)
  PROVE  /\ Others(k) \in Seq(S) /\ Len(Others(k)) = Len(cache) - 1
         /\ \A i \in 1 .. Len(cache) - 1 :
              Others(k)[i] = IF i < k THEN cache[i] ELSE cache[i + 1]
<1>1. Len(cache) \in Nat /\ \A i \in 1 .. Len(cache) : cache[i] \in S
  BY LenProperties, ElementOfSeq
<1>2. PICK a : a = SubSeq(cache, 1, k - 1)
  OBVIOUS
<1>3. PICK b : b = SubSeq(cache, k + 1, Len(cache))
  OBVIOUS
<1>4. a \in Seq(S) /\ Len(a) = k - 1 /\ \A i \in 1 .. k - 1 : a[i] = cache[i]
  <2>1. 1 \in Int /\ k - 1 \in Int /\ \A i \in 1 .. k - 1 : cache[i] \in S
    BY <1>1
  <2>2. /\ SubSeq(cache, 1, k - 1) \in Seq(S)
        /\ Len(SubSeq(cache, 1, k - 1)) = IF 1 <= k - 1 THEN (k - 1) - 1 + 1 ELSE 0
        /\ \A i \in 1 .. (k - 1) - 1 + 1 :
             SubSeq(cache, 1, k - 1)[i] = cache[1 + i - 1]
    BY <2>1, SubSeqProperties
  <2>3. \A i \in 1 .. k - 1 : a[i] = cache[1 + i - 1] /\ 1 + i - 1 = i
    BY <1>2, <2>2
  <2> QED BY <1>1, <1>2, <2>2, <2>3
<1>5. /\ b \in Seq(S) /\ Len(b) = Len(cache) - k
      /\ \A i \in 1 .. Len(cache) - k : b[i] = cache[k + i]
  <2>1. /\ k + 1 \in Int /\ Len(cache) \in Int
        /\ \A i \in k + 1 .. Len(cache) : cache[i] \in S
    BY <1>1
  <2>2. /\ SubSeq(cache, k + 1, Len(cache)) \in Seq(S)
        /\ Len(SubSeq(cache, k + 1, Len(cache))) =
             IF k + 1 <= Len(cache) THEN Len(cache) - (k + 1) + 1 ELSE 0
        /\ \A i \in 1 .. Len(cache) - (k + 1) + 1 :
             SubSeq(cache, k + 1, Len(cache))[i] = cache[(k + 1) + i - 1]
    BY <2>1, SubSeqProperties
  <2>3. \A i \in 1 .. Len(cache) - k : /\ i \in 1 .. Len(cache) - (k + 1) + 1
                                       /\ (k + 1) + i - 1 = k + i
    BY <1>1
  <2>4. \A i \in 1 .. Len(cache) - k : b[i] = cache[k + i]
    BY <1>3, <2>2, <2>3
  <2>5. Len(b) = Len(cache) - k
    BY <1>1, <1>3, <2>2
  <2> QED BY <1>3, <2>2, <2>4, <2>5
<1>6. Others(k) = a \o b
  BY <1>2, <1>3 DEF Others
<1>7. /\ Others(k) \in Seq(S) /\ Len(Others(k)) = (k - 1) + (Len(cache) - k)
      /\ \A i \in 1 .. (k - 1) + (Len(cache) - k) : Others(k)[i] =
           IF i <= k - 1 THEN a[i] ELSE b[i - (k - 1)]
  <2>1. /\ a \o b \in Seq(S) /\ Len(a \o b) = Len(a) + Len(b)
        /\ \A i \in 1 .. Len(a) + Len(b) :
             (a \o b)[i] = IF i <= Len(a) THEN a[i] ELSE b[i - Len(a)]
    <3>1. a \in Seq(S) /\ b \in Seq(S)
      BY <1>4, <1>5
    <3> QED BY ONLY <3>1, ConcatProperties
  <2>2. Len(a) = k - 1 /\ Len(b) = Len(cache) - k
    BY <1>4, <1>5
  <2> QED BY ONLY <1>6, <2>1, <2>2
<1>8. ASSUME NEW i \in 1 .. Len(cache) - 1
      PROVE  Others(k)[i] = IF i < k THEN cache[i] ELSE cache[i + 1]
  <2>1. i \in 1 .. (k - 1) + (Len(cache) - k)
    BY <1>1
  <2>2. CASE i < k
    <3>1. i \in 1 .. k - 1 /\ i <= k - 1
      BY <1>1, <2>2
    <3> QED BY <1>4, <1>7, <2>1, <2>2, <3>1
  <2>3. CASE ~(i < k)
    <3>1. i - (k - 1) \in 1 .. Len(cache) - k /\ k + (i - (k - 1)) = i + 1
      BY <1>1, <2>3
    <3> QED BY <1>5, <1>7, <2>1, <2>3, <3>1
  <2> QED BY <2>2, <2>3
<1> QED BY <1>1, <1>7, <1>8

LEMMA FrontAdded ==
  ASSUME NEW S, NEW f \in S, NEW s \in Seq(S), NEW r, r = <<f>> \o s
  PROVE  /\ r \in Seq(S) /\ Len(s) \in Nat /\ Len(r) = Len(s) + 1 /\ r[1] = f
         /\ \A i \in 2 .. Len(s) + 1 : r[i] = s[i - 1]
<1>1. PICK h : h = <<f>>
  OBVIOUS
<1>2. h \in Seq(S) /\ Len(h) = 1 /\ h[1] = f
  BY <1>1
<1>3. /\ r \in Seq(S) /\ Len(r) = 1 + Len(s) /\ Len(s) \in Nat
      /\ \A i \in 1 .. 1 + Len(s) : r[i] = IF i <= 1 THEN h[i] ELSE s[i - 1]
  BY <1>1, <1>2, ConcatProperties, LenProperties
<1>4. r[1] = f
  BY <1>2, <1>3
<1>5. \A i \in 2 .. Len(s) + 1 : r[i] = s[i - 1]
  BY <1>3
<1> QED BY <1>3, <1>4, <1>5

LEMMA Shortened ==
  ASSUME NEW S, NEW s \in Seq(S), NEW n \in 0 .. Len(s), NEW r,
         r = SubSeq(s, 1, n)
  PROVE  r \in Seq(S) /\ Len(r) = n /\ \A i \in 1 .. n : r[i] = s[i]
<1>1. Len(s) \in Nat /\ \A i \in 1 .. n : s[i] \in S
  BY LenProperties, ElementOfSeq
<1>2. 1 \in Int /\ n \in Int
  BY <1>1
<1>3. /\ SubSeq(s, 1, n) \in Seq(S)
      /\ Len(SubSeq(s, 1, n)) = IF 1 <= n THEN n - 1 + 1 ELSE 0
      /\ \A i \in 1 .. n - 1 + 1 : SubSeq(s, 1, n)[i] = s[1 + i - 1]
  BY <1>1, <1>2, SubSeqProperties
<1>4. \A i \in 1 .. n : i \in 1 .. n - 1 + 1 /\ 1 + i - 1 = i
  BY <1>2
<1> QED BY <1>1, <1>2, <1>3, <1>4

(* A hit moves to the front.                                               *)
LEMMA HitMoved ==
  ASSUME CacheInStep, NEW k \in 1 .. Len(cache),
         cache' = <<cache[k]>> \o Others(k), UNCHANGED <<project, revision>>
  PROVE  CacheInStep'
<1>1. Len(cache) \in Nat /\ cache \in Seq(CurrentFrames)
      /\ cache[k] \in CurrentFrames
  BY LenProperties, ElementOfSeq DEF CacheInStep
<1>2. PICK o : o = Others(k)
  OBVIOUS
<1>3. /\ o \in Seq(CurrentFrames) /\ Len(o) = Len(cache) - 1
      /\ \A i \in 1 .. Len(cache) - 1 :
           o[i] = IF i < k THEN cache[i] ELSE cache[i + 1]
  BY <1>1, <1>2, EntryRemoved
<1>4. PICK f : f = cache[k]
  OBVIOUS
<1>5. /\ cache' \in Seq(CurrentFrames) /\ Len(cache') = Len(cache)
      /\ cache'[1] = cache[k]
      /\ \A i \in 2 .. Len(cache) : cache'[i] = o[i - 1]
  <2>1. /\ cache' \in Seq(CurrentFrames) /\ Len(cache') = Len(o) + 1
        /\ cache'[1] = f /\ \A i \in 2 .. Len(o) + 1 : cache'[i] = o[i - 1]
    BY <1>1, <1>2, <1>3, <1>4, FrontAdded
  <2> QED BY <1>1, <1>3, <1>4, <2>1
<1> DEFINE from(i) == IF i = 1 THEN k ELSE IF i - 1 < k THEN i - 1 ELSE i
<1>6. \A i \in 1 .. Len(cache) :
        from(i) \in 1 .. Len(cache) /\ cache'[i] = cache[from(i)]
  BY <1>1, <1>3, <1>5
<1>7. \A i, j \in 1 .. Len(cache) : from(i) = from(j) => i = j
  BY <1>1
<1> HIDE DEF from
<1>8. \A i, j \in 1 .. Len(cache) : CacheKey(cache[i]) = CacheKey(cache[j]) => i = j
  BY DEF CacheInStep
<1>9. ASSUME NEW i \in 1 .. Len(cache), NEW j \in 1 .. Len(cache),
             CacheKey(cache'[i]) = CacheKey(cache'[j])
      PROVE  i = j
  <2>1. PICK a : a = from(i)
    OBVIOUS
  <2>2. PICK b : b = from(j)
    OBVIOUS
  <2>3. /\ a \in 1 .. Len(cache) /\ cache'[i] = cache[a]
        /\ b \in 1 .. Len(cache) /\ cache'[j] = cache[b]
    BY ONLY <1>6, <2>1, <2>2, i \in 1 .. Len(cache), j \in 1 .. Len(cache)
  <2>4. CacheKey(cache[a]) = CacheKey(cache[b])
    BY <1>9, <2>3
  <2>5. a = b
    BY <1>8, <2>3, <2>4
  <2> QED BY <1>7, <2>1, <2>2, <2>5
<1>10. CurrentFrames' = CurrentFrames
  BY DEF CurrentFrames
<1> QED BY <1>5, <1>9, <1>10 DEF CacheInStep, CacheKey

(* A new frame goes to the front, its entry and the last one make room.    *)
LEMMA FrameStored ==
  ASSUME CacheInStep, NEW f \in CurrentFrames, cache' = Stored(f),
         UNCHANGED <<project, revision>>
  PROVE  CacheInStep'
<1>1. Len(cache) \in Nat /\ cache \in Seq(CurrentFrames)
  BY LenProperties DEF CacheInStep
<1>2. \A i, j \in 1 .. Len(cache) : CacheKey(cache[i]) = CacheKey(cache[j]) => i = j
  BY DEF CacheInStep
<1>3. PICK hits : hits = Hits(CacheKey(f))
  OBVIOUS
<1>4. PICK base : base = IF hits = {} THEN cache
                         ELSE Others(CHOOSE k \in hits : TRUE)
  OBVIOUS
<1>5. /\ base \in Seq(CurrentFrames) /\ Len(base) <= Len(cache)
      /\ \A i \in 1 .. Len(base) : CacheKey(base[i]) # CacheKey(f)
      /\ \A i, j \in 1 .. Len(base) : CacheKey(base[i]) = CacheKey(base[j]) => i = j
  <2>1. CASE hits = {}
    <3>1. \A i \in 1 .. Len(cache) : CacheKey(cache[i]) # CacheKey(f)
      BY <1>3, <2>1 DEF Hits
    <3> QED BY <1>1, <1>2, <1>4, <2>1, <3>1
  <2>2. CASE hits # {}
    <3>1. PICK k : k = CHOOSE n \in hits : TRUE
      OBVIOUS
    <3>2. k \in hits
      BY <2>2, <3>1
    <3>3. k \in 1 .. Len(cache) /\ CacheKey(cache[k]) = CacheKey(f)
      BY <1>3, <3>2 DEF Hits
    <3>4. base = Others(k)
      BY <1>4, <2>2, <3>1
    <3>5. /\ base \in Seq(CurrentFrames) /\ Len(base) = Len(cache) - 1
          /\ \A i \in 1 .. Len(cache) - 1 :
               base[i] = IF i < k THEN cache[i] ELSE cache[i + 1]
      BY <1>1, <3>3, <3>4, EntryRemoved
    <3> DEFINE from(i) == IF i < k THEN i ELSE i + 1
    <3>6. \A i \in 1 .. Len(cache) - 1 :
            /\ from(i) \in 1 .. Len(cache) /\ from(i) # k
            /\ base[i] = cache[from(i)]
      BY <1>1, <3>3, <3>5
    <3>7. \A i, j \in 1 .. Len(cache) - 1 : from(i) = from(j) => i = j
      BY <1>1, <3>3
    <3> HIDE DEF from
    <3>8. \A i \in 1 .. Len(cache) - 1 : CacheKey(base[i]) # CacheKey(f)
      BY <1>2, <3>3, <3>6
    <3>9. \A i, j \in 1 .. Len(cache) - 1 :
            CacheKey(base[i]) = CacheKey(base[j]) => i = j
      BY <1>2, <3>6, <3>7
    <3> QED BY <1>1, <3>5, <3>8, <3>9
  <2> QED BY <2>1, <2>2
<1>6. PICK all : all = <<f>> \o base
  OBVIOUS
<1>7. /\ all \in Seq(CurrentFrames) /\ Len(base) \in Nat /\ Len(all) = Len(base) + 1
      /\ all[1] = f /\ \A i \in 2 .. Len(base) + 1 : all[i] = base[i - 1]
  BY <1>5, <1>6, FrontAdded
<1>8. \A i, j \in 1 .. Len(all) : CacheKey(all[i]) = CacheKey(all[j]) => i = j
  <2>1. \A i \in 2 .. Len(all) : CacheKey(all[i]) # CacheKey(all[1])
    BY <1>5, <1>7
  <2>2. \A i, j \in 2 .. Len(all) : CacheKey(all[i]) = CacheKey(all[j]) => i = j
    BY <1>5, <1>7
  <2>3. \A i \in 1 .. Len(all) : i = 1 \/ i \in 2 .. Len(all)
    BY <1>7
  <2> QED BY <2>1, <2>2, <2>3
<1>9. PICK n : n = IF Len(all) < Capacity THEN Len(all) ELSE Capacity
  OBVIOUS
<1>10. n \in 0 .. Len(all) /\ n <= Capacity
  BY <1>7, <1>9
<1>11. cache' = SubSeq(all, 1, n)
  BY <1>3, <1>4, <1>6, <1>9 DEF Stored
<1>12. /\ cache' \in Seq(CurrentFrames) /\ Len(cache') = n
       /\ \A i \in 1 .. n : cache'[i] = all[i]
  BY <1>7, <1>10, <1>11, Shortened
<1>13. ASSUME NEW i \in 1 .. n, NEW j \in 1 .. n,
              CacheKey(cache'[i]) = CacheKey(cache'[j])
       PROVE  i = j
  <2>1. i \in 1 .. Len(all) /\ j \in 1 .. Len(all)
    BY <1>7, <1>10
  <2>2. cache'[i] = all[i] /\ cache'[j] = all[j]
    BY <1>12
  <2>3. CacheKey(all[i]) = CacheKey(all[j])
    BY <1>13, <2>2
  <2> QED BY <1>8, <2>1, <2>3
<1>14. CurrentFrames' = CurrentFrames
  BY DEF CurrentFrames
<1> QED BY <1>10, <1>12, <1>13, <1>14 DEF CacheInStep, CacheKey
-------------------------------------------------------------------------------
(* A publication.                                                          *)

LEMMA OneAbove ==
  ASSUME NEW S, NEW s \in Seq(S), NEW c \in Seq(S), Len(c) = 1
  PROVE  /\ c \o s \in Seq(S) /\ c \o s # <<>> /\ (c \o s)[1] = c[1]
         /\ Tail(c \o s) = s
         /\ \A k \in DOMAIN s : \E j \in DOMAIN (c \o s) : (c \o s)[j] = s[k]
<1>0. PICK r : r = c \o s
  OBVIOUS
<1>1. Len(s) \in Nat
  BY LenProperties
<1>2. /\ r \in Seq(S) /\ Len(r) = 1 + Len(s)
      /\ \A i \in 1 .. 1 + Len(s) :
           r[i] = IF i <= 1 THEN c[i] ELSE s[i - 1]
  <2>1. /\ c \o s \in Seq(S) /\ Len(c \o s) = Len(c) + Len(s)
        /\ \A i \in 1 .. Len(c) + Len(s) :
             (c \o s)[i] = IF i <= Len(c) THEN c[i] ELSE s[i - Len(c)]
    BY ONLY c \in Seq(S), s \in Seq(S), ConcatProperties
  <2> QED BY <1>0, <2>1
<1>3. r[1] = c[1]
  BY <1>1, <1>2
<1>4. ASSUME NEW k \in 1 .. Len(s)
      PROVE  r[k + 1] = s[k]
  <2>1. k + 1 \in 1 .. 1 + Len(s) /\ ~(k + 1 <= 1) /\ k + 1 - 1 = k
    BY <1>1
  <2> QED BY <1>2, <2>1
<1>5. DOMAIN r = 1 .. Len(s) + 1
  BY <1>1, <1>2, LenProperties
<1>6. r # <<>>
  BY <1>1, <1>2, EmptySeq
<1>7. Tail(r) = s
  <2>1. /\ Tail(r) \in Seq(S) /\ Len(Tail(r)) = Len(s)
        /\ \A i \in 1 .. Len(s) : Tail(r)[i] = r[i + 1]
    BY <1>1, <1>2, <1>6, HeadTailProperties
  <2>2. \A i \in 1 .. Len(s) : Tail(r)[i] = s[i]
    BY <1>4, <2>1
  <2> QED BY <2>1, <2>2, SeqEqual
<1>8. ASSUME NEW k \in DOMAIN s
      PROVE  \E j \in DOMAIN r : r[j] = s[k]
  <2>1. k \in 1 .. Len(s) /\ k + 1 \in 1 .. Len(s) + 1
    BY <1>1, LenProperties
  <2> QED BY <1>4, <1>5, <2>1
<1> QED BY <1>0, <1>2, <1>3, <1>6, <1>7, <1>8

(* What the result on delivery makes the GUI thread do.                    *)
LEMMA OutcomeCalls ==
  ASSUME PreviewInvariant, NEW m \in DOMAIN posted, posted[m].revision = revision
  PROVE  /\ Outcome(posted[m]) \in Seq(SlotCalls)
         /\ \E k \in DOMAIN Outcome(posted[m]) :
              Outcome(posted[m])[k].op \in {"FrameReady", "PreviewFailed"}
<1> DEFINE message == posted[m]
<1>1. /\ message \in Messages
      /\ Schedule(message.context, message.revision)
      /\ message.frame # None =>
           /\ message.frame.revision = message.revision
           /\ message.frame.content = message.context
           /\ message.frame.index < OutputFrames[message.context]
  BY ElementOfSeq, LenProperties DEF PreviewInvariant, ResultsInStep
<1>2. CASE message.frame # None
  <2>1. PICK f : f = message.frame
    OBVIOUS
  <2>2. f \in Frame
    BY <1>1, <1>2, <2>1 DEF Messages
  <2>3. message.context # None
    BY <1>1, <1>2, <2>1, <2>2, FrameFields
  <2>4. f \in CurrentFrames
    BY <1>1, <1>2, <2>1, <2>2, <2>3 DEF CurrentFrames, Schedule
  <2>5. PICK b : b = Call("FrameReady", f)
    OBVIOUS
  <2>6. PICK a : a = Call("StoreInCache", f)
    OBVIOUS
  <2>7. a \in Seq(SlotCalls) /\ b \in Seq(SlotCalls) /\ Len(a) = 1
    BY <2>4, <2>5, <2>6, CallMade, CallHead
  <2>8. Outcome(posted[m]) = a \o b
    BY <1>2, <2>1, <2>5, <2>6 DEF Outcome
  <2>9. Len(b) = 1 /\ b[1].op = "FrameReady"
    BY <2>5, CallHead
  <2>10. PICK r : r = a \o b
    OBVIOUS
  <2>11. r \in Seq(SlotCalls) /\ \A k \in DOMAIN b : \E j \in DOMAIN r : r[j] = b[k]
    BY ONLY <2>7, <2>10, OneAbove
  <2>12. 1 \in DOMAIN b
    BY <2>5, CallHead
  <2>13. PICK j \in DOMAIN r : r[j] = b[1]
    BY <2>11, <2>12
  <2> QED BY <2>8, <2>9, <2>10, <2>11, <2>13
<1>3. CASE message.frame = None
  <2>1. PICK r : r = Call("PreviewFailed", revision)
    OBVIOUS
  <2>2. Outcome(posted[m]) = r
    BY <1>3, <2>1 DEF Outcome
  <2>3. r \in Seq(SlotCalls) /\ 1 \in DOMAIN r /\ r[1].op = "PreviewFailed"
    BY <2>1, CallMade, CallHead
  <2> QED BY <2>2, <2>3
<1> QED BY <1>2, <1>3

(* The only result there can be is taken, and the calls it causes end with *)
(* the start of the next worker.                                           *)
LEMMA Published ==
  ASSUME PreviewInvariant, Publish
  PROVE  /\ 1 \in DOMAIN posted /\ DOMAIN posted = {1} /\ posted' = <<>>
         /\ worker = None
         /\ \E rest \in Seq(SlotCalls) :
              /\ \/ calls' = rest /\ UNCHANGED context
                 \/ /\ calls' = Call("ScheduleInfoChanged", None) \o rest
                    /\ posted[1].revision = revision
                    /\ context' = posted[1].context /\ context' # None
              /\ \E k \in DOMAIN rest : rest[k].op = "StartWorker"
              /\ posted[1].revision = revision =>
                   \E k \in DOMAIN rest :
                     rest[k].op \in {"FrameReady", "PreviewFailed"}
<1>1. posted # <<>> /\ posted' = Tail(posted) /\ posted \in Seq(Messages)
  BY DEF Publish, PreviewInvariant, ResultsInStep
<1>2. Len(posted) \in Nat \ {0} /\ DOMAIN posted = 1 .. Len(posted)
  BY <1>1, EmptySeq, LenProperties
<1>3. Len(posted) = 1 /\ worker = None
  BY <1>2 DEF PreviewInvariant, SingleWorker
<1>4. 1 \in DOMAIN posted /\ DOMAIN posted = {1}
  BY <1>2, <1>3
<1>5. posted' = <<>>
  <2>1. Tail(posted) \in Seq(Messages) /\ Len(Tail(posted)) = 0
    BY <1>1, <1>3, HeadTailProperties
  <2> QED BY <1>1, <2>1, EmptySeq
<1>6. PICK out : out = IF posted[1].revision = revision THEN Outcome(posted[1])
                                                        ELSE <<>>
  OBVIOUS
<1>7. out \in Seq(SlotCalls)
  BY <1>4, <1>6, OutcomeCalls, CallMade
<1>8. posted[1].revision = revision =>
        \E k \in DOMAIN out : out[k].op \in {"FrameReady", "PreviewFailed"}
  BY <1>4, <1>6, OutcomeCalls
<1>9. PICK last : last = Call("StartWorker", None)
  OBVIOUS
<1>10. /\ last \in Seq(SlotCalls) /\ Len(last) = 1
       /\ last[1].op = "StartWorker"
  BY <1>9, CallMade, CallHead
<1>11. PICK rest : rest = out \o last
  OBVIOUS
<1>12. /\ rest \in Seq(SlotCalls) /\ Len(out) \in Nat
       /\ DOMAIN rest = 1 .. Len(out) + 1 /\ DOMAIN out = 1 .. Len(out)
       /\ \A i \in 1 .. Len(out) + 1 :
            rest[i] = IF i <= Len(out) THEN out[i] ELSE last[i - Len(out)]
  <2>1. out \in Seq(SlotCalls) /\ last \in Seq(SlotCalls)
    BY <1>7, <1>10
  <2>2. /\ out \o last \in Seq(SlotCalls)
        /\ Len(out \o last) = Len(out) + Len(last)
        /\ \A i \in 1 .. Len(out) + Len(last) :
             (out \o last)[i] = IF i <= Len(out) THEN out[i] ELSE last[i - Len(out)]
    BY ONLY <2>1, ConcatProperties
  <2>3. /\ Len(out) \in Nat /\ DOMAIN out = 1 .. Len(out)
        /\ DOMAIN (out \o last) = 1 .. Len(out \o last)
    BY ONLY <2>1, <2>2, LenProperties
  <2> QED BY ONLY <1>10, <1>11, <2>2, <2>3
<1>13. \E k \in DOMAIN rest : rest[k].op = "StartWorker"
  <2>1. PICK k : k = Len(out) + 1
    OBVIOUS
  <2>2. k \in 1 .. Len(out) + 1 /\ ~(k <= Len(out)) /\ k - Len(out) = 1
    BY <1>12, <2>1
  <2>3. rest[k] = last[1]
    BY <1>12, <2>2
  <2> QED BY <1>10, <1>12, <2>2, <2>3
<1>14. \A k \in DOMAIN out : k \in DOMAIN rest /\ rest[k] = out[k]
  BY <1>12
<1>15. posted[1].revision = revision =>
         \E k \in DOMAIN rest : rest[k].op \in {"FrameReady", "PreviewFailed"}
  BY <1>8, <1>14
<1>16. CASE context' = context /\ calls' = (<<>> \o out) \o last
  <2>1. <<>> \o out = out
    BY <1>7, ConcatEmptySeq
  <2>2. calls' = rest
    BY <1>11, <1>16, <2>1
  <2> QED BY <1>3, <1>4, <1>5, <1>12, <1>13, <1>15, <1>16, <2>2
<1>17. CASE /\ posted[1].revision = revision /\ context' = posted[1].context
            /\ posted[1].context # None
            /\ calls' = (Call("ScheduleInfoChanged", None) \o out) \o last
  <2>1. PICK first : first = Call("ScheduleInfoChanged", None)
    OBVIOUS
  <2>2. first \in Seq({Announcement} \cup SlotCalls)
    BY <2>1 DEF Call, Announcement
  <2>3. /\ out \in Seq({Announcement} \cup SlotCalls)
        /\ last \in Seq({Announcement} \cup SlotCalls)
    BY <1>7, <1>10
  <2>4. (first \o out) \o last = first \o (out \o last)
    BY <2>2, <2>3, ConcatAssociative
  <2>5. calls' = first \o rest
    BY <1>11, <1>17, <2>1, <2>4
  <2>6. calls' = Call("ScheduleInfoChanged", None) \o rest
    BY <2>1, <2>5
  <2> QED BY <1>3, <1>4, <1>5, <1>12, <1>13, <1>15, <1>17, <2>6
<1> QED BY <1>6, <1>9, <1>16, <1>17 DEF Publish

(* An announced schedule is on top of the calls of its publication.        *)
LEMMA CalledFirst ==
  ASSUME NEW rest \in Seq(SlotCalls), NEW all,
         all = Call("ScheduleInfoChanged", None) \o rest
  PROVE  /\ all \in Seq({Announcement} \cup SlotCalls) /\ all # <<>>
         /\ all[1] = Announcement /\ all[1].op = "ScheduleInfoChanged"
         /\ Tail(all) \in Seq(SlotCalls)
         /\ \A k \in DOMAIN rest : \E j \in DOMAIN all : all[j] = rest[k]
<1>1. PICK first : first = Call("ScheduleInfoChanged", None)
  OBVIOUS
<1>2. PICK S : S = {Announcement} \cup SlotCalls
  OBVIOUS
<1>3. /\ first \in Seq(S) /\ rest \in Seq(S) /\ all = first \o rest
      /\ Len(first) = 1
  BY <1>1, <1>2 DEF Call, Announcement
<1>0. first[1] = Announcement
  BY <1>1 DEF Call, Announcement
<1>4. /\ all \in Seq(S) /\ all # <<>> /\ all[1] = first[1] /\ Tail(all) = rest
      /\ \A k \in DOMAIN rest : \E j \in DOMAIN all : all[j] = rest[k]
  BY ONLY <1>3, OneAbove
<1>5. Announcement.op = "ScheduleInfoChanged"
  BY DEF Announcement
<1> QED BY <1>0, <1>2, <1>4, <1>5
-------------------------------------------------------------------------------
(* Each part of the invariant is kept by every action.                     *)

LEMMA CacheUnmoved ==
  CacheInStep /\ UNCHANGED <<cache, project, revision>> => CacheInStep'
BY DEF CacheInStep, CurrentFrames, CacheKey

LEMMA CacheKeeps ==
  ASSUME PreviewInvariant, [Next]_vars
  PROVE  CacheInStep'
<1> CacheInStep
  BY DEF PreviewInvariant
<1>1. CASE EditDocument \/ ShowOrHide \/ Scrub \/ SelectSection
  BY <1>1, CacheUnmoved
  DEF EditDocument, ShowOrHide, Scrub, SelectSection, service_vars
<1>2. CASE RefreshTimeout
  <2>1. cache' = <<>>
    BY <1>2 DEF RefreshTimeout, SetProject
  <2> QED BY <2>1 DEF CacheInStep
<1>3. CASE PublishEvent
  BY <1>3, CacheUnmoved DEF PublishEvent, Background, Publish
<1>4. CASE PaneCall
  BY <1>4, CacheUnmoved
  DEF PaneCall, ShowSectionFirstFrame, ScheduleInfoChanged, FrameReady,
      PreviewFailed, service_vars
<1>5. CASE RequestFrame
  <2>1. CASE UNCHANGED <<cache, project, revision>>
    BY <2>1, CacheUnmoved
  <2>2. CASE \E k \in Hits(<<revision, Argument>>) :
               cache' = <<cache[k]>> \o Others(k)
    BY <1>5, <2>2, HitMoved DEF RequestFrame, Hits, service_vars
  <2> QED BY <1>5, <2>1, <2>2 DEF RequestFrame, service_vars
<1>6. CASE StoreInCache
  <2>1. Argument \in CurrentFrames
    BY <1>6, CallOnTop DEF StoreInCache, Top
  <2> QED BY <1>6, <2>1, FrameStored DEF StoreInCache
<1>7. CASE StartWorker
  BY <1>7, CacheUnmoved DEF StartWorker
<1>8. CASE Background(WorkerStep)
  BY <1>8, CacheUnmoved DEF Background, WorkerStep, BuildContext, Synthesize
<1>9. CASE UNCHANGED vars
  BY <1>9, CacheUnmoved DEF vars, service_vars
<1> QED BY <1>1, <1>2, <1>3, <1>4, <1>5, <1>6, <1>7, <1>8, <1>9
        DEF Next, RunCall, ServiceCall

LEMMA RefreshKeeps ==
  ASSUME PreviewInvariant, [Next]_vars
  PROVE  RefreshInStep'
<1> RefreshInStep
  BY DEF PreviewInvariant
<1> MaxEdits \in Nat
  BY MaxEditsAssumption
<1> DEFINE unmoved == UNCHANGED <<project, document, revision, edits, visible,
                                  needs_refresh, timer>>
<1>1. CASE unmoved
  BY <1>1 DEF RefreshInStep
<1>2. CASE EditDocument
  <2>1. /\ UNCHANGED <<project, revision, visible>>
        /\ edits < MaxEdits /\ edits' = edits + 1 /\ needs_refresh' = TRUE
        /\ document' \in Projects /\ timer' \in BOOLEAN
    BY <1>2 DEF EditDocument, service_vars, RefreshInStep
  <2>2. /\ revision \in Nat /\ edits \in Nat /\ edits' \in 0 .. MaxEdits
        /\ revision + 1 <= edits' + 1
    BY <2>1 DEF RefreshInStep
  <2> QED BY <2>1, <2>2 DEF RefreshInStep
<1>3. CASE ShowOrHide
  BY <1>3 DEF ShowOrHide, service_vars, document_vars, RefreshInStep
<1>4. CASE RefreshTimeout
  <2>1. /\ UNCHANGED <<document, edits, visible>> /\ project' = document
        /\ revision' = revision + 1 /\ needs_refresh' = FALSE /\ timer' = FALSE
        /\ needs_refresh = TRUE
    BY <1>4 DEF RefreshTimeout, SetProject, document_vars, RefreshInStep
  <2>2. /\ revision' \in Nat /\ revision' >= 1 /\ revision' <= edits + 1
        /\ project' \in Content /\ document' \in Projects
        /\ edits' \in 0 .. MaxEdits /\ visible' \in BOOLEAN
    BY <2>1 DEF RefreshInStep, Content
  <2>3. revision' + (IF needs_refresh' THEN 1 ELSE 0) <= edits' + 1
    BY <2>1, <2>2
  <2> QED BY <2>1, <2>2, <2>3 DEF RefreshInStep
<1>5. CASE ShowSectionFirstFrame
  <2>1. /\ timer' \in BOOLEAN /\ (timer' => needs_refresh)
        /\ UNCHANGED <<project, document, revision, edits, visible, needs_refresh>>
    BY <1>5 DEF ShowSectionFirstFrame, service_vars, document_vars, RefreshInStep
  <2> QED BY <2>1 DEF RefreshInStep
<1>6. CASE Scrub \/ SelectSection
  BY <1>1, <1>6 DEF Scrub, SelectSection, service_vars, document_vars, refresh_vars
<1>7. CASE PublishEvent
  BY <1>1, <1>7 DEF PublishEvent, Background, Publish, document_vars, refresh_vars
<1>8. CASE ScheduleInfoChanged \/ FrameReady \/ PreviewFailed
  BY <1>1, <1>8 DEF ScheduleInfoChanged, FrameReady, PreviewFailed, service_vars,
      document_vars, refresh_vars
<1>9. CASE ServiceCall /\ UNCHANGED <<document_vars, refresh_vars>>
  BY <1>1, <1>9 DEF ServiceCall, RequestFrame, StoreInCache, StartWorker,
      service_vars, document_vars, refresh_vars
<1>10. CASE Background(WorkerStep)
  BY <1>1, <1>10 DEF Background, WorkerStep, BuildContext, Synthesize,
      document_vars, refresh_vars
<1>11. CASE UNCHANGED vars
  BY <1>1, <1>11 DEF vars, service_vars, document_vars, refresh_vars
<1> QED BY <1>2, <1>3, <1>4, <1>5, <1>6, <1>7, <1>8, <1>9, <1>10, <1>11
        DEF Next, RunCall, PaneCall

LEMMA NavigatorKeeps ==
  ASSUME PreviewInvariant, [Next]_vars
  PROVE  NavigatorInStep'
<1> NavigatorInStep
  BY DEF PreviewInvariant
<1> DEFINE unmoved == UNCHANGED <<slider_max, context, revision, project>>
<1>1. ASSUME unmoved, ~Top("ScheduleInfoChanged"), slider' \in 0 .. slider_max,
             jump' = None \/ jump' \in Sections
      PROVE  NavigatorInStep'
  BY <1>1 DEF NavigatorInStep, Schedule
<1>2. CASE UNCHANGED <<slider, slider_max, jump, context, revision, project, calls>>
  BY <1>2 DEF NavigatorInStep, Schedule, Top
<1>3. CASE EditDocument \/ ShowOrHide
  BY <1>2, <1>3 DEF EditDocument, ShowOrHide, service_vars, navigator_vars
<1>4. CASE Scrub
  BY <1>1, <1>4 DEF Scrub, Idle, Top, service_vars, NavigatorInStep
<1>5. CASE SelectSection
  <2>1. ~Top("ScheduleInfoChanged")
    BY <1>5 DEF SelectSection, Idle, Top
  <2> QED BY <1>1, <1>5, <2>1 DEF SelectSection, service_vars, navigator_vars,
                                  NavigatorInStep
<1>6. CASE RefreshTimeout
  <2>1. context' = None /\ UNCHANGED <<slider, slider_max, jump>>
    BY <1>6 DEF RefreshTimeout, SetProject, navigator_vars
  <2> QED BY <2>1 DEF NavigatorInStep, Schedule
<1>7. CASE PublishEvent
  <2>1. /\ calls = <<>> /\ posted # <<>>
        /\ UNCHANGED <<slider, slider_max, jump, revision, project>>
    BY <1>7 DEF PublishEvent, Background, Publish, navigator_vars
  <2>2. ~Top("ScheduleInfoChanged")
    BY <2>1 DEF Top
  <2>3. CASE context' = context
    BY <1>1, <2>1, <2>2, <2>3 DEF NavigatorInStep
  <2>4. PICK rest \in Seq(SlotCalls) :
          \/ UNCHANGED context
          \/ /\ calls' = Call("ScheduleInfoChanged", None) \o rest
             /\ posted[1].revision = revision /\ context' = posted[1].context
    BY <1>7, Published DEF PublishEvent, Background
  <2>5. CASE /\ calls' = Call("ScheduleInfoChanged", None) \o rest
             /\ posted[1].revision = revision /\ context' = posted[1].context
    <3>1. Schedule(posted[1].context, posted[1].revision)
      BY <1>7, Published DEF PublishEvent, Background, PreviewInvariant,
                             ResultsInStep
    <3>2. Schedule(context, revision)'
      BY <2>1, <2>5, <3>1 DEF Schedule
    <3>3. Top("ScheduleInfoChanged")'
      BY <2>5, CalledFirst DEF Top
    <3> QED BY <2>1, <3>2, <3>3 DEF NavigatorInStep
  <2> QED BY <2>3, <2>4, <2>5
<1>8. CASE ShowSectionFirstFrame
  <2>1. calls # <<>> /\ Top("ShowSectionFirstFrame")
        /\ ~Top("ScheduleInfoChanged") /\ unmoved
    BY <1>8 DEF ShowSectionFirstFrame, Top, service_vars
  <2>2. Argument \in Sections
    BY <2>1, CallOnTop
  <2>3. Argument \in Nat \ {0}
    BY <2>2, FirstFramesAssumption DEF Sections
  <2>4. jump' = None \/ jump' \in Sections
    BY <1>8, <2>2 DEF ShowSectionFirstFrame, NavigatorInStep
  <2>5. slider' \in 0 .. slider_max
    <3>1. CASE slider' = slider
      BY <3>1 DEF NavigatorInStep
    <3>2. CASE /\ context # None /\ Argument <= Len(FirstFrames[context])
               /\ slider' = FirstFrames[context][Argument]
      <4>1. context \in Projects /\ slider_max = OutputFrames[context] - 1
        BY <2>1, <3>2 DEF NavigatorInStep, Schedule
      <4>2. FirstFrames[context] \in Seq(Nat)
        BY <4>1, FirstFramesAssumption
      <4>3. Argument \in DOMAIN FirstFrames[context]
        BY <2>3, <3>2, <4>2, LenProperties
      <4>4. slider' \in Nat
        BY <3>2, <4>2, <4>3, ElementOfSeq, LenProperties
      <4>5. slider' < OutputFrames[context]
        BY <3>2, <4>1, <4>3, FirstFramesAssumption
      <4>6. OutputFrames[context] \in Nat
        BY <4>1, OutputFramesAssumption
      <4> QED BY <4>1, <4>4, <4>5, <4>6
    <3> QED BY <1>8, <3>1, <3>2 DEF ShowSectionFirstFrame
  <2> QED BY <1>1, <2>1, <2>4, <2>5
<1>9. CASE ScheduleInfoChanged
  <2>1. context # None
    BY <1>9, CallOnTop DEF ScheduleInfoChanged, Top
  <2>2. context \in Projects /\ OutputFrames[context] > 0
    BY <2>1 DEF NavigatorInStep, Schedule
  <2>3. OutputFrames[context] \in Nat
    BY <2>2, OutputFramesAssumption
  <2>4. /\ UNCHANGED <<context, revision, project>> /\ jump' = None
        /\ slider_max' = OutputFrames[context] - 1
        /\ slider' = IF slider > slider_max' THEN slider_max' ELSE slider
    BY <1>9 DEF ScheduleInfoChanged, service_vars
  <2>5. slider_max' \in Nat /\ slider' \in 0 .. slider_max'
    BY <2>2, <2>3, <2>4 DEF NavigatorInStep
  <2> QED BY <2>4, <2>5 DEF NavigatorInStep, Schedule
<1>10. CASE FrameReady \/ PreviewFailed
  <2>1. ~Top("ScheduleInfoChanged")
    BY <1>10 DEF FrameReady, PreviewFailed, Top
  <2> QED BY <1>1, <1>10, <2>1 DEF FrameReady, PreviewFailed, service_vars,
             navigator_vars, NavigatorInStep
<1>11. CASE ServiceCall /\ UNCHANGED navigator_vars
  <2>1. ~Top("ScheduleInfoChanged")
    BY <1>11 DEF ServiceCall, RequestFrame, StoreInCache, StartWorker, Top
  <2>2. UNCHANGED <<context, revision, project>>
    BY <1>11 DEF ServiceCall, RequestFrame, StoreInCache, StartWorker, service_vars
  <2> QED BY <1>1, <1>11, <2>1, <2>2 DEF navigator_vars, NavigatorInStep
<1>12. CASE Background(WorkerStep)
  BY <1>2, <1>12 DEF Background, WorkerStep, BuildContext, Synthesize,
      navigator_vars
<1>13. CASE UNCHANGED vars
  BY <1>2, <1>13 DEF vars, service_vars, navigator_vars
<1> QED BY <1>3, <1>4, <1>5, <1>6, <1>7, <1>8, <1>9, <1>10, <1>11, <1>12, <1>13
        DEF Next, RunCall, PaneCall
-------------------------------------------------------------------------------
(* The calls.                                                              *)

LEMMA SameSlots ==
  UNCHANGED <<project, revision>> => SlotCalls' = SlotCalls
<1>1. UNCHANGED <<project, revision>> => CurrentFrames' = CurrentFrames
  BY DEF CurrentFrames
<1> QED BY <1>1 DEF SlotCalls

(* A call that runs is replaced by the calls it makes.                     *)
LEMMA RunMakesCalls ==
  ASSUME PreviewInvariant, [Next]_vars, RunCall
  PROVE  /\ calls # <<>> /\ UNCHANGED <<project, revision>>
         /\ \E nested \in Seq(SlotCalls) : Return(nested)
<1>1. slider \in Nat /\ slider' \in Nat
  BY NavigatorKeeps, InvariantTypes DEF NavigatorInStep
<1>2. CASE ShowSectionFirstFrame
  <2>1. PICK nested : nested = IF context = None
                THEN IF needs_refresh THEN <<>> ELSE RequestCurrentFrame
                ELSE IF Argument > Len(FirstFrames[context]) THEN <<>>
                     ELSE Call("RequestFrame", slider')
    OBVIOUS
  <2>2. nested \in Seq(SlotCalls)
    BY <1>1, <2>1, CallMade DEF RequestCurrentFrame
  <2>3. Return(nested)
    <3>1. Len(FirstFrames[context]) >= Argument /\ context # None
            => ~(Argument > Len(FirstFrames[context]))
      <4>1. Argument \in Sections
        BY <1>2, CallOnTop DEF ShowSectionFirstFrame, Top
      <4>2. Argument \in Nat
        BY <4>1, FirstFramesAssumption DEF Sections
      <4>3. context # None => Len(FirstFrames[context]) \in Nat
        BY InvariantTypes, FirstFramesAssumption, LenProperties DEF Content
      <4> QED BY <4>2, <4>3
    <3> QED BY <1>2, <2>1, <3>1 DEF ShowSectionFirstFrame
  <2> QED BY <1>2, <2>2, <2>3 DEF ShowSectionFirstFrame, Top, service_vars
<1>3. CASE ScheduleInfoChanged
  <2>1. PICK a : a = IF slider' # slider THEN Call("RequestFrame", slider')
                                         ELSE <<>>
    OBVIOUS
  <2>2. PICK b : b = IF jump # None THEN Call("ShowSectionFirstFrame", jump)
                                    ELSE <<>>
    OBVIOUS
  <2>3. a \in Seq(SlotCalls) /\ b \in Seq(SlotCalls)
    BY <1>1, <2>1, <2>2, CallMade, InvariantTypes
  <2>4. PICK nested : nested = a \o b
    OBVIOUS
  <2>5. nested \in Seq(SlotCalls)
    BY ONLY <2>3, <2>4, ConcatProperties
  <2>6. Return(nested)
    BY <1>3, <2>1, <2>2, <2>4 DEF ScheduleInfoChanged
  <2> QED BY <1>3, <2>5, <2>6 DEF ScheduleInfoChanged, Top, service_vars
<1>4. CASE FrameReady \/ PreviewFailed
  BY <1>4, CallMade DEF FrameReady, PreviewFailed, Top, service_vars
<1>5. CASE RequestFrame
  <2>1. CASE Return(<<>>)
    BY <1>5, <2>1, CallMade DEF RequestFrame, Top, service_vars
  <2>2. CASE \E k \in Hits(<<revision, Argument>>) :
               Return(Call("FrameReady", cache[k]))
    <3>1. PICK k \in Hits(<<revision, Argument>>) :
                 Return(Call("FrameReady", cache[k]))
      BY <2>2
    <3>2. cache[k] \in CurrentFrames
      BY <3>1, ElementOfSeq DEF PreviewInvariant, CacheInStep, Hits
    <3> QED BY <1>5, <3>1, <3>2, CallMade DEF RequestFrame, Top, service_vars
  <2> QED BY <1>5, <2>1, <2>2 DEF RequestFrame
<1>6. CASE StoreInCache \/ StartWorker
  BY <1>6, CallMade DEF StoreInCache, StartWorker, Top
<1> QED BY <1>2, <1>3, <1>4, <1>5, <1>6 DEF RunCall, PaneCall, ServiceCall

LEMMA CallsKeeps ==
  ASSUME PreviewInvariant, [Next]_vars
  PROVE  CallsInStep'
<1>1. ASSUME UNCHANGED <<project, revision>>, calls' \in Seq(SlotCalls)
      PROVE  CallsInStep'
  BY <1>1, SameSlots DEF CallsInStep
<1>2. CASE UNCHANGED <<calls, context, project, revision>>
  <2>1. CallsInStep
    BY DEF PreviewInvariant
  <2> QED BY <1>2, <2>1, SameSlots DEF CallsInStep, Announcement
<1>3. CASE EditDocument \/ ShowOrHide
  BY <1>2, <1>3 DEF EditDocument, ShowOrHide, service_vars
<1>4. CASE Scrub
  <2>1. slider' \in Nat
    BY NavigatorKeeps DEF NavigatorInStep
  <2>2. calls' \in Seq(SlotCalls)
    BY <1>4, <2>1, CallMade DEF Scrub
  <2> QED BY <1>1, <1>4, <2>2 DEF Scrub, service_vars
<1>5. CASE SelectSection
  BY <1>1, <1>5, CallMade DEF SelectSection, service_vars
<1>6. CASE RefreshTimeout
  <2>1. [op |-> "RequestFrame", arg |-> slider] \in SlotCalls'
    BY InvariantTypes DEF SlotCalls
  <2>2. calls' = <<[op |-> "RequestFrame", arg |-> slider]>>
    BY <1>6 DEF RefreshTimeout, RequestCurrentFrame, Call
  <2>3. calls' \in Seq(SlotCalls')
    BY <2>1, <2>2
  <2> QED BY <2>3 DEF CallsInStep
<1>7. CASE PublishEvent
  <2>1. UNCHANGED <<project, revision>>
    BY <1>7 DEF PublishEvent, Background, Publish
  <2>2. PICK rest \in Seq(SlotCalls) :
          \/ calls' = rest
          \/ /\ calls' = Call("ScheduleInfoChanged", None) \o rest
             /\ context' # None
    BY <1>7, Published DEF PublishEvent, Background
  <2>3. CASE calls' = rest
    BY <1>1, <2>1, <2>3
  <2>4. CASE /\ calls' = Call("ScheduleInfoChanged", None) \o rest
             /\ context' # None
    <3>1. /\ calls' \in Seq({Announcement} \cup SlotCalls) /\ calls' # <<>>
          /\ calls'[1] = Announcement /\ Tail(calls') \in Seq(SlotCalls)
      BY <2>4, CalledFirst
    <3> QED BY <2>1, <2>4, <3>1, SameSlots DEF CallsInStep, Announcement
  <2> QED BY <2>2, <2>3, <2>4
<1>8. CASE RunCall
  <2>1. PICK nested \in Seq(SlotCalls) : Return(nested)
    BY <1>8, RunMakesCalls
  <2>2. calls' \in Seq(SlotCalls)
    BY <1>8, <2>1, RunMakesCalls, CallReturns
  <2> QED BY <1>1, <1>8, <2>2, RunMakesCalls
<1>9. CASE Background(WorkerStep)
  BY <1>2, <1>9 DEF Background, WorkerStep, BuildContext, Synthesize
<1>10. CASE UNCHANGED vars
  BY <1>2, <1>10 DEF vars, service_vars
<1> QED BY <1>3, <1>4, <1>5, <1>6, <1>7, <1>8, <1>9, <1>10 DEF Next
-------------------------------------------------------------------------------
(* The worker and its results.                                             *)

(* A worker is started for the present project, when none is at work.      *)
LEMMA Launched ==
  ASSUME PreviewInvariant, NEW i \in Nat, Launch(i), ~active, project # None,
         UNCHANGED <<project, revision, context, posted>>
  PROVE  /\ WorkerInStep' /\ SingleWorker' /\ worker' # None
         /\ worker'.revision = revision'
<1>1. PICK w : w = [revision |-> revision, index |-> i, snapshot |-> project,
                    context |-> context]
  OBVIOUS
<1>2. project \in Projects /\ revision \in Nat /\ context \in Content
  BY InvariantTypes DEF Content
<1>3. /\ w \in Workers /\ w.revision = revision /\ w.snapshot = project
      /\ w.context = context
  BY <1>1, <1>2 DEF Workers
<1>4. w # None
  BY <1>3
<1>5. worker' = w /\ active' = TRUE
  BY <1>1 DEF Launch
<1>6. revision >= 1
  BY DEF PreviewInvariant, RefreshInStep
<1>7. Schedule(context, revision)
  BY DEF PreviewInvariant, NavigatorInStep
<1>8. WorkerInStep'
  BY <1>2, <1>3, <1>5, <1>6, <1>7 DEF WorkerInStep, Schedule
<1>9. Len(posted) = 0
  <2>1. Len(posted) \in Nat
    BY LenProperties DEF PreviewInvariant, ResultsInStep
  <2> QED BY <2>1 DEF PreviewInvariant, SingleWorker
<1>10. SingleWorker'
  BY <1>4, <1>5, <1>9 DEF SingleWorker
<1> QED BY <1>3, <1>4, <1>5, <1>8, <1>10

(* A worker ends with one result.                                          *)
LEMMA ResultPosted ==
  ASSUME PreviewInvariant, worker # None, NEW ctx \in Content,
         NEW frame \in Frame \cup {None}, Post(ctx, frame),
         UNCHANGED <<project, revision, active>>,
         Schedule(ctx, worker.revision),
         frame # None => /\ frame.revision = worker.revision
                         /\ frame.content = ctx /\ frame.index < OutputFrames[ctx]
  PROVE  /\ ResultsInStep' /\ WorkerInStep' /\ SingleWorker'
         /\ 1 \in DOMAIN posted' /\ posted'[1].revision = worker.revision
<1>1. worker \in Workers /\ worker.revision \in 1 .. revision
  BY DEF PreviewInvariant, WorkerInStep
<1>2. PICK m : m = [revision |-> worker.revision, context |-> ctx, frame |-> frame]
  OBVIOUS
<1>3. /\ m \in Messages /\ m.revision = worker.revision /\ m.context = ctx
      /\ m.frame = frame
  BY <1>1, <1>2 DEF Messages, Workers
<1>4. posted = <<>> /\ active = TRUE
  <2>1. posted \in Seq(Messages) /\ Len(posted) \in Nat /\ active \in BOOLEAN
    BY LenProperties DEF PreviewInvariant, ResultsInStep, RequestInStep
  <2>2. Len(posted) = 0 /\ active = TRUE
    BY <2>1 DEF PreviewInvariant, SingleWorker
  <2> QED BY <2>1, <2>2, EmptySeq
<1>5. posted' = <<m>> /\ worker' = None
  BY <1>2, <1>4 DEF Post
<1>6. /\ posted' \in Seq(Messages) /\ DOMAIN posted' = {1} /\ posted'[1] = m
      /\ Len(posted') = 1
  BY <1>3, <1>5
<1>7. ResultsInStep'
  <2>1. \A k \in DOMAIN posted' : posted'[k] = m
    BY <1>6
  <2>2. m.revision \in 1 .. revision'
    BY <1>1, <1>3
  <2>3. Schedule(m.context, m.revision)'
    BY <1>3 DEF Schedule
  <2>4. m.frame # None => /\ m.frame.revision = m.revision
                          /\ m.frame.content = m.context
                          /\ m.frame.index < OutputFrames[m.context]
    BY <1>3
  <2>5. posted' \in Seq(Messages')
    BY <1>6 DEF Messages
  <2> QED BY <2>1, <2>2, <2>3, <2>4, <2>5 DEF ResultsInStep
<1> QED BY <1>3, <1>4, <1>5, <1>6, <1>7 DEF WorkerInStep, SingleWorker

LEMMA ResultsUnmoved ==
  ASSUME PreviewInvariant, UNCHANGED <<posted, project, revision>>
  PROVE  ResultsInStep'
<1>1. Messages' = Messages
  BY DEF Messages
<1>2. \A c, r : Schedule(c, r)' <=> Schedule(c, r)
  BY DEF Schedule
<1> QED BY <1>1, <1>2 DEF PreviewInvariant, ResultsInStep

(* What is at work stays as it is under every other action.                *)
LEMMA WorkUnmoved ==
  ASSUME PreviewInvariant, UNCHANGED <<worker, posted, active, project, revision>>
  PROVE  WorkerInStep' /\ ResultsInStep' /\ SingleWorker'
<1>1. WorkerInStep'
  BY DEF PreviewInvariant, WorkerInStep, Schedule
<1>2. ResultsInStep'
  BY ResultsUnmoved
<1>3. SingleWorker'
  BY DEF PreviewInvariant, SingleWorker
<1> QED BY <1>1, <1>2, <1>3

(* A step of the worker: the schedule it builds and the frame it makes are  *)
(* those of its snapshot.                                                  *)
LEMMA WorkDone ==
  ASSUME PreviewInvariant, WorkerStep
  PROVE  /\ WorkerInStep' /\ ResultsInStep' /\ SingleWorker'
         /\ worker # None
         /\ \/ worker' # None /\ worker'.revision = worker.revision
            \/ 1 \in DOMAIN posted' /\ posted'[1].revision = worker.revision
<1>1. /\ worker # None /\ UNCHANGED <<project, revision, active>>
  BY DEF WorkerStep, BuildContext, Synthesize
<1>2. /\ worker \in Workers /\ worker.revision \in 1 .. revision
      /\ worker.revision = revision => worker.snapshot = project
      /\ Schedule(worker.context, worker.revision)
  BY <1>1 DEF PreviewInvariant, WorkerInStep
<1>3. /\ worker.snapshot \in Projects /\ worker.context \in Content
      /\ worker.index \in Nat /\ worker.revision \in Nat
  BY <1>2 DEF Workers
<1>4. None \in Content /\ \A r : Schedule(None, r)
  BY DEF Content, Schedule
<1>5. CASE BuildContext
  <2>1. CASE Post(None, None)
    BY <1>1, <1>4, <2>1, ResultPosted
  <2>2. CASE /\ OutputFrames[worker.snapshot] # 0 /\ UNCHANGED posted
             /\ worker' = [worker EXCEPT !.context = worker.snapshot]
    <3>1. /\ worker' \in Workers /\ worker'.revision = worker.revision
          /\ worker'.snapshot = worker.snapshot
          /\ worker'.context = worker.snapshot
      BY <1>2, <1>3, <2>2 DEF Workers, Content
    <3>2. OutputFrames[worker.snapshot] > 0
      BY <1>3, <2>2
    <3>3. Schedule(worker.context, worker.revision)'
      BY <1>1, <1>2, <1>3, <3>1, <3>2 DEF Schedule
    <3>4. worker' # None
      BY <3>1
    <3>5. WorkerInStep'
      BY <1>1, <1>2, <3>1, <3>3 DEF WorkerInStep
    <3>6. SingleWorker'
      BY <1>1, <2>2, <3>4 DEF SingleWorker, PreviewInvariant
    <3> QED BY <1>1, <2>2, <3>1, <3>4, <3>5, <3>6, ResultsUnmoved
  <2> QED BY <1>5, <2>1, <2>2 DEF BuildContext
<1>6. CASE Synthesize
  <2>1. worker.context # None /\ worker.context \in Projects
    BY <1>3, <1>6 DEF Synthesize, Content
  <2>2. CASE Post(worker.context, None)
    BY <1>1, <1>2, <1>3, <2>2, ResultPosted
  <2>3. CASE /\ worker.index < OutputFrames[worker.context]
             /\ Post(worker.context,
                     [revision |-> worker.revision, index |-> worker.index,
                      content |-> worker.context])
    <3>1. PICK f : f = [revision |-> worker.revision, index |-> worker.index,
                        content |-> worker.context]
      OBVIOUS
    <3>2. /\ f \in Frame /\ f.revision = worker.revision
          /\ f.content = worker.context /\ f.index < OutputFrames[worker.context]
      BY <1>3, <2>1, <2>3, <3>1 DEF Frame
    <3>3. Post(worker.context, f)
      BY <2>3, <3>1
    <3> QED BY <1>1, <1>2, <1>3, <3>2, <3>3, ResultPosted
  <2> QED BY <1>6, <2>2, <2>3 DEF Synthesize
<1> QED BY <1>1, <1>5, <1>6 DEF WorkerStep

LEMMA WorkKeeps ==
  ASSUME PreviewInvariant, [Next]_vars
  PROVE  WorkerInStep' /\ ResultsInStep' /\ SingleWorker'
<1>1. CASE EditDocument \/ ShowOrHide \/ Scrub \/ SelectSection
  BY <1>1, WorkUnmoved
  DEF EditDocument, ShowOrHide, Scrub, SelectSection, service_vars
<1>2. CASE RefreshTimeout
  <2>1. /\ revision' = revision + 1 /\ revision \in Nat
        /\ UNCHANGED <<worker, posted, active>>
    BY <1>2, InvariantTypes DEF RefreshTimeout, SetProject
  <2>2. \A r \in 1 .. revision : r \in 1 .. revision' /\ r # revision'
    BY <2>1
  <2>3. WorkerInStep'
    BY <2>1, <2>2 DEF PreviewInvariant, WorkerInStep, Schedule
  <2>4. ResultsInStep'
    <3>1. Messages' = Messages
      BY DEF Messages
    <3>2. \A c : \A r \in 1 .. revision : Schedule(c, r) => Schedule(c, r)'
      BY <2>2 DEF Schedule
    <3> QED BY <2>1, <2>2, <3>1, <3>2 DEF PreviewInvariant, ResultsInStep
  <2>5. SingleWorker'
    BY <2>1 DEF PreviewInvariant, SingleWorker
  <2> QED BY <2>3, <2>4, <2>5
<1>3. CASE PublishEvent
  <2>1. /\ worker = None /\ worker' = None /\ posted' = <<>> /\ active' = FALSE
        /\ UNCHANGED <<project, revision>>
    BY <1>3, Published DEF PublishEvent, Background, Publish
  <2> QED BY <2>1 DEF WorkerInStep, ResultsInStep, SingleWorker
<1>4. CASE PaneCall
  BY <1>4, WorkUnmoved
  DEF PaneCall, ShowSectionFirstFrame, ScheduleInfoChanged, FrameReady,
      PreviewFailed, service_vars
<1>5. CASE RequestFrame
  <2>1. CASE UNCHANGED <<worker, posted, active, project, revision>>
    BY <2>1, WorkUnmoved
  <2>2. CASE /\ project # None /\ ~active /\ Launch(Argument)
             /\ UNCHANGED <<project, revision, context, posted>>
    <3>1. Argument \in Nat
      BY <1>5, CallOnTop DEF RequestFrame, Top
    <3>2. WorkerInStep' /\ SingleWorker'
      BY <2>2, <3>1, Launched
    <3> QED BY <2>2, <3>2, ResultsUnmoved
  <2> QED BY <1>5, <2>1, <2>2 DEF RequestFrame, service_vars
<1>6. CASE StoreInCache
  BY <1>6, WorkUnmoved DEF StoreInCache
<1>7. CASE StartWorker
  <2>1. CASE UNCHANGED <<worker, posted, active, project, revision>>
    BY <2>1, WorkUnmoved
  <2>2. CASE /\ ~active /\ pending # None /\ Launch(pending)
             /\ UNCHANGED <<project, revision, context, posted>>
    <3>1. pending \in Nat /\ project # None
      BY <2>2 DEF PreviewInvariant, RequestInStep
    <3>2. WorkerInStep' /\ SingleWorker'
      BY <2>2, <3>1, Launched
    <3> QED BY <2>2, <3>2, ResultsUnmoved
  <2> QED BY <1>7, <2>1, <2>2 DEF StartWorker
<1>8. CASE Background(WorkerStep)
  BY <1>8, WorkDone DEF Background
<1>9. CASE UNCHANGED vars
  BY <1>9, WorkUnmoved DEF vars, service_vars
<1> QED BY <1>1, <1>2, <1>3, <1>4, <1>5, <1>6, <1>7, <1>8, <1>9
        DEF Next, RunCall, ServiceCall
-------------------------------------------------------------------------------
(* The picture, the placeholder and the pending request.                   *)

LEMMA NothingOnStack ==
  ASSUME NEW op, calls = <<>>
  PROVE  ~OnStack(op)
BY DEF OnStack

LEMMA ComingStays ==
  ASSUME Coming, UNCHANGED <<pending, worker, posted, revision>>,
         \A op \in {"FrameReady", "PreviewFailed", "RequestFrame"} :
           OnStack(op) => OnStack(op)'
  PROVE  Coming'
BY DEF Coming

LEMMA ComingKeeps ==
  ASSUME PreviewInvariant, [Next]_vars, loading'
  PROVE  Coming'
<1>1. CASE RefreshTimeout
  <2>1. calls' = Call("RequestFrame", slider)
    BY <1>1 DEF RefreshTimeout, RequestCurrentFrame
  <2>2. 1 \in DOMAIN calls' /\ calls'[1].op = "RequestFrame"
    BY <2>1, CallHead
  <2> QED BY <2>2 DEF Coming, OnStack
<1>2. ASSUME loading
      PROVE  Coming /\ project # None
  BY <1>2 DEF PreviewInvariant, PictureInStep
<1>3. CASE EditDocument \/ ShowOrHide \/ Scrub \/ SelectSection
  <2>1. loading /\ calls = <<>> /\ UNCHANGED <<pending, worker, posted, revision>>
    BY <1>3 DEF EditDocument, ShowOrHide, Scrub, SelectSection, Idle,
                service_vars, picture_vars
  <2> QED BY <1>2, <2>1, NothingOnStack, ComingStays
<1>4. CASE PublishEvent
  <2>1. loading /\ calls = <<>> /\ UNCHANGED <<pending, revision>> /\ Publish
    BY <1>4 DEF PublishEvent, Background, Publish, picture_vars
  <2>2. worker = None /\ DOMAIN posted = {1}
    BY <2>1, Published
  <2>3. CASE pending # None
    BY <2>1, <2>3 DEF Coming
  <2>4. CASE posted[1].revision = revision
    <3>1. PICK rest \in Seq(SlotCalls) :
            /\ calls' = rest \/ calls' = Call("ScheduleInfoChanged", None) \o rest
            /\ \E k \in DOMAIN rest : rest[k].op \in {"FrameReady", "PreviewFailed"}
      BY <2>1, <2>4, Published
    <3>2. PICK k \in DOMAIN rest : rest[k].op \in {"FrameReady", "PreviewFailed"}
      BY <3>1
    <3>3. \E j \in DOMAIN calls' : calls'[j] = rest[k]
      BY <3>1, CalledFirst
    <3> QED BY <3>2, <3>3 DEF Coming, OnStack
  <2> QED BY <1>2, <2>1, <2>2, <2>3, <2>4, NothingOnStack DEF Coming
<1>5. ASSUME RunCall, loading, UNCHANGED <<pending, worker, posted, revision>>,
             calls[1].op \notin {"FrameReady", "PreviewFailed", "RequestFrame"}
      PROVE  Coming'
  <2>1. PICK nested \in Seq(SlotCalls) : Return(nested)
    BY <1>5, RunMakesCalls
  <2>2. \A op \in {"FrameReady", "PreviewFailed", "RequestFrame"} :
          OnStack(op) => OnStack(op)'
    BY <1>5, <2>1, RunMakesCalls, StillOnStack
  <2> QED BY <1>2, <1>5, <2>2, ComingStays
<1>6. CASE ShowSectionFirstFrame \/ ScheduleInfoChanged
  <2>1. RunCall /\ loading /\ UNCHANGED <<pending, worker, posted, revision>>
    BY <1>6 DEF RunCall, PaneCall, ShowSectionFirstFrame, ScheduleInfoChanged,
                service_vars, picture_vars
  <2>2. calls[1].op \notin {"FrameReady", "PreviewFailed", "RequestFrame"}
    BY <1>6 DEF ShowSectionFirstFrame, ScheduleInfoChanged, Top
  <2> QED BY <1>5, <2>1, <2>2
<1>7. CASE FrameReady
  <2>1. Argument.revision = revision
    BY <1>7, CallOnTop DEF FrameReady, Top, CurrentFrames
  <2> QED BY <1>7, <2>1 DEF FrameReady
<1>8. CASE PreviewFailed
  <2>1. Argument = revision
    BY <1>8, CallOnTop DEF PreviewFailed, Top
  <2> QED BY <1>8, <2>1 DEF PreviewFailed
<1> DEFINE pane_vars == <<document_vars, refresh_vars, navigator_vars, picture_vars>>
<1>9. CASE RequestFrame /\ UNCHANGED pane_vars
  <2>1. RunCall /\ loading
    BY <1>9 DEF RunCall, ServiceCall, picture_vars
  <2>2. project # None
    BY <1>2, <2>1
  <2>3. Argument \in Nat
    BY <1>9, CallOnTop DEF RequestFrame, Top
  <2>4. CASE \E k \in Hits(<<revision, Argument>>) :
               Return(Call("FrameReady", cache[k]))
    <3>1. PICK k \in Hits(<<revision, Argument>>) :
                 Return(Call("FrameReady", cache[k]))
      BY <2>4
    <3>2. PICK nested : nested = Call("FrameReady", cache[k])
      OBVIOUS
    <3>3. cache[k] \in CurrentFrames
      BY <3>1, ElementOfSeq DEF PreviewInvariant, CacheInStep, Hits
    <3>4. nested \in Seq(SlotCalls) /\ 1 \in DOMAIN nested
          /\ nested[1].op = "FrameReady"
      BY <3>2, <3>3, CallMade, CallHead
    <3>5. Return(nested) /\ calls # <<>>
      BY <2>1, <3>1, <3>2, RunMakesCalls
    <3>6. \E j \in DOMAIN calls' : calls'[j] = nested[1]
      BY <3>4, <3>5, CallReturns
    <3> QED BY <3>4, <3>6 DEF Coming, OnStack
  <2>5. CASE active /\ pending' = Argument
    BY <2>3, <2>5 DEF Coming
  <2>6. CASE ~active /\ Launch(Argument) /\ UNCHANGED <<project, revision, context, posted>>
    BY <2>2, <2>3, <2>6, Launched DEF Coming
  <2> QED BY <1>9, <2>2, <2>4, <2>5, <2>6 DEF RequestFrame
<1>10. CASE StoreInCache /\ UNCHANGED pane_vars
  <2>1. RunCall /\ loading /\ UNCHANGED <<pending, worker, posted, revision>>
    BY <1>10 DEF RunCall, ServiceCall, StoreInCache, picture_vars
  <2>2. calls[1].op \notin {"FrameReady", "PreviewFailed", "RequestFrame"}
    BY <1>10 DEF StoreInCache, Top
  <2> QED BY <1>5, <2>1, <2>2
<1>11. CASE StartWorker /\ UNCHANGED pane_vars
  <2>1. RunCall /\ loading /\ project # None
    BY <1>2, <1>11 DEF RunCall, ServiceCall, picture_vars
  <2>2. CASE UNCHANGED <<pending, active, worker>>
    <3>1. UNCHANGED <<pending, worker, posted, revision>>
      BY <1>11, <2>2 DEF StartWorker
    <3>2. calls[1].op \notin {"FrameReady", "PreviewFailed", "RequestFrame"}
      BY <1>11 DEF StartWorker, Top
    <3> QED BY <1>5, <2>1, <3>1, <3>2
  <2>3. CASE ~active /\ pending # None /\ Launch(pending)
             /\ UNCHANGED <<project, revision, context, posted>>
    <3>1. pending \in Nat
      BY <2>3, InvariantTypes
    <3> QED BY <2>1, <2>3, <3>1, Launched DEF Coming
  <2> QED BY <1>11, <2>2, <2>3 DEF StartWorker
<1>12. CASE Background(WorkerStep)
  <2>1. loading /\ WorkerStep /\ UNCHANGED <<calls, pending, revision>>
    BY <1>12 DEF Background, WorkerStep, BuildContext, Synthesize, picture_vars
  <2>2. /\ worker # None
        /\ \/ worker' # None /\ worker'.revision = worker.revision
           \/ 1 \in DOMAIN posted' /\ posted'[1].revision = worker.revision
    BY <2>1, WorkDone
  <2>3. CASE worker.revision = revision
    BY <2>1, <2>2, <2>3 DEF Coming
  <2>4. DOMAIN posted = {}
    <3>1. posted \in Seq(Messages) /\ Len(posted) \in Nat
      BY LenProperties DEF PreviewInvariant, ResultsInStep
    <3>2. Len(posted) = 0
      BY <2>2, <3>1 DEF PreviewInvariant, SingleWorker
    <3> QED BY <3>1, <3>2, EmptySeq
  <2>5. CASE worker.revision # revision
    <3>1. \/ OnStack("FrameReady") \/ OnStack("PreviewFailed")
          \/ OnStack("RequestFrame") \/ pending # None
      BY <1>2, <2>1, <2>4, <2>5 DEF Coming
    <3> QED BY <2>1, <3>1 DEF Coming, OnStack
  <2> QED BY <2>3, <2>5
<1>13. CASE UNCHANGED vars
  <2>1. loading /\ UNCHANGED <<calls, pending, worker, posted, revision>>
    BY <1>13 DEF vars, service_vars, picture_vars
  <2> QED BY <1>2, <2>1, ComingStays DEF OnStack
<1> QED BY <1>1, <1>3, <1>4, <1>6, <1>7, <1>8, <1>9, <1>10, <1>11, <1>12, <1>13
        DEF Next, RunCall, PaneCall, ServiceCall

LEMMA PictureKeeps ==
  ASSUME PreviewInvariant, [Next]_vars
  PROVE  PictureInStep'
<1> PictureInStep
  BY DEF PreviewInvariant
<1>1. loading' => Coming'
  BY ComingKeeps
<1>2. revision \in Nat
  BY InvariantTypes
<1>3. ASSUME UNCHANGED <<shown, loading, project, revision>>,
             status' \in {"", "out of date", "failed"},
             shown # None /\ status' = "" /\ ~loading /\ ~needs_refresh' =>
               status = "" /\ ~needs_refresh
      PROVE  PictureInStep'
  <2>1. loading => project # None /\ Coming'
    BY <1>1, <1>3 DEF PictureInStep
  <2> QED BY <1>3, <2>1 DEF PictureInStep
<1>4. CASE EditDocument
  BY <1>3, <1>4 DEF EditDocument, service_vars, PictureInStep
<1>5. CASE ShowOrHide \/ Scrub \/ SelectSection
  BY <1>3, <1>5 DEF ShowOrHide, Scrub, SelectSection, service_vars,
                    refresh_vars, picture_vars, PictureInStep
<1>6. CASE RefreshTimeout
  <2>1. /\ revision' = revision + 1 /\ loading' = TRUE /\ project' = document
        /\ UNCHANGED <<shown, status>>
    BY <1>6 DEF RefreshTimeout, SetProject
  <2>2. document \in Projects /\ project' # None
    BY <2>1, InvariantTypes
  <2>3. shown = None \/ (shown \in Frame /\ shown.revision <= revision'
                         /\ shown.revision # revision')
    <3>1. CASE shown # None
      <4>1. shown \in Frame /\ shown.revision <= revision
        BY <3>1 DEF PictureInStep
      <4>2. PICK r : r = shown.revision
        OBVIOUS
      <4>3. r \in Nat
        BY <4>1, <4>2, FrameFields
      <4>4. r <= revision' /\ r # revision'
        BY <1>2, <2>1, <4>1, <4>2, <4>3
      <4> QED BY <4>1, <4>2, <4>4
    <3> QED BY <3>1
  <2> QED BY <1>1, <2>1, <2>2, <2>3 DEF PictureInStep
<1>7. CASE PublishEvent
  BY <1>3, <1>7 DEF PublishEvent, Background, Publish, refresh_vars,
                    picture_vars, PictureInStep
<1>8. CASE ShowSectionFirstFrame \/ ScheduleInfoChanged
  BY <1>3, <1>8 DEF ShowSectionFirstFrame, ScheduleInfoChanged, service_vars,
                    refresh_vars, picture_vars, PictureInStep
<1>9. CASE FrameReady
  <2>1. Argument \in CurrentFrames
    BY <1>9, CallOnTop DEF FrameReady, Top
  <2>2. Argument \in Frame /\ Argument.revision = revision
        /\ Argument.content = project
    BY <2>1 DEF CurrentFrames
  <2>3. /\ shown' = Argument /\ loading' = FALSE /\ status' = ""
        /\ UNCHANGED <<project, revision>>
    BY <1>9, <2>2 DEF FrameReady, service_vars
  <2>4. revision <= revision
    BY <1>2
  <2> QED BY <2>2, <2>3, <2>4 DEF PictureInStep
<1>10. CASE PreviewFailed
  <2>1. Argument = revision
    BY <1>10, CallOnTop DEF PreviewFailed, Top
  <2>2. /\ loading' = FALSE /\ status' = "failed"
        /\ UNCHANGED <<shown, project, revision>>
    BY <1>10, <2>1 DEF PreviewFailed, service_vars
  <2> QED BY <2>2 DEF PictureInStep
<1>11. CASE ServiceCall /\ UNCHANGED <<refresh_vars, picture_vars>>
  <2>1. UNCHANGED <<project, revision>>
    BY <1>11 DEF ServiceCall, RequestFrame, StoreInCache, StartWorker, service_vars
  <2> QED BY <1>3, <1>11, <2>1 DEF refresh_vars, picture_vars, PictureInStep
<1>12. CASE Background(WorkerStep)
  BY <1>3, <1>12 DEF Background, WorkerStep, BuildContext, Synthesize,
                     refresh_vars, picture_vars, PictureInStep
<1>13. CASE UNCHANGED vars
  BY <1>3, <1>13 DEF vars, service_vars, refresh_vars, picture_vars, PictureInStep
<1> QED BY <1>4, <1>5, <1>6, <1>7, <1>8, <1>9, <1>10, <1>11, <1>12, <1>13
        DEF Next, RunCall, PaneCall

LEMMA RequestKeeps ==
  ASSUME PreviewInvariant, [Next]_vars
  PROVE  RequestInStep'
<1> RequestInStep
  BY DEF PreviewInvariant
<1>1. ASSUME UNCHANGED <<active, pending, project>>,
             OnStack("StartWorker") => OnStack("StartWorker")'
      PROVE  RequestInStep'
  BY <1>1 DEF RequestInStep
<1>2. CASE EditDocument \/ ShowOrHide \/ Scrub \/ SelectSection
  <2>1. calls = <<>> /\ UNCHANGED <<active, pending, project>>
    BY <1>2 DEF EditDocument, ShowOrHide, Scrub, SelectSection, Idle, service_vars
  <2> QED BY <1>1, <2>1, NothingOnStack
<1>3. CASE RefreshTimeout
  <2>1. pending' = None /\ UNCHANGED active
    BY <1>3 DEF RefreshTimeout, SetProject
  <2> QED BY <2>1 DEF RequestInStep
<1>4. CASE PublishEvent
  <2>1. active' = FALSE /\ UNCHANGED <<pending, project>>
    BY <1>4 DEF PublishEvent, Background, Publish
  <2>2. PICK rest \in Seq(SlotCalls) :
          /\ calls' = rest \/ calls' = Call("ScheduleInfoChanged", None) \o rest
          /\ \E k \in DOMAIN rest : rest[k].op = "StartWorker"
    BY <1>4, Published DEF PublishEvent, Background
  <2>3. PICK k \in DOMAIN rest : rest[k].op = "StartWorker"
    BY <2>2
  <2>4. \E j \in DOMAIN calls' : calls'[j] = rest[k]
    BY <2>2, CalledFirst
  <2>5. OnStack("StartWorker")'
    BY <2>3, <2>4 DEF OnStack
  <2> QED BY <2>1, <2>5 DEF RequestInStep
<1>5. ASSUME RunCall, calls[1].op # "StartWorker",
             OnStack("StartWorker")
      PROVE  OnStack("StartWorker")'
  <2>1. PICK nested \in Seq(SlotCalls) : Return(nested)
    BY <1>5, RunMakesCalls
  <2> QED BY <1>5, <2>1, RunMakesCalls, StillOnStack
<1>6. CASE PaneCall
  <2>1. RunCall /\ calls[1].op # "StartWorker"
    BY <1>6 DEF RunCall, PaneCall, ShowSectionFirstFrame, ScheduleInfoChanged,
                FrameReady, PreviewFailed, Top
  <2>2. UNCHANGED <<active, pending, project>>
    BY <1>6 DEF PaneCall, ShowSectionFirstFrame, ScheduleInfoChanged,
                FrameReady, PreviewFailed, service_vars
  <2> QED BY <1>1, <1>5, <2>1, <2>2
<1> DEFINE pane_vars == <<document_vars, refresh_vars, navigator_vars, picture_vars>>
<1>7. CASE RequestFrame /\ UNCHANGED pane_vars
  <2>1. RunCall /\ calls[1].op # "StartWorker"
    BY <1>7 DEF RunCall, ServiceCall, RequestFrame, Top
  <2>2. Argument \in Nat
    BY <1>7, CallOnTop DEF RequestFrame, Top
  <2>3. CASE UNCHANGED <<active, pending, project>>
    BY <1>1, <1>5, <2>1, <2>3
  <2>4. CASE active /\ pending' = Argument /\ project # None
             /\ UNCHANGED <<active, project>>
    BY <2>2, <2>4 DEF RequestInStep
  <2>5. CASE Launch(Argument)
    BY <2>5 DEF Launch, RequestInStep
  <2> QED BY <1>7, <2>3, <2>4, <2>5 DEF RequestFrame, service_vars
<1>8. CASE StoreInCache /\ UNCHANGED pane_vars
  <2>1. RunCall /\ calls[1].op # "StartWorker"
    BY <1>8 DEF RunCall, ServiceCall, StoreInCache, Top
  <2> QED BY <1>1, <1>5, <1>8, <2>1 DEF StoreInCache
<1>9. CASE StartWorker
  <2>1. CASE (active \/ pending = None) /\ UNCHANGED <<pending, active, project>>
    BY <2>1 DEF RequestInStep
  <2>2. CASE Launch(pending)
    BY <2>2 DEF Launch, RequestInStep
  <2> QED BY <1>9, <2>1, <2>2 DEF StartWorker
<1>10. CASE Background(WorkerStep)
  BY <1>1, <1>10 DEF Background, WorkerStep, BuildContext, Synthesize, OnStack
<1>11. CASE UNCHANGED vars
  BY <1>1, <1>11 DEF vars, service_vars, OnStack
<1> QED BY <1>2, <1>3, <1>4, <1>6, <1>7, <1>8, <1>9, <1>10, <1>11
        DEF Next, RunCall, ServiceCall
-------------------------------------------------------------------------------
(* The theorems.                                                           *)

LEMMA InitialInvariant ==
  ASSUME Init
  PROVE  PreviewInvariant
<1>1. CacheInStep
  <2>1. cache = <<>>
    BY DEF Init, ServiceInit
  <2> QED BY <2>1 DEF CacheInStep
<1>2. ResultsInStep
  <2>1. posted = <<>>
    BY DEF Init, ServiceInit
  <2> QED BY <2>1 DEF ResultsInStep
<1>3. WorkerInStep
  BY DEF Init, ServiceInit, WorkerInStep
<1>4. SingleWorker
  <2>1. Len(posted) = 0 /\ worker = None /\ active = FALSE
    BY DEF Init, ServiceInit
  <2> QED BY <2>1 DEF SingleWorker
<1>5. CallsInStep
  BY CallMade DEF Init, ServiceInit, CallsInStep
<1>6. RefreshInStep
  <2>1. project = None /\ document \in Projects
    BY DEF Init, ServiceInit
  <2>2. revision = 0 /\ edits = 0
    BY DEF Init, ServiceInit
  <2>3. visible \in BOOLEAN /\ needs_refresh = TRUE /\ timer = visible
    BY DEF Init
  <2>4. project \in Content
    BY <2>1 DEF Content
  <2>5. /\ revision \in Nat /\ edits \in 0 .. MaxEdits
        /\ revision + (IF needs_refresh THEN 1 ELSE 0) <= edits + 1
    BY <2>2, <2>3
  <2> QED BY <2>1, <2>3, <2>4, <2>5 DEF RefreshInStep
<1>7. NavigatorInStep
  <2>1. context = None /\ jump = None
    BY DEF Init, ServiceInit
  <2>2. slider_max = 0 /\ slider = 0
    BY DEF Init
  <2>3. slider_max \in Nat /\ slider \in 0 .. slider_max
    BY <2>2
  <2> QED BY <2>1, <2>3 DEF NavigatorInStep, Schedule
<1>8. PictureInStep
  BY DEF Init, PictureInStep
<1>9. RequestInStep
  BY DEF Init, ServiceInit, RequestInStep
<1> QED BY <1>1, <1>2, <1>3, <1>4, <1>5, <1>6, <1>7, <1>8, <1>9
        DEF PreviewInvariant

LEMMA InvariantKept ==
  ASSUME PreviewInvariant, [Next]_vars
  PROVE  PreviewInvariant'
BY CacheKeeps, WorkKeeps, CallsKeeps, RefreshKeeps, NavigatorKeeps, PictureKeeps,
   RequestKeeps DEF PreviewInvariant

LEMMA NothingToWaitFor ==
  ASSUME PreviewInvariant
  PROVE  LoadingIsWorking
<1> SUFFICES ASSUME Idle, loading \/ pending # None
             PROVE  active
  BY DEF LoadingIsWorking
<1>1. \A op : ~OnStack(op)
  BY NothingOnStack DEF Idle
<1>2. pending # None => active
  BY <1>1 DEF PreviewInvariant, RequestInStep
<1>3. Len(posted) \in Nat /\ DOMAIN posted = 1 .. Len(posted) /\ active \in BOOLEAN
  BY LenProperties DEF PreviewInvariant, ResultsInStep, RequestInStep
<1>4. worker # None \/ DOMAIN posted # {} => active
  BY <1>3 DEF PreviewInvariant, SingleWorker
<1>5. loading => pending # None \/ worker # None \/ DOMAIN posted # {}
  BY <1>1 DEF PreviewInvariant, PictureInStep, Coming
<1> QED BY <1>2, <1>4, <1>5

LEMMA TypesFollow ==
  ASSUME PreviewInvariant
  PROVE  TypeOK
<1>1. /\ project \in Content /\ context \in Content /\ document \in Projects
      /\ edits \in 0 .. MaxEdits
      /\ pending = None \/ pending \in Nat
      /\ active \in BOOLEAN /\ slider \in 0 .. slider_max
      /\ jump = None \/ jump \in Sections
      /\ shown = None \/ shown \in Frame
      /\ {visible, needs_refresh, timer, loading} \subseteq BOOLEAN
  BY InvariantTypes
<1>2. revision \in 0 .. MaxEdits + 1
  BY DEF PreviewInvariant, RefreshInStep
<1>3. worker = None \/ /\ worker.revision \in 1 .. revision
                       /\ worker.index \in Nat /\ worker.context \in Content
  BY DEF PreviewInvariant, WorkerInStep, Workers
<1>4. \A m \in DOMAIN posted : posted[m].revision \in 1 .. revision
  BY DEF PreviewInvariant, ResultsInStep
<1>5. status \in {"", "out of date", "failed"}
  BY DEF PreviewInvariant, PictureInStep
<1>6. /\ Len(cache) <= Capacity /\ Len(cache) \in Nat
      /\ DOMAIN cache = 1 .. Len(cache) /\ cache \in Seq(CurrentFrames)
      /\ \A i, j \in 1 .. Len(cache) :
           CacheKey(cache[i]) = CacheKey(cache[j]) => i = j
  BY LenProperties DEF PreviewInvariant, CacheInStep
<1>7. ASSUME NEW k \in DOMAIN cache
      PROVE  /\ cache[k] \in Frame
             /\ cache[k].index < OutputFrames[cache[k].content]
             /\ Hits(CacheKey(cache[k])) = {k}
  <2>1. cache[k] \in CurrentFrames
    BY <1>6, ElementOfSeq
  <2>2. \A i \in 1 .. Len(cache) : CacheKey(cache[i]) = CacheKey(cache[k]) => i = k
    BY <1>6
  <2>3. Hits(CacheKey(cache[k])) = {k}
    BY <1>6, <2>2 DEF Hits
  <2> QED BY <2>1, <2>3 DEF CurrentFrames
<1>8. ASSUME NEW k \in DOMAIN calls
      PROVE  calls[k].op \in Operations
  <2>1. calls # <<>>
    BY EmptySeq
  <2>2. /\ DOMAIN calls = 1 .. Len(calls) /\ Len(calls) \in Nat \ {0}
        /\ Tail(calls) \in Seq(SlotCalls) /\ Len(Tail(calls)) = Len(calls) - 1
        /\ \A i \in 1 .. Len(calls) - 1 : Tail(calls)[i] = calls[i + 1]
        /\ calls[1].op \in Operations
    BY <2>1, CallOnTop
  <2>3. CASE k # 1
    <3>1. k - 1 \in 1 .. Len(calls) - 1 /\ (k - 1) + 1 = k
      BY <2>2, <2>3
    <3>2. Tail(calls)[k - 1] = calls[k]
      BY <2>2, <3>1
    <3>3. Tail(calls)[k - 1] \in SlotCalls
      BY <2>2, <3>1, ElementOfSeq
    <3> QED BY <3>2, <3>3, CallArguments
  <2> QED BY <2>2, <2>3
<1> QED BY <1>1, <1>2, <1>3, <1>4, <1>5, <1>6, <1>7, <1>8 DEF TypeOK

LEMMA ConsistencyFollows ==
  ASSUME PreviewInvariant
  PROVE  PreviewConsistent
<1>1. TypeOK
  BY TypesFollow
<1>2. SnapshotConsistent
  <2>1. context \in {None, project}
    BY DEF PreviewInvariant, NavigatorInStep, Schedule
  <2>2. \A k \in DOMAIN cache : cache[k] \in CurrentFrames
    BY ElementOfSeq, LenProperties DEF PreviewInvariant, CacheInStep
  <2> QED BY <2>1, <2>2 DEF PreviewInvariant, PictureInStep, CurrentFrames,
                            SnapshotConsistent
<1>3. SingleWorker
  BY DEF PreviewInvariant
<1>4. LoadingIsWorking
  BY NothingToWaitFor
<1>5. StatusHonest
  BY <1>4 DEF PreviewInvariant, PictureInStep, RefreshInStep, LoadingIsWorking,
              Settled, StatusHonest
<1> QED BY <1>1, <1>2, <1>3, <1>4, <1>5 DEF PreviewConsistent

(* Between any two calls, worker steps or events of the preview, whatever  *)
(* the edits, the scrubbing and the worker's pace: what the service keeps, *)
(* has posted or is about to call is of the project it says it is.         *)
THEOREM PreviewInStep == Spec => []PreviewInvariant
<1>1. Init => PreviewInvariant
  BY InitialInvariant
<1>2. PreviewInvariant /\ [Next]_vars => PreviewInvariant'
  BY InvariantKept
<1> QED BY <1>1, <1>2, PTL DEF Spec

(* No stale picture or schedule passes for a current one, one worker at     *)
(* most is at work, and neither the placeholder nor the status line lies.   *)
THEOREM PreviewIsConsistent == Spec => []PreviewConsistent
BY PreviewInStep, ConsistencyFollows, PTL
===============================================================================
