----------------------- MODULE ProgrammeRecordingProofs -----------------------
(***************************************************************************)
(* Theorems about ProgrammeRecording, for every set of programmes, any     *)
(* lengths and any dropouts.  RecordingInvariant is inductive; what the    *)
(* files of the digital audio promise follows from it.                     *)
(***************************************************************************)
EXTENDS ProgrammeRecording, FiniteSetTheorems, WellFoundedInduction, TLAPS

USE RiffAssumption

-------------------------------------------------------------------------------
(* Induction over the naturals and recursion over the first of them.       *)
LEMMA SmallestOf ==
  ASSUME NEW S \in SUBSET Nat, S # {}
  PROVE  \E s \in S : \A r \in S : s <= r
<1>1. \E s \in S : \A r \in S : <<r, s>> \notin OpToRel(<, Nat)
  BY NatLessThanWellFounded, WFMin
<1>2. \A s, r \in Nat : <<r, s>> \notin OpToRel(<, Nat) => s <= r
  BY DEF OpToRel
<1> QED BY <1>1, <1>2

(* What holds at 0 and is handed on holds up to n.                         *)
LEMMA UpTo ==
  ASSUME NEW n \in Nat, NEW S \in SUBSET (0 .. n), 0 \in S,
         \A k \in 1 .. n : k - 1 \in S => k \in S
  PROVE  S = 0 .. n
<1>1. SUFFICES ASSUME (0 .. n) \ S # {} PROVE FALSE
  OBVIOUS
<1>2. PICK k \in (0 .. n) \ S : \A j \in (0 .. n) \ S : k <= j
  <2>1. (0 .. n) \ S \in SUBSET Nat
    OBVIOUS
  <2> QED BY <1>1, <2>1, SmallestOf
<1>3. k \in 1 .. n /\ k - 1 \in 0 .. n /\ ~(k <= k - 1)
  BY <1>2
<1> QED BY <1>2, <1>3

Goes(V, n, base, step) ==
  \E f \in [0 .. n -> V] :
    f[0] = base /\ \A k \in 1 .. n : f[k] = step[<<k, f[k - 1]>>]

(* A step from every value to the next one leads all the way.              *)
LEMMA StepsLead ==
  ASSUME NEW V, NEW n \in Nat, NEW base \in V,
         NEW step \in [(1 .. n) \X V -> V]
  PROVE  Goes(V, n, base, step)
<1> DEFINE Leads(m, f) ==
             f[0] = base /\ \A k \in 1 .. m : f[k] = step[<<k, f[k - 1]>>]
           S == {m \in 0 .. n : \E f \in [0 .. m -> V] : Leads(m, f)}
<1>1. 0 \in S
  <2> DEFINE f == [k \in 0 .. 0 |-> base]
  <2>1. f \in [0 .. 0 -> V] /\ Leads(0, f)
    OBVIOUS
  <2>2. 0 \in 0 .. n
    OBVIOUS
  <2> HIDE DEF f, Leads
  <2> QED BY <2>1, <2>2
<1>2. ASSUME NEW m \in 1 .. n, m - 1 \in S PROVE m \in S
  <2>1. PICK f \in [0 .. m - 1 -> V] : Leads(m - 1, f)
    BY <1>2
  <2> DEFINE g == [k \in 0 .. m |-> IF k = m THEN step[<<m, f[m - 1]>>] ELSE f[k]]
  <2>2. g \in [0 .. m -> V]
    <3>1. f[m - 1] \in V
      OBVIOUS
    <3>2. step[<<m, f[m - 1]>>] \in V
      BY <3>1
    <3> QED BY <3>2
  <2>3. g[0] = base
    BY <2>1
  <2>4. ASSUME NEW k \in 1 .. m PROVE g[k] = step[<<k, g[k - 1]>>]
    <3>1. g[k - 1] = f[k - 1]
      OBVIOUS
    <3>2. CASE k = m
      <4>1. g[k] = step[<<k, f[k - 1]>>]
        BY <3>2
      <4> HIDE DEF g
      <4> QED BY <3>1, <4>1
    <3>3. CASE k # m
      <4>1. k \in 1 .. m - 1 /\ g[k] = f[k]
        BY <3>3
      <4>2. f[k] = step[<<k, f[k - 1]>>]
        BY <2>1, <4>1
      <4> HIDE DEF g
      <4> QED BY <3>1, <4>1, <4>2
    <3> QED BY <3>2, <3>3
  <2>5. Leads(m, g)
    BY <2>3, <2>4
  <2> HIDE DEF g, Leads
  <2> QED BY <2>2, <2>5
<1>3. S = 0 .. n
  <2> HIDE DEF S
  <2>1. S \in SUBSET (0 .. n)
    BY DEF S
  <2> QED BY <1>1, <1>2, <2>1, UpTo
<1>4. n \in S
  <2> HIDE DEF S
  <2>1. n \in 0 .. n
    OBVIOUS
  <2> QED BY <1>3, <2>1
<1> HIDE DEF Leads
<1>5. \E f \in [0 .. n -> V] : Leads(n, f)
  BY <1>4
<1> QED BY <1>5 DEF Leads, Goes

-------------------------------------------------------------------------------
(* The frames of a programme.                                              *)
Lengths(parts) ==
  /\ parts \in Seq(Range(parts))
  /\ \A k \in 1 .. Len(parts) : parts[k].frames \in Nat \ {0}

(* FramesBefore sums the lengths, whichever number of parts it is asked.   *)
LEMMA FramesAdded ==
  ASSUME NEW parts, Lengths(parts)
  PROVE  \E f \in [0 .. Len(parts) -> Nat] :
           /\ f[0] = 0
           /\ \A k \in 1 .. Len(parts) : f[k] = f[k - 1] + parts[k].frames
           /\ \A k \in 0 .. Len(parts) : FramesBefore(parts, k) = f[k]
<1>1. PICK n : n = Len(parts)
  OBVIOUS
<1>2. n \in Nat
  BY <1>1 DEF Lengths
<1>3. PICK step : step = [a \in (1 .. n) \X Nat |-> a[2] + parts[a[1]].frames]
  OBVIOUS
<1>4. \A k \in 1 .. n, v \in Nat : step[<<k, v>>] = v + parts[k].frames
  BY <1>3
<1>5. step \in [(1 .. n) \X Nat -> Nat]
  BY <1>1, <1>3 DEF Lengths
<1>6. PICK f \in [0 .. n -> Nat] :
        f[0] = 0 /\ \A k \in 1 .. n : f[k] = step[<<k, f[k - 1]>>]
  <2>1. PICK V, base : V = Nat /\ base = 0
    OBVIOUS
  <2>2. base \in V
    BY <2>1
  <2>3. step \in [(1 .. n) \X V -> V]
    BY <1>5, <2>1
  <2>4. Goes(V, n, base, step)
    BY ONLY <1>2, <2>2, <2>3, StepsLead
  <2> QED BY <2>1, <2>4 DEF Goes
<1>7. ASSUME NEW k \in 1 .. n PROVE f[k] = f[k - 1] + parts[k].frames
  <2>1. f[k - 1] \in Nat
    BY <1>2
  <2> QED BY <1>4, <1>6, <2>1
<1>8. ASSUME NEW k \in 0 .. n PROVE FramesBefore(parts, k) = f[k]
  <2> DEFINE g == CHOOSE g : g = [j \in 0 .. k |->
                    IF j = 0 THEN 0 ELSE g[j - 1] + parts[j].frames]
             h == [j \in 0 .. k |-> f[j]]
  <2>1. FramesBefore(parts, k) = g[k]
    BY DEF FramesBefore
  <2>2. h = [j \in 0 .. k |-> IF j = 0 THEN 0 ELSE h[j - 1] + parts[j].frames]
    BY <1>2, <1>6, <1>7
  <2>3. g = [j \in 0 .. k |-> IF j = 0 THEN 0 ELSE g[j - 1] + parts[j].frames]
    <3> HIDE DEF h
    <3> QED BY <2>2
  <2> HIDE DEF g
  <2>4. PICK S : S = {j \in 0 .. k : g[j] = f[j]}
    OBVIOUS
  <2>5. 0 \in S
    BY <1>2, <1>6, <2>3, <2>4
  <2>6. ASSUME NEW j \in 1 .. k, j - 1 \in S PROVE j \in S
    BY <1>2, <1>7, <2>3, <2>4, <2>6
  <2>7. S = 0 .. k
    <3>1. k \in Nat /\ S \in SUBSET (0 .. k)
      BY <1>2, <2>4
    <3> QED BY <2>5, <2>6, <3>1, UpTo
  <2>8. k \in S
    BY <1>2, <2>7
  <2> QED BY <2>1, <2>4, <2>8
<1> QED BY <1>1, <1>6, <1>7, <1>8

LEMMA FramesSum ==
  ASSUME NEW parts, Lengths(parts)
  PROVE  /\ FramesBefore(parts, 0) = 0
         /\ \A k \in 0 .. Len(parts) : FramesBefore(parts, k) \in Nat
         /\ \A k \in 1 .. Len(parts) :
              FramesBefore(parts, k) = FramesBefore(parts, k - 1) + parts[k].frames
<1>1. PICK f \in [0 .. Len(parts) -> Nat] :
        /\ f[0] = 0
        /\ \A k \in 1 .. Len(parts) : f[k] = f[k - 1] + parts[k].frames
        /\ \A k \in 0 .. Len(parts) : FramesBefore(parts, k) = f[k]
  BY FramesAdded
<1>2. Len(parts) \in Nat
  BY DEF Lengths
<1>3. 0 \in 0 .. Len(parts)
  BY <1>2
<1>4. \A k \in 1 .. Len(parts) : k \in 0 .. Len(parts) /\ k - 1 \in 0 .. Len(parts)
  BY <1>2
<1> QED BY <1>1, <1>3, <1>4

(* No part is empty: a later one begins later.                             *)
LEMMA FramesGrow ==
  ASSUME NEW parts, Lengths(parts), NEW j \in 0 .. Len(parts),
         NEW k \in 0 .. Len(parts), j < k
  PROVE  FramesBefore(parts, j) < FramesBefore(parts, k)
<1>1. PICK n : n = Len(parts)
  OBVIOUS
<1>2. n \in Nat /\ j \in 0 .. n /\ k \in 0 .. n
  BY <1>1 DEF Lengths
<1>3. PICK S : S = {m \in 0 .. n - j - 1 :
                      FramesBefore(parts, j) < FramesBefore(parts, j + 1 + m)}
  OBVIOUS
<1>4. ASSUME NEW m \in 1 .. n
      PROVE  /\ FramesBefore(parts, m) \in Nat /\ FramesBefore(parts, m - 1) \in Nat
             /\ FramesBefore(parts, m - 1) < FramesBefore(parts, m)
  <2>1. /\ parts[m].frames \in Nat \ {0}
        /\ FramesBefore(parts, m) = FramesBefore(parts, m - 1) + parts[m].frames
    BY <1>1, FramesSum DEF Lengths
  <2>2. m - 1 \in 0 .. Len(parts) /\ m \in 0 .. Len(parts)
    BY <1>1, <1>2
  <2>3. FramesBefore(parts, m) \in Nat /\ FramesBefore(parts, m - 1) \in Nat
    BY <2>2, FramesSum
  <2> QED BY <2>1, <2>3
<1>5. 0 \in S
  <2>1. j + 1 \in 1 .. n /\ j + 1 - 1 = j /\ j + 1 + 0 = j + 1
    BY <1>2
  <2>2. FramesBefore(parts, j) < FramesBefore(parts, j + 1)
    BY <1>4, <2>1
  <2> QED BY <1>2, <1>3, <2>1, <2>2
<1>6. ASSUME NEW m \in 1 .. n - j - 1, m - 1 \in S PROVE m \in S
  <2>1. j + 1 + m \in 1 .. n /\ j + 1 + (m - 1) = j + 1 + m - 1 /\ j + 1 \in 1 .. n
    BY <1>2
  <2>2. FramesBefore(parts, j) < FramesBefore(parts, j + 1 + m - 1)
    BY <1>3, <1>6, <2>1
  <2>3. /\ FramesBefore(parts, j + 1 + m) \in Nat
        /\ FramesBefore(parts, j + 1 + m - 1) \in Nat
        /\ FramesBefore(parts, j + 1 + m - 1) < FramesBefore(parts, j + 1 + m)
    BY <1>4, <2>1
  <2>4. FramesBefore(parts, j) \in Nat
    BY FramesSum
  <2>5. FramesBefore(parts, j) < FramesBefore(parts, j + 1 + m)
    BY <2>2, <2>3, <2>4
  <2> QED BY <1>2, <1>3, <2>5
<1>7. S = 0 .. n - j - 1
  <2>1. n - j - 1 \in Nat /\ S \in SUBSET (0 .. n - j - 1)
    BY <1>2, <1>3
  <2> QED BY <1>5, <1>6, <2>1, UpTo
<1>8. k - j - 1 \in S /\ j + 1 + (k - j - 1) = k
  BY <1>2, <1>7
<1> QED BY <1>3, <1>8

-------------------------------------------------------------------------------
(* The grids of samples.                                                   *)
LEMMA FewShortFrames ==
  ASSUME NEW r \in Nat
  PROVE  /\ ShortFrames(r) \in 0 .. 3 /\ ShortFrames(r) <= r
         /\ ShortFrames(r + 1) \in 0 .. 3 /\ ShortFrames(r + 1) <= ShortFrames(r) + 1
<1> DEFINE T(n) == {23, 47, 71} \cap 1 .. n
<1>1. IsFiniteSet({23, 47, 71}) /\ Cardinality({23, 47, 71}) = 3
  <2>1. {23, 47} = {23} \cup {47} /\ {23, 47, 71} = {23, 47} \cup {71}
    OBVIOUS
  <2>2. IsFiniteSet({23}) /\ Cardinality({23}) = 1
    BY FS_Singleton
  <2>3. IsFiniteSet({23, 47}) /\ Cardinality({23, 47}) = 2
    BY <2>1, <2>2, FS_AddElement
  <2> QED BY <2>1, <2>3, FS_AddElement
<1>2. \A n : IsFiniteSet(T(n)) /\ Cardinality(T(n)) \in 0 .. 3
  <2> TAKE n
  <2>1. T(n) \subseteq {23, 47, 71}
    OBVIOUS
  <2>2. IsFiniteSet(T(n)) /\ Cardinality(T(n)) <= 3
    BY <1>1, <2>1, FS_Subset
  <2>3. Cardinality(T(n)) \in Nat
    BY <2>2, FS_CardinalityType
  <2> HIDE DEF T
  <2> QED BY <2>2, <2>3
<1>3. Cardinality(T(r)) <= r
  <2>1. IsFiniteSet(1 .. r) /\ Cardinality(1 .. r) = r
    BY FS_Interval
  <2>2. T(r) \subseteq 1 .. r
    OBVIOUS
  <2> QED BY <2>1, <2>2, FS_Subset
<1>4. Cardinality(T(r + 1)) <= Cardinality(T(r)) + 1
  <2>1. T(r + 1) \subseteq T(r) \cup {r + 1}
    OBVIOUS
  <2> HIDE DEF T
  <2>2. /\ IsFiniteSet(T(r) \cup {r + 1})
        /\ \/ Cardinality(T(r) \cup {r + 1}) = Cardinality(T(r))
           \/ Cardinality(T(r) \cup {r + 1}) = Cardinality(T(r)) + 1
    <3>1. CASE r + 1 \in T(r)
      <4>1. T(r) \cup {r + 1} = T(r)
        BY <3>1
      <4> QED BY <1>2, <4>1
    <3>2. CASE r + 1 \notin T(r)
      BY <1>2, <3>2, FS_AddElement
    <3> QED BY <3>1, <3>2
  <2>3. Cardinality(T(r + 1)) <= Cardinality(T(r) \cup {r + 1})
    BY <2>1, <2>2, FS_Subset
  <2>4. Cardinality(T(r + 1)) \in 0 .. 3 /\ Cardinality(T(r)) \in 0 .. 3
    BY <1>2
  <2> QED BY <2>2, <2>3, <2>4
<1> QED BY <1>2, <1>3, <1>4 DEF ShortFrames

LEMMA ByHundreds ==
  ASSUME NEW k \in Nat
  PROVE  /\ k \div 100 \in Nat /\ k % 100 \in 0 .. 99
         /\ k = 100 * (k \div 100) + (k % 100)
OBVIOUS

LEMMA Hundreds ==
  ASSUME NEW q \in Nat, NEW r \in 0 .. 99, NEW k, k = 100 * q + r
  PROVE  k \div 100 = q /\ k % 100 = r
OBVIOUS

LEMMA Halves ==
  ASSUME NEW r \in Nat
  PROVE  (r + 1) \div 2 \in Nat /\ (r + 1) \div 2 <= r + 1
         /\ (r + 1) \div 2 <= (r + 1 + 1) \div 2
OBVIOUS

LEMMA NtscSamples ==
  ASSUME NEW standard, standard # "PAL", NEW k
  PROVE  SamplesBefore(standard, k)
           = 147147 * (k \div 100) + 1471 * (k % 100) + ((k % 100) + 1) \div 2
               - ShortFrames(k % 100)
BY SMT DEF SamplesBefore

LEMMA SamplesOfFrame ==
  ASSUME NEW standard, NEW k \in Nat
  PROVE  /\ SamplesBefore(standard, k) \in Nat
         /\ SamplesBefore(standard, k + 1) \in Nat
         /\ EfmAudioSamplesForFrame(standard, k) \in Nat \ {0}
         /\ SamplesBefore(standard, k + 1)
              = SamplesBefore(standard, k) + EfmAudioSamplesForFrame(standard, k)
<1> DEFINE a == SamplesBefore(standard, k)
           b == SamplesBefore(standard, k + 1)
<1>1. SUFFICES a \in Nat /\ b \in Nat /\ b > a
  BY SMT DEF EfmAudioSamplesForFrame
<1>2. CASE standard = "PAL"
  <2>1. a = 1764 * k /\ b = 1764 * (k + 1)
    BY <1>2, SMT DEF SamplesBefore
  <2> HIDE DEF a, b
  <2> QED BY <2>1, SMT
<1>3. CASE standard # "PAL"
  <2>0. PICK q, r : q = k \div 100 /\ r = k % 100
    OBVIOUS
  <2>1. q \in Nat /\ r \in 0 .. 99 /\ k = 100 * q + r
    BY <2>0, ByHundreds, SMT
  <2> DEFINE h == (r + 1) \div 2
             i == (r + 1 + 1) \div 2
             c == ShortFrames(r)
             d == ShortFrames(r + 1)
  <2>2. h \in Nat /\ h <= r + 1 /\ h <= i
    BY <2>1, Halves, SMT
  <2>3. c \in 0 .. 3 /\ c <= r /\ d \in 0 .. 3 /\ d <= c + 1
    BY <2>1, FewShortFrames, SMT
  <2>4. a = 147147 * q + 1471 * r + h - c
    BY <1>3, <2>0, NtscSamples, SMT
  <2>5. CASE r < 99
    <3>1. r + 1 \in 0 .. 99 /\ k + 1 = 100 * q + (r + 1)
      BY <2>1, <2>5, SMT
    <3>2. (k + 1) \div 100 = q /\ (k + 1) % 100 = r + 1
      BY <2>1, <3>1, Hundreds, SMT
    <3>3. b = 147147 * q + 1471 * (r + 1) + i - d
      BY <1>3, <3>2, NtscSamples, SMT
    <3>4. i \in Nat
      BY <2>1, SMT
    <3> HIDE DEF a, b, c, d, h, i
    <3> QED BY <2>1, <2>2, <2>3, <2>4, <3>3, <3>4, SMT
  <2>6. CASE r = 99
    <3>1. 0 \in 0 .. 99 /\ q + 1 \in Nat /\ k + 1 = 100 * (q + 1) + 0
      BY <2>1, <2>6, SMT
    <3>2. b = 147147 * (q + 1) + 1471 * 0 + (0 + 1) \div 2 - ShortFrames(0)
      <4>1. (k + 1) \div 100 = q + 1 /\ (k + 1) % 100 = 0
        BY <2>1, <2>6, SMT
      <4> QED BY <1>3, <4>1, NtscSamples, SMT
    <3>3. ShortFrames(0) = 0 /\ (0 + 1) \div 2 = 0
      BY FewShortFrames, SMT
    <3>4. h = 50
      BY <2>6, SMT
    <3>5. b = 147147 * (q + 1)
      BY <2>1, <3>2, <3>3, SMT
    <3> HIDE DEF a, b, c, d, h, i
    <3> QED BY <2>1, <2>3, <2>4, <2>6, <3>4, <3>5, SMT
  <2>7. r < 99 \/ r = 99
    BY <2>1, SMT
  <2> HIDE DEF a, b
  <2> QED BY <2>5, <2>6, <2>7, SMT
<1> QED BY <1>2, <1>3, SMT

LEMMA NoSamples ==
  ASSUME NEW standard
  PROVE  SamplesBefore(standard, 0) = 0
<1>1. ShortFrames(0) = 0
  BY FewShortFrames, SMT
<1>2. 0 \div 100 = 0 /\ 0 % 100 = 0 /\ (0 + 1) \div 2 = 0
  BY SMT
<1> QED BY <1>1, <1>2, SMT DEF SamplesBefore

LEMMA SamplesGrow ==
  ASSUME NEW standard, NEW j \in Nat, NEW k \in Nat, j < k
  PROVE  SamplesBefore(standard, j) < SamplesBefore(standard, k)
<1>1. PICK n : n = k - j - 1
  OBVIOUS
<1>2. n \in Nat /\ j + 1 + n = k
  BY <1>1
<1>3. PICK S : S = {m \in 0 .. n :
                      SamplesBefore(standard, j) < SamplesBefore(standard, j + 1 + m)}
  OBVIOUS
<1>4. 0 \in S
  <2>1. j + 1 + 0 = j + 1
    OBVIOUS
  <2> QED BY <1>2, <1>3, <2>1, SamplesOfFrame
<1>5. ASSUME NEW m \in 1 .. n, m - 1 \in S PROVE m \in S
  <2>1. PICK l : l = j + m
    OBVIOUS
  <2>2. l \in Nat /\ j + 1 + (m - 1) = l /\ j + 1 + m = l + 1
    BY <1>2, <2>1
  <2>3. SamplesBefore(standard, j) < SamplesBefore(standard, l)
    <3>1. SamplesBefore(standard, j) < SamplesBefore(standard, j + 1 + (m - 1))
      BY <1>3, <1>5
    <3> QED BY <2>2, <3>1
  <2>4. SamplesBefore(standard, l) < SamplesBefore(standard, l + 1)
        /\ SamplesBefore(standard, l) \in Nat /\ SamplesBefore(standard, l + 1) \in Nat
    BY <2>2, SamplesOfFrame
  <2>5. SamplesBefore(standard, j) \in Nat
    BY SamplesOfFrame
  <2> QED BY <1>3, <2>2, <2>3, <2>4, <2>5
<1>6. S = 0 .. n
  <2>1. S \in SUBSET (0 .. n)
    BY <1>3
  <2> QED BY <1>2, <1>4, <1>5, <2>1, UpTo
<1>7. n \in S
  BY <1>2, <1>6
<1> QED BY <1>2, <1>3, <1>7

LEMMA WavSamplesOfFrame ==
  ASSUME NEW k \in Nat
  PROVE  /\ WavSamplesBefore(k) \in Nat
         /\ AudioSamplesForFrame(programme.standard, k) \in Nat \ {0}
         /\ WavSamplesBefore(k + 1)
              = WavSamplesBefore(k) + AudioSamplesForFrame(programme.standard, k)
<1>1. PICK q, r : q = k \div 5 /\ r = k % 5
  OBVIOUS
<1>2. q \in Nat /\ r \in 0 .. 4 /\ k = 5 * q + r
  BY <1>1
<1>3. CASE programme.standard = "PAL"
  BY <1>3 DEF WavSamplesBefore, AudioSamplesForFrame
<1>4. CASE programme.standard # "PAL"
  <2> DEFINE T == <<0, 1602, 3203, 4805, 6406>>
  <2>1. T[1] = 0 /\ T[2] = 1602 /\ T[3] = 3203 /\ T[4] = 4805 /\ T[5] = 6406
    OBVIOUS
  <2>2. WavSamplesBefore(k) = 8008 * q + T[r + 1]
    BY <1>1, <1>4 DEF WavSamplesBefore
  <2>3. AudioSamplesForFrame(programme.standard, k)
          = IF r \in {1, 3} THEN 1601 ELSE 1602
    BY <1>1, <1>4 DEF AudioSamplesForFrame
  <2>4. CASE r < 4
    <3>1. (k + 1) \div 5 = q /\ (k + 1) % 5 = r + 1
      BY <1>2, <2>4
    <3>2. WavSamplesBefore(k + 1) = 8008 * q + T[r + 1 + 1]
      BY <1>4, <3>1 DEF WavSamplesBefore
    <3> HIDE DEF T
    <3>3. r = 0 \/ r = 1 \/ r = 2 \/ r = 3
      BY <1>2, <2>4
    <3> QED BY <1>2, <2>1, <2>2, <2>3, <3>2, <3>3
  <2>5. CASE r = 4
    <3>1. (k + 1) \div 5 = q + 1 /\ (k + 1) % 5 = 0
      BY <1>2, <2>5
    <3>2. WavSamplesBefore(k + 1) = 8008 * (q + 1) + T[0 + 1]
      BY <1>4, <3>1 DEF WavSamplesBefore
    <3> HIDE DEF T
    <3> QED BY <1>2, <2>1, <2>2, <2>3, <2>5, <3>2
  <2> QED BY <1>2, <2>4, <2>5
<1> QED BY <1>3, <1>4

-------------------------------------------------------------------------------
(* The part of a frame.                                                    *)
LEMMA MinIs ==
  ASSUME NEW S \in SUBSET Nat, S # {}
  PROVE  Min(S) \in S /\ \A s \in S : Min(S) <= s
BY SmallestOf DEF Min

PartWith(parts, k) == Min({j \in DOMAIN parts : k < FramesBefore(parts, j)})

LEMMA PartIs ==
  ASSUME NEW parts, Lengths(parts), NEW k \in Nat,
         k < FramesBefore(parts, Len(parts))
  PROVE  /\ PartWith(parts, k) \in 1 .. Len(parts)
         /\ FramesBefore(parts, PartWith(parts, k) - 1) <= k
         /\ k < FramesBefore(parts, PartWith(parts, k))
<1>1. PICK n : n = Len(parts)
  OBVIOUS
<1>2. n \in Nat /\ DOMAIN parts = 1 .. n
  BY <1>1 DEF Lengths
<1>3. PICK S : S = {j \in 1 .. n : k < FramesBefore(parts, j)}
  OBVIOUS
<1>4. n \in S
  <2>1. n # 0
    BY <1>1, FramesSum
  <2> QED BY <1>1, <1>2, <1>3, <2>1
<1>5. PICK p : p = Min(S)
  OBVIOUS
<1>6. p \in S /\ \A j \in S : p <= j
  <2>1. S \in SUBSET Nat /\ S # {}
    BY <1>3, <1>4
  <2> QED BY <1>5, <2>1, MinIs
<1>7. p \in 1 .. n /\ k < FramesBefore(parts, p)
  BY <1>3, <1>6
<1>8. FramesBefore(parts, p - 1) <= k
  <2>1. CASE p = 1
    BY <2>1, FramesSum
  <2>2. CASE p # 1
    <3>1. p - 1 \in 1 .. n /\ p - 1 \in 0 .. n /\ ~(p <= p - 1)
      BY <1>2, <1>7, <2>2
    <3>2. ~(k < FramesBefore(parts, p - 1))
      BY <1>3, <1>6, <3>1
    <3>3. FramesBefore(parts, p - 1) \in Nat
      BY <1>1, <3>1, FramesSum
    <3> QED BY <3>2, <3>3
  <2> QED BY <2>1, <2>2
<1>9. p = PartWith(parts, k)
  BY <1>2, <1>3, <1>5 DEF PartWith
<1> QED BY <1>1, <1>7, <1>8, <1>9

LEMMA PartIsOnly ==
  ASSUME NEW parts, Lengths(parts), NEW k \in Nat, NEW j \in 1 .. Len(parts),
         FramesBefore(parts, j - 1) <= k, k < FramesBefore(parts, j)
  PROVE  k < FramesBefore(parts, Len(parts)) /\ PartWith(parts, k) = j
<1>1. PICK n : n = Len(parts)
  OBVIOUS
<1>2. n \in Nat /\ j \in 1 .. n
  BY <1>1 DEF Lengths
<1>3. \A i \in 0 .. n : FramesBefore(parts, i) \in Nat
  BY <1>1, FramesSum
<1>4. \A i, l \in 0 .. n : i < l => FramesBefore(parts, i) < FramesBefore(parts, l)
  BY <1>1, FramesGrow
<1>5. k < FramesBefore(parts, n)
  <2>1. j = n \/ FramesBefore(parts, j) < FramesBefore(parts, n)
    BY <1>2, <1>4
  <2>2. FramesBefore(parts, j) \in Nat /\ FramesBefore(parts, n) \in Nat
    BY <1>2, <1>3
  <2> QED BY <2>1, <2>2
<1>6. PICK p : p = PartWith(parts, k)
  OBVIOUS
<1>7. p \in 1 .. n /\ FramesBefore(parts, p - 1) <= k /\ k < FramesBefore(parts, p)
  BY <1>1, <1>5, <1>6, PartIs
<1>8. CASE p < j
  <2>1. p \in 0 .. n /\ j - 1 \in 0 .. n /\ (p = j - 1 \/ p < j - 1)
    BY <1>2, <1>7, <1>8
  <2>2. p = j - 1 \/ FramesBefore(parts, p) < FramesBefore(parts, j - 1)
    BY <1>4, <2>1
  <2>3. FramesBefore(parts, p) \in Nat /\ FramesBefore(parts, j - 1) \in Nat
    BY <1>3, <2>1
  <2> QED BY <1>7, <2>2, <2>3
<1>9. CASE j < p
  <2>1. j \in 0 .. n /\ p - 1 \in 0 .. n /\ (j = p - 1 \/ j < p - 1)
    BY <1>2, <1>7, <1>9
  <2>2. j = p - 1 \/ FramesBefore(parts, j) < FramesBefore(parts, p - 1)
    BY <1>4, <2>1
  <2>3. FramesBefore(parts, j) \in Nat /\ FramesBefore(parts, p - 1) \in Nat
    BY <1>3, <2>1
  <2> QED BY <1>7, <2>2, <2>3
<1> QED BY <1>1, <1>2, <1>5, <1>6, <1>7, <1>8, <1>9

-------------------------------------------------------------------------------
(* The table of tracks.                                                    *)
Areas(parts) == {parts[k].area : k \in 1 .. Len(parts)}
RunType(parts) == [area : Areas(parts), start : Nat]

LEMMA RunsAre ==
  ASSUME NEW standard, NEW parts, Lengths(parts)
  PROVE  BuildRuns(standard, parts) \in Seq(RunType(parts))
<1>1. PICK n : n = Len(parts)
  OBVIOUS
<1>2. n \in Nat /\ DOMAIN parts = 1 .. n
  BY <1>1 DEF Lengths
<1> DEFINE begins == {k \in DOMAIN parts :
                        k = 1 \/ parts[k].area = "programme"
                              \/ parts[k].area # parts[k - 1].area}
           run(k) == [area |-> parts[k].area,
                      start |-> SamplesBefore(standard, FramesBefore(parts, k - 1))]
           g == CHOOSE Runs : Runs = [k \in 0 .. Len(parts) |->
                  IF k = 0 THEN << >> ELSE IF k \notin begins THEN Runs[k - 1]
                  ELSE Append(Runs[k - 1], run(k))]
<1>3. BuildRuns(standard, parts) = g[Len(parts)]
  BY DEF BuildRuns
<1>4. \A k \in 1 .. n : run(k) \in RunType(parts)
  <2> TAKE k \in 1 .. n
  <2>1. k - 1 \in 0 .. Len(parts)
    BY <1>1, <1>2
  <2>2. FramesBefore(parts, k - 1) \in Nat
    BY <2>1, FramesSum
  <2>3. SamplesBefore(standard, FramesBefore(parts, k - 1)) \in Nat
    BY <2>2, SamplesOfFrame
  <2> QED BY <1>1, <2>3 DEF RunType, Areas
<1> HIDE DEF run, begins
<1>5. PICK V, base : V = Seq(RunType(parts)) /\ base = << >>
  OBVIOUS
<1>6. base \in V
  BY <1>5
<1>7. PICK step : step = [a \in (1 .. n) \X V |->
                            IF a[1] \notin begins THEN a[2]
                            ELSE Append(a[2], run(a[1]))]
  OBVIOUS
<1>8. \A k \in 1 .. n, v \in V :
        step[<<k, v>>] = IF k \notin begins THEN v ELSE Append(v, run(k))
  BY <1>7
<1>9. step \in [(1 .. n) \X V -> V]
  <2>1. \A a \in (1 .. n) \X V : step[a] \in V
    <3> TAKE a \in (1 .. n) \X V
    <3>1. PICK k \in 1 .. n, v \in V : a = <<k, v>>
      OBVIOUS
    <3>2. Append(v, run(k)) \in V
      BY <1>4, <1>5
    <3> QED BY <1>8, <3>1, <3>2
  <2>2. step = [a \in (1 .. n) \X V |-> step[a]]
    BY <1>7
  <2> QED BY <2>1, <2>2
<1>10. PICK f \in [0 .. n -> V] :
         f[0] = base /\ \A k \in 1 .. n : f[k] = step[<<k, f[k - 1]>>]
  <2>1. Goes(V, n, base, step)
    BY <1>2, <1>6, <1>9, StepsLead
  <2> QED BY <2>1 DEF Goes
<1>11. f = [k \in 0 .. Len(parts) |->
              IF k = 0 THEN << >> ELSE IF k \notin begins THEN f[k - 1]
              ELSE Append(f[k - 1], run(k))]
  <2>1. f = [k \in 0 .. n |-> f[k]]
    OBVIOUS
  <2>2. ASSUME NEW k \in 0 .. n
        PROVE  f[k] = IF k = 0 THEN << >> ELSE IF k \notin begins THEN f[k - 1]
                      ELSE Append(f[k - 1], run(k))
    <3>1. CASE k = 0
      BY <1>5, <1>10, <3>1
    <3>2. CASE k # 0
      <4>1. k \in 1 .. n /\ k - 1 \in 0 .. n
        BY <1>2, <3>2
      <4>2. f[k - 1] \in V
        BY <4>1
      <4>3. f[k] = step[<<k, f[k - 1]>>]
        BY <1>10, <4>1
      <4> QED BY <1>8, <3>2, <4>1, <4>2, <4>3
    <3> QED BY <3>1, <3>2
  <2> QED BY <1>1, <2>1, <2>2
<1>12. g = [k \in 0 .. Len(parts) |->
              IF k = 0 THEN << >> ELSE IF k \notin begins THEN g[k - 1]
              ELSE Append(g[k - 1], run(k))]
  BY <1>11
<1> HIDE DEF g
<1>13. PICK S : S = {k \in 0 .. n : g[k] \in V}
  OBVIOUS
<1>14. 0 \in S
  BY <1>1, <1>2, <1>5, <1>6, <1>12, <1>13
<1>15. ASSUME NEW k \in 1 .. n, k - 1 \in S PROVE k \in S
  <2>1. g[k - 1] \in V /\ Append(g[k - 1], run(k)) \in V
    BY <1>4, <1>5, <1>13, <1>15
  <2>2. k \in 0 .. Len(parts) /\ k # 0
    BY <1>1, <1>2
  <2>3. g[k] = IF k \notin begins THEN g[k - 1] ELSE Append(g[k - 1], run(k))
    BY <1>12, <2>2
  <2> QED BY <1>1, <1>13, <2>1, <2>2, <2>3
<1>16. S = 0 .. n
  <2>1. S \in SUBSET (0 .. n)
    BY <1>13
  <2> QED BY <1>2, <1>14, <1>15, <2>1, UpTo
<1>17. n \in S
  BY <1>2, <1>16
<1> QED BY <1>1, <1>3, <1>5, <1>13, <1>17

(* The number of a track counts the programmes up to it.                   *)
LEMMA CountedUpTo ==
  ASSUME NEW n \in Nat, NEW B \in SUBSET (1 .. n), NEW k \in 1 .. n
  PROVE  /\ Cardinality(B \cap 1 .. k) \in Nat
         /\ Cardinality(B \cap 1 .. k) <= Cardinality(B \cap 1 .. n)
         /\ k \in B => Cardinality(B \cap 1 .. k) >= 1
         /\ k \in B => (Cardinality(B \cap 1 .. k) = 1 <=> \A j \in B : k <= j)
<1>1. IsFiniteSet(1 .. n)
  BY FS_Interval
<1>2. IsFiniteSet(B \cap 1 .. n)
  BY <1>1, FS_Subset
<1>3. B \cap 1 .. k \subseteq B \cap 1 .. n
  OBVIOUS
<1>4. /\ IsFiniteSet(B \cap 1 .. k)
      /\ Cardinality(B \cap 1 .. k) <= Cardinality(B \cap 1 .. n)
  BY <1>2, <1>3, FS_Subset
<1>5. Cardinality(B \cap 1 .. k) \in Nat
  BY <1>4, FS_CardinalityType
<1>6. ASSUME k \in B
      PROVE  Cardinality(B \cap 1 .. k) >= 1
  <2>1. {k} \subseteq B \cap 1 .. k /\ Cardinality({k}) = 1
    BY <1>6, FS_Singleton
  <2>2. Cardinality({k}) <= Cardinality(B \cap 1 .. k)
    BY <1>4, <2>1, FS_Subset
  <2> QED BY <1>5, <2>1, <2>2
<1>7. ASSUME k \in B, \A j \in B : k <= j
      PROVE  Cardinality(B \cap 1 .. k) = 1
  <2>1. B \cap 1 .. k = {k}
    BY <1>7
  <2> QED BY <2>1, FS_Singleton
<1>8. ASSUME k \in B, NEW j \in B, ~(k <= j)
      PROVE  Cardinality(B \cap 1 .. k) # 1
  <2>1. {j} \subseteq B \cap 1 .. k /\ k \notin {j} /\ k \in B \cap 1 .. k
    BY <1>8
  <2>2. IsFiniteSet({j}) /\ Cardinality({j}) = 1
    BY FS_Singleton
  <2>3. IsFiniteSet({j} \cup {k}) /\ Cardinality({j} \cup {k}) = 2
    BY <2>1, <2>2, FS_AddElement
  <2>4. {j} \cup {k} \subseteq B \cap 1 .. k
    BY <2>1
  <2>5. Cardinality({j} \cup {k}) <= Cardinality(B \cap 1 .. k)
    BY <1>4, <2>4, FS_Subset
  <2> QED BY <1>5, <2>3, <2>5
<1> QED BY <1>4, <1>5, <1>6, <1>7, <1>8

(* A sequence of entries without gaps, that the encoder accepts; and the   *)
(* pause at the beginning of its first track.                              *)
Timeline(t) ==
  /\ t \in Seq(Range(t)) /\ t # << >>
  /\ \A k \in 1 .. Len(t) : t[k].start \in Nat /\ t[k].count \in Nat \ {0}
  /\ t[1].start = 0
  /\ \A k \in 2 .. Len(t) : t[k].start = t[k - 1].start + t[k - 1].count
  /\ \A k \in 2 .. Len(t) : AreaOrder(t[k - 1].area) <= AreaOrder(t[k].area)
  /\ \A k \in 1 .. Len(t) :
       t[k].area = "programme" => t[k].track \in 1 .. MaxTrackNumber

FirstPause(t) ==
  {[from |-> t[k].start,
    to |-> t[k].start + Earlier(TrackOnePauseSections, t[k].count)] :
     k \in {k \in 1 .. Len(t) :
              /\ t[k].area = "programme"
              /\ \A j \in 1 .. Len(t) : t[j].area = "programme" => k <= j}}

LEMMA SectionsAre ==
  ASSUME NEW standard, NEW parts, Lengths(parts)
  PROVE  /\ TotalSections(standard, parts) \in Nat
         /\ \A run \in RunType(parts) : StartSection(run) \in Nat
<1>1. TotalSections(standard, parts) \in Nat
  <2>1. PICK n : n = Len(parts)
    OBVIOUS
  <2>2. n \in 0 .. Len(parts)
    BY <2>1 DEF Lengths
  <2>3. PICK m : m = FramesBefore(parts, n)
    OBVIOUS
  <2>4. m \in Nat
    BY <2>2, <2>3, FramesSum
  <2>5. PICK s : s = SamplesBefore(standard, m)
    OBVIOUS
  <2>6. s \in Nat
    BY <2>4, <2>5, SamplesOfFrame
  <2>7. TotalSections(standard, parts) = s \div 588
    BY <2>1, <2>3, <2>5 DEF TotalSections, SamplesPerSubcodeSection
  <2> QED BY <2>6, <2>7
<1>2. ASSUME NEW run \in RunType(parts) PROVE StartSection(run) \in Nat
  <2>1. PICK s : s = run.start
    OBVIOUS
  <2>2. s \in Nat
    BY <2>1 DEF RunType
  <2>3. StartSection(run) = (s + 294) \div 588
    BY <2>1 DEF StartSection, SamplesPerSubcodeSection
  <2> QED BY <2>2, <2>3
<1> QED BY <1>1, <1>2

LEMMA TableIsTimeline ==
  ASSUME NEW standard, NEW parts, Lengths(parts),
         NEW built, built = BuildEfmTrackLayout(standard, parts), built.ok
  PROVE  /\ Timeline(built.entries)
         /\ built.pause = FirstPause(built.entries)
         /\ Len(parts) > 0
<1>1. PICK runs : runs = BuildRuns(standard, parts)
  OBVIOUS
<1>2. PICK n : n = Len(runs)
  OBVIOUS
<1>3. n \in Nat /\ \A k \in 1 .. n : runs[k] \in RunType(parts)
  <2>1. runs \in Seq(RunType(parts))
    BY <1>1, RunsAre
  <2> QED BY <1>2, <2>1
<1>4. PICK total : total = TotalSections(standard, parts)
  OBVIOUS
<1>5. total \in Nat
  BY <1>4, SectionsAre
<1>6. PICK start : start = [k \in 1 .. n + 1 |-> IF k > n THEN total
                              ELSE IF k = 1 THEN 0 ELSE StartSection(runs[k])]
  OBVIOUS
<1>7. \A k \in 1 .. n + 1 : start[k] \in Nat
  <2> TAKE k \in 1 .. n + 1
  <2>1. CASE k > n
    BY <1>5, <1>6, <2>1
  <2>2. CASE k = 1
    BY <1>5, <1>6, <2>2
  <2>3. CASE ~(k > n) /\ k # 1
    <3>1. k \in 1 .. n
      BY <1>3, <2>3
    <3>2. StartSection(runs[k]) \in Nat
      BY <1>3, <3>1, SectionsAre
    <3>3. start[k] = StartSection(runs[k])
      BY <1>6, <2>3
    <3> QED BY <3>2, <3>3
  <2> QED BY <2>1, <2>2, <2>3
<1> DEFINE number(k) == Cardinality({j \in 1 .. k : runs[j].area = "programme"})
           entry(k) == [area |-> runs[k].area, start |-> start[k],
                        count |-> start[k + 1] - start[k],
                        track |-> IF runs[k].area = "programme" THEN number(k) ELSE 0]
           first == {k \in 1 .. n : number(k) = 1 /\ runs[k].area = "programme"}
           pause(k) == [from |-> start[k],
                        to |-> start[k] + Earlier(TrackOnePauseSections,
                                                  start[k + 1] - start[k])]
<1>8. /\ n > 0
      /\ \A k \in 1 .. n : start[k] < start[k + 1]
      /\ \A k \in 1 .. n - 1 : AreaOrder(runs[k].area) <= AreaOrder(runs[k + 1].area)
      /\ number(n) <= MaxTrackNumber
  BY <1>1, <1>2, <1>4, <1>6 DEF BuildEfmTrackLayout
<1>9. built.entries = [k \in 1 .. n |-> entry(k)]
  BY <1>1, <1>2, <1>4, <1>6 DEF BuildEfmTrackLayout
<1>10. built.pause = {pause(k) : k \in first}
  BY <1>1, <1>2, <1>4, <1>6 DEF BuildEfmTrackLayout
<1>11. PICK t : t = built.entries
  OBVIOUS
<1>12. t = [k \in 1 .. n |-> entry(k)]
  BY <1>9, <1>11
<1>13. DOMAIN t = 1 .. n /\ t \in Seq(Range(t)) /\ Len(t) = n
  <2> HIDE DEF entry
  <2>1. DOMAIN t = 1 .. n /\ t \in [1 .. n -> Range(t)]
    BY <1>12 DEF Range
  <2> QED BY <1>3, <2>1
<1>14. ASSUME NEW k \in 1 .. n
       PROVE  /\ number(k) \in Nat /\ number(k) <= number(n)
              /\ runs[k].area = "programme" => number(k) >= 1
              /\ runs[k].area = "programme" =>
                   (number(k) = 1 <=>
                      \A j \in 1 .. n : runs[j].area = "programme" => k <= j)
  <2>1. PICK B : B = {j \in 1 .. n : runs[j].area = "programme"}
    OBVIOUS
  <2>2. \A i \in 1 .. n : {j \in 1 .. i : runs[j].area = "programme"} = B \cap 1 .. i
    <3> TAKE i \in 1 .. n
    <3>1. \A j : j \in 1 .. i <=> j \in 1 .. n /\ j \in 1 .. i
      BY <1>3
    <3> QED BY <2>1, <3>1, Zenon
  <2>3. number(k) = Cardinality(B \cap 1 .. k)
    BY <2>2
  <2>4. number(n) = Cardinality(B \cap 1 .. n)
    <3>1. n \in 1 .. n
      BY <1>3, <1>8
    <3> QED BY <2>2, <3>1
  <2>5. B \in SUBSET (1 .. n) /\ (k \in B <=> runs[k].area = "programme")
    BY <2>1
  <2>6. (\A j \in B : k <= j) <=> \A j \in 1 .. n : runs[j].area = "programme" => k <= j
    BY <2>1
  <2>7. PICK c, d : c = Cardinality(B \cap 1 .. k) /\ d = Cardinality(B \cap 1 .. n)
    OBVIOUS
  <2>8. n \in Nat /\ B \in SUBSET (1 .. n) /\ k \in 1 .. n /\ n \in 1 .. n
    BY <1>3, <1>8, <2>5
  <2>9. /\ c \in Nat /\ c <= d
        /\ k \in B => c >= 1
        /\ k \in B => (c = 1 <=> \A j \in B : k <= j)
    BY ONLY <2>7, <2>8, CountedUpTo
  <2> HIDE DEF number
  <2> QED BY <2>3, <2>4, <2>5, <2>6, <2>7, <2>9, Zenon
<1> HIDE DEF number
<1>15. \A k \in 1 .. n : /\ t[k].area = runs[k].area /\ t[k].start = start[k]
                         /\ t[k].count = start[k + 1] - start[k]
                         /\ runs[k].area = "programme" => t[k].track = number(k)
  BY <1>12
<1> HIDE DEF entry
<1>16. \A k \in 1 .. n : t[k].start \in Nat /\ t[k].count \in Nat \ {0}
  <2> TAKE k \in 1 .. n
  <2>1. k \in 1 .. n + 1 /\ k + 1 \in 1 .. n + 1
    BY <1>3
  <2>2. start[k] \in Nat /\ start[k + 1] \in Nat /\ start[k] < start[k + 1]
    BY <1>7, <1>8, <2>1
  <2> QED BY <1>15, <2>2
<1>17. t[1].start = 0
  <2>1. 1 \in 1 .. n /\ 1 \in 1 .. n + 1 /\ ~(1 > n)
    BY <1>3, <1>8
  <2> QED BY <1>6, <1>15, <2>1
<1>18. ASSUME NEW k \in 2 .. n
       PROVE  /\ t[k].start = t[k - 1].start + t[k - 1].count
              /\ AreaOrder(t[k - 1].area) <= AreaOrder(t[k].area)
  <2>1. k \in 1 .. n /\ k - 1 \in 1 .. n - 1 /\ k - 1 \in 1 .. n /\ k - 1 + 1 = k
        /\ k \in 1 .. n + 1 /\ k - 1 \in 1 .. n + 1
    BY <1>3
  <2>2. /\ t[k].start = start[k] /\ t[k - 1].start = start[k - 1]
        /\ t[k - 1].count = start[k] - start[k - 1]
        /\ t[k].area = runs[k].area /\ t[k - 1].area = runs[k - 1].area
    BY <1>15, <2>1
  <2>3. start[k] \in Nat /\ start[k - 1] \in Nat
    BY <1>7, <2>1
  <2>4. AreaOrder(runs[k - 1].area) <= AreaOrder(runs[k].area)
    BY <1>8, <2>1
  <2> QED BY <2>2, <2>3, <2>4
<1>19. ASSUME NEW k \in 1 .. n, t[k].area = "programme"
       PROVE  t[k].track \in 1 .. MaxTrackNumber
  <2>1. number(n) \in Nat
    <3>1. n \in 1 .. n
      BY <1>3, <1>8
    <3> QED BY <1>14, <3>1
  <2>2. number(k) \in Nat /\ number(k) >= 1 /\ number(k) <= number(n)
    BY <1>14, <1>15, <1>19
  <2> QED BY <1>8, <1>15, <1>19, <2>1, <2>2 DEF MaxTrackNumber
<1>20. Timeline(t)
  <2>1. t # << >>
    BY <1>8, <1>13
  <2> QED BY <1>13, <1>16, <1>17, <1>18, <1>19, <2>1 DEF Timeline
<1>21. first = {k \in 1 .. n : /\ t[k].area = "programme"
                               /\ \A j \in 1 .. n : t[j].area = "programme" => k <= j}
  BY <1>14, <1>15
<1>22. \A k \in 1 .. n : pause(k) =
         [from |-> t[k].start,
          to |-> t[k].start + Earlier(TrackOnePauseSections, t[k].count)]
  BY <1>15
<1>23. built.pause = FirstPause(t)
  <2> HIDE DEF first, pause
  <2>1. first \subseteq 1 .. n
    BY DEF first
  <2> QED BY <1>10, <1>13, <1>21, <1>22, <2>1 DEF FirstPause
<1>24. Len(parts) > 0
  <2>1. runs[1].area \in Areas(parts)
    BY <1>3, <1>8 DEF RunType
  <2>2. PICK k : k \in 1 .. Len(parts)
    BY <2>1 DEF Areas
  <2>3. Len(parts) \in Nat
    BY DEF Lengths
  <2> QED BY <2>2, <2>3
<1> QED BY <1>11, <1>20, <1>23, <1>24

LEMMA TimelineAccepted ==
  ASSUME NEW t, Timeline(t)
  PROVE  Accepts(t)
<1>1. DOMAIN t = 1 .. Len(t) /\ Len(t) \in Nat
  BY DEF Timeline
<1>2. ASSUME NEW k \in 1 .. Len(t), k > 1 PROVE k \in 2 .. Len(t)
  BY <1>1, <1>2
<1> QED BY <1>1, <1>2 DEF Timeline, Accepts, End

LEMMA LaterEntries ==
  ASSUME NEW t, Timeline(t), NEW j \in 1 .. Len(t), NEW k \in 1 .. Len(t), j < k
  PROVE  t[j].start + t[j].count <= t[k].start
<1>1. PICK n : n = Len(t)
  OBVIOUS
<1>2. n \in Nat /\ j \in 1 .. n /\ k \in 1 .. n
  BY <1>1 DEF Timeline
<1>3. \A i \in 1 .. n : t[i].start \in Nat /\ t[i].count \in Nat
  BY <1>1 DEF Timeline
<1>4. PICK S : S = {m \in 0 .. n - j - 1 :
                      t[j].start + t[j].count <= t[j + 1 + m].start}
  OBVIOUS
<1>5. 0 \in S
  <2>1. j + 1 \in 2 .. n /\ j + 1 + 0 = j + 1 /\ j + 1 - 1 = j
    BY <1>2
  <2>2. t[j + 1].start = t[j].start + t[j].count
    BY <1>1, <2>1 DEF Timeline
  <2>3. t[j + 1].start \in Nat
    <3>1. j + 1 \in 1 .. n
      BY <1>2
    <3> QED BY <1>3, <3>1
  <2> QED BY <1>2, <1>4, <2>1, <2>2, <2>3
<1>6. ASSUME NEW m \in 1 .. n - j - 1, m - 1 \in S PROVE m \in S
  <2>1. PICK i : i = j + m
    OBVIOUS
  <2>2. /\ i \in 1 .. n /\ i + 1 \in 2 .. n /\ i + 1 \in 1 .. n /\ i + 1 - 1 = i
        /\ j + 1 + m = i + 1 /\ j + 1 + (m - 1) = i
    BY <1>2, <2>1
  <2>3. t[j].start + t[j].count <= t[i].start
    BY <1>4, <1>6, <2>2
  <2>4. t[i + 1].start = t[i].start + t[i].count
    BY <1>1, <2>2 DEF Timeline
  <2>5. /\ t[i].start \in Nat /\ t[i].count \in Nat /\ t[j].start \in Nat
        /\ t[j].count \in Nat
    BY <1>2, <1>3, <2>2
  <2>6. t[j].start + t[j].count <= t[i + 1].start
    BY <2>3, <2>4, <2>5
  <2> QED BY <1>2, <1>4, <2>2, <2>6
<1>7. S = 0 .. n - j - 1
  <2>1. n - j - 1 \in Nat /\ S \in SUBSET (0 .. n - j - 1)
    BY <1>2, <1>4
  <2> QED BY <1>5, <1>6, <2>1, UpTo
<1>8. k - j - 1 \in S /\ j + 1 + (k - j - 1) = k
  BY <1>2, <1>7
<1> QED BY <1>4, <1>8

(* A section of the stream lies within one entry.                          *)
LEMMA EntryIs ==
  ASSUME NEW t, Timeline(t), NEW s \in Nat, s < End(Last(t))
  PROVE  \E k \in 1 .. Len(t) :
           /\ EntryForSection(t, s) = t[k]
           /\ t[k].start <= s /\ s < t[k].start + t[k].count
<1>1. PICK n : n = Len(t)
  OBVIOUS
<1>2. n \in Nat \ {0} /\ DOMAIN t = 1 .. n
  BY <1>1 DEF Timeline
<1>3. \A i \in 1 .. n : t[i].start \in Nat /\ t[i].count \in Nat
  BY <1>1 DEF Timeline
<1>4. PICK S : S = {k \in 1 .. n : s < End(t[k])}
  OBVIOUS
<1>5. n \in S
  BY <1>1, <1>2, <1>4 DEF Last
<1>6. PICK k : k = Min(S)
  OBVIOUS
<1>7. k \in S /\ \A j \in S : k <= j
  <2>1. S \in SUBSET Nat /\ S # {}
    BY <1>4, <1>5
  <2> QED BY <1>6, <2>1, MinIs
<1>8. EntryForSection(t, s) = t[k]
  BY <1>2, <1>4, <1>6 DEF EntryForSection
<1>9. k \in 1 .. n /\ s < t[k].start + t[k].count
  BY <1>4, <1>7 DEF End
<1>10. t[k].start <= s
  <2>1. CASE k = 1
    BY <2>1 DEF Timeline
  <2>2. CASE k # 1
    <3>1. k \in 2 .. n /\ k - 1 \in 1 .. n /\ ~(k <= k - 1)
      BY <1>2, <1>9, <2>2
    <3>2. ~(s < t[k - 1].start + t[k - 1].count)
      BY <1>4, <1>7, <3>1 DEF End
    <3>3. t[k].start = t[k - 1].start + t[k - 1].count
      BY <1>1, <3>1 DEF Timeline
    <3>4. t[k].start \in Nat
      BY <1>3, <1>9
    <3> QED BY <3>2, <3>3, <3>4
  <2> QED BY <2>1, <2>2
<1> QED BY <1>1, <1>8, <1>9, <1>10

(* The first track of the programme begins where the programme does.       *)
LEMMA FirstTrack ==
  ASSUME NEW t, Timeline(t), NEW k \in 1 .. Len(t), t[k].area = "programme"
  PROVE  \E m \in 1 .. Len(t) :
           /\ m <= k /\ t[m].area = "programme" /\ ProgrammeStart(t) = t[m].start
           /\ \A j \in 1 .. Len(t) : t[j].area = "programme" => m <= j
           /\ t[k].start = ProgrammeStart(t) <=> k = m
<1>1. PICK n : n = Len(t)
  OBVIOUS
<1>2. n \in Nat /\ DOMAIN t = 1 .. n
  BY <1>1 DEF Timeline
<1>3. PICK m : m = Min(Of(t, "programme"))
  OBVIOUS
<1>4. m \in Of(t, "programme") /\ \A j \in Of(t, "programme") : m <= j
  <2>1. Of(t, "programme") \in SUBSET Nat /\ Of(t, "programme") # {}
    BY <1>1, <1>2 DEF Of
  <2> QED BY <1>3, <2>1, MinIs
<1>5. /\ m \in 1 .. n /\ t[m].area = "programme" /\ m <= k
      /\ \A j \in 1 .. n : t[j].area = "programme" => m <= j
  BY <1>1, <1>2, <1>4 DEF Of
<1>6. ProgrammeStart(t) = t[m].start
  BY <1>3 DEF ProgrammeStart
<1>7. ASSUME k # m PROVE t[k].start # t[m].start
  <2>1. m < k
    BY <1>1, <1>5, <1>7
  <2>2. t[m].start + t[m].count <= t[k].start
    BY <1>1, <1>5, <2>1, LaterEntries
  <2>3. t[m].start \in Nat /\ t[m].count \in Nat \ {0} /\ t[k].start \in Nat
    BY <1>1, <1>5 DEF Timeline
  <2> QED BY <2>2, <2>3
<1> QED BY <1>1, <1>5, <1>6, <1>7

PauseAt(t, s) == LET q == BuildPayload(t, s)
                 IN  q.track \in 1 .. MaxTrackNumber /\ q.index = 0

(* The generator of the subcode pauses where the layout says so.           *)
LEMMA PausesAgree ==
  ASSUME NEW t, Timeline(t), NEW s \in Nat, s < End(Last(t))
  PROVE  PauseAt(t, s) <=> \E p \in FirstPause(t) : p.from <= s /\ s < p.to
<1>1. PICK n : n = Len(t)
  OBVIOUS
<1>2. n \in Nat /\ \A i \in 1 .. n : t[i].start \in Nat /\ t[i].count \in Nat \ {0}
  BY <1>1 DEF Timeline
<1>3. PICK k \in 1 .. n : /\ EntryForSection(t, s) = t[k]
                          /\ t[k].start <= s /\ s < t[k].start + t[k].count
  BY <1>1, EntryIs
<1>4. PICK e : e = t[k]
  OBVIOUS
<1>5. e.start \in Nat /\ e.count \in Nat \ {0} /\ e.start <= s /\ s < e.start + e.count
  BY <1>2, <1>3, <1>4
<1> DEFINE first(i) == /\ t[i].area = "programme"
                       /\ \A j \in 1 .. n : t[j].area = "programme" => i <= j
           length(i) == Earlier(TrackOnePauseSections, t[i].count)
<1>6. (\E p \in FirstPause(t) : p.from <= s /\ s < p.to)
        <=> first(k) /\ s < t[k].start + length(k)
  <2>1. (\E p \in FirstPause(t) : p.from <= s /\ s < p.to)
          <=> \E i \in 1 .. n : /\ first(i) /\ t[i].start <= s
                                /\ s < t[i].start + length(i)
    <3>1. FirstPause(t) = {[from |-> t[i].start, to |-> t[i].start + length(i)] :
                             i \in {i \in 1 .. n : first(i)}}
      BY <1>1 DEF FirstPause
    <3> DEFINE pause(i) == [from |-> t[i].start, to |-> t[i].start + length(i)]
    <3>2. \A i : pause(i).from = t[i].start /\ pause(i).to = t[i].start + length(i)
      OBVIOUS
    <3>3. \A p : p \in FirstPause(t) <=> \E i \in 1 .. n : first(i) /\ p = pause(i)
      BY <3>1
    <3> HIDE DEF first, length, pause
    <3> QED BY <3>2, <3>3
  <2>2. ASSUME NEW i \in 1 .. n, t[i].start <= s, s < t[i].start + length(i)
        PROVE  i = k
    <3>1. s < t[i].start + t[i].count
      BY <1>2, <2>2 DEF Earlier, TrackOnePauseSections
    <3>2. CASE i < k
      <4>1. t[i].start + t[i].count <= t[k].start
        BY <1>1, <3>2, LaterEntries
      <4> QED BY <1>2, <1>3, <3>1, <4>1
    <3>3. CASE k < i
      <4>1. t[k].start + t[k].count <= t[i].start
        BY <1>1, <3>3, LaterEntries
      <4> QED BY <1>2, <1>3, <2>2, <4>1
    <3> QED BY <1>2, <3>2, <3>3
  <2> HIDE DEF first, length
  <2> QED BY <1>3, <2>1, <2>2
<1>7. CASE e.area = "lead_in"
  <2>1. BuildPayload(t, s) = BuildLeadInPayload(t, e, s)
    BY <1>3, <1>4, <1>7 DEF BuildPayload
  <2>2. BuildPayload(t, s).track = TrackNumberLeadIn
    BY <2>1 DEF BuildLeadInPayload, Payload
  <2>3. ~PauseAt(t, s)
    BY <2>2 DEF PauseAt, TrackNumberLeadIn
  <2> QED BY <1>4, <1>6, <1>7, <2>3
<1>8. CASE e.area = "programme"
  <2>1. BuildPayload(t, s) = BuildProgrammePayload(t, e, s)
    BY <1>3, <1>4, <1>8 DEF BuildPayload
  <2>2. PICK a : a = AudioStart(t, e)
    OBVIOUS
  <2>3. e.track \in 1 .. MaxTrackNumber
    BY <1>1, <1>4, <1>8 DEF Timeline
  <2>4. PauseAt(t, s) <=> s < a
    BY <2>1, <2>2, <2>3 DEF PauseAt, BuildProgrammePayload, Payload
  <2>5. e.start = ProgrammeStart(t) <=> first(k)
    <3>1. PICK m \in 1 .. n : /\ m <= k
                              /\ \A j \in 1 .. n : t[j].area = "programme" => m <= j
                              /\ t[k].start = ProgrammeStart(t) <=> k = m
                              /\ t[m].area = "programme"
      BY <1>1, <1>4, <1>8, FirstTrack
    <3> QED BY <1>2, <1>4, <1>8, <3>1
  <2>6. a = e.start + IF first(k) THEN length(k) ELSE 0
    BY <1>4, <2>2, <2>5 DEF AudioStart, PauseSections
  <2> HIDE DEF first, length
  <2> QED BY <1>4, <1>5, <1>6, <2>4, <2>6
<1>9. CASE e.area \notin {"lead_in", "programme"}
  <2>1. BuildPayload(t, s) = BuildLeadOutPayload(t, e, s)
    BY <1>3, <1>4, <1>9 DEF BuildPayload
  <2>2. BuildPayload(t, s).track = TrackNumberLeadOut
    BY <2>1 DEF BuildLeadOutPayload, Payload
  <2>3. ~PauseAt(t, s)
    BY <2>2 DEF PauseAt, TrackNumberLeadOut, MaxTrackNumber
  <2> QED BY <1>4, <1>6, <1>9, <2>3
<1> QED BY <1>7, <1>8, <1>9

-------------------------------------------------------------------------------
(* The inductive invariant.                                                *)
RecordingTypes ==
  /\ programme \in Programmes
  /\ session \in {"begin", "open", "done", "failed"}
  /\ frame \in 0 .. TotalFrames
  /\ wav \in [bytes : Nat, riff_size : Nat, data_size : Nat]
  /\ pending \in 0 .. StereoSamplesPerF1Frame - 1
  /\ channel_frames \in Nat
  /\ efm \in [values : Nat, rows : Nat, last : [offset : Nat, count : Nat]]
  /\ synthesis \in [wav : Nat, efm : Nat]

LayoutKept ==
  /\ session = "begin" => frame = 0
  /\ session \in {"open", "done"} =>
       layout.ok /\ layout = BuildEfmTrackLayout(programme.standard, Parts)
  /\ session = "done" => frame = TotalFrames

(* The index closes with the file, which holds what the encoder sent.      *)
IndexClosed ==
  /\ efm.rows = frame
  /\ efm.last.offset + efm.last.count = efm.values
  /\ efm.values = channel_frames

(* Every frame was let in by AppendFrameAudio, so that the sizes of the    *)
(* finished file fit the fields of its header.                             *)
SizesFit ==
  /\ frame > 0 => wav.bytes + (KHeaderBytes - 8) <= RiffLimit
  /\ session = "done" => /\ wav.data_size = wav.bytes
                         /\ wav.riff_size = wav.bytes + KHeaderBytes - 8

(* No sample is lost between the synthesiser and the encoder.              *)
SamplesSent ==
  /\ session \in {"begin", "open"} =>
       StereoSamplesPerF1Frame * channel_frames + pending
         = SamplesBefore(programme.standard, frame)
  /\ session = "done" =>
       SamplesBefore(programme.standard, TotalFrames)
         <= StereoSamplesPerF1Frame * (channel_frames - CircDrainFrames)

SamplesSynthesised(begin, end) ==
  [wav |-> WavSamplesBefore(end) - WavSamplesBefore(begin),
   efm |-> SamplesBefore(programme.standard, end)
             - SamplesBefore(programme.standard, begin)]

(* The synthesisers count from the first frame of the section on.          *)
SynthesisInStep ==
  frame > 0 =>
    synthesis = SamplesSynthesised(FramesBefore(Parts, PartOf(frame - 1) - 1), frame)

RecordingInvariant ==
  /\ RecordingTypes
  /\ LayoutKept
  /\ IndexClosed
  /\ SizesFit
  /\ SamplesSent
  /\ SynthesisInStep

LEMMA ProgrammeIs ==
  ASSUME programme \in Programmes
  PROVE  /\ Lengths(Parts) /\ Len(Parts) \in Nat
         /\ TotalFrames \in Nat
         /\ \A k : PartOf(k) = PartWith(Parts, k)
<1>1. Lengths(Parts)
  <2>1. /\ Parts \in Seq(Range(Parts))
        /\ \A part \in Range(Parts) : part.frames \in Nat \ {0}
    BY ProgrammesAssumption DEF Parts
  <2>2. ASSUME NEW k \in 1 .. Len(Parts) PROVE Parts[k] \in Range(Parts)
    BY <2>1
  <2> QED BY <2>1, <2>2 DEF Lengths
<1>2. Len(Parts) \in Nat
  BY <1>1 DEF Lengths
<1>3. TotalFrames \in Nat
  <2>1. Len(Parts) \in 0 .. Len(Parts)
    BY <1>2
  <2> QED BY <1>1, <2>1, FramesSum DEF TotalFrames
<1>4. \A k : PartOf(k) = PartWith(Parts, k)
  BY DEF PartOf, PartWith
<1> QED BY <1>1, <1>2, <1>3, <1>4

LEMMA InitKept == Init => RecordingInvariant
<1> SUFFICES ASSUME Init PROVE RecordingInvariant
  OBVIOUS
<1>1. TotalFrames \in Nat
  BY ProgrammeIs DEF Init
<1>2. RecordingTypes
  BY <1>1 DEF Init, RecordingTypes, StereoSamplesPerF1Frame
<1>3. LayoutKept /\ IndexClosed /\ SizesFit /\ SynthesisInStep
  BY DEF Init, LayoutKept, IndexClosed, SizesFit, SynthesisInStep
<1>4. SamplesSent
  <2>1. SamplesBefore(programme.standard, 0) = 0
    BY NoSamples
  <2> QED BY <2>1, SMT DEF Init, SamplesSent, StereoSamplesPerF1Frame
<1> QED BY <1>2, <1>3, <1>4 DEF RecordingInvariant

(* What a step that leaves the programme leaves alone of the invariant.    *)
LEMMA SameProgramme ==
  ASSUME programme' = programme
  PROVE  /\ Parts' = Parts /\ TotalFrames' = TotalFrames
         /\ (PartOf(frame - 1))' = PartOf(frame' - 1)
         /\ (WavSamplesBefore(frame))' = WavSamplesBefore(frame')
         /\ (WavSamplesBefore(FramesBefore(Parts, PartOf(frame - 1) - 1)))'
              = WavSamplesBefore(FramesBefore(Parts, PartOf(frame' - 1) - 1))
<1>1. Parts' = Parts
  BY DEF Parts
<1>2. TotalFrames' = TotalFrames
  BY <1>1 DEF TotalFrames
<1>3. (PartOf(frame - 1))' = PartOf(frame' - 1)
  BY <1>1 DEF PartOf
<1>4. (WavSamplesBefore(frame))' = WavSamplesBefore(frame')
  BY SMT DEF WavSamplesBefore
<1>5. (WavSamplesBefore(FramesBefore(Parts, PartOf(frame - 1) - 1)))'
        = WavSamplesBefore(FramesBefore(Parts, PartOf(frame' - 1) - 1))
  BY <1>1, <1>3, SMT DEF WavSamplesBefore
<1> QED BY <1>1, <1>2, <1>3, <1>4, <1>5

LEMMA SynthesisKept ==
  ASSUME SynthesisInStep, UNCHANGED <<programme, frame, synthesis>>
  PROVE  SynthesisInStep'
<1>1. PICK b : b = FramesBefore(Parts, PartOf(frame - 1) - 1)
  OBVIOUS
<1>2. (FramesBefore(Parts, PartOf(frame - 1) - 1))' = b
  BY <1>1, SameProgramme
<1>3. (WavSamplesBefore(frame))' = WavSamplesBefore(frame)
      /\ (WavSamplesBefore(FramesBefore(Parts, PartOf(frame - 1) - 1)))'
           = WavSamplesBefore(b)
  BY <1>1, SameProgramme
<1> QED BY <1>1, <1>2, <1>3 DEF SynthesisInStep, SamplesSynthesised

LEMMA BeginKeeps ==
  ASSUME RecordingInvariant, Begin
  PROVE  RecordingInvariant'
<1>1. /\ programme' = programme /\ frame' = frame /\ wav' = wav /\ pending' = pending
      /\ channel_frames' = channel_frames /\ efm' = efm /\ synthesis' = synthesis
      /\ session = "begin"
  BY DEF Begin, audio_vars
<1>2. Parts' = Parts /\ TotalFrames' = TotalFrames
  BY <1>1, SameProgramme
<1>3. PICK built : built = BuildEfmTrackLayout(programme.standard, Parts)
  OBVIOUS
<1>4. /\ layout' = built
      /\ session' = IF ~built.ok THEN "failed"
                    ELSE IF ~Accepts(built.entries) THEN "refused" ELSE "open"
  BY <1>3 DEF Begin
<1>5. built.ok => Accepts(built.entries)
  <2>1. Lengths(Parts)
    BY ProgrammeIs DEF RecordingInvariant, RecordingTypes
  <2> QED BY <1>3, <2>1, TableIsTimeline, TimelineAccepted
<1>6. session' = "failed" \/ (session' = "open" /\ built.ok)
  BY <1>4, <1>5
<1>7. RecordingTypes'
  BY <1>1, <1>2, <1>6 DEF RecordingInvariant, RecordingTypes
<1>8. LayoutKept'
  BY <1>1, <1>2, <1>3, <1>4, <1>6 DEF LayoutKept
<1>9. IndexClosed' /\ SizesFit'
  BY <1>1, <1>6 DEF RecordingInvariant, IndexClosed, SizesFit
<1>10. SamplesSent'
  <2>1. (SamplesBefore(programme.standard, frame))'
           = SamplesBefore(programme.standard, frame)
    BY <1>1
  <2> QED BY <1>1, <1>6, <2>1 DEF RecordingInvariant, SamplesSent
<1>11. SynthesisInStep'
  BY <1>1, SynthesisKept DEF RecordingInvariant
<1> QED BY <1>7, <1>8, <1>9, <1>10, <1>11 DEF RecordingInvariant

LEMMA BySixes ==
  ASSUME NEW n \in Nat
  PROVE  n \div 6 \in Nat /\ n % 6 \in 0 .. 5 /\ 6 * (n \div 6) + (n % 6) = n
OBVIOUS

(* A recorded frame goes on from the frame before it, or starts its section. *)
LEMMA FrameSynthesised ==
  ASSUME RecordingTypes, SynthesisInStep, frame < TotalFrames,
         programme' = programme, frame' = frame + 1,
         synthesis' = Synthesised(
           AudioSamplesForFrame(programme.standard, frame),
           EfmAudioSamplesForFrame(programme.standard, frame))
  PROVE  SynthesisInStep' /\ synthesis' \in [wav : Nat, efm : Nat]
<1>1. /\ Lengths(Parts) /\ Len(Parts) \in Nat /\ TotalFrames \in Nat
      /\ \A k : PartOf(k) = PartWith(Parts, k)
  BY ProgrammeIs DEF RecordingTypes
<1>2. frame \in Nat /\ frame < FramesBefore(Parts, Len(Parts))
  BY <1>1 DEF RecordingTypes, TotalFrames
<1>3. PICK j : j = PartOf(frame)
  OBVIOUS
<1>4. /\ j \in 1 .. Len(Parts) /\ FramesBefore(Parts, j - 1) <= frame
      /\ frame < FramesBefore(Parts, j)
  BY <1>1, <1>2, <1>3, PartIs
<1>5. PICK b, w, e : /\ b = FramesBefore(Parts, j - 1)
                     /\ w = AudioSamplesForFrame(programme.standard, frame)
                     /\ e = EfmAudioSamplesForFrame(programme.standard, frame)
  OBVIOUS
<1>6. b \in Nat /\ b <= frame
  <2>1. j - 1 \in 0 .. Len(Parts)
    BY <1>1, <1>4
  <2> QED BY <1>1, <1>4, <1>5, <2>1, FramesSum
<1>7. synthesis' = IF frame - b = 0 THEN [wav |-> w, efm |-> e]
                   ELSE [wav |-> synthesis.wav + w, efm |-> synthesis.efm + e]
  BY <1>3, <1>5 DEF Synthesised, FrameInSection
<1>8. /\ w \in Nat /\ e \in Nat
      /\ WavSamplesBefore(frame) \in Nat /\ WavSamplesBefore(b) \in Nat
      /\ WavSamplesBefore(frame + 1) = WavSamplesBefore(frame) + w
      /\ SamplesBefore(programme.standard, frame) \in Nat
      /\ SamplesBefore(programme.standard, b) \in Nat
      /\ SamplesBefore(programme.standard, frame + 1)
           = SamplesBefore(programme.standard, frame) + e
  BY <1>2, <1>5, <1>6, WavSamplesOfFrame, SamplesOfFrame
<1>9. synthesis' = SamplesSynthesised(b, frame + 1)
  <2>1. CASE frame = b
    BY <1>2, <1>7, <1>8, <2>1 DEF SamplesSynthesised
  <2>2. CASE frame # b
    <3>1. frame > 0 /\ frame - 1 \in Nat /\ b <= frame - 1
          /\ frame - 1 < FramesBefore(Parts, j)
      <4>1. j \in 0 .. Len(Parts)
        BY <1>1, <1>4
      <4>2. FramesBefore(Parts, j) \in Nat
        BY <1>1, <4>1, FramesSum
      <4> QED BY <1>2, <1>4, <1>6, <2>2, <4>2
    <3>2. PartOf(frame - 1) = j
      BY <1>1, <1>4, <1>5, <3>1, PartIsOnly
    <3>3. synthesis = SamplesSynthesised(b, frame)
      BY <1>5, <3>1, <3>2 DEF SynthesisInStep
    <3>4. synthesis.wav = WavSamplesBefore(frame) - WavSamplesBefore(b)
          /\ synthesis.efm = SamplesBefore(programme.standard, frame)
                               - SamplesBefore(programme.standard, b)
      BY <3>3 DEF SamplesSynthesised
    <3>5. synthesis' = [wav |-> synthesis.wav + w, efm |-> synthesis.efm + e]
      BY <1>2, <1>6, <1>7, <2>2
    <3> QED BY <1>8, <3>4, <3>5 DEF SamplesSynthesised
  <2> QED BY <2>1, <2>2
<1>10. frame' - 1 = frame /\ frame' > 0
  BY <1>2
<1>11. /\ Parts' = Parts /\ (PartOf(frame - 1))' = j
       /\ (WavSamplesBefore(frame))' = WavSamplesBefore(frame + 1)
       /\ (WavSamplesBefore(FramesBefore(Parts, PartOf(frame - 1) - 1)))'
            = WavSamplesBefore(b)
  BY <1>3, <1>5, <1>10, SameProgramme
<1>12. SynthesisInStep'
  BY <1>5, <1>9, <1>11 DEF SynthesisInStep, SamplesSynthesised
<1>13. synthesis' \in [wav : Nat, efm : Nat]
  <2>1. CASE frame - b = 0
    BY <1>7, <1>8, <2>1
  <2>2. CASE frame - b # 0
    <3>1. synthesis.wav \in Nat /\ synthesis.efm \in Nat
      BY DEF RecordingTypes
    <3>2. synthesis.wav + w \in Nat /\ synthesis.efm + e \in Nat
      BY <1>8, <3>1
    <3> QED BY <1>7, <2>2, <3>2
  <2> QED BY <2>1, <2>2
<1> QED BY <1>12, <1>13

LEMMA RecordFrameKeeps ==
  ASSUME RecordingInvariant, RecordFrame
  PROVE  RecordingInvariant'
<1>1. /\ session = "open" /\ frame < TotalFrames
      /\ programme' = programme /\ layout' = layout
  BY DEF RecordFrame
<1>2. PICK w, e : /\ w = AudioSamplesForFrame(programme.standard, frame)
                  /\ e = EfmAudioSamplesForFrame(programme.standard, frame)
  OBVIOUS
<1>3. Parts' = Parts /\ TotalFrames' = TotalFrames /\ TotalFrames \in Nat
  BY <1>1, SameProgramme, ProgrammeIs DEF RecordingInvariant, RecordingTypes
<1>4. CASE ExceedsRiff(FrameBytes(w))
  <2>1. /\ session' = "failed" /\ frame' = frame /\ wav' = wav /\ pending' = pending
        /\ channel_frames' = channel_frames /\ efm' = efm /\ synthesis' = synthesis
    BY <1>2, <1>4 DEF RecordFrame, audio_vars
  <2>2. RecordingTypes'
    BY <1>1, <1>3, <2>1 DEF RecordingInvariant, RecordingTypes
  <2>3. LayoutKept' /\ IndexClosed' /\ SizesFit' /\ SamplesSent'
    BY <2>1 DEF RecordingInvariant, LayoutKept, IndexClosed, SizesFit, SamplesSent
  <2>4. SynthesisInStep'
    BY <1>1, <2>1, SynthesisKept DEF RecordingInvariant
  <2> QED BY <2>2, <2>3, <2>4 DEF RecordingInvariant
<1>5. CASE ~ExceedsRiff(FrameBytes(w))
  <2>1. /\ session' = session /\ frame' = frame + 1
        /\ wav' = [wav EXCEPT !.bytes = @ + FrameBytes(w)]
        /\ PushSamples(e) /\ synthesis' = Synthesised(w, e)
    BY <1>2, <1>5 DEF RecordFrame
  <2>2. PICK sent, rest : sent = (pending + e) \div 6 /\ rest = (pending + e) % 6
    OBVIOUS
  <2>3. /\ pending' = rest /\ channel_frames' = channel_frames + sent
        /\ efm' = [values |-> efm.values + sent, rows |-> efm.rows + 1,
                   last |-> [offset |-> efm.values, count |-> sent]]
    BY <2>1, <2>2 DEF PushSamples, StereoSamplesPerF1Frame
  <2>4. /\ frame \in Nat /\ pending \in 0 .. 5 /\ channel_frames \in Nat
        /\ wav \in [bytes : Nat, riff_size : Nat, data_size : Nat]
        /\ efm.values \in Nat /\ efm.rows \in Nat
        /\ RiffLimit \in Nat
    BY <1>3, RiffAssumption
      DEF RecordingInvariant, RecordingTypes, StereoSamplesPerF1Frame
  <2>5. /\ w \in Nat /\ e \in Nat /\ SamplesBefore(programme.standard, frame) \in Nat
        /\ SamplesBefore(programme.standard, frame + 1)
             = SamplesBefore(programme.standard, frame) + e
    BY <1>2, <2>4, WavSamplesOfFrame, SamplesOfFrame
  <2>6. sent \in Nat /\ rest \in 0 .. 5 /\ 6 * sent + rest = pending + e
    BY <2>2, <2>4, <2>5, BySixes
  <2>7. PICK bytes : bytes = FrameBytes(w)
    OBVIOUS
  <2>8. bytes \in Nat
    BY <2>5, <2>7 DEF FrameBytes
  <2>9. /\ wav' \in [bytes : Nat, riff_size : Nat, data_size : Nat]
        /\ wav'.bytes = wav.bytes + bytes
        /\ wav'.bytes + (KHeaderBytes - 8) <= RiffLimit
    <3>1. wav.bytes \in Nat
      BY <2>4
    <3>2. wav' = [wav EXCEPT !.bytes = wav.bytes + bytes]
      BY <2>1, <2>4, <2>7
    <3>3. ~(wav.bytes + bytes + (KHeaderBytes - 8) > RiffLimit)
      BY <1>5, <2>7 DEF ExceedsRiff
    <3> QED BY <2>4, <2>8, <3>1, <3>2, <3>3 DEF KHeaderBytes
  <2>10. SynthesisInStep' /\ synthesis' \in [wav : Nat, efm : Nat]
    BY <1>1, <1>2, <2>1, FrameSynthesised DEF RecordingInvariant
  <2>11. RecordingTypes'
    <3>1. frame' \in 0 .. TotalFrames' /\ pending' \in 0 .. 5 /\ channel_frames' \in Nat
      BY <1>1, <1>3, <2>1, <2>3, <2>4, <2>6
    <3>2. efm' \in [values : Nat, rows : Nat, last : [offset : Nat, count : Nat]]
      BY <2>3, <2>4, <2>6
    <3>3. programme' \in Programmes /\ session' = "open"
      BY <1>1, <2>1 DEF RecordingInvariant, RecordingTypes
    <3> QED BY <2>9, <2>10, <3>1, <3>2, <3>3
          DEF RecordingTypes, StereoSamplesPerF1Frame
  <2>12. LayoutKept'
    BY <1>1, <1>3, <2>1 DEF RecordingInvariant, LayoutKept
  <2>13. IndexClosed'
    <3>1. efm.rows = frame /\ efm.values = channel_frames
      BY DEF RecordingInvariant, IndexClosed
    <3> QED BY <2>1, <2>3, <2>4, <2>6, <3>1 DEF IndexClosed
  <2>14. SizesFit'
    BY <1>1, <2>1, <2>9 DEF SizesFit
  <2>15. SamplesSent'
    <3>1. 6 * channel_frames + pending = SamplesBefore(programme.standard, frame)
      BY <1>1 DEF RecordingInvariant, SamplesSent, StereoSamplesPerF1Frame
    <3>2. (SamplesBefore(programme.standard, frame))'
            = SamplesBefore(programme.standard, frame + 1)
      BY <1>1, <2>1
    <3>3. PICK s : s = SamplesBefore(programme.standard, frame)
      OBVIOUS
    <3>4. 6 * channel_frames' + pending' = s + e
      BY <2>3, <2>4, <2>5, <2>6, <3>1, <3>3
    <3> QED BY <1>1, <2>1, <2>5, <3>2, <3>3, <3>4
          DEF SamplesSent, StereoSamplesPerF1Frame
  <2> QED BY <2>10, <2>11, <2>12, <2>13, <2>14, <2>15 DEF RecordingInvariant
<1> QED BY <1>4, <1>5

LEMMA SmallModulus ==
  ASSUME NEW a \in Nat, NEW b \in Nat, a < b
  PROVE  a % b = a
<1>1. PICK q, r : q = a \div b /\ r = a % b
  OBVIOUS
<1>2. q \in Int /\ r \in 0 .. b - 1 /\ a = b * q + r
  BY <1>1
<1>3. ASSUME q >= 1 PROVE b * q >= b
  BY <1>2, <1>3
<1>4. ASSUME q <= -1 PROVE b * q <= -b
  BY <1>2, <1>4
<1>5. q = 0
  BY <1>2, <1>3, <1>4
<1> QED BY <1>1, <1>2, <1>5

LEMMA FinalizeKeeps ==
  ASSUME RecordingInvariant, Finalize
  PROVE  RecordingInvariant'
<1>1. /\ session = "open" /\ frame = TotalFrames /\ session' = "done"
      /\ pending' = 0 /\ channel_frames' = channel_frames + FlushedFrames
      /\ programme' = programme /\ layout' = layout /\ frame' = frame
      /\ synthesis' = synthesis
  BY DEF Finalize
<1>2. Parts' = Parts /\ TotalFrames' = TotalFrames
  BY <1>1, SameProgramme
<1>3. PICK flushed : flushed = FlushedFrames
  OBVIOUS
<1>4. /\ frame \in Nat /\ pending \in 0 .. 5 /\ channel_frames \in Nat
      /\ wav \in [bytes : Nat, riff_size : Nat, data_size : Nat]
      /\ efm \in [values : Nat, rows : Nat, last : [offset : Nat, count : Nat]]
      /\ RiffLimit \in Nat /\ TotalFrames \in Nat
  BY RiffAssumption, ProgrammeIs
    DEF RecordingInvariant, RecordingTypes, StereoSamplesPerF1Frame
<1>5. /\ flushed \in Nat /\ flushed = (IF pending > 0 THEN 1 ELSE 0) + CircDrainFrames
  BY <1>3, <1>4 DEF FlushedFrames, CircDrainFrames
<1>6. /\ efm' = [efm EXCEPT !.values = efm.values + flushed,
                            !.last = [efm.last EXCEPT !.count = efm.last.count + flushed]]
      /\ efm'.values = efm.values + flushed /\ efm'.rows = efm.rows
      /\ efm'.last.offset = efm.last.offset
      /\ efm'.last.count = efm.last.count + flushed
  BY <1>3, <1>4 DEF Finalize, ExtendedRow
<1>7. frame > 0
  <2>1. Lengths(Parts) /\ Len(Parts) \in Nat
    BY ProgrammeIs DEF RecordingInvariant, RecordingTypes
  <2>2. layout.ok /\ layout = BuildEfmTrackLayout(programme.standard, Parts)
    BY <1>1 DEF RecordingInvariant, LayoutKept
  <2>3. Len(Parts) > 0
    BY <2>1, <2>2, TableIsTimeline
  <2>4. FramesBefore(Parts, 0) < FramesBefore(Parts, Len(Parts))
    <3>1. 0 \in 0 .. Len(Parts) /\ Len(Parts) \in 0 .. Len(Parts)
      BY <2>1
    <3> QED BY <2>1, <2>3, <3>1, FramesGrow
  <2> QED BY <1>1, <1>4, <2>1, <2>4, FramesSum DEF TotalFrames
<1>8. /\ wav' \in [bytes : Nat, riff_size : Nat, data_size : Nat]
      /\ wav'.bytes = wav.bytes /\ wav'.data_size = wav.bytes
      /\ wav'.riff_size = wav.bytes + KHeaderBytes - 8
      /\ wav'.bytes + (KHeaderBytes - 8) <= RiffLimit
  <2>1. wav.bytes \in Nat /\ wav.bytes + (KHeaderBytes - 8) <= RiffLimit
    BY <1>4, <1>7 DEF RecordingInvariant, SizesFit
  <2>2. /\ (KHeaderBytes - 8 + wav.bytes) % (RiffLimit + 1) = wav.bytes + KHeaderBytes - 8
        /\ wav.bytes % (RiffLimit + 1) = wav.bytes
        /\ wav.bytes + KHeaderBytes - 8 \in Nat
    <3>1. \A a, b \in Nat : a < b => a % b = a
      BY SmallModulus
    <3> QED BY <1>4, <2>1, <3>1 DEF KHeaderBytes
  <2>3. wav' = [wav EXCEPT !.riff_size = wav.bytes + KHeaderBytes - 8,
                           !.data_size = wav.bytes]
    BY <2>2 DEF Finalize
  <2> QED BY <1>4, <2>1, <2>2, <2>3
<1>9. RecordingTypes'
  <2>1. efm' \in [values : Nat, rows : Nat, last : [offset : Nat, count : Nat]]
    <3>1. efm.last \in [offset : Nat, count : Nat] /\ efm.values + flushed \in Nat
      BY <1>4, <1>5
    <3>2. PICK last : last = [efm.last EXCEPT !.count = efm.last.count + flushed]
      OBVIOUS
    <3>3. last \in [offset : Nat, count : Nat]
      BY <1>5, <3>1, <3>2
    <3>4. efm' = [efm EXCEPT !.values = efm.values + flushed, !.last = last]
      BY <1>6, <3>2
    <3> QED BY <1>4, <3>1, <3>3, <3>4
  <2>2. /\ frame' \in 0 .. TotalFrames' /\ pending' \in 0 .. 5
        /\ channel_frames' \in Nat
    BY <1>1, <1>2, <1>3, <1>4, <1>5
  <2>3. programme' \in Programmes /\ synthesis' \in [wav : Nat, efm : Nat]
    BY <1>1 DEF RecordingInvariant, RecordingTypes
  <2> QED BY <1>1, <1>8, <2>1, <2>2, <2>3 DEF RecordingTypes, StereoSamplesPerF1Frame
<1>10. LayoutKept'
  BY <1>1, <1>2 DEF RecordingInvariant, LayoutKept
<1>11. IndexClosed'
  <2>1. /\ efm.last.offset + efm.last.count = efm.values /\ efm.rows = frame
        /\ efm.values = channel_frames
    BY DEF RecordingInvariant, IndexClosed
  <2>2. efm.last.offset \in Nat /\ efm.last.count \in Nat
    BY <1>4
  <2> QED BY <1>1, <1>3, <1>4, <1>5, <1>6, <2>1, <2>2 DEF IndexClosed
<1>12. SizesFit'
  BY <1>8 DEF SizesFit
<1>13. SamplesSent'
  <2>1. 6 * channel_frames + pending = SamplesBefore(programme.standard, frame)
    BY <1>1 DEF RecordingInvariant, SamplesSent, StereoSamplesPerF1Frame
  <2>2. (SamplesBefore(programme.standard, TotalFrames))'
          = SamplesBefore(programme.standard, frame)
    BY <1>1, <1>2
  <2>3. PICK s : s = SamplesBefore(programme.standard, frame)
    OBVIOUS
  <2>4. s <= 6 * (channel_frames' - CircDrainFrames)
    BY <1>1, <1>3, <1>4, <1>5, <2>1, <2>3 DEF CircDrainFrames
  <2> QED BY <1>1, <2>2, <2>3, <2>4 DEF SamplesSent, StereoSamplesPerF1Frame
<1>14. SynthesisInStep'
  BY <1>1, SynthesisKept DEF RecordingInvariant
<1> QED BY <1>9, <1>10, <1>11, <1>12, <1>13, <1>14 DEF RecordingInvariant

LEMMA StutterKeeps ==
  ASSUME RecordingInvariant, UNCHANGED vars
  PROVE  RecordingInvariant'
<1>1. /\ programme' = programme /\ session' = session /\ layout' = layout
      /\ frame' = frame /\ wav' = wav /\ pending' = pending
      /\ channel_frames' = channel_frames /\ efm' = efm /\ synthesis' = synthesis
  BY DEF vars
<1>2. Parts' = Parts /\ TotalFrames' = TotalFrames
  BY <1>1, SameProgramme
<1>3. SynthesisInStep'
  BY <1>1, SynthesisKept DEF RecordingInvariant
<1> QED BY <1>1, <1>2, <1>3 DEF RecordingInvariant, RecordingTypes, LayoutKept,
          IndexClosed, SizesFit, SamplesSent

(* The recording keeps its invariant: the layout of an open session is one *)
(* the encoder accepts, the files and their index grow together, no sample *)
(* is lost between synthesis and encoder (AudioTrackGenerator::Begin,      *)
(* AppendFrameAudio, AppendFrameEfm and Finalize).                         *)
THEOREM RecordingCorrect == Spec => []RecordingInvariant
<1>1. RecordingInvariant /\ [Next]_vars => RecordingInvariant'
  BY BeginKeeps, RecordFrameKeeps, FinalizeKeeps, StutterKeeps DEF Next
<1> QED BY InitKept, <1>1, PTL DEF Spec

(* Every table of tracks that BuildEfmTrackLayout builds passes the checks *)
(* of SubcodeGenerator::Begin: a session is never refused by the encoder.  *)
THEOREM TablesAreAccepted == Spec => [](session # "refused")
<1>1. RecordingInvariant => session # "refused"
  BY DEF RecordingInvariant, RecordingTypes
<1> QED BY <1>1, RecordingCorrect, PTL

(* The index of the EFM file always ends where the file ends, with a row   *)
(* for every frame, and the sizes in the header of a finished WAV file are *)
(* those of the file (AudioEfmWriter and AudioWavWriter::Finalize).        *)
THEOREM FilesAreDescribed == Spec => []FilesDescribeThemselves
<1>1. RecordingInvariant => FilesDescribeThemselves
  BY DEF RecordingInvariant, IndexClosed, SizesFit, FilesDescribeThemselves
<1> QED BY <1>1, RecordingCorrect, PTL

(* At the end of a section both synthesisers have made the samples that    *)
(* its sweeps are scaled to (AudioTrackGenerator::BeginRun).               *)
THEOREM SweepsEnd == Spec => []SweepsEndWithTheSection
<1>1. ASSUME RecordingInvariant PROVE SweepsEndWithTheSection
  <2>1. SUFFICES ASSUME NEW j \in DOMAIN Parts, session \in {"open", "done"},
                        frame = FramesBefore(Parts, j)
                 PROVE  synthesis = SamplesSynthesised(FramesBefore(Parts, j - 1), frame)
    BY DEF SweepsEndWithTheSection, SamplesSynthesised
  <2>2. /\ Lengths(Parts) /\ Len(Parts) \in Nat
        /\ \A k : PartOf(k) = PartWith(Parts, k)
    BY <1>1, ProgrammeIs DEF RecordingInvariant, RecordingTypes
  <2>3. j \in 1 .. Len(Parts) /\ j - 1 \in 0 .. Len(Parts) /\ j \in 0 .. Len(Parts)
    BY <2>2 DEF Lengths
  <2>4. /\ FramesBefore(Parts, j - 1) \in Nat /\ frame \in Nat
        /\ FramesBefore(Parts, j - 1) < frame
    BY <2>1, <2>2, <2>3, FramesSum, FramesGrow
  <2>5. frame > 0 /\ frame - 1 \in Nat /\ FramesBefore(Parts, j - 1) <= frame - 1
        /\ frame - 1 < FramesBefore(Parts, j)
    BY <2>1, <2>4
  <2>6. PartOf(frame - 1) = j
    BY <2>2, <2>3, <2>5, PartIsOnly
  <2> QED BY <1>1, <2>5, <2>6 DEF RecordingInvariant, SynthesisInStep
<1> QED BY <1>1, RecordingCorrect, PTL

-------------------------------------------------------------------------------
(* The interleave of the audio.                                            *)
LEMMA DelaysOfSymbols ==
  /\ \A i \in Symbols : SymbolDelay(i) \in 0 .. 108
  /\ SymbolDelay(0) = 3
<1> DEFINE among(words, symbol) ==
             2 * (CHOOSE i \in DOMAIN words : words[i] = symbol \div 2) - 2 + (symbol % 2)
<1>1. \A symbol \in Symbols : symbol \div 2 \in 0 .. 11 /\ symbol % 2 \in 0 .. 1
  BY DEF Symbols
<1>2. \A w : Contains(DelayedGroupWords, w) <=> w \in {0, 4, 8, 1, 5, 9}
  BY DEF Contains, DelayedGroupWords
<1>3. \A w \in {0, 4, 8, 1, 5, 9} :
        (CHOOSE i \in DOMAIN DelayedGroupWords : DelayedGroupWords[i] = w) \in 1 .. 6
  BY DEF DelayedGroupWords
<1>4. \A w \in {2, 6, 10, 3, 7, 11} :
        (CHOOSE i \in DOMAIN CurrentGroupWords : CurrentGroupWords[i] = w) \in 1 .. 6
  BY DEF CurrentGroupWords
<1>5. ASSUME NEW symbol \in Symbols PROVE SymbolDelay(symbol) \in 0 .. 108
  <2>1. PICK w, b, p : w = symbol \div 2 /\ b = symbol % 2 /\ p = PlaceOf(symbol)
    OBVIOUS
  <2>2. w \in 0 .. 11 /\ b \in 0 .. 1
    BY <1>1, <2>1
  <2>3. CASE w \in {0, 4, 8, 1, 5, 9}
    <3>1. Delayed(symbol)
      BY <1>2, <2>1, <2>3 DEF Delayed
    <3>2. PICK at : at = CHOOSE i \in DOMAIN DelayedGroupWords : DelayedGroupWords[i] = w
      OBVIOUS
    <3>3. at \in 1 .. 6
      BY <1>3, <2>3, <3>2
    <3>4. p = 2 * at - 2 + b
      <4>1. p = 0 + (2 * at - 2 + b)
        BY <2>1, <3>1, <3>2 DEF PlaceOf, DelayedGroupStart
      <4> QED BY <2>2, <3>3, <4>1
    <3>5. SymbolDelay(symbol) = 2 + 4 * p + (IF p % 2 = 0 THEN 1 ELSE 0)
      BY <2>1, <3>1 DEF SymbolDelay, FirstDelayFrames, SecondDelayUnitFrames
    <3> QED BY <2>2, <3>3, <3>4, <3>5
  <2>4. CASE w \notin {0, 4, 8, 1, 5, 9}
    <3>1. ~Delayed(symbol) /\ w \in {2, 6, 10, 3, 7, 11}
      BY <1>2, <2>1, <2>2, <2>4 DEF Delayed
    <3>2. PICK at : at = CHOOSE i \in DOMAIN CurrentGroupWords : CurrentGroupWords[i] = w
      OBVIOUS
    <3>3. at \in 1 .. 6
      BY <1>4, <3>1, <3>2
    <3>4. p = 16 + (2 * at - 2 + b)
      BY <2>1, <3>1, <3>2 DEF PlaceOf, CurrentGroupStart
    <3>5. SymbolDelay(symbol) = 4 * p + (IF p % 2 = 0 THEN 1 ELSE 0)
      <4>1. SymbolDelay(symbol) = 0 + 4 * p + (IF p % 2 = 0 THEN 1 ELSE 0)
        BY <2>1, <3>1 DEF SymbolDelay, SecondDelayUnitFrames
      <4> QED BY <2>2, <3>3, <3>4, <4>1
    <3>6. p \in 16 .. 27 /\ (p = 27 => p % 2 = 1)
      BY <2>2, <3>3, <3>4
    <3> QED BY <3>5, <3>6
  <2> QED BY <2>3, <2>4
<1>6. SymbolDelay(0) = 3
  <2>1. 0 \div 2 = 0 /\ 0 % 2 = 0
    OBVIOUS
  <2>2. Delayed(0)
    BY <1>2, <2>1 DEF Delayed
  <2>3. (CHOOSE i \in DOMAIN DelayedGroupWords : DelayedGroupWords[i] = 0) = 1
    <3>1. DOMAIN DelayedGroupWords = 1 .. 6
      BY DEF DelayedGroupWords
    <3>2. \A i \in 1 .. 6 : DelayedGroupWords[i] = 0 <=> i = 1
      BY DEF DelayedGroupWords
    <3> QED BY <3>1, <3>2
  <2>4. PlaceOf(0) = 0
    <3>1. PICK at : at = CHOOSE i \in DOMAIN DelayedGroupWords :
                         DelayedGroupWords[i] = 0 \div 2
      OBVIOUS
    <3>2. at = 1
      BY <2>1, <2>3, <3>1
    <3>3. PlaceOf(0) = 0 + (2 * at - 2 + (0 % 2))
      BY <2>2, <3>1 DEF PlaceOf, DelayedGroupStart
    <3> QED BY <2>1, <3>2, <3>3
  <2> QED BY <2>1, <2>2, <2>4
        DEF SymbolDelay, FirstDelayFrames, SecondDelayUnitFrames
<1> QED BY <1>5, <1>6

LEMMA MaxIs ==
  ASSUME NEW n \in Nat, NEW S \in SUBSET (0 .. n), S # {}
  PROVE  Max(S) \in S /\ \A s \in S : s <= Max(S)
<1>1. PICK T : T = {n - s : s \in S}
  OBVIOUS
<1>2. T \in SUBSET Nat /\ T # {}
  <2>1. \A s \in S : n - s \in Nat
    OBVIOUS
  <2>2. PICK s : s \in S
    OBVIOUS
  <2>3. n - s \in T
    BY <1>1, <2>2
  <2> QED BY <1>1, <2>1, <2>3
<1>3. PICK m \in T : \A r \in T : m <= r
  BY <1>2, SmallestOf
<1>4. PICK x \in S : m = n - x
  BY <1>1, <1>3
<1>5. \A s \in S : x >= s
  <2> TAKE s \in S
  <2>1. n - s \in T
    BY <1>1
  <2>2. m <= n - s
    BY <1>3, <2>1
  <2> QED BY <1>4, <2>2
<1>6. \E y \in S : \A s \in S : y >= s
  BY <1>5
<1>7. Max(S) \in S /\ \A s \in S : Max(S) >= s
  BY <1>6 DEF Max
<1> QED BY <1>7

(* The EFM file ends after the last sample of the programme has left the   *)
(* interleave and a decoder that mirrors it (EfmStreamEncoder::Flush).     *)
THEOREM AudioIsComplete == Spec => []AudioReachesTheFile
<1>1. ASSUME RecordingInvariant, session = "done" PROVE AudioReachesTheFile
  <2>1. PICK total : total = SamplesBefore(programme.standard, TotalFrames)
    OBVIOUS
  <2>2. total \in Nat /\ channel_frames \in Nat
    <3>1. TotalFrames \in Nat
      BY <1>1, ProgrammeIs DEF RecordingInvariant, RecordingTypes
    <3> QED BY <1>1, <2>1, <3>1, SamplesOfFrame DEF RecordingInvariant, RecordingTypes
  <2>3. total <= 6 * (channel_frames - 111)
    BY <1>1, <2>1 DEF RecordingInvariant, SamplesSent, StereoSamplesPerF1Frame,
                      CircDrainFrames
  <2>4. PICK last : last = (total - 1) \div 6
    OBVIOUS
  <2>5. last \in Int /\ last < channel_frames - 111
    BY <2>2, <2>3, <2>4
  <2>6. PICK delays : delays = {SymbolDelay(i) : i \in Symbols}
    OBVIOUS
  <2>7. 0 \in Symbols
    BY DEF Symbols
  <2>8. 3 \in delays /\ delays \in SUBSET (0 .. 108)
    BY <2>6, <2>7, DelaysOfSymbols
  <2>9. Max(delays) \in 0 .. 108
    <3>1. PICK n \in Nat : n = 108
      OBVIOUS
    <3>2. delays \in SUBSET (0 .. n) /\ delays # {}
      BY <2>8, <3>1
    <3>3. Max(delays) \in delays
      BY <3>2, MaxIs
    <3> QED BY <2>8, <3>3
  <2>10. Min(delays) \in Nat /\ Min(delays) <= 3
    <3>1. delays \in SUBSET Nat /\ delays # {}
      BY <2>8
    <3>2. Min(delays) \in delays /\ \A s \in delays : Min(delays) <= s
      BY <3>1, MinIs
    <3> QED BY <2>8, <3>1, <3>2
  <2>11. last + Max(delays) + Min(delays) < channel_frames
    BY <2>2, <2>5, <2>9, <2>10
  <2> QED BY <2>1, <2>4, <2>6, <2>11 DEF AudioReachesTheFile, StereoSamplesPerF1Frame
<1>2. RecordingInvariant => AudioReachesTheFile
  BY <1>1 DEF AudioReachesTheFile
<1> QED BY <1>2, RecordingCorrect, PTL

(* The audio is silent in exactly the sections whose subcode says pause    *)
(* (EfmTrackLayout::pause and SubcodeGenerator::BuildProgrammePayload).    *)
THEOREM PausesAreSilent == Spec => []PauseIsSilent
<1>1. ASSUME RecordingInvariant, NEW s \in SectionsOfFrame
      PROVE  /\ Muted(s * SamplesPerSubcodeSection) = InPause(s)
             /\ Muted((s + 1) * SamplesPerSubcodeSection - 1) = InPause(s)
  <2>1. session = "open" /\ frame # 0
    BY <1>1 DEF SectionsOfFrame
  <2>2. PICK t : t = Table
    OBVIOUS
  <2>3. Timeline(t) /\ layout.pause = FirstPause(t)
    <3>1. Lengths(Parts)
      BY <1>1, ProgrammeIs DEF RecordingInvariant, RecordingTypes
    <3>2. layout.ok /\ layout = BuildEfmTrackLayout(programme.standard, Parts)
      BY <1>1, <2>1 DEF RecordingInvariant, LayoutKept
    <3> QED BY <2>2, <3>1, <3>2, TableIsTimeline DEF Table
  <2>4. \A i \in 1 .. Len(t) : t[i].start \in Nat /\ t[i].count \in Nat \ {0}
    BY <2>3 DEF Timeline
  <2>5. End(Last(t)) \in Nat \ {0}
    <3>1. Len(t) \in 1 .. Len(t)
      BY <2>3 DEF Timeline
    <3> QED BY <2>4, <3>1 DEF End, Last
  <2>6. s \in Nat /\ s < End(Last(t))
    <3>1. frame \in Nat /\ frame - 1 \in Nat
      BY <1>1, <2>1, ProgrammeIs DEF RecordingInvariant, RecordingTypes
    <3>2. PICK a, b : /\ a = SamplesBefore(programme.standard, frame - 1)
                      /\ b = SamplesBefore(programme.standard, frame)
      OBVIOUS
    <3>3. a \in Nat /\ b \in Nat /\ a < b
      <4>1. frame - 1 < frame
        BY <3>1
      <4> QED BY <3>1, <3>2, <4>1, SamplesOfFrame, SamplesGrow
    <3>4. PICK S : S = {SectionOf(b - 1), End(Last(t)) - 1}
      OBVIOUS
    <3>5. SectionOf(a) \in Nat /\ SectionOf(b - 1) \in Nat
      BY <3>3 DEF SectionOf, SamplesPerSubcodeSection
    <3>6. s \in SectionOf(a) .. Min(S)
      BY <1>1, <2>1, <2>2, <3>2, <3>4 DEF SectionsOfFrame
    <3>7. Min(S) \in S /\ \A m \in S : Min(S) <= m
      <4>1. S \in SUBSET Nat /\ S # {}
        BY <2>5, <3>4, <3>5
      <4> QED BY <4>1, MinIs
    <3>8. Min(S) \in Nat /\ Min(S) <= End(Last(t)) - 1
      BY <2>5, <3>4, <3>5, <3>7
    <3> QED BY <2>5, <3>5, <3>6, <3>8
  <2>7. InPause(s) = PauseAt(t, s)
    BY <2>2 DEF InPause, PauseAt
  <2>8. PauseAt(t, s) <=> \E p \in FirstPause(t) : p.from <= s /\ s < p.to
    BY <2>3, <2>6, PausesAgree
  <2>9. \A p \in FirstPause(t) : p.from \in Nat /\ p.to \in Nat
    BY <2>4 DEF FirstPause, Earlier, TrackOnePauseSections
  <2>10. ASSUME NEW n \in Int, s * 588 <= n, n <= (s + 1) * 588 - 1
         PROVE  Muted(n) <=> \E p \in FirstPause(t) : p.from <= s /\ s < p.to
    <3>1. Muted(n) <=> \E p \in FirstPause(t) : n \in p.from * 588 .. p.to * 588 - 1
      BY <2>3 DEF Muted, SamplesPerSubcodeSection
    <3>2. \A p \in FirstPause(t) : n \in p.from * 588 .. p.to * 588 - 1
                                     <=> p.from <= s /\ s < p.to
      BY <2>6, <2>9, <2>10
    <3> QED BY <3>1, <3>2
  <2>11. /\ s * 588 \in Int /\ s * 588 <= (s + 1) * 588 - 1
         /\ (s + 1) * 588 - 1 \in Int
    BY <2>6
  <2>12. /\ Muted(s * 588) <=> InPause(s)
         /\ Muted((s + 1) * 588 - 1) <=> InPause(s)
    BY <2>7, <2>8, <2>10, <2>11
  <2>13. SamplesPerSubcodeSection = 588
    BY DEF SamplesPerSubcodeSection
  <2>14. /\ Muted(s * SamplesPerSubcodeSection) <=> InPause(s)
         /\ Muted((s + 1) * SamplesPerSubcodeSection - 1) <=> InPause(s)
    BY <2>12, <2>13
  <2>15. \A n : Muted(n) \in BOOLEAN /\ InPause(n) \in BOOLEAN
    BY DEF Muted, InPause
  <2> QED BY <2>14, <2>15, Zenon
<1>2. RecordingInvariant => PauseIsSilent
  BY <1>1 DEF PauseIsSilent
<1> QED BY <1>2, RecordingCorrect, PTL
===============================================================================
