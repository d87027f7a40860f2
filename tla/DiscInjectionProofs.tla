-------------------------- MODULE DiscInjectionProofs --------------------------
(***************************************************************************)
(* Theorems about DiscInjection, for every disc the validator accepts, of  *)
(* any sections, lengths and stated numbers, and any scale of the codes.   *)
(* The generators that live on over a section's end are, at every frame,   *)
(* what the project alone says of the frame: their anchor and the coded    *)
(* frames counted since.                                                   *)
(***************************************************************************)
EXTENDS DiscInjection, FiniteSetTheorems, WellFoundedInduction, TLAPS

-------------------------------------------------------------------------------
(* Induction over the naturals and recursion over the first of them.       *)
LEMMA SmallestOf ==
  ASSUME NEW S \in SUBSET Nat, S # {}
  PROVE  \E s \in S : \A r \in S : s <= r
<1>1. \E s \in S : \A r \in S : <<r, s>> \notin OpToRel(<, Nat)
  BY NatLessThanWellFounded, WFMin
<1>2. \A s, r \in Nat : <<r, s>> \notin OpToRel(<, Nat) => s <= r
  BY DEF OpToRel
<1> QED BY <1>1, <1>2

(* What holds at 0 and is handed on holds up to n.                         *)
LEMMA UpTo ==
  ASSUME NEW n \in Nat, NEW S \in SUBSET (0 .. n), 0 \in S,
         \A k \in 1 .. n : k - 1 \in S => k \in S
  PROVE  S = 0 .. n
<1>1. SUFFICES ASSUME (0 .. n) \ S # {} PROVE FALSE
  OBVIOUS
<1>2. PICK k \in (0 .. n) \ S : \A j \in (0 .. n) \ S : k <= j
  <2>1. (0 .. n) \ S \in SUBSET Nat
    OBVIOUS
  <2> QED BY <1>1, <2>1, SmallestOf
<1>3. k \in 1 .. n /\ k - 1 \in 0 .. n /\ ~(k <= k - 1)
  BY <1>2
<1> QED BY <1>2, <1>3

Goes(V, n, base, step) ==
  \E f \in [0 .. n -> V] :
    f[0] = base /\ \A k \in 1 .. n : f[k] = step[<<k, f[k - 1]>>]

(* A step from every value to the next one leads all the way.              *)
LEMMA StepsLead ==
  ASSUME NEW V, NEW n \in Nat, NEW base \in V,
         NEW step \in [(1 .. n) \X V -> V]
  PROVE  Goes(V, n, base, step)
<1> DEFINE Leads(m, f) ==
             f[0] = base /\ \A k \in 1 .. m : f[k] = step[<<k, f[k - 1]>>]
           S == {m \in 0 .. n : \E f \in [0 .. m -> V] : Leads(m, f)}
<1>1. 0 \in S
  <2> DEFINE f == [k \in 0 .. 0 |-> base]
  <2>1. f \in [0 .. 0 -> V] /\ Leads(0, f)
    OBVIOUS
  <2>2. 0 \in 0 .. n
    OBVIOUS
  <2> HIDE DEF f, Leads
  <2> QED BY <2>1, <2>2
<1>2. ASSUME NEW m \in 1 .. n, m - 1 \in S PROVE m \in S
  <2>1. PICK f \in [0 .. m - 1 -> V] : Leads(m - 1, f)
    BY <1>2
  <2> DEFINE g == [k \in 0 .. m |-> IF k = m THEN step[<<m, f[m - 1]>>] ELSE f[k]]
  <2>2. g \in [0 .. m -> V]
    <3>1. f[m - 1] \in V
      OBVIOUS
    <3>2. step[<<m, f[m - 1]>>] \in V
      BY <3>1
    <3> QED BY <3>2
  <2>3. g[0] = base
    BY <2>1
  <2>4. ASSUME NEW k \in 1 .. m PROVE g[k] = step[<<k, g[k - 1]>>]
    <3>1. g[k - 1] = f[k - 1]
      OBVIOUS
    <3>2. CASE k = m
      <4>1. g[k] = step[<<k, f[k - 1]>>]
        BY <3>2
      <4> HIDE DEF g
      <4> QED BY <3>1, <4>1
    <3>3. CASE k # m
      <4>1. k \in 1 .. m - 1 /\ g[k] = f[k]
        BY <3>3
      <4>2. f[k] = step[<<k, f[k - 1]>>]
        BY <2>1, <4>1
      <4> HIDE DEF g
      <4> QED BY <3>1, <4>1, <4>2
    <3> QED BY <3>2, <3>3
  <2>5. Leads(m, g)
    BY <2>3, <2>4
  <2> HIDE DEF g, Leads
  <2> QED BY <2>2, <2>5
<1>3. S = 0 .. n
  <2> HIDE DEF S
  <2>1. S \in SUBSET (0 .. n)
    BY DEF S
  <2> QED BY <1>1, <1>2, <2>1, UpTo
<1>4. n \in S
  <2> HIDE DEF S
  <2>1. n \in 0 .. n
    OBVIOUS
  <2> QED BY <1>3, <2>1
<1> HIDE DEF Leads
<1>5. \E f \in [0 .. n -> V] : Leads(n, f)
  BY <1>4
<1> QED BY <1>5 DEF Leads, Goes

-------------------------------------------------------------------------------
(* The frames of a disc.                                                   *)
LEMMA SectionsOfDisc ==
  ASSUME NEW p, IsDisc(p)
  PROVE  /\ Len(p.sections) \in Nat /\ DOMAIN p.sections = 1 .. Len(p.sections)
         /\ \A s \in 1 .. Len(p.sections) : p.sections[s].duration \in Nat \ {0}
BY DEF IsDisc

(* FramesBefore sums the lengths, whichever number of sections it is asked. *)
LEMMA FramesAdded ==
  ASSUME NEW p, IsDisc(p)
  PROVE  \E f \in [0 .. Len(p.sections) -> Nat] :
           /\ f[0] = 0
           /\ \A k \in 1 .. Len(p.sections) : f[k] = f[k - 1] + p.sections[k].duration
           /\ \A k \in 0 .. Len(p.sections) : FramesBefore(p, k) = f[k]
<1>1. PICK n : n = Len(p.sections)
  OBVIOUS
<1>2. n \in Nat
  BY <1>1, SectionsOfDisc
<1>3. PICK step : step = [a \in (1 .. n) \X Nat |-> a[2] + p.sections[a[1]].duration]
  OBVIOUS
<1>4. \A k \in 1 .. n, v \in Nat : step[<<k, v>>] = v + p.sections[k].duration
  BY <1>3
<1>5. step \in [(1 .. n) \X Nat -> Nat]
  BY <1>1, <1>3, SectionsOfDisc
<1>6. PICK f \in [0 .. n -> Nat] :
        f[0] = 0 /\ \A k \in 1 .. n : f[k] = step[<<k, f[k - 1]>>]
  <2>1. PICK V, base : V = Nat /\ base = 0
    OBVIOUS
  <2>2. base \in V
    BY <2>1
  <2>3. step \in [(1 .. n) \X V -> V]
    BY <1>5, <2>1
  <2>4. Goes(V, n, base, step)
    BY ONLY <1>2, <2>2, <2>3, StepsLead
  <2> QED BY <2>1, <2>4 DEF Goes
<1>7. ASSUME NEW k \in 1 .. n PROVE f[k] = f[k - 1] + p.sections[k].duration
  <2>1. f[k - 1] \in Nat
    BY <1>2
  <2> QED BY <1>4, <1>6, <2>1
<1>8. ASSUME NEW k \in 0 .. n PROVE FramesBefore(p, k) = f[k]
  <2> DEFINE g == CHOOSE g : g = [j \in 0 .. k |->
                    IF j = 0 THEN 0 ELSE g[j - 1] + p.sections[j].duration]
             h == [j \in 0 .. k |-> f[j]]
  <2>1. FramesBefore(p, k) = g[k]
    BY DEF FramesBefore
  <2>2. h = [j \in 0 .. k |-> IF j = 0 THEN 0 ELSE h[j - 1] + p.sections[j].duration]
    BY <1>2, <1>6, <1>7
  <2>3. g = [j \in 0 .. k |-> IF j = 0 THEN 0 ELSE g[j - 1] + p.sections[j].duration]
    <3> HIDE DEF h
    <3> QED BY <2>2
  <2> HIDE DEF g
  <2>4. PICK S : S = {j \in 0 .. k : g[j] = f[j]}
    OBVIOUS
  <2>5. 0 \in S
    BY <1>2, <1>6, <2>3, <2>4
  <2>6. ASSUME NEW j \in 1 .. k, j - 1 \in S PROVE j \in S
    BY <1>2, <1>7, <2>3, <2>4, <2>6
  <2>7. S = 0 .. k
    <3>1. k \in Nat /\ S \in SUBSET (0 .. k)
      BY <1>2, <2>4
    <3> QED BY <2>5, <2>6, <3>1, UpTo
  <2>8. k \in S
    BY <1>2, <2>7
  <2> QED BY <2>1, <2>4, <2>8
<1> QED BY <1>1, <1>6, <1>7, <1>8

LEMMA FramesSum ==
  ASSUME NEW p, IsDisc(p)
  PROVE  /\ FramesBefore(p, 0) = 0
         /\ \A k \in 0 .. Len(p.sections) : FramesBefore(p, k) \in Nat
         /\ \A k \in 1 .. Len(p.sections) :
              FramesBefore(p, k) = FramesBefore(p, k - 1) + p.sections[k].duration
<1>1. PICK f \in [0 .. Len(p.sections) -> Nat] :
        /\ f[0] = 0
        /\ \A k \in 1 .. Len(p.sections) : f[k] = f[k - 1] + p.sections[k].duration
        /\ \A k \in 0 .. Len(p.sections) : FramesBefore(p, k) = f[k]
  BY FramesAdded
<1>2. Len(p.sections) \in Nat
  BY SectionsOfDisc
<1>3. 0 \in 0 .. Len(p.sections)
  BY <1>2
<1>4. \A k \in 1 .. Len(p.sections) : k \in 0 .. Len(p.sections) /\ k - 1 \in 0 .. Len(p.sections)
  BY <1>2
<1> QED BY <1>1, <1>3, <1>4

(* No section is empty: a later one begins later.                          *)
LEMMA FramesGrow ==
  ASSUME NEW p, IsDisc(p), NEW j \in 0 .. Len(p.sections),
         NEW k \in 0 .. Len(p.sections), j < k
  PROVE  FramesBefore(p, j) < FramesBefore(p, k)
<1>1. PICK n : n = Len(p.sections)
  OBVIOUS
<1>2. n \in Nat /\ j \in 0 .. n /\ k \in 0 .. n
  BY <1>1, SectionsOfDisc
<1>3. PICK S : S = {m \in 0 .. n - j - 1 :
                      FramesBefore(p, j) < FramesBefore(p, j + 1 + m)}
  OBVIOUS
<1>4. ASSUME NEW m \in 1 .. n
      PROVE  /\ FramesBefore(p, m) \in Nat /\ FramesBefore(p, m - 1) \in Nat
             /\ FramesBefore(p, m - 1) < FramesBefore(p, m)
  <2>1. /\ p.sections[m].duration \in Nat \ {0}
        /\ FramesBefore(p, m) = FramesBefore(p, m - 1) + p.sections[m].duration
    BY <1>1, FramesSum, SectionsOfDisc
  <2>2. m - 1 \in 0 .. Len(p.sections) /\ m \in 0 .. Len(p.sections)
    BY <1>1, <1>2
  <2>3. FramesBefore(p, m) \in Nat /\ FramesBefore(p, m - 1) \in Nat
    BY <2>2, FramesSum
  <2> QED BY <2>1, <2>3
<1>5. 0 \in S
  <2>1. j + 1 \in 1 .. n /\ j + 1 - 1 = j /\ j + 1 + 0 = j + 1
    BY <1>2
  <2>2. FramesBefore(p, j) < FramesBefore(p, j + 1)
    BY <1>4, <2>1
  <2> QED BY <1>2, <1>3, <2>1, <2>2
<1>6. ASSUME NEW m \in 1 .. n - j - 1, m - 1 \in S PROVE m \in S
  <2>1. j + 1 + m \in 1 .. n /\ j + 1 + (m - 1) = j + 1 + m - 1 /\ j + 1 \in 1 .. n
    BY <1>2
  <2>2. FramesBefore(p, j) < FramesBefore(p, j + 1 + m - 1)
    BY <1>3, <1>6, <2>1
  <2>3. /\ FramesBefore(p, j + 1 + m) \in Nat
        /\ FramesBefore(p, j + 1 + m - 1) \in Nat
        /\ FramesBefore(p, j + 1 + m - 1) < FramesBefore(p, j + 1 + m)
    BY <1>4, <2>1
  <2>4. FramesBefore(p, j) \in Nat
    BY FramesSum
  <2>5. FramesBefore(p, j) < FramesBefore(p, j + 1 + m)
    BY <2>2, <2>3, <2>4
  <2> QED BY <1>2, <1>3, <2>5
<1>7. S = 0 .. n - j - 1
  <2>1. n - j - 1 \in Nat /\ S \in SUBSET (0 .. n - j - 1)
    BY <1>2, <1>3
  <2> QED BY <1>5, <1>6, <2>1, UpTo
<1>8. k - j - 1 \in S /\ j + 1 + (k - j - 1) = k
  BY <1>2, <1>7
<1> QED BY <1>3, <1>8

LEMMA SectionIs ==
  ASSUME NEW p, IsDisc(p), NEW k \in Nat, k < FrameTotal(p)
  PROVE  /\ SectionOf(p, k) \in 1 .. Len(p.sections)
         /\ FirstFrame(p, SectionOf(p, k)) <= k
         /\ k < FramesBefore(p, SectionOf(p, k))
<1>1. PICK n : n = Len(p.sections)
  OBVIOUS
<1>2. n \in Nat /\ DOMAIN p.sections = 1 .. n
  BY <1>1, SectionsOfDisc
<1>3. PICK S : S = {j \in 1 .. n : k < FramesBefore(p, j)}
  OBVIOUS
<1>4. S \in SUBSET Nat /\ n \in S
  <2>1. n # 0
    BY <1>1, FramesSum DEF FrameTotal
  <2> QED BY <1>1, <1>2, <1>3, <2>1 DEF FrameTotal
<1>5. PICK s \in S : \A j \in S : s <= j
  BY <1>4, SmallestOf
<1>6. s \in 1 .. n /\ k < FramesBefore(p, s)
  BY <1>3, <1>5
<1>7. FirstFrame(p, s) <= k
  <2>1. CASE s = 1
    BY <2>1, FramesSum DEF FirstFrame
  <2>2. CASE s # 1
    <3>1. s - 1 \in 1 .. n /\ s - 1 \in 0 .. n /\ ~(s <= s - 1)
      BY <1>2, <1>6, <2>2
    <3>2. ~(k < FramesBefore(p, s - 1))
      BY <1>3, <1>5, <3>1
    <3>3. FramesBefore(p, s - 1) \in Nat
      BY <1>1, <3>1, FramesSum
    <3> QED BY <3>2, <3>3 DEF FirstFrame
  <2> QED BY <2>1, <2>2
<1>8. \E j \in DOMAIN p.sections : FirstFrame(p, j) <= k /\ k < FramesBefore(p, j)
  BY <1>2, <1>6, <1>7
<1> QED BY <1>1, <1>2, <1>8 DEF SectionOf

LEMMA SectionIsOnly ==
  ASSUME NEW p, IsDisc(p), NEW k \in Nat, NEW s \in 1 .. Len(p.sections),
         FirstFrame(p, s) <= k, k < FramesBefore(p, s)
  PROVE  k < FrameTotal(p) /\ SectionOf(p, k) = s
<1>1. PICK n : n = Len(p.sections)
  OBVIOUS
<1>2. n \in Nat /\ s \in 1 .. n
  BY <1>1, SectionsOfDisc
<1>3. \A i \in 0 .. n : FramesBefore(p, i) \in Nat
  BY <1>1, FramesSum
<1>4. \A i, j \in 0 .. n : i < j => FramesBefore(p, i) < FramesBefore(p, j)
  BY <1>1, FramesGrow
<1>5. k < FrameTotal(p)
  <2>1. s \in 0 .. n /\ n \in 0 .. n /\ (s = n \/ s < n)
    BY <1>2
  <2>2. s = n \/ FramesBefore(p, s) < FramesBefore(p, n)
    BY <1>4, <2>1
  <2>3. FramesBefore(p, s) \in Nat /\ FramesBefore(p, n) \in Nat
    BY <1>3, <2>1
  <2> QED BY <1>1, <2>2, <2>3 DEF FrameTotal
<1>6. PICK t : t = SectionOf(p, k)
  OBVIOUS
<1>7. t \in 1 .. n /\ FramesBefore(p, t - 1) <= k /\ k < FramesBefore(p, t)
  BY <1>1, <1>5, <1>6, SectionIs DEF FirstFrame
<1>8. CASE t < s
  <2>1. t \in 0 .. n /\ s - 1 \in 0 .. n /\ (t = s - 1 \/ t < s - 1)
    BY <1>2, <1>7, <1>8
  <2>2. t = s - 1 \/ FramesBefore(p, t) < FramesBefore(p, s - 1)
    BY <1>4, <2>1
  <2>3. FramesBefore(p, t) \in Nat /\ FramesBefore(p, s - 1) \in Nat
    BY <1>3, <2>1
  <2> QED BY <1>7, <2>2, <2>3 DEF FirstFrame
<1>9. CASE s < t
  <2>1. s \in 0 .. n /\ t - 1 \in 0 .. n /\ (s = t - 1 \/ s < t - 1)
    BY <1>2, <1>7, <1>9
  <2>2. s = t - 1 \/ FramesBefore(p, s) < FramesBefore(p, t - 1)
    BY <1>4, <2>1
  <2>3. FramesBefore(p, s) \in Nat /\ FramesBefore(p, t - 1) \in Nat
    BY <1>3, <2>1
  <2> QED BY <1>7, <2>2, <2>3
<1> QED BY <1>2, <1>5, <1>6, <1>7, <1>8, <1>9

-------------------------------------------------------------------------------
(* Counting the coded frames.                                              *)
LEMMA NoneCounted ==
  ASSUME NEW p, NEW k \in Int
  PROVE  CodedBetween(p, k, k - 1) = 0
<1>1. {index \in k .. k - 1 : Coded(p, index)} = {}
  OBVIOUS
<1> QED BY <1>1, FS_EmptySet DEF CodedBetween

LEMMA CountedAre ==
  ASSUME NEW p, NEW a \in Int, NEW b \in Int
  PROVE  /\ IsFiniteSet({index \in a .. b : Coded(p, index)})
         /\ CodedBetween(p, a, b) \in Nat
<1>1. IsFiniteSet(a .. b)
  BY FS_Interval
<1>2. IsFiniteSet({index \in a .. b : Coded(p, index)})
  BY <1>1, FS_Subset
<1> QED BY <1>2, FS_CardinalityType DEF CodedBetween

LEMMA OneMore ==
  ASSUME NEW p, NEW a \in Int, NEW k \in Int, a <= k
  PROVE  CodedBetween(p, a, k) =
           CodedBetween(p, a, k - 1) + IF Coded(p, k) THEN 1 ELSE 0
<1> DEFINE T(b) == {index \in a .. b : Coded(p, index)}
<1>1. IsFiniteSet(T(k - 1)) /\ CodedBetween(p, a, k - 1) \in Nat
  BY CountedAre
<1>2. k \notin T(k - 1)
  OBVIOUS
<1>3. CASE Coded(p, k)
  <2>1. T(k) = T(k - 1) \cup {k}
    BY <1>3
  <2> HIDE DEF T
  <2>2. Cardinality(T(k)) = Cardinality(T(k - 1)) + 1
    BY <1>1, <1>2, <2>1, FS_AddElement
  <2> QED BY <1>3, <2>2 DEF CodedBetween, T
<1>4. CASE ~Coded(p, k)
  <2>1. T(k) = T(k - 1)
    BY <1>4
  <2> HIDE DEF T
  <2> QED BY <1>1, <1>4, <2>1 DEF CodedBetween, T
<1> QED BY <1>3, <1>4

-------------------------------------------------------------------------------
(* Division.                                                               *)
LEMMA TimesGrows ==
  ASSUME NEW b \in Nat, NEW q \in Int, NEW d \in Int, d >= 1
  PROVE  b * (q + d) >= b * q + b
<1>1. b * (q + d) = b * q + b * d
  OBVIOUS
<1>2. b * d >= b
  OBVIOUS
<1> QED BY <1>1, <1>2

LEMMA Euclid ==
  ASSUME NEW a \in Nat, NEW b \in Nat \ {0}
  PROVE  /\ a \div b \in Nat /\ a % b \in 0 .. b - 1
         /\ a = b * (a \div b) + (a % b)
<1>1. PICK q, r : q = a \div b /\ r = a % b
  OBVIOUS
<1>2. q \in Int /\ r \in 0 .. b - 1 /\ a = b * q + r
  BY <1>1
<1>3. ASSUME q <= -1 PROVE b * q <= -b
  BY <1>2, <1>3
<1>4. q \in Nat
  BY <1>2, <1>3
<1> QED BY <1>1, <1>2, <1>4

LEMMA Division ==
  ASSUME NEW b \in Nat \ {0}, NEW q \in Nat, NEW r \in 0 .. b - 1,
         NEW a, a = b * q + r
  PROVE  a \in Nat /\ a \div b = q /\ a % b = r
<1>1. a \in Nat
  <2>1. b * q \in Nat
    OBVIOUS
  <2> QED BY <2>1
<1>2. PICK s, t : s = a \div b /\ t = a % b
  OBVIOUS
<1>3. s \in Nat /\ t \in 0 .. b - 1 /\ a = b * s + t
  BY <1>1, <1>2, Euclid
<1>4. PICK x, y : x = b * s /\ y = b * q
  OBVIOUS
<1>5. x \in Int /\ y \in Int /\ x + t = y + r
  BY <1>3, <1>4
<1>6. ASSUME s < q PROVE FALSE
  <2>1. y >= x + b
    <3>1. PICK d : d = q - s
      OBVIOUS
    <3>2. d \in Int /\ d >= 1 /\ s + d = q
      BY <1>3, <1>6, <3>1
    <3>3. b * (s + d) >= b * s + b
      BY <1>3, <3>2, TimesGrows
    <3> QED BY <1>4, <3>2, <3>3
  <2> QED BY <1>3, <1>5, <2>1
<1>7. ASSUME q < s PROVE FALSE
  <2>1. x >= y + b
    <3>1. PICK d : d = s - q
      OBVIOUS
    <3>2. d \in Int /\ d >= 1 /\ q + d = s
      BY <1>3, <1>7, <3>1
    <3>3. b * (q + d) >= b * q + b
      BY <1>3, <3>2, TimesGrows
    <3> QED BY <1>4, <3>2, <3>3
  <2> QED BY <1>3, <1>5, <2>1
<1>8. s = q
  BY <1>3, <1>6, <1>7
<1> QED BY <1>1, <1>2, <1>3, <1>4, <1>5, <1>8

LEMMA NextQuotient ==
  ASSUME NEW a \in Nat, NEW b \in Nat \ {0}
  PROVE  IF a % b = b - 1
         THEN (a + 1) \div b = a \div b + 1 /\ (a + 1) % b = 0
         ELSE (a + 1) \div b = a \div b /\ (a + 1) % b = (a % b) + 1
<1>1. PICK q, r : q = a \div b /\ r = a % b
  OBVIOUS
<1>2. q \in Nat /\ r \in 0 .. b - 1 /\ a = b * q + r
  BY <1>1, Euclid
<1>3. CASE r = b - 1
  <2>1. b * (q + 1) = b * q + b
    BY <1>2
  <2>2. PICK x, y : x = b * q /\ y = b * (q + 1)
    OBVIOUS
  <2>3. x \in Int /\ y = x + b
    BY <1>2, <2>1, <2>2
  <2>4. a + 1 = y + 0
    BY <1>2, <1>3, <2>2, <2>3
  <2>5. q + 1 \in Nat /\ 0 \in 0 .. b - 1 /\ a + 1 = b * (q + 1) + 0
    BY <1>2, <2>2, <2>4
  <2>6. PICK n, m : n = a + 1 /\ m = q + 1
    OBVIOUS
  <2>7. m \in Nat /\ 0 \in 0 .. b - 1 /\ n = b * m + 0
    BY <2>5, <2>6
  <2>8. n \div b = m /\ n % b = 0
    BY ONLY b \in Nat \ {0}, <2>7, Division
  <2> QED BY <1>1, <1>3, <2>6, <2>8
<1>4. CASE r # b - 1
  <2>1. PICK x : x = b * q
    OBVIOUS
  <2>2. x \in Int /\ r + 1 \in 0 .. b - 1 /\ a + 1 = x + (r + 1)
    BY <1>2, <1>4, <2>1
  <2>3. PICK n, m : n = a + 1 /\ m = r + 1
    OBVIOUS
  <2>4. m \in 0 .. b - 1 /\ n = b * q + m
    BY <2>1, <2>2, <2>3
  <2>5. n \div b = q /\ n % b = m
    <3>1. q \in Nat
      BY <1>2
    <3> QED BY ONLY b \in Nat \ {0}, <2>4, <3>1, Division
  <2> QED BY <1>1, <1>4, <2>3, <2>5
<1> QED BY <1>3, <1>4

LEMMA NextRemainder ==
  ASSUME NEW a \in Nat, NEW b \in Nat \ {0}
  PROVE  ((a % b) + 1) % b = (a + 1) % b
<1>1. PICK r : r = a % b
  OBVIOUS
<1>2. r \in 0 .. b - 1
  BY <1>1, Euclid
<1>3. CASE r = b - 1
  <2>1. r + 1 = b * 1 + 0 /\ 1 \in Nat /\ 0 \in 0 .. b - 1
    BY <1>2, <1>3
  <2>2. (r + 1) % b = 0
    BY <2>1, Division
  <2> QED BY <1>1, <1>3, <2>2, NextQuotient
<1>4. CASE r # b - 1
  <2>1. r + 1 = b * 0 + (r + 1) /\ 0 \in Nat /\ r + 1 \in 0 .. b - 1
    BY <1>2, <1>4
  <2>2. (r + 1) % b = r + 1
    BY <2>1, Division
  <2> QED BY <1>1, <1>4, <2>2, NextQuotient
<1> QED BY <1>3, <1>4

-------------------------------------------------------------------------------
(* The corrections of the NTSC frame count.                                *)
Cycle == CorrectionStep * CorrectionsPerCycle + 1

LEMMA CycleLength ==
  /\ CorrectionStep \in Nat \ {0} /\ CorrectionsPerCycle \in Nat \ {0}
  /\ Cycle \in Nat \ {0}
  /\ \A M \in 0 .. CorrectionsPerCycle - 1 :
       CorrectionStep * M \in 0 .. Cycle - 1 - CorrectionStep
<1>1. PICK S, K : S = CorrectionStep /\ K = CorrectionsPerCycle
  OBVIOUS
<1>2. S \in Nat \ {0} /\ K \in Nat \ {0}
  BY <1>1, DiscScale
<1>3. PICK y : y = S * K
  OBVIOUS
<1>4. y \in Nat
  BY <1>2, <1>3
<1>5. ASSUME NEW M \in 0 .. K - 1 PROVE S * M \in 0 .. y - S
  <2>1. PICK d, x : d = K - M /\ x = S * M
    OBVIOUS
  <2>2. d \in Int /\ d >= 1 /\ M + d = K
    BY <1>2, <2>1
  <2>3. S * (M + d) >= S * M + S
    BY <1>2, <2>2, TimesGrows
  <2>4. x \in Nat /\ y >= x + S
    BY <1>2, <1>3, <2>1, <2>2, <2>3
  <2> QED BY <1>2, <1>4, <2>1, <2>4
<1>6. Cycle = y + 1
  BY <1>1, <1>3 DEF Cycle
<1>7. y + 1 - 1 - S = y - S
  BY <1>2, <1>4
<1> QED BY <1>1, <1>2, <1>4, <1>5, <1>6, <1>7

LEMMA CorrectionPoints ==
  ASSUME NEW n \in Nat \ {0}
  PROVE  IsNtscCorrectionPoint(n) <=>
           \E M \in 0 .. CorrectionsPerCycle - 1 : n % Cycle = CorrectionStep * M
<1>1. PICK S, K, C : S = CorrectionStep /\ K = CorrectionsPerCycle /\ C = Cycle
  OBVIOUS
<1>2. /\ S \in Nat \ {0} /\ K \in Nat \ {0} /\ C \in Nat \ {0}
      /\ \A M \in 0 .. K - 1 : S * M \in 0 .. C - 1
  BY <1>1, CycleLength
<1>3. PICK q, r : q = n \div C /\ r = n % C
  OBVIOUS
<1>4. q \in Nat /\ r \in 0 .. C - 1 /\ n = C * q + r
  BY <1>2, <1>3, Euclid
<1>5. IsNtscCorrectionPoint(n) <=>
        \E L \in 0 .. q, M \in 0 .. K - 1 : n = C * L + S * M
  BY <1>1, <1>3 DEF IsNtscCorrectionPoint, Cycle
<1>6. ASSUME NEW L \in 0 .. q, NEW M \in 0 .. K - 1, n = C * L + S * M
      PROVE  r = S * M
  <2>1. PICK x : x = S * M
    OBVIOUS
  <2>2. x \in 0 .. C - 1 /\ L \in Nat /\ n = C * L + x
    BY <1>2, <1>4, <1>6, <2>1
  <2>3. n % C = x
    BY ONLY <1>2, <2>2, Division
  <2> QED BY <1>3, <2>1, <2>3
<1>7. ASSUME NEW M \in 0 .. K - 1, r = S * M
      PROVE  \E L \in 0 .. q, N \in 0 .. K - 1 : n = C * L + S * N
  BY <1>4, <1>7
<1> QED BY <1>1, <1>3, <1>5, <1>6, <1>7

Drops(r) == Min(CorrectionsPerCycle - 1, r \div CorrectionStep)

LEMMA CorrectedIs ==
  ASSUME NEW n \in Nat, NEW q \in Nat, NEW r \in 0 .. Cycle - 1,
         n = Cycle * q + r
  PROVE  Corrected("NTSC", n) = n + (CorrectionsPerCycle - 1) * q + Drops(r)
<1>1. PICK C : C = Cycle
  OBVIOUS
<1>2. C \in Nat \ {0} /\ n = C * q + r /\ r \in 0 .. C - 1
  BY <1>1, CycleLength
<1>3. n \div C = q /\ n % C = r
  BY ONLY q \in Nat, <1>2, Division
<1> QED BY <1>1, <1>3 DEF Corrected, Drops, Cycle

LEMMA WholeSeconds ==
  ASSUME NEW x \in Nat
  PROVE  ((CorrectionStep + 1) * x) % FramesPerSecond["NTSC"] = 0
<1>1. PICK F, G : F = FramesPerSecond["NTSC"] /\ G = CorrectionStep + 1
  OBVIOUS
<1>2. F \in Nat \ {0} /\ G \in Nat
  BY <1>1, DiscScale DEF Standards
<1>3. PICK g, h : g = G \div F /\ h = G % F
  OBVIOUS
<1>4. g \in Nat /\ G = F * g + 0
  <2>1. h = 0
    BY <1>1, <1>3, CorrectionClosesSeconds
  <2>2. g \in Nat /\ G = F * g + h
    BY <1>2, <1>3, Euclid
  <2> QED BY <2>1, <2>2
<1>5. G * x = F * (g * x) + 0
  <2>1. (F * g) * x = F * (g * x) /\ F * (g * x) \in Int
    BY <1>2, <1>4
  <2>2. G * x = (F * g) * x
    BY <1>2, <1>4
  <2> QED BY <2>1, <2>2
<1>6. PICK n, m : n = G * x /\ m = g * x
  OBVIOUS
<1>7. m \in Nat /\ 0 \in 0 .. F - 1 /\ n = F * m + 0
  BY <1>2, <1>4, <1>5, <1>6
<1>8. n % F = 0
  BY ONLY <1>2, <1>7, Division
<1> QED BY <1>1, <1>6, <1>8

(* A step of the corrected count: one, or at a correction up to the whole  *)
(* second, one or two.                                                     *)
LEMMA CorrectedSteps ==
  ASSUME NEW n \in Nat
  PROVE  /\ Corrected("NTSC", n) \in Nat
         /\ IF IsNtscCorrectionPoint(n + 1)
            THEN /\ \/ Corrected("NTSC", n + 1) = Corrected("NTSC", n) + 1
                    \/ Corrected("NTSC", n + 1) = Corrected("NTSC", n) + 2
                 /\ Corrected("NTSC", n + 1) % FramesPerSecond["NTSC"] = 0
            ELSE Corrected("NTSC", n + 1) = Corrected("NTSC", n) + 1
<1>1. PICK S, K, C, F : /\ S = CorrectionStep /\ K = CorrectionsPerCycle
                        /\ C = Cycle /\ F = FramesPerSecond["NTSC"]
  OBVIOUS
<1>2. /\ S \in Nat \ {0} /\ K \in Nat \ {0} /\ C \in Nat \ {0}
      /\ C = S * K + 1
      /\ \A M \in 0 .. K - 1 : S * M \in 0 .. C - 1 - S
  BY <1>1, CycleLength DEF Cycle
<1>3. PICK m : m = n + 1
  OBVIOUS
<1>20. S \in Nat \ {0} /\ K \in Nat \ {0} /\ C \in Nat \ {0}
  BY <1>2
<1>21. PICK q, r : q = n \div C /\ r = n % C
  OBVIOUS
<1>4. q \in Nat /\ r \in 0 .. C - 1 /\ n = C * q + r
  BY <1>20, <1>21, Euclid
<1>22. PICK a, b : a = r \div S /\ b = r % S
  OBVIOUS
<1>5. a \in Nat /\ b \in 0 .. S - 1 /\ r = S * a + b
  <2>1. r \in Nat
    BY <1>20, <1>4
  <2> QED BY ONLY <1>20, <1>22, <2>1, Euclid
<1>6. PICK x, y, z : x = (K - 1) * q /\ y = S * a /\ z = C * q
  OBVIOUS
<1>7. x \in Nat /\ y \in Nat /\ z \in Nat /\ n = z + r /\ r = y + b
  BY <1>2, <1>4, <1>5, <1>6
<1>8. Corrected("NTSC", n) = n + x + Min(K - 1, a)
  <2>1. Corrected("NTSC", n) = n + (CorrectionsPerCycle - 1) * q + Drops(r)
    BY <1>1, <1>4, CorrectedIs
  <2> QED BY <1>1, <1>22, <1>6, <2>1 DEF Drops
<1>9. m \in Nat \ {0}
  BY <1>3
<1>10. IsNtscCorrectionPoint(m) <=> \E M \in 0 .. K - 1 : m % C = S * M
  BY <1>1, <1>9, CorrectionPoints
<1>11. ASSUME NEW j \in Nat, NEW k \in 0 .. C - 1, m = C * j + k
       PROVE  /\ Corrected("NTSC", m) = m + (K - 1) * j + Min(K - 1, k \div S)
              /\ m % C = k
  <2>1. Corrected("NTSC", m) = m + (CorrectionsPerCycle - 1) * j + Drops(k)
    BY <1>1, <1>9, <1>11, CorrectedIs
  <2>2. m % C = k
    BY <1>2, <1>11, Division
  <2> QED BY <1>1, <2>1, <2>2 DEF Drops
<1>12. PICK w : w = Corrected("NTSC", m)
  OBVIOUS
<1>13. PICK v : v = Corrected("NTSC", n)
  OBVIOUS
<1>14. a <= K - 1 \/ (a = K /\ b = 0)
  <2>1. ASSUME a >= K PROVE a = K /\ b = 0
    <3>1. ASSUME a > K PROVE FALSE
      <4>1. PICK d : d = a - K
        OBVIOUS
      <4>2. d \in Int /\ d >= 1 /\ K + d = a
        BY <1>2, <1>5, <3>1, <4>1
      <4>3. S * (K + d) >= S * K + S
        BY <1>2, <4>2, TimesGrows
      <4>4. PICK t : t = S * K
        OBVIOUS
      <4>5. y >= t + S /\ C = t + 1 /\ t \in Nat
        BY <1>2, <1>6, <4>2, <4>3, <4>4
      <4> QED BY <1>2, <1>4, <1>5, <1>7, <4>5
    <3>2. a = K
      BY <1>2, <1>5, <2>1, <3>1
    <3>3. C = y + 1
      BY <1>2, <1>6, <3>2
    <3> QED BY <1>4, <1>5, <1>7, <3>2, <3>3
  <2> QED BY <1>2, <1>5, <2>1
<1>15. v \in Nat /\ v = n + x + Min(K - 1, a)
  BY <1>2, <1>5, <1>7, <1>8, <1>13 DEF Min
<1>16. CASE r = C - 1
  \* The step that closes a cycle: it drops nothing, but ends a second.
  <2>1. a = K
    <3>1. ASSUME a <= K - 1 PROVE FALSE
      <4>1. y \in 0 .. C - 1 - S
        BY <1>2, <1>5, <1>6, <3>1
      <4> QED BY <1>2, <1>5, <1>7, <1>16, <4>1
    <3> QED BY <1>14, <3>1
  <2>2. C * (q + 1) = z + C /\ (K - 1) * (q + 1) = x + (K - 1)
    BY <1>2, <1>4, <1>6
  <2>3. q + 1 \in Nat /\ 0 \in 0 .. C - 1 /\ m = C * (q + 1) + 0
    BY <1>20, <1>3, <1>4, <1>7, <1>16, <2>2
  <2>4. PICK j : j = q + 1
    OBVIOUS
  <2>5. j \in Nat /\ 0 \in 0 .. C - 1 /\ m = C * j + 0
    BY <2>3, <2>4
  <2>6. w = m + (K - 1) * j + Min(K - 1, 0 \div S) /\ m % C = 0
    BY <1>11, <1>12, <2>5
  <2>7. Min(K - 1, 0 \div S) = 0
    BY <1>2 DEF Min
  <2>8. w = m + x + (K - 1)
    BY <1>2, <1>7, <1>9, <2>2, <2>4, <2>6, <2>7
  <2>9. Min(K - 1, a) = K - 1
    BY <1>2, <2>1 DEF Min
  <2>10. w = v + 1
    BY <1>20, <1>3, <1>7, <1>15, <2>8, <2>9
  <2>11. IsNtscCorrectionPoint(m)
    <3>1. 0 \in 0 .. K - 1 /\ S * 0 = 0
      BY <1>2
    <3> QED BY <1>10, <2>6, <3>1
  <2>12. w % F = 0
    <3>1. w = (S + 1) * (K * j)
      <4>1. m = (S * K + 1) * j
        BY <1>2, <2>5
      <4>2. w = (S * K + 1) * j + (K - 1) * j
        BY <1>2, <1>9, <2>5, <2>6, <2>7, <4>1
      <4>3. (S * K + 1) * j + (K - 1) * j = (S + 1) * (K * j)
        BY <1>2, <2>5
      <4> QED BY <4>2, <4>3
    <3>2. PICK t : t = K * j
      OBVIOUS
    <3>3. t \in Nat
      BY <1>2, <2>5, <3>2
    <3> QED BY <1>1, <3>1, <3>2, <3>3, WholeSeconds
  <2> QED BY <1>1, <1>3, <1>12, <1>13, <1>15, <2>10, <2>11, <2>12
<1>17. CASE r # C - 1
  <2>1. PICK k : k = r + 1
    OBVIOUS
  <2>2. k \in 0 .. C - 1 /\ k = y + b + 1 /\ m = C * q + k
    BY <1>20, <1>3, <1>4, <1>5, <1>7, <1>6, <1>17, <2>1
  <2>3. w = m + x + Min(K - 1, k \div S) /\ m % C = k
    BY <1>4, <1>6, <1>11, <1>12, <2>2
  <2>4. a <= K - 1
    <3>1. ASSUME a = K, b = 0 PROVE FALSE
      <4>1. C = y + 1
        BY <1>2, <1>6, <3>1
      <4> QED BY <1>4, <1>7, <1>17, <3>1, <4>1
    <3> QED BY <1>14, <3>1
  <2>5. CASE b = S - 1
    <3>1. S * (a + 1) = y + S
      BY <1>2, <1>5, <1>6
    <3>2. PICK c : c = a + 1
      OBVIOUS
    <3>3. c \in Nat /\ 0 \in 0 .. S - 1 /\ k = S * c + 0
      BY <1>2, <1>5, <1>7, <2>2, <2>5, <3>1, <3>2
    <3>4. k \div S = c /\ k % S = 0
      BY <1>2, <3>3, Division
    <3>5. CASE c <= K - 1
      \* A correction.
      <4>1. IsNtscCorrectionPoint(m)
        BY <1>2, <1>10, <2>3, <3>3, <3>5
      <4>2. Min(K - 1, c) = c /\ Min(K - 1, a) = a
        BY <1>2, <1>5, <3>2, <3>5 DEF Min
      <4>3. w = m + x + c /\ w = v + 2
        BY <1>20, <1>3, <1>5, <1>7, <1>15, <2>3, <3>2, <3>3, <3>4, <4>2
      <4>4. w % F = 0
        <5>1. m = (S * K + 1) * q + S * c
          BY <1>2, <2>2, <3>3
        <5>2. PICK e, g : e = (S * K + 1) * q /\ g = S * c
          OBVIOUS
        <5>3. e \in Nat /\ g \in Nat
          BY <1>2, <1>4, <3>3, <5>2
        <5>4. w = (S * K + 1) * q + S * c + (K - 1) * q + c
          BY <1>6, <1>7, <3>3, <4>3, <5>1, <5>2, <5>3
        <5>5. (S * K + 1) * q + S * c + (K - 1) * q + c = (S + 1) * (K * q + c)
          BY <1>2, <1>4, <3>3
        <5>6. PICK t : t = K * q + c
          OBVIOUS
        <5>7. t \in Nat
          <6>1. K * q \in Nat
            BY <1>2, <1>4
          <6> QED BY <3>3, <5>6, <6>1
        <5> QED BY <1>1, <5>4, <5>5, <5>6, <5>7, WholeSeconds
      <4> QED BY <1>1, <1>3, <1>12, <1>13, <1>15, <4>1, <4>3, <4>4
    <3>6. CASE ~(c <= K - 1)
      \* The place of the correction that a cycle does without.
      <4>1. c = K /\ a = K - 1
        BY <1>2, <1>5, <2>4, <3>2, <3>6
      <4>2. ~IsNtscCorrectionPoint(m)
        <5>1. ASSUME NEW M \in 0 .. K - 1, k = S * M PROVE FALSE
          <6>1. k \in 0 .. C - 1 - S
            BY <1>2, <5>1
          <6>2. C = k + 1
            BY <1>2, <3>3, <4>1
          <6> QED BY <1>2, <2>2, <6>1, <6>2
        <5> QED BY <1>10, <2>3, <5>1
      <4>3. Min(K - 1, c) = K - 1 /\ Min(K - 1, a) = K - 1
        BY <1>2, <4>1 DEF Min
      <4>4. w = v + 1
        BY <1>20, <1>3, <1>7, <1>15, <2>3, <3>4, <4>3
      <4> QED BY <1>1, <1>3, <1>12, <1>13, <1>15, <4>2, <4>4
    <3> QED BY <3>5, <3>6
  <2>6. CASE b # S - 1
    <3>1. PICK c : c = b + 1
      OBVIOUS
    <3>2. c \in 0 .. S - 1 /\ c # 0 /\ k = S * a + c
      BY <1>2, <1>5, <1>6, <1>7, <2>2, <2>6, <3>1
    <3>3. k \div S = a /\ k % S = c
      BY <1>2, <1>5, <3>2, Division
    <3>4. ~IsNtscCorrectionPoint(m)
      <4>1. ASSUME NEW M \in 0 .. K - 1, k = S * M PROVE FALSE
        <5>1. M \in Nat /\ 0 \in 0 .. S - 1 /\ k = S * M + 0
          <6>1. k \in Nat
            BY <1>2, <2>2
          <6> QED BY <1>2, <4>1, <6>1
        <5>2. k % S = 0
          BY <1>2, <5>1, Division
        <5> QED BY <3>2, <3>3, <5>2
      <4> QED BY <1>10, <2>3, <4>1
    <3>5. w = v + 1
      <4>1. PICK h : h = Min(K - 1, a)
        OBVIOUS
      <4>2. h \in Nat
        BY <1>2, <1>5, <4>1 DEF Min
      <4> QED BY <1>20, <1>3, <1>7, <1>15, <2>3, <3>3, <4>1, <4>2
    <3> QED BY <1>1, <1>3, <1>12, <1>13, <1>15, <3>4, <3>5
  <2> QED BY <2>5, <2>6
<1> QED BY <1>16, <1>17

-------------------------------------------------------------------------------
(* What a generator that lives on is, n coded frames after its anchor.     *)
ClockAt(standard, n) ==
  LET counted == Corrected(standard, n)
      fps == FramesPerSecond[standard]
  IN  [total |-> n, seconds |-> (counted \div fps) % SecondsPerMinute,
       frame |-> counted % fps]

PictureAt(standard, anchor, n) ==
  [value |-> Min(MaxPictureNumber[standard], anchor + n)]

CounterAt(standard, code, anchor, n) ==
  CASE code = "picture_number" -> PictureAt(standard, anchor, n)
    [] code = "chapter_number" -> [chapter |-> anchor, tracks |-> n]
    [] code = "programme_time_code" -> [frames |-> n]
    [] code = "clv_picture_number" -> ClockAt(standard, n)

LEMMA Scale ==
  ASSUME NEW standard \in Standards
  PROVE  /\ FramesPerSecond[standard] \in Nat /\ FramesPerSecond[standard] >= 2
         /\ MaxPictureNumber[standard] \in Nat
         /\ SecondsPerMinute \in Nat \ {0}
         /\ MaxFmNumber \in Nat \ {0} /\ StopBitTrack \in Nat
BY DiscScale

LEMMA ClockStarts ==
  ASSUME NEW standard \in Standards
  PROVE  ClockAt(standard, 0) = [total |-> 0, seconds |-> 0, frame |-> 0]
<1>1. PICK F, W : F = FramesPerSecond[standard] /\ W = SecondsPerMinute
  OBVIOUS
<1>2. F \in Nat \ {0} /\ W \in Nat \ {0}
  BY <1>1, Scale
<1>3. Corrected(standard, 0) = 0
  <2>1. CASE standard = "NTSC"
    <3>1. 0 \in 0 .. Cycle - 1 /\ 0 = Cycle * 0 + 0 /\ CorrectionsPerCycle \in Nat \ {0}
      BY CycleLength
    <3>2. Corrected("NTSC", 0) = 0 + (CorrectionsPerCycle - 1) * 0 + Drops(0)
      BY <3>1, CorrectedIs
    <3>3. Drops(0) = 0
      <4>1. 0 \div CorrectionStep = 0
        BY CycleLength
      <4> QED BY <3>1, <4>1 DEF Drops, Min
    <3> QED BY <2>1, <3>1, <3>2, <3>3
  <2>2. CASE standard # "NTSC"
    BY <2>2 DEF Corrected
  <2> QED BY <2>1, <2>2
<1>4. 0 \div F = 0 /\ 0 % F = 0 /\ 0 % W = 0
  BY <1>2
<1> QED BY <1>1, <1>3, <1>4 DEF ClockAt

LEMMA ClockAdvances ==
  ASSUME NEW standard \in Standards, NEW n \in Nat
  PROVE  ClvAdvance(standard, ClockAt(standard, n)) = ClockAt(standard, n + 1)
<1>1. PICK F, W : F = FramesPerSecond[standard] /\ W = SecondsPerMinute
  OBVIOUS
<1>2. F \in Nat \ {0} /\ F >= 2 /\ W \in Nat \ {0}
  BY <1>1, Scale
<1>3. PICK x, y : x = Corrected(standard, n) /\ y = Corrected(standard, n + 1)
  OBVIOUS
<1>4. PICK jump \in BOOLEAN :
        jump <=> standard = "NTSC" /\ IsNtscCorrectionPoint(n + 1)
  OBVIOUS
<1>5. /\ x \in Nat
      /\ IF jump THEN (y = x + 1 \/ y = x + 2) /\ y % F = 0 ELSE y = x + 1
  <2>1. CASE standard = "NTSC"
    BY <1>1, <1>3, <1>4, <2>1, CorrectedSteps
  <2>2. CASE standard # "NTSC"
    BY <1>3, <1>4, <2>2 DEF Corrected
  <2> QED BY <2>1, <2>2
<1>6. PICK q, r, u, v : q = x \div F /\ r = x % F /\ u = y \div F /\ v = y % F
  OBVIOUS
<1>7. q \in Nat /\ r \in 0 .. F - 1
  BY <1>2, <1>5, <1>6, Euclid
<1>8. IF jump \/ r = F - 1 THEN u = q + 1 /\ v = 0
                           ELSE u = q /\ v = r + 1
  <2>1. CASE y = x + 1
    <3>1. IF r = F - 1 THEN u = q + 1 /\ v = 0 ELSE u = q /\ v = r + 1
      BY <1>2, <1>5, <1>6, <2>1, NextQuotient
    <3>2. jump => v = 0
      BY <1>5, <1>6
    <3> QED BY <1>7, <3>1, <3>2
  <2>2. CASE y = x + 2
    <3>1. PICK z, s, t : z = x + 1 /\ s = z \div F /\ t = z % F
      OBVIOUS
    <3>2. z \in Nat /\ y = z + 1
      BY <1>5, <2>2, <3>1
    <3>3. IF r = F - 1 THEN s = q + 1 /\ t = 0 ELSE s = q /\ t = r + 1
      BY <1>2, <1>5, <1>6, <3>1, NextQuotient
    <3>4. IF t = F - 1 THEN u = s + 1 /\ v = 0 ELSE u = s /\ v = t + 1
      BY <1>2, <1>6, <3>1, <3>2, NextQuotient
    <3>5. jump /\ v = 0
      BY <1>5, <1>6, <2>2
    <3> QED BY <1>2, <1>7, <3>3, <3>4, <3>5
  <2> QED BY <1>5, <2>1, <2>2
<1>9. PICK b, c : b = q % W /\ c = u % W
  OBVIOUS
<1>10. (b + 1) % W = (q + 1) % W
  BY <1>2, <1>7, <1>9, NextRemainder
<1>11. PICK g : g = ClockAt(standard, n)
  OBVIOUS
<1>12. g = [total |-> n, seconds |-> b, frame |-> r]
  BY <1>1, <1>3, <1>6, <1>9, <1>11 DEF ClockAt
<1>13. ClockAt(standard, n + 1) = [total |-> n + 1, seconds |-> c, frame |-> v]
  BY <1>1, <1>3, <1>6, <1>9 DEF ClockAt
<1>14. PICK carry \in BOOLEAN : carry <=> jump \/ r + 1 >= F
  OBVIOUS
<1>15. carry <=> jump \/ r = F - 1
  BY <1>2, <1>7, <1>14
<1>16. ClvAdvance(standard, g) =
         [total |-> n + 1, frame |-> IF carry THEN 0 ELSE r + 1,
          seconds |-> IF ~carry THEN b ELSE (b + 1) % W]
  <2>1. g.total = n /\ g.seconds = b /\ g.frame = r
    BY <1>12
  <2>2. (jump \/ g.frame + 1 >= FramesPerSecond[standard]) = carry
    BY <1>1, <1>14, <2>1
  <2>3. (standard = "NTSC" /\ IsNtscCorrectionPoint(n + 1)) = jump
    BY <1>4
  <2> QED BY <1>1, <2>1, <2>2, <2>3 DEF ClvAdvance
<1>17. CASE carry
  BY <1>8, <1>9, <1>10, <1>11, <1>13, <1>15, <1>16, <1>17
<1>18. CASE ~carry
  BY <1>8, <1>9, <1>11, <1>13, <1>15, <1>16, <1>18
<1> QED BY <1>17, <1>18

LEMMA CounterStarts ==
  ASSUME NEW standard \in Standards, NEW code \in Persistent, NEW anchor \in Nat,
         code = "picture_number" => anchor <= MaxPictureNumber[standard]
  PROVE  New(code, anchor) = CounterAt(standard, code, anchor, 0)
<1>1. CASE code = "picture_number"
  <2>1. Min(MaxPictureNumber[standard], anchor + 0) = anchor
    BY <1>1, Scale DEF Min
  <2> QED BY <1>1, <2>1 DEF New, CounterAt, PictureAt
<1>2. CASE code = "chapter_number"
  BY <1>2 DEF New, CounterAt
<1>3. CASE code = "programme_time_code"
  BY <1>3 DEF New, CounterAt
<1>4. CASE code = "clv_picture_number"
  BY <1>4, ClockStarts DEF New, CounterAt
<1> QED BY <1>1, <1>2, <1>3, <1>4 DEF Persistent

LEMMA CounterAdvances ==
  ASSUME NEW standard \in Standards, NEW code \in Persistent, NEW anchor \in Nat,
         NEW n \in Nat
  PROVE  Advance(standard, code, CounterAt(standard, code, anchor, n))
           = CounterAt(standard, code, anchor, n + 1)
<1>1. CASE code = "picture_number"
  <2>1. PICK m, g : m = MaxPictureNumber[standard] /\ g = PictureAt(standard, anchor, n)
    OBVIOUS
  <2>2. m \in Nat /\ g = [value |-> Min(m, anchor + n)]
    BY <2>1, Scale DEF PictureAt
  <2>3. PictureAdvance(standard, g) =
          [value |-> IF Min(m, anchor + n) < m THEN Min(m, anchor + n) + 1
                                               ELSE Min(m, anchor + n)]
    BY <2>1, <2>2 DEF PictureAdvance
  <2>4. (IF Min(m, anchor + n) < m THEN Min(m, anchor + n) + 1 ELSE Min(m, anchor + n))
          = Min(m, anchor + (n + 1))
    BY <2>2 DEF Min
  <2>5. PictureAt(standard, anchor, n + 1) = [value |-> Min(m, anchor + (n + 1))]
    BY <2>1 DEF PictureAt
  <2> QED BY <1>1, <2>1, <2>3, <2>4, <2>5 DEF Advance, CounterAt
<1>2. CASE code = "chapter_number"
  BY <1>2 DEF Advance, CounterAt
<1>3. CASE code = "programme_time_code"
  BY <1>3 DEF Advance, CounterAt
<1>4. CASE code = "clv_picture_number"
  BY <1>4, ClockAdvances DEF Advance, CounterAt
<1> QED BY <1>1, <1>2, <1>3, <1>4 DEF Persistent

-------------------------------------------------------------------------------
(* Where a count began.                                                    *)
LEMMA EarliestIs ==
  ASSUME NEW S \in SUBSET Nat, S # {}
  PROVE  Earliest(S) \in S /\ \A t \in S : Earliest(S) <= t
<1>1. \E s \in S : \A t \in S : s <= t
  BY SmallestOf
<1> QED BY <1>1 DEF Earliest

LEMMA LatestIs ==
  ASSUME NEW n \in Nat, NEW S \in SUBSET (0 .. n), S # {}
  PROVE  Latest(S) \in S /\ \A t \in S : Latest(S) >= t
<1>1. PICK R : R = {n - t : t \in S}
  OBVIOUS
<1>2. R \in SUBSET Nat /\ R # {}
  <2>1. ASSUME NEW r \in R PROVE r \in Nat
    <3>1. PICK t \in S : r = n - t
      BY <1>1
    <3>2. t \in 0 .. n
      OBVIOUS
    <3> QED BY <3>1, <3>2
  <2>2. PICK t : t \in S
    OBVIOUS
  <2>3. n - t \in R
    BY <1>1, <2>2
  <2> QED BY <2>1, <2>3
<1>3. PICK r \in R : \A q \in R : r <= q
  BY <1>2, SmallestOf
<1>4. PICK s \in S : r = n - s
  BY <1>1, <1>3
<1>5. ASSUME NEW t \in S PROVE s >= t
  <2>1. n - t \in R
    BY <1>1
  <2>2. r <= n - t
    BY <1>3, <2>1
  <2>3. s \in 0 .. n /\ t \in 0 .. n
    OBVIOUS
  <2> QED BY <1>4, <2>2, <2>3
<1>6. \E u \in S : \A t \in S : u >= t
  BY <1>5
<1> QED BY <1>6 DEF Latest

LEMMA ListingIs ==
  ASSUME NEW p, IsDisc(p), NEW code
  PROVE  /\ Listing(p, code) \subseteq 1 .. Len(p.sections)
         /\ Listing(p, code) \in SUBSET Nat
BY SectionsOfDisc DEF Listing

ListedBy(p, code, s) == \E t \in Listing(p, code) : t <= s
States(p, code, s) == s \in Listing(p, code) /\ p.sections[s].codes[code] # Unset
Stated(p, code, s) == {t \in Listing(p, code) :
                         t <= s /\ p.sections[t].codes[code] # Unset}

LEMMA AnchorBySet ==
  ASSUME NEW p, NEW code, NEW s
  PROVE  Anchor(p, code, s) = IF Stated(p, code, s) = {}
                              THEN Earliest(Listing(p, code))
                              ELSE Latest(Stated(p, code, s))
BY DEF Anchor, Stated

LEMMA StatedBetween ==
  ASSUME NEW p, IsDisc(p), NEW code, NEW s
  PROVE  Len(p.sections) \in Nat /\ Stated(p, code, s) \in SUBSET (0 .. Len(p.sections))
BY SectionsOfDisc, ListingIs DEF Stated

LEMMA AnchorIsListed ==
  ASSUME NEW p, IsDisc(p), NEW code, NEW s \in Nat, ListedBy(p, code, s)
  PROVE  Anchor(p, code, s) \in Listing(p, code) /\ Anchor(p, code, s) <= s
<1>1. CASE Stated(p, code, s) = {}
  <2>1. Listing(p, code) # {} /\ Listing(p, code) \in SUBSET Nat
    BY ListingIs DEF ListedBy
  <2>2. PICK e : e = Earliest(Listing(p, code))
    OBVIOUS
  <2>3. e \in Listing(p, code) /\ e \in Nat /\ \A t \in Listing(p, code) : e <= t
    BY <2>1, <2>2, EarliestIs
  <2>4. PICK t \in Listing(p, code) : t <= s
    BY DEF ListedBy
  <2>5. e <= t /\ t \in Nat
    BY <2>1, <2>3, <2>4
  <2>6. e <= s
    BY <2>3, <2>4, <2>5
  <2> QED BY <1>1, <2>2, <2>3, <2>6, AnchorBySet
<1>2. CASE Stated(p, code, s) # {}
  <2>1. Latest(Stated(p, code, s)) \in Stated(p, code, s)
    BY <1>2, StatedBetween, LatestIs
  <2> QED BY <1>2, <2>1, AnchorBySet DEF Stated
<1> QED BY <1>1, <1>2

(* A section that states a start begins the count again.                   *)
LEMMA AnchorMoves ==
  ASSUME NEW p, IsDisc(p), NEW code, NEW s, States(p, code, s)
  PROVE  Anchor(p, code, s) = s
<1>1. s \in Nat
  BY ListingIs DEF States
<1>2. s \in Stated(p, code, s)
  BY <1>1 DEF States, Stated
<1>3. PICK a : a = Latest(Stated(p, code, s))
  OBVIOUS
<1>4. a \in Stated(p, code, s) /\ a >= s
  BY <1>2, <1>3, StatedBetween, LatestIs
<1>5. a \in Nat /\ a <= s
  BY <1>4, ListingIs DEF Stated
<1>6. a = s
  BY <1>1, <1>4, <1>5
<1> QED BY <1>2, <1>3, <1>6, AnchorBySet

(* The first section that lists a code begins its count.                   *)
LEMMA AnchorBegins ==
  ASSUME NEW p, IsDisc(p), NEW code, NEW s \in Listing(p, code),
         ~ListedBy(p, code, s - 1)
  PROVE  Anchor(p, code, s) = s
<1>1. s \in Nat
  BY ListingIs
<1>2. ASSUME NEW t \in Listing(p, code) PROVE s <= t
  <2>1. t \in Nat /\ ~(t <= s - 1)
    BY ListingIs DEF ListedBy
  <2> QED BY <1>1, <2>1
<1>3. PICK e : e = Earliest(Listing(p, code))
  OBVIOUS
<1>4. e \in Listing(p, code) /\ e <= s /\ e \in Nat
  BY <1>3, ListingIs, EarliestIs
<1>5. e = s
  BY <1>1, <1>2, <1>4
<1>6. CASE States(p, code, s)
  BY <1>6, AnchorMoves
<1>7. CASE ~States(p, code, s)
  <2>1. Stated(p, code, s) = {}
    <3>1. ASSUME NEW t \in Stated(p, code, s) PROVE FALSE
      <4>1. t \in Listing(p, code) /\ t <= s /\ p.sections[t].codes[code] # Unset
        BY DEF Stated
      <4>2. t \in Nat /\ s <= t
        BY <1>2, <4>1, ListingIs
      <4>3. t = s
        BY <1>1, <4>1, <4>2
      <4> QED BY <1>7, <4>1, <4>3 DEF States
    <3> QED BY <3>1
  <2> QED BY <1>3, <1>5, <2>1, AnchorBySet
<1> QED BY <1>6, <1>7

(* Every other one goes on with it.                                        *)
LEMMA AnchorStays ==
  ASSUME NEW p, IsDisc(p), NEW code, NEW s \in Nat, ~States(p, code, s)
  PROVE  Anchor(p, code, s) = Anchor(p, code, s - 1)
<1>1. Stated(p, code, s) = Stated(p, code, s - 1)
  <2>1. ASSUME NEW t PROVE t \in Stated(p, code, s) <=> t \in Stated(p, code, s - 1)
    <3>1. CASE t \in Listing(p, code) /\ p.sections[t].codes[code] # Unset
      <4>1. t \in Nat
        BY <3>1, ListingIs
      <4>2. t # s
        BY <3>1 DEF States
      <4>3. t <= s <=> t <= s - 1
        BY <4>1, <4>2
      <4> QED BY <3>1, <4>3 DEF Stated
    <3>2. CASE ~(t \in Listing(p, code) /\ p.sections[t].codes[code] # Unset)
      BY <3>2 DEF Stated
    <3> QED BY <3>1, <3>2
  <2> QED BY <2>1
<1> QED BY <1>1, AnchorBySet

(* What a project never states begins where it is first listed.            *)
LEMMA AnchorOfUnstated ==
  ASSUME NEW p, NEW code, NEW s,
         \A t \in Listing(p, code) : p.sections[t].codes[code] = Unset
  PROVE  Anchor(p, code, s) = Earliest(Listing(p, code))
<1>1. Stated(p, code, s) = {}
  BY DEF Stated
<1> QED BY <1>1, AnchorBySet

LEMMA ListedFrom ==
  ASSUME NEW p, IsDisc(p), NEW code, NEW s \in Nat
  PROVE  ListedBy(p, code, s) <=> ListedBy(p, code, s - 1) \/ s \in Listing(p, code)
<1>1. ASSUME NEW t \in Listing(p, code) PROVE t <= s <=> t <= s - 1 \/ t = s
  <2>1. t \in Nat
    BY ListingIs
  <2> QED BY <2>1
<1> QED BY <1>1 DEF ListedBy

-------------------------------------------------------------------------------
(* The place in the schedule.                                              *)
Placed(p, s, k) ==
  /\ s \in 0 .. Len(p.sections)
  /\ k \in 0 .. FrameTotal(p)
  /\ IF s = 0 THEN k = 0 ELSE FirstFrame(p, s) < k /\ k <= FramesBefore(p, s)

LEMMA NextSection ==
  ASSUME NEW p, IsDisc(p), NEW s, NEW k, Placed(p, s, k), k < FrameTotal(p),
         NEW t, t = SectionOf(p, k)
  PROVE  /\ t \in 1 .. Len(p.sections) /\ k \in Nat
         /\ \/ t = s
            \/ t = s + 1 /\ FirstFrame(p, t) = k
         /\ Placed(p, t, k + 1)
<1>1. PICK n, w : n = Len(p.sections) /\ w = FrameTotal(p)
  OBVIOUS
<1>2. n \in Nat /\ s \in 0 .. n /\ w = FramesBefore(p, n)
  BY <1>1, SectionsOfDisc DEF Placed, FrameTotal
<1>3. \A i \in 0 .. n : FramesBefore(p, i) \in Nat
  BY <1>1, FramesSum
<1>4. w \in Nat /\ k \in 0 .. w /\ k < w
  <2>1. n \in 0 .. n
    BY <1>2
  <2> QED BY <1>1, <1>2, <1>3, <2>1 DEF Placed
<1>5. /\ t \in 1 .. n /\ FirstFrame(p, t) <= k /\ k < FramesBefore(p, t)
  BY <1>1, <1>4, SectionIs
<1>6. t \in 0 .. n /\ t - 1 \in 0 .. n /\ FirstFrame(p, t) \in Nat /\ FramesBefore(p, t) \in Nat
  <2>1. t \in 0 .. n /\ t - 1 \in 0 .. n
    BY <1>2, <1>5
  <2> QED BY <1>3, <2>1 DEF FirstFrame
<1>7. Placed(p, t, k + 1)
  BY <1>1, <1>4, <1>5, <1>6 DEF Placed
<1>8. CASE s # 0 /\ k < FramesBefore(p, s)
  <2>1. s \in 1 .. n /\ FirstFrame(p, s) < k
    BY <1>2, <1>8 DEF Placed
  <2>2. s \in 0 .. n /\ s - 1 \in 0 .. n
    BY <1>2, <2>1
  <2>3. FirstFrame(p, s) <= k
    BY <1>3, <1>4, <2>1, <2>2 DEF FirstFrame
  <2>4. SectionOf(p, k) = s
    BY <1>1, <1>4, <1>8, <2>1, <2>3, SectionIsOnly
  <2> QED BY <1>1, <1>4, <1>5, <1>7, <2>4
<1>9. CASE ~(s # 0 /\ k < FramesBefore(p, s))
  <2>1. k = FramesBefore(p, s)
    <3>1. CASE s = 0
      BY <3>1, FramesSum DEF Placed
    <3>2. CASE s # 0
      BY <1>2, <1>3, <1>4, <1>9, <3>2 DEF Placed
    <3> QED BY <3>1, <3>2
  <2>2. s # n
    BY <1>2, <1>4, <2>1
  <2>3. PICK u : u = s + 1
    OBVIOUS
  <2>4. u \in 1 .. n /\ u \in 0 .. n /\ u - 1 = s /\ s < u
    BY <1>2, <2>2, <2>3
  <2>5. FirstFrame(p, u) = k
    BY <2>1, <2>4 DEF FirstFrame
  <2>6. k < FramesBefore(p, u)
    BY <1>1, <1>2, <2>1, <2>4, FramesGrow
  <2>7. k <= k /\ k \in Nat
    BY <1>4
  <2>8. SectionOf(p, k) = u
    BY <1>1, <2>4, <2>5, <2>6, <2>7, SectionIsOnly
  <2> QED BY <1>1, <1>4, <1>5, <1>7, <2>3, <2>5, <2>8
<1> QED BY <1>8, <1>9

-------------------------------------------------------------------------------
(* The numbering generators.  StepsOf: the coded frames from the first of  *)
(* section a, short of frame k.                                            *)
StepsOf(p, a, k) == CodedBetween(p, FirstFrame(p, a), k - 1)

(* The generator of a code in section s, once k frames are resolved.       *)
CounterOf(p, code, s, k) ==
  LET a == Anchor(p, code, s) IN
  CounterAt(p.standard, code, AnchorOf(p.sections[a], code), StepsOf(p, a, k))

Counting(p, gens, s, k) ==
  \A code \in Persistent :
    /\ code \in DOMAIN gens <=> ListedBy(p, code, s)
    /\ code \in DOMAIN gens => gens[code] = CounterOf(p, code, s, k)

LEMMA FirstFramesRise ==
  ASSUME NEW p, IsDisc(p), NEW a \in 1 .. Len(p.sections),
         NEW s \in 1 .. Len(p.sections), a <= s
  PROVE  FirstFrame(p, a) \in Nat /\ FirstFrame(p, a) <= FirstFrame(p, s)
<1>1. PICK n : n = Len(p.sections)
  OBVIOUS
<1>2. n \in Nat /\ a - 1 \in 0 .. n /\ s - 1 \in 0 .. n
  BY <1>1, SectionsOfDisc
<1>3. FramesBefore(p, a - 1) \in Nat /\ FramesBefore(p, s - 1) \in Nat
  BY <1>1, <1>2, FramesSum
<1>4. CASE a = s
  BY <1>3, <1>4 DEF FirstFrame
<1>5. CASE a < s
  <2>1. a - 1 < s - 1
    BY <1>2, <1>5
  <2>2. FramesBefore(p, a - 1) < FramesBefore(p, s - 1)
    BY <1>1, <1>2, <2>1, FramesGrow
  <2> QED BY <1>3, <2>2 DEF FirstFrame
<1> QED BY <1>1, <1>2, <1>4, <1>5

LEMMA StepsAre ==
  ASSUME NEW p, IsDisc(p), NEW a \in 1 .. Len(p.sections), NEW k \in Nat
  PROVE  StepsOf(p, a, k) \in Nat
<1>1. FirstFrame(p, a) \in Int /\ k - 1 \in Int
  <2>1. a <= a
    BY SectionsOfDisc
  <2> QED BY <2>1, FirstFramesRise
<1> QED BY <1>1, CountedAre DEF StepsOf

LEMMA StepsStart ==
  ASSUME NEW p, IsDisc(p), NEW s \in 1 .. Len(p.sections), NEW k,
         k = FirstFrame(p, s)
  PROVE  StepsOf(p, s, k) = 0
<1>1. k \in Int
  <2>1. s <= s
    BY SectionsOfDisc
  <2> QED BY <2>1, FirstFramesRise
<1> QED BY <1>1, NoneCounted DEF StepsOf

LEMMA StepsGoOn ==
  ASSUME NEW p, IsDisc(p), NEW k \in Nat, NEW s \in 1 .. Len(p.sections),
         FirstFrame(p, s) <= k, s = SectionOf(p, k),
         NEW a \in 1 .. Len(p.sections), a <= s
  PROVE  StepsOf(p, a, k + 1) =
           StepsOf(p, a, k) + IF HasLaserdisc(p.sections[s]) THEN 1 ELSE 0
<1>1. PICK b : b = FirstFrame(p, a)
  OBVIOUS
<1>2. b \in Int /\ b <= k
  <2>1. s <= s
    BY SectionsOfDisc
  <2>2. b \in Nat /\ b <= FirstFrame(p, s) /\ FirstFrame(p, s) \in Nat
    BY <1>1, <2>1, FirstFramesRise
  <2> QED BY <2>2
<1>3. k + 1 - 1 = k
  OBVIOUS
<1>4. CodedBetween(p, b, k) = CodedBetween(p, b, k - 1) + IF Coded(p, k) THEN 1 ELSE 0
  BY <1>2, OneMore
<1> QED BY <1>1, <1>3, <1>4 DEF StepsOf, Coded

LEMMA SectionCarries ==
  ASSUME NEW p, IsDisc(p), NEW s \in 1 .. Len(p.sections),
         HasLaserdisc(p.sections[s])
  PROVE  MayCarry(p, p.sections[s])
BY SectionsOfDisc DEF IsDisc, HasLaserdisc

LEMMA AnchorFits ==
  ASSUME NEW p, IsDisc(p), NEW code \in Persistent, NEW t \in Listing(p, code)
  PROVE  /\ AnchorOf(p.sections[t], code) \in Nat
         /\ code = "picture_number" =>
              AnchorOf(p.sections[t], code) <= MaxPictureNumber[p.standard]
         /\ code \in {"programme_time_code", "clv_picture_number"} =>
              p.sections[t].codes[code] = Unset
         /\ code = "chapter_number" =>
              AnchorOf(p.sections[t], code) \in 0 .. MaxChapterNumber
<1>1. PICK x : x = p.sections[t].codes[code]
  OBVIOUS
<1>2. p.standard \in Standards /\ MaxPictureNumber[p.standard] \in Nat \ {0}
  BY DiscScale DEF IsDisc
<1>3. MayAnchor(p.standard, code, x)
  <2>1. t \in 1 .. Len(p.sections) /\ HasLaserdisc(p.sections[t])
        /\ code \in DOMAIN p.sections[t].codes
    BY SectionsOfDisc DEF Listing, Lists
  <2>2. MayCarry(p, p.sections[t])
    BY <2>1, SectionCarries
  <2> QED BY <1>1, <2>1, <2>2 DEF MayCarry
<1>4. code \in {"programme_time_code", "clv_picture_number", "picture_number",
                "chapter_number"}
  BY DEF Persistent
<1>5. \/ x = Unset
      \/ code = "picture_number" /\ x \in 0 .. MaxPictureNumber[p.standard]
      \/ code = "chapter_number" /\ x \in 0 .. MaxChapterNumber
  BY <1>3, <1>4 DEF MayAnchor
<1>6. AnchorOf(p.sections[t], code) = IF x = Unset THEN DefaultAnchor(code) ELSE x
  BY <1>1 DEF AnchorOf
<1>7. DefaultAnchor(code) = IF code = "picture_number" THEN 1 ELSE 0
  BY DEF DefaultAnchor
<1>8. CASE x = Unset
  BY <1>1, <1>2, <1>4, <1>6, <1>7, <1>8 DEF MaxChapterNumber
<1>9. CASE x # Unset
  BY <1>1, <1>2, <1>4, <1>5, <1>6, <1>9 DEF MaxChapterNumber
<1> QED BY <1>8, <1>9

LEMMA CounterGoesOn ==
  ASSUME NEW p, IsDisc(p), NEW k \in Nat, NEW s \in 1 .. Len(p.sections),
         FirstFrame(p, s) <= k, s = SectionOf(p, k),
         NEW code \in Persistent, ListedBy(p, code, s)
  PROVE  CounterOf(p, code, s, k + 1) =
           IF HasLaserdisc(p.sections[s])
           THEN Advance(p.standard, code, CounterOf(p, code, s, k))
           ELSE CounterOf(p, code, s, k)
<1>1. PICK a : a = Anchor(p, code, s)
  OBVIOUS
<1>2. s \in Nat
  BY SectionsOfDisc
<1>3. a \in Listing(p, code) /\ a <= s /\ a \in 1 .. Len(p.sections)
  BY <1>1, <1>2, AnchorIsListed, ListingIs
<1>4. PICK x, m : x = AnchorOf(p.sections[a], code) /\ m = StepsOf(p, a, k)
  OBVIOUS
<1>5. x \in Nat /\ m \in Nat /\ p.standard \in Standards
  BY <1>3, <1>4, AnchorFits, StepsAre DEF IsDisc
<1>6. StepsOf(p, a, k + 1) = m + IF HasLaserdisc(p.sections[s]) THEN 1 ELSE 0
  BY <1>3, <1>4, StepsGoOn
<1>7. CounterOf(p, code, s, k) = CounterAt(p.standard, code, x, m)
  BY <1>1, <1>4 DEF CounterOf
<1>8. CASE HasLaserdisc(p.sections[s])
  <2>1. CounterOf(p, code, s, k + 1) = CounterAt(p.standard, code, x, m + 1)
    BY <1>1, <1>4, <1>6, <1>8 DEF CounterOf
  <2>2. Advance(p.standard, code, CounterAt(p.standard, code, x, m))
          = CounterAt(p.standard, code, x, m + 1)
    BY <1>5, CounterAdvances
  <2> QED BY <1>7, <1>8, <2>1, <2>2
<1>9. CASE ~HasLaserdisc(p.sections[s])
  <2>1. CounterOf(p, code, s, k + 1) = CounterAt(p.standard, code, x, m)
    BY <1>1, <1>4, <1>5, <1>6, <1>9 DEF CounterOf
  <2> QED BY <1>7, <1>9, <2>1
<1> QED BY <1>8, <1>9

(* A section takes over the counts of the one before it, or begins them.   *)
LEMMA SectionCounts ==
  ASSUME IsDisc(project), NEW s \in 1 .. Len(project.sections),
         NEW k, k = FirstFrame(project, s),
         Counting(project, generators, s - 1, k)
  PROVE  Counting(project, SectionGenerators(project.sections[s]), s, k)
<1>1. PICK p, section, gens : /\ p = project /\ section = project.sections[s]
                              /\ gens = SectionGenerators(section)
  OBVIOUS
<1>2. s \in Nat /\ s \in DOMAIN p.sections
  BY <1>1, SectionsOfDisc
<1>3. SUFFICES ASSUME NEW code \in Persistent
               PROVE  /\ code \in DOMAIN gens <=> ListedBy(p, code, s)
                      /\ code \in DOMAIN gens => gens[code] = CounterOf(p, code, s, k)
  BY <1>1 DEF Counting
<1>4. /\ code \in DOMAIN generators <=> ListedBy(p, code, s - 1)
      /\ code \in DOMAIN generators =>
           generators[code] = CounterOf(p, code, s - 1, k)
  BY <1>1 DEF Counting
<1>5. code \in Kept <=> code \in DOMAIN generators
  BY DEF Kept
<1>6. ListedBy(p, code, s) <=> ListedBy(p, code, s - 1) \/ s \in Listing(p, code)
  BY <1>1, <1>2, ListedFrom
<1>7. s \in Listing(p, code) <=> HasLaserdisc(section) /\ code \in DOMAIN section.codes
  BY <1>1, <1>2 DEF Listing, Lists
<1>8. code \in Made(section) <=>
        /\ code \in DOMAIN section.codes
        /\ section.codes[code] # Unset \/ code \notin Kept
  BY DEF Made, Persistent, FmNumbers
<1>9. CASE HasLaserdisc(section) /\ code \in Made(section)
  <2>1. s \in Listing(p, code)
    BY <1>7, <1>8, <1>9
  <2>2. Anchor(p, code, s) = s
    <3>1. CASE section.codes[code] # Unset
      <4>1. States(p, code, s)
        BY <1>1, <2>1, <3>1 DEF States
      <4> QED BY <1>1, <4>1, AnchorMoves
    <3>2. CASE code \notin Kept
      <4>1. ~ListedBy(p, code, s - 1)
        BY <1>4, <1>5, <3>2
      <4> QED BY <1>1, <2>1, <4>1, AnchorBegins
    <3> QED BY <1>8, <1>9, <3>1, <3>2
  <2>3. StepsOf(p, s, k) = 0
    BY <1>1, StepsStart
  <2>4. PICK x : x = AnchorOf(section, code)
    OBVIOUS
  <2>5. x \in Nat /\ (code = "picture_number" => x <= MaxPictureNumber[p.standard])
        /\ p.standard \in Standards
    BY <1>1, <2>1, <2>4, AnchorFits DEF IsDisc
  <2>6. CounterOf(p, code, s, k) = CounterAt(p.standard, code, x, 0)
    BY <1>1, <2>2, <2>3, <2>4 DEF CounterOf
  <2>7. New(code, x) = CounterAt(p.standard, code, x, 0)
    BY <2>5, CounterStarts
  <2>8. code \in DOMAIN gens /\ gens[code] = New(code, x)
    BY <1>1, <1>9, <2>4 DEF SectionGenerators
  <2> QED BY <1>6, <2>1, <2>6, <2>7, <2>8
<1>10. CASE ~(HasLaserdisc(section) /\ code \in Made(section))
  <2>1. ~States(p, code, s)
    BY <1>1, <1>7, <1>8, <1>10 DEF States
  <2>2. Anchor(p, code, s) = Anchor(p, code, s - 1)
    BY <1>1, <1>2, <2>1, AnchorStays
  <2>3. s \in Listing(p, code) => ListedBy(p, code, s - 1)
    BY <1>4, <1>5, <1>7, <1>8, <1>10
  <2>4. /\ code \in DOMAIN gens <=> code \in Kept
        /\ code \in Kept => gens[code] = generators[code]
    BY <1>1, <1>10 DEF SectionGenerators
  <2> QED BY <1>4, <1>5, <1>6, <2>2, <2>3, <2>4 DEF CounterOf
<1> QED BY <1>9, <1>10

(* The codes that do not outlive a section are made for it.                *)
MadeFor(p, s, code, g) ==
  /\ s # 0 /\ HasLaserdisc(p.sections[s])
  /\ code \in DOMAIN p.sections[s].codes
  /\ g = New(code, AnchorOf(p.sections[s], code))
  /\ code \in {"programme_status", "users_code"} =>
       p.sections[s].codes[code] # Unset

Making(p, gens, s) ==
  \A code \in DOMAIN gens \ Persistent : MadeFor(p, s, code, gens[code])

LEMMA SectionMakes ==
  ASSUME NEW p, p = project, NEW s, s # 0
  PROVE  Making(p, SectionGenerators(p.sections[s]), s)
<1>1. PICK section, gens : /\ section = p.sections[s]
                           /\ gens = SectionGenerators(section)
  OBVIOUS
<1>2. SUFFICES ASSUME NEW code \in DOMAIN gens, code \notin Persistent
               PROVE  MadeFor(p, s, code, gens[code])
  BY <1>1 DEF Making
<1>3. code \notin Kept
  BY <1>2 DEF Kept
<1>4. HasLaserdisc(section) /\ code \in Made(section)
      /\ gens[code] = New(code, AnchorOf(section, code))
  <2>1. HasLaserdisc(section)
    BY <1>1, <1>3 DEF SectionGenerators
  <2> QED BY <1>1, <1>3, <2>1 DEF SectionGenerators
<1>5. code \in DOMAIN section.codes
  BY <1>4 DEF Made
<1>6. code \in {"programme_status", "users_code"} => section.codes[code] # Unset
  BY <1>4 DEF Made, Persistent
<1> QED BY <1>1, <1>4, <1>5, <1>6 DEF MadeFor

LEMMA SectionDomain ==
  ASSUME IsDisc(project), NEW s \in 1 .. Len(project.sections),
         DOMAIN generators \subseteq CodeTypes \ SystemMOnly
  PROVE  DOMAIN SectionGenerators(project.sections[s]) \subseteq CodeTypes \ SystemMOnly
<1>1. PICK section : section = project.sections[s]
  OBVIOUS
<1>2. Kept \subseteq CodeTypes \ SystemMOnly
  BY DEF Kept
<1>3. CASE HasLaserdisc(section)
  <2>1. \A c \in DOMAIN section.codes : c \in CodeTypes
    BY <1>1, <1>3, SectionCarries DEF MayCarry
  <2>2. Made(section) \subseteq CodeTypes \ SystemMOnly
    BY <2>1 DEF Made, FmNumbers, SystemMOnly
  <2>3. DOMAIN SectionGenerators(section) = Kept \cup Made(section)
    BY <1>3 DEF SectionGenerators
  <2> QED BY <1>1, <1>2, <2>2, <2>3
<1>4. CASE ~HasLaserdisc(section)
  BY <1>1, <1>2, <1>4 DEF SectionGenerators
<1> QED BY <1>3, <1>4

-------------------------------------------------------------------------------
(* The FM copy of the picture number.                                      *)
FmStart(p) ==
  LET start == p.sections[Earliest(Listing(p, "fm_picture_number"))]
                 .codes["fm_picture_number"]
  IN  IF start = Unset THEN 1 ELSE start

FmNumberOf(p, k) ==
  Min(MaxFmNumber,
      FmStart(p) + StepsOf(p, Earliest(Listing(p, "fm_picture_number")), k))

(* It goes on until the lead-out freezes it.                               *)
FmCounting(p, number, s, k) ==
  /\ number = Unset <=> ~ListedBy(p, "fm_picture_number", s)
  /\ number # Unset =>
       /\ number \in [value : Nat, frozen : Nat]
       /\ \/ p.sections[s].type = "lead_out"
          \/ number.value = FmNumberOf(p, k)

LEMMA FmScale == MaxFmNumber \in Nat \ {0}
BY DiscScale

LEMMA FmListing ==
  ASSUME NEW p, IsDisc(p), NEW t \in Listing(p, "fm_picture_number")
  PROVE  /\ t \in 1 .. Len(p.sections)
         /\ p.sections[t].type = "programme_area"
         /\ p.sections[t].codes["fm_picture_number"] # Unset =>
              p.sections[t].codes["fm_picture_number"] \in 0 .. MaxFmNumber
<1>1. PICK section : section = p.sections[t]
  OBVIOUS
<1>2. /\ t \in 1 .. Len(p.sections) /\ HasLaserdisc(section)
      /\ "fm_picture_number" \in DOMAIN section.codes
  BY <1>1, SectionsOfDisc DEF Listing, Lists
<1>3. /\ ValidForSection("fm_picture_number", section.type)
      /\ MayAnchor(p.standard, "fm_picture_number", section.codes["fm_picture_number"])
  BY <1>1, <1>2, SectionCarries DEF MayCarry
<1> QED BY <1>1, <1>2, <1>3 DEF ValidForSection, MayAnchor

LEMMA FmStartIs ==
  ASSUME NEW p, IsDisc(p), Listing(p, "fm_picture_number") # {}
  PROVE  FmStart(p) \in 0 .. MaxFmNumber
<1>1. PICK a : a = Earliest(Listing(p, "fm_picture_number"))
  OBVIOUS
<1>2. a \in Listing(p, "fm_picture_number")
  BY <1>1, ListingIs, EarliestIs
<1>3. PICK x : x = p.sections[a].codes["fm_picture_number"]
  OBVIOUS
<1>4. x # Unset => x \in 0 .. MaxFmNumber
  BY <1>2, <1>3, FmListing
<1>5. FmStart(p) = IF x = Unset THEN 1 ELSE x
  BY <1>1, <1>3 DEF FmStart
<1> QED BY <1>4, <1>5, FmScale

LEMMA FmBegins ==
  ASSUME IsDisc(project), NEW s \in 1 .. Len(project.sections),
         NEW k, k = FirstFrame(project, s),
         FmCounting(project, fm_number, s - 1, k)
  PROVE  FmCounting(project, SectionFmNumber(project.sections[s]), s, k)
<1>1. PICK p, section, fm, number :
        /\ p = project /\ section = project.sections[s]
        /\ fm = "fm_picture_number" /\ number = SectionFmNumber(section)
  OBVIOUS
<1>2. s \in Nat /\ s \in DOMAIN p.sections /\ Len(p.sections) \in Nat
  BY <1>1, SectionsOfDisc
<1>3. ListedBy(p, fm, s) <=> ListedBy(p, fm, s - 1) \/ s \in Listing(p, fm)
  BY <1>1, <1>2, ListedFrom
<1>4. s \in Listing(p, fm) <=> HasLaserdisc(section) /\ Lists(section, fm)
  BY <1>1, <1>2 DEF Listing
<1>5. fm_number = Unset <=> ~ListedBy(p, fm, s - 1)
  BY <1>1 DEF FmCounting
<1>6. CASE s \in Listing(p, fm) /\ fm_number = Unset
  <2>1. PICK x : x = IF section.codes[fm] = Unset THEN 1 ELSE section.codes[fm]
    OBVIOUS
  <2>2. number = NewFmNumber(x)
    BY <1>1, <1>4, <1>6, <2>1 DEF SectionFmNumber
  <2>3. PICK e : e = Earliest(Listing(p, fm))
    OBVIOUS
  <2>4. e \in Listing(p, fm) /\ e <= s /\ e \in Nat
    BY <1>1, <1>6, <2>3, ListingIs, EarliestIs
  <2>5. e = s
    <3>1. ~(e <= s - 1)
      BY <1>5, <1>6, <2>4 DEF ListedBy
    <3> QED BY <1>2, <2>4, <3>1
  <2>6. FmStart(p) = x
    BY <1>1, <2>1, <2>3, <2>5 DEF FmStart
  <2>7. x \in 0 .. MaxFmNumber
    BY <1>1, <1>6, <2>6, FmStartIs
  <2>8. StepsOf(p, s, k) = 0
    BY <1>1, StepsStart
  <2>9. FmNumberOf(p, k) = x
    <3>1. FmNumberOf(p, k) = Min(MaxFmNumber, x + 0)
      BY <1>1, <2>3, <2>5, <2>6, <2>8 DEF FmNumberOf
    <3> QED BY <2>7, <3>1, FmScale DEF Min
  <2>10. number = [value |-> x, frozen |-> 0] /\ number \in [value : Nat, frozen : Nat]
    BY <2>2, <2>7, FmScale DEF NewFmNumber
  <2>11. number # Unset /\ number.value = FmNumberOf(p, k)
    BY <2>9, <2>10, UnsetAssumption
  <2> QED BY <1>1, <1>3, <1>6, <2>10, <2>11 DEF FmCounting
<1>7. CASE ~(s \in Listing(p, fm) /\ fm_number = Unset)
  <2>1. number = fm_number
    BY <1>1, <1>4, <1>7 DEF SectionFmNumber
  <2>2. number = Unset <=> ~ListedBy(p, fm, s)
    BY <1>3, <1>5, <1>7, <2>1
  <2>3. ASSUME number # Unset
        PROVE  number \in [value : Nat, frozen : Nat] /\ number.value = FmNumberOf(p, k)
    <3>1. PICK t \in Listing(p, fm) : t <= s - 1
      BY <1>5, <2>1, <2>3 DEF ListedBy
    <3>2. t \in 1 .. Len(p.sections)
      BY <1>1, <3>1, ListingIs
    <3>3. s - 1 \in DOMAIN p.sections /\ s - 1 # Len(p.sections)
      BY <1>1, <1>2, <3>1, <3>2, SectionsOfDisc
    <3>4. p.sections[s - 1].type # "lead_out"
      BY <1>1, <3>3 DEF IsDisc
    <3> QED BY <1>1, <2>1, <2>3, <3>4 DEF FmCounting
  <2> QED BY <1>1, <2>2, <2>3 DEF FmCounting
<1> QED BY <1>6, <1>7

LEMMA FmGoesOn ==
  ASSUME NEW p, IsDisc(p), NEW k \in Nat, NEW s \in 1 .. Len(p.sections),
         FirstFrame(p, s) <= k, s = SectionOf(p, k),
         NEW number, FmCounting(p, number, s, k)
  PROVE  FmCounting(p, IF HasLaserdisc(p.sections[s]) /\ number # Unset
                       THEN FmNumberAdvance(number, p.sections[s].type)
                       ELSE number, s, k + 1)
<1>1. PICK section, fm : section = p.sections[s] /\ fm = "fm_picture_number"
  OBVIOUS
<1>2. CASE number = Unset
  BY <1>2 DEF FmCounting
<1>3. CASE number # Unset
  <2>1. number \in [value : Nat, frozen : Nat] /\ ListedBy(p, fm, s)
        /\ (section.type = "lead_out" \/ number.value = FmNumberOf(p, k))
    BY <1>1, <1>3 DEF FmCounting
  <2>2. PICK t \in Listing(p, fm) : t <= s
    BY <2>1 DEF ListedBy
  <2>3. PICK e : e = Earliest(Listing(p, fm))
    OBVIOUS
  <2>4. e \in Listing(p, fm) /\ e <= t
    BY <2>2, <2>3, ListingIs, EarliestIs
  <2>5. e \in 1 .. Len(p.sections) /\ e <= s
    BY <2>2, <2>4, ListingIs, SectionsOfDisc
  <2>6. PICK x, m : x = FmStart(p) /\ m = StepsOf(p, e, k)
    OBVIOUS
  <2>7. x \in Nat /\ m \in Nat /\ MaxFmNumber \in Nat
    <3>1. x \in 0 .. MaxFmNumber
      BY <1>1, <2>2, <2>6, FmStartIs
    <3>2. m \in Nat
      BY <2>5, <2>6, StepsAre
    <3> QED BY <3>1, <3>2, FmScale
  <2>8. StepsOf(p, e, k + 1) = m + IF HasLaserdisc(section) THEN 1 ELSE 0
    BY <1>1, <2>5, <2>6, StepsGoOn
  <2>9. FmNumberOf(p, k) = Min(MaxFmNumber, x + m)
    BY <1>1, <2>3, <2>6 DEF FmNumberOf
  <2>10. FmNumberOf(p, k + 1) =
           Min(MaxFmNumber, x + (m + IF HasLaserdisc(section) THEN 1 ELSE 0))
    BY <1>1, <2>3, <2>6, <2>8 DEF FmNumberOf
  <2>11. CASE HasLaserdisc(section)
    <3>1. section.type # "lead_in" /\ section.type \in SectionTypes \ {"unknown"}
      <4>1. ASSUME section.type = "lead_in" PROVE FALSE
        <5>1. s = 1
          BY <1>1, <4>1, SectionsOfDisc DEF IsDisc
        <5>2. t = s
          BY <2>2, <5>1, ListingIs
        <5> QED BY <1>1, <2>2, <4>1, <5>2, FmListing
      <4>2. section.type \in SectionTypes \ {"unknown"}
        BY <1>1, <2>11, SectionCarries DEF MayCarry
      <4> QED BY <4>1, <4>2
    <3>2. CASE section.type = "programme_area"
      <4>1. number.value = Min(MaxFmNumber, x + m)
        BY <2>1, <2>9, <3>2
      <4>2. PICK next : next = FmNumberAdvance(number, section.type)
        OBVIOUS
      <4>3. next = [value |-> IF number.value < MaxFmNumber THEN number.value + 1
                              ELSE number.value, frozen |-> number.value]
        BY <3>2, <4>2 DEF FmNumberAdvance
      <4>4. next \in [value : Nat, frozen : Nat]
        BY <2>1, <4>3
      <4>5. next.value = FmNumberOf(p, k + 1)
        BY <2>7, <2>10, <2>11, <4>1, <4>3 DEF Min
      <4>6. next # Unset
        BY <4>4, UnsetAssumption
      <4> QED BY <1>1, <1>3, <2>1, <2>11, <4>2, <4>4, <4>5, <4>6 DEF FmCounting
    <3>3. CASE section.type = "lead_out"
      <4>1. FmNumberAdvance(number, section.type) = number
        BY <3>3 DEF FmNumberAdvance
      <4> QED BY <1>1, <1>3, <2>1, <3>3, <4>1 DEF FmCounting
    <3> QED BY <3>1, <3>2, <3>3 DEF SectionTypes
  <2>12. CASE ~HasLaserdisc(section)
    <3>1. FmNumberOf(p, k + 1) = FmNumberOf(p, k)
      BY <2>7, <2>9, <2>10, <2>12
    <3> QED BY <1>1, <1>3, <2>1, <2>12, <3>1 DEF FmCounting
  <2> QED BY <2>11, <2>12
<1> QED BY <1>2, <1>3

-------------------------------------------------------------------------------
(* The lines of a frame.                                                   *)
LEMMA ShortLists ==
  ASSUME NEW S
  PROVE  /\ << >> \in Seq(S)
         /\ \A a \in S : <<a>> \in Seq(S)
         /\ \A a, b \in S : <<a, b>> \in Seq(S)
         /\ \A a, b, c \in S : <<a, b, c>> \in Seq(S)
         /\ \A x, y \in Seq(S) : x \o y \in Seq(S)
OBVIOUS

LEMMA CandidatesAreNames ==
  ASSUME NEW standard, NEW disc, NEW type \in SectionTypes, NEW line
  PROVE  \E S : Candidates(standard, disc, type, line) \in Seq(S)
<1>1. PICK c : c = Canonical(standard, line)
  OBVIOUS
<1>2. PICK S : S = CodeTypes \cup SectionTypes
  OBVIOUS
<1>3. /\ type \in S
      /\ \A code \in CodeTypes : code \in S
  BY <1>2
<1>4. /\ << >> \in Seq(S)
      /\ \A a \in S : <<a>> \in Seq(S)
      /\ \A a, b \in S : <<a, b>> \in Seq(S)
      /\ \A a, b, d \in S : <<a, b, d>> \in Seq(S)
      /\ \A x, y \in Seq(S) : x \o y \in Seq(S)
  BY ShortLists
<1>5. /\ "picture_stop" \in S /\ "programme_status" \in S /\ "picture_number" \in S
      /\ "chapter_number" \in S /\ "clv_picture_number" \in S /\ "clv_code" \in S
      /\ "programme_time_code" \in S /\ "users_code" \in S
      /\ "fm_picture_number" \in S /\ "fm_programme_time" \in S /\ "fm_white_flag" \in S
  BY <1>2 DEF CodeTypes, ValidCav, ValidClv
<1>6. FmLines(standard, disc, type, line) \in Seq(S)
  BY <1>4, <1>5 DEF FmLines
<1>7. LeadInOut(c, type) \in Seq(S)
  BY <1>3, <1>4, <1>5 DEF LeadInOut
<1>8. CavProgramme(c) \in Seq(S)
  BY <1>4, <1>5 DEF CavProgramme
<1>9. ClvProgramme(c) \in Seq(S)
  BY <1>4, <1>5 DEF ClvProgramme
<1>10. PICK tail : tail = CASE type \in {"lead_in", "lead_out"} -> LeadInOut(c, type)
                            [] type = "unknown" -> << >>
                            [] disc = "CAV" -> CavProgramme(c)
                            [] OTHER -> ClvProgramme(c)
  OBVIOUS
<1>11. tail \in Seq(S)
  BY <1>4, <1>7, <1>8, <1>9, <1>10
<1>12. Candidates(standard, disc, type, line)
         = FmLines(standard, disc, type, line) \o tail
  BY <1>1, <1>10 DEF Candidates
<1> QED BY <1>4, <1>6, <1>11, <1>12

(* A line is given a code of the section, or the section's own marker.     *)
LEMMA AssignedCode ==
  ASSUME NEW standard, NEW disc, NEW type \in SectionTypes, NEW present, NEW line
  PROVE  LET code == GetAssignment(standard, disc, type, present, line).code IN
         code = "none" \/ code \in present \/ code = type
<1>1. PICK list : list = Candidates(standard, disc, type, line)
  OBVIOUS
<1>2. PICK wins : wins = {k \in DOMAIN list : list[k] \in present \/ list[k] = type}
  OBVIOUS
<1>3. PICK w : w = CHOOSE k \in wins : \A j \in wins : k <= j
  OBVIOUS
<1>4. PICK got : got = GetAssignment(standard, disc, type, present, line)
  OBVIOUS
<1>5. got = IF line \notin ReservedLines(standard) \/ wins = {} THEN NoAssignment
            ELSE [code |-> list[w], at |-> StartOf(standard, list[w])]
  BY <1>1, <1>2, <1>3, <1>4 DEF GetAssignment
<1>6. CASE line \notin ReservedLines(standard) \/ wins = {}
  BY <1>4, <1>5, <1>6 DEF NoAssignment
<1>7. CASE ~(line \notin ReservedLines(standard) \/ wins = {})
  <2>1. PICK S : list \in Seq(S)
    BY <1>1, CandidatesAreNames
  <2>2. wins \in SUBSET Nat
    BY <1>2, <2>1
  <2>3. w \in wins
    <3>1. \E k \in wins : \A j \in wins : k <= j
      BY <1>7, <2>2, SmallestOf
    <3> QED BY <1>3, <3>1
  <2>4. got.code = list[w]
    BY <1>5, <1>7
  <2> QED BY <1>2, <1>4, <2>3, <2>4
<1> QED BY <1>6, <1>7

(* What a line holds is what the generator of its code says.                *)
LineIs(standard, section, gens, number, l) ==
  /\ l.line \in ReservedLines(standard)
  /\ ValidForSection(l.code, section.type)
  /\ \/ l.code \in SystemMOnly
     \/ /\ l.code \in DOMAIN gens
        /\ l.word = CurrentCode(standard, l.code, gens[l.code])
  /\ l.code = "fm_picture_number" =>
       /\ number # Unset
       /\ l.word = FmNumberWord(number, FieldOne(standard, l.line), section.type)

LEMMA LinesAre ==
  ASSUME IsDisc(project), NEW s \in 1 .. Len(project.sections),
         NEW section, section = project.sections[s], HasLaserdisc(section),
         NEW gens, DOMAIN gens \subseteq CodeTypes \ SystemMOnly,
         NEW number, NEW time, NEW l \in VbiLines(section, gens, number, time)
  PROVE  LineIs(project.standard, section, gens, number, l)
<1> DEFINE at(line) == GetAssignment(project.standard, project.disc, section.type,
                                     DOMAIN section.codes, line)
           word(line) == LineWord(at(line).code, line, gens, number, time,
                                  section.type)
<1>1. PICK line \in ReservedLines(project.standard) :
        /\ at(line).code # "none" /\ word(line) # Unset
        /\ l = [line |-> line, code |-> at(line).code, at |-> at(line).at,
                word |-> word(line)]
  BY DEF VbiLines
<1>2. PICK c, w : c = at(line).code /\ w = word(line)
  OBVIOUS
<1>3. l.line = line /\ l.code = c /\ l.word = w
  BY <1>1, <1>2
<1>4. /\ w = LineWord(c, line, gens, number, time, section.type)
      /\ w # Unset /\ c # "none"
  BY <1>1, <1>2
<1>5. section.type \in SectionTypes \ {"unknown"}
      /\ \A code \in DOMAIN section.codes : ValidForSection(code, section.type)
  BY SectionCarries DEF MayCarry
<1>6. c \in DOMAIN section.codes \/ c = section.type
  BY <1>1, <1>2, <1>5, AssignedCode
<1> HIDE DEF at, word
<1>7. "fm_white_flag" \notin DOMAIN gens /\ "fm_picture_number" \notin DOMAIN gens
      /\ "fm_programme_time" \notin DOMAIN gens
  BY DEF SystemMOnly
<1>8. \/ c \in SystemMOnly
      \/ /\ c \in DOMAIN gens
         /\ w = CurrentCode(project.standard, c, gens[c])
  <2>1. CASE c \in SystemMOnly
    BY <2>1
  <2>2. CASE c \notin SystemMOnly
    <3>1. c # "fm_white_flag" /\ c # "fm_picture_number" /\ c # "fm_programme_time"
      BY <2>2 DEF SystemMOnly
    <3>2. w = IF c \in DOMAIN gens THEN CurrentCode(project.standard, c, gens[c])
              ELSE Unset
      BY <1>4, <3>1 DEF LineWord
    <3> QED BY <1>4, <3>2
  <2> QED BY <2>1, <2>2
<1>9. ASSUME c = "fm_picture_number"
      PROVE  /\ number # Unset
             /\ w = FmNumberWord(number, FieldOne(project.standard, line), section.type)
  <2>1. w = IF number # Unset /\ project.standard = "NTSC"
            THEN FmNumberWord(number, FieldOne(project.standard, line), section.type)
            ELSE Unset
    BY <1>4, <1>7, <1>9 DEF LineWord
  <2> QED BY <1>4, <2>1
<1>10. ValidForSection(c, section.type)
  <2>1. CASE c \in DOMAIN section.codes
    BY <1>5, <2>1
  <2>2. CASE c = section.type
    <3>1. c \in CodeTypes
      BY <1>8 DEF SystemMOnly, CodeTypes, ValidCav, ValidClv
    <3>2. c \in {"lead_in", "lead_out"}
      BY <1>5, <2>2, <3>1 DEF SectionTypes, CodeTypes, ValidCav, ValidClv
    <3> QED BY <2>2, <3>2 DEF ValidForSection
  <2> QED BY <1>6, <2>1, <2>2
<1> QED BY <1>1, <1>3, <1>8, <1>9, <1>10 DEF LineIs

(* What stands on the lines of frame k of section s.                       *)
Shows(p, s, k, l) ==
  /\ l.code \in Persistent =>
       /\ ListedBy(p, l.code, s)
       /\ l.word = CurrentCode(p.standard, l.code, CounterOf(p, l.code, s, k))
  /\ l.code = "fm_picture_number" =>
       /\ ListedBy(p, l.code, s)
       /\ l.word = <<FieldOne(p.standard, l.line), Digits(FmNumberOf(p, k))>>
  /\ l.code \in CodeTypes
  /\ l.code \notin Persistent \cup SystemMOnly =>
       \E g : MadeFor(p, s, l.code, g)
              /\ l.word = CurrentCode(p.standard, l.code, g)

LEMMA LinesShow ==
  ASSUME IsDisc(project), NEW s \in 1 .. Len(project.sections),
         NEW section, section = project.sections[s], HasLaserdisc(section),
         NEW gens, DOMAIN gens \subseteq CodeTypes \ SystemMOnly,
         NEW number, NEW time, NEW k,
         Counting(project, gens, s, k), FmCounting(project, number, s, k),
         Making(project, gens, s),
         NEW l \in VbiLines(section, gens, number, time)
  PROVE  Shows(project, s, k, l)
<1>0. LineIs(project.standard, section, gens, number, l)
  BY LinesAre
<1>1. /\ ValidForSection(l.code, section.type)
      /\ \/ l.code \in SystemMOnly
         \/ /\ l.code \in DOMAIN gens
            /\ l.word = CurrentCode(project.standard, l.code, gens[l.code])
      /\ l.code = "fm_picture_number" =>
           /\ number # Unset
           /\ l.word = FmNumberWord(number, FieldOne(project.standard, l.line),
                                    section.type)
  BY <1>0 DEF LineIs
<1>2. ASSUME l.code \in Persistent
      PROVE  /\ ListedBy(project, l.code, s)
             /\ l.word = CurrentCode(project.standard, l.code,
                                     CounterOf(project, l.code, s, k))
  <2>1. l.code \notin SystemMOnly
    BY <1>2 DEF Persistent, SystemMOnly
  <2>2. gens[l.code] = CounterOf(project, l.code, s, k) /\ ListedBy(project, l.code, s)
    BY <1>1, <1>2, <2>1 DEF Counting
  <2> QED BY <1>1, <2>1, <2>2
<1>3. ASSUME l.code = "fm_picture_number"
      PROVE  /\ ListedBy(project, l.code, s)
             /\ l.word = <<FieldOne(project.standard, l.line),
                           Digits(FmNumberOf(project, k))>>
  <2>1. section.type = "programme_area"
    BY <1>1, <1>3 DEF ValidForSection
  <2>2. number # Unset
    BY <1>1, <1>3
  <2>3. ListedBy(project, l.code, s) /\ number.value = FmNumberOf(project, k)
    BY <1>3, <2>1, <2>2 DEF FmCounting
  <2>4. FmNumberAt(number, section.type) = number.value
    BY <2>1 DEF FmNumberAt
  <2> QED BY <1>1, <1>3, <2>3, <2>4 DEF FmNumberWord
<1>4. l.code \in CodeTypes
  BY <1>1 DEF SystemMOnly, CodeTypes, ValidCav, ValidClv
<1>5. ASSUME l.code \notin Persistent \cup SystemMOnly
      PROVE  \E g : MadeFor(project, s, l.code, g)
                    /\ l.word = CurrentCode(project.standard, l.code, g)
  <2>1. l.code \in DOMAIN gens \ Persistent
        /\ l.word = CurrentCode(project.standard, l.code, gens[l.code])
    BY <1>1, <1>5
  <2>2. MadeFor(project, s, l.code, gens[l.code])
    BY <2>1 DEF Making
  <2> QED BY <2>1, <2>2
<1> QED BY <1>2, <1>3, <1>4, <1>5 DEF Shows

-------------------------------------------------------------------------------
(* What is read back from a word.                                          *)
LEMMA DigitsOf ==
  ASSUME NEW n \in Nat
  PROVE  n = 10000 * (n \div 10000) + 1000 * ((n \div 1000) % 10)
               + 100 * ((n \div 100) % 10) + 10 * ((n \div 10) % 10) + (n % 10)
<1>1. PICK a, b, c, d : /\ a = n \div 10 /\ b = n \div 100
                        /\ c = n \div 1000 /\ d = n \div 10000
  OBVIOUS
<1>2. a \in Nat /\ n = 10 * a + (n % 10)
  BY <1>1
<1>3. b \in Nat /\ a = 10 * b + (a % 10)
  BY <1>1
<1>4. c \in Nat /\ b = 10 * c + (b % 10)
  BY <1>1
<1>5. d \in Nat /\ c = 10 * d + (c % 10)
  BY <1>1
<1>6. PICK v, w, x, y : v = n % 10 /\ w = a % 10 /\ x = b % 10 /\ y = c % 10
  OBVIOUS
<1>7. v \in Int /\ w \in Int /\ x \in Int /\ y \in Int
  BY <1>2, <1>3, <1>4, <1>6
<1>8. n = 10000 * d + 1000 * y + 100 * x + 10 * w + v
  BY <1>2, <1>3, <1>4, <1>5, <1>6, <1>7
<1> QED BY <1>1, <1>6, <1>8

LEMMA PictureReadBack ==
  ASSUME NEW n \in Nat
  PROVE  DecodePictureNumber(EncodePictureNumber(n)) = n
<1>1. PICK a, b, c, d, e : /\ a = n \div 10000 /\ b = (n \div 1000) % 10
                           /\ c = (n \div 100) % 10 /\ d = (n \div 10) % 10
                           /\ e = n % 10
  OBVIOUS
<1>2. n = 10000 * a + 1000 * b + 100 * c + 10 * d + e
  BY <1>1, DigitsOf
<1>3. Digits(n) = <<a, b, c, d, e>>
  BY <1>1 DEF Digits, Digit
<1>4. EncodePictureNumber(n) = <<15, a, b, c, d, e>>
  BY <1>3 DEF EncodePictureNumber
<1>5. DecodePictureNumber(EncodePictureNumber(n))
        = 10000 * a + 1000 * b + 100 * c + 10 * d + e
  BY <1>4 DEF DecodePictureNumber
<1> QED BY <1>2, <1>5

LEMMA ChapterReadBack ==
  ASSUME NEW n \in 0 .. MaxChapterNumber, NEW stop \in BOOLEAN
  PROVE  /\ DecodeChapterNumber(EncodeChapterCode(n, stop)) = n
         /\ DecodeStopBit(EncodeChapterCode(n, stop)) <=> stop
<1>1. n \in 0 .. 79
  BY DEF MaxChapterNumber
<1>2. PICK x : x = (n \div 16) % 8
  OBVIOUS
<1>3. x \in 0 .. 7 /\ n = 16 * x + (n % 16)
  BY <1>1, <1>2
<1>4. EncodeChapterCode(n, stop) =
        <<8, (IF stop THEN 8 ELSE 0) + x, n % 16, 13, 13, 13>>
  BY <1>2 DEF EncodeChapterCode
<1>5. CASE stop
  <2>1. EncodeChapterCode(n, stop)[2] = 8 + x /\ EncodeChapterCode(n, stop)[3] = n % 16
    BY <1>4, <1>5
  <2>2. (8 + x) % 8 = x /\ 8 + x >= 8
    BY <1>3
  <2>3. x * 16 + (n % 16) = n
    BY <1>1, <1>3
  <2>4. DecodeChapterNumber(EncodeChapterCode(n, stop)) = x * 16 + (n % 16)
    BY <2>1, <2>2 DEF DecodeChapterNumber
  <2>5. DecodeStopBit(EncodeChapterCode(n, stop)) <=> 8 + x >= 8
    BY <2>1 DEF DecodeStopBit
  <2> QED BY <1>5, <2>2, <2>3, <2>4, <2>5
<1>6. CASE ~stop
  <2>1. EncodeChapterCode(n, stop)[2] = 0 + x /\ EncodeChapterCode(n, stop)[3] = n % 16
    BY <1>4, <1>6
  <2>2. (0 + x) % 8 = x /\ ~(0 + x >= 8)
    BY <1>3
  <2> QED BY <1>1, <1>3, <1>6, <2>1, <2>2 DEF DecodeChapterNumber, DecodeStopBit
<1> QED BY <1>5, <1>6

LEMMA PictureOf ==
  ASSUME NEW p, IsDisc(p), NEW s \in Nat, NEW k \in Nat,
         ListedBy(p, "picture_number", s)
  PROVE  LET a == Anchor(p, "picture_number", s)
             n == Min(MaxPictureNumber[p.standard],
                      AnchorOf(p.sections[a], "picture_number") + StepsOf(p, a, k))
         IN  /\ CounterOf(p, "picture_number", s, k) = [value |-> n]
             /\ n \in 0 .. MaxPictureNumber[p.standard]
             /\ StepsOf(p, a, k) \in Nat
<1>1. PICK code, a : code = "picture_number" /\ a = Anchor(p, code, s)
  OBVIOUS
<1>2. code \in Persistent
  BY <1>1 DEF Persistent
<1>3. a \in Listing(p, code) /\ a \in 1 .. Len(p.sections)
  BY <1>1, AnchorIsListed, ListingIs
<1>4. PICK x, m, w : /\ x = AnchorOf(p.sections[a], code)
                     /\ m = StepsOf(p, a, k) /\ w = MaxPictureNumber[p.standard]
  OBVIOUS
<1>5. x \in Nat
  BY <1>1, <1>2, <1>3, <1>4, AnchorFits
<1>6. m \in Nat
  BY <1>3, <1>4, StepsAre
<1>7. w \in Nat
  BY <1>4, Scale DEF IsDisc
<1>8. CounterOf(p, code, s, k) = [value |-> Min(w, x + m)]
  BY <1>1, <1>4 DEF CounterOf, CounterAt, PictureAt
<1>9. Min(w, x + m) \in 0 .. w
  BY <1>5, <1>6, <1>7 DEF Min
<1> QED BY <1>1, <1>4, <1>6, <1>8, <1>9

-------------------------------------------------------------------------------
(* The invariant.                                                          *)
FrameIs(p, s, k, f) ==
  \/ f = NoFrame
  \/ /\ f.section = s /\ s # 0
     /\ \A l \in f.vbi_lines :
          /\ HasLaserdisc(p.sections[s])
          /\ l.line \in ReservedLines(p.standard)
          /\ ValidForSection(l.code, p.sections[s].type)
          /\ Shows(p, s, k - 1, l)

Overlays(context, l) ==
  /\ l.code = "picture_number" =>
       context.picture_number = DecodePictureNumber(l.word)
  /\ l.code \notin SystemMOnly => l.word \in context.biphase_words

MayBeCoded(p, s) ==
  s # 0 /\ HasLaserdisc(p.sections[s]) => p.disc \in DiscTypes

ShownIn(f) == f = NoFrame \/ \A l \in f.vbi_lines : Overlays(f.context, l)

DiscInvariant ==
  /\ project \in Projects
  /\ Placed(project, current, position)
  /\ DOMAIN generators \subseteq CodeTypes \ SystemMOnly
  /\ Making(project, generators, current)
  /\ Counting(project, generators, current, position)
  /\ FmCounting(project, fm_number, current, position)
  /\ MayBeCoded(project, current)
  /\ FrameIs(project, current, position, frame)
  /\ ShownIn(frame)
  /\ status \in {"building", "built", "failed"}
  /\ status = "built" => position = FrameTotal(project)
  /\ status = "failed" =>
       \E s \in DOMAIN project.sections : SectionFails(project.sections[s])

LEMMA DiscStarts == Init => DiscInvariant
<1> SUFFICES ASSUME Init PROVE DiscInvariant
  OBVIOUS
<1>1. IsDisc(project)
  BY ProjectsAssumption DEF Init
<1>2. \A code : ~ListedBy(project, code, 0)
  BY <1>1, ListingIs DEF ListedBy
<1>3. Placed(project, current, position)
  <2>1. Len(project.sections) \in Nat /\ FrameTotal(project) \in Nat
    <3>1. Len(project.sections) \in 0 .. Len(project.sections)
      BY <1>1, SectionsOfDisc
    <3> QED BY <1>1, <3>1, SectionsOfDisc, FramesSum DEF FrameTotal
  <2> QED BY <2>1 DEF Init, Placed
<1>4. DOMAIN generators = {}
  BY DEF Init
<1>5. Counting(project, generators, current, position)
  BY <1>2, <1>4 DEF Init, Counting
<1>8. Making(project, generators, current)
  BY <1>4 DEF Making
<1>6. FmCounting(project, fm_number, current, position)
  BY <1>2 DEF Init, FmCounting
<1>7. /\ FrameIs(project, current, position, frame) /\ ShownIn(frame)
      /\ MayBeCoded(project, current)
  BY DEF Init, FrameIs, ShownIn, MayBeCoded
<1> QED BY <1>3, <1>4, <1>5, <1>6, <1>7, <1>8 DEF Init, DiscInvariant

(* The overlay holds what the lines hold.                                  *)
LEMMA OverlayShows ==
  ASSUME IsDisc(project), NEW s \in 1 .. Len(project.sections), NEW k \in Nat,
         NEW section, section = project.sections[s], HasLaserdisc(section),
         NEW gens, DOMAIN gens \subseteq CodeTypes \ SystemMOnly,
         Counting(project, gens, s, k),
         NEW number, NEW time, NEW l \in VbiLines(section, gens, number, time)
  PROVE  Overlays(Context(section, gens), l)
<1>0. LineIs(project.standard, section, gens, number, l)
  BY LinesAre
<1>1. l.code \notin SystemMOnly =>
        /\ l.code \in DOMAIN gens
        /\ l.word = CurrentCode(project.standard, l.code, gens[l.code])
  BY <1>0 DEF LineIs
<1>2. Context(section, gens).biphase_words =
        {CurrentCode(project.standard, c, gens[c]) : c \in DOMAIN gens}
  BY DEF Context
<1>3. ASSUME l.code = "picture_number"
      PROVE  Context(section, gens).picture_number = DecodePictureNumber(l.word)
  <2>1. l.code \in Persistent /\ l.code \notin SystemMOnly
    BY <1>3 DEF Persistent, SystemMOnly
  <2>2. /\ gens["picture_number"] = CounterOf(project, "picture_number", s, k)
        /\ ListedBy(project, "picture_number", s) /\ "picture_number" \in DOMAIN gens
        /\ l.word = CurrentCode(project.standard, "picture_number", gens["picture_number"])
    BY <1>1, <1>3, <2>1 DEF Counting
  <2>3. PICK v : v = gens["picture_number"].value
    OBVIOUS
  <2>4. v \in Nat
    <3>1. s \in Nat /\ MaxPictureNumber[project.standard] \in Nat
      BY SectionsOfDisc, Scale DEF IsDisc
    <3>2. PICK n : /\ CounterOf(project, "picture_number", s, k) = [value |-> n]
                   /\ n \in 0 .. MaxPictureNumber[project.standard]
      BY <2>2, <3>1, PictureOf
    <3> QED BY <2>2, <2>3, <3>1, <3>2
  <2>5. l.word = EncodePictureNumber(v)
    BY <2>2, <2>3 DEF CurrentCode
  <2>6. DecodePictureNumber(l.word) = v
    BY <2>4, <2>5, PictureReadBack
  <2>7. Context(section, gens).picture_number = v
    BY <2>2, <2>3 DEF Context, NumberShown
  <2> QED BY <2>6, <2>7
<1> QED BY <1>1, <1>2, <1>3 DEF Overlays

LEMMA Resolved ==
  ASSUME DiscInvariant, status = "building", position < FrameTotal(project),
         NEW s, s = SectionOf(project, position), Resolve(s),
         s # current => ~SectionFails(project.sections[s])
  PROVE  DiscInvariant'
<1>1. PICK p, section, k : p = project /\ section = p.sections[s] /\ k = position
  OBVIOUS
<1>2. PICK gens, number, time :
        /\ gens = IF s # current THEN SectionGenerators(section) ELSE generators
        /\ number = IF s # current THEN SectionFmNumber(section) ELSE fm_number
        /\ time = IF s # current THEN SectionFmTime(section) ELSE fm_time
  OBVIOUS
<1>3. PICK coded \in BOOLEAN : coded <=> HasLaserdisc(section)
  OBVIOUS
<1>4. /\ IsDisc(p) /\ p \in Projects /\ Placed(p, current, k)
      /\ Counting(p, generators, current, k) /\ FmCounting(p, fm_number, current, k)
      /\ DOMAIN generators \subseteq CodeTypes \ SystemMOnly
      /\ Making(p, generators, current)
  BY <1>1, ProjectsAssumption DEF DiscInvariant
<1>5. /\ project' = p /\ current' = s /\ status' = "building" /\ position' = k + 1
  BY <1>1 DEF Resolve
<1>6. frame' = [section |-> s, disc_frame_index |-> DiscFrameIndex(project, position),
                vbi_lines |-> IF HasLaserdisc(section)
                              THEN VbiLines(section, gens, number, time) ELSE {},
                context |-> Context(section, gens)]
  BY <1>1, <1>2 DEF Resolve
<1>7. generators' = IF ~HasLaserdisc(section) THEN gens
                    ELSE [c \in DOMAIN gens |-> Advance(project.standard, c, gens[c])]
  BY <1>1, <1>2 DEF Resolve
<1>8. fm_number' = IF HasLaserdisc(section) /\ number # Unset
                   THEN FmNumberAdvance(number, section.type) ELSE number
  BY <1>1, <1>2 DEF Resolve
<1>9. /\ s \in 1 .. Len(p.sections) /\ k \in Nat
      /\ s = current \/ (s = current + 1 /\ FirstFrame(p, s) = k)
      /\ Placed(p, s, k + 1)
  BY <1>1, <1>4, NextSection
<1>10. s \in Nat /\ FirstFrame(p, s) <= k
  BY <1>1, <1>4, <1>9, SectionsOfDisc, SectionIs
<1>11. Counting(p, gens, s, k) /\ DOMAIN gens \subseteq CodeTypes \ SystemMOnly
  <2>1. CASE s = current
    BY <1>2, <1>4, <2>1
  <2>2. CASE s # current
    <3>1. current = s - 1 /\ k = FirstFrame(p, s)
      <4>1. current \in Int
        BY <1>4, SectionsOfDisc DEF Placed
      <4> QED BY <1>9, <1>10, <2>2, <4>1
    <3>2. gens = SectionGenerators(section)
      BY <1>2, <2>2
    <3> QED BY <1>1, <1>4, <1>9, <3>1, <3>2, SectionCounts, SectionDomain
  <2> QED BY <2>1, <2>2
<1>11a. Making(p, gens, s)
  <2>1. CASE s = current
    BY <1>2, <1>4, <2>1
  <2>2. CASE s # current
    <3>1. gens = SectionGenerators(p.sections[s]) /\ s # 0
      BY <1>1, <1>2, <1>9, <1>10, <2>2
    <3> QED BY <1>1, <3>1, SectionMakes
  <2> QED BY <2>1, <2>2
<1>12. FmCounting(p, number, s, k)
  <2>1. CASE s = current
    BY <1>2, <1>4, <2>1
  <2>2. CASE s # current
    <3>1. current = s - 1 /\ k = FirstFrame(p, s)
      <4>1. current \in Int
        BY <1>4, SectionsOfDisc DEF Placed
      <4> QED BY <1>9, <1>10, <2>2, <4>1
    <3>2. number = SectionFmNumber(section)
      BY <1>2, <2>2
    <3> QED BY <1>1, <1>4, <1>9, <3>1, <3>2, FmBegins
  <2> QED BY <2>1, <2>2
<1>13. Counting(p, generators', s, k + 1)
  <2> SUFFICES ASSUME NEW code \in Persistent
               PROVE  /\ code \in DOMAIN generators' <=> ListedBy(p, code, s)
                      /\ code \in DOMAIN generators' =>
                           generators'[code] = CounterOf(p, code, s, k + 1)
    BY DEF Counting
  <2>1. /\ code \in DOMAIN gens <=> ListedBy(p, code, s)
        /\ code \in DOMAIN gens => gens[code] = CounterOf(p, code, s, k)
    BY <1>11 DEF Counting
  <2>2. ListedBy(p, code, s) =>
          CounterOf(p, code, s, k + 1) =
            IF HasLaserdisc(section) THEN Advance(p.standard, code, CounterOf(p, code, s, k))
                                     ELSE CounterOf(p, code, s, k)
    BY <1>1, <1>4, <1>9, <1>10, CounterGoesOn
  <2>3. CASE HasLaserdisc(section)
    BY <1>1, <1>7, <2>1, <2>2, <2>3
  <2>4. CASE ~HasLaserdisc(section)
    BY <1>7, <2>1, <2>2, <2>4
  <2> QED BY <2>3, <2>4
<1>14. DOMAIN generators' \subseteq CodeTypes \ SystemMOnly
  BY <1>7, <1>11
<1>14a. Making(p, generators', s)
  <2> SUFFICES ASSUME NEW code \in DOMAIN generators' \ Persistent
               PROVE  MadeFor(p, s, code, generators'[code])
    BY DEF Making
  <2>1. code \in DOMAIN gens /\ MadeFor(p, s, code, gens[code])
    BY <1>7, <1>11a DEF Making
  <2>2. \A g : Advance(project.standard, code, g) = g
    BY DEF Advance, Persistent
  <2> QED BY <1>7, <2>1, <2>2
<1>15. FmCounting(p, fm_number', s, k + 1)
  BY <1>1, <1>4, <1>8, <1>9, <1>10, <1>12, FmGoesOn
<1>16. PICK f : f = frame'
  OBVIOUS
<1>17. /\ f.section = s /\ f.context = Context(section, gens)
       /\ f.vbi_lines = IF HasLaserdisc(section)
                        THEN VbiLines(section, gens, number, time) ELSE {}
  BY <1>6, <1>16
<1>18. FrameIs(p, s, k + 1, f)
  <2>1. ASSUME NEW l \in f.vbi_lines
        PROVE  /\ HasLaserdisc(section) /\ l.line \in ReservedLines(p.standard)
               /\ ValidForSection(l.code, section.type) /\ Shows(p, s, k, l)
    <3>1. HasLaserdisc(section) /\ l \in VbiLines(section, gens, number, time)
      BY <1>17, <2>1
    <3>2. l.line \in ReservedLines(project.standard) /\ ValidForSection(l.code, section.type)
      BY <1>1, <1>4, <1>9, <1>11, <3>1, LinesAre DEF LineIs
    <3>3. Shows(project, s, k, l)
      BY <1>1, <1>4, <1>9, <1>11, <1>12, <1>11a, <3>1, LinesShow
    <3> QED BY <1>1, <3>1, <3>2, <3>3
  <2>2. (k + 1) - 1 = k /\ s # 0
    BY <1>9, <1>10
  <2>3. \A l \in f.vbi_lines :
          /\ HasLaserdisc(p.sections[s])
          /\ l.line \in ReservedLines(p.standard)
          /\ ValidForSection(l.code, p.sections[s].type)
          /\ Shows(p, s, (k + 1) - 1, l)
    BY <1>1, <2>1, <2>2
  <2>4. f.section = s
    BY <1>17
  <2> QED BY <2>2, <2>3, <2>4, Zenon DEF FrameIs
<1>19. ShownIn(f)
  <2>1. ASSUME NEW l \in f.vbi_lines PROVE Overlays(f.context, l)
    <3>1. HasLaserdisc(section) /\ l \in VbiLines(section, gens, number, time)
      BY <1>17, <2>1
    <3>2. Counting(project, gens, s, k) /\ IsDisc(project)
          /\ s \in 1 .. Len(project.sections) /\ section = project.sections[s]
      BY <1>1, <1>4, <1>9, <1>11
    <3>3. Overlays(Context(section, gens), l)
      BY ONLY <1>9, <1>11, <3>1, <3>2, OverlayShows
    <3> QED BY <1>17, <3>3
  <2> QED BY <2>1 DEF ShownIn
<1>20. MayBeCoded(p, s)
  BY <1>1 DEF DiscInvariant, MayBeCoded, SectionFails
<1> QED BY <1>4, <1>5, <1>9, <1>13, <1>14, <1>15, <1>16, <1>18, <1>19, <1>20, <1>14a
        DEF DiscInvariant

LEMMA DiscSteps == DiscInvariant /\ [Next]_vars => DiscInvariant'
<1> SUFFICES ASSUME DiscInvariant, [Next]_vars PROVE DiscInvariant'
  OBVIOUS
<1>1. IsDisc(project)
  BY ProjectsAssumption DEF DiscInvariant
<1>2. CASE ResolveFrame
  <2>1. PICK s : s = SectionOf(project, position)
    OBVIOUS
  <2>2. status = "building" /\ position < FrameTotal(project)
    BY <1>2 DEF ResolveFrame
  <2>3. position \in Nat
    BY NextSection, <1>1, <2>1, <2>2 DEF DiscInvariant
  <2>4. s \in DOMAIN project.sections
    BY <1>1, <2>1, <2>2, <2>3, SectionIs, SectionsOfDisc
  <2>5. CASE s # current /\ SectionFails(project.sections[s])
    <3>1. Fail
      BY <1>2, <2>1, <2>5 DEF ResolveFrame
    <3>2. SectionFails(project.sections[s])'
      BY <2>5, <3>1 DEF Fail, SectionFails
    <3>3. \E t \in DOMAIN project.sections : SectionFails(project.sections[t])'
      BY <2>1, <2>4, <3>1, <3>2 DEF Fail
    <3> QED BY <3>1, <3>3 DEF Fail, DiscInvariant
  <2>6. CASE ~(s # current /\ SectionFails(project.sections[s]))
    <3>1. Resolve(s)
      BY <1>2, <2>1, <2>6 DEF ResolveFrame
    <3> QED BY <2>1, <2>2, <2>6, <3>1, Resolved
  <2> QED BY <2>5, <2>6
<1>3. CASE Finish
  BY <1>3 DEF Finish, DiscInvariant, SectionFails
<1>4. CASE UNCHANGED vars
  BY <1>4 DEF vars, DiscInvariant, SectionFails
<1> QED BY <1>2, <1>3, <1>4 DEF Next

(* Every generator that outlives its section is the count of the coded     *)
(* frames since its anchor, in every frame of every disc that              *)
(* ResolveFrame is called for, and the lines of the frame show it.         *)
THEOREM DiscCorrect == Spec => []DiscInvariant
<1>1. Spec => []DiscInvariant
  BY DiscStarts, DiscSteps, PTL DEF Spec
<1> QED BY <1>1

-------------------------------------------------------------------------------
(* What a player reads.                                                    *)
LEMMA Seen ==
  ASSUME DiscInvariant, frame # NoFrame, NEW l \in frame.vbi_lines
  PROVE  /\ IsDisc(project) /\ current \in 1 .. Len(project.sections)
         /\ current \in Nat /\ Index \in Nat /\ frame.section = current
         /\ HasLaserdisc(project.sections[current])
         /\ Shows(project, current, Index, l)
         /\ SectionOf(project, Index) = current
         /\ FirstFrame(project, current) <= Index
         /\ \A a \in 1 .. Len(project.sections) :
              a <= current =>
                /\ StepsOf(project, a, Index) \in Nat
                /\ StepsSince(a) = StepsOf(project, a, Index)
<1>1. PICK p, s, k : p = project /\ s = current /\ k = Index
  OBVIOUS
<1>2. IsDisc(p) /\ Placed(p, s, position)
  BY <1>1, ProjectsAssumption DEF DiscInvariant
<1>3. /\ frame.section = s /\ s # 0
      /\ HasLaserdisc(p.sections[s]) /\ Shows(p, s, position - 1, l)
  BY <1>1 DEF DiscInvariant, FrameIs
<1>4. k = position - 1
  BY <1>1 DEF Index
<1>5. PICK n : n = Len(p.sections)
  OBVIOUS
<1>6. n \in Nat /\ s \in 1 .. n /\ s \in Nat
  BY <1>2, <1>3, <1>5, SectionsOfDisc DEF Placed
<1>7. FirstFrame(p, s) \in Nat /\ FramesBefore(p, s) \in Nat /\ FrameTotal(p) \in Nat
  <2>1. s - 1 \in 0 .. n /\ s \in 0 .. n /\ n \in 0 .. n
    BY <1>6
  <2> QED BY <1>2, <1>5, <2>1, FramesSum DEF FirstFrame, FrameTotal
<1>8. k \in Nat /\ FirstFrame(p, s) <= k /\ k < FramesBefore(p, s)
  BY <1>2, <1>3, <1>4, <1>7 DEF Placed
<1>9. SectionOf(p, k) = s
  BY <1>2, <1>5, <1>6, <1>8, SectionIsOnly
<1>10. ASSUME NEW a \in 1 .. n, a <= s
       PROVE  StepsOf(p, a, k) \in Nat /\ StepsSince(a) = StepsOf(p, a, k)
  <2>1. StepsOf(p, a, k) \in Nat
    BY <1>2, <1>5, <1>8, StepsAre
  <2>2. StepsOf(p, a, k + 1) = StepsOf(p, a, k) + 1
    BY <1>2, <1>3, <1>5, <1>6, <1>8, <1>9, <1>10, StepsGoOn
  <2>3. (k + 1) - 1 = k
    BY <1>8
  <2>4. StepsSince(a) = StepsOf(p, a, k + 1) - 1
    BY <1>1, <2>3 DEF StepsSince, StepsOf
  <2> QED BY <2>1, <2>2, <2>4
<1> QED BY <1>1, <1>2, <1>3, <1>4, <1>5, <1>6, <1>8, <1>9, <1>10

(* Anchor and steps of a code that a line carries.                         *)
LEMMA SeenCount ==
  ASSUME DiscInvariant, frame # NoFrame, NEW l \in frame.vbi_lines,
         l.code \in Persistent, NEW a, a = Anchor(project, l.code, current)
  PROVE  /\ a \in Listing(project, l.code)
         /\ ListedBy(project, l.code, current)
         /\ StepsSince(a) \in Nat /\ StepsSince(a) = StepsOf(project, a, Index)
         /\ l.word = CurrentCode(project.standard, l.code,
                       CounterAt(project.standard, l.code,
                                 AnchorOf(project.sections[a], l.code),
                                 StepsSince(a)))
<1>1. /\ IsDisc(project) /\ current \in Nat
      /\ Shows(project, current, Index, l)
  BY Seen
<1>2. /\ ListedBy(project, l.code, current)
      /\ l.word = CurrentCode(project.standard, l.code,
                              CounterOf(project, l.code, current, Index))
  BY <1>1 DEF Shows
<1>3. a \in Listing(project, l.code) /\ a <= current
  BY <1>1, <1>2, AnchorIsListed
<1>4. a \in 1 .. Len(project.sections)
  BY <1>1, <1>3, ListingIs
<1>5. StepsSince(a) \in Nat /\ StepsSince(a) = StepsOf(project, a, Index)
  BY <1>3, <1>4, Seen
<1>6. CounterOf(project, l.code, current, Index)
        = CounterAt(project.standard, l.code, AnchorOf(project.sections[a], l.code),
                    StepsSince(a))
  BY <1>5 DEF CounterOf
<1> QED BY <1>2, <1>3, <1>5, <1>6

LEMMA NumberSeen ==
  ASSUME DiscInvariant, frame # NoFrame, NEW l \in Carried("picture_number")
  PROVE  LET a == Anchor(project, "picture_number", frame.section) IN
         DecodePictureNumber(l.word) =
           Min(MaxPictureNumber[project.standard],
               AnchorOf(project.sections[a], "picture_number") + StepsSince(a))
<1>1. l \in frame.vbi_lines /\ l.code = "picture_number" /\ l.code \in Persistent
  BY DEF Carried, Persistent
<1>2. frame.section = current /\ IsDisc(project) /\ Index \in Nat /\ current \in Nat
  BY <1>1, Seen
<1>3. PICK a : a = Anchor(project, "picture_number", current)
  OBVIOUS
<1>4. /\ ListedBy(project, "picture_number", current)
      /\ StepsSince(a) = StepsOf(project, a, Index)
      /\ l.word = CurrentCode(project.standard, "picture_number",
                    CounterAt(project.standard, "picture_number",
                              AnchorOf(project.sections[a], "picture_number"),
                              StepsSince(a)))
  BY <1>1, <1>3, SeenCount
<1>5. PICK n : n = Min(MaxPictureNumber[project.standard],
                       AnchorOf(project.sections[a], "picture_number")
                         + StepsSince(a))
  OBVIOUS
<1>6. n \in 0 .. MaxPictureNumber[project.standard]
  BY <1>2, <1>3, <1>4, <1>5, PictureOf
<1>7. l.word = EncodePictureNumber(n)
  BY <1>4, <1>5 DEF CurrentCode, CounterAt, PictureAt
<1>8. n \in Nat
  BY <1>2, <1>6, Scale DEF IsDisc
<1>9. DecodePictureNumber(l.word) = n
  BY <1>7, <1>8, PictureReadBack
<1> QED BY <1>2, <1>3, <1>5, <1>9

LEMMA FmNumberSeen ==
  ASSUME DiscInvariant, frame # NoFrame, NEW l \in Carried("fm_picture_number")
  PROVE  LET a == Earliest(Listing(project, "fm_picture_number"))
             start == project.sections[a].codes["fm_picture_number"]
         IN  l.word = <<FieldOne(project.standard, l.line),
                        Digits(Min(MaxFmNumber,
                                   (IF start = Unset THEN 1 ELSE start)
                                     + StepsSince(a)))>>
<1>1. PICK fm : fm = "fm_picture_number"
  OBVIOUS
<1>2. l \in frame.vbi_lines /\ l.code = fm
  BY <1>1 DEF Carried
<1>3. /\ IsDisc(project) /\ current \in Nat
      /\ ListedBy(project, fm, current)
      /\ l.word = <<FieldOne(project.standard, l.line),
                    Digits(FmNumberOf(project, Index))>>
  <2>1. IsDisc(project) /\ current \in Nat /\ Shows(project, current, Index, l)
    BY <1>2, Seen
  <2> QED BY <1>1, <1>2, <2>1 DEF Shows
<1>4. PICK a : a = Earliest(Listing(project, fm))
  OBVIOUS
<1>5. a \in 1 .. Len(project.sections) /\ a <= current
  <2>1. PICK t \in Listing(project, fm) : t <= current
    BY <1>3 DEF ListedBy
  <2>2. a \in Listing(project, fm) /\ a <= t /\ t \in Nat /\ a \in Nat
    BY <1>3, <1>4, <2>1, ListingIs, EarliestIs
  <2>3. a <= current
    BY <1>3, <2>1, <2>2
  <2> QED BY <1>3, <2>2, <2>3, ListingIs
<1>6. StepsSince(a) = StepsOf(project, a, Index)
  BY <1>2, <1>5, Seen
<1>7. PICK start : start = project.sections[a].codes[fm]
  OBVIOUS
<1>8. FmNumberOf(project, Index) =
        Min(MaxFmNumber, (IF start = Unset THEN 1 ELSE start) + StepsSince(a))
  BY <1>1, <1>4, <1>6, <1>7 DEF FmNumberOf, FmStart
<1> QED BY <1>1, <1>3, <1>4, <1>7, <1>8

(* A frame's picture number is the last start stated and the frames with   *)
(* codes since then, over every boundary and over sections that show none, *)
(* up to the standard's largest; its FM copy counts the same way while no  *)
(* later section states an FM start.                                       *)
THEOREM PictureNumbersContinue == Spec => []NumbersContinue
<1>1. DiscInvariant => NumbersContinue
  <2> SUFFICES ASSUME DiscInvariant, frame # NoFrame PROVE NumbersContinue
    BY DEF NumbersContinue
  <2>1. ASSUME NEW l \in Carried("fm_picture_number")
        PROVE  ShowsFmNumber(l, Earliest(Listing(project, "fm_picture_number")))
    BY FmNumberSeen DEF ShowsFmNumber, FmNumberFrom
  <2> QED BY <2>1, NumberSeen DEF NumbersContinue
<1> QED BY <1>1, DiscCorrect, PTL

LEMMA ChapterSeen ==
  ASSUME DiscInvariant, frame # NoFrame, NEW l \in Carried("chapter_number")
  PROVE  LET a == Anchor(project, "chapter_number", frame.section) IN
         /\ DecodeChapterNumber(l.word)
              = AnchorOf(project.sections[a], "chapter_number")
         /\ DecodeStopBit(l.word) <=> StepsSince(a) >= StopBitTrack
<1>1. l \in frame.vbi_lines /\ l.code = "chapter_number" /\ l.code \in Persistent
  BY DEF Carried, Persistent
<1>2. frame.section = current /\ IsDisc(project)
  BY <1>1, Seen
<1>3. PICK a : a = Anchor(project, "chapter_number", current)
  OBVIOUS
<1>4. PICK m, n : m = StepsSince(a)
                  /\ n = AnchorOf(project.sections[a], "chapter_number")
  OBVIOUS
<1>5. /\ a \in Listing(project, "chapter_number")
      /\ l.word = CurrentCode(project.standard, "chapter_number",
                    CounterAt(project.standard, "chapter_number", n, m))
  BY <1>1, <1>3, <1>4, SeenCount
<1>6. n \in 0 .. MaxChapterNumber
  BY <1>1, <1>2, <1>4, <1>5, AnchorFits
<1>7. PICK stop \in BOOLEAN : stop <=> m >= StopBitTrack
  OBVIOUS
<1>8. l.word = EncodeChapterCode(n, m >= StopBitTrack)
  BY <1>5 DEF CurrentCode, CounterAt, StopBit
<1>9. (m >= StopBitTrack) = stop
  BY <1>7
<1>10. l.word = EncodeChapterCode(n, stop)
  BY <1>8, <1>9
<1>11. DecodeChapterNumber(l.word) = n /\ (DecodeStopBit(l.word) <=> stop)
  BY <1>6, <1>10, ChapterReadBack
<1> QED BY <1>2, <1>3, <1>4, <1>7, <1>11

(* The chapter on a frame is the last one stated, whatever sections it     *)
(* spans; its stop bit is set from the transition track on, and in no      *)
(* chapter sooner than the documents say                                   *)
(* (ChapterNumberGenerator::CurrentCode).                                  *)
THEOREM StopBitsAreLate == Spec => []ChapterStopsLate
<1>1. DiscInvariant => ChapterStopsLate
  BY ChapterSeen DEF ChapterStopsLate, MayStop
<1> QED BY <1>1, DiscCorrect, PTL

(* The second and frame of a CLV picture are the coded frames so far, with *)
(* the NTSC numbers that the corrections drop; the time code is theirs in  *)
(* minutes (IsNtscCorrectionPoint, AdvanceFrame).                          *)
THEOREM ClocksRun == Spec => []ClvClockRuns
<1>1. DiscInvariant => ClvClockRuns
  <2> SUFFICES ASSUME DiscInvariant, frame # NoFrame PROVE ClvClockRuns
    BY DEF ClvClockRuns
  <2>1. PICK standard, fps : /\ standard = project.standard
                             /\ fps = FramesPerSecond[project.standard]
    OBVIOUS
  <2>2. ASSUME NEW l \in frame.vbi_lines,
               l.code \in {"clv_picture_number", "programme_time_code"}
        PROVE  LET a == Earliest(Listing(project, l.code)) IN
               l.word = CurrentCode(standard, l.code,
                          CounterAt(standard, l.code, 0, StepsSince(a)))
    <3>1. l.code \in Persistent
      BY <2>2 DEF Persistent
    <3>2. IsDisc(project)
      BY Seen
    <3>3. \A t \in Listing(project, l.code) : project.sections[t].codes[l.code] = Unset
      BY <2>2, <3>1, <3>2, AnchorFits
    <3>4. PICK a : a = Anchor(project, l.code, current)
      OBVIOUS
    <3>5. a = Earliest(Listing(project, l.code))
      BY <3>3, <3>4, AnchorOfUnstated
    <3>6. /\ a \in Listing(project, l.code)
          /\ l.word = CurrentCode(standard, l.code,
                        CounterAt(standard, l.code,
                                  AnchorOf(project.sections[a], l.code), StepsSince(a)))
      BY <2>1, <3>1, <3>4, SeenCount
    <3>7. AnchorOf(project.sections[a], l.code) = 0
      BY <2>2, <3>3, <3>6 DEF AnchorOf, DefaultAnchor
    <3> QED BY <3>5, <3>6, <3>7
  <2>3. ASSUME NEW l \in Carried("clv_picture_number")
        PROVE  LET steps == StepsSince(Earliest(Listing(project, "clv_picture_number")))
                   n == Corrected(project.standard, steps)
               IN  l.word = EncodeClvPictureNumber((n \div fps) % SecondsPerMinute,
                                                   n % fps)
    <3>1. l \in frame.vbi_lines /\ l.code = "clv_picture_number"
      BY DEF Carried
    <3>2. PICK m : m = StepsSince(Earliest(Listing(project, "clv_picture_number")))
      OBVIOUS
    <3>3. l.word = CurrentCode(standard, "clv_picture_number",
                     CounterAt(standard, "clv_picture_number", 0, m))
      BY <2>2, <3>1, <3>2
    <3>4. CounterAt(standard, "clv_picture_number", 0, m) = ClockAt(standard, m)
      BY DEF CounterAt
    <3>5. PICK n : n = Corrected(standard, m)
      OBVIOUS
    <3>6. PICK g : g = ClockAt(standard, m)
      OBVIOUS
    <3>7. g.seconds = (n \div fps) % SecondsPerMinute /\ g.frame = n % fps
      BY <2>1, <3>5, <3>6 DEF ClockAt
    <3>8. l.word = EncodeClvPictureNumber(g.seconds, g.frame)
      BY <3>3, <3>4, <3>6 DEF CurrentCode
    <3> QED BY <2>1, <3>2, <3>5, <3>7, <3>8
  <2>4. ASSUME NEW l \in Carried("programme_time_code")
        PROVE  LET n == StepsSince(Earliest(Listing(project, "programme_time_code")))
                   minutes == n \div FramesPerMinute(project.standard)
               IN  l.word = EncodeTimeCode(Min(MaxHours, minutes \div 60), minutes % 60)
    <3>1. l \in frame.vbi_lines /\ l.code = "programme_time_code" /\ l.code \in Persistent
      BY DEF Carried, Persistent
    <3>2. PICK m : m = StepsSince(Earliest(Listing(project, "programme_time_code")))
      OBVIOUS
    <3>3. l.word = CurrentCode(standard, "programme_time_code",
                     CounterAt(standard, "programme_time_code", 0, m))
      BY <2>2, <3>1, <3>2
    <3>4. l.word = TimeCodeOf(standard, m)
      BY <3>3 DEF CounterAt, CurrentCode
    <3>5. PICK minutes, hours : /\ minutes = m \div FramesPerMinute(standard)
                                /\ hours = minutes \div 60
      OBVIOUS
    <3>6. l.word = EncodeTimeCode(IF hours > MaxHours THEN MaxHours ELSE hours,
                                  minutes % 60)
      BY <3>4, <3>5 DEF TimeCodeOf
    <3>7. hours \in Int
      <4>1. m \in Nat
        <5>1. PICK a : a = Anchor(project, "programme_time_code", current)
          OBVIOUS
        <5>2. \A t \in Listing(project, "programme_time_code") :
                project.sections[t].codes["programme_time_code"] = Unset
          BY <3>1, Seen, AnchorFits
        <5>3. a = Earliest(Listing(project, "programme_time_code"))
          BY <5>1, <5>2, AnchorOfUnstated
        <5> QED BY <3>1, <3>2, <5>1, <5>3, SeenCount
      <4>2. PICK w : w = FramesPerMinute(standard)
        OBVIOUS
      <4>3. w \in Nat \ {0}
        <5>1. IsDisc(project)
          BY <3>1, Seen
        <5>2. /\ FramesPerSecond[standard] \in Nat \ {0}
              /\ SecondsPerMinute \in Nat \ {0}
          BY <2>1, <5>1, Scale DEF IsDisc
        <5>3. \A x, y \in Nat \ {0} : x * y \in Nat \ {0}
          OBVIOUS
        <5> QED BY <4>2, <5>2, <5>3 DEF FramesPerMinute
      <4>4. minutes \in Nat
        BY <3>5, <4>1, <4>2, <4>3, Euclid
      <4> QED BY <3>5, <4>4
    <3>8. (IF hours > MaxHours THEN MaxHours ELSE hours) = Min(MaxHours, hours)
      BY <3>7 DEF Min, MaxHours
    <3> QED BY <2>1, <3>2, <3>5, <3>6, <3>8
  <2> QED BY <2>1, <2>3, <2>4 DEF ClvClockRuns
<1> QED BY <1>1, DiscCorrect, PTL

-------------------------------------------------------------------------------
(* The section list's own count.                                           *)
PositionCode(p) == IF p.disc = "CAV" THEN "picture_number" ELSE "clv_picture_number"

(* A disc that is numbered throughout its programme.                       *)
Numbered(p) ==
  \A s \in DOMAIN p.sections :
    p.sections[s].type = "programme_area" =>
      /\ HasLaserdisc(p.sections[s])
      /\ Lists(p.sections[s], PositionCode(p))
      /\ p.disc = "CAV" => p.sections[s].codes["picture_number"] # 0
      /\ \A t \in DOMAIN p.sections : p.sections[t].type = "unknown" => t < s
      /\ \A t \in DOMAIN p.sections :
           p.sections[t].type = "programme_area" /\ p.sections[t].open_ended => t >= s

LEMMA NumberedIs == CodedThroughout <=> Numbered(project)
BY DEF CodedThroughout, Numbered, Programme, PositionCode

LEMMA NumberedListing ==
  ASSUME NEW p, IsDisc(p), Numbered(p), p.disc \in DiscTypes,
         NEW s \in 1 .. Len(p.sections)
  PROVE  s \in Listing(p, PositionCode(p)) <=> p.sections[s].type = "programme_area"
<1>1. PICK code : code = PositionCode(p)
  OBVIOUS
<1>2. s \in DOMAIN p.sections
  BY SectionsOfDisc
<1>3. ASSUME s \in Listing(p, code) PROVE p.sections[s].type = "programme_area"
  <2>1. HasLaserdisc(p.sections[s]) /\ code \in DOMAIN p.sections[s].codes
    BY <1>3 DEF Listing, Lists
  <2>2. ValidForSection(code, p.sections[s].type)
    BY <2>1, SectionCarries DEF MayCarry
  <2> QED BY <1>1, <2>2 DEF PositionCode, ValidForSection
<1>4. ASSUME p.sections[s].type = "programme_area" PROVE s \in Listing(p, code)
  BY <1>1, <1>2, <1>4 DEF Numbered, Listing
<1> QED BY <1>1, <1>3, <1>4

(* The frames of a coded section are all counted.                          *)
LEMMA StepsThrough ==
  ASSUME NEW p, IsDisc(p), NEW s \in 1 .. Len(p.sections),
         HasLaserdisc(p.sections[s]),
         NEW a \in 1 .. Len(p.sections), a <= s,
         NEW d \in 0 .. p.sections[s].duration
  PROVE  StepsOf(p, a, FirstFrame(p, s) + d) = StepsOf(p, a, FirstFrame(p, s)) + d
<1>1. PICK b, w : b = FirstFrame(p, s) /\ w = p.sections[s].duration
  OBVIOUS
<1>2. PICK S : S = {m \in 0 .. w : StepsOf(p, a, b + m) = StepsOf(p, a, b) + m}
  OBVIOUS
<1>3. b \in Nat /\ w \in Nat /\ StepsOf(p, a, b) \in Nat /\ FramesBefore(p, s) = b + w
  <2>1. s <= s
    BY SectionsOfDisc
  <2>2. b \in Nat
    BY <1>1, <2>1, FirstFramesRise
  <2>3. FramesBefore(p, s) = b + w /\ w \in Nat
    BY <1>1, FramesSum, SectionsOfDisc DEF FirstFrame
  <2> QED BY <2>2, <2>3, StepsAre
<1>4. 0 \in S
  <2>1. b + 0 = b /\ StepsOf(p, a, b) + 0 = StepsOf(p, a, b) /\ 0 \in 0 .. w
    BY <1>3
  <2> QED BY <1>2, <2>1
<1>5. ASSUME NEW m \in 1 .. w, m - 1 \in S PROVE m \in S
  <2>1. PICK k : k = b + (m - 1)
    OBVIOUS
  <2>2. k \in Nat /\ k + 1 = b + m /\ FirstFrame(p, s) <= k /\ k < FramesBefore(p, s)
    <3>1. b \in Nat /\ w \in Nat /\ m \in 1 .. w
      BY <1>3
    <3>2. k \in Nat /\ k + 1 = b + m /\ b <= k /\ k < b + w
      BY ONLY <2>1, <3>1
    <3> QED BY <1>1, <1>3, <3>2
  <2>3. SectionOf(p, k) = s
    BY <2>2, SectionIsOnly
  <2>4. StepsOf(p, a, k + 1) = StepsOf(p, a, k) + 1
    BY <2>2, <2>3, StepsGoOn
  <2>5. StepsOf(p, a, k) = StepsOf(p, a, b) + (m - 1)
    BY <1>2, <1>5, <2>1
  <2>6. StepsOf(p, a, b + m) = StepsOf(p, a, b) + m
    BY <1>3, <2>2, <2>4, <2>5
  <2> QED BY <1>2, <2>6
<1>6. S = 0 .. w
  <2>1. S \in SUBSET (0 .. w)
    BY <1>2
  <2> QED BY <1>3, <1>4, <1>5, <2>1, UpTo
<1>7. d \in S
  BY <1>1, <1>6
<1> QED BY <1>1, <1>2, <1>7

(* The list's position at frame k of section s, from the disc's numbers.   *)
PositionAt(p, s, k) ==
  LET code == PositionCode(p)
      a == Anchor(p, code, s)
  IN  AnchorOf(p.sections[a], code) - DefaultAnchor(code) + StepsOf(p, a, k)

LEMMA PositionIs ==
  ASSUME NEW p, IsDisc(p), Numbered(p), p.disc \in DiscTypes, NEW s \in Nat,
         ListedBy(p, PositionCode(p), s), NEW k \in Nat
  PROVE  /\ PositionAt(p, s, k) \in Nat
         /\ Anchor(p, PositionCode(p), s) \in 1 .. Len(p.sections)
         /\ Anchor(p, PositionCode(p), s) <= s
<1>1. PICK code, a : code = PositionCode(p) /\ a = Anchor(p, code, s)
  OBVIOUS
<1>2. a \in Listing(p, code) /\ a <= s /\ a \in 1 .. Len(p.sections)
  BY <1>1, AnchorIsListed, ListingIs
<1>3. StepsOf(p, a, k) \in Nat
  BY <1>2, StepsAre
<1>4. PICK x : x = AnchorOf(p.sections[a], code)
  OBVIOUS
<1>5. code \in Persistent
  BY <1>1 DEF PositionCode, Persistent
<1>6. x \in Nat
  BY <1>2, <1>4, <1>5, AnchorFits
<1>7. x - DefaultAnchor(code) \in Nat
  <2>1. CASE p.disc = "CAV"
    <3>1. code = "picture_number"
      BY <1>1, <2>1 DEF PositionCode
    <3>2. p.sections[a].type = "programme_area"
      BY <1>1, <1>2, NumberedListing
    <3>3. p.sections[a].codes[code] # 0
      BY <1>2, <2>1, <3>1, <3>2, SectionsOfDisc DEF Numbered
    <3>4. x # 0
      BY <1>4, <3>1, <3>3 DEF AnchorOf, DefaultAnchor
    <3> QED BY <1>6, <3>1, <3>4 DEF DefaultAnchor
  <2>2. CASE p.disc # "CAV"
    BY <1>1, <1>6, <2>2 DEF PositionCode, DefaultAnchor
  <2> QED BY <2>1, <2>2
<1> QED BY <1>1, <1>2, <1>3, <1>4, <1>7 DEF PositionAt

(* BuildDiscFrameOffsets takes one step for every section.                 *)
LEMMA ListSteps ==
  ASSUME NEW p, IsDisc(p), Numbered(p), p.disc \in DiscTypes
  PROVE  \E f \in [0 .. Len(p.sections) -> Int \X Int] :
           /\ f[0] = <<-1, -1>>
           /\ \A k \in 1 .. Len(p.sections) :
                f[k] = Counted(p, p.sections[k], f[k - 1][2])
           /\ \A k \in 1 .. Len(p.sections) : BuildDiscFrameOffsets(p)[k] = f[k][1]
<1>1. PICK n, V : n = Len(p.sections) /\ V = Int \X Int
  OBVIOUS
<1>2. n \in Nat /\ DOMAIN p.sections = 1 .. n
  BY <1>1, SectionsOfDisc
<1>3. ASSUME NEW k \in 1 .. n, NEW counter \in Int
      PROVE  Counted(p, p.sections[k], counter) \in V
  <2>1. PICK section : section = p.sections[k]
    OBVIOUS
  <2>2. PICK m : m = Reanchored(p, section, counter)
    OBVIOUS
  <2>3. section.type = "programme_area" => m \in Int
    <3> SUFFICES ASSUME section.type = "programme_area" PROVE m \in Int
      OBVIOUS
    <3>1. HasLaserdisc(section) /\ section.type = "programme_area"
      BY <1>2, <2>1 DEF Numbered
    <3>2. CASE p.disc = "CAV" /\ Lists(section, "picture_number")
               /\ section.codes["picture_number"] # Unset
      <4>1. MayAnchor(p.standard, "picture_number", section.codes["picture_number"])
        BY <1>1, <2>1, <3>1, <3>2, SectionCarries DEF MayCarry, Lists
      <4>2. section.codes["picture_number"] \in Int
        BY <3>2, <4>1 DEF MayAnchor
      <4> QED BY <2>2, <3>2, <4>2 DEF Reanchored
    <3>3. CASE ~(p.disc = "CAV" /\ Lists(section, "picture_number")
                 /\ section.codes["picture_number"] # Unset)
      BY <2>2, <3>3 DEF Reanchored
    <3> QED BY <3>2, <3>3
  <2>4. PICK at : at = IF section.type # "programme_area" THEN counter
                       ELSE IF m < 0 THEN 0 ELSE m
    OBVIOUS
  <2>5. at \in Int
    BY <2>3, <2>4
  <2>6. Counted(p, section, counter) =
          <<IF section.type = "programme_area" THEN at ELSE -1,
            IF at < 0 \/ section.open_ended THEN at ELSE at + section.duration>>
    BY <2>2, <2>4 DEF Counted
  <2>7. section.duration \in Int
    BY <1>1, <2>1, SectionsOfDisc
  <2> QED BY <1>1, <2>1, <2>5, <2>6, <2>7
<1>4. PICK step : step = [a \in (1 .. n) \X V |-> Counted(p, p.sections[a[1]], a[2][2])]
  OBVIOUS
<1>5. \A k \in 1 .. n, v \in V : step[<<k, v>>] = Counted(p, p.sections[k], v[2])
  BY <1>4
<1>6. step \in [(1 .. n) \X V -> V]
  <2>1. ASSUME NEW a \in (1 .. n) \X V PROVE step[a] \in V
    <3>1. a[1] \in 1 .. n /\ a[2][2] \in Int
      BY <1>1, <2>1
    <3>2. step[a] = Counted(p, p.sections[a[1]], a[2][2])
      BY <1>4
    <3> QED BY <1>3, <3>1, <3>2
  <2> QED BY <1>4, <2>1
<1>7. PICK base : base = <<-1, -1>>
  OBVIOUS
<1>8. base \in V
  BY <1>1, <1>7
<1>9. PICK f \in [0 .. n -> V] :
        f[0] = base /\ \A k \in 1 .. n : f[k] = step[<<k, f[k - 1]>>]
  <2>1. Goes(V, n, base, step)
    BY ONLY <1>2, <1>6, <1>8, StepsLead
  <2> QED BY <2>1 DEF Goes
<1>10. ASSUME NEW k \in 1 .. n PROVE f[k] = Counted(p, p.sections[k], f[k - 1][2])
  <2>1. f[k - 1] \in V
    BY <1>2
  <2> QED BY <1>5, <1>9, <2>1
<1>11. PICK g : g = CHOOSE h : h = [s \in 0 .. n |->
                      IF s = 0 THEN <<-1, -1>>
                      ELSE Counted(p, p.sections[s], h[s - 1][2])]
  OBVIOUS
<1>12. g = [s \in 0 .. n |-> IF s = 0 THEN <<-1, -1>>
                             ELSE Counted(p, p.sections[s], g[s - 1][2])]
  <2>1. f = [s \in 0 .. n |-> IF s = 0 THEN <<-1, -1>>
                              ELSE Counted(p, p.sections[s], f[s - 1][2])]
    BY <1>2, <1>7, <1>9, <1>10
  <2> QED BY <1>11, <2>1
<1>13. \A k \in 1 .. n : BuildDiscFrameOffsets(p)[k] = g[k][1]
  BY <1>1, <1>2, <1>11 DEF BuildDiscFrameOffsets
<1>14. PICK S : S = {k \in 0 .. n : g[k] = f[k]}
  OBVIOUS
<1>15. S = 0 .. n
  <2>1. 0 \in S
    BY <1>2, <1>7, <1>9, <1>12, <1>14
  <2>2. ASSUME NEW k \in 1 .. n, k - 1 \in S PROVE k \in S
    <3>1. k \in 0 .. n /\ k # 0 /\ g[k - 1] = f[k - 1]
      BY <1>2, <1>14, <2>2
    <3>2. g[k] = Counted(p, p.sections[k], g[k - 1][2])
      BY <1>12, <3>1
    <3> QED BY <1>10, <1>14, <3>1, <3>2
  <2>3. S \in SUBSET (0 .. n)
    BY <1>14
  <2> QED BY <1>2, <2>1, <2>2, <2>3, UpTo
<1>16. \A k \in 1 .. n : g[k] = f[k]
  BY <1>2, <1>14, <1>15
<1>17. \A k \in 1 .. n : BuildDiscFrameOffsets(p)[k] = f[k][1]
  BY <1>13, <1>16
<1>18. f \in [0 .. Len(p.sections) -> Int \X Int] /\ f[0] = <<-1, -1>>
  BY <1>1, <1>7, <1>9
<1> QED BY <1>1, <1>10, <1>17, <1>18

(* The list and the disc agree from the programme's first section on.      *)
LEMMA ListAgrees ==
  ASSUME NEW p, IsDisc(p), Numbered(p), p.disc \in DiscTypes,
         NEW t \in 1 .. Len(p.sections), p.sections[t].type = "programme_area"
  PROVE  BuildDiscFrameOffsets(p)[t] = PositionAt(p, t, FirstFrame(p, t))
<1>1. PICK n, code : n = Len(p.sections) /\ code = PositionCode(p)
  OBVIOUS
<1>2. n \in Nat /\ DOMAIN p.sections = 1 .. n /\ t \in 1 .. n
  BY <1>1, SectionsOfDisc
<1>3. PICK f \in [0 .. n -> Int \X Int] :
        /\ f[0] = <<-1, -1>>
        /\ \A k \in 1 .. n : f[k] = Counted(p, p.sections[k], f[k - 1][2])
        /\ \A k \in 1 .. n : BuildDiscFrameOffsets(p)[k] = f[k][1]
  BY <1>1, ListSteps
<1> DEFINE After(s) == IF ~ListedBy(p, code, s) THEN f[s][2] = -1
                       ELSE \/ p.sections[s].type = "lead_out"
                            \/ /\ p.sections[s].type = "programme_area"
                               /\ p.sections[s].open_ended
                            \/ f[s][2] = PositionAt(p, s, FramesBefore(p, s))
           At(s) == s # 0 /\ p.sections[s].type = "programme_area" =>
                      f[s][1] = PositionAt(p, s, FirstFrame(p, s))
<1>4. PICK S : S = {s \in 0 .. n : After(s) /\ At(s)}
  OBVIOUS
<1>5. 0 \in S
  <2>1. ~ListedBy(p, code, 0)
    BY ListingIs DEF ListedBy
  <2>2. f[0][2] = -1
    BY <1>3
  <2> QED BY <1>2, <1>4, <2>1, <2>2
<1>6. ASSUME NEW s \in 1 .. n, s - 1 \in S PROVE s \in S
  <2>1. PICK section, b, u : /\ section = p.sections[s] /\ b = FirstFrame(p, s)
                             /\ u = f[s - 1][2]
    OBVIOUS
  <2>2. /\ s \in Nat /\ s - 1 \in Nat /\ s - 1 \in 0 .. n /\ s \in 0 .. n
        /\ s \in 1 .. Len(p.sections)
    BY <1>1, <1>2
  <2>3. b \in Nat /\ b = FramesBefore(p, s - 1) /\ section.duration \in Nat
        /\ FramesBefore(p, s) = b + section.duration
    BY <1>1, <2>1, <2>2, FramesSum, SectionsOfDisc DEF FirstFrame
  <2>4. After(s - 1)
    BY <1>4, <1>6
  <2>5. u \in Int
    <3>1. f[s - 1] \in Int \X Int
      BY <1>3, <2>2
    <3> QED BY <2>1, <3>1
  <2>6. ListedBy(p, code, s) <=> ListedBy(p, code, s - 1) \/ s \in Listing(p, code)
    BY <2>2, ListedFrom
  <2>7. s \in Listing(p, code) <=> section.type = "programme_area"
    BY <1>1, <2>1, <2>2, NumberedListing
  <2>8. f[s] = Counted(p, section, u)
    BY <1>3, <2>1
  <2>9. CASE section.type = "programme_area"
    <3>1. HasLaserdisc(section) /\ Lists(section, code) /\ ListedBy(p, code, s)
      BY <1>1, <1>2, <2>1, <2>6, <2>7, <2>9 DEF Numbered
    <3>2. PICK a, x, m : /\ a = Anchor(p, code, s) /\ m = StepsOf(p, a, b)
                         /\ x = AnchorOf(p.sections[a], code) - DefaultAnchor(code)
      OBVIOUS
    <3>3. PositionAt(p, s, b) = x + m
      BY <1>1, <3>2 DEF PositionAt
    <3>4. PositionAt(p, s, b) \in Nat /\ a \in 1 .. Len(p.sections) /\ a <= s
      BY <1>1, <2>2, <2>3, <3>1, <3>2, PositionIs
    <3>5. PICK r : r = Reanchored(p, section, u)
      OBVIOUS
    <3>6. (IF r < 0 THEN 0 ELSE r) = PositionAt(p, s, b)
      <4>1. CASE States(p, code, s)
        <5>1. a = s /\ m = 0
          BY <1>1, <2>1, <2>2, <3>2, <4>1, AnchorMoves, StepsStart
        <5>2. section.codes[code] # Unset
          BY <2>1, <4>1 DEF States
        <5>3. p.disc = "CAV" /\ code = "picture_number"
          <6>1. ASSUME p.disc # "CAV" PROVE FALSE
            <7>1. code = "clv_picture_number" /\ code \in Persistent
              BY <1>1, <6>1 DEF PositionCode, Persistent
            <7> QED BY <2>1, <2>7, <2>9, <5>2, <7>1, AnchorFits
          <6> QED BY <1>1, <6>1 DEF PositionCode
        <5>4. r = section.codes["picture_number"] - 1
          BY <3>1, <3>5, <5>2, <5>3 DEF Reanchored
        <5>5. x = section.codes["picture_number"] - 1
          BY <2>1, <3>2, <5>1, <5>2, <5>3 DEF AnchorOf, DefaultAnchor
        <5>6. r = x /\ x + m \in Nat
          BY <3>3, <3>4, <5>4, <5>5
        <5>7. MayAnchor(p.standard, "picture_number", section.codes["picture_number"])
          BY <2>1, <2>2, <3>1, <5>3, SectionCarries DEF MayCarry, Lists
        <5>8. section.codes["picture_number"] \in Int
          BY <5>2, <5>3, <5>7 DEF MayAnchor
        <5>9. r \in Int
          BY <5>4, <5>8
        <5> QED BY <3>3, <5>1, <5>6, <5>9
      <4>2. CASE ~States(p, code, s)
        <5>1. r = u
          <6>1. p.disc = "CAV" => section.codes["picture_number"] = Unset
            BY <1>1, <2>1, <2>7, <2>9, <4>2 DEF States, PositionCode
          <6> QED BY <3>5, <6>1 DEF Reanchored
        <5>2. CASE ListedBy(p, code, s - 1)
          <6>1. s - 1 \in DOMAIN p.sections
            <7>1. PICK t1 \in Listing(p, code) : t1 <= s - 1
              BY <5>2 DEF ListedBy
            <7>2. t1 \in 1 .. Len(p.sections)
              BY <7>1, ListingIs
            <7> QED BY <1>1, <1>2, <2>2, <7>1, <7>2
          <6>2. p.sections[s - 1].type # "lead_out"
            <7>1. p.sections[s - 1].type = "lead_out" => s - 1 = Len(p.sections)
              BY <6>1 DEF IsDisc
            <7>2. s - 1 # n
              BY <1>2, <2>2
            <7> QED BY <1>1, <1>2, <7>1, <7>2
          <6>3. ~(/\ p.sections[s - 1].type = "programme_area"
                  /\ p.sections[s - 1].open_ended)
            <7>1. s \in DOMAIN p.sections /\ ~(s - 1 >= s)
              BY <1>2, <2>2
            <7> QED BY <2>1, <2>9, <6>1, <7>1 DEF Numbered
          <6>4. u = PositionAt(p, s - 1, b)
            BY <2>1, <2>3, <2>4, <5>2, <6>2, <6>3
          <6>5. PositionAt(p, s - 1, b) = PositionAt(p, s, b)
            BY <1>1, <2>2, <4>2, AnchorStays DEF PositionAt
          <6> QED BY <3>4, <5>1, <6>4, <6>5
        <5>3. CASE ~ListedBy(p, code, s - 1)
          <6>1. u = -1
            BY <2>1, <2>4, <5>3
          <6>2. a = s
            BY <2>7, <2>9, <3>2, <5>3, AnchorBegins
          <6>3. m = 0
            BY <2>1, <2>2, <3>2, <6>2, StepsStart
          <6>4. x = DefaultAnchor(code) - DefaultAnchor(code)
            BY <2>1, <2>7, <2>9, <3>2, <4>2, <6>2 DEF States, AnchorOf
          <6>5. DefaultAnchor(code) \in Int
            BY DEF DefaultAnchor
          <6> QED BY <3>3, <5>1, <6>1, <6>3, <6>4, <6>5
        <5> QED BY <5>2, <5>3
      <4> QED BY <4>1, <4>2
    <3>7. PICK at : at = PositionAt(p, s, b)
      OBVIOUS
    <3>8. at \in Nat /\ f[s] = <<at, IF section.open_ended THEN at
                                     ELSE at + section.duration>>
      <4>1. Counted(p, section, u) =
              <<IF r < 0 THEN 0 ELSE r,
                IF (IF r < 0 THEN 0 ELSE r) < 0 \/ section.open_ended
                THEN IF r < 0 THEN 0 ELSE r
                ELSE (IF r < 0 THEN 0 ELSE r) + section.duration>>
        BY <2>9, <3>5 DEF Counted
      <4>2. at \in Nat /\ ~(at < 0)
        BY <3>4, <3>7
      <4>3. Counted(p, section, u) =
              <<at, IF at < 0 \/ section.open_ended THEN at ELSE at + section.duration>>
        BY <3>6, <3>7, <4>1
      <4> QED BY <2>8, <4>2, <4>3
    <3>9. StepsOf(p, a, b + section.duration) = m + section.duration
      <4>1. section.duration \in 0 .. p.sections[s].duration
        BY <2>1, <2>3
      <4> QED BY <2>1, <2>2, <3>1, <3>2, <3>4, <4>1, StepsThrough
    <3>10. PositionAt(p, s, FramesBefore(p, s)) = x + (m + section.duration)
      BY <1>1, <2>3, <3>2, <3>9 DEF PositionAt
    <3>11. x + (m + section.duration) = at + section.duration
      <4>1. m \in Nat /\ x + m \in Nat
        BY <2>3, <3>2, <3>3, <3>4, StepsAre
      <4>2. x \in Int
        <5>1. a \in Listing(p, code) /\ code \in Persistent
          BY <1>1, <2>2, <3>1, <3>2, AnchorIsListed DEF PositionCode, Persistent
        <5>2. AnchorOf(p.sections[a], code) \in Nat /\ DefaultAnchor(code) \in Int
          BY <5>1, AnchorFits DEF DefaultAnchor
        <5> QED BY <3>2, <5>2
      <4> QED BY <2>3, <3>3, <3>7, <4>1, <4>2
    <3>12. /\ f[s][1] = at
           /\ section.open_ended \/ f[s][2] = PositionAt(p, s, FramesBefore(p, s))
      BY <3>8, <3>10, <3>11
    <3> QED BY <1>4, <2>1, <2>2, <2>9, <3>1, <3>7, <3>12
  <2>10. CASE section.type # "programme_area"
    <3>1. f[s] = <<-1, IF u < 0 \/ section.open_ended THEN u ELSE u + section.duration>>
      BY <2>8, <2>10 DEF Counted
    <3>2. ListedBy(p, code, s) => section.type = "lead_out"
      <4>1. ASSUME ListedBy(p, code, s), section.type # "lead_out" PROVE FALSE
        <5>1. PICK t1 \in Listing(p, code) : t1 <= s
          BY <4>1 DEF ListedBy
        <5>2. t1 \in 1 .. Len(p.sections) /\ t1 # s
          BY <2>7, <2>10, <5>1, ListingIs
        <5>3. p.sections[t1].type = "programme_area"
          BY <1>1, <5>1, <5>2, NumberedListing
        <5>4. section.type \in {"lead_in", "unknown"}
          <6>1. section.type \in SectionTypes
            BY <1>2, <2>1 DEF IsDisc
          <6> QED BY <2>10, <4>1, <6>1 DEF SectionTypes
        <5>5. section.type # "lead_in"
          <6>1. section.type = "lead_in" => s = 1
            BY <1>2, <2>1 DEF IsDisc
          <6>2. s # 1
            BY <1>1, <2>2, <5>1, <5>2
          <6> QED BY <6>1, <6>2
        <5>6. s < t1
          BY <1>1, <1>2, <2>1, <5>2, <5>3, <5>4, <5>5 DEF Numbered
        <5> QED BY <1>1, <1>2, <2>2, <5>1, <5>2, <5>6
      <4> QED BY <4>1
    <3>3. ~ListedBy(p, code, s) => f[s][2] = -1
      <4>1. ASSUME ~ListedBy(p, code, s) PROVE f[s][2] = -1
        <5>1. u = -1
          BY <2>1, <2>4, <2>6, <4>1
        <5> QED BY <3>1, <5>1
      <4> QED BY <4>1
    <3> QED BY <1>4, <2>1, <2>2, <2>10, <3>2, <3>3
  <2> QED BY <2>9, <2>10
<1> HIDE DEF After
<1>7. S = 0 .. n
  <2>1. S \in SUBSET (0 .. n)
    BY <1>4
  <2> QED BY <1>2, <1>5, <1>6, <2>1, UpTo
<1>8. t \in S /\ t # 0
  BY <1>2, <1>7
<1>9. At(t)
  BY <1>4, <1>8
<1> QED BY <1>2, <1>3, <1>8, <1>9

(* A line that carries a position's code stands in the list's programme.   *)
LEMMA PositionSeen ==
  ASSUME DiscInvariant, frame # NoFrame, CodedThroughout,
         NEW l \in frame.vbi_lines, l.code \in {"picture_number", "clv_picture_number"},
         NEW a, a = Anchor(project, l.code, current)
  PROVE  /\ l.code = PositionCode(project)
         /\ ListedPosition(current) =
              AnchorOf(project.sections[a], l.code) - DefaultAnchor(l.code)
                + StepsSince(a)
         /\ AnchorOf(project.sections[a], l.code) \in Nat
         /\ StepsSince(a) \in Nat
<1>1. PICK p, s, k, code : /\ p = project /\ s = current /\ k = Index
                           /\ code = l.code
  OBVIOUS
<1>2. /\ IsDisc(p) /\ s \in 1 .. Len(p.sections) /\ s \in Nat /\ k \in Nat
      /\ HasLaserdisc(p.sections[s])
      /\ SectionOf(p, k) = s /\ FirstFrame(p, s) <= k
  BY <1>1, Seen
<1>3. code \in Persistent
  BY <1>1 DEF Persistent
<1>4. /\ a \in Listing(p, code) /\ ListedBy(p, code, s)
      /\ StepsSince(a) \in Nat /\ StepsSince(a) = StepsOf(p, a, k)
  BY <1>1, <1>3, SeenCount
<1>5. p.disc \in DiscTypes
  <2>1. MayBeCoded(p, s) /\ s # 0
    BY <1>1, <1>2, SectionsOfDisc DEF DiscInvariant
  <2> QED BY <1>2, <2>1 DEF MayBeCoded
<1>6. Numbered(p)
  BY <1>1, NumberedIs
<1>7. code = PositionCode(p)
  <2>1. a \in 1 .. Len(p.sections) /\ HasLaserdisc(p.sections[a])
        /\ code \in DOMAIN p.sections[a].codes
    BY <1>2, <1>4, ListingIs DEF Listing, Lists
  <2>2. (p.disc = "CAV" => code \in ValidCav) /\ (p.disc = "CLV" => code \in ValidClv)
    BY <1>2, <2>1, SectionCarries DEF MayCarry
  <2> QED BY <1>1, <1>5, <2>2 DEF DiscTypes, ValidCav, ValidClv, PositionCode
<1>8. p.sections[s].type = "programme_area"
  <2>1. ValidForSection(code, p.sections[s].type)
    BY <1>1 DEF DiscInvariant, FrameIs
  <2> QED BY <1>1, <2>1 DEF ValidForSection
<1>9. BuildDiscFrameOffsets(p)[s] = PositionAt(p, s, FirstFrame(p, s))
  BY <1>2, <1>5, <1>6, <1>8, ListAgrees
<1>10. PICK x, b : /\ x = AnchorOf(p.sections[a], code) - DefaultAnchor(code)
                   /\ b = FirstFrame(p, s)
  OBVIOUS
<1>11. AnchorOf(p.sections[a], code) \in Nat /\ x \in Int
  <2>1. AnchorOf(p.sections[a], code) \in Nat /\ DefaultAnchor(code) \in Int
    BY <1>2, <1>3, <1>4, AnchorFits DEF DefaultAnchor
  <2> QED BY <1>10, <2>1
<1>12. a \in 1 .. Len(p.sections) /\ a <= s
  BY <1>1, <1>2, <1>4, AnchorIsListed, ListingIs
<1>13. /\ b \in Nat /\ FramesBefore(p, s) = b + p.sections[s].duration
       /\ p.sections[s].duration \in Nat
       /\ k < FramesBefore(p, s)
  <2>1. s <= s
    BY <1>2
  <2>2. b \in Nat
    BY <1>2, <1>10, <2>1, FirstFramesRise
  <2>3. FramesBefore(p, s) = b + p.sections[s].duration /\ p.sections[s].duration \in Nat
    BY <1>2, <1>10, FramesSum, SectionsOfDisc DEF FirstFrame
  <2>4. position <= FramesBefore(p, s)
    BY <1>1, <1>2, SectionsOfDisc DEF DiscInvariant, Placed
  <2>5. position = k + 1
    <3>1. position \in 0 .. FrameTotal(p) /\ k = position - 1
      BY <1>1 DEF DiscInvariant, Placed, Index
    <3> QED BY <1>2, <3>1
  <2> QED BY <1>2, <2>2, <2>3, <2>4, <2>5
<1>14. StepsOf(p, a, k) = StepsOf(p, a, b) + (k - b)
  <2>1. PICK d : d = k - b
    OBVIOUS
  <2>2. d \in 0 .. p.sections[s].duration /\ b + d = k
    BY <1>2, <1>10, <1>13, <2>1
  <2>3. StepsOf(p, a, b + d) = StepsOf(p, a, b) + d
    BY <1>2, <1>10, <1>12, <2>2, StepsThrough
  <2> QED BY <2>1, <2>2, <2>3
<1>15. PositionAt(p, s, b) = x + StepsOf(p, a, b)
  BY <1>1, <1>7, <1>10 DEF PositionAt
<1>16. ListedPosition(s) = BuildDiscFrameOffsets(p)[s] + k - b
  BY <1>1, <1>10 DEF ListedPosition
<1>17. ListedPosition(s) = x + StepsOf(p, a, k)
  <2>1. StepsOf(p, a, b) \in Nat
    BY <1>2, <1>12, <1>13, StepsAre
  <2> QED BY <1>2, <1>9, <1>10, <1>11, <1>13, <1>14, <1>15, <1>16, <2>1
<1> QED BY <1>1, <1>4, <1>7, <1>10, <1>11, <1>17

(* The positions of the section list are those the disc carries, for a     *)
(* programme that is numbered throughout and in which no section but the   *)
(* last takes its length from its source (BuildDiscFrameOffsets).          *)
THEOREM ListShowsTheDisc == Spec => []ListShowsDiscPosition
<1>1. DiscInvariant => ListShowsDiscPosition
  <2> SUFFICES ASSUME DiscInvariant, frame # NoFrame, CodedThroughout
               PROVE  ListShowsDiscPosition
    BY DEF ListShowsDiscPosition
  <2>1. ASSUME NEW l \in Carried("picture_number")
        PROVE  DecodePictureNumber(l.word) =
                 Min(MaxPictureNumber[project.standard],
                     ListedPosition(frame.section) + 1)
    <3>1. l \in frame.vbi_lines /\ l.code = "picture_number"
      BY DEF Carried
    <3>2. frame.section = current
      BY <3>1, Seen
    <3>3. PICK a : a = Anchor(project, "picture_number", current)
      OBVIOUS
    <3>4. PICK x, m : /\ x = AnchorOf(project.sections[a], "picture_number")
                      /\ m = StepsSince(a)
      OBVIOUS
    <3>5. ListedPosition(current) = x - 1 + m /\ x \in Nat /\ m \in Nat
      BY <3>1, <3>3, <3>4, PositionSeen DEF DefaultAnchor
    <3>6. ListedPosition(current) + 1 = x + m
      BY <3>5
    <3>7. DecodePictureNumber(l.word) = Min(MaxPictureNumber[project.standard], x + m)
      BY <3>2, <3>3, <3>4, NumberSeen
    <3> QED BY <3>2, <3>6, <3>7
  <2>2. ASSUME project.standard # "NTSC", NEW l \in Carried("clv_picture_number")
        PROVE  LET t == ClvTimecodeForFrame(ListedPosition(frame.section),
                                            project.standard)
               IN  l.word = EncodeClvPictureNumber(t.seconds, t.frames)
    <3>1. l \in frame.vbi_lines /\ l.code = "clv_picture_number" /\ l.code \in Persistent
      BY DEF Carried, Persistent
    <3>2. frame.section = current /\ IsDisc(project)
      BY <3>1, Seen
    <3>3. PICK a, m, fps : /\ a = Anchor(project, "clv_picture_number", current)
                           /\ m = StepsSince(a)
                           /\ fps = FramesPerSecond[project.standard]
      OBVIOUS
    <3>4. a \in Listing(project, "clv_picture_number")
          /\ l.word = CurrentCode(project.standard, "clv_picture_number",
                        CounterAt(project.standard, "clv_picture_number",
                          AnchorOf(project.sections[a], "clv_picture_number"), m))
      BY <3>1, <3>3, SeenCount
    <3>5. AnchorOf(project.sections[a], "clv_picture_number") = 0
      <4>1. project.sections[a].codes["clv_picture_number"] = Unset
        BY <3>1, <3>2, <3>4, AnchorFits
      <4> QED BY <4>1 DEF AnchorOf, DefaultAnchor
    <3>6. ListedPosition(current) = m
      <4>1. /\ ListedPosition(current) =
                 AnchorOf(project.sections[a], "clv_picture_number")
                   - DefaultAnchor("clv_picture_number") + m
            /\ m \in Nat
        BY <3>1, <3>3, PositionSeen
      <4> QED BY <3>5, <4>1 DEF DefaultAnchor
    <3>7. Corrected(project.standard, m) = m
      BY <2>2 DEF Corrected
    <3>8. PICK g : g = ClockAt(project.standard, m)
      OBVIOUS
    <3>9. g.seconds = (m \div fps) % SecondsPerMinute /\ g.frame = m % fps
      BY <3>3, <3>7, <3>8 DEF ClockAt
    <3>10. l.word = EncodeClvPictureNumber(g.seconds, g.frame)
      BY <3>4, <3>8 DEF CurrentCode, CounterAt
    <3>11. PICK t : t = ClvTimecodeForFrame(m, project.standard)
      OBVIOUS
    <3>12. t.seconds = (m \div fps) % SecondsPerMinute /\ t.frames = m % fps
      BY <3>3, <3>11 DEF ClvTimecodeForFrame
    <3> QED BY <3>2, <3>6, <3>9, <3>10, <3>11, <3>12
  <2> QED BY <2>1, <2>2 DEF ListShowsDiscPosition
<1> QED BY <1>1, DiscCorrect, PTL

-------------------------------------------------------------------------------
(* What a player recognises.                                               *)
LEMMA FixedWordsAre ==
  ASSUME NEW w
  PROVE  /\ w = LeadInWord => w[1] = 8 /\ w[2] = 8 /\ w[3] = 15 /\ w[4] = 15
         /\ w = LeadOutWord => w[1] = 8 /\ w[2] = 0 /\ w[3] = 14 /\ w[4] = 14
         /\ w = PictureStopWord => w[1] = 8 /\ w[2] = 2 /\ w[3] = 12 /\ w[4] = 15
         /\ w = ClvWord => w[1] = 8 /\ w[2] = 7 /\ w[3] = 15 /\ w[4] = 15
BY DEF LeadInWord, LeadOutWord, PictureStopWord, ClvWord

LEMMA FixedRecognised ==
  /\ Recognise(LeadInWord) = "lead_in"
  /\ Recognise(LeadOutWord) = "lead_out"
  /\ Recognise(PictureStopWord) = "picture_stop"
  /\ Recognise(ClvWord) = "clv_code"
<1>1. LeadOutWord # LeadInWord
  BY FixedWordsAre
<1>2. PictureStopWord # LeadInWord /\ PictureStopWord # LeadOutWord
  BY FixedWordsAre
<1>3. ClvWord # LeadInWord /\ ClvWord # LeadOutWord /\ ClvWord # PictureStopWord
  BY FixedWordsAre
<1>4. ASSUME NEW w, w \in {LeadInWord, LeadOutWord, PictureStopWord, ClvWord}
      PROVE  /\ w[1] = 8 /\ ~EndsInDs(w) /\ ~StatesCx(w)
             /\ ~(w[2] > 9 /\ w[3] = 14)
  <2>1. w[1] = 8 /\ ~EndsInDs(w)
    BY <1>4, FixedWordsAre DEF EndsInDs
  <2>2. ~(w[2] = 13 /\ w[3] = 12) /\ ~(w[2] = 11 /\ w[3] = 10)
    BY <1>4, FixedWordsAre
  <2>3. ~(w[2] > 9 /\ w[3] = 14)
    BY <1>4, FixedWordsAre
  <2>4. ~StatesCx(w)
    BY <2>2 DEF StatesCx
  <2> QED BY <2>1, <2>3, <2>4
<1>5. Recognise(LeadInWord) = "lead_in"
  BY <1>1, <1>2, <1>3, <1>4 DEF Recognise
<1>6. Recognise(LeadOutWord) = "lead_out"
  BY <1>1, <1>2, <1>3, <1>4 DEF Recognise
<1>7. Recognise(PictureStopWord) = "picture_stop"
  BY <1>1, <1>2, <1>3, <1>4 DEF Recognise
<1>8. Recognise(ClvWord) = "clv_code"
  BY <1>1, <1>2, <1>3, <1>4 DEF Recognise
<1> QED BY <1>5, <1>6, <1>7, <1>8

(* A word is one of the others when its digits are not those of the fixed  *)
(* ones.                                                                   *)
LEMMA OthersRecognised ==
  ASSUME NEW w
  PROVE  /\ w[1] = 15 /\ w[3] = 13 => Recognise(w) = "programme_time_code"
         /\ w[1] = 15 /\ w[3] # 13 => Recognise(w) = "picture_number"
         /\ w[1] = 8 /\ EndsInDs(w) => Recognise(w) = "chapter_number"
         /\ w[1] = 8 /\ ~EndsInDs(w) /\ w[2] > 9 /\ w[3] = 14 /\ w[2] # 0 =>
              Recognise(w) = "clv_picture_number"
         /\ w[1] = 8 /\ ~EndsInDs(w) /\ StatesCx(w) =>
              Recognise(w) = "programme_status"
         /\ w[1] = 8 /\ ~EndsInDs(w) /\ w[2] \in 0 .. 7 /\ w[3] = 13 =>
              Recognise(w) = "users_code"
<1> DEFINE Fixed4 == {LeadInWord, LeadOutWord, PictureStopWord, ClvWord}
<1>1. w[1] = 15 => w \notin Fixed4
  BY FixedWordsAre
<1>2. EndsInDs(w) => w \notin Fixed4
  BY FixedWordsAre DEF EndsInDs
<1>3. w[3] = 14 /\ w[2] # 0 => w \notin Fixed4
  BY FixedWordsAre
<1>4. w[3] = 13 => w \notin Fixed4
  BY FixedWordsAre
<1>5. ASSUME StatesCx(w)
      PROVE  /\ w[3] = 12 \/ w[3] = 10
             /\ w[2] = 13 \/ w[2] = 11
             /\ w \notin Fixed4
  <2>1. /\ w[3] = 12 \/ w[3] = 10
        /\ w[2] = 13 \/ w[2] = 11
    BY <1>5 DEF StatesCx
  <2> QED BY <2>1, FixedWordsAre
<1>6. w[3] = 13 => ~StatesCx(w)
  BY <1>5
<1>7. w \notin Fixed4 =>
        Recognise(w) =
          CASE w[1] = 15 /\ w[3] = 13 -> "programme_time_code"
            [] w[1] = 15 /\ w[3] # 13 -> "picture_number"
            [] w[1] = 8 /\ EndsInDs(w) -> "chapter_number"
            [] w[1] = 8 /\ ~EndsInDs(w) /\ w[2] > 9 /\ w[3] = 14 ->
                 "clv_picture_number"
            [] w[1] = 8 /\ ~EndsInDs(w) /\ StatesCx(w) -> "programme_status"
            [] OTHER -> "users_code"
  BY DEF Recognise
<1> HIDE DEF Fixed4
<1>8. ASSUME w[1] = 15 /\ w[3] = 13 PROVE Recognise(w) = "programme_time_code"
  BY <1>1, <1>7, <1>8
<1>9. ASSUME w[1] = 15 /\ w[3] # 13 PROVE Recognise(w) = "picture_number"
  BY <1>1, <1>7, <1>9
<1>10. ASSUME w[1] = 8 /\ EndsInDs(w) PROVE Recognise(w) = "chapter_number"
  BY <1>2, <1>7, <1>10
<1>11. ASSUME w[1] = 8 /\ ~EndsInDs(w) /\ w[2] > 9 /\ w[3] = 14 /\ w[2] # 0
       PROVE  Recognise(w) = "clv_picture_number"
  <2>1. ~StatesCx(w)
    BY <1>5, <1>11
  <2> QED BY <1>3, <1>7, <1>11, <2>1
<1>12. ASSUME w[1] = 8 /\ ~EndsInDs(w) /\ StatesCx(w)
       PROVE  Recognise(w) = "programme_status"
  <2>1. w[3] # 14 /\ w[1] # 15 /\ ~EndsInDs(w)
    BY <1>5, <1>12
  <2> QED BY <1>5, <1>7, <1>12, <2>1
<1>13. ASSUME w[1] = 8 /\ ~EndsInDs(w) /\ w[2] \in 0 .. 7 /\ w[3] = 13
       PROVE  Recognise(w) = "users_code"
  BY <1>4, <1>6, <1>7, <1>13
<1> QED BY <1>8, <1>9, <1>10, <1>11, <1>12, <1>13

LEMMA ClockIs ==
  ASSUME NEW standard \in Standards, NEW n \in Nat
  PROVE  ClockAt(standard, n) \in [total : Nat, seconds : 0 .. SecondsPerMinute - 1,
                                   frame : 0 .. FramesPerSecond[standard] - 1]
<1>1. PICK F, W, m : /\ F = FramesPerSecond[standard] /\ W = SecondsPerMinute
                     /\ m = Corrected(standard, n)
  OBVIOUS
<1>2. F \in Nat \ {0} /\ W \in Nat \ {0}
  BY <1>1, Scale
<1>3. m \in Int
  <2>1. CASE standard = "NTSC"
    <3>1. PICK q, r : q = n \div Cycle /\ r = n % Cycle
      OBVIOUS
    <3>2. PICK C : C = Cycle
      OBVIOUS
    <3>3. C \in Nat \ {0}
      BY <3>2, CycleLength
    <3>4. q \in Nat /\ r \in 0 .. C - 1 /\ n = C * q + r
      BY <3>1, <3>2, <3>3, Euclid
    <3>5. m = n + (CorrectionsPerCycle - 1) * q + Drops(r)
      BY <1>1, <2>1, <3>2, <3>4, CorrectedIs
    <3>6. Drops(r) \in Int
      <4>1. CorrectionsPerCycle \in Nat \ {0} /\ CorrectionStep \in Nat \ {0}
        BY DiscScale
      <4>2. r \in Nat
        BY <3>3, <3>4
      <4>3. r \div CorrectionStep \in Nat
        BY <4>1, <4>2, Euclid
      <4> QED BY <4>1, <4>3 DEF Drops, Min
    <3>7. PICK c : c = CorrectionsPerCycle - 1
      OBVIOUS
    <3>8. c \in Int
      BY <3>7, DiscScale
    <3>9. c * q \in Int
      BY <3>4, <3>8
    <3> QED BY <3>5, <3>6, <3>7, <3>9
  <2>2. CASE standard # "NTSC"
    BY <1>1, <2>2 DEF Corrected
  <2> QED BY <2>1, <2>2
<1>4. PICK u : u = m \div F
  OBVIOUS
<1>5. u \in Int /\ m % F \in 0 .. F - 1
  BY <1>2, <1>3, <1>4
<1>6. u % W \in 0 .. W - 1
  BY <1>2, <1>5
<1>7. ClockAt(standard, n) = [total |-> n, seconds |-> u % W, frame |-> m % F]
  BY <1>1, <1>4 DEF ClockAt
<1> QED BY <1>1, <1>5, <1>6, <1>7

LEMMA NumbersRecognised ==
  ASSUME NEW standard \in Standards, NEW code \in Persistent, NEW anchor \in Nat,
         NEW n \in Nat, NEW w, w = CurrentCode(standard, code,
                                       CounterAt(standard, code, anchor, n))
  PROVE  Recognise(w) = code
<1>1. CASE code = "picture_number"
  <2>1. PICK m : m = Min(MaxPictureNumber[standard], anchor + n)
    OBVIOUS
  <2>2. m \in Nat
    BY <2>1, Scale DEF Min
  <2>3. w = EncodePictureNumber(m)
    BY <1>1, <2>1 DEF CurrentCode, CounterAt, PictureAt
  <2>4. PICK a, b, c, d, e : /\ a = m \div 10000 /\ b = (m \div 1000) % 10
                             /\ c = (m \div 100) % 10 /\ d = (m \div 10) % 10
                             /\ e = m % 10
    OBVIOUS
  <2>5. Digits(m) = <<a, b, c, d, e>>
    BY <2>4 DEF Digits, Digit
  <2>6. w = <<15, a, b, c, d, e>>
    BY <2>3, <2>5 DEF EncodePictureNumber
  <2>7. b \in 0 .. 9
    <3>1. m \div 1000 \in Nat
      BY <2>2
    <3> QED BY <2>4, <3>1
  <2>8. w[1] = 15 /\ w[3] # 13
    BY <2>6, <2>7
  <2> QED BY <1>1, <2>8, OthersRecognised
<1>2. CASE code = "chapter_number"
  <2>1. w = EncodeChapterCode(anchor, n >= StopBitTrack)
    BY <1>2 DEF CurrentCode, CounterAt, StopBit
  <2>2. w[1] = 8 /\ EndsInDs(w)
    BY <2>1 DEF EncodeChapterCode, EndsInDs
  <2> QED BY <1>2, <2>2, OthersRecognised
<1>3. CASE code = "programme_time_code"
  <2>1. \E h, m : w = EncodeTimeCode(h, m)
    BY <1>3 DEF CurrentCode, CounterAt, TimeCodeOf
  <2>2. w[1] = 15 /\ w[3] = 13
    BY <2>1 DEF EncodeTimeCode
  <2> QED BY <1>3, <2>2, OthersRecognised
<1>4. CASE code = "clv_picture_number"
  <2>1. PICK g : g = ClockAt(standard, n)
    OBVIOUS
  <2>2. PICK s, f : s = g.seconds /\ f = g.frame
    OBVIOUS
  <2>3. w = EncodeClvPictureNumber(s, f)
    BY <1>4, <2>1, <2>2 DEF CurrentCode, CounterAt
  <2>4. s \in Nat
    <3>1. s \in 0 .. SecondsPerMinute - 1
      BY <2>1, <2>2, ClockIs
    <3> QED BY <3>1, Scale
  <2>5. PICK x, y : x = s \div 10 /\ y = s % 10
    OBVIOUS
  <2>6. x \in Nat /\ y \in 0 .. 9
    BY <2>4, <2>5
  <2>7. w[1] = 8 /\ w[2] = 10 + x /\ w[3] = 14 /\ w[4] = y
    BY <2>3, <2>5 DEF EncodeClvPictureNumber
  <2>8. ~EndsInDs(w)
    BY <2>6, <2>7 DEF EndsInDs
  <2>9. w[2] > 9 /\ w[2] # 0
    BY <2>6, <2>7
  <2> QED BY <1>4, <2>7, <2>8, <2>9, OthersRecognised
<1> QED BY <1>1, <1>2, <1>3, <1>4 DEF Persistent

LEMMA WordSeen ==
  ASSUME DiscInvariant, frame # NoFrame, NEW l \in frame.vbi_lines,
         l.code \notin SystemMOnly, FormKept(Here, l.code)
  PROVE  Recognise(l.word) = l.code
<1>1. /\ IsDisc(project) /\ current \in Nat /\ frame.section = current
      /\ Shows(project, current, Index, l)
  BY Seen
<1>2. CASE l.code \in Persistent
  <2>1. PICK a : a = Anchor(project, l.code, current)
    OBVIOUS
  <2>2. PICK x, n : x = AnchorOf(project.sections[a], l.code) /\ n = StepsSince(a)
    OBVIOUS
  <2>3. /\ a \in Listing(project, l.code) /\ n \in Nat
        /\ l.word = CurrentCode(project.standard, l.code,
                                CounterAt(project.standard, l.code, x, n))
    BY <1>2, <2>1, <2>2, SeenCount
  <2>4. x \in Nat /\ project.standard \in Standards
    BY <1>1, <1>2, <2>2, <2>3, AnchorFits DEF IsDisc
  <2> QED BY <1>2, <2>3, <2>4, NumbersRecognised
<1>3. CASE l.code \notin Persistent
  <2>1. l.code \in CodeTypes
        /\ \E g : MadeFor(project, current, l.code, g)
                  /\ l.word = CurrentCode(project.standard, l.code, g)
    BY <1>1, <1>3 DEF Shows
  <2>2. PICK g : MadeFor(project, current, l.code, g)
                 /\ l.word = CurrentCode(project.standard, l.code, g)
    BY <2>1
  <2>3. PICK section, x : section = Here /\ x = AnchorOf(section, l.code)
    OBVIOUS
  <2>4. section = project.sections[current]
    BY <1>1, <2>3 DEF Here
  <2>5. g = New(l.code, x)
    BY <2>2, <2>3, <2>4 DEF MadeFor
  <2>6. l.code \in {"lead_in", "lead_out", "picture_stop", "clv_code",
                    "programme_status", "users_code"}
    BY <1>3, <2>1 DEF CodeTypes, ValidCav, ValidClv, SystemMOnly, Persistent
  <2>7. l.word = New(l.code, x).word
    BY <2>2, <2>5, <2>6 DEF CurrentCode
  <2>8. CASE l.code \in {"lead_in", "lead_out", "picture_stop", "clv_code"}
    <3>1. l.code = "lead_in" => l.word = LeadInWord
      BY <2>7 DEF New, Fixed
    <3>2. l.code = "lead_out" => l.word = LeadOutWord
      BY <2>7 DEF New, Fixed
    <3>3. l.code = "picture_stop" => l.word = PictureStopWord
      BY <2>7 DEF New, Fixed
    <3>4. l.code = "clv_code" => l.word = ClvWord
      BY <2>7 DEF New, Fixed
    <3> QED BY <2>8, <3>1, <3>2, <3>3, <3>4, FixedRecognised
  <2>9. CASE l.code \in {"programme_status", "users_code"}
    <3>1. l.word = x
      BY <2>7, <2>9 DEF New, Fixed
    <3>2. section.codes[l.code] # Unset
      BY <2>2, <2>4, <2>9 DEF MadeFor
    <3>3. l.word = section.codes[l.code]
      BY <2>3, <3>1, <3>2 DEF AnchorOf
    <3>4. HasForm(l.code, l.word)
      BY <2>3, <2>9, <3>3 DEF FormKept
    <3>5. CASE l.code = "programme_status"
      BY <3>4, <3>5, OthersRecognised DEF HasForm
    <3>6. CASE l.code = "users_code"
      BY <3>4, <3>6, OthersRecognised DEF HasForm
    <3> QED BY <2>9, <3>5, <3>6
  <2> QED BY <2>6, <2>8, <2>9
<1> QED BY <1>2, <1>3

(* A counter holds a number that its code can show.                        *)
LEMMA CountersHold ==
  ASSUME DiscInvariant
  PROVE  /\ "picture_number" \in DOMAIN generators =>
              generators["picture_number"].value
                \in 0 .. MaxPictureNumber[project.standard]
         /\ "clv_picture_number" \in DOMAIN generators =>
              generators["clv_picture_number"] \in
                [total : Nat, seconds : 0 .. SecondsPerMinute - 1,
                 frame : 0 .. FramesPerSecond[project.standard] - 1]
<1>1. PICK p, s, k : p = project /\ s = current /\ k = position
  OBVIOUS
<1>2. IsDisc(p) /\ Placed(p, s, k) /\ Counting(p, generators, s, k)
  BY <1>1, ProjectsAssumption DEF DiscInvariant
<1>3. s \in Nat /\ k \in Nat
  <2>1. FrameTotal(p) \in Nat /\ Len(p.sections) \in Nat
    <3>1. Len(p.sections) \in 0 .. Len(p.sections) /\ Len(p.sections) \in Nat
      BY <1>2, SectionsOfDisc
    <3> QED BY <1>2, <3>1, FramesSum DEF FrameTotal
  <2> QED BY <1>2, <2>1 DEF Placed
<1>4. ASSUME "picture_number" \in DOMAIN generators
      PROVE  generators["picture_number"].value \in 0 .. MaxPictureNumber[p.standard]
  <2>1. /\ ListedBy(p, "picture_number", s)
        /\ generators["picture_number"] = CounterOf(p, "picture_number", s, k)
    BY <1>2, <1>4 DEF Counting, Persistent
  <2>2. PICK n : /\ CounterOf(p, "picture_number", s, k) = [value |-> n]
                 /\ n \in 0 .. MaxPictureNumber[p.standard]
    BY <1>2, <1>3, <2>1, PictureOf
  <2> QED BY <2>1, <2>2
<1>5. ASSUME "clv_picture_number" \in DOMAIN generators
      PROVE  generators["clv_picture_number"] \in
               [total : Nat, seconds : 0 .. SecondsPerMinute - 1,
                frame : 0 .. FramesPerSecond[p.standard] - 1]
  <2>1. PICK code, a : code = "clv_picture_number" /\ a = Anchor(p, code, s)
    OBVIOUS
  <2>2. /\ ListedBy(p, code, s)
        /\ generators[code] = CounterOf(p, code, s, k)
    BY <1>2, <1>5, <2>1 DEF Counting, Persistent
  <2>3. a \in 1 .. Len(p.sections)
    BY <1>2, <1>3, <2>1, <2>2, AnchorIsListed, ListingIs
  <2>4. PICK n : n = StepsOf(p, a, k)
    OBVIOUS
  <2>5. n \in Nat
    BY <1>2, <1>3, <2>3, <2>4, StepsAre
  <2>6. generators[code] = ClockAt(p.standard, n)
    BY <2>1, <2>2, <2>4 DEF CounterOf, CounterAt
  <2> QED BY <1>2, <2>1, <2>5, <2>6, ClockIs DEF IsDisc
<1> QED BY <1>1, <1>4, <1>5

(* Whatever stands on a frame's lines may stand there, the overlay shows   *)
(* it, and a player that reads it takes it for the code it is              *)
(* (LinePlacementEngine::GetAssignment, ResolveFrame, the CurrentCode of   *)
(* every generator), for stated words that have the form of their kind.    *)
THEOREM CodesAreReadBack == Spec => []CodesReadBack
<1>1. DiscInvariant => TypeOK
  <2> SUFFICES ASSUME DiscInvariant PROVE TypeOK
    OBVIOUS
  <2>1. Placed(project, current, position)
    BY DEF DiscInvariant
  <2>2. current \in 0 .. Len(project.sections) /\ position \in 0 .. FrameTotal(project)
    BY <2>1 DEF Placed
  <2>3. DOMAIN generators \subseteq CodeTypes
    BY DEF DiscInvariant
  <2>4. frame = NoFrame \/
          /\ frame.section = current
          /\ \A l \in frame.vbi_lines :
               /\ l.line \in ReservedLines(project.standard)
               /\ ValidForSection(l.code, Here.type)
    BY DEF DiscInvariant, FrameIs, Here
  <2>5. /\ status \in {"building", "built", "failed"}
        /\ status = "built" => position = FrameTotal(project)
        /\ status = "failed" =>
             \E s \in DOMAIN project.sections : SectionFails(project.sections[s])
    BY DEF DiscInvariant
  <2> QED BY <2>2, <2>3, <2>4, <2>5, CountersHold DEF TypeOK
<1>2. DiscInvariant => OverlayReadsTheDisc
  BY DEF DiscInvariant, ShownIn, Overlays, OverlayReadsTheDisc, Carried
<1>3. DiscInvariant => WordsRecognised
  BY WordSeen DEF WordsRecognised
<1>4. DiscInvariant => CodesReadBack
  BY <1>1, <1>2, <1>3 DEF CodesReadBack
<1> QED BY <1>4, DiscCorrect, PTL

(* The state holds what its declarations say: numbers and clocks stay      *)
(* within their digits, lines within the reserved ones, and a schedule     *)
(* fails only on a code that a section states wrongly or a disc without a  *)
(* type (InitializeSection, ResolveFrame).                                 *)
THEOREM DiscTyping == Spec => []TypeOK
<1>1. ASSUME DiscInvariant PROVE TypeOK
  <2>1. /\ Placed(project, current, position)
        /\ FrameIs(project, current, position, frame)
    BY <1>1 DEF DiscInvariant
  <2>2. current \in 0 .. Len(project.sections) /\ position \in 0 .. FrameTotal(project)
    BY <2>1 DEF Placed
  <2>3. DOMAIN generators \subseteq CodeTypes
    BY <1>1 DEF DiscInvariant
  <2>4. frame = NoFrame \/
          /\ frame.section = current
          /\ \A l \in frame.vbi_lines :
               /\ l.line \in ReservedLines(project.standard)
               /\ ValidForSection(l.code, Here.type)
    BY <2>1 DEF FrameIs, Here
  <2>5. /\ status \in {"building", "built", "failed"}
        /\ status = "built" => position = FrameTotal(project)
        /\ status = "failed" =>
             \E s \in DOMAIN project.sections : SectionFails(project.sections[s])
    BY <1>1 DEF DiscInvariant
  <2> QED BY <1>1, <2>2, <2>3, <2>4, <2>5, CountersHold DEF TypeOK
<1>2. DiscInvariant => TypeOK
  BY <1>1
<1> QED BY <1>2, DiscCorrect, PTL
===============================================================================
