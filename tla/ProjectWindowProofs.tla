------------------------- MODULE ProjectWindowProofs -------------------------
(***************************************************************************)
(* Theorems about ProjectWindow, for every set of files, styles and        *)
(* settings and any number of sections and gestures. DocumentInvariant is  *)
(* inductive; what the document promises follows, and its undo stack       *)
(* implements EditHistory.                                                 *)
(***************************************************************************)
EXTENDS ProjectWindowProps, FiniteSetTheorems, WellFoundedInduction, TLAPS

USE BoundsAssumption, FilesAssumption

-------------------------------------------------------------------------------
(* Sequences: one element more, one element less, and back.                *)
LEMMA InsertAtSeq ==
  ASSUME NEW S, NEW s \in Seq(S), NEW i \in 1 .. Len(s) + 1, NEW e \in S
  PROVE  /\ InsertAt(s, i, e) \in Seq(S) /\ Len(InsertAt(s, i, e)) = Len(s) + 1
         /\ InsertAt(s, i, e)[i] = e
         /\ \A k \in 1 .. i - 1 : InsertAt(s, i, e)[k] = s[k]
         /\ \A k \in i .. Len(s) : InsertAt(s, i, e)[k + 1] = s[k]
<1>1. PICK a : a = SubSeq(s, 1, i - 1)
  OBVIOUS
<1>2. PICK b : b = SubSeq(s, i, Len(s))
  OBVIOUS
<1>3. /\ a \in Seq(S) /\ Len(a) = i - 1
      /\ \A k \in 1 .. i - 1 : a[k] = s[k]
  BY <1>1
<1>4. /\ b \in Seq(S) /\ Len(b) = Len(s) - i + 1
      /\ \A k \in 1 .. Len(b) : b[k] = s[k + i - 1]
  BY <1>2
<1>5. InsertAt(s, i, e) = a \o <<e>> \o b
  BY <1>1, <1>2 DEF InsertAt
<1>6. PICK c : c = a \o <<e>>
  OBVIOUS
<1>7. /\ c \in Seq(S) /\ Len(c) = i /\ c[i] = e
      /\ \A k \in 1 .. i - 1 : c[k] = s[k]
  BY <1>3, <1>6
<1>8. /\ c \o b \in Seq(S) /\ Len(c \o b) = Len(s) + 1
      /\ \A k \in 1 .. i : (c \o b)[k] = c[k]
      /\ \A k \in 1 .. Len(b) : (c \o b)[k + i] = b[k]
  BY <1>4, <1>7
<1>9. \A k \in i .. Len(s) : (c \o b)[k + 1] = s[k]
  <2> TAKE k \in i .. Len(s)
  <2>1. PICK j : j = k - i + 1
    OBVIOUS
  <2>2. j \in 1 .. Len(b) /\ j + i = k + 1 /\ j + i - 1 = k
    BY <1>4, <2>1
  <2> QED BY <1>4, <1>8, <2>2
<1> QED BY <1>5, <1>6, <1>7, <1>8, <1>9

LEMMA RemoveAtSeq ==
  ASSUME NEW S, NEW s \in Seq(S), NEW i \in 1 .. Len(s)
  PROVE  /\ RemoveAt(s, i) \in Seq(S) /\ Len(RemoveAt(s, i)) = Len(s) - 1
         /\ \A k \in 1 .. i - 1 : RemoveAt(s, i)[k] = s[k]
         /\ \A k \in i .. Len(s) - 1 : RemoveAt(s, i)[k] = s[k + 1]
<1>1. PICK a : a = SubSeq(s, 1, i - 1)
  OBVIOUS
<1>2. PICK b : b = SubSeq(s, i + 1, Len(s))
  OBVIOUS
<1>3. /\ a \in Seq(S) /\ Len(a) = i - 1
      /\ \A k \in 1 .. i - 1 : a[k] = s[k]
  BY <1>1
<1>4. /\ b \in Seq(S) /\ Len(b) = Len(s) - i
      /\ \A k \in 1 .. Len(b) : b[k] = s[k + i]
  BY <1>2
<1>5. RemoveAt(s, i) = a \o b
  BY <1>1, <1>2 DEF RemoveAt
<1>6. /\ a \o b \in Seq(S) /\ Len(a \o b) = Len(s) - 1
      /\ \A k \in 1 .. i - 1 : (a \o b)[k] = a[k]
      /\ \A k \in 1 .. Len(b) : (a \o b)[Len(a) + k] = b[k]
  <2>0. a \in Seq(S) /\ b \in Seq(S)
    BY <1>3, <1>4
  <2>1. a \o b \in Seq(S) /\ Len(a \o b) = Len(a) + Len(b)
        /\ \A k \in 1 .. Len(a) : (a \o b)[k] = a[k]
    BY ONLY <2>0
  <2>2. \A k \in 1 .. Len(b) : (a \o b)[Len(a) + k] = b[k]
    BY ONLY <2>0, <2>1
  <2>3. Len(a) + Len(b) = Len(s) - 1 /\ 1 .. i - 1 = 1 .. Len(a)
    <3>1. Len(a) = i - 1 /\ Len(b) = Len(s) - i
      BY <1>3, <1>4
    <3>2. i \in Int /\ Len(s) \in Int
      OBVIOUS
    <3> QED BY ONLY <3>1, <3>2
  <2>4. Len(a \o b) = Len(s) - 1
    BY ONLY <2>1, <2>3
  <2>5. \A k \in 1 .. i - 1 : (a \o b)[k] = a[k]
    BY ONLY <2>1, <2>3
  <2> QED BY ONLY <2>1, <2>2, <2>4, <2>5
<1>7. \A k \in i .. Len(s) - 1 : (a \o b)[k] = s[k + 1]
  <2> TAKE k \in i .. Len(s) - 1
  <2>1. PICK j : j = k - i + 1
    OBVIOUS
  <2>2. j \in 1 .. Len(b) /\ Len(a) + j = k /\ j + i = k + 1
    BY <1>3, <1>4, <2>1
  <2> QED BY <1>4, <1>6, <2>2
<1> QED BY <1>3, <1>5, <1>6, <1>7

LEMMA SameSeq ==
  ASSUME NEW S, NEW s \in Seq(S), NEW t \in Seq(S), Len(s) = Len(t),
         \A k \in 1 .. Len(s) : s[k] = t[k]
  PROVE  s = t
OBVIOUS

LEMMA RemoveInserted ==
  ASSUME NEW S, NEW s \in Seq(S), NEW i \in 1 .. Len(s) + 1, NEW e \in S
  PROVE  RemoveAt(InsertAt(s, i, e), i) = s
<1>1. PICK t : t = InsertAt(s, i, e)
  OBVIOUS
<1>2. /\ t \in Seq(S) /\ Len(t) = Len(s) + 1
      /\ \A k \in 1 .. i - 1 : t[k] = s[k]
      /\ \A k \in i .. Len(s) : t[k + 1] = s[k]
  BY <1>1, InsertAtSeq
<1>3. PICK u : u = RemoveAt(t, i)
  OBVIOUS
<1>4. /\ u \in Seq(S) /\ Len(u) = Len(t) - 1
      /\ \A k \in 1 .. i - 1 : u[k] = t[k]
      /\ \A k \in i .. Len(t) - 1 : u[k] = t[k + 1]
  <2>1. i \in 1 .. Len(t)
    BY <1>2
  <2> QED BY ONLY <1>2, <1>3, <2>1, RemoveAtSeq
<1>5. u \in Seq(S) /\ Len(u) = Len(s)
  BY <1>2, <1>4
<1>6. \A k \in 1 .. Len(u) : u[k] = s[k]
  BY <1>2, <1>4
<1>7. u = s
  BY <1>5, <1>6, SameSeq
<1> QED BY <1>1, <1>3, <1>7

LEMMA InsertRemoved ==
  ASSUME NEW S, NEW s \in Seq(S), NEW i \in 1 .. Len(s)
  PROVE  InsertAt(RemoveAt(s, i), i, s[i]) = s
<1>1. PICK t : t = RemoveAt(s, i)
  OBVIOUS
<1>2. /\ t \in Seq(S) /\ Len(t) = Len(s) - 1
      /\ \A k \in 1 .. i - 1 : t[k] = s[k]
      /\ \A k \in i .. Len(s) - 1 : t[k] = s[k + 1]
  BY <1>1, RemoveAtSeq
<1>3. PICK e : e = s[i]
  OBVIOUS
<1>4. PICK u : u = InsertAt(t, i, e)
  OBVIOUS
<1>5. /\ u \in Seq(S) /\ Len(u) = Len(t) + 1 /\ u[i] = e
      /\ \A k \in 1 .. i - 1 : u[k] = t[k]
      /\ \A k \in i .. Len(t) : u[k + 1] = t[k]
  <2>1. i \in 1 .. Len(t) + 1 /\ e \in S
    BY <1>2, <1>3
  <2>2. /\ InsertAt(t, i, e) \in Seq(S) /\ Len(InsertAt(t, i, e)) = Len(t) + 1
        /\ InsertAt(t, i, e)[i] = e
        /\ \A k \in 1 .. i - 1 : InsertAt(t, i, e)[k] = t[k]
        /\ \A k \in i .. Len(t) : InsertAt(t, i, e)[k + 1] = t[k]
    <3>1. t \in Seq(S) /\ e \in S /\ i \in 1 .. Len(t) + 1
      BY <1>2, <2>1
    <3> QED BY ONLY <3>1, InsertAtSeq
  <2> QED BY ONLY <1>4, <2>2
<1>6. u \in Seq(S) /\ Len(u) = Len(s)
  BY <1>2, <1>5
<1>7. \A k \in 1 .. Len(u) : u[k] = s[k]
  <2> TAKE k \in 1 .. Len(u)
  <2>1. CASE k <= i
    BY <1>2, <1>3, <1>5, <2>1
  <2>2. CASE k > i
    <3>1. PICK j : j = k - 1
      OBVIOUS
    <3>2. j \in i .. Len(t) /\ j \in i .. Len(s) - 1 /\ j + 1 = k
      BY <1>2, <1>6, <2>2, <3>1
    <3> QED BY <1>2, <1>5, <3>2
  <2> QED BY <2>1, <2>2
<1>8. u = s
  BY <1>6, <1>7, SameSeq
<1> QED BY <1>1, <1>3, <1>4, <1>8

LEMMA SmallestOf ==
  ASSUME NEW S \in SUBSET Nat, S # {}
  PROVE  \E s \in S : \A r \in S : s <= r
<1>1. \E s \in S : \A r \in S : <<r, s>> \notin OpToRel(<, Nat)
  BY NatLessThanWellFounded, WFMin
<1>2. \A s, r \in Nat : <<r, s>> \notin OpToRel(<, Nat) => s <= r
  BY DEF OpToRel
<1> QED BY <1>1, <1>2

LEMMA SmallestIsThere ==
  ASSUME NEW S \in SUBSET Nat, S # {}
  PROVE  Smallest(S) \in S
BY SmallestOf DEF Smallest

-------------------------------------------------------------------------------
(* Sorted lists the members of a set, and Reverse lists what it is given.  *)
LEMMA SortedRanks ==
  ASSUME NEW n \in Nat, NEW S \in SUBSET (1 .. n), NEW k \in 1 .. Cardinality(S)
  PROVE  \E r \in S : Cardinality({q \in S : q <= r}) = k
<1> DEFINE UpTo(r) == {q \in S : q <= r}
           rank == [r \in S |-> Cardinality(UpTo(r))]
<1>1. IsFiniteSet(S) /\ Cardinality(S) \in Nat
  <2>1. IsFiniteSet(1 .. n)
    BY FS_Interval
  <2>2. IsFiniteSet(S)
    BY <2>1, FS_Subset
  <2> QED BY <2>2, FS_CardinalityType
<1>2. \A r \in S : IsFiniteSet(UpTo(r)) /\ Cardinality(UpTo(r)) \in 1 .. Cardinality(S)
  <2> TAKE r \in S
  <2>1. UpTo(r) \in SUBSET S /\ r \in UpTo(r)
    OBVIOUS
  <2> HIDE DEF UpTo
  <2>2. IsFiniteSet(UpTo(r)) /\ Cardinality(UpTo(r)) <= Cardinality(S)
    BY <1>1, <2>1, FS_Subset
  <2>3. Cardinality(UpTo(r)) \in Nat
    BY <2>2, FS_CardinalityType
  <2>4. Cardinality(UpTo(r)) # 0
    BY <2>1, <2>2, FS_EmptySet
  <2> QED BY <1>1, <2>2, <2>3, <2>4
<1>3. \A r, q \in S : r < q => Cardinality(UpTo(r)) # Cardinality(UpTo(q))
  <2> SUFFICES ASSUME NEW r \in S, NEW q \in S, r < q,
                      Cardinality(UpTo(r)) = Cardinality(UpTo(q))
               PROVE  FALSE
    OBVIOUS
  <2>0. S \subseteq Nat
    OBVIOUS
  <2>1. \A x \in S : x <= r => x <= q
    BY <2>0
  <2>2. q <= q /\ ~(q <= r)
    BY <2>0
  <2>3. UpTo(r) \in SUBSET UpTo(q) /\ q \in UpTo(q) /\ q \notin UpTo(r)
    BY ONLY <2>1, <2>2, r \in S, q \in S
  <2>4. IsFiniteSet(UpTo(q))
    BY <1>2
  <2> HIDE DEF UpTo
  <2>5. UpTo(q) = UpTo(r)
    BY <2>3, <2>4, FS_Subset
  <2> QED BY <2>3, <2>5
<1> HIDE DEF UpTo
<1>4. rank \in Injection(S, 1 .. Cardinality(S))
  <2>1. rank \in [S -> 1 .. Cardinality(S)]
    BY <1>2
  <2>2. \A r, q \in S : rank[r] = rank[q] => r = q
    <3> SUFFICES ASSUME NEW r \in S, NEW q \in S, rank[r] = rank[q]
                 PROVE  r = q
      OBVIOUS
    <3>1. r \in Nat /\ q \in Nat
      OBVIOUS
    <3> QED BY <1>3, <3>1
  <2> HIDE DEF rank
  <2> QED BY <2>1, <2>2 DEF Injection, IsInjective
<1>5. IsFiniteSet(1 .. Cardinality(S)) /\ Cardinality(1 .. Cardinality(S)) = Cardinality(S)
  BY <1>1, FS_Interval
<1> HIDE DEF rank
<1>6. rank \in Surjection(S, 1 .. Cardinality(S))
  BY <1>4, <1>5, FS_Injection
<1>7. \E r \in S : rank[r] = k
  BY <1>6 DEF Surjection
<1> QED BY <1>7 DEF rank, UpTo

LEMMA SortedMembers ==
  ASSUME NEW n \in Nat, NEW S \in SUBSET (1 .. n)
  PROVE  Sorted(S) \in Seq(S) /\ Len(Sorted(S)) = Cardinality(S)
<1>1. Cardinality(S) \in Nat
  <2>1. IsFiniteSet(1 .. n)
    BY FS_Interval
  <2>2. IsFiniteSet(S)
    BY <2>1, FS_Subset
  <2> QED BY <2>2, FS_CardinalityType
<1>2. \A k \in 1 .. Cardinality(S) :
        (CHOOSE r \in S : Cardinality({q \in S : q <= r}) = k) \in S
  BY SortedRanks
<1>3. PICK c : c = Cardinality(S)
  OBVIOUS
<1>4. PICK t : t = [k \in 1 .. c |->
                     CHOOSE r \in S : Cardinality({q \in S : q <= r}) = k]
  OBVIOUS
<1>5. t \in [1 .. c -> S] /\ c \in Nat
  BY <1>1, <1>2, <1>3, <1>4
<1>6. Sorted(S) = t
  BY <1>3, <1>4 DEF Sorted
<1>7. t \in Seq(S) /\ Len(t) = c
  BY ONLY <1>5
<1> QED BY <1>3, <1>6, <1>7

LEMMA ReverseMembers ==
  ASSUME NEW S, NEW s \in Seq(S)
  PROVE  Reverse(s) \in Seq(S) /\ Len(Reverse(s)) = Len(s)
BY DEF Reverse

-------------------------------------------------------------------------------
(* Commands: what each does to a project, and that reverting it undoes it. *)
LEMMA ProjectFields ==
  ASSUME NEW p \in Projects
  PROVE  p.settings \in Seq(Values) /\ p.sections \in Seq(Section)
BY DEF Projects

LEMMA SectionsReplaced ==
  ASSUME NEW p \in Projects, NEW s \in Seq(Section)
  PROVE  /\ WithSections(p, s) \in Projects
         /\ WithSections(p, s).sections = s /\ WithSections(p, s).settings = p.settings
         /\ WithSections(WithSections(p, s), p.sections) = p
<1>1. PICK q : q = WithSections(p, s)
  OBVIOUS
<1>2. q = [settings |-> p.settings, sections |-> s]
  BY <1>1 DEF WithSections, Projects
<1>3. p = [settings |-> p.settings, sections |-> p.sections]
  BY DEF Projects
<1>4. WithSections(q, p.sections) = [settings |-> p.settings, sections |-> p.sections]
  BY <1>2 DEF WithSections
<1>5. q \in Projects /\ q.sections = s /\ q.settings = p.settings
  BY <1>2, ProjectFields DEF Projects
<1> QED BY <1>1, <1>3, <1>4, <1>5

LEMMA CommandFields ==
  ASSUME NEW op, NEW i, NEW v, NEW c, c = Command(op, i, v)
  PROVE  /\ c.op = op /\ c.index = i /\ c.value = v
         /\ \A w : [c EXCEPT !.value = w] = Command(op, i, w)
BY DEF Command

LEMMA OutcomeFields ==
  ASSUME NEW p, NEW c
  PROVE  Outcome(p, c).project = p /\ Outcome(p, c).command = c
BY DEF Outcome

(* Inserting, and erasing what was inserted.                               *)
LEMMA InsertedProject ==
  ASSUME NEW p \in Projects, NEW i \in 1 .. Len(p.sections) + 1, NEW v \in Section
  PROVE  /\ Inserted(p, i, v) \in Projects
         /\ Inserted(p, i, v).settings = p.settings
         /\ Inserted(p, i, v).sections = InsertAt(p.sections, i, v)
         /\ Len(Inserted(p, i, v).sections) = Len(p.sections) + 1
         /\ Inserted(p, i, v).sections[i] = v
         /\ Erased(Inserted(p, i, v), i) = p
<1>1. PICK s : s = p.sections
  OBVIOUS
<1>2. s \in Seq(Section) /\ i \in 1 .. Len(s) + 1
  BY <1>1, ProjectFields
<1>3. PICK t : t = InsertAt(s, i, v)
  OBVIOUS
<1>4. t \in Seq(Section) /\ Len(t) = Len(s) + 1 /\ t[i] = v
  BY <1>2, <1>3, InsertAtSeq
<1>5. RemoveAt(t, i) = s
  BY <1>2, <1>3, RemoveInserted
<1>6. PICK q : q = Inserted(p, i, v)
  OBVIOUS
<1>7. q = WithSections(p, t)
  BY <1>1, <1>3, <1>6 DEF Inserted
<1>8. /\ q \in Projects /\ q.sections = t /\ q.settings = p.settings
      /\ WithSections(q, s) = p
  BY <1>1, <1>4, <1>7, SectionsReplaced
<1>9. Erased(q, i) = p
  BY <1>5, <1>8 DEF Erased
<1> QED BY <1>1, <1>3, <1>4, <1>6, <1>8, <1>9

LEMMA ErasedProject ==
  ASSUME NEW p \in Projects, NEW i \in 1 .. Len(p.sections)
  PROVE  /\ Erased(p, i) \in Projects
         /\ Erased(p, i).settings = p.settings
         /\ Len(Erased(p, i).sections) = Len(p.sections) - 1
         /\ p.sections[i] \in Section
         /\ Inserted(Erased(p, i), i, p.sections[i]) = p
<1>1. PICK s : s = p.sections
  OBVIOUS
<1>2. s \in Seq(Section) /\ i \in 1 .. Len(s)
  BY <1>1, ProjectFields
<1>3. PICK t : t = RemoveAt(s, i)
  OBVIOUS
<1>4. t \in Seq(Section) /\ Len(t) = Len(s) - 1 /\ s[i] \in Section
  BY <1>2, <1>3, RemoveAtSeq
<1>5. InsertAt(t, i, s[i]) = s
  BY <1>2, <1>3, InsertRemoved
<1>6. PICK q : q = Erased(p, i)
  OBVIOUS
<1>7. q = WithSections(p, t)
  BY <1>1, <1>3, <1>6 DEF Erased
<1>8. /\ q \in Projects /\ q.sections = t /\ q.settings = p.settings
      /\ WithSections(q, s) = p
  BY <1>1, <1>4, <1>7, SectionsReplaced
<1>9. Inserted(q, i, s[i]) = p
  BY <1>5, <1>8 DEF Inserted
<1> QED BY <1>1, <1>3, <1>4, <1>6, <1>8, <1>9

LEMMA MovedProject ==
  ASSUME NEW p \in Projects, NEW i \in 1 .. Len(p.sections),
         NEW j \in 1 .. Len(p.sections)
  PROVE  /\ Moved(p, i, j) \in Projects
         /\ Moved(p, i, j).settings = p.settings
         /\ Len(Moved(p, i, j).sections) = Len(p.sections)
         /\ Moved(Moved(p, i, j), j, i) = p
<1>1. PICK v : v = p.sections[i]
  OBVIOUS
<1>2. PICK r : r = Erased(p, i)
  OBVIOUS
<1>3. /\ r \in Projects /\ r.settings = p.settings
      /\ Len(r.sections) = Len(p.sections) - 1 /\ v \in Section
      /\ Inserted(r, i, v) = p
  BY <1>1, <1>2, ErasedProject
<1>4. j \in 1 .. Len(r.sections) + 1
  BY <1>3, ProjectFields
<1>5. PICK q : q = Inserted(r, j, v)
  OBVIOUS
<1>6. /\ q \in Projects /\ q.settings = r.settings
      /\ Len(q.sections) = Len(r.sections) + 1
      /\ q.sections[j] = v /\ Erased(q, j) = r
  BY <1>3, <1>4, <1>5, InsertedProject
<1>7. q = Moved(p, i, j)
  BY <1>1, <1>2, <1>5 DEF Moved
<1>8. Moved(q, j, i) = p
  BY <1>3, <1>6 DEF Moved
<1>9. Len(q.sections) = Len(p.sections)
  BY <1>3, <1>6, ProjectFields
<1> QED BY <1>3, <1>6, <1>7, <1>8, <1>9

(***************************************************************************)
(* What the document keeps of a command c that it applied to p: done, and  *)
(* undone is what reverting leaves. Both lead between p and q.             *)
(***************************************************************************)
Turns(p, q, done, undone) ==
  /\ q \in Projects /\ done \in Commands /\ undone \in Commands
  /\ Apply(undone, p) = Outcome(q, done)
  /\ Revert(done, q) = Outcome(p, undone)
  /\ undone.op = done.op

LEMMA InsertTurns ==
  ASSUME NEW p \in Projects, NEW i \in 1 .. Len(p.sections) + 1,
         NEW v \in Section, NEW c, c = Command("insert", i, v)
  PROVE  /\ Apply(c, p) = Outcome(Inserted(p, i, v), c)
         /\ Turns(p, Inserted(p, i, v), c, c)
<1>1. c.op = "insert" /\ c.index = i /\ c.value = v
  BY CommandFields
<1>2. c \in Commands
  <2>1. i \in Nat
    BY ProjectFields
  <2> QED BY <2>1 DEF Commands, Command
<1>3. PICK q : q = Inserted(p, i, v)
  OBVIOUS
<1>4. q \in Projects /\ Erased(q, i) = p
  BY <1>3, InsertedProject
<1>5. Apply(c, p) = Outcome(q, c)
  BY <1>1, <1>3 DEF Apply
<1>6. Revert(c, q) = Outcome(p, c)
  BY <1>1, <1>4 DEF Revert
<1> QED BY <1>2, <1>3, <1>4, <1>5, <1>6 DEF Turns

LEMMA RemoveTurns ==
  ASSUME NEW p \in Projects, NEW i \in 1 .. Len(p.sections), NEW w,
         NEW c, c = Command("remove", i, w), NEW d, d = Command("remove", i, p.sections[i])
  PROVE  /\ Apply(c, p) = Outcome(Erased(p, i), d)
         /\ Turns(p, Erased(p, i), d, d)
<1>1. PICK v : v = p.sections[i]
  OBVIOUS
<1>2. PICK q : q = Erased(p, i)
  OBVIOUS
<1>3. q \in Projects /\ v \in Section /\ Inserted(q, i, v) = p
  BY <1>1, <1>2, ErasedProject
<1>4. c.op = "remove" /\ c.index = i /\ [c EXCEPT !.value = v] = d
  BY <1>1, CommandFields
<1>5. d.op = "remove" /\ d.index = i /\ d.value = v /\ [d EXCEPT !.value = v] = d
  BY <1>1, CommandFields
<1>6. d \in Commands
  <2>1. i \in Nat
    BY ProjectFields
  <2> QED BY <1>1, <1>3, <2>1 DEF Commands, Command
<1>7. Apply(c, p) = Outcome(q, d)
  BY <1>1, <1>2, <1>4 DEF Apply
<1>8. Apply(d, p) = Outcome(q, d)
  BY <1>1, <1>2, <1>5 DEF Apply
<1>9. Revert(d, q) = Outcome(p, d)
  BY <1>3, <1>5 DEF Revert
<1> QED BY <1>2, <1>3, <1>6, <1>7, <1>8, <1>9 DEF Turns

LEMMA MoveTurns ==
  ASSUME NEW p \in Projects, NEW i \in 1 .. Len(p.sections),
         NEW j \in 1 .. Len(p.sections), NEW c, c = Command("move", i, j)
  PROVE  /\ Apply(c, p) = Outcome(Moved(p, i, j), c)
         /\ Turns(p, Moved(p, i, j), c, c)
<1>1. c.op = "move" /\ c.index = i /\ c.value = j
  BY CommandFields
<1>2. c \in Commands
  <2>1. i \in Nat /\ j \in Nat
    BY ProjectFields
  <2> QED BY <2>1 DEF Commands, Command
<1>3. PICK q : q = Moved(p, i, j)
  OBVIOUS
<1>4. q \in Projects /\ Moved(q, j, i) = p
  BY <1>3, MovedProject
<1>5. Apply(c, p) = Outcome(q, c)
  BY <1>1, <1>3 DEF Apply
<1>6. Revert(c, q) = Outcome(p, c)
  BY <1>1, <1>4 DEF Revert
<1> QED BY <1>2, <1>3, <1>4, <1>5, <1>6 DEF Turns

LEMMA SwapBack ==
  ASSUME NEW S, NEW s \in Seq(S), NEW i \in DOMAIN s, NEW v \in S
  PROVE  /\ [s EXCEPT ![i] = v] \in Seq(S) /\ Len([s EXCEPT ![i] = v]) = Len(s)
         /\ [s EXCEPT ![i] = v][i] = v
         /\ [[s EXCEPT ![i] = v] EXCEPT ![i] = s[i]] = s
<1>1. PICK t : t = [s EXCEPT ![i] = v]
  OBVIOUS
<1>2. /\ t \in Seq(S) /\ Len(t) = Len(s) /\ t[i] = v
      /\ \A k \in DOMAIN s \ {i} : t[k] = s[k]
  BY <1>1
<1>3. PICK u : u = [t EXCEPT ![i] = s[i]]
  OBVIOUS
<1>4. /\ u \in Seq(S) /\ Len(u) = Len(s)
      /\ \A k \in 1 .. Len(u) : u[k] = s[k]
  BY <1>2, <1>3
<1>5. u = s
  BY <1>4, SameSeq
<1> QED BY <1>1, <1>2, <1>3, <1>5

LEMMA SettingTurns ==
  ASSUME NEW p \in Projects, NEW i \in DOMAIN p.settings, NEW v \in Values,
         NEW c, c = Command("settings", i, v),
         NEW d, d = Command("settings", i, p.settings[i])
  PROVE  \E q : /\ Apply(c, p) = Outcome(q, d) /\ Turns(p, q, d, c)
                /\ Len(q.settings) = Len(p.settings) /\ q.sections = p.sections
<1>1. PICK s : s = p.settings
  OBVIOUS
<1>2. PICK w : w = s[i]
  OBVIOUS
<1>3. s \in Seq(Values) /\ i \in DOMAIN s /\ i \in Nat /\ w \in Values
  BY <1>1, <1>2, ProjectFields
<1>4. PICK t : t = [s EXCEPT ![i] = v]
  OBVIOUS
<1>5. /\ t \in Seq(Values) /\ Len(t) = Len(s) /\ t[i] = v
      /\ [t EXCEPT ![i] = w] = s
  BY <1>2, <1>3, <1>4, SwapBack
<1>6. PICK q : q = [settings |-> t, sections |-> p.sections]
  OBVIOUS
<1>7. q \in Projects
  BY <1>5, <1>6, ProjectFields DEF Projects
<1>8. p = [settings |-> s, sections |-> p.sections]
  BY <1>1 DEF Projects
<1>9. c.op = "settings" /\ c.index = i /\ c.value = v /\ [c EXCEPT !.value = w] = d
  BY <1>1, <1>2, CommandFields
<1>10. d.op = "settings" /\ d.index = i /\ d.value = w /\ [d EXCEPT !.value = v] = c
  BY <1>1, <1>2, CommandFields
<1>11. c \in Commands /\ d \in Commands
  BY <1>1, <1>2, <1>3 DEF Commands, Command
<1>12. [p EXCEPT !.settings[i] = v] = q
  BY <1>4, <1>6, <1>8
<1>13. [q EXCEPT !.settings[i] = w] = p
  BY <1>5, <1>6, <1>8
<1>14. Apply(c, p) = Outcome(q, d)
  BY <1>1, <1>2, <1>9, <1>12 DEF Apply, Swap
<1>15. q.settings[i] = v
  BY <1>5, <1>6
<1>16. Revert(d, q) = Outcome(p, c)
  BY <1>10, <1>13, <1>15 DEF Revert, Swap
<1> QED BY <1>1, <1>5, <1>6, <1>7, <1>9, <1>10, <1>11, <1>14, <1>16 DEF Turns

LEMMA SetTurns ==
  ASSUME NEW p \in Projects, NEW i \in DOMAIN p.sections, NEW v \in Section,
         NEW c, c = Command("set", i, v), NEW d, d = Command("set", i, p.sections[i])
  PROVE  \E q : /\ Apply(c, p) = Outcome(q, d) /\ Turns(p, q, d, c)
                /\ q.settings = p.settings /\ Len(q.sections) = Len(p.sections)
<1>1. PICK s : s = p.sections
  OBVIOUS
<1>2. PICK w : w = s[i]
  OBVIOUS
<1>3. s \in Seq(Section) /\ i \in DOMAIN s /\ i \in Nat /\ w \in Section
  BY <1>1, <1>2, ProjectFields
<1>4. PICK t : t = [s EXCEPT ![i] = v]
  OBVIOUS
<1>5. /\ t \in Seq(Section) /\ Len(t) = Len(s) /\ t[i] = v
      /\ [t EXCEPT ![i] = w] = s
  BY <1>2, <1>3, <1>4, SwapBack
<1>6. PICK q : q = [settings |-> p.settings, sections |-> t]
  OBVIOUS
<1>7. q \in Projects
  BY <1>5, <1>6, ProjectFields DEF Projects
<1>8. p = [settings |-> p.settings, sections |-> s]
  BY <1>1 DEF Projects
<1>9. c.op = "set" /\ c.index = i /\ c.value = v /\ [c EXCEPT !.value = w] = d
  BY <1>1, <1>2, CommandFields
<1>10. d.op = "set" /\ d.index = i /\ d.value = w /\ [d EXCEPT !.value = v] = c
  BY <1>1, <1>2, CommandFields
<1>11. c \in Commands /\ d \in Commands
  BY <1>1, <1>2, <1>3 DEF Commands, Command
<1>12. [p EXCEPT !.sections[i] = v] = q
  BY <1>4, <1>6, <1>8
<1>13. [q EXCEPT !.sections[i] = w] = p
  BY <1>5, <1>6, <1>8
<1>14. Apply(c, p) = Outcome(q, d)
  BY <1>1, <1>2, <1>9, <1>12 DEF Apply, Swap
<1>15. q.sections[i] = v
  BY <1>5, <1>6
<1>16. Revert(d, q) = Outcome(p, c)
  BY <1>10, <1>13, <1>15 DEF Revert, Swap
<1> QED BY <1>1, <1>5, <1>6, <1>7, <1>9, <1>10, <1>11, <1>14, <1>16 DEF Turns

LEMMA SubmittedTurns ==
  ASSUME project \in Projects, NEW c \in QueuedCommands, Effective(c),
         c.op = "settings" => c.index \in DOMAIN project.settings
  PROVE  \E q, d, u :
           /\ Apply(c, project) = Outcome(q, d) /\ Turns(project, q, d, u)
           /\ d.op = c.op /\ Len(q.settings) = Len(project.settings)
           /\ c.op = "insert" => Len(q.sections) = Count + 1
           /\ c.op \in {"settings", "set", "move"} => Len(q.sections) = Count
<1>0. c = Command(c.op, c.index, c.value)
  BY DEF QueuedCommands, Command
<1>1. PICK i, v : c = Command(c.op, i, v) /\ i = c.index /\ v = c.value
  BY <1>0
<1>2. CASE c.op = "settings"
  <2>1. i \in DOMAIN project.settings /\ v \in Values /\ c = Command("settings", i, v)
    BY <1>1, <1>2 DEF QueuedCommands
  <2>2. PICK d : d = Command("settings", i, project.settings[i])
    OBVIOUS
  <2>3. PICK q : /\ Apply(c, project) = Outcome(q, d) /\ Turns(project, q, d, c)
                 /\ Len(q.settings) = Len(project.settings)
                 /\ q.sections = project.sections
    BY <2>1, <2>2, SettingTurns
  <2>4. d.op = "settings"
    BY <2>2, CommandFields
  <2> QED BY <1>2, <2>3, <2>4 DEF Count
<1>3. CASE c.op = "insert"
  <2>1. i \in 1 .. Len(project.sections) + 1
    BY <1>1, <1>3 DEF Effective
  <2>2. v \in Section /\ c = Command("insert", i, v)
    BY <1>1, <1>3 DEF QueuedCommands
  <2>3. PICK q : q = Inserted(project, i, v)
    OBVIOUS
  <2>4. Apply(c, project) = Outcome(q, c) /\ Turns(project, q, c, c)
    BY <2>1, <2>2, <2>3, InsertTurns
  <2>5. q.settings = project.settings /\ Len(q.sections) = Len(project.sections) + 1
    BY <2>1, <2>2, <2>3, InsertedProject
  <2> QED BY <1>3, <2>4, <2>5 DEF Count
<1>4. CASE c.op = "remove"
  <2>1. i \in 1 .. Len(project.sections)
    BY <1>1, <1>4, ProjectFields DEF Effective
  <2>2. c = Command("remove", i, v)
    BY <1>1, <1>4
  <2>3. PICK d : d = Command("remove", i, project.sections[i])
    OBVIOUS
  <2>4. PICK q : q = Erased(project, i)
    OBVIOUS
  <2>5. Apply(c, project) = Outcome(q, d) /\ Turns(project, q, d, d)
    BY <2>1, <2>2, <2>3, <2>4, RemoveTurns
  <2>6. q.settings = project.settings /\ d.op = "remove"
    BY <2>1, <2>3, <2>4, ErasedProject, CommandFields
  <2> QED BY <1>4, <2>5, <2>6
<1>5. CASE c.op = "move"
  <2>1. i \in 1 .. Len(project.sections) /\ v \in 1 .. Len(project.sections)
    BY <1>1, <1>5, ProjectFields DEF Effective
  <2>2. c = Command("move", i, v)
    BY <1>1, <1>5
  <2>3. PICK q : q = Moved(project, i, v)
    OBVIOUS
  <2>4. Apply(c, project) = Outcome(q, c) /\ Turns(project, q, c, c)
    BY <2>1, <2>2, <2>3, MoveTurns
  <2>5. q.settings = project.settings /\ Len(q.sections) = Len(project.sections)
    BY <2>1, <2>3, MovedProject
  <2> QED BY <1>5, <2>4, <2>5 DEF Count
<1>6. CASE c.op = "set"
  <2>1. i \in DOMAIN project.sections
    BY <1>1, <1>6 DEF Effective
  <2>2. v \in Section /\ c = Command("set", i, v)
    BY <1>1, <1>6 DEF QueuedCommands
  <2>3. PICK d : d = Command("set", i, project.sections[i])
    OBVIOUS
  <2>4. PICK q : /\ Apply(c, project) = Outcome(q, d) /\ Turns(project, q, d, c)
                 /\ q.settings = project.settings
                 /\ Len(q.sections) = Len(project.sections)
    BY <2>1, <2>2, <2>3, SetTurns
  <2>5. d.op = "set"
    BY <2>3, CommandFields
  <2> QED BY <1>6, <2>4, <2>5 DEF Count
<1> QED BY <1>2, <1>3, <1>4, <1>5, <1>6 DEF QueuedCommands

-------------------------------------------------------------------------------
(* Entries. A way is the only one its commands lead along.                 *)
LEMMA OnlyWayThere ==
  ASSUME NEW entry \in Seq(Commands), NEW p, NEW f,
         f = [k \in 0 .. Len(entry) |->
                IF k = 0 THEN p ELSE Apply(entry[k], f[k - 1]).project]
  PROVE  Applied(entry, p) = f
<1> DEFINE g == CHOOSE before : before = [k \in 0 .. Len(entry) |->
                  IF k = 0 THEN p ELSE Apply(entry[k], before[k - 1]).project]
<1>1. g = [k \in 0 .. Len(entry) |->
             IF k = 0 THEN p ELSE Apply(entry[k], g[k - 1]).project]
  OBVIOUS
<1>2. Applied(entry, p) = g
  BY DEF Applied
<1> HIDE DEF g
<1>3. PICK n : n = Len(entry)
  OBVIOUS
<1>4. n \in Nat
  BY <1>3
<1>5. SUFFICES ASSUME {k \in 0 .. n : g[k] # f[k]} # {}
               PROVE  FALSE
  <2>1. g = [k \in 0 .. n |-> g[k]] /\ f = [k \in 0 .. n |-> f[k]]
    BY <1>1, <1>3
  <2> QED BY <1>2, <2>1
<1>6. PICK k \in 0 .. n : g[k] # f[k] /\ \A j \in 0 .. n : g[j] # f[j] => k <= j
  <2>1. PICK S : S = {k \in 0 .. n : g[k] # f[k]}
    OBVIOUS
  <2>2. S \in SUBSET Nat /\ S # {}
    BY <1>5, <2>1
  <2>3. \E s \in S : \A r \in S : s <= r
    BY <2>2, SmallestOf
  <2> QED BY <2>1, <2>3
<1>7. CASE k = 0
  BY <1>1, <1>3, <1>6, <1>7
<1>8. CASE k # 0
  <2>1. PICK j : j = k - 1
    OBVIOUS
  <2>2. j \in 0 .. n /\ ~(k <= j)
    BY <1>4, <1>6, <1>8, <2>1
  <2>3. g[j] = f[j]
    BY <1>6, <2>2
  <2>4. g[k] = Apply(entry[k], g[j]).project /\ f[k] = Apply(entry[k], f[j]).project
    BY <1>1, <1>3, <1>8, <2>1
  <2> QED BY <1>6, <2>3, <2>4
<1> QED BY <1>7, <1>8

LEMMA OnlyWayBack ==
  ASSUME NEW entry \in Seq(Commands), NEW p, NEW f,
         f = [k \in 0 .. Len(entry) |->
                IF k = Len(entry) THEN p
                ELSE Revert(entry[k + 1], f[k + 1]).project]
  PROVE  Reverted(entry, p) = f
<1> DEFINE g == CHOOSE after : after = [k \in 0 .. Len(entry) |->
                  IF k = Len(entry) THEN p
                  ELSE Revert(entry[k + 1], after[k + 1]).project]
<1>1. g = [k \in 0 .. Len(entry) |->
             IF k = Len(entry) THEN p ELSE Revert(entry[k + 1], g[k + 1]).project]
  OBVIOUS
<1>2. Reverted(entry, p) = g
  BY DEF Reverted
<1> HIDE DEF g
<1>3. PICK n : n = Len(entry)
  OBVIOUS
<1>4. n \in Nat
  BY <1>3
<1>5. SUFFICES ASSUME NEW x \in 0 .. n, g[x] # f[x]
               PROVE  FALSE
  <2>1. g = [k \in 0 .. n |-> g[k]] /\ f = [k \in 0 .. n |-> f[k]]
    BY <1>1, <1>3
  <2> QED BY <1>2, <2>1
<1>6. PICK k \in 0 .. n : g[k] # f[k] /\ \A j \in 0 .. n : g[j] # f[j] => j <= k
  <2>1. PICK S : S = {y \in 0 .. n : g[n - y] # f[n - y]}
    OBVIOUS
  <2>2. S \in SUBSET Nat /\ S # {}
    <3>1. PICK z : z = n - x
      OBVIOUS
    <3>2. z \in 0 .. n /\ n - z = x
      BY <1>4, <3>1
    <3>3. z \in S
      BY <1>5, <2>1, <3>2
    <3>4. S \subseteq 0 .. n
      BY <2>1
    <3> QED BY <1>4, <3>3, <3>4
  <2>3. PICK s \in S : \A r \in S : s <= r
    BY <2>2, SmallestOf
  <2>4. n - s \in 0 .. n /\ g[n - s] # f[n - s]
    BY <1>4, <2>1, <2>3
  <2>5. ASSUME NEW j \in 0 .. n, g[j] # f[j]
        PROVE  j <= n - s
    <3>1. n - j \in 0 .. n /\ n - (n - j) = j
      BY <1>4
    <3>2. n - j \in S
      BY <2>1, <2>5, <3>1
    <3>3. s <= n - j /\ s \in Int
      BY <2>2, <2>3, <3>2
    <3> QED BY <1>4, <3>3
  <2> QED BY <2>4, <2>5
<1>7. CASE k = n
  BY <1>1, <1>3, <1>6, <1>7
<1>8. CASE k # n
  <2>1. PICK j : j = k + 1
    OBVIOUS
  <2>2. j \in 0 .. n /\ ~(j <= k)
    BY <1>4, <1>6, <1>8, <2>1
  <2>3. g[j] = f[j]
    BY <1>6, <2>2
  <2>4. g[k] = Revert(entry[j], g[j]).project /\ f[k] = Revert(entry[j], f[j]).project
    BY <1>1, <1>3, <1>8, <2>1
  <2> QED BY <1>6, <2>3, <2>4
<1> QED BY <1>7, <1>8

(* An entry that has a way is done and undone along it.                    *)
LEMMA WayIsDone ==
  ASSUME NEW way, NEW done, NEW undone, Way(way, done, undone),
         NEW p, NEW q, way[0] = p, way[Len(done)] = q
  PROVE  /\ Done(done, p, q) /\ Undone(undone, p, q)
         /\ Reverted(done, q) = way /\ Applied(undone, p) = way
         /\ RevertEntry(done, q) = [project |-> p, entry |-> undone]
         /\ ApplyEntry(undone, p) = [project |-> q, entry |-> done]
<1>1. /\ done \in Seq(Commands) /\ undone \in Seq(Commands)
      /\ Len(undone) = Len(done) /\ way = [k \in 0 .. Len(done) |-> way[k]]
  BY DEF Way
<1>2. PICK n : n = Len(done)
  OBVIOUS
<1>3. n \in Nat /\ n = Len(undone)
  BY <1>1, <1>2
<1>4. \A k \in 1 .. n : /\ Apply(undone[k], way[k - 1]).project = way[k]
                        /\ Apply(undone[k], way[k - 1]).command = done[k]
                        /\ Revert(done[k], way[k]).project = way[k - 1]
                        /\ Revert(done[k], way[k]).command = undone[k]
  <2> TAKE k \in 1 .. n
  <2>1. /\ Apply(undone[k], way[k - 1]) = Outcome(way[k], done[k])
        /\ Revert(done[k], way[k]) = Outcome(way[k - 1], undone[k])
    BY <1>2 DEF Way
  <2> QED BY <2>1, OutcomeFields
<1>5. way = [k \in 0 .. Len(undone) |->
               IF k = 0 THEN p ELSE Apply(undone[k], way[k - 1]).project]
  <2>1. \A k \in 0 .. n :
          way[k] = IF k = 0 THEN p ELSE Apply(undone[k], way[k - 1]).project
    BY <1>3, <1>4
  <2> QED BY <1>1, <1>2, <1>3, <2>1
<1>6. way = [k \in 0 .. Len(done) |->
               IF k = Len(done) THEN q ELSE Revert(done[k + 1], way[k + 1]).project]
  <2>1. ASSUME NEW k \in 0 .. n
        PROVE  way[k] = IF k = n THEN q ELSE Revert(done[k + 1], way[k + 1]).project
    <3>1. PICK j : j = k + 1
      OBVIOUS
    <3>2. k # n => j \in 1 .. n /\ j - 1 = k
      BY <1>3, <3>1
    <3>3. k = n => way[k] = q
      BY <1>2
    <3> QED BY <1>4, <3>1, <3>2, <3>3
  <2> QED BY <1>1, <1>2, <2>1
<1>7. Applied(undone, p) = way
  <2>1. undone \in Seq(Commands)
    BY <1>1
  <2> QED BY ONLY <1>5, <2>1, OnlyWayThere
<1>8. Reverted(done, q) = way
  BY <1>1, <1>6, OnlyWayBack
<1>9. ApplyEntry(undone, p) = [project |-> q, entry |-> done]
  <2>1. done = [k \in DOMAIN undone |-> Apply(undone[k], way[k - 1]).command]
    <3>1. done = [k \in 1 .. n |-> done[k]] /\ DOMAIN undone = 1 .. n
      BY <1>1, <1>2
    <3> QED BY <1>4, <3>1
  <2> QED BY <1>1, <1>7, <2>1 DEF ApplyEntry
<1>10. RevertEntry(done, q) = [project |-> p, entry |-> undone]
  <2>1. undone = [k \in DOMAIN done |-> Revert(done[k], way[k]).command]
    <3>1. undone = [k \in 1 .. n |-> undone[k]] /\ DOMAIN done = 1 .. n
      BY <1>1, <1>2
    <3> QED BY <1>4, <3>1
  <2> QED BY <1>8, <2>1 DEF RevertEntry
<1>11. Done(done, p, q)
  <2>1. RevertEntry(done, q).entry = undone
    BY <1>10
  <2> QED BY <1>8, <2>1 DEF Done
<1>12. Undone(undone, p, q)
  <2>1. ApplyEntry(undone, p).entry = done
    BY <1>9
  <2> QED BY <1>1, <1>7, <2>1 DEF Undone
<1> QED BY <1>7, <1>8, <1>9, <1>10, <1>11, <1>12

LEMMA DoneHasWay ==
  ASSUME NEW entry, NEW p, NEW q, Done(entry, p, q)
  PROVE  \E way, undone : /\ Way(way, entry, undone)
                          /\ way[0] = p /\ way[Len(entry)] = q
BY DEF Done

LEMMA UndoneHasWay ==
  ASSUME NEW entry, NEW p, NEW q, Undone(entry, p, q)
  PROVE  \E way, done : /\ Way(way, done, entry) /\ Len(done) = Len(entry)
                        /\ way[0] = p /\ way[Len(done)] = q
<1>1. PICK way : way = Applied(entry, p)
  OBVIOUS
<1>2. PICK done : done = ApplyEntry(entry, p).entry
  OBVIOUS
<1>3. Way(way, done, entry) /\ way[0] = p /\ way[Len(entry)] = q
  BY <1>1, <1>2 DEF Undone
<1>4. Len(done) = Len(entry)
  BY <1>3 DEF Way
<1> QED BY <1>3, <1>4

(* Reverting and reapplying, as Undo and Redo do with an entry.            *)
LEMMA DoneReverts ==
  ASSUME NEW entry, NEW p, NEW q, Done(entry, p, q)
  PROVE  \E undone : /\ RevertEntry(entry, q) = [project |-> p, entry |-> undone]
                     /\ undone \in Seq(Commands) /\ Undone(undone, p, q)
                     /\ p \in Projects /\ q \in Projects /\ entry \in Seq(Commands)
                     /\ ~ResetsList(entry) => Len(p.sections) = Len(q.sections)
<1>1. PICK way, undone : /\ Way(way, entry, undone)
                         /\ way[0] = p /\ way[Len(entry)] = q
  BY DoneHasWay
<1>2. /\ RevertEntry(entry, q) = [project |-> p, entry |-> undone]
      /\ Undone(undone, p, q)
  BY <1>1, WayIsDone
<1>3. undone \in Seq(Commands) /\ entry \in Seq(Commands)
  BY <1>1 DEF Way
<1>4. 0 \in 0 .. Len(entry) /\ Len(entry) \in 0 .. Len(entry)
  BY <1>3
<1>5. p \in Projects /\ q \in Projects
  BY <1>1, <1>4 DEF Way
<1>6. ~ResetsList(entry) => Len(p.sections) = Len(q.sections)
  BY <1>1, <1>4 DEF Way
<1> QED BY <1>2, <1>3, <1>5, <1>6

LEMMA SameReset ==
  ASSUME NEW way, NEW done, NEW undone, Way(way, done, undone)
  PROVE  ResetsList(done) <=> ResetsList(undone)
<1>1. /\ done \in Seq(Commands) /\ undone \in Seq(Commands)
      /\ Len(undone) = Len(done)
      /\ \A k \in 1 .. Len(done) : undone[k].op = done[k].op
  BY DEF Way
<1>2. DOMAIN done = DOMAIN undone /\ \A k \in DOMAIN done : undone[k].op = done[k].op
  BY <1>1
<1> QED BY <1>2 DEF ResetsList

LEMMA UndoneReapplies ==
  ASSUME NEW entry, NEW p, NEW q, Undone(entry, p, q)
  PROVE  \E done : /\ ApplyEntry(entry, p) = [project |-> q, entry |-> done]
                   /\ done \in Seq(Commands) /\ Done(done, p, q)
                   /\ p \in Projects /\ q \in Projects /\ entry \in Seq(Commands)
                   /\ ~ResetsList(entry) => Len(p.sections) = Len(q.sections)
<1>1. PICK way, done : /\ Way(way, done, entry) /\ Len(done) = Len(entry)
                       /\ way[0] = p /\ way[Len(done)] = q
  BY UndoneHasWay
<1>2. ApplyEntry(entry, p) = [project |-> q, entry |-> done] /\ Done(done, p, q)
  BY <1>1, WayIsDone
<1>3. done \in Seq(Commands) /\ entry \in Seq(Commands)
  BY <1>1 DEF Way
<1>4. 0 \in 0 .. Len(done) /\ Len(done) \in 0 .. Len(done)
  BY <1>3
<1>5. p \in Projects /\ q \in Projects
  BY <1>1, <1>4 DEF Way
<1>6. ~ResetsList(entry) => Len(p.sections) = Len(q.sections)
  <2>1. ResetsList(done) <=> ResetsList(entry)
    BY <1>1, SameReset
  <2>2. ~ResetsList(done) =>
          \A k \in 0 .. Len(done) : Len(way[k].sections) = Len(way[0].sections)
    BY <1>1 DEF Way
  <2> QED BY <1>1, <1>4, <2>1, <2>2
<1> QED BY <1>2, <1>3, <1>5, <1>6

(* The empty entry, and an entry with one command more.                    *)
LEMMA EmptyIsDone ==
  ASSUME NEW p \in Projects
  PROVE  Done(<<>>, p, p)
<1>1. PICK way : way = [k \in 0 .. 0 |-> p]
  OBVIOUS
<1>2. PICK e : e = <<>>
  OBVIOUS
<1>3. e \in Seq(Commands) /\ Len(e) = 0
  BY <1>2
<1>4. way \in [0 .. Len(e) -> Projects] /\ way[0] = p
  BY <1>1, <1>3
<1>5. Way(way, e, e)
  BY <1>3, <1>4 DEF Way
<1>6. Done(e, p, p)
  BY <1>3, <1>4, <1>5, WayIsDone
<1> QED BY <1>2, <1>6

LEMMA Appended ==
  ASSUME NEW S, NEW s \in Seq(S), NEW e \in S
  PROVE  /\ Append(s, e) \in Seq(S) /\ Len(Append(s, e)) = Len(s) + 1
         /\ Append(s, e)[Len(s) + 1] = e
         /\ \A k \in 1 .. Len(s) : Append(s, e)[k] = s[k]
OBVIOUS

LEMMA OneMoreIsDone ==
  ASSUME NEW entry, NEW p, NEW q, Done(entry, p, q),
         NEW r, NEW done, NEW undone, Turns(q, r, done, undone),
         done.op \notin {"insert", "remove", "move"} =>
           Len(r.sections) = Len(q.sections)
  PROVE  Done(Append(entry, done), p, r)
<1>1. PICK way, back : /\ Way(way, entry, back)
                       /\ way[0] = p /\ way[Len(entry)] = q
  BY DoneHasWay
<1>2. /\ entry \in Seq(Commands) /\ back \in Seq(Commands)
      /\ Len(back) = Len(entry) /\ way \in [0 .. Len(entry) -> Projects]
  BY <1>1 DEF Way
<1>3. PICK n : n = Len(entry)
  OBVIOUS
<1>4. n \in Nat
  BY <1>2, <1>3
<1>5. PICK d : d = Append(entry, done)
  OBVIOUS
<1>6. PICK u : u = Append(back, undone)
  OBVIOUS
<1>7. /\ d \in Seq(Commands) /\ Len(d) = n + 1 /\ d[n + 1] = done
      /\ \A k \in 1 .. n : d[k] = entry[k]
  BY <1>2, <1>3, <1>5, Appended DEF Turns
<1>8. /\ u \in Seq(Commands) /\ Len(u) = n + 1 /\ u[n + 1] = undone
      /\ \A k \in 1 .. n : u[k] = back[k]
  BY <1>2, <1>3, <1>6, Appended DEF Turns
<1>9. PICK w : w = [k \in 0 .. n + 1 |-> IF k = n + 1 THEN r ELSE way[k]]
  OBVIOUS
<1>10. /\ w \in [0 .. n + 1 -> Projects] /\ w[n + 1] = r
       /\ \A k \in 0 .. n : w[k] = way[k]
  <2>1. \A k \in 0 .. n + 1 : k # n + 1 => k \in 0 .. n
    BY <1>4
  <2>2. \A k \in 0 .. n + 1 : w[k] \in Projects
    BY <1>2, <1>3, <1>9, <2>1 DEF Turns
  <2>3. \A k \in 0 .. n : k \in 0 .. n + 1 /\ k # n + 1
    BY <1>4
  <2>4. n + 1 \in 0 .. n + 1
    BY <1>4
  <2> QED BY <1>9, <2>2, <2>3, <2>4
<1>11. w[0] = p /\ w[n] = q
  BY <1>1, <1>3, <1>4, <1>10
<1>12. ASSUME NEW k \in 1 .. n + 1
       PROVE  /\ Apply(u[k], w[k - 1]) = Outcome(w[k], d[k])
              /\ Revert(d[k], w[k]) = Outcome(w[k - 1], u[k])
              /\ u[k].op = d[k].op
  <2>1. CASE k = n + 1
    <3>1. k - 1 = n
      BY <1>4, <2>1
    <3>2. w[k - 1] = q /\ w[k] = r /\ d[k] = done /\ u[k] = undone
      BY <1>7, <1>8, <1>10, <1>11, <2>1, <3>1
    <3> QED BY <3>2 DEF Turns
  <2>2. CASE k # n + 1
    <3>1. k \in 1 .. n /\ k \in 0 .. n /\ k - 1 \in 0 .. n
      BY <1>4, <2>2
    <3>2. /\ w[k - 1] = way[k - 1] /\ w[k] = way[k]
          /\ d[k] = entry[k] /\ u[k] = back[k]
      BY <1>7, <1>8, <1>10, <3>1
    <3> QED BY <1>1, <1>3, <3>1, <3>2 DEF Way
  <2> QED BY <2>1, <2>2
<1>13. ASSUME ~ResetsList(d), NEW k \in 0 .. n + 1
       PROVE  Len(w[k].sections) = Len(w[0].sections)
  <2>1. \A j \in 1 .. n + 1 : d[j].op \notin {"insert", "remove", "move"}
    BY <1>4, <1>7, <1>13 DEF ResetsList
  <2>2. n + 1 \in 1 .. n + 1 /\ \A j \in 1 .. n : j \in 1 .. n + 1
    BY <1>4
  <2>3. done.op \notin {"insert", "remove", "move"}
    BY <1>7, <2>1, <2>2
  <2>4. \A j \in DOMAIN entry : entry[j].op \notin {"insert", "remove", "move"}
    BY <1>2, <1>3, <1>7, <2>1, <2>2
  <2>5. ~ResetsList(entry)
    BY <2>4 DEF ResetsList
  <2>6. \A j \in 0 .. n : Len(way[j].sections) = Len(way[0].sections)
    BY <1>1, <1>3, <2>5 DEF Way
  <2>7. 0 \in 0 .. n /\ n \in 0 .. n
    BY <1>4
  <2>8. CASE k = n + 1
    BY <1>1, <1>3, <1>10, <2>3, <2>6, <2>7, <2>8
  <2>9. CASE k # n + 1
    <3>1. k \in 0 .. n
      BY <1>4, <2>9
    <3> QED BY <1>10, <2>6, <2>7, <3>1
  <2> QED BY <2>8, <2>9
<1>14. Way(w, d, u)
  BY <1>7, <1>8, <1>10, <1>12, <1>13 DEF Way
<1>15. Done(d, p, r)
  BY <1>7, <1>10, <1>11, <1>14, WayIsDone
<1> QED BY <1>5, <1>15

LEMMA OneIsDone ==
  ASSUME NEW q \in Projects, NEW r, NEW done, NEW undone, Turns(q, r, done, undone),
         done.op \notin {"insert", "remove", "move"} =>
           Len(r.sections) = Len(q.sections)
  PROVE  Done(<<done>>, q, r)
<1>1. PICK e : e = <<>>
  OBVIOUS
<1>2. Done(e, q, q)
  BY <1>1, EmptyIsDone
<1>3. Done(Append(e, done), q, r)
  BY <1>2, OneMoreIsDone
<1>4. Append(e, done) = <<done>>
  BY <1>1
<1> QED BY <1>3, <1>4

-------------------------------------------------------------------------------
(* StatesOf yields the states between which the entries lead.              *)
BackAlong(stack, n, p, f) ==
  f = [k \in 0 .. n |->
         IF k = n THEN p ELSE RevertEntry(stack[k + 1], f[k + 1]).project]
ForthAlong(stack, m, n, p, f) ==
  f = [k \in m .. n |->
         IF k = m THEN p ELSE ApplyEntry(stack[k], f[k - 1]).project]

LEMMA OnlyStatesBack ==
  ASSUME NEW stack, NEW n \in Nat, NEW p, NEW f, BackAlong(stack, n, p, f),
         NEW g, BackAlong(stack, n, p, g)
  PROVE  f = g
<1> USE DEF BackAlong
<1>1. SUFFICES ASSUME NEW x \in 0 .. n, g[x] # f[x]
               PROVE  FALSE
  <2>1. g = [k \in 0 .. n |-> g[k]] /\ f = [k \in 0 .. n |-> f[k]]
    OBVIOUS
  <2> QED BY <2>1
<1>2. PICK k \in 0 .. n : g[k] # f[k] /\ \A j \in 0 .. n : g[j] # f[j] => j <= k
  <2>1. PICK S : S = {y \in 0 .. n : g[n - y] # f[n - y]}
    OBVIOUS
  <2>2. S \in SUBSET Nat /\ S # {}
    <3>1. PICK z : z = n - x
      OBVIOUS
    <3>2. z \in 0 .. n /\ n - z = x
      BY <3>1
    <3>3. z \in S
      BY <1>1, <2>1, <3>2
    <3>4. S \subseteq 0 .. n
      BY <2>1
    <3> QED BY <3>3, <3>4
  <2>3. PICK s \in S : \A r \in S : s <= r
    BY <2>2, SmallestOf
  <2>4. n - s \in 0 .. n /\ g[n - s] # f[n - s]
    BY <2>1, <2>3
  <2>5. ASSUME NEW j \in 0 .. n, g[j] # f[j]
        PROVE  j <= n - s
    <3>1. n - j \in 0 .. n /\ n - (n - j) = j
      OBVIOUS
    <3>2. n - j \in S
      BY <2>1, <2>5, <3>1
    <3>3. s <= n - j /\ s \in Int
      BY <2>2, <2>3, <3>2
    <3> QED BY <3>3
  <2> QED BY <2>4, <2>5
<1>3. CASE k = n
  BY <1>2, <1>3
<1>4. CASE k # n
  <2>1. PICK j : j = k + 1
    OBVIOUS
  <2>2. j \in 0 .. n /\ ~(j <= k)
    BY <1>2, <1>4, <2>1
  <2>3. g[j] = f[j]
    BY <1>2, <2>2
  <2>4. /\ g[k] = RevertEntry(stack[j], g[j]).project
        /\ f[k] = RevertEntry(stack[j], f[j]).project
    BY <1>4, <2>1
  <2> QED BY <1>2, <2>3, <2>4
<1> QED BY <1>3, <1>4

LEMMA OnlyStatesForth ==
  ASSUME NEW stack, NEW m \in Nat, NEW n \in Nat, NEW p,
         NEW f, ForthAlong(stack, m, n, p, f), NEW g, ForthAlong(stack, m, n, p, g)
  PROVE  f = g
<1> USE DEF ForthAlong
<1>1. SUFFICES ASSUME NEW x \in m .. n, g[x] # f[x]
               PROVE  FALSE
  <2>1. g = [k \in m .. n |-> g[k]] /\ f = [k \in m .. n |-> f[k]]
    OBVIOUS
  <2> QED BY <2>1
<1>2. PICK k \in m .. n : g[k] # f[k] /\ \A j \in m .. n : g[j] # f[j] => k <= j
  <2>1. PICK S : S = {k \in m .. n : g[k] # f[k]}
    OBVIOUS
  <2>2. S \in SUBSET Nat /\ S # {}
    <3>1. x \in S
      BY <1>1, <2>1
    <3>2. S \subseteq m .. n
      BY <2>1
    <3> QED BY <3>1, <3>2
  <2>3. \E s \in S : \A r \in S : s <= r
    BY <2>2, SmallestOf
  <2> QED BY <2>1, <2>3
<1>3. CASE k = m
  BY <1>2, <1>3
<1>4. CASE k # m
  <2>1. PICK j : j = k - 1
    OBVIOUS
  <2>2. j \in m .. n /\ ~(k <= j)
    BY <1>2, <1>4, <2>1
  <2>3. g[j] = f[j]
    BY <1>2, <2>2
  <2>4. /\ g[k] = ApplyEntry(stack[k], g[j]).project
        /\ f[k] = ApplyEntry(stack[k], f[j]).project
    BY <1>4, <2>1
  <2> QED BY <1>2, <2>3, <2>4
<1> QED BY <1>3, <1>4

LEMMA StatesAre ==
  ASSUME NEW stack \in Seq(Seq(Commands)), NEW i \in 0 .. Len(stack), NEW p,
         NEW batch, NEW H \in Seq(Projects), Len(H) = Len(stack) + 1,
         \A k \in 1 .. i : Done(stack[k], H[k], H[k + 1]),
         \A k \in i + 1 .. Len(stack) : Undone(stack[k], H[k], H[k + 1]),
         Done(batch, H[i + 1], p)
  PROVE  StatesOf(stack, i, p, batch) = H
<1>1. PICK n : n = Len(stack)
  OBVIOUS
<1>2. n \in Nat /\ i \in 0 .. n /\ i \in Nat
  BY <1>1
<1>3. PICK present : present = RevertEntry(batch, p).project
  OBVIOUS
<1>4. present = H[i + 1]
  BY <1>3, DoneReverts
<1>5. PICK b : b = [k \in 0 .. i |-> H[k + 1]]
  OBVIOUS
<1>6. PICK f : f = [k \in i .. n |-> H[k + 1]]
  OBVIOUS
<1>7. b = [k \in 0 .. i |->
             IF k = i THEN present ELSE RevertEntry(stack[k + 1], b[k + 1]).project]
  <2>1. ASSUME NEW k \in 0 .. i, k # i
        PROVE  b[k] = RevertEntry(stack[k + 1], b[k + 1]).project
    <3>1. PICK j : j = k + 1
      OBVIOUS
    <3>2. j \in 1 .. i /\ j \in 0 .. i
      BY <1>2, <2>1, <3>1
    <3>3. Done(stack[j], H[j], H[j + 1])
      BY <3>2
    <3>4. RevertEntry(stack[j], H[j + 1]).project = H[j]
      BY <3>3, DoneReverts
    <3>5. b[j] = H[j + 1] /\ b[k] = H[j]
      BY <1>5, <3>1, <3>2
    <3> QED BY <3>1, <3>4, <3>5
  <2>2. b[i] = present
    BY <1>2, <1>4, <1>5
  <2>3. b = [k \in 0 .. i |-> b[k]]
    BY <1>5
  <2> QED BY <2>1, <2>2, <2>3
<1>8. f = [k \in i .. n |->
             IF k = i THEN present ELSE ApplyEntry(stack[k], f[k - 1]).project]
  <2>1. ASSUME NEW k \in i .. n, k # i
        PROVE  f[k] = ApplyEntry(stack[k], f[k - 1]).project
    <3>1. PICK j : j = k - 1
      OBVIOUS
    <3>2. k \in i + 1 .. n /\ j \in i .. n /\ j + 1 = k
      BY <1>2, <2>1, <3>1
    <3>3. Undone(stack[k], H[k], H[k + 1])
      BY <1>1, <3>2
    <3>4. ApplyEntry(stack[k], H[k]).project = H[k + 1]
      BY <3>3, UndoneReapplies
    <3>5. f[k] = H[k + 1] /\ f[j] = H[k]
      BY <1>6, <3>2
    <3> QED BY <3>1, <3>4, <3>5
  <2>2. f[i] = present
    BY <1>2, <1>4, <1>6
  <2>3. f = [k \in i .. n |-> f[k]]
    BY <1>6
  <2> QED BY <2>1, <2>2, <2>3
<1> DEFINE back == CHOOSE back : back = [k \in 0 .. i |->
             IF k = i THEN present ELSE RevertEntry(stack[k + 1], back[k + 1]).project]
           forth == CHOOSE forth : forth = [k \in i .. n |->
             IF k = i THEN present ELSE ApplyEntry(stack[k], forth[k - 1]).project]
<1>9. StatesOf(stack, i, p, batch) =
        [k \in 1 .. n + 1 |-> IF k <= i THEN back[k - 1] ELSE forth[k - 1]]
  BY <1>1, <1>3 DEF StatesOf
<1>10. back = [k \in 0 .. i |->
         IF k = i THEN present ELSE RevertEntry(stack[k + 1], back[k + 1]).project]
  BY <1>7
<1>11. forth = [k \in i .. n |->
         IF k = i THEN present ELSE ApplyEntry(stack[k], forth[k - 1]).project]
  BY <1>8
<1> HIDE DEF back, forth
<1>12. back = b
  <2>1. BackAlong(stack, i, present, back) /\ BackAlong(stack, i, present, b)
    BY <1>7, <1>10 DEF BackAlong
  <2> QED BY ONLY <1>2, <2>1, OnlyStatesBack
<1>13. forth = f
  <2>1. ForthAlong(stack, i, n, present, forth) /\ ForthAlong(stack, i, n, present, f)
    BY <1>8, <1>11 DEF ForthAlong
  <2> QED BY ONLY <1>2, <2>1, OnlyStatesForth
<1>14. H = [k \in 1 .. n + 1 |-> IF k <= i THEN b[k - 1] ELSE f[k - 1]]
  <2>1. ASSUME NEW k \in 1 .. n + 1
        PROVE  H[k] = IF k <= i THEN b[k - 1] ELSE f[k - 1]
    <3>1. PICK j : j = k - 1
      OBVIOUS
    <3>2. j + 1 = k /\ (k <= i => j \in 0 .. i) /\ (~(k <= i) => j \in i .. n)
      BY <1>2, <3>1
    <3> QED BY <1>5, <1>6, <3>1, <3>2
  <2>2. H = [k \in 1 .. n + 1 |-> H[k]]
    BY <1>1
  <2> QED BY <2>1, <2>2
<1> QED BY <1>9, <1>12, <1>13, <1>14

-------------------------------------------------------------------------------
(* The document's methods. What they keep is stated of their variables.    *)
DocumentTypes ==
  /\ project \in Projects /\ is_open \in BOOLEAN /\ modified \in BOOLEAN
  /\ undo_index \in 0 .. Len(undo_stack)
  /\ saved_undo_index \in Unreachable .. Len(undo_stack)
  /\ batch_depth \in {0, 1} /\ (batch_commands # <<>> => batch_depth = 1)
  /\ file \in Projects \cup {Torn}
DocumentPart == DocumentTypes /\ StatesInStep /\ SavedInStep

Stays == states' = states /\ undo_index' = undo_index

LEMMA KeptDocument ==
  ASSUME DocumentPart, UNCHANGED document_vars, UNCHANGED file, Follow
  PROVE  DocumentPart' /\ Stays
<1>1. StatesOf(undo_stack, undo_index, project, batch_commands) = states
  BY StatesAre DEF DocumentPart, DocumentTypes, StatesInStep
<1>2. states' = states
  BY <1>1 DEF Follow, document_vars
<1>3. DocumentTypes'
  BY DEF DocumentPart, DocumentTypes, document_vars
<1>4. StatesInStep'
  BY <1>2 DEF DocumentPart, StatesInStep, document_vars
<1>5. SavedInStep'
  BY <1>2 DEF DocumentPart, SavedInStep, document_vars
<1> QED BY <1>2, <1>3, <1>4, <1>5 DEF DocumentPart, Stays, document_vars

LEMMA CutAndAppended ==
  ASSUME NEW S, NEW s \in Seq(S), NEW i \in 0 .. Len(s), NEW e \in S,
         NEW t, t = Append(SubSeq(s, 1, i), e)
  PROVE  /\ t \in Seq(S) /\ Len(t) = i + 1 /\ t[i + 1] = e
         /\ \A k \in 1 .. i : t[k] = s[k]
         /\ SubSeq(t, 1, i) = SubSeq(s, 1, i)
<1>1. PICK u : u = SubSeq(s, 1, i)
  OBVIOUS
<1>2. u \in Seq(S) /\ Len(u) = i /\ \A k \in 1 .. i : u[k] = s[k]
  BY <1>1
<1>3. /\ t \in Seq(S) /\ Len(t) = i + 1 /\ t[i + 1] = e
      /\ \A k \in 1 .. i : t[k] = u[k]
  BY <1>1, <1>2, Appended
<1>4. PICK w : w = SubSeq(t, 1, i)
  OBVIOUS
<1>5. w \in Seq(S) /\ Len(w) = i /\ \A k \in 1 .. i : w[k] = t[k]
  BY <1>3, <1>4
<1>6. w = u
  BY <1>2, <1>3, <1>5, SameSeq
<1> QED BY <1>1, <1>2, <1>3, <1>4, <1>6

(* The states a push leaves: those up to the present one, and the new one. *)
Leaves(entry, q, stack, H) ==
  /\ stack = Append(SubSeq(undo_stack, 1, undo_index), entry)
  /\ StatesOf(stack, undo_index + 1, q, <<>>) = H
  /\ stack \in Seq(Seq(Commands)) /\ Len(stack) = undo_index + 1
  /\ H \in Seq(Projects) /\ Len(H) = undo_index + 2
  /\ H[undo_index + 2] = q
  /\ \A k \in 1 .. undo_index + 1 : H[k] = states[k]
  /\ SubSeq(H, 1, undo_index + 1) = SubSeq(states, 1, undo_index + 1)
  /\ \A k \in 1 .. undo_index + 1 : Done(stack[k], H[k], H[k + 1])

LEMMA PushedStates ==
  ASSUME StatesInStep, undo_index \in 0 .. Len(undo_stack),
         NEW entry \in Seq(Commands), NEW q \in Projects,
         Done(entry, states[undo_index + 1], q)
  PROVE  \E stack, H : Leaves(entry, q, stack, H)
<1>1. PICK stack : stack = Append(SubSeq(undo_stack, 1, undo_index), entry)
  OBVIOUS
<1>2. PICK H : H = Append(SubSeq(states, 1, undo_index + 1), q)
  OBVIOUS
<1>3. PICK i : i = undo_index
  OBVIOUS
<1>4. /\ undo_stack \in Seq(Seq(Commands)) /\ states \in Seq(Projects)
      /\ Len(states) = Len(undo_stack) + 1 /\ i \in 0 .. Len(undo_stack)
      /\ \A k \in 1 .. i : Done(undo_stack[k], states[k], states[k + 1])
  BY <1>3 DEF StatesInStep
<1>5. i \in Nat /\ i + 1 \in 0 .. Len(states) /\ i + 1 \in Nat
  BY <1>4
<1>6. /\ stack \in Seq(Seq(Commands)) /\ Len(stack) = i + 1
      /\ stack[i + 1] = entry /\ \A k \in 1 .. i : stack[k] = undo_stack[k]
  BY <1>3, <1>4, <1>1, CutAndAppended
<1>7. PICK j : j = i + 1
  OBVIOUS
<1>8. /\ H \in Seq(Projects) /\ Len(H) = j + 1 /\ H[j + 1] = q
      /\ \A k \in 1 .. j : H[k] = states[k]
      /\ SubSeq(H, 1, j) = SubSeq(states, 1, j)
  BY <1>3, <1>4, <1>5, <1>7, <1>2, CutAndAppended
<1>9. ASSUME NEW k \in 1 .. j
      PROVE  Done(stack[k], H[k], H[k + 1])
  <2>1. CASE k = j
    BY <1>3, <1>6, <1>7, <1>8, <2>1
  <2>2. CASE k # j
    <3>1. PICK l : l = k + 1
      OBVIOUS
    <3>2. k \in 1 .. i /\ l \in 1 .. j
      BY <1>5, <1>7, <2>2, <3>1
    <3>3. Done(undo_stack[k], states[k], states[l])
      BY <1>4, <3>1, <3>2
    <3>4. stack[k] = undo_stack[k] /\ H[k] = states[k] /\ H[l] = states[l]
      BY <1>6, <1>8, <3>2
    <3> QED BY <3>1, <3>3, <3>4
  <2> QED BY <2>1, <2>2
<1>10. Done(<<>>, H[j + 1], q)
  BY <1>8, EmptyIsDone
<1>11. j \in 0 .. Len(stack) /\ \A k \in 1 .. j : k \in 1 .. Len(stack)
  BY <1>5, <1>6, <1>7
<1>12. StatesOf(stack, j, q, <<>>) = H
  <2>1. PICK batch : batch = <<>>
    OBVIOUS
  <2>2. j + 1 .. Len(stack) = {}
    BY <1>5, <1>6, <1>7
  <2>3. StatesOf(stack, j, q, batch) = H
    <3>1. \A k \in j + 1 .. Len(stack) : Undone(stack[k], H[k], H[k + 1])
      BY <2>2
    <3>2. Len(H) = Len(stack) + 1
      BY <1>6, <1>7, <1>8
    <3>3. /\ stack \in Seq(Seq(Commands)) /\ j \in 0 .. Len(stack)
          /\ H \in Seq(Projects) /\ Done(batch, H[j + 1], q)
      BY <1>6, <1>8, <1>10, <1>11, <2>1
    <3> QED BY ONLY <1>9, <3>1, <3>2, <3>3, StatesAre
  <2> QED BY <2>1, <2>3
<1>13. undo_index + 1 = j /\ undo_index + 2 = j + 1
  BY <1>3, <1>5, <1>7
<1>14. /\ StatesOf(stack, undo_index + 1, q, <<>>) = H
       /\ Len(stack) = undo_index + 1 /\ Len(H) = undo_index + 2
       /\ H[undo_index + 2] = q
  BY <1>6, <1>7, <1>8, <1>12, <1>13
<1>15. /\ \A k \in 1 .. undo_index + 1 : H[k] = states[k]
       /\ SubSeq(H, 1, undo_index + 1) = SubSeq(states, 1, undo_index + 1)
       /\ \A k \in 1 .. undo_index + 1 : Done(stack[k], H[k], H[k + 1])
  BY ONLY <1>8, <1>9, <1>13
<1>16. Leaves(entry, q, stack, H)
  BY ONLY <1>6, <1>8, <1>14, <1>15, <1>1 DEF Leaves
<1> QED BY <1>16

LEMMA Pushed ==
  ASSUME DocumentPart, NEW entry \in Seq(Commands),
         Done(entry, states[undo_index + 1], project'),
         PushUndoEntry(entry), UpdateModified,
         batch_commands' = <<>>, batch_depth' = 0, UNCHANGED <<is_open, file>>,
         Follow
  PROVE  DocumentPart' /\ History!Edit
<1>1. project' \in Projects
  BY DoneReverts
<1>2. PICK i : i = undo_index
  OBVIOUS
<1>3. i \in Nat /\ undo_index \in 0 .. Len(undo_stack) /\ StatesInStep
  BY <1>2 DEF DocumentPart, DocumentTypes, StatesInStep
<1>4. PICK q : q = project'
  OBVIOUS
<1>5. PICK stack, H : Leaves(entry, q, stack, H)
  <2>1. Done(entry, states[undo_index + 1], q) /\ q \in Projects
    BY <1>1, <1>4
  <2>2. entry \in Seq(Commands)
    OBVIOUS
  <2> QED BY ONLY <1>3, <2>1, <2>2, PushedStates
<1>6. /\ stack = Append(SubSeq(undo_stack, 1, undo_index), entry)
      /\ StatesOf(stack, undo_index + 1, q, <<>>) = H
      /\ stack \in Seq(Seq(Commands)) /\ Len(stack) = undo_index + 1
      /\ H \in Seq(Projects) /\ Len(H) = undo_index + 2
      /\ H[undo_index + 2] = q
      /\ \A k \in 1 .. undo_index + 1 : H[k] = states[k]
      /\ SubSeq(H, 1, undo_index + 1) = SubSeq(states, 1, undo_index + 1)
      /\ \A k \in 1 .. undo_index + 1 : Done(stack[k], H[k], H[k + 1])
  BY <1>5 DEF Leaves
<1>7. undo_stack' = stack /\ undo_index' = i + 1
  BY <1>2, <1>6 DEF PushUndoEntry
<1>8. states' = H
  BY <1>2, <1>4, <1>6, <1>7 DEF Follow
<1>9. /\ Len(stack) = i + 1 /\ Len(H) = i + 2 /\ H[i + 2] = q
      /\ \A k \in 1 .. i + 1 : H[k] = states[k]
      /\ SubSeq(H, 1, i + 1) = SubSeq(states, 1, i + 1)
      /\ \A k \in 1 .. i + 1 : Done(stack[k], H[k], H[k + 1])
  BY <1>2, <1>6
<1>10. StatesInStep'
  <2>1. PICK e : e = <<>>
    OBVIOUS
  <2>2. e \in Seq(Commands)
    BY <2>1
  <2>3. Done(e, q, q)
    BY <1>1, <1>4, <2>1, EmptyIsDone
  <2>4. (i + 1) + 1 = i + 2 /\ (i + 1) + 1 .. i + 1 = {}
    BY <1>3
  <2> QED BY <1>4, <1>6, <1>7, <1>8, <1>9, <2>1, <2>2, <2>3, <2>4 DEF StatesInStep
<1>11. saved_undo_index' \in Unreachable .. i + 1
       /\ (saved_undo_index' # Unreachable =>
             saved_undo_index' = saved_undo_index /\ saved_undo_index \in 0 .. i)
  <2>1. saved_undo_index \in Unreachable .. Len(undo_stack) /\ Len(undo_stack) \in Nat
    BY DEF DocumentPart, DocumentTypes, StatesInStep
  <2>2. saved_undo_index' = IF saved_undo_index > i THEN Unreachable
                                                    ELSE saved_undo_index
    BY <1>2 DEF PushUndoEntry
  <2> QED BY <1>3, <2>1, <2>2 DEF Unreachable
<1>12. modified' \in BOOLEAN /\ (~modified' => undo_index' = saved_undo_index')
  BY DEF UpdateModified
<1>13. SavedInStep'
  <2>1. ASSUME saved_undo_index' # Unreachable, file # Torn
        PROVE  H[saved_undo_index' + 1] = file
    <3>1. PICK s : s = saved_undo_index
      OBVIOUS
    <3>2. s \in 0 .. i /\ s = saved_undo_index' /\ s # Unreachable
      BY <1>11, <2>1, <3>1
    <3>3. PICK t : t = s + 1
      OBVIOUS
    <3>4. t \in 1 .. i + 1
      <4>1. i \in Nat /\ s \in 0 .. i
        BY <1>3, <3>2
      <4> QED BY ONLY <3>3, <4>1
    <3>5. states[t] = file
      BY <2>1, <3>1, <3>2, <3>3 DEF DocumentPart, SavedInStep
    <3> QED BY <1>9, <3>2, <3>3, <3>4, <3>5
  <2> QED BY <1>8, <1>12, <2>1 DEF SavedInStep
<1>14. DocumentTypes'
  <2>1. undo_index' \in 0 .. Len(undo_stack')
    BY <1>3, <1>7, <1>9
  <2>2. saved_undo_index' \in Unreachable .. Len(undo_stack')
    BY <1>7, <1>9, <1>11
  <2>3. is_open' \in BOOLEAN /\ file' \in Projects \cup {Torn}
    BY DEF DocumentPart, DocumentTypes
  <2> QED BY <1>1, <1>12, <2>1, <2>2, <2>3 DEF DocumentTypes
<1>15. History!Edit
  <2>1. (undo_index + 1)' = (undo_index + 1) + 1 /\ undo_index + 1 = i + 1
        /\ (undo_index + 1)' = i + 2
    BY <1>2, <1>3, <1>7
  <2> QED BY <1>1, <1>4, <1>8, <1>9, <2>1 DEF History!Edit
<1> QED BY <1>10, <1>13, <1>14, <1>15 DEF DocumentPart

(* A command in an open batch joins its entry; the states are as before.   *)
LEMMA CommandJoins ==
  ASSUME DocumentPart, NEW done, NEW undone, Turns(project, project', done, undone),
         done.op \notin {"insert", "remove", "move"} => Len(project'.sections) = Count,
         batch_depth > 0, UNCHANGED <<batch_depth, is_open, file>>,
         batch_commands' = Append(batch_commands, done), modified' = TRUE,
         UNCHANGED <<undo_stack, undo_index, saved_undo_index>>, Follow
  PROVE  DocumentPart' /\ Stays
<1>1. PICK p : p = states[undo_index + 1]
  OBVIOUS
<1>2. PICK q : q = project'
  OBVIOUS
<1>3. /\ Done(batch_commands, p, project) /\ Turns(project, q, done, undone)
      /\ done.op \notin {"insert", "remove", "move"} =>
           Len(q.sections) = Len(project.sections)
  BY <1>1, <1>2 DEF DocumentPart, StatesInStep, Count
<1>4. Done(Append(batch_commands, done), p, q)
  BY <1>3, OneMoreIsDone
<1>5. q \in Projects /\ done \in Commands /\ batch_commands \in Seq(Commands)
  BY <1>3 DEF Turns, DocumentPart, StatesInStep
<1>6. Append(batch_commands, done) \in Seq(Commands)
  BY <1>5
<1>7. /\ undo_stack \in Seq(Seq(Commands)) /\ undo_index \in 0 .. Len(undo_stack)
      /\ states \in Seq(Projects) /\ Len(states) = Len(undo_stack) + 1
      /\ \A k \in 1 .. undo_index : Done(undo_stack[k], states[k], states[k + 1])
      /\ \A k \in undo_index + 1 .. Len(undo_stack) :
           Undone(undo_stack[k], states[k], states[k + 1])
  BY DEF DocumentPart, DocumentTypes, StatesInStep
<1>8. StatesOf(undo_stack, undo_index, q, Append(batch_commands, done)) = states
  BY <1>1, <1>4, <1>7, StatesAre
<1>9. states' = states
  BY <1>2, <1>8 DEF Follow
<1>10. StatesInStep'
  BY <1>1, <1>2, <1>4, <1>6, <1>7, <1>9 DEF StatesInStep
<1>11. SavedInStep'
  BY <1>9 DEF DocumentPart, SavedInStep
<1>12. DocumentTypes'
  <2>1. batch_depth' = 1
    BY DEF DocumentPart, DocumentTypes
  <2> QED BY <1>2, <1>5, <2>1 DEF DocumentPart, DocumentTypes
<1> QED BY <1>9, <1>10, <1>11, <1>12 DEF DocumentPart, Stays

LEMMA CommandPushed ==
  ASSUME DocumentPart, NEW done, NEW undone, Turns(project, project', done, undone),
         done.op \notin {"insert", "remove", "move"} => Len(project'.sections) = Count,
         batch_depth = 0, UNCHANGED <<batch_depth, is_open, file, batch_commands>>,
         PushUndoEntry(<<done>>), UpdateModified, Follow
  PROVE  DocumentPart' /\ History!Edit
<1>1. batch_commands = <<>>
  BY DEF DocumentPart, DocumentTypes
<1>2. PICK p : p = states[undo_index + 1]
  OBVIOUS
<1>3. PICK q : q = project'
  OBVIOUS
<1>4. Done(<<>>, p, project) /\ project \in Projects
  BY <1>1, <1>2 DEF DocumentPart, DocumentTypes, StatesInStep
<1>5. p = project
  <2>1. PICK e : e = <<>>
    OBVIOUS
  <2>2. PICK way, back : Way(way, e, back) /\ way[0] = p /\ way[Len(e)] = project
    BY <1>4, <2>1, DoneHasWay
  <2> QED BY <2>1, <2>2
<1>6. /\ Turns(project, q, done, undone)
      /\ done.op \notin {"insert", "remove", "move"} =>
           Len(q.sections) = Len(project.sections)
  BY <1>3 DEF Count
<1>7. PICK e : e = <<done>>
  OBVIOUS
<1>8. Done(e, p, q)
  BY <1>4, <1>5, <1>6, <1>7, OneIsDone
<1>9. e \in Seq(Commands)
  BY <1>6, <1>7 DEF Turns
<1>10. /\ Done(e, states[undo_index + 1], project') /\ PushUndoEntry(e)
       /\ batch_commands' = <<>> /\ batch_depth' = 0
  BY <1>1, <1>2, <1>3, <1>7, <1>8
<1> QED BY <1>9, <1>10, Pushed

(* Submitting a command: a row more, a row less, or as many.               *)
Edits == History!Edit \/ Stays

LEMMA SubmitStep ==
  ASSUME DocumentPart, NEW c \in QueuedCommands,
         c.op = "settings" => c.index \in DOMAIN project.settings,
         Effective(c), ApplyCommand(c), UNCHANGED file, Follow
  PROVE  /\ DocumentPart' /\ Edits /\ batch_depth' = batch_depth
         /\ Len(project'.settings) = Len(project.settings)
         /\ c.op = "insert" => Count' = Count + 1
         /\ c.op \in {"settings", "set", "move"} => Count' = Count
<1>1. project \in Projects
  BY DEF DocumentPart, DocumentTypes
<1>2. PICK q, done, undone :
        /\ Apply(c, project) = Outcome(q, done) /\ Turns(project, q, done, undone)
        /\ done.op = c.op /\ Len(q.settings) = Len(project.settings)
        /\ c.op = "insert" => Len(q.sections) = Count + 1
        /\ c.op \in {"settings", "set", "move"} => Len(q.sections) = Count
  BY <1>1, SubmittedTurns
<1>3. Apply(c, project).project = q /\ Apply(c, project).command = done
  BY <1>2, OutcomeFields
<1>4. project' = q /\ UNCHANGED <<is_open, batch_depth>>
  BY <1>3 DEF ApplyCommand
<1>5. c.op \in {"settings", "insert", "set", "remove", "move"}
  BY DEF QueuedCommands
<1>6. /\ Turns(project, project', done, undone)
      /\ done.op \notin {"insert", "remove", "move"} => Len(project'.sections) = Count
  BY <1>2, <1>4, <1>5
<1>7. CASE batch_depth > 0
  <2>1. /\ batch_commands' = Append(batch_commands, done) /\ modified' = TRUE
        /\ UNCHANGED <<undo_stack, undo_index, saved_undo_index>>
    BY <1>3, <1>7 DEF ApplyCommand
  <2>2. DocumentPart' /\ Stays
    BY <1>4, <1>6, <1>7, <2>1, CommandJoins
  <2> QED BY <1>2, <1>4, <2>2 DEF Edits, Count
<1>8. CASE batch_depth = 0
  <2>1. /\ UNCHANGED batch_commands /\ PushUndoEntry(<<done>>) /\ UpdateModified
    BY <1>3, <1>8 DEF ApplyCommand
  <2>2. DocumentPart' /\ History!Edit
    BY <1>4, <1>6, <1>8, <2>1, CommandPushed
  <2> QED BY <1>2, <1>4, <2>2 DEF Edits, Count
<1> QED BY <1>7, <1>8 DEF ApplyCommand

LEMMA BeginStep ==
  ASSUME DocumentPart, BeginBatch, batch_depth = 0, UNCHANGED file, Follow
  PROVE  DocumentPart' /\ Stays /\ batch_depth' = 1 /\ UNCHANGED project
<1>1. /\ UNCHANGED <<project, is_open, modified, undo_stack, undo_index,
                     saved_undo_index, batch_commands>>
      /\ batch_depth' = 1
  BY DEF BeginBatch
<1>2. StatesOf(undo_stack, undo_index, project, batch_commands) = states
  BY StatesAre DEF DocumentPart, DocumentTypes, StatesInStep
<1>3. states' = states
  BY <1>1, <1>2 DEF Follow
<1>4. DocumentTypes'
  BY <1>1 DEF DocumentPart, DocumentTypes
<1>5. StatesInStep'
  BY <1>1, <1>3 DEF DocumentPart, StatesInStep
<1>6. SavedInStep'
  BY <1>1, <1>3 DEF DocumentPart, SavedInStep
<1> QED BY <1>1, <1>3, <1>4, <1>5, <1>6 DEF DocumentPart, Stays

LEMMA EndStep ==
  ASSUME DocumentPart, EndBatch, batch_depth = 1, UNCHANGED file, Follow
  PROVE  DocumentPart' /\ Edits /\ batch_depth' = 0 /\ UNCHANGED project
<1>1. batch_depth' = 0 /\ UNCHANGED <<project, is_open>>
  BY DEF EndBatch
<1>2. CASE batch_commands # <<>>
  <2>1. /\ batch_commands' = <<>> /\ PushUndoEntry(batch_commands) /\ UpdateModified
    BY <1>2 DEF EndBatch
  <2>2. /\ Done(batch_commands, states[undo_index + 1], project')
        /\ batch_commands \in Seq(Commands)
    BY <1>1 DEF DocumentPart, StatesInStep
  <2>3. DocumentPart' /\ History!Edit
    BY <1>1, <2>1, <2>2, Pushed
  <2> QED BY <1>1, <2>3 DEF Edits
<1>3. CASE batch_commands = <<>>
  <2>1. UNCHANGED <<batch_commands, undo_stack, undo_index, saved_undo_index, modified>>
    BY <1>3 DEF EndBatch
  <2>2. StatesOf(undo_stack, undo_index, project, batch_commands) = states
    BY StatesAre DEF DocumentPart, DocumentTypes, StatesInStep
  <2>3. states' = states
    BY <1>1, <2>1, <2>2 DEF Follow
  <2>4. DocumentTypes'
    BY <1>1, <1>3, <2>1 DEF DocumentPart, DocumentTypes
  <2>5. StatesInStep'
    BY <1>1, <2>1, <2>3 DEF DocumentPart, StatesInStep
  <2>6. SavedInStep'
    BY <2>1, <2>3 DEF DocumentPart, SavedInStep
  <2> QED BY <1>1, <2>1, <2>3, <2>4, <2>5, <2>6 DEF DocumentPart, Edits, Stays
<1> QED BY <1>2, <1>3

(* Without an open batch the present project is the state at undo_index.   *)
LEMMA PresentState ==
  ASSUME DocumentPart, batch_commands = <<>>
  PROVE  project = states[undo_index + 1]
<1>1. PICK p : p = states[undo_index + 1]
  OBVIOUS
<1>2. PICK e : e = <<>>
  OBVIOUS
<1>3. Done(e, p, project)
  BY <1>1, <1>2 DEF DocumentPart, StatesInStep
<1>4. PICK way, back : Way(way, e, back) /\ way[0] = p /\ way[Len(e)] = project
  BY <1>3, DoneHasWay
<1> QED BY <1>1, <1>2, <1>4

(* What both Undo and Redo leave: the same states and another place.       *)
LEMMA PlaceMoved ==
  ASSUME DocumentPart, batch_commands = <<>>, batch_depth = 0,
         NEW j \in 0 .. Len(undo_stack), undo_index' = j,
         undo_stack' \in Seq(Seq(Commands)), Len(undo_stack') = Len(undo_stack),
         \A k \in 1 .. j : Done(undo_stack'[k], states[k], states[k + 1]),
         \A k \in j + 1 .. Len(undo_stack) :
           Undone(undo_stack'[k], states[k], states[k + 1]),
         project' = states[j + 1],
         UNCHANGED <<is_open, saved_undo_index, batch_depth, batch_commands, file>>,
         UpdateModified, Follow
  PROVE  DocumentPart' /\ states' = states
<1>1. /\ states \in Seq(Projects) /\ Len(states) = Len(undo_stack) + 1
      /\ Len(undo_stack) \in Nat
  BY DEF DocumentPart, StatesInStep
<1>2. PICK q : q = project'
  OBVIOUS
<1>3. q \in Projects
  <2>1. j + 1 \in 1 .. Len(states)
    BY <1>1
  <2> QED BY <1>1, <1>2, <2>1
<1>4. PICK e : e = <<>>
  OBVIOUS
<1>5. Done(e, states[j + 1], q) /\ e \in Seq(Commands)
  BY <1>2, <1>3, <1>4, EmptyIsDone
<1>6. PICK stack : stack = undo_stack'
  OBVIOUS
<1>7. /\ stack \in Seq(Seq(Commands)) /\ j \in 0 .. Len(stack)
      /\ states \in Seq(Projects) /\ Len(states) = Len(stack) + 1
      /\ \A k \in 1 .. j : Done(stack[k], states[k], states[k + 1])
      /\ \A k \in j + 1 .. Len(stack) : Undone(stack[k], states[k], states[k + 1])
  BY <1>1, <1>6
<1>8. StatesOf(stack, j, q, e) = states
  BY ONLY <1>5, <1>7, StatesAre
<1>9. states' = states
  BY <1>2, <1>4, <1>6, <1>8 DEF Follow
<1>10. StatesInStep'
  BY <1>2, <1>4, <1>5, <1>6, <1>7, <1>9 DEF StatesInStep
<1>11. modified' \in BOOLEAN /\ (~modified' => undo_index' = saved_undo_index')
  BY DEF UpdateModified
<1>12. SavedInStep'
  BY <1>9, <1>11 DEF DocumentPart, SavedInStep
<1>13. DocumentTypes'
  BY <1>2, <1>3, <1>6, <1>7, <1>11 DEF DocumentPart, DocumentTypes
<1> QED BY <1>9, <1>10, <1>12, <1>13 DEF DocumentPart

LEMMA UndoStep ==
  ASSUME DocumentPart, Undo, UNCHANGED file, Follow
  PROVE  /\ DocumentPart' /\ History!Undo
         /\ undo_stack[undo_index] \in Seq(Commands)
         /\ ~ResetsList(undo_stack[undo_index]) => Count' = Count
<1>1. PICK i : i = undo_index
  OBVIOUS
<1>2. /\ i \in 1 .. Len(undo_stack) /\ batch_depth = 0 /\ batch_commands = <<>>
      /\ undo_stack \in Seq(Seq(Commands))
  BY <1>1 DEF Undo, CanUndo, DocumentPart, DocumentTypes, StatesInStep
<1>3. project = states[i + 1]
  BY <1>1, <1>2, PresentState
<1>4. PICK e : e = undo_stack[i]
  OBVIOUS
<1>5. Done(e, states[i], states[i + 1])
  BY <1>1, <1>2, <1>4 DEF DocumentPart, StatesInStep
<1>6. PICK u : /\ RevertEntry(e, states[i + 1]) = [project |-> states[i], entry |-> u]
               /\ u \in Seq(Commands) /\ Undone(u, states[i], states[i + 1])
               /\ states[i] \in Projects /\ e \in Seq(Commands)
               /\ ~ResetsList(e) => Len(states[i].sections) = Len(states[i + 1].sections)
  BY <1>5, DoneReverts
<1>7. /\ project' = states[i] /\ undo_stack' = [undo_stack EXCEPT ![i] = u]
      /\ UNCHANGED <<is_open, saved_undo_index, batch_depth, batch_commands>>
      /\ undo_index' = i - 1 /\ UpdateModified
  BY <1>1, <1>3, <1>4, <1>6 DEF Undo
<1>8. PICK j : j = i - 1
  OBVIOUS
<1>9. j \in 0 .. Len(undo_stack) /\ j + 1 = i /\ undo_index' = j
  BY <1>2, <1>7, <1>8
<1>10. PICK stack : stack = undo_stack'
  OBVIOUS
<1>11. /\ stack \in Seq(Seq(Commands)) /\ Len(stack) = Len(undo_stack)
       /\ stack[i] = u /\ \A k \in DOMAIN undo_stack \ {i} : stack[k] = undo_stack[k]
  BY <1>2, <1>6, <1>7, <1>10
<1>12. ASSUME NEW k \in 1 .. j
       PROVE  Done(stack[k], states[k], states[k + 1])
  <2>1. k \in DOMAIN undo_stack \ {i} /\ k \in 1 .. undo_index
    BY <1>1, <1>2, <1>9
  <2> QED BY <1>11, <2>1 DEF DocumentPart, StatesInStep
<1>13. ASSUME NEW k \in j + 1 .. Len(undo_stack)
       PROVE  Undone(stack[k], states[k], states[k + 1])
  <2>1. CASE k = i
    BY <1>6, <1>11, <2>1
  <2>2. CASE k # i
    <3>1. k \in DOMAIN undo_stack \ {i} /\ k \in undo_index + 1 .. Len(undo_stack)
      BY <1>1, <1>2, <1>9, <2>2
    <3> QED BY <1>11, <3>1 DEF DocumentPart, StatesInStep
  <2> QED BY <2>1, <2>2
<1>14. DocumentPart' /\ states' = states
  BY <1>2, <1>7, <1>9, <1>10, <1>11, <1>12, <1>13, PlaceMoved
<1>15. History!Undo
  <2>1. undo_index + 1 > 1 /\ (undo_index + 1)' = (undo_index + 1) - 1
    BY <1>1, <1>2, <1>7
  <2> QED BY <1>14, <2>1 DEF History!Undo
<1>16. ~ResetsList(e) => Count' = Count
  BY <1>3, <1>6, <1>7 DEF Count
<1> QED BY <1>1, <1>4, <1>6, <1>14, <1>15, <1>16

LEMMA RedoStep ==
  ASSUME DocumentPart, Redo, UNCHANGED file, Follow
  PROVE  /\ DocumentPart' /\ History!Redo
         /\ undo_stack[undo_index'] \in Seq(Commands)
         /\ ~ResetsList(undo_stack[undo_index']) => Count' = Count
<1>1. PICK i : i = undo_index
  OBVIOUS
<1>2. /\ i \in 0 .. Len(undo_stack) /\ i < Len(undo_stack)
      /\ batch_depth = 0 /\ batch_commands = <<>>
      /\ undo_stack \in Seq(Seq(Commands)) /\ Len(states) = Len(undo_stack) + 1
  BY <1>1 DEF Redo, CanRedo, DocumentPart, DocumentTypes, StatesInStep
<1>3. PICK j : j = i + 1
  OBVIOUS
<1>4. /\ j \in 0 .. Len(undo_stack) /\ j \in 1 .. Len(undo_stack)
      /\ j \in undo_index + 1 .. Len(undo_stack)
  BY <1>1, <1>2, <1>3
<1>5. project = states[j]
  BY <1>1, <1>2, <1>3, PresentState
<1>6. PICK e : e = undo_stack[j]
  OBVIOUS
<1>7. Undone(e, states[j], states[j + 1])
  BY <1>4, <1>6 DEF DocumentPart, StatesInStep
<1>8. PICK d : /\ ApplyEntry(e, states[j]) = [project |-> states[j + 1], entry |-> d]
               /\ d \in Seq(Commands) /\ Done(d, states[j], states[j + 1])
               /\ states[j + 1] \in Projects /\ e \in Seq(Commands)
               /\ ~ResetsList(e) => Len(states[j].sections) = Len(states[j + 1].sections)
  BY <1>7, UndoneReapplies
<1>9. undo_index' = j
  BY <1>1, <1>3 DEF Redo
<1>10. /\ project' = states[j + 1] /\ undo_stack' = [undo_stack EXCEPT ![j] = d]
       /\ UNCHANGED <<is_open, saved_undo_index, batch_depth, batch_commands>>
       /\ UpdateModified
  <2>1. ApplyEntry(undo_stack[undo_index'], project)
          = [project |-> states[j + 1], entry |-> d]
    BY <1>5, <1>6, <1>8, <1>9
  <2>2. PICK done : done = ApplyEntry(undo_stack[undo_index'], project)
    OBVIOUS
  <2>3. done.project = states[j + 1] /\ done.entry = d
    BY <2>1, <2>2
  <2>4. /\ project' = done.project
        /\ undo_stack' = [undo_stack EXCEPT ![undo_index'] = done.entry]
    BY <2>2 DEF Redo
  <2>5. /\ UNCHANGED <<is_open, saved_undo_index, batch_depth, batch_commands>>
        /\ UpdateModified
    BY DEF Redo
  <2> QED BY <1>9, <2>3, <2>4, <2>5
<1>11. PICK stack : stack = undo_stack'
  OBVIOUS
<1>12. /\ stack \in Seq(Seq(Commands)) /\ Len(stack) = Len(undo_stack)
       /\ stack[j] = d /\ \A k \in DOMAIN undo_stack \ {j} : stack[k] = undo_stack[k]
  BY <1>2, <1>4, <1>8, <1>10, <1>11
<1>13. ASSUME NEW k \in 1 .. j
       PROVE  Done(stack[k], states[k], states[k + 1])
  <2>1. CASE k = j
    BY <1>8, <1>12, <2>1
  <2>2. CASE k # j
    <3>1. k \in DOMAIN undo_stack \ {j} /\ k \in 1 .. undo_index
      BY <1>1, <1>2, <1>3, <1>4, <2>2
    <3> QED BY <1>12, <3>1 DEF DocumentPart, StatesInStep
  <2> QED BY <2>1, <2>2
<1>14. ASSUME NEW k \in j + 1 .. Len(undo_stack)
       PROVE  Undone(stack[k], states[k], states[k + 1])
  <2>1. k \in DOMAIN undo_stack \ {j} /\ k \in undo_index + 1 .. Len(undo_stack)
    BY <1>1, <1>2, <1>3, <1>4
  <2> QED BY <1>12, <2>1 DEF DocumentPart, StatesInStep
<1>15. DocumentPart' /\ states' = states
  BY <1>2, <1>4, <1>9, <1>10, <1>11, <1>12, <1>13, <1>14, PlaceMoved
<1>16. History!Redo
  <2>1. undo_index + 1 < Len(states) /\ (undo_index + 1)' = (undo_index + 1) + 1
    BY <1>1, <1>2, <1>3, <1>9
  <2> QED BY <1>15, <2>1 DEF History!Redo
<1>17. ~ResetsList(e) => Count' = Count
  BY <1>5, <1>8, <1>10 DEF Count
<1> QED BY <1>6, <1>8, <1>9, <1>15, <1>16, <1>17

LEMMA ResetStep ==
  ASSUME NEW p \in Projects, ResetProject(p), file' = p, Follow
  PROVE  DocumentPart' /\ History!Load /\ project' = p
<1>1. PICK e : e = <<>>
  OBVIOUS
<1>2. PICK H : H = <<p>>
  OBVIOUS
<1>3. /\ e \in Seq(Seq(Commands)) /\ Len(e) = 0 /\ e \in Seq(Commands)
      /\ H \in Seq(Projects) /\ Len(H) = 1 /\ H[1] = p
  BY <1>1, <1>2
<1>4. Done(e, p, p)
  BY <1>1, EmptyIsDone
<1>5. StatesOf(e, 0, p, e) = H
  <2>1. 0 \in 0 .. Len(e) /\ Len(H) = Len(e) + 1 /\ 0 + 1 = 1 /\ Len(e) = 0
    BY <1>3
  <2>2. \A k \in 1 .. 0 : Done(e[k], H[k], H[k + 1])
    OBVIOUS
  <2>3. \A k \in 0 + 1 .. Len(e) : Undone(e[k], H[k], H[k + 1])
    BY <2>1
  <2>4. Done(e, H[0 + 1], p)
    BY <1>3, <1>4
  <2> QED BY <1>3, <2>1, <2>2, <2>3, <2>4, StatesAre
<1>6. /\ project' = p /\ is_open' = TRUE /\ modified' = FALSE
      /\ undo_stack' = e /\ undo_index' = 0 /\ saved_undo_index' = 0
      /\ batch_depth' = 0 /\ batch_commands' = e
  BY <1>1 DEF ResetProject
<1>7. states' = H
  BY <1>5, <1>6 DEF Follow
<1>8. DocumentTypes'
  <2>1. undo_index' \in 0 .. Len(undo_stack')
    BY <1>3, <1>6
  <2>2. saved_undo_index' \in Unreachable .. Len(undo_stack')
    BY <1>3, <1>6 DEF Unreachable
  <2>3. is_open' \in BOOLEAN /\ modified' \in BOOLEAN
    BY <1>6, Zenon
  <2>4. batch_depth' \in {0, 1} /\ (batch_commands' # <<>> => batch_depth' = 1)
    BY <1>1, <1>6
  <2> QED BY <1>6, <2>1, <2>2, <2>3, <2>4 DEF DocumentTypes
<1>9. StatesInStep'
  BY <1>3, <1>4, <1>6, <1>7 DEF StatesInStep
<1>10. SavedInStep'
  BY <1>1, <1>3, <1>6, <1>7 DEF SavedInStep
<1>11. History!Load
  BY <1>3, <1>6, <1>7 DEF History!Load, History!Single
<1> QED BY <1>6, <1>8, <1>9, <1>10, <1>11 DEF DocumentPart

LEMMA MarkStep ==
  ASSUME DocumentPart, batch_depth = 0, MarkSaved, file' = project, Follow
  PROVE  DocumentPart' /\ Stays /\ UNCHANGED project /\ UNCHANGED batch_depth
<1>1. /\ saved_undo_index' = undo_index /\ modified' = FALSE
      /\ UNCHANGED <<project, is_open, undo_stack, undo_index, batch_depth,
                     batch_commands>>
  BY DEF MarkSaved
<1>2. batch_commands = <<>>
  BY DEF DocumentPart, DocumentTypes
<1>3. project = states[undo_index + 1]
  BY <1>2, PresentState
<1>4. StatesOf(undo_stack, undo_index, project, batch_commands) = states
  BY StatesAre DEF DocumentPart, DocumentTypes, StatesInStep
<1>5. states' = states
  BY <1>1, <1>4 DEF Follow
<1>6. DocumentTypes'
  <2>1. undo_index \in 0 .. Len(undo_stack) /\ Len(undo_stack) \in Nat
    BY DEF DocumentPart, DocumentTypes, StatesInStep
  <2>2. saved_undo_index' \in Unreachable .. Len(undo_stack)
    BY <1>1, <2>1 DEF Unreachable
  <2>3. modified' \in BOOLEAN
    BY <1>1, Zenon
  <2> QED BY <1>1, <2>2, <2>3 DEF DocumentPart, DocumentTypes
<1>7. StatesInStep'
  BY <1>1, <1>5 DEF DocumentPart, StatesInStep
<1>8. SavedInStep'
  BY <1>1, <1>2, <1>3, <1>5 DEF SavedInStep
<1> QED BY <1>1, <1>5, <1>6, <1>7, <1>8 DEF DocumentPart, Stays

LEMMA TornStep ==
  ASSUME DocumentPart, UNCHANGED document_vars, file' = Torn, Follow
  PROVE  DocumentPart' /\ Stays
<1>1. StatesOf(undo_stack, undo_index, project, batch_commands) = states
  BY StatesAre DEF DocumentPart, DocumentTypes, StatesInStep
<1>2. states' = states
  BY <1>1 DEF Follow, document_vars
<1>3. DocumentTypes'
  BY DEF DocumentPart, DocumentTypes, document_vars
<1>4. StatesInStep'
  BY <1>2 DEF DocumentPart, StatesInStep, document_vars
<1>5. SavedInStep'
  BY <1>2 DEF DocumentPart, SavedInStep, document_vars
<1> QED BY <1>2, <1>3, <1>4, <1>5 DEF DocumentPart, Stays, document_vars

-------------------------------------------------------------------------------
(* The calls a gesture queues.                                             *)
Laid(b, off, cs, tail) ==
  /\ b \in Seq(QueuedCalls) /\ Len(b) = Len(cs) + 2 * off + Len(tail)
  /\ \A i \in 1 .. Len(cs) : b[off + i] = cs[i]
  /\ \A i \in 1 .. Len(tail) : b[Len(cs) + 2 * off + i] = tail[i]
  /\ off = 1 => /\ b[1] = Call("BeginBatch", None)
                /\ b[Len(cs) + 2] = Call("EndBatch", None)

LEMMA CallFields ==
  ASSUME NEW op, NEW arg
  PROVE  Call(op, arg).op = op /\ Call(op, arg).arg = arg
BY DEF Call

LEMMA JoinedSeqs ==
  ASSUME NEW S, NEW a \in Seq(S), NEW b \in Seq(S)
  PROVE  /\ a \o b \in Seq(S) /\ Len(a \o b) = Len(a) + Len(b)
         /\ \A k \in 1 .. Len(a) : (a \o b)[k] = a[k]
         /\ \A k \in 1 .. Len(b) : (a \o b)[Len(a) + k] = b[k]
OBVIOUS

LEMMA BatchedCalls ==
  ASSUME NEW cs \in Seq(QueuedCalls), NEW tail \in Seq(QueuedCalls),
         NEW many \in BOOLEAN
  PROVE  \E off \in {0, 1} : Laid(Batched(many, cs) \o tail, off, cs, tail)
<1>1. CASE ~many
  <2>1. Batched(many, cs) = cs
    BY <1>1 DEF Batched
  <2>2. /\ cs \o tail \in Seq(QueuedCalls) /\ Len(cs \o tail) = Len(cs) + Len(tail)
        /\ \A k \in 1 .. Len(cs) : (cs \o tail)[k] = cs[k]
        /\ \A k \in 1 .. Len(tail) : (cs \o tail)[Len(cs) + k] = tail[k]
    BY JoinedSeqs
  <2>3. Laid(cs \o tail, 0, cs, tail)
    BY <2>2 DEF Laid
  <2> QED BY <2>1, <2>3
<1>2. CASE many
  <2>1. PICK x : x = <<Call("BeginBatch", None)>>
    OBVIOUS
  <2>2. PICK y : y = <<Call("EndBatch", None)>>
    OBVIOUS
  <2>3. /\ x \in Seq(QueuedCalls) /\ Len(x) = 1 /\ x[1] = Call("BeginBatch", None)
        /\ y \in Seq(QueuedCalls) /\ Len(y) = 1 /\ y[1] = Call("EndBatch", None)
    <3>1. Call("BeginBatch", None) \in QueuedCalls /\ Call("EndBatch", None) \in QueuedCalls
      BY DEF Call, QueuedCalls
    <3> QED BY <2>1, <2>2, <3>1
  <2>4. PICK u : u = x \o cs
    OBVIOUS
  <2>5. /\ u \in Seq(QueuedCalls) /\ Len(u) = 1 + Len(cs)
        /\ u[1] = x[1] /\ \A k \in 1 .. Len(cs) : u[1 + k] = cs[k]
    <3>1. cs \in Seq(QueuedCalls) /\ x \in Seq(QueuedCalls)
      BY <2>3
    <3>2. /\ x \o cs \in Seq(QueuedCalls) /\ Len(x \o cs) = Len(x) + Len(cs)
          /\ \A k \in 1 .. Len(x) : (x \o cs)[k] = x[k]
          /\ \A k \in 1 .. Len(cs) : (x \o cs)[Len(x) + k] = cs[k]
      BY ONLY <3>1, JoinedSeqs
    <3> QED BY <2>3, <2>4, <3>2
  <2>6. PICK v : v = u \o y
    OBVIOUS
  <2>7. /\ v \in Seq(QueuedCalls) /\ Len(v) = Len(u) + Len(y)
        /\ \A k \in 1 .. Len(u) : v[k] = u[k]
        /\ \A k \in 1 .. Len(y) : v[Len(u) + k] = y[k]
    <3>1. u \in Seq(QueuedCalls) /\ y \in Seq(QueuedCalls)
      BY <2>3, <2>5
    <3>2. /\ u \o y \in Seq(QueuedCalls) /\ Len(u \o y) = Len(u) + Len(y)
          /\ \A k \in 1 .. Len(u) : (u \o y)[k] = u[k]
          /\ \A k \in 1 .. Len(y) : (u \o y)[Len(u) + k] = y[k]
      BY ONLY <3>1, JoinedSeqs
    <3> QED BY ONLY <2>6, <3>2
  <2>8. PICK n : n = Len(cs)
    OBVIOUS
  <2>9. /\ n \in Nat /\ Len(v) = n + 2 /\ v[1] = x[1]
        /\ \A k \in 1 .. n : v[1 + k] = cs[k]
    <3>1. n \in Nat /\ Len(u) = n + 1
      BY <2>5, <2>8
    <3>2. Len(v) = n + 2
      BY <2>3, <2>7, <3>1
    <3>3. v[1] = x[1]
      BY <2>5, <2>7, <3>1
    <3>4. ASSUME NEW k \in 1 .. n
          PROVE  v[1 + k] = cs[k]
      <4>1. PICK j : j = 1 + k
        OBVIOUS
      <4>2. j \in 1 .. Len(u)
        BY <3>1, <4>1
      <4>3. v[j] = u[j] /\ u[j] = cs[k]
        BY <2>5, <2>7, <2>8, <4>1, <4>2
      <4> QED BY <4>1, <4>3
    <3> QED BY <3>1, <3>2, <3>3, <3>4
  <2>10. v[n + 2] = y[1]
    <3>1. 1 \in 1 .. Len(y) /\ Len(u) + 1 = n + 2
      BY <2>3, <2>5, <2>8
    <3>2. v[Len(u) + 1] = y[1]
      BY <2>7, <3>1
    <3> QED BY <3>1, <3>2
  <2>11. PICK w : w = v \o tail
    OBVIOUS
  <2>12. /\ w \in Seq(QueuedCalls) /\ Len(w) = Len(v) + Len(tail)
         /\ \A k \in 1 .. Len(v) : w[k] = v[k]
         /\ \A k \in 1 .. Len(tail) : w[Len(v) + k] = tail[k]
    <3>1. v \in Seq(QueuedCalls) /\ tail \in Seq(QueuedCalls)
      BY <2>7
    <3>2. /\ v \o tail \in Seq(QueuedCalls) /\ Len(v \o tail) = Len(v) + Len(tail)
          /\ \A k \in 1 .. Len(v) : (v \o tail)[k] = v[k]
          /\ \A k \in 1 .. Len(tail) : (v \o tail)[Len(v) + k] = tail[k]
      BY ONLY <3>1, JoinedSeqs
    <3> QED BY ONLY <2>11, <3>2
  <2>13. /\ Len(w) = n + 2 + Len(tail) /\ w[1] = x[1] /\ w[n + 2] = y[1]
         /\ \A k \in 1 .. Len(tail) : w[n + 2 + k] = tail[k]
         /\ \A k \in 1 .. n : w[1 + k] = cs[k]
    <3>1. 1 \in 1 .. Len(v) /\ n + 2 \in 1 .. Len(v)
      BY <2>9
    <3>2. \A k \in 1 .. n : 1 + k \in 1 .. Len(v)
      BY <2>9
    <3> QED BY <2>9, <2>10, <2>12, <3>1, <3>2
  <2>14. Batched(many, cs) \o tail = w
    BY <1>2, <2>1, <2>2, <2>4, <2>6, <2>11 DEF Batched
  <2>15. Laid(w, 1, cs, tail)
    <3>1. Len(cs) + 2 * 1 = n + 2
      BY <2>8, <2>9
    <3> QED BY <2>3, <2>8, <2>9, <2>12, <2>13, <3>1 DEF Laid
  <2> QED BY <2>14, <2>15
<1> QED BY <1>1, <1>2

Placed(b, off, cs, tail, k) ==
  \/ off = 1 /\ k \in {1, Len(cs) + 2}
  \/ \E i \in 1 .. Len(cs) : k = off + i /\ b[k] = cs[i]
  \/ \E i \in 1 .. Len(tail) : k = Len(cs) + 2 * off + i /\ b[k] = tail[i]

LEMMA LaidPlaces ==
  ASSUME NEW off \in {0, 1}, NEW cs \in Seq(QueuedCalls),
         NEW tail \in Seq(QueuedCalls), NEW b, Laid(b, off, cs, tail),
         NEW k \in DOMAIN b
  PROVE  Placed(b, off, cs, tail, k)
<1> USE DEF Placed
<1>1. PICK n : n = Len(cs)
  OBVIOUS
<1>2. PICK m : m = Len(tail)
  OBVIOUS
<1>3. /\ n \in Nat /\ m \in Nat /\ k \in 1 .. (n + 2 * off + m)
      /\ \A i \in 1 .. n : b[off + i] = cs[i]
      /\ \A i \in 1 .. m : b[n + 2 * off + i] = tail[i]
  BY <1>1, <1>2 DEF Laid
<1>4. CASE off = 0
  <2>1. CASE k <= n
    <3>1. k \in 1 .. n /\ k = off + k
      BY <1>3, <1>4, <2>1
    <3> QED BY <1>1, <1>3, <3>1
  <2>2. CASE ~(k <= n)
    <3>1. PICK i : i = k - n
      OBVIOUS
    <3>2. i \in 1 .. m /\ k = n + 2 * off + i
      BY <1>3, <1>4, <2>2, <3>1
    <3> QED BY <1>1, <1>2, <1>3, <3>2
  <2> QED BY <2>1, <2>2
<1>5. CASE off = 1
  <2>0. 2 * off = 2
    BY <1>5
  <2>1. CASE k \in {1, n + 2}
    BY <1>1, <1>5, <2>1
  <2>2. CASE k \in 2 .. n + 1
    <3>1. PICK i : i = k - 1
      OBVIOUS
    <3>2. i \in 1 .. n /\ k = off + i
      BY <1>3, <1>5, <2>2, <3>1
    <3> QED BY <1>1, <1>3, <3>2
  <2>3. CASE k > n + 2
    <3>1. PICK i : i = k - n - 2
      OBVIOUS
    <3>2. k \in 1 .. (n + 2 + m) /\ n \in Nat /\ m \in Nat
      BY <1>3, <2>0
    <3>3. i \in 1 .. m /\ k = n + 2 + i
      BY ONLY <2>3, <3>1, <3>2
    <3>4. i \in 1 .. m /\ k = n + 2 * off + i
      BY <2>0, <3>3
    <3> QED BY <1>1, <1>2, <1>3, <3>4
  <2> QED BY <1>3, <1>5, <2>1, <2>2, <2>3
<1> QED BY <1>4, <1>5

NoBatchIn(cs) == \A i \in 1 .. Len(cs) : cs[i].op \notin {"BeginBatch", "EndBatch"}

LEMMA LaidBatch ==
  ASSUME NEW off \in {0, 1}, NEW cs \in Seq(QueuedCalls),
         NEW tail \in Seq(QueuedCalls), Laid(calls', off, cs, tail),
         NoBatchIn(cs), NoBatchIn(tail), batch_depth' = 0
  PROVE  BatchInStep'
<1>1. PICK b : b = calls'
  OBVIOUS
<1>2. PICK n : n = Len(cs) + 2
  OBVIOUS
<1>3. /\ Laid(b, off, cs, tail) /\ b \in Seq(QueuedCalls)
      /\ Len(cs) \in Nat /\ Len(tail) \in Nat
  BY <1>1 DEF Laid
<1>4. ASSUME NEW k \in DOMAIN b, ~(off = 1 /\ k \in {1, n})
      PROVE  b[k].op \notin {"BeginBatch", "EndBatch"}
  <2>1. CASE \E i \in 1 .. Len(cs) : b[k] = cs[i]
    BY <2>1 DEF NoBatchIn
  <2>2. CASE \E i \in 1 .. Len(tail) : b[k] = tail[i]
    BY <2>2 DEF NoBatchIn
  <2>3. Placed(b, off, cs, tail, k)
    BY <1>3, LaidPlaces
  <2> QED BY <1>2, <1>4, <2>1, <2>2, <2>3 DEF Placed
<1>5. CASE off = 0
  <2>1. \A k \in DOMAIN b : b[k].op \notin {"BeginBatch", "EndBatch"}
    BY <1>4, <1>5
  <2> QED BY <1>1, <2>1 DEF BatchInStep, NoBatch
<1>6. CASE off = 1
  <2>1. Len(b) = n + Len(tail) /\ n \in Nat /\ n >= 2
    BY <1>2, <1>3, <1>6 DEF Laid
  <2>2. n \in DOMAIN b \ {1} /\ b # <<>>
    BY <1>3, <2>1
  <2>3. b[1].op = "BeginBatch" /\ b[n].op = "EndBatch"
    BY <1>2, <1>3, <1>6, CallFields DEF Laid
  <2>4. \A k \in DOMAIN b \ {1, n} : b[k].op \notin {"BeginBatch", "EndBatch"}
    BY <1>4
  <2> QED BY <1>1, <2>2, <2>3, <2>4 DEF BatchInStep, NoBatch
<1> QED BY <1>5, <1>6

-------------------------------------------------------------------------------
(* Gestures.                                                               *)
ViewPart == selected \subseteq Rows /\ current \in Rows \cup {None}

LEMMA InvariantParts ==
  /\ DocumentInvariant <=>
       DocumentPart /\ ViewPart /\ BatchInStep /\ QueueInStep
  /\ DocumentInvariant' <=>
       DocumentPart' /\ ViewPart' /\ BatchInStep' /\ QueueInStep'
<1>1. TypeOK <=> DocumentTypes /\ ViewPart
  BY DEF TypeOK, DocumentTypes, ViewPart
<1>2. TypeOK' <=> DocumentTypes' /\ ViewPart'
  BY DEF TypeOK, DocumentTypes, ViewPart
<1> QED BY <1>1, <1>2 DEF DocumentInvariant, DocumentPart

LEMMA CountIsNat ==
  ASSUME DocumentPart
  PROVE  Count \in Nat /\ project \in Projects
BY ProjectFields DEF DocumentPart, DocumentTypes, Count

LEMMA IdleBatch ==
  ASSUME DocumentInvariant, calls = <<>>
  PROVE  batch_depth = 0 /\ batch_commands = <<>>
<1>1. batch_depth = 0
  BY DEF DocumentInvariant, BatchInStep
<1> QED BY <1>1 DEF DocumentInvariant, TypeOK

(* Between gestures nothing is queued, whatever the selection.             *)
LEMMA NothingQueued ==
  ASSUME calls' = <<>>, batch_depth' = 0
  PROVE  BatchInStep' /\ QueueInStep'
<1>1. PICK b : b = calls'
  OBVIOUS
<1>2. b \in Seq(QueuedCalls) /\ DOMAIN b = {}
  BY <1>1
<1> QED BY <1>1, <1>2 DEF BatchInStep, QueueInStep

Simple(c) ==
  /\ c.op # "Duplicate"
  /\ c.op = "Submit" /\ c.arg.op = "settings" =>
       c.arg.index \in DOMAIN project.settings
  /\ c.op = "Select" => \A r \in c.arg.rows : r <= Count
Removes(c) == c.op = "Submit" /\ c.arg.op = "remove"

LEMMA SimpleQueue ==
  ASSUME NEW b \in Seq(QueuedCalls), calls' = b, UNCHANGED project,
         \A k \in DOMAIN b : Simple(b[k]),
         \/ \A k \in DOMAIN b : ~Removes(b[k])
         \/ \A k \in DOMAIN b : b[k].op = "Select" => b[k].arg.rows = {}
  PROVE  QueueInStep'
<1>1. Count' = Count
  BY DEF Count
<1>2. \A k \in DOMAIN b :
        /\ b[k].op # "Duplicate"
        /\ b[k].op = "Submit" /\ b[k].arg.op = "settings" =>
             b[k].arg.index \in DOMAIN project'.settings
        /\ b[k].op = "Select" => \A r \in b[k].arg.rows : r <= Count'
  BY <1>1 DEF Simple
<1>3. (\E j \in DOMAIN b : b[j].op = "Submit" /\ b[j].arg.op = "remove") =>
        \A k \in DOMAIN b : b[k].op = "Select" => b[k].arg.rows = {}
  BY DEF Removes
<1> QED BY <1>2, <1>3 DEF QueueInStep, Reached

Submissions  == [op : {"Submit"}, arg : QueuedCommands]
Reselections == [op : {"Select"}, arg : [first : Int, rows : SUBSET Rows]]

LEMMA PlainCalls ==
  ASSUME DocumentPart
  PROVE  /\ Submissions \subseteq QueuedCalls
         /\ Reselections \subseteq QueuedCalls
<1>1. Rows \subseteq Nat \ {0}
  BY CountIsNat DEF Rows
<1>2. SUBSET Rows \subseteq SUBSET (Nat \ {0})
  BY <1>1
<1> QED BY <1>2 DEF Submissions, Reselections, QueuedCalls

LEMMA WidenedSeq ==
  ASSUME NEW S, NEW T, S \subseteq T, NEW s \in Seq(S)
  PROVE  s \in Seq(T) /\ \A k \in 1 .. Len(s) : s[k] \in S
OBVIOUS

(* A gesture that submits commands and may reselect rows.                  *)
LEMMA PlainGesture ==
  ASSUME DocumentInvariant, Ready, NEW many \in BOOLEAN,
         NEW cs \in Seq(Submissions), NEW tail \in Seq(Reselections),
         \A i \in 1 .. Len(cs) : cs[i].arg.op = "settings" =>
           cs[i].arg.index \in DOMAIN project.settings,
         \/ \A i \in 1 .. Len(cs) : cs[i].arg.op # "remove"
         \/ \A i \in 1 .. Len(tail) : tail[i].arg.rows = {},
         Gesture(Batched(many, cs) \o tail), Follow
  PROVE  DocumentInvariant' /\ Stays
<1>1. /\ DocumentPart /\ ViewPart /\ batch_depth = 0
      /\ UNCHANGED <<document_vars, selected, current, file>>
      /\ calls' = Batched(many, cs) \o tail
  BY InvariantParts, IdleBatch DEF Ready, Gesture
<1>2. DocumentPart' /\ Stays
  BY <1>1, KeptDocument
<1>3. UNCHANGED <<project, batch_depth>>
  BY <1>1 DEF document_vars
<1>4. ViewPart'
  BY <1>1, <1>3 DEF ViewPart, Rows, Count
<1>5. /\ cs \in Seq(QueuedCalls) /\ tail \in Seq(QueuedCalls)
      /\ \A i \in 1 .. Len(cs) : cs[i] \in Submissions
      /\ \A i \in 1 .. Len(tail) : tail[i] \in Reselections
  BY <1>1, PlainCalls, WidenedSeq
<1>6. PICK off \in {0, 1} : Laid(Batched(many, cs) \o tail, off, cs, tail)
  BY <1>5, BatchedCalls
<1>7. BatchInStep'
  <2>1. NoBatchIn(cs) /\ NoBatchIn(tail)
    BY <1>5 DEF NoBatchIn, Submissions, Reselections
  <2>2. Laid(calls', off, cs, tail)
    BY <1>1, <1>6
  <2> QED BY <1>1, <1>3, <1>5, <2>1, <2>2, LaidBatch
<1>8. PICK b : b = Batched(many, cs) \o tail
  OBVIOUS
<1>9. Laid(b, off, cs, tail) /\ b \in Seq(QueuedCalls)
  BY <1>6, <1>8 DEF Laid
<1>10. ASSUME NEW k \in DOMAIN b
       PROVE  \/ b[k].op \in {"BeginBatch", "EndBatch"}
              \/ \E i \in 1 .. Len(cs) : b[k] = cs[i]
              \/ \E i \in 1 .. Len(tail) : b[k] = tail[i]
  <2>1. Placed(b, off, cs, tail, k)
    BY <1>5, <1>9, LaidPlaces
  <2>2. CASE off = 1 /\ k \in {1, Len(cs) + 2}
    <3>1. b[1].op = "BeginBatch" /\ b[Len(cs) + 2].op = "EndBatch"
      BY <1>9, <2>2, CallFields DEF Laid
    <3> QED BY <2>2, <3>1
  <2> QED BY <2>1, <2>2 DEF Placed
<1>11. ASSUME NEW k \in DOMAIN b
       PROVE  Simple(b[k])
  <2>1. CASE b[k].op \in {"BeginBatch", "EndBatch"}
    BY <2>1 DEF Simple
  <2>2. ASSUME NEW i \in 1 .. Len(cs), b[k] = cs[i]
        PROVE  Simple(b[k])
    <3>1. cs[i].op = "Submit"
      BY <1>5 DEF Submissions
    <3> QED BY <2>2, <3>1 DEF Simple
  <2>3. ASSUME NEW i \in 1 .. Len(tail), b[k] = tail[i]
        PROVE  Simple(b[k])
    <3>1. tail[i].op = "Select" /\ tail[i].arg.rows \subseteq Rows
      BY <1>5 DEF Reselections
    <3>2. \A r \in Rows : r <= Count
      BY <1>1, CountIsNat DEF Rows
    <3> QED BY <2>3, <3>1, <3>2 DEF Simple
  <2> QED BY <1>10, <2>1, <2>2, <2>3
<1>12. \/ \A k \in DOMAIN b : ~Removes(b[k])
       \/ \A k \in DOMAIN b : b[k].op = "Select" => b[k].arg.rows = {}
  <2>1. \A i \in 1 .. Len(cs) : cs[i].op = "Submit"
    BY <1>5 DEF Submissions
  <2>2. \A i \in 1 .. Len(tail) : tail[i].op = "Select"
    BY <1>5 DEF Reselections
  <2>3. CASE \A i \in 1 .. Len(cs) : cs[i].arg.op # "remove"
    <3>1. \A k \in DOMAIN b : ~Removes(b[k])
      BY <1>10, <2>2, <2>3 DEF Removes
    <3> QED BY <3>1
  <2>4. CASE \A i \in 1 .. Len(tail) : tail[i].arg.rows = {}
    <3>1. \A k \in DOMAIN b : b[k].op = "Select" => b[k].arg.rows = {}
      BY <1>10, <2>1, <2>4
    <3> QED BY <3>1
  <2> QED BY <2>3, <2>4
<1>13. QueueInStep'
  BY <1>1, <1>3, <1>8, <1>9, <1>11, <1>12, SimpleQueue
<1> QED BY <1>2, <1>4, <1>7, <1>13, InvariantParts

-------------------------------------------------------------------------------
(* What the gestures queue.                                                *)
LEMMA ActedOnRows ==
  ASSUME DocumentPart, ViewPart
  PROVE  /\ Count \in Nat /\ Rows = 1 .. Count /\ ActedOn \in SUBSET (1 .. Count)
         /\ IsFiniteSet(ActedOn)
<1>1. Count \in Nat
  BY CountIsNat
<1>2. ActedOn \in SUBSET (1 .. Count)
  BY DEF ActedOn, ViewPart, Rows
<1>3. IsFiniteSet(ActedOn)
  <2>1. IsFiniteSet(1 .. Count)
    BY <1>1, FS_Interval
  <2> QED BY <1>2, <2>1, FS_Subset
<1> QED BY <1>1, <1>2, <1>3 DEF Rows

LEMMA QueuedCommandKinds ==
  ASSUME NEW i \in Nat
  PROVE  /\ \A v \in Values : Command("settings", i, v) \in QueuedCommands
         /\ \A v \in Section : Command("insert", i, v) \in QueuedCommands
         /\ \A v \in Section : Command("set", i, v) \in QueuedCommands
         /\ \A v \in Nat : Command("move", i, v) \in QueuedCommands
         /\ Command("remove", i, None) \in QueuedCommands
BY DEF Command, QueuedCommands

LEMMA CommandKinds ==
  ASSUME NEW i, NEW v
  PROVE  /\ Command("settings", i, v).op = "settings"
         /\ Command("settings", i, v).index = i
         /\ Command("insert", i, v).op = "insert"
         /\ Command("set", i, v).op = "set"
         /\ Command("move", i, v).op = "move"
         /\ Command("remove", i, v).op = "remove"
BY DEF Command

LEMMA DoSubmits ==
  ASSUME NEW c \in QueuedCommands
  PROVE  Do(c) \in Submissions /\ Do(c).arg = c
BY DEF Do, Call, Submissions

LEMMA OneSeq ==
  ASSUME NEW S, NEW e \in S
  PROVE  <<e>> \in Seq(S) /\ Len(<<e>>) = 1 /\ <<e>>[1] = e
OBVIOUS

LEMMA ElementOf ==
  ASSUME NEW S, NEW s \in Seq(S), NEW k \in 1 .. Len(s)
  PROVE  s[k] \in S
OBVIOUS

LEMMA ListSeq ==
  ASSUME NEW S, NEW n \in Nat, NEW f, f = [k \in 1 .. n |-> f[k]],
         \A k \in 1 .. n : f[k] \in S
  PROVE  f \in Seq(S) /\ Len(f) = n
OBVIOUS

LEMMA ReselectSeq ==
  ASSUME DocumentPart, NEW first \in Int, NEW rows \in SUBSET Rows
  PROVE  /\ Reselect(first, rows) \in Seq(Reselections)
         /\ Len(Reselect(first, rows)) = 1
         /\ Reselect(first, rows)[1].arg.rows = rows
<1>1. PICK a : a = [first |-> first, rows |-> rows]
  OBVIOUS
<1>2. a \in [first : Int, rows : SUBSET Rows] /\ a.rows = rows
  BY <1>1
<1>3. Call("Select", a) \in Reselections /\ Call("Select", a).arg = a
  BY <1>2 DEF Call, Reselections
<1>4. Reselect(first, rows) = <<Call("Select", a)>>
  BY <1>1 DEF Reselect
<1> QED BY <1>2, <1>3, <1>4, OneSeq

LEMMA NothingReselected ==
  ASSUME NEW many \in BOOLEAN, NEW cs \in Seq(QueuedCalls)
  PROVE  Batched(many, cs) \o <<>> = Batched(many, cs)
<1>1. PICK e : e = <<>>
  OBVIOUS
<1>2. e \in Seq(QueuedCalls) /\ Len(e) = 0
  BY <1>1
<1>3. Batched(many, cs) \in Seq(QueuedCalls)
  <2>1. CASE ~many
    BY <2>1 DEF Batched
  <2>2. CASE many
    <3>1. PICK x : x = <<Call("BeginBatch", None)>>
      OBVIOUS
    <3>2. PICK y : y = <<Call("EndBatch", None)>>
      OBVIOUS
    <3>3. x \in Seq(QueuedCalls) /\ y \in Seq(QueuedCalls)
      <4>1. /\ Call("BeginBatch", None) \in QueuedCalls
            /\ Call("EndBatch", None) \in QueuedCalls
        BY DEF Call, QueuedCalls
      <4> QED BY <3>1, <3>2, <4>1
    <3>4. x \o cs \in Seq(QueuedCalls)
      BY ONLY <3>3, JoinedSeqs, cs \in Seq(QueuedCalls)
    <3>5. (x \o cs) \o y \in Seq(QueuedCalls)
      BY ONLY <3>3, <3>4, JoinedSeqs
    <3> QED BY <2>2, <3>1, <3>2, <3>5 DEF Batched
  <2> QED BY <2>1, <2>2
<1>4. PICK b : b = Batched(many, cs)
  OBVIOUS
<1>5. /\ b \o e \in Seq(QueuedCalls) /\ Len(b \o e) = Len(b) + Len(e)
      /\ \A k \in 1 .. Len(b) : (b \o e)[k] = b[k]
  <2>1. b \in Seq(QueuedCalls) /\ e \in Seq(QueuedCalls)
    BY <1>2, <1>3, <1>4
  <2> QED BY ONLY <2>1, JoinedSeqs
<1>6. b \o e = b
  BY <1>2, <1>3, <1>4, <1>5, SameSeq
<1> QED BY <1>1, <1>4, <1>6

LEMMA AddStep ==
  ASSUME DocumentInvariant, OnAddSection, Follow
  PROVE  DocumentInvariant' /\ Stays
<1>1. DocumentPart /\ Ready /\ Count \in Nat
  BY InvariantParts, CountIsNat DEF OnAddSection
<1>2. PICK style \in Styles :
        Gesture(<<Do(Command("insert", Count + 1,
                             [name |-> <<Count + 1>>, style |-> style]))>>
                  \o Reselect(Count + 1, {}))
  BY DEF OnAddSection
<1>3. PICK s : s = [name |-> <<Count + 1>>, style |-> style]
  OBVIOUS
<1>4. s \in Section
  <2>1. <<Count + 1>> \in Seq(Nat)
    BY <1>1
  <2> QED BY <1>3, <2>1 DEF Section
<1>5. PICK c : c = Command("insert", Count + 1, s)
  OBVIOUS
<1>6. c \in QueuedCommands /\ c.op = "insert"
  <2>1. Count + 1 \in Nat
    BY <1>1
  <2> QED BY <1>4, <1>5, <2>1, QueuedCommandKinds, CommandKinds
<1>7. PICK cs : cs = <<Do(c)>>
  OBVIOUS
<1>8. /\ cs \in Seq(Submissions) /\ Len(cs) = 1 /\ cs[1].arg = c
  BY <1>6, <1>7, DoSubmits, OneSeq
<1>9. PICK tail : tail = Reselect(Count + 1, {})
  OBVIOUS
<1>10. tail \in Seq(Reselections)
  BY <1>1, <1>9, ReselectSeq
<1>11. Gesture(Batched(FALSE, cs) \o tail)
  BY <1>2, <1>3, <1>5, <1>7, <1>9 DEF Batched
<1>12. \A i \in 1 .. Len(cs) : cs[i].arg.op = "insert"
  BY <1>6, <1>8
<1> QED BY <1>1, <1>8, <1>10, <1>11, <1>12, PlainGesture

LEMMA RemoveStep ==
  ASSUME DocumentInvariant, OnRemove, Follow
  PROVE  DocumentInvariant' /\ Stays
<1>1. /\ DocumentPart /\ ViewPart /\ Ready /\ ActedOn # {}
  BY InvariantParts DEF OnRemove
<1>2. /\ Count \in Nat /\ ActedOn \in SUBSET (1 .. Count) /\ IsFiniteSet(ActedOn)
  BY <1>1, ActedOnRows
<1>3. PICK rows : rows = Reverse(Sorted(ActedOn))
  OBVIOUS
<1>4. rows \in Seq(1 .. Count) /\ Len(rows) = Cardinality(ActedOn)
  <2>1. PICK sorted : sorted = Sorted(ActedOn)
    OBVIOUS
  <2>2. sorted \in Seq(ActedOn) /\ Len(sorted) = Cardinality(ActedOn)
    BY <1>2, <2>1, SortedMembers
  <2>3. rows \in Seq(ActedOn) /\ Len(rows) = Cardinality(ActedOn)
    BY <1>3, <2>1, <2>2, ReverseMembers
  <2>4. ActedOn \subseteq 1 .. Count
    BY <1>2
  <2> QED BY ONLY <2>3, <2>4, WidenedSeq
<1>5. Len(rows) \in Nat \ {0}
  <2>1. Cardinality(ActedOn) \in Nat /\ Cardinality(ActedOn) # 0
    BY <1>1, <1>2, FS_CardinalityType, FS_EmptySet
  <2> QED BY <1>4, <2>1
<1>6. PICK n : n = Len(rows)
  OBVIOUS
<1>7. PICK cs : cs = [k \in 1 .. n |-> Do(Command("remove", rows[k], None))]
  OBVIOUS
<1>8. ASSUME NEW k \in 1 .. n
      PROVE  cs[k] \in Submissions /\ cs[k].arg.op = "remove"
  <2>1. rows[k] \in Nat
    BY <1>2, <1>4, <1>6
  <2>2. Command("remove", rows[k], None) \in QueuedCommands
    BY <2>1, QueuedCommandKinds
  <2> QED BY <1>7, <2>2, DoSubmits, CommandKinds
<1>9. cs \in Seq(Submissions) /\ Len(cs) = n
  BY <1>5, <1>6, <1>7, <1>8, ListSeq
<1>10. PICK first : first = IF rows[Len(rows)] < Count - Len(rows)
                              THEN rows[Len(rows)] ELSE Count - Len(rows)
  OBVIOUS
<1>11. first \in Int
  <2>1. n \in 1 .. Len(rows) /\ n \in Nat
    BY <1>5, <1>6
  <2>2. rows[n] \in 1 .. Count
    BY ONLY <1>4, <2>1, ElementOf
  <2> QED BY <1>2, <1>6, <1>10, <2>1, <2>2
<1>12. PICK tail : tail = Reselect(first, {})
  OBVIOUS
<1>13. /\ tail \in Seq(Reselections) /\ Len(tail) = 1 /\ tail[1].arg.rows = {}
  BY <1>1, <1>11, <1>12, ReselectSeq
<1>14. Gesture(Batched(n > 1, cs) \o tail)
  <2>1. DOMAIN rows = 1 .. n
    BY <1>4, <1>6
  <2> QED BY <1>3, <1>6, <1>7, <1>10, <1>12, <2>1 DEF OnRemove
<1>15. /\ \A i \in 1 .. Len(cs) : cs[i].arg.op # "settings"
       /\ \A i \in 1 .. Len(tail) : tail[i].arg.rows = {}
  BY <1>8, <1>9, <1>13
<1>16. PICK many : many = (n > 1)
  OBVIOUS
<1>17. many \in BOOLEAN
  BY <1>16
<1> QED BY <1>1, <1>9, <1>13, <1>14, <1>15, <1>16, <1>17, PlainGesture

LEMMA MovePlanStep ==
  ASSUME DocumentInvariant, NEW by \in {-1, 1}, NEW moving \in Seq(ActedOn),
         \A k \in 1 .. Len(moving) : moving[k] + by \in 1 .. Count,
         ApplyMovePlan(moving, by), Follow
  PROVE  DocumentInvariant' /\ Stays
<1> DEFINE MovedTo(r) == IF r \in ToSet(moving) THEN r + by ELSE r
           first      == IF current # None THEN current ELSE 1
<1>1. /\ DocumentPart /\ ViewPart /\ Ready
  BY InvariantParts DEF ApplyMovePlan
<1>2. /\ Count \in Nat /\ ActedOn \in SUBSET (1 .. Count) /\ Rows = 1 .. Count
  BY <1>1, ActedOnRows
<1>3. PICK n : n = Len(moving)
  OBVIOUS
<1>4. n \in Nat /\ DOMAIN moving = 1 .. n /\ by \in Int
  BY <1>3
<1>5. PICK cs : cs = [k \in 1 .. n |-> Do(Command("move", moving[k], moving[k] + by))]
  OBVIOUS
<1>6. ASSUME NEW k \in 1 .. n
      PROVE  cs[k] \in Submissions /\ cs[k].arg.op = "move"
  <2>1. moving[k] \in ActedOn
    BY ONLY <1>3, k \in 1 .. n, moving \in Seq(ActedOn), ElementOf
  <2>2. moving[k] \in Nat /\ moving[k] + by \in Nat
    <3>1. moving[k] + by \in 1 .. Count
      BY <1>3
    <3>2. moving[k] \in 1 .. Count /\ 1 .. Count \subseteq Nat
      <4>1. ActedOn \subseteq 1 .. Count
        BY <1>2
      <4>2. moving[k] \in 1 .. Count
        BY ONLY <2>1, <4>1
      <4> QED BY <1>2, <4>2
    <3> QED BY ONLY <3>1, <3>2
  <2>3. Command("move", moving[k], moving[k] + by) \in QueuedCommands
    BY <2>2, QueuedCommandKinds
  <2> QED BY <1>5, <2>3, DoSubmits, CommandKinds
<1>7. cs \in Seq(Submissions) /\ Len(cs) = n
  BY <1>4, <1>5, <1>6, ListSeq
<1>8. PICK to : to = MovedTo(first)
  OBVIOUS
<1>9. to \in Int
  <2>1. first \in Int
    BY <1>1, <1>2 DEF ViewPart
  <2> QED BY <1>4, <1>8, <2>1
<1>10. PICK rows : rows = {MovedTo(r) : r \in ActedOn}
  OBVIOUS
<1>11. rows \in SUBSET Rows
  <2>1. ASSUME NEW r \in ActedOn
        PROVE  MovedTo(r) \in 1 .. Count
    <3>1. CASE r \in ToSet(moving)
      <4>1. PICK k \in DOMAIN moving : r = moving[k]
        BY <3>1 DEF ToSet
      <4>2. k \in 1 .. Len(moving)
        BY <1>3, <1>4
      <4> QED BY <3>1, <4>1, <4>2
    <3>2. CASE r \notin ToSet(moving)
      BY <1>2, <3>2
    <3> QED BY <3>1, <3>2
  <2> QED BY <1>2, <1>10, <2>1
<1>12. PICK tail : tail = Reselect(to, rows)
  OBVIOUS
<1>13. tail \in Seq(Reselections)
  BY <1>1, <1>9, <1>11, <1>12, ReselectSeq
<1>14. PICK many : many = (n > 1)
  OBVIOUS
<1>15. many \in BOOLEAN
  BY <1>14
<1>16. Gesture(Batched(many, cs) \o tail)
  BY <1>3, <1>4, <1>5, <1>8, <1>10, <1>12, <1>14 DEF ApplyMovePlan
<1>17. \A i \in 1 .. Len(cs) : cs[i].arg.op = "move"
  BY <1>6, <1>7
<1> QED BY <1>1, <1>7, <1>13, <1>15, <1>16, <1>17, PlainGesture

LEMMA MoveStep ==
  ASSUME DocumentInvariant, OnMoveUp \/ OnMoveDown, Follow
  PROVE  DocumentInvariant' /\ Stays
<1>1. /\ Count \in Nat /\ ActedOn \in SUBSET (1 .. Count)
  BY InvariantParts, ActedOnRows
<1>2. CASE OnMoveUp
  <2>1. PICK set : set = {r \in ActedOn : ~(1 .. r \subseteq ActedOn)}
    OBVIOUS
  <2>2. set \in SUBSET (1 .. Count) /\ set \subseteq ActedOn
    BY <1>1, <2>1
  <2>3. PICK moving : moving = Sorted(set)
    OBVIOUS
  <2>4. moving \in Seq(set)
    BY <1>1, <2>2, <2>3, SortedMembers
  <2>5. moving \in Seq(ActedOn)
    BY ONLY <2>2, <2>4, WidenedSeq
  <2>6. \A r \in set : r + (-1) \in 1 .. Count
    <3>1. ASSUME NEW r \in set, r = 1
          PROVE  FALSE
      <4>1. 1 .. r = {r}
        BY <3>1
      <4> QED BY <2>1, <4>1
    <3> QED BY <1>1, <2>2, <3>1
  <2>7. \A k \in 1 .. Len(moving) : moving[k] \in set
    BY ONLY <2>4, ElementOf
  <2>8. ApplyMovePlan(moving, -1)
    BY <1>2, <2>1, <2>3 DEF OnMoveUp, PlanMoveSectionsUp
  <2> QED BY <2>5, <2>6, <2>7, <2>8, MovePlanStep
<1>3. CASE OnMoveDown
  <2>1. PICK set : set = {r \in ActedOn : ~(r .. Count \subseteq ActedOn)}
    OBVIOUS
  <2>2. set \in SUBSET (1 .. Count) /\ set \subseteq ActedOn
    BY <1>1, <2>1
  <2>3. PICK moving : moving = Reverse(Sorted(set))
    OBVIOUS
  <2>4. moving \in Seq(set)
    <3>1. PICK sorted : sorted = Sorted(set)
      OBVIOUS
    <3>2. sorted \in Seq(set)
      BY <1>1, <2>2, <3>1, SortedMembers
    <3> QED BY <2>3, <3>1, <3>2, ReverseMembers
  <2>5. moving \in Seq(ActedOn)
    BY ONLY <2>2, <2>4, WidenedSeq
  <2>6. \A r \in set : r + 1 \in 1 .. Count
    <3>1. ASSUME NEW r \in set, r = Count
          PROVE  FALSE
      <4>1. r .. Count = {r}
        BY <1>1, <3>1
      <4> QED BY <2>1, <4>1
    <3> QED BY <1>1, <2>2, <3>1
  <2>7. \A k \in 1 .. Len(moving) : moving[k] \in set
    BY ONLY <2>4, ElementOf
  <2>8. ApplyMovePlan(moving, 1)
    BY <1>3, <2>1, <2>3 DEF OnMoveDown, PlanMoveSectionsDown
  <2> QED BY <2>5, <2>6, <2>7, <2>8, MovePlanStep
<1> QED BY <1>2, <1>3

LEMMA CommitStep ==
  ASSUME DocumentInvariant, CommitSection, Follow
  PROVE  DocumentInvariant' /\ Stays
<1>1. /\ DocumentPart /\ ViewPart /\ Ready /\ current # None
  BY InvariantParts DEF CommitSection
<1>2. /\ Count \in Nat /\ Rows = 1 .. Count /\ current \in 1 .. Count
      /\ selected \in SUBSET (1 .. Count)
  BY <1>1, ActedOnRows DEF ViewPart
<1>3. project.sections \in Seq(Section) /\ Len(project.sections) = Count
  BY <1>1, CountIsNat, ProjectFields DEF Count
<1>4. \A r \in 1 .. Count : project.sections[r] \in Section
  BY ONLY <1>3, ElementOf
<1>5. \A s \in Section : /\ [s EXCEPT !.name = <<0>>] \in Section
                         /\ \A t \in Styles : [s EXCEPT !.style = t] \in Section
  <2>1. <<0>> \in Seq(Nat)
    OBVIOUS
  <2> QED BY <2>1 DEF Section
<1> DEFINE before == project.sections[current]
           others == Sorted(selected \ {current})
           Mirrored(section, r) ==
             IF section.style = before.style THEN project.sections[r]
             ELSE [project.sections[r] EXCEPT !.style = section.style]
<1>6. PICK section \in {[before EXCEPT !.name = <<0>>]}
                         \cup {[before EXCEPT !.style = style] : style \in Styles} :
        Gesture(Batched(Cardinality(selected) > 1,
                  <<Do(Command("set", current, section))>>
                    \o [k \in DOMAIN others |->
                          Do(Command("set", others[k], Mirrored(section, others[k])))]))
  BY DEF CommitSection
<1>7. section \in Section
  <2>1. before \in Section
    BY <1>2, <1>4
  <2> QED BY <1>5, <1>6, <2>1
<1>8. section.style \in Styles
  BY <1>7 DEF Section
<1>9. PICK rows : rows = others
  OBVIOUS
<1>10. rows \in Seq(1 .. Count)
  <2>1. PICK set : set = selected \ {current}
    OBVIOUS
  <2>2. set \in SUBSET (1 .. Count)
    BY <1>2, <2>1
  <2>3. rows \in Seq(set)
    BY <1>2, <1>9, <2>1, <2>2, SortedMembers
  <2> QED BY ONLY <2>2, <2>3, WidenedSeq
<1>11. PICK n : n = Len(rows)
  OBVIOUS
<1>12. n \in Nat /\ DOMAIN rows = 1 .. n
  BY <1>10, <1>11
<1>13. PICK more : more = [k \in 1 .. n |->
                             Do(Command("set", rows[k], Mirrored(section, rows[k])))]
  OBVIOUS
<1>14. ASSUME NEW k \in 1 .. n
       PROVE  more[k] \in Submissions /\ more[k].arg.op = "set"
  <2>1. rows[k] \in 1 .. Count
    BY ONLY <1>10, <1>11, k \in 1 .. n, ElementOf
  <2>2. PICK m : m = Mirrored(section, rows[k])
    OBVIOUS
  <2>3. m \in Section
    BY <1>4, <1>5, <1>8, <2>1, <2>2
  <2>4. Command("set", rows[k], m) \in QueuedCommands
    BY <2>1, <2>3, QueuedCommandKinds
  <2> QED BY <1>13, <2>2, <2>4, DoSubmits, CommandKinds
<1>15. more \in Seq(Submissions) /\ Len(more) = n
  <2>1. more = [k \in 1 .. n |-> more[k]]
    BY <1>13
  <2> QED BY ONLY <1>12, <1>14, <2>1, ListSeq
<1>16. PICK head : head = <<Do(Command("set", current, section))>>
  OBVIOUS
<1>17. head \in Seq(Submissions) /\ Len(head) = 1 /\ head[1].arg.op = "set"
  <2>1. Command("set", current, section) \in QueuedCommands
    BY <1>2, <1>7, QueuedCommandKinds
  <2> QED BY <1>16, <2>1, DoSubmits, CommandKinds, OneSeq
<1>18. PICK cs : cs = head \o more
  OBVIOUS
<1>19. /\ cs \in Seq(Submissions) /\ Len(cs) = 1 + n
       /\ cs[1] = head[1] /\ \A k \in 1 .. n : cs[1 + k] = more[k]
  <2>1. head \in Seq(Submissions) /\ more \in Seq(Submissions)
    BY <1>15, <1>17
  <2>2. /\ head \o more \in Seq(Submissions)
        /\ Len(head \o more) = Len(head) + Len(more)
        /\ \A k \in 1 .. Len(head) : (head \o more)[k] = head[k]
        /\ \A k \in 1 .. Len(more) : (head \o more)[Len(head) + k] = more[k]
    BY ONLY <2>1, JoinedSeqs
  <2> QED BY <1>15, <1>17, <1>18, <2>2
<1>20. \A i \in 1 .. Len(cs) : cs[i].arg.op = "set"
  <2>1. SUFFICES ASSUME NEW i \in 1 .. Len(cs)
                 PROVE  cs[i].arg.op = "set"
    OBVIOUS
  <2>2. CASE i = 1
    BY <1>17, <1>19, <2>2
  <2>3. CASE i # 1
    <3>1. PICK k : k = i - 1
      OBVIOUS
    <3>2. k \in 1 .. n /\ i = 1 + k
      BY <1>12, <1>19, <2>3, <3>1
    <3> QED BY <1>14, <1>19, <3>2
  <2> QED BY <2>2, <2>3
<1>21. PICK many : many = (Cardinality(selected) > 1)
  OBVIOUS
<1>22. many \in BOOLEAN
  BY <1>21
<1>23. PICK tail : tail = <<>>
  OBVIOUS
<1>24. tail \in Seq(Reselections) /\ Len(tail) = 0
  BY <1>23
<1>25. Gesture(Batched(many, cs))
  BY <1>6, <1>9, <1>12, <1>13, <1>16, <1>18, <1>21
<1>26. Batched(many, cs) \o tail = Batched(many, cs)
  <2>1. cs \in Seq(QueuedCalls)
    BY <1>1, <1>19, PlainCalls, WidenedSeq
  <2> QED BY <1>22, <1>23, <2>1, NothingReselected
<1>27. Gesture(Batched(many, cs) \o tail)
  BY <1>25, <1>26
<1> QED BY <1>1, <1>19, <1>20, <1>22, <1>24, <1>27, PlainGesture

LEMMA SettingsStep ==
  ASSUME DocumentInvariant, OnEditProject, Follow
  PROVE  DocumentInvariant' /\ Stays
<1>1. /\ DocumentPart /\ Ready
  BY InvariantParts DEF OnEditProject
<1>2. PICK n : n = Len(project.settings)
  OBVIOUS
<1>3. n \in Nat /\ DOMAIN project.settings = 1 .. n
  BY <1>1, <1>2, CountIsNat, ProjectFields
<1>4. PICK edited \in [1 .. n -> Values] :
        Gesture([s \in 1 .. n |-> Do(Command("settings", s, edited[s]))])
  BY <1>3 DEF OnEditProject
<1>5. PICK cs : cs = [s \in 1 .. n |-> Do(Command("settings", s, edited[s]))]
  OBVIOUS
<1>6. ASSUME NEW k \in 1 .. n
      PROVE  /\ cs[k] \in Submissions /\ cs[k].arg.op = "settings"
             /\ cs[k].arg.index = k
  <2>1. Command("settings", k, edited[k]) \in QueuedCommands
    BY QueuedCommandKinds
  <2> QED BY <1>5, <2>1, DoSubmits, CommandKinds
<1>7. cs \in Seq(Submissions) /\ Len(cs) = n
  BY <1>3, <1>5, <1>6, ListSeq
<1>8. PICK tail : tail = <<>>
  OBVIOUS
<1>9. tail \in Seq(Reselections) /\ Len(tail) = 0
  BY <1>8
<1>10. Batched(FALSE, cs) \o tail = Batched(FALSE, cs)
  <2>1. cs \in Seq(QueuedCalls)
    BY <1>1, <1>7, PlainCalls, WidenedSeq
  <2> QED BY <1>8, <2>1, NothingReselected
<1>11. Gesture(Batched(FALSE, cs) \o tail)
  BY <1>4, <1>5, <1>10 DEF Batched
<1>12. /\ \A i \in 1 .. Len(cs) : cs[i].arg.op # "remove"
       /\ \A i \in 1 .. Len(cs) : cs[i].arg.index \in DOMAIN project.settings
  BY <1>3, <1>6, <1>7
<1> QED BY <1>1, <1>7, <1>9, <1>11, <1>12, PlainGesture

LEMMA LargestIsThere ==
  ASSUME NEW n \in Nat, NEW S \in SUBSET (1 .. n), S # {}
  PROVE  Largest(S) \in S
<1>1. PICK T : T = {n - r : r \in S}
  OBVIOUS
<1>2. T \in SUBSET Nat /\ T # {}
  <2>1. ASSUME NEW r \in S
        PROVE  n - r \in Nat
    <3>1. r \in 1 .. n
      OBVIOUS
    <3> QED BY ONLY n \in Nat, <3>1
  <2> QED BY <1>1, <2>1
<1>3. PICK t \in T : \A u \in T : t <= u
  BY <1>2, SmallestOf
<1>4. PICK r \in S : t = n - r
  BY <1>1
<1>5. \A q \in S : r >= q
  <2>1. ASSUME NEW q \in S
        PROVE  r >= q
    <3>1. n - q \in T
      BY <1>1
    <3>2. n - r <= n - q
      BY <1>3, <1>4, <3>1
    <3>3. r \in 1 .. n /\ q \in 1 .. n
      OBVIOUS
    <3> QED BY ONLY n \in Nat, <3>2, <3>3
  <2> QED BY <2>1
<1> QED BY <1>5 DEF Largest

LEMMA QueuedCallKinds ==
  ASSUME NEW r \in Nat, NEW t \in Nat \ {0}
  PROVE  /\ Call("Duplicate", [row |-> r, to |-> t]) \in QueuedCalls
         /\ Call("Duplicate", [row |-> r, to |-> t]).op = "Duplicate"
         /\ Call("Duplicate", [row |-> r, to |-> t]).arg.row = r
         /\ Call("Duplicate", [row |-> r, to |-> t]).arg.to = t
<1>1. PICK a : a = [row |-> r, to |-> t]
  OBVIOUS
<1>2. a \in [row : Nat, to : Nat \ {0}] /\ a.row = r /\ a.to = t
  BY <1>1
<1>3. Call("Duplicate", a) \in QueuedCalls
  BY <1>2 DEF Call, QueuedCalls
<1> QED BY <1>1, <1>2, <1>3, CallFields

(* Each copy goes below the one before it, the first below the last row.   *)
LEMMA DuplicatesQueue ==
  ASSUME NEW b \in Seq(QueuedCalls), calls' = b, UNCHANGED project, Count \in Nat,
         NEW off \in {0, 1}, NEW last \in 1 .. Count,
         NEW cs \in Seq(QueuedCalls), NEW tail \in Seq(QueuedCalls),
         Laid(b, off, cs, tail),
         \A i \in 1 .. Len(cs) : /\ cs[i].op = "Duplicate" /\ cs[i].arg.row \in Rows
                                 /\ cs[i].arg.to = last + i,
         \A i \in 1 .. Len(tail) : /\ tail[i].op = "Select"
                                   /\ tail[i].arg.rows = last + 1 .. last + Len(cs)
  PROVE  QueueInStep'
<1>1. PICK n : n = Len(cs)
  OBVIOUS
<1>2. PICK m : m = Len(tail)
  OBVIOUS
<1>3. n \in Nat /\ m \in Nat /\ off \in Nat /\ Len(b) = n + 2 * off + m
  BY <1>1, <1>2 DEF Laid
<1>4. PICK shift : shift = n + 2 * off
  OBVIOUS
<1>5. /\ shift \in Nat /\ shift >= n + off
      /\ Len(b) = shift + m
  BY <1>3, <1>4
<1>6. ASSUME NEW i \in 1 .. n
      PROVE  /\ off + i \in DOMAIN b /\ b[off + i].op = "Duplicate"
             /\ b[off + i].arg.row \in Rows /\ b[off + i].arg.to = last + i
  <2>1. b[off + i] = cs[i]
    BY <1>1 DEF Laid
  <2>2. off + i \in 1 .. Len(b)
    BY <1>3, <1>5
  <2> QED BY <1>1, <2>1, <2>2
<1>7. Count' = Count /\ Rows' = Rows
  BY DEF Count, Rows
<1>8. ASSUME NEW i \in 1 .. n, NEW k \in Nat, k > off + i
      PROVE  Reached(last + i, k)'
  <2>1. PICK j : j = off + i
    OBVIOUS
  <2>2. j \in 1 .. k - 1 /\ b[j].op = "Duplicate" /\ b[j].arg.to = last + i
    BY <1>3, <1>6, <1>8, <2>1
  <2> QED BY <2>2 DEF Reached
<1>9. ASSUME NEW k \in DOMAIN b
      PROVE  /\ b[k].op \in {"BeginBatch", "EndBatch", "Duplicate", "Select"}
             /\ b[k].op = "Duplicate" =>
                  b[k].arg.row \in Rows' /\ Reached(b[k].arg.to - 1, k)'
             /\ b[k].op = "Select" => \A r \in b[k].arg.rows : Reached(r, k)'
  <2>0. k \in Nat
    OBVIOUS
  <2>1. CASE off = 1 /\ k \in {1, Len(cs) + 2}
    <3>1. b[1].op = "BeginBatch" /\ b[Len(cs) + 2].op = "EndBatch"
      BY <2>1, CallFields DEF Laid
    <3> QED BY <2>1, <3>1
  <2>2. ASSUME NEW i \in 1 .. n, k = off + i
        PROVE  /\ b[k].op = "Duplicate"
               /\ b[k].arg.row \in Rows' /\ Reached(b[k].arg.to - 1, k)'
    <3>1. b[k].op = "Duplicate" /\ b[k].arg.row \in Rows /\ b[k].arg.to = last + i
      BY <1>6, <2>2
    <3>2. CASE i = 1
      <4>1. b[k].arg.to - 1 = last /\ last <= Count'
        BY <1>7, <3>1, <3>2
      <4>2. Reached(last, k)'
        BY <4>1 DEF Reached
      <4> QED BY <1>7, <3>1, <4>1, <4>2
    <3>3. CASE i # 1
      <4>1. PICK h : h = i - 1
        OBVIOUS
      <4>2. h \in 1 .. n /\ k > off + h /\ b[k].arg.to - 1 = last + h
        BY <1>3, <2>2, <3>1, <3>3, <4>1
      <4>3. Reached(last + h, k)'
        BY <1>8, <2>0, <4>2
      <4> QED BY <1>7, <3>1, <4>2, <4>3
    <3> QED BY <3>2, <3>3
  <2>3. ASSUME NEW i \in 1 .. m, k = shift + i, b[k] = tail[i]
        PROVE  /\ b[k].op = "Select"
               /\ \A r \in b[k].arg.rows : Reached(r, k)'
    <3>1. b[k].op = "Select" /\ b[k].arg.rows = last + 1 .. last + n
      BY <1>1, <1>2, <2>3
    <3>2. ASSUME NEW r \in last + 1 .. last + n
          PROVE  Reached(r, k)'
      <4>1. PICK h : h = r - last
        OBVIOUS
      <4>2. h \in 1 .. n /\ r = last + h
        BY <1>3, <4>1
      <4>3. k > off + h
        BY <1>3, <1>5, <2>3, <4>2
      <4> QED BY <1>8, <2>0, <4>2, <4>3
    <3> QED BY <3>1, <3>2
  <2>4. Placed(b, off, cs, tail, k)
    BY LaidPlaces
  <2> QED BY <1>1, <1>2, <1>4, <2>1, <2>2, <2>3, <2>4 DEF Placed
<1> QED BY <1>9 DEF QueueInStep

LEMMA DuplicateStep ==
  ASSUME DocumentInvariant, OnDuplicate, Follow
  PROVE  DocumentInvariant' /\ Stays
<1>1. /\ DocumentPart /\ ViewPart /\ Ready /\ calls = <<>> /\ ActedOn # {}
  BY InvariantParts DEF OnDuplicate, Ready
<1>2. /\ Count \in Nat /\ ActedOn \in SUBSET (1 .. Count) /\ Rows = 1 .. Count
  BY <1>1, ActedOnRows
<1>3. PICK rows : rows = Sorted(ActedOn)
  OBVIOUS
<1>4. PICK last : last = Largest(ActedOn)
  OBVIOUS
<1>5. last \in 1 .. Count
  BY <1>1, <1>2, <1>4, LargestIsThere
<1>6. rows \in Seq(ActedOn)
  BY <1>2, <1>3, SortedMembers
<1>7. PICK n : n = Len(rows)
  OBVIOUS
<1>8. n \in Nat /\ DOMAIN rows = 1 .. n
  BY <1>6, <1>7
<1>9. PICK cs : cs = [k \in 1 .. n |->
                        Call("Duplicate", [row |-> rows[k], to |-> last + k])]
  OBVIOUS
<1>10. ASSUME NEW k \in 1 .. n
       PROVE  /\ cs[k] \in QueuedCalls /\ cs[k].op = "Duplicate"
              /\ cs[k].arg.row \in Rows /\ cs[k].arg.to = last + k
  <2>1. rows[k] \in ActedOn
    BY ONLY <1>6, <1>7, k \in 1 .. n, ElementOf
  <2>2. rows[k] \in Rows /\ rows[k] \in Nat
    <3>1. ActedOn \subseteq Rows /\ Rows \subseteq Nat
      BY <1>2
    <3> QED BY ONLY <2>1, <3>1
  <2>3. last + k \in Nat \ {0}
    BY <1>2, <1>5
  <2> QED BY <1>9, <2>2, <2>3, QueuedCallKinds
<1>11. cs \in Seq(QueuedCalls) /\ Len(cs) = n
  <2>1. cs = [k \in 1 .. n |-> cs[k]]
    BY <1>9
  <2> QED BY ONLY <1>8, <1>10, <2>1, ListSeq
<1>12. PICK set : set = last + 1 .. last + n
  OBVIOUS
<1>13. set \in SUBSET (Nat \ {0})
  BY <1>2, <1>5, <1>8, <1>12
<1>14. PICK a : a = [first |-> last + 1, rows |-> set]
  OBVIOUS
<1>15. a \in [first : Int, rows : SUBSET (Nat \ {0})] /\ a.rows = set
  <2>1. last + 1 \in Int
    BY <1>2, <1>5
  <2> QED BY <1>13, <1>14, <2>1
<1>16. PICK tail : tail = <<Call("Select", a)>>
  OBVIOUS
<1>17. /\ tail \in Seq(QueuedCalls) /\ Len(tail) = 1
       /\ tail[1].op = "Select" /\ tail[1].arg.rows = set
  <2>1. Call("Select", a) \in QueuedCalls
    BY <1>15 DEF Call, QueuedCalls
  <2> QED BY <1>15, <1>16, <2>1, OneSeq, CallFields
<1>18. PICK many : many = (n > 1)
  OBVIOUS
<1>19. many \in BOOLEAN
  BY <1>18
<1>20. Gesture(Batched(many, cs) \o tail)
  BY <1>3, <1>4, <1>7, <1>8, <1>9, <1>12, <1>14, <1>16, <1>18
     DEF OnDuplicate, Reselect
<1>21. /\ UNCHANGED <<document_vars, selected, current, file>>
       /\ calls' = Batched(many, cs) \o tail
  BY <1>20 DEF Gesture
<1>22. UNCHANGED <<project, batch_depth>> /\ batch_depth = 0
  BY <1>1, <1>21, IdleBatch DEF document_vars
<1>23. DocumentPart' /\ Stays
  BY <1>1, <1>21, KeptDocument
<1>24. ViewPart'
  BY <1>1, <1>21, <1>22 DEF ViewPart, Rows, Count
<1>25. PICK off \in {0, 1} : Laid(Batched(many, cs) \o tail, off, cs, tail)
  BY <1>11, <1>17, <1>19, BatchedCalls
<1>26. Laid(calls', off, cs, tail)
  BY <1>21, <1>25
<1>27. BatchInStep'
  <2>1. NoBatchIn(cs) /\ NoBatchIn(tail)
    BY <1>10, <1>11, <1>17 DEF NoBatchIn
  <2> QED BY <1>11, <1>17, <1>22, <1>26, <2>1, LaidBatch
<1>28. QueueInStep'
  <2>1. PICK b : b = calls'
    OBVIOUS
  <2>2. Laid(b, off, cs, tail) /\ b \in Seq(QueuedCalls)
    BY <1>26, <2>1 DEF Laid
  <2>3. \A i \in 1 .. Len(tail) : /\ tail[i].op = "Select"
                                  /\ tail[i].arg.rows = last + 1 .. last + Len(cs)
    BY <1>11, <1>12, <1>17
  <2>4. \A i \in 1 .. Len(cs) : /\ cs[i].op = "Duplicate" /\ cs[i].arg.row \in Rows
                                /\ cs[i].arg.to = last + i
    BY <1>10, <1>11
  <2>5. UNCHANGED project /\ cs \in Seq(QueuedCalls) /\ tail \in Seq(QueuedCalls)
    BY <1>11, <1>17, <1>22
  <2> QED BY ONLY <1>2, <1>5, off \in {0, 1}, <2>1, <2>2, <2>3, <2>4, <2>5,
                  DuplicatesQueue
<1> QED BY <1>23, <1>24, <1>27, <1>28, InvariantParts

-------------------------------------------------------------------------------
(* What needs no call: clicks, saving, loading, undo and redo.             *)
LEMMA Shown ==
  ASSUME ViewPart, NEW commands, ShowChanges(commands),
         ~ResetsList(commands) => Count' = Count
  PROVE  ViewPart'
<1>1. CASE ResetsList(commands)
  <2>1. selected' = {} /\ current' = None
    BY <1>1 DEF ShowChanges
  <2> QED BY <2>1 DEF ViewPart
<1>2. CASE ~ResetsList(commands)
  <2>1. UNCHANGED <<selected, current>> /\ Rows' = Rows
    BY <1>2 DEF ShowChanges, Rows
  <2> QED BY <2>1 DEF ViewPart
<1> QED BY <1>1, <1>2

LEMMA ClickStep ==
  ASSUME DocumentInvariant, Click, Follow
  PROVE  DocumentInvariant' /\ Stays
<1>1. /\ DocumentPart /\ ViewPart /\ calls = <<>>
      /\ UNCHANGED <<document_vars, file, calls>>
      /\ selected' \in SUBSET Rows /\ current' \in Rows
  BY InvariantParts DEF Click, Ready
<1>2. batch_depth' = 0 /\ UNCHANGED project
  BY <1>1, IdleBatch DEF document_vars
<1>3. DocumentPart' /\ Stays
  BY <1>1, KeptDocument
<1>4. ViewPart'
  <2>1. Rows' = Rows
    BY <1>2 DEF Rows, Count
  <2> QED BY <1>1, <2>1 DEF ViewPart
<1>5. BatchInStep' /\ QueueInStep'
  BY <1>1, <1>2, NothingQueued
<1> QED BY <1>3, <1>4, <1>5, InvariantParts

LEMMA SaveStep ==
  ASSUME DocumentInvariant, SaveToPath, Follow
  PROVE  DocumentInvariant' /\ Stays
<1>1. /\ DocumentPart /\ ViewPart /\ calls = <<>>
      /\ UNCHANGED <<selected, current, calls>>
  BY InvariantParts DEF SaveToPath
<1>2. batch_depth = 0
  BY <1>1, IdleBatch
<1>3. DocumentPart' /\ Stays /\ UNCHANGED <<project, batch_depth>>
  <2>1. CASE file' = project /\ MarkSaved
    BY <1>1, <1>2, <2>1, MarkStep
  <2>2. CASE file' = Torn /\ UNCHANGED document_vars
    BY <1>1, <2>2, TornStep DEF document_vars
  <2> QED BY <2>1, <2>2 DEF SaveToPath
<1>4. ViewPart'
  <2>1. Rows' = Rows
    BY <1>3 DEF Rows, Count
  <2> QED BY <1>1, <2>1 DEF ViewPart
<1>5. BatchInStep' /\ QueueInStep'
  BY <1>1, <1>2, <1>3, NothingQueued
<1> QED BY <1>3, <1>4, <1>5, InvariantParts

LEMMA LoadStep ==
  ASSUME LoadProject, Follow
  PROVE  DocumentInvariant' /\ History!Load
<1>1. PICK p \in Files : ResetProject(p) /\ file' = p
  BY DEF LoadProject
<1>2. p \in Projects
  OBVIOUS
<1>3. DocumentPart' /\ History!Load /\ batch_depth' = 0
  BY <1>1, <1>2, ResetStep DEF ResetProject
<1>4. ViewPart'
  BY DEF LoadProject, ViewPart
<1>5. PICK a : a = [first |-> 1, rows |-> {}]
  OBVIOUS
<1>6. a \in [first : Int, rows : SUBSET (Nat \ {0})] /\ a.rows = {}
  BY <1>5
<1>7. PICK c : c = Call("Select", a)
  OBVIOUS
<1>8. c \in QueuedCalls /\ c.op = "Select" /\ c.arg.rows = {}
  BY <1>6, <1>7, CallFields DEF Call, QueuedCalls
<1>9. PICK b : b = calls'
  OBVIOUS
<1>10. b \in Seq(QueuedCalls) /\ DOMAIN b = {1} /\ b[1] = c
  <2>1. b = <<c>>
    BY <1>5, <1>7, <1>9 DEF LoadProject, Reselect
  <2> QED BY <1>8, <2>1
<1>11. BatchInStep'
  BY <1>3, <1>8, <1>9, <1>10 DEF BatchInStep, NoBatch
<1>12. QueueInStep'
  BY <1>8, <1>9, <1>10 DEF QueueInStep
<1> QED BY <1>3, <1>4, <1>11, <1>12, InvariantParts

LEMMA UndoActionStep ==
  ASSUME DocumentInvariant, UndoAction, Follow
  PROVE  DocumentInvariant' /\ History!Undo
<1>1. /\ DocumentPart /\ ViewPart /\ calls = <<>> /\ Undo
      /\ ShowChanges(undo_stack[undo_index]) /\ UNCHANGED <<file, calls>>
  BY InvariantParts DEF UndoAction
<1>2. /\ DocumentPart' /\ History!Undo
      /\ ~ResetsList(undo_stack[undo_index]) => Count' = Count
  BY <1>1, UndoStep
<1>3. ViewPart'
  BY <1>1, <1>2, Shown
<1>4. batch_depth' = 0
  BY <1>1, IdleBatch DEF Undo
<1>5. BatchInStep' /\ QueueInStep'
  BY <1>1, <1>4, NothingQueued
<1> QED BY <1>2, <1>3, <1>5, InvariantParts

LEMMA RedoActionStep ==
  ASSUME DocumentInvariant, RedoAction, Follow
  PROVE  DocumentInvariant' /\ History!Redo
<1>1. /\ DocumentPart /\ ViewPart /\ calls = <<>> /\ Redo
      /\ ShowChanges(undo_stack[undo_index']) /\ UNCHANGED <<file, calls>>
  BY InvariantParts DEF RedoAction
<1>2. /\ DocumentPart' /\ History!Redo
      /\ ~ResetsList(undo_stack[undo_index']) => Count' = Count
  BY <1>1, RedoStep
<1>3. ViewPart'
  BY <1>1, <1>2, Shown
<1>4. batch_depth' = 0
  BY <1>1, IdleBatch DEF Redo
<1>5. BatchInStep' /\ QueueInStep'
  BY <1>1, <1>4, NothingQueued
<1> QED BY <1>2, <1>3, <1>5, InvariantParts

-------------------------------------------------------------------------------
(* Running the calls.                                                      *)
LEMMA TailSeq ==
  ASSUME NEW S, NEW b \in Seq(S), b # <<>>
  PROVE  /\ Tail(b) \in Seq(S) /\ Len(b) \in Nat \ {0} /\ Len(Tail(b)) = Len(b) - 1
         /\ \A k \in 1 .. Len(b) - 1 : Tail(b)[k] = b[k + 1]
         /\ b[1] \in S /\ 1 \in DOMAIN b
OBVIOUS

(* The calls that are left still name rows that are there or will be.      *)
LEMMA TailReached ==
  ASSUME QueueInStep, calls # <<>>, calls' = Tail(calls), Count \in Nat,
         Count' \in Nat, Count' >= Count,
         calls[1].op = "Duplicate" => calls[1].arg.to <= Count',
         NEW k \in 1 .. Len(calls) - 1, NEW r \in Int, Reached(r, k + 1)
  PROVE  Reached(r, k)'
<1>1. PICK b : b = calls
  OBVIOUS
<1>2. b \in Seq(QueuedCalls) /\ b # <<>>
  BY <1>1 DEF QueueInStep
<1>3. PICK t : t = Tail(b)
  OBVIOUS
<1>4. /\ Len(b) \in Nat \ {0} /\ k \in 1 .. Len(b) - 1
      /\ \A i \in 1 .. Len(b) - 1 : t[i] = b[i + 1]
  BY <1>1, <1>2, <1>3, TailSeq
<1>5. calls' = t
  BY <1>1, <1>3
<1>6. CASE r <= Count
  <2>1. r <= Count'
    BY <1>6
  <2> QED BY <2>1 DEF Reached
<1>7. ASSUME NEW j \in 1 .. k + 1 - 1, b[j].op = "Duplicate", b[j].arg.to = r
      PROVE  Reached(r, k)'
  <2>1. CASE j = 1
    <3>1. r <= Count'
      BY <1>1, <1>7, <2>1
    <3> QED BY <3>1 DEF Reached
  <2>2. CASE j # 1
    <3>1. PICK i : i = j - 1
      OBVIOUS
    <3>2. i \in 1 .. k - 1 /\ i \in 1 .. Len(b) - 1 /\ i + 1 = j
      BY <1>4, <2>2, <3>1
    <3>3. t[i] = b[j]
      BY <1>4, <3>2
    <3>4. t[i].op = "Duplicate" /\ t[i].arg.to = r
      BY <1>7, <3>3
    <3> QED BY <1>5, <3>2, <3>4 DEF Reached
  <2> QED BY <2>1, <2>2
<1> QED BY <1>1, <1>6, <1>7 DEF Reached

LEMMA QueuedCallFields ==
  ASSUME NEW h \in QueuedCalls
  PROVE  /\ h.op = "Submit" => h.arg \in QueuedCommands
         /\ h.op = "Duplicate" => h.arg.row \in Nat /\ h.arg.to \in Nat \ {0}
         /\ h.op = "Select" =>
              h.arg.first \in Int /\ h.arg.rows \in SUBSET (Nat \ {0})
<1>1. CASE h \in [op : {"Submit"}, arg : QueuedCommands]
  BY <1>1
<1>2. CASE h \in [op : {"Duplicate"}, arg : [row : Nat, to : Nat \ {0}]]
  BY <1>2
<1>3. CASE h \in [op : {"BeginBatch", "EndBatch"}, arg : {None}]
  BY <1>3
<1>4. CASE h \in [op : {"Select"}, arg : [first : Int, rows : SUBSET (Nat \ {0})]]
  BY <1>4
<1> QED BY <1>1, <1>2, <1>3, <1>4 DEF QueuedCalls

LEMMA TailQueue ==
  ASSUME QueueInStep, calls # <<>>, calls' = Tail(calls), Count \in Nat,
         Count' \in Nat, Removes(calls[1]) \/ Count' >= Count,
         DOMAIN project'.settings = DOMAIN project.settings,
         calls[1].op = "Duplicate" => calls[1].arg.to <= Count'
  PROVE  QueueInStep'
<1>1. PICK b : b = calls
  OBVIOUS
<1>2. b \in Seq(QueuedCalls) /\ b # <<>>
  BY <1>1 DEF QueueInStep
<1>3. PICK t : t = Tail(b)
  OBVIOUS
<1>4. /\ Len(b) \in Nat \ {0} /\ t \in Seq(QueuedCalls) /\ DOMAIN t = 1 .. Len(b) - 1
      /\ \A i \in 1 .. Len(b) - 1 : t[i] = b[i + 1]
      /\ DOMAIN b = 1 .. Len(b) /\ 1 \in DOMAIN b
  <2>1. /\ Len(b) \in Nat \ {0} /\ t \in Seq(QueuedCalls) /\ Len(t) = Len(b) - 1
        /\ \A i \in 1 .. Len(b) - 1 : t[i] = b[i + 1]
    BY <1>2, <1>3, TailSeq
  <2> QED BY <1>2, <2>1
<1>5. calls' = t
  BY <1>1, <1>3
<1>6. \A k \in DOMAIN b :
        /\ b[k].op = "Submit" /\ b[k].arg.op = "settings" =>
             b[k].arg.index \in DOMAIN project.settings
        /\ b[k].op = "Duplicate" =>
             b[k].arg.row \in Rows /\ Reached(b[k].arg.to - 1, k)
        /\ b[k].op = "Select" => \A r \in b[k].arg.rows : Reached(r, k)
  BY <1>1 DEF QueueInStep
<1>7. ASSUME NEW j \in DOMAIN b, Removes(b[j]), NEW k \in DOMAIN b
      PROVE  /\ b[k].op # "Duplicate"
             /\ b[k].op = "Select" => b[k].arg.rows = {}
  BY <1>1, <1>7 DEF QueueInStep, Removes
<1>8. ASSUME NEW k \in DOMAIN t
      PROVE  /\ k \in 1 .. Len(b) - 1 /\ k + 1 \in DOMAIN b /\ t[k] = b[k + 1]
             /\ t[k] \in QueuedCalls
  BY <1>4
<1>9. ASSUME NEW k \in DOMAIN t
      PROVE  /\ t[k].op = "Submit" /\ t[k].arg.op = "settings" =>
                  t[k].arg.index \in DOMAIN project'.settings
             /\ t[k].op = "Duplicate" =>
                  t[k].arg.row \in Rows' /\ Reached(t[k].arg.to - 1, k)'
             /\ t[k].op = "Select" => \A r \in t[k].arg.rows : Reached(r, k)'
  <2>1. /\ k \in 1 .. Len(b) - 1 /\ k + 1 \in DOMAIN b /\ t[k] = b[k + 1]
        /\ t[k] \in QueuedCalls
    BY <1>8
  <2>2. t[k].op = "Submit" /\ t[k].arg.op = "settings" =>
          t[k].arg.index \in DOMAIN project'.settings
    BY <1>6, <2>1
  <2>3. CASE Removes(b[1])
    <3>1. t[k].op # "Duplicate" /\ (t[k].op = "Select" => t[k].arg.rows = {})
      BY <1>4, <1>7, <2>1, <2>3
    <3> QED BY <2>2, <3>1
  <2>4. CASE ~Removes(b[1])
    <3>1. Count' >= Count
      BY <1>1, <2>4
    <3>2. \A r \in Int : Reached(r, k + 1) => Reached(r, k)'
      BY <1>1, <2>1, <3>1, TailReached
    <3>3. ASSUME t[k].op = "Duplicate"
          PROVE  t[k].arg.row \in Rows' /\ Reached(t[k].arg.to - 1, k)'
      <4>1. t[k].arg.row \in Rows /\ Reached(t[k].arg.to - 1, k + 1)
        BY <1>6, <2>1, <3>3
      <4>2. t[k].arg.to - 1 \in Int
        BY <2>1, <3>3, QueuedCallFields
      <4>3. t[k].arg.row \in Rows'
        BY <3>1, <4>1 DEF Rows
      <4> QED BY <3>2, <4>1, <4>2, <4>3
    <3>4. ASSUME t[k].op = "Select", NEW r \in t[k].arg.rows
          PROVE  Reached(r, k)'
      <4>1. Reached(r, k + 1)
        BY <1>6, <2>1, <3>4
      <4>2. r \in Int
        BY <2>1, <3>4, QueuedCallFields
      <4> QED BY <3>2, <4>1, <4>2
    <3> QED BY <2>2, <3>3, <3>4
  <2> QED BY <2>3, <2>4
<1>10. ASSUME NEW j \in DOMAIN t, Removes(t[j]), NEW k \in DOMAIN t
       PROVE  /\ t[k].op # "Duplicate"
              /\ t[k].op = "Select" => t[k].arg.rows = {}
  <2>1. Removes(b[j + 1]) /\ j + 1 \in DOMAIN b /\ k + 1 \in DOMAIN b /\ t[k] = b[k + 1]
    BY <1>8, <1>10
  <2> QED BY <1>7, <2>1
<1> QED BY <1>4, <1>5, <1>9, <1>10 DEF QueueInStep, Removes

(* The batch the calls that are left are in.                               *)
LEMMA TailBatch ==
  ASSUME BatchInStep, calls \in Seq(QueuedCalls), calls # <<>>, calls' = Tail(calls)
  PROVE  /\ calls[1].op = "BeginBatch" =>
              batch_depth = 0 /\ (batch_depth' = 1 => BatchInStep')
         /\ calls[1].op = "EndBatch" =>
              batch_depth = 1 /\ (batch_depth' = 0 => BatchInStep')
         /\ calls[1].op \notin {"BeginBatch", "EndBatch"} =>
              (batch_depth' = batch_depth => BatchInStep')
<1>1. PICK b : b = calls
  OBVIOUS
<1>2. PICK t : t = Tail(b)
  OBVIOUS
<1>3. PICK n : n = Len(b)
  OBVIOUS
<1>4. /\ n \in Nat \ {0} /\ DOMAIN b = 1 .. n /\ DOMAIN t = 1 .. n - 1
      /\ \A i \in 1 .. n - 1 : t[i] = b[i + 1]
  <2>1. b \in Seq(QueuedCalls) /\ b # <<>>
    BY <1>1
  <2>2. /\ Len(b) \in Nat \ {0} /\ t \in Seq(QueuedCalls) /\ Len(t) = Len(b) - 1
        /\ \A i \in 1 .. Len(b) - 1 : t[i] = b[i + 1]
    BY <1>2, <2>1, TailSeq
  <2> QED BY <1>3, <2>1, <2>2
<1>5. calls' = t
  BY <1>1, <1>2
<1> DEFINE Plain(c) == c.op \notin {"BeginBatch", "EndBatch"}
<1>6. CASE batch_depth = 0 /\ \A k \in DOMAIN b : Plain(b[k])
  <2>1. \A k \in DOMAIN t : Plain(t[k])
    BY <1>4, <1>6
  <2>2. Plain(b[1])
    BY <1>4, <1>6
  <2>3. batch_depth' = batch_depth => BatchInStep'
    BY <1>5, <1>6, <2>1 DEF BatchInStep, NoBatch
  <2> QED BY <1>1, <2>2, <2>3
<1>7. ASSUME NEW m \in DOMAIN b \ {1}, b[m].op = "EndBatch",
             \A k \in DOMAIN b \ {1, m} : Plain(b[k])
      PROVE  batch_depth' = 1 => BatchInStep'
  <2>1. PICK l : l = m - 1
    OBVIOUS
  <2>2. l \in 1 .. n - 1 /\ l + 1 = m
    BY <1>4, <2>1
  <2>3. t[l].op = "EndBatch" /\ l \in DOMAIN t
    BY <1>4, <1>7, <2>2
  <2>4. ASSUME NEW k \in DOMAIN t \ {l}
        PROVE  Plain(t[k])
    <3>1. k \in 1 .. n - 1 /\ k + 1 \in DOMAIN b \ {1, m}
      BY <1>4, <2>2
    <3>2. t[k] = b[k + 1]
      BY <1>4, <3>1
    <3>3. Plain(b[k + 1])
      BY <1>7, <3>1
    <3> QED BY <3>2, <3>3
  <2> QED BY <1>5, <2>3, <2>4 DEF BatchInStep, NoBatch
<1>8. CASE /\ batch_depth = 0 /\ b[1].op = "BeginBatch"
           /\ \E m \in DOMAIN b \ {1} :
                b[m].op = "EndBatch" /\ \A k \in DOMAIN b \ {1, m} : Plain(b[k])
  BY <1>1, <1>7, <1>8
<1>9. CASE /\ batch_depth = 1
           /\ \E m \in DOMAIN b :
                b[m].op = "EndBatch" /\ \A k \in DOMAIN b \ {m} : Plain(b[k])
  <2>1. PICK m \in DOMAIN b :
          b[m].op = "EndBatch" /\ \A k \in DOMAIN b \ {m} : Plain(b[k])
    BY <1>9
  <2>2. CASE m = 1
    <3>1. \A k \in DOMAIN t : Plain(t[k])
      <4>1. ASSUME NEW k \in DOMAIN t
            PROVE  Plain(t[k])
        <5>1. k \in 1 .. n - 1 /\ k + 1 \in DOMAIN b \ {m}
          BY <1>4, <2>2
        <5> QED BY <1>4, <2>1, <5>1
      <4> QED BY <4>1
    <3>2. batch_depth' = 0 => BatchInStep'
      BY <1>5, <3>1 DEF BatchInStep, NoBatch
    <3> QED BY <1>1, <1>9, <2>1, <2>2, <3>2
  <2>3. CASE m # 1
    <3>1. Plain(b[1])
      BY <1>4, <2>1, <2>3
    <3>2. batch_depth' = 1 => BatchInStep'
      BY <1>7, <2>1, <2>3
    <3> QED BY <1>1, <1>9, <3>1, <3>2
  <2> QED BY <2>2, <2>3
<1>10. \/ batch_depth = 0 /\ \A k \in DOMAIN b : Plain(b[k])
       \/ /\ batch_depth = 0 /\ b[1].op = "BeginBatch"
          /\ \E m \in DOMAIN b \ {1} :
               b[m].op = "EndBatch" /\ \A k \in DOMAIN b \ {1, m} : Plain(b[k])
       \/ /\ batch_depth = 1
          /\ \E m \in DOMAIN b :
               b[m].op = "EndBatch" /\ \A k \in DOMAIN b \ {m} : Plain(b[k])
  BY <1>1 DEF BatchInStep, NoBatch
<1> QED BY ONLY <1>6, <1>8, <1>9, <1>10

(* One command submitted and its signal shown.                             *)
LEMMA SubmitAndShowStep ==
  ASSUME DocumentPart, ViewPart, NEW c \in QueuedCommands,
         c.op = "settings" => c.index \in DOMAIN project.settings,
         SubmitAndShow(c), UNCHANGED file, Follow
  PROVE  /\ DocumentPart' /\ ViewPart' /\ Edits /\ batch_depth' = batch_depth
         /\ DOMAIN project'.settings = DOMAIN project.settings
         /\ c.op # "remove" => Count' >= Count
         /\ c.op = "insert" /\ c.index \in 1 .. Count + 1 => Count' = Count + 1
<1>1. Count \in Nat /\ project \in Projects
  BY CountIsNat
<1>2. CASE Effective(c)
  <2>1. ApplyCommand(c) /\ ShowChanges(<<c>>)
    BY <1>2 DEF SubmitAndShow, Submit
  <2>2. /\ DocumentPart' /\ Edits /\ batch_depth' = batch_depth
        /\ Len(project'.settings) = Len(project.settings)
        /\ c.op = "insert" => Count' = Count + 1
        /\ c.op \in {"settings", "set", "move"} => Count' = Count
    BY <1>2, <2>1, SubmitStep
  <2>3. c.op \in {"settings", "insert", "set", "remove", "move"}
    BY DEF QueuedCommands
  <2>4. ViewPart'
    <3>1. PICK commands : commands = <<c>>
      OBVIOUS
    <3>2. DOMAIN commands = {1} /\ commands[1] = c
      BY <3>1
    <3>3. ~ResetsList(commands) => Count' = Count
      BY <2>2, <2>3, <3>2 DEF ResetsList
    <3> QED BY <2>1, <3>1, <3>3, Shown
  <2>5. DOMAIN project'.settings = DOMAIN project.settings
    <3>1. project' \in Projects
      BY <2>2 DEF DocumentPart, DocumentTypes
    <3>2. project.settings \in Seq(Values) /\ project'.settings \in Seq(Values)
      BY <1>1, <3>1, ProjectFields
    <3> QED BY <2>2, <3>2
  <2>6. c.op # "remove" => Count' >= Count
    BY <1>1, <2>2, <2>3
  <2> QED BY <2>2, <2>4, <2>5, <2>6
<1>3. CASE ~Effective(c)
  <2>1. UNCHANGED document_vars /\ UNCHANGED <<selected, current>>
    BY <1>3 DEF SubmitAndShow, Submit
  <2>2. DocumentPart' /\ Stays
    BY <2>1, KeptDocument
  <2>3. UNCHANGED <<project, batch_depth>> /\ Count' = Count /\ Rows' = Rows
    BY <2>1 DEF document_vars, Count, Rows
  <2>4. ViewPart'
    BY <2>1, <2>3 DEF ViewPart
  <2>5. ~(c.op = "insert" /\ c.index \in 1 .. Count + 1)
    BY <1>3 DEF Effective, Count
  <2>6. DOMAIN project'.settings = DOMAIN project.settings /\ Count' >= Count
    BY <1>1, <2>3
  <2> QED BY <2>2, <2>3, <2>4, <2>5, <2>6 DEF Edits
<1> QED BY <1>2, <1>3

(* Among one more numbers than there are sections one names no section.    *)
LEMMA FreeName ==
  ASSUME DocumentPart, NEW name \in Seq(Nat)
  PROVE  {k \in 1 .. Count + 1 :
            Append(name, k) \notin {project.sections[r].name : r \in Rows}} # {}
<1>1. SUFFICES ASSUME \A k \in 1 .. Count + 1 : \E r \in Rows :
                        Append(name, k) = project.sections[r].name
               PROVE  FALSE
  OBVIOUS
<1>2. Count \in Nat /\ Rows = 1 .. Count
  BY CountIsNat DEF Rows
<1>3. PICK n : n = Count + 1
  OBVIOUS
<1>4. PICK f : f = [k \in 1 .. n |-> CHOOSE r \in Rows :
                                        Append(name, k) = project.sections[r].name]
  OBVIOUS
<1>5. ASSUME NEW k \in 1 .. n
      PROVE  f[k] \in Rows /\ Append(name, k) = project.sections[f[k]].name
  BY <1>1, <1>3, <1>4
<1>6. f \in [1 .. n -> Rows]
  BY <1>4, <1>5
<1>7. /\ IsFiniteSet(1 .. n) /\ IsFiniteSet(Rows)
      /\ Cardinality(Rows) < Cardinality(1 .. n)
  <2>1. n \in Nat /\ 1 \in Int /\ n = Count + 1
    BY <1>2, <1>3
  <2>2. IsFiniteSet(1 .. n) /\ Cardinality(1 .. n) = n
    BY <1>2, <2>1, FS_Interval
  <2>3. IsFiniteSet(Rows) /\ Cardinality(Rows) = Count
    BY <1>2, FS_Interval
  <2> QED BY <1>2, <2>1, <2>2, <2>3
<1>8. PICK x, y \in 1 .. n : x # y /\ f[x] = f[y]
  BY <1>6, <1>7, FS_PigeonHole
<1>9. Append(name, x) = Append(name, y)
  BY <1>5, <1>8
<1>10. x \in Nat /\ y \in Nat
  BY <1>8
<1>11. x = y
  <2>1. ASSUME NEW z \in Nat
        PROVE  Append(name, z)[Len(name) + 1] = z
    OBVIOUS
  <2> QED BY <1>9, <1>10, <2>1
<1> QED BY <1>8, <1>11

LEMMA DuplicatedSection ==
  ASSUME DocumentPart, NEW s \in Section
  PROVE  Duplicated(s) \in Section
<1>1. s.name \in Seq(Nat)
  BY DEF Section
<1>2. PICK free : free = {k \in 1 .. Count + 1 :
                   Append(s.name, k) \notin {project.sections[r].name : r \in Rows}}
  OBVIOUS
<1>3. free \in SUBSET Nat /\ free # {}
  BY <1>1, <1>2, FreeName
<1>4. PICK k : k = Smallest(free)
  OBVIOUS
<1>5. k \in Nat
  BY <1>3, <1>4, SmallestIsThere
<1>6. PICK name : name = Append(s.name, k)
  OBVIOUS
<1>7. name \in Seq(Nat)
  BY <1>1, <1>5, <1>6
<1>8. Duplicated(s) = [s EXCEPT !.name = name]
  BY <1>2, <1>4, <1>6 DEF Duplicated
<1> QED BY <1>7, <1>8 DEF Section

LEMMA RunStep ==
  ASSUME DocumentInvariant, RunCall, Follow
  PROVE  DocumentInvariant' /\ Edits
<1>1. /\ DocumentPart /\ ViewPart /\ BatchInStep /\ QueueInStep
      /\ calls # <<>> /\ calls' = Tail(calls) /\ UNCHANGED file
  BY InvariantParts DEF RunCall
<1>2. /\ Count \in Nat /\ Rows = 1 .. Count /\ project \in Projects
  BY <1>1, CountIsNat DEF Rows
<1>3. PICK h : h = calls[1]
  OBVIOUS
<1>4. /\ calls \in Seq(QueuedCalls) /\ h \in QueuedCalls /\ 1 \in DOMAIN calls
  <2>1. calls \in Seq(QueuedCalls)
    BY <1>1 DEF QueueInStep
  <2> QED BY <1>1, <1>3, <2>1, TailSeq
<1>5. /\ h.op = "Submit" => h.arg \in QueuedCommands
      /\ h.op = "Duplicate" => h.arg.row \in Nat /\ h.arg.to \in Nat \ {0}
      /\ h.op = "Select" => h.arg.first \in Int /\ h.arg.rows \in SUBSET (Nat \ {0})
  BY <1>4, QueuedCallFields
<1>6. /\ h.op = "Submit" /\ h.arg.op = "settings" =>
           h.arg.index \in DOMAIN project.settings
      /\ h.op = "Duplicate" => h.arg.row \in Rows /\ Reached(h.arg.to - 1, 1)
      /\ h.op = "Select" => \A r \in h.arg.rows : Reached(r, 1)
  BY <1>1, <1>3, <1>4 DEF QueueInStep
<1>7. \A r : Reached(r, 1) => r <= Count
  BY DEF Reached
<1>8. /\ h.op = "BeginBatch" => batch_depth = 0 /\ (batch_depth' = 1 => BatchInStep')
      /\ h.op = "EndBatch" => batch_depth = 1 /\ (batch_depth' = 0 => BatchInStep')
      /\ h.op \notin {"BeginBatch", "EndBatch"} =>
           (batch_depth' = batch_depth => BatchInStep')
  BY <1>1, <1>3, <1>4, TailBatch
<1>9. ASSUME DocumentPart', Removes(h) \/ Count' >= Count,
             DOMAIN project'.settings = DOMAIN project.settings,
             h.op = "Duplicate" => h.arg.to <= Count'
      PROVE  QueueInStep'
  <2>1. Count' \in Nat
    <3>1. PICK q : q = project'
      OBVIOUS
    <3>2. q \in Projects
      BY <1>9, <3>1 DEF DocumentPart, DocumentTypes
    <3>3. q.sections \in Seq(Section)
      BY <3>2, ProjectFields
    <3> QED BY <3>1, <3>3 DEF Count
  <2> QED BY <1>1, <1>2, <1>3, <1>9, <2>1, TailQueue
<1>10. CASE h.op = "Submit" /\ SubmitAndShow(h.arg)
  <2>1. PICK c : c = h.arg
    OBVIOUS
  <2>2. /\ c \in QueuedCommands /\ SubmitAndShow(c)
        /\ c.op = "settings" => c.index \in DOMAIN project.settings
    BY <1>5, <1>6, <1>10, <2>1
  <2>3. /\ DocumentPart' /\ ViewPart' /\ Edits /\ batch_depth' = batch_depth
        /\ DOMAIN project'.settings = DOMAIN project.settings
        /\ c.op # "remove" => Count' >= Count
    BY <1>1, <2>2, SubmitAndShowStep
  <2>4. BatchInStep'
    BY <1>8, <1>10, <2>3
  <2>5. QueueInStep'
    BY <1>9, <1>10, <2>1, <2>3 DEF Removes
  <2> QED BY <2>3, <2>4, <2>5, InvariantParts
<1>11. CASE h.op = "Duplicate"
            /\ SubmitAndShow(Command("insert", h.arg.to,
                                     Duplicated(project.sections[h.arg.row])))
  <2>1. PICK s : s = Duplicated(project.sections[h.arg.row])
    OBVIOUS
  <2>2. s \in Section
    <3>1. project.sections \in Seq(Section) /\ Len(project.sections) = Count
      BY <1>2, ProjectFields DEF Count
    <3>2. h.arg.row \in 1 .. Len(project.sections)
      BY <1>2, <1>6, <1>11, <3>1
    <3>3. project.sections[h.arg.row] \in Section
      BY ONLY <3>1, <3>2, ElementOf
    <3> QED BY <1>1, <2>1, <3>3, DuplicatedSection
  <2>3. PICK to : to = h.arg.to
    OBVIOUS
  <2>4. to \in Nat /\ to \in 1 .. Count + 1
    <3>1. to \in Nat \ {0} /\ Reached(to - 1, 1)
      BY <1>5, <1>6, <1>11, <2>3
    <3>2. to - 1 <= Count
      BY <1>7, <3>1
    <3> QED BY <1>2, <3>1, <3>2
  <2>5. PICK c : c = Command("insert", to, s)
    OBVIOUS
  <2>6. /\ c \in QueuedCommands /\ c.op = "insert" /\ c.index = to /\ SubmitAndShow(c)
    <3>1. c \in QueuedCommands
      BY <2>2, <2>4, <2>5, QueuedCommandKinds
    <3>2. c.op = "insert" /\ c.index = to
      BY <2>5 DEF Command
    <3>3. SubmitAndShow(c)
      BY <1>11, <2>1, <2>3, <2>5
    <3> QED BY <3>1, <3>2, <3>3
  <2>7. /\ DocumentPart' /\ ViewPart' /\ Edits /\ batch_depth' = batch_depth
        /\ DOMAIN project'.settings = DOMAIN project.settings
        /\ Count' = Count + 1
    BY <1>1, <2>4, <2>6, SubmitAndShowStep
  <2>8. BatchInStep'
    BY <1>8, <1>11, <2>7
  <2>9. QueueInStep'
    <3>1. Count' >= Count /\ to <= Count'
      BY <1>2, <2>4, <2>7
    <3> QED BY <1>9, <2>3, <2>7, <3>1
  <2> QED BY <2>7, <2>8, <2>9, InvariantParts
<1>12. CASE h.op = "BeginBatch" /\ BeginBatch /\ UNCHANGED <<selected, current>>
  <2>1. DocumentPart' /\ Stays /\ batch_depth' = 1 /\ UNCHANGED project
    BY <1>1, <1>8, <1>12, BeginStep
  <2>2. Count' = Count /\ Rows' = Rows /\ Count' >= Count
    BY <1>2, <2>1 DEF Count, Rows
  <2>3. ViewPart' /\ BatchInStep'
    BY <1>1, <1>8, <1>12, <2>1, <2>2 DEF ViewPart
  <2>4. QueueInStep'
    BY <1>9, <1>12, <2>1, <2>2
  <2> QED BY <2>1, <2>3, <2>4, InvariantParts DEF Edits
<1>13. CASE h.op = "EndBatch" /\ EndBatch /\ UNCHANGED <<selected, current>>
  <2>1. DocumentPart' /\ Edits /\ batch_depth' = 0 /\ UNCHANGED project
    BY <1>1, <1>8, <1>13, EndStep
  <2>2. Count' = Count /\ Rows' = Rows /\ Count' >= Count
    BY <1>2, <2>1 DEF Count, Rows
  <2>3. ViewPart' /\ BatchInStep'
    BY <1>1, <1>8, <1>13, <2>1, <2>2 DEF ViewPart
  <2>4. QueueInStep'
    BY <1>9, <1>13, <2>1, <2>2
  <2> QED BY <2>1, <2>3, <2>4, InvariantParts
<1>14. CASE /\ h.op = "Select" /\ Select(h.arg.first, h.arg.rows)
            /\ UNCHANGED document_vars
  <2>1. DocumentPart' /\ Stays
    BY <1>1, <1>14, KeptDocument
  <2>2. UNCHANGED <<project, batch_depth>>
    BY <1>14 DEF document_vars
  <2>3. Count' = Count /\ Rows' = Rows /\ Count' >= Count
    BY <1>2, <2>2 DEF Count, Rows
  <2>4. h.arg.rows \subseteq Rows
    BY <1>2, <1>5, <1>6, <1>7, <1>14
  <2>5. ViewPart'
    BY <1>1, <1>14, <2>3, <2>4 DEF ViewPart, Select
  <2>6. BatchInStep'
    BY <1>8, <1>14, <2>2
  <2>7. QueueInStep'
    BY <1>9, <1>14, <2>1, <2>2, <2>3
  <2> QED BY <2>1, <2>5, <2>6, <2>7, InvariantParts DEF Edits
<1> QED BY <1>3, <1>10, <1>11, <1>12, <1>13, <1>14 DEF RunCall

-------------------------------------------------------------------------------
(* The invariant of the specification, and what follows from it.           *)
LEMMA InitialDocument ==
  ASSUME InitWithStates
  PROVE  DocumentInvariant /\ History!Init
<1>1. /\ project = NoProject /\ is_open = FALSE /\ modified = FALSE
      /\ undo_stack = <<>> /\ undo_index = 0 /\ saved_undo_index = 0
      /\ batch_depth = 0 /\ batch_commands = <<>>
      /\ selected = {} /\ current = None /\ file = NoProject /\ calls = <<>>
      /\ states = <<NoProject>>
  BY DEF InitWithStates, Init, DocumentInit
<1>2. PICK p : p = NoProject
  OBVIOUS
<1>3. PICK e : e = <<>>
  OBVIOUS
<1>4. PICK H : H = <<p>>
  OBVIOUS
<1>5. p \in Projects
  <2>1. <<>> \in Seq(Values) /\ <<>> \in Seq(Section)
    OBVIOUS
  <2> QED BY <1>2, <2>1 DEF NoProject, Projects
<1>6. /\ e \in Seq(Seq(Commands)) /\ Len(e) = 0 /\ e \in Seq(Commands)
      /\ e \in Seq(QueuedCalls) /\ DOMAIN e = {}
      /\ H \in Seq(Projects) /\ Len(H) = 1 /\ H[1] = p
  BY <1>3, <1>4, <1>5
<1>7. Done(e, p, p)
  BY <1>3, <1>5, EmptyIsDone
<1>8. DocumentTypes
  <2>1. project \in Projects /\ file \in Projects \cup {Torn}
    BY <1>1, <1>2, <1>5
  <2>2. /\ undo_index \in 0 .. Len(undo_stack)
        /\ saved_undo_index \in Unreachable .. Len(undo_stack)
    BY <1>1, <1>3, <1>6 DEF Unreachable
  <2>3. is_open \in BOOLEAN /\ modified \in BOOLEAN
    BY <1>1, Zenon
  <2>4. batch_depth \in {0, 1} /\ (batch_commands # <<>> => batch_depth = 1)
    BY <1>1
  <2> QED BY <2>1, <2>2, <2>3, <2>4 DEF DocumentTypes
<1>9. StatesInStep
  BY <1>1, <1>2, <1>3, <1>4, <1>6, <1>7 DEF StatesInStep
<1>10. SavedInStep
  BY <1>1, <1>2, <1>4, <1>6 DEF SavedInStep
<1>11. ViewPart
  BY <1>1 DEF ViewPart
<1>12. BatchInStep /\ QueueInStep
  BY <1>1, <1>3, <1>6 DEF BatchInStep, QueueInStep
<1>13. History!Init
  BY <1>1, <1>2, <1>4, <1>5, <1>6 DEF History!Init, History!Single
<1> QED BY <1>8, <1>9, <1>10, <1>11, <1>12, <1>13, InvariantParts DEF DocumentPart

LEMMA DocumentStep ==
  ASSUME DocumentInvariant, [NextWithStates]_<<vars, states>>
  PROVE  DocumentInvariant' /\ [History!Next]_History!vars
<1>1. Edits => [History!Next]_History!vars
  BY DEF Edits, Stays, History!Next, History!vars
<1>2. Stays => Edits
  BY DEF Edits
<1>3. CASE Click /\ Follow
  BY <1>1, <1>2, <1>3, ClickStep
<1>4. CASE OnAddSection /\ Follow
  BY <1>1, <1>2, <1>4, AddStep
<1>5. CASE OnRemove /\ Follow
  BY <1>1, <1>2, <1>5, RemoveStep
<1>6. CASE OnDuplicate /\ Follow
  BY <1>1, <1>2, <1>6, DuplicateStep
<1>7. CASE (OnMoveUp \/ OnMoveDown) /\ Follow
  BY <1>1, <1>2, <1>7, MoveStep
<1>8. CASE CommitSection /\ Follow
  BY <1>1, <1>2, <1>8, CommitStep
<1>9. CASE OnEditProject /\ Follow
  BY <1>1, <1>2, <1>9, SettingsStep
<1>10. CASE SaveToPath /\ Follow
  BY <1>1, <1>2, <1>10, SaveStep
<1>11. CASE LoadProject /\ Follow
  BY <1>11, LoadStep DEF History!Next
<1>12. CASE UndoAction /\ Follow
  BY <1>12, UndoActionStep DEF History!Next
<1>13. CASE RedoAction /\ Follow
  BY <1>13, RedoActionStep DEF History!Next
<1>14. CASE RunCall /\ Follow
  BY <1>1, <1>14, RunStep
<1>15. CASE UNCHANGED <<vars, states>>
  <2>1. /\ UNCHANGED <<project, is_open, modified, undo_stack, undo_index>>
        /\ UNCHANGED <<saved_undo_index, batch_depth, batch_commands>>
        /\ UNCHANGED <<selected, current, file, calls, states>>
    BY <1>15 DEF vars, document_vars
  <2>2. TypeOK'
    BY <2>1 DEF DocumentInvariant, TypeOK, Rows, Count
  <2>3. StatesInStep' /\ SavedInStep'
    BY <2>1 DEF DocumentInvariant, StatesInStep, SavedInStep
  <2>4. BatchInStep'
    BY <2>1 DEF DocumentInvariant, BatchInStep, NoBatch
  <2>5. QueueInStep'
    BY <2>1 DEF DocumentInvariant, QueueInStep, Reached, Rows, Count
  <2>6. UNCHANGED History!vars
    BY <2>1 DEF History!vars
  <2> QED BY <2>2, <2>3, <2>4, <2>5, <2>6 DEF DocumentInvariant
<1> QED BY <1>3, <1>4, <1>5, <1>6, <1>7, <1>8, <1>9, <1>10, <1>11, <1>12, <1>13,
           <1>14, <1>15 DEF NextWithStates

(***************************************************************************)
(* At any moment the undo entries lead back and forth between the projects *)
(* the document has had, the saved position is that of the file, and the   *)
(* queued calls of a handler name rows that will be there.                 *)
(***************************************************************************)
THEOREM DocumentInStep == SpecWithStates => []DocumentInvariant
<1>1. InitWithStates => DocumentInvariant
  BY InitialDocument
<1>2. DocumentInvariant /\ [NextWithStates]_<<vars, states>> => DocumentInvariant'
  BY DocumentStep
<1> QED BY <1>1, <1>2, PTL DEF SpecWithStates

LEMMA InStepIsConsistent ==
  ASSUME DocumentInvariant
  PROVE  DocumentConsistent
<1>1. DocumentPart /\ TypeOK
  BY InvariantParts DEF DocumentInvariant
<1>2. ASSUME ~modified, file # Torn
      PROVE  project = file
  <2>1. undo_index = saved_undo_index /\ batch_commands = <<>>
    BY <1>1, <1>2 DEF DocumentPart, SavedInStep
  <2>2. saved_undo_index # Unreachable
    BY <1>1, <2>1 DEF TypeOK, Unreachable
  <2>3. states[saved_undo_index + 1] = file
    BY <1>1, <1>2, <2>2 DEF DocumentPart, SavedInStep
  <2> QED BY <1>1, <2>1, <2>3, PresentState
<1> QED BY <1>1, <1>2 DEF DocumentConsistent, CleanMeansSaved

(***************************************************************************)
(* The selection and the current row never outlive the rows they name, and *)
(* a project that is not marked modified is the one in its file, whatever  *)
(* was undone, redone, batched or edited over since the save.              *)
(***************************************************************************)
THEOREM DocumentStaysConsistent == SpecWithStates => []DocumentConsistent
<1>1. DocumentInvariant => DocumentConsistent
  BY InStepIsConsistent
<1> QED BY <1>1, DocumentInStep, PTL

(***************************************************************************)
(* The document with its undo stack implements EditHistory: undo and redo  *)
(* restore exactly the projects that were, after any number of edits,      *)
(* batches, undos and redos.                                               *)
(***************************************************************************)
THEOREM UndoImplementsHistory == SpecWithStates => UndoIsExact
<1>1. InitWithStates => History!Init
  BY InitialDocument
<1>2. DocumentInvariant /\ [NextWithStates]_<<vars, states>>
        => [History!Next]_History!vars
  BY DocumentStep
<1> QED BY <1>1, <1>2, DocumentInStep, PTL DEF SpecWithStates, UndoIsExact, History!Spec

-------------------------------------------------------------------------------
(* Rows in order.  f lists the rows of a set K from the lowest to the highest. *)
InOrder(f, m, K) ==
  /\ f \in [1 .. m -> K]
  /\ \A i, j \in 1 .. m : i < j => f[i] < f[j]
  /\ \A r \in K : \E i \in 1 .. m : f[i] = r

LEMMA OrderCounts ==
  ASSUME NEW n \in Nat, NEW K \in SUBSET (1 .. n), NEW m \in Nat, NEW f,
         InOrder(f, m, K)
  PROVE  /\ Cardinality(K) = m
         /\ \A i \in 1 .. m : Cardinality({q \in K : q <= f[i]}) = i
<1>1. /\ f \in [1 .. m -> K] /\ K \subseteq Nat
      /\ \A i, j \in 1 .. m : i < j => f[i] < f[j]
      /\ \A r \in K : \E i \in 1 .. m : f[i] = r
  BY DEF InOrder
<1>2. ASSUME NEW k \in 0 .. m, NEW L, L = {f[i] : i \in 1 .. k}
      PROVE  Cardinality(L) = k
  <2>1. PICK g : g = [i \in 1 .. k |-> f[i]]
    OBVIOUS
  <2>2. \A i \in 1 .. k : i \in 1 .. m
    OBVIOUS
  <2>3. g \in [1 .. k -> L] /\ \A x \in L : \E i \in 1 .. k : g[i] = x
    BY <1>2, <2>1
  <2>4. ASSUME NEW i \in 1 .. k, NEW j \in 1 .. k, g[i] = g[j] PROVE i = j
    <3>1. f[i] = f[j] /\ f[i] \in Nat /\ f[j] \in Nat
      BY <1>1, <2>1, <2>2, <2>4
    <3>2. ~(i < j) /\ ~(j < i)
      BY <1>1, <2>2, <3>1
    <3> QED BY <3>2
  <2>5. g \in Bijection(1 .. k, L)
    BY <2>3, <2>4 DEF Bijection, Injection, Surjection, IsInjective
  <2>6. IsFiniteSet(1 .. k) /\ Cardinality(1 .. k) = k
    BY FS_Interval
  <2>7. ExistsBijection(1 .. k, L)
    BY <2>5 DEF ExistsBijection
  <2>8. Cardinality(1 .. k) = Cardinality(L)
    BY <2>6, <2>7, FS_Bijection
  <2> QED BY <2>6, <2>8
<1>3. Cardinality(K) = m
  <2>1. K = {f[i] : i \in 1 .. m}
    BY <1>1
  <2>2. m \in 0 .. m
    OBVIOUS
  <2> QED BY <1>2, <2>1, <2>2
<1>4. ASSUME NEW i \in 1 .. m
      PROVE  {q \in K : q <= f[i]} = {f[j] : j \in 1 .. i}
  <2>1. ASSUME NEW q \in K, q <= f[i] PROVE \E j \in 1 .. i : q = f[j]
    <3>1. PICK j \in 1 .. m : f[j] = q
      BY <1>1
    <3>a. q \in Nat /\ f[i] \in Nat
      BY <1>1
    <3>2. ~(f[i] < f[j])
      BY <2>1, <3>1, <3>a
    <3>3. ~(i < j)
      BY <1>1, <3>2
    <3> QED BY <3>1, <3>3
  <2>2. ASSUME NEW j \in 1 .. i PROVE f[j] \in K /\ f[j] <= f[i]
    <3>1. j \in 1 .. m /\ (j < i \/ j = i)
      OBVIOUS
    <3>2. f[j] \in K /\ f[i] \in K /\ f[j] \in Nat /\ f[i] \in Nat
      BY <1>1, <3>1
    <3> QED BY <1>1, <3>1, <3>2
  <2> QED BY <2>1, <2>2
<1>5. ASSUME NEW i \in 1 .. m PROVE Cardinality({q \in K : q <= f[i]}) = i
  <2>1. i \in 0 .. m
    OBVIOUS
  <2> QED BY <1>2, <1>4, <2>1
<1> QED BY <1>3, <1>5

(* Sorted is the only such list.                                           *)
LEMMA SortedIs ==
  ASSUME NEW n \in Nat, NEW K \in SUBSET (1 .. n), NEW m \in Nat, NEW f,
         InOrder(f, m, K)
  PROVE  Sorted(K) = f
<1>1. /\ Cardinality(K) = m /\ f \in [1 .. m -> K]
      /\ \A i \in 1 .. m : Cardinality({q \in K : q <= f[i]}) = i
      /\ \A r \in K : \E i \in 1 .. m : f[i] = r
  <2>1. /\ Cardinality(K) = m
        /\ \A i \in 1 .. m : Cardinality({q \in K : q <= f[i]}) = i
    BY OrderCounts
  <2> QED BY <2>1 DEF InOrder
<1>2. ASSUME NEW k \in 1 .. m
      PROVE  (CHOOSE r \in K : Cardinality({q \in K : q <= r}) = k) = f[k]
  <2>1. ASSUME NEW r \in K, Cardinality({q \in K : q <= r}) = k PROVE r = f[k]
    <3>1. PICK i \in 1 .. m : f[i] = r
      BY <1>1
    <3>2. Cardinality({q \in K : q <= r}) = i
      BY <1>1, <3>1
    <3> QED BY <2>1, <3>1, <3>2
  <2>2. f[k] \in K /\ Cardinality({q \in K : q <= f[k]}) = k
    BY <1>1
  <2> QED BY <2>1, <2>2
<1>3. Sorted(K) = [k \in 1 .. m |-> f[k]]
  BY <1>1, <1>2 DEF Sorted
<1> QED BY <1>1, <1>3

LEMMA SortedInOrder ==
  ASSUME NEW n \in Nat, NEW K \in SUBSET (1 .. n)
  PROVE  Cardinality(K) \in Nat /\ InOrder(Sorted(K), Cardinality(K), K)
<1> DEFINE Rank(r) == Cardinality({q \in K : q <= r})
<1>1. PICK c, f : c = Cardinality(K) /\ f = Sorted(K)
  OBVIOUS
<1>2. IsFiniteSet(K) /\ c \in Nat
  <2>1. IsFiniteSet(1 .. n)
    BY FS_Interval
  <2>2. IsFiniteSet(K)
    BY <2>1, FS_Subset
  <2> QED BY <1>1, <2>2, FS_CardinalityType
<1>3. f = [k \in 1 .. c |-> CHOOSE r \in K : Rank(r) = k]
  BY <1>1 DEF Sorted
<1>4. ASSUME NEW k \in 1 .. c PROVE f[k] \in K /\ Rank(f[k]) = k
  <2>1. \E r \in K : Rank(r) = k
    BY <1>1, SortedRanks
  <2> QED BY <1>3, <2>1
<1>5. \A r, s \in K : r < s => Rank(r) \in Nat /\ Rank(s) \in Nat /\ Rank(r) < Rank(s)
  <2> TAKE r, s \in K
  <2>0. HAVE r < s
  <2>1. PICK a, b : a = {q \in K : q <= r} /\ b = {q \in K : q <= s}
    OBVIOUS
  <2>2. r \in Nat /\ s \in Nat /\ K \subseteq Nat
    OBVIOUS
  <2>3. a \in SUBSET b /\ b \in SUBSET K /\ s \in b /\ s \notin a
    <3>1. \A q \in K : q <= r => q <= s
      BY <2>0, <2>2
    <3>2. s <= s /\ ~(s <= r)
      BY <2>0, <2>2
    <3> QED BY <2>1, <3>1, <3>2
  <2>4. IsFiniteSet(b)
    BY <1>2, <2>3, FS_Subset
  <2>5. /\ IsFiniteSet(a) /\ Cardinality(a) <= Cardinality(b)
        /\ Cardinality(a) = Cardinality(b) => a = b
    BY <2>3, <2>4, FS_Subset, Zenon
  <2>6. Cardinality(a) \in Nat /\ Cardinality(b) \in Nat
    BY <2>4, <2>5, FS_CardinalityType
  <2>7. Cardinality(a) < Cardinality(b)
    BY <2>3, <2>5, <2>6
  <2> QED BY <2>1, <2>6, <2>7
<1> HIDE DEF Rank
<1>6. ASSUME NEW i \in 1 .. c, NEW j \in 1 .. c, i < j PROVE f[i] < f[j]
  <2>1. f[i] \in K /\ f[j] \in K /\ Rank(f[i]) = i /\ Rank(f[j]) = j
    BY <1>4
  <2>2. f[i] \in Nat /\ f[j] \in Nat
    <3>1. K \subseteq Nat
      OBVIOUS
    <3> QED BY <2>1, <3>1
  <2>3. ~(f[j] < f[i])
    <3>1. f[j] < f[i] => Rank(f[j]) < Rank(f[i])
      BY <1>5, <2>1
    <3> QED BY <1>6, <2>1, <3>1
  <2>4. f[i] # f[j]
    BY <1>6, <2>1
  <2> QED BY <2>2, <2>3, <2>4
<1>7. ASSUME NEW r \in K PROVE \E i \in 1 .. c : f[i] = r
  <2>1. PICK a : a = {q \in K : q <= r}
    OBVIOUS
  <2>2. a \in SUBSET K /\ r \in a
    BY <2>1
  <2>3. IsFiniteSet(a) /\ Cardinality(a) <= c
    BY <1>1, <1>2, <2>2, FS_Subset
  <2>4. Cardinality(a) \in Nat /\ Cardinality(a) # 0
    BY <2>2, <2>3, FS_CardinalityType, FS_EmptySet
  <2>5. PICK k : k = Rank(r)
    OBVIOUS
  <2>6. k \in 1 .. c
    BY <1>2, <2>1, <2>3, <2>4, <2>5 DEF Rank
  <2>7. f[k] \in K /\ Rank(f[k]) = Rank(r)
    BY <1>4, <2>5, <2>6
  <2>8. f[k] \in Nat /\ r \in Nat
    <3>1. K \subseteq Nat
      OBVIOUS
    <3> QED BY <2>7, <3>1
  <2>9. ~(f[k] < r) /\ ~(r < f[k])
    <3>1. /\ f[k] < r => Rank(f[k]) \in Nat /\ Rank(r) \in Nat /\ Rank(f[k]) < Rank(r)
          /\ r < f[k] => Rank(f[k]) \in Nat /\ Rank(r) \in Nat /\ Rank(r) < Rank(f[k])
      BY <1>5, <2>7
    <3> QED BY <2>7, <3>1
  <2> QED BY <2>6, <2>8, <2>9
<1>8. f \in [1 .. c -> K]
  BY <1>3, <1>4
<1> QED BY <1>1, <1>2, <1>6, <1>7, <1>8 DEF InOrder

-------------------------------------------------------------------------------
(* What the calls of a handler leave.                                      *)
LEMMA UpTo ==
  ASSUME NEW n \in Nat, NEW S \in SUBSET (0 .. n), 0 \in S,
         \A k \in 1 .. n : k - 1 \in S => k \in S
  PROVE  S = 0 .. n
<1>1. SUFFICES ASSUME (0 .. n) \ S # {}
               PROVE  FALSE
  OBVIOUS
<1>2. PICK T : T = (0 .. n) \ S
  OBVIOUS
<1>3. T \in SUBSET Nat /\ T # {}
  BY <1>1, <1>2
<1>4. PICK k \in T : \A j \in T : k <= j
  BY <1>3, SmallestOf
<1>5. k \in 1 .. n /\ k \notin S
  BY <1>2, <1>4
<1>6. k - 1 \in 0 .. n /\ ~(k <= k - 1)
  BY <1>5
<1>7. k - 1 \in S
  BY <1>2, <1>4, <1>6
<1> QED BY <1>5, <1>7

(* The projects that calls made one after the other lead to from p.        *)
MadeAlong(cs, p, n, h) ==
  h = [k \in 0 .. n |-> IF k = 0 THEN p ELSE Made(cs[k], h[k - 1])]

LEMMA AlongCalls ==
  ASSUME NEW cs, NEW p, NEW n \in Nat
  PROVE  \E h : MadeAlong(cs, p, n, h)
<1>1. PICK S : S = {m \in 0 .. n : \E h : MadeAlong(cs, p, m, h)}
  OBVIOUS
<1>2. 0 \in S
  <2>1. PICK h : h = [k \in 0 .. 0 |-> p]
    OBVIOUS
  <2>2. h = [k \in 0 .. 0 |-> IF k = 0 THEN p ELSE Made(cs[k], h[k - 1])]
    BY <2>1
  <2> QED BY <1>1, <2>2 DEF MadeAlong
<1>3. ASSUME NEW m \in 1 .. n, m - 1 \in S
      PROVE  m \in S
  <2>1. PICK h : MadeAlong(cs, p, m - 1, h)
    BY <1>1, <1>3
  <2>2. PICK v : v = Made(cs[m], h[m - 1])
    OBVIOUS
  <2>3. PICK g : g = [k \in 0 .. m |-> IF k = m THEN v ELSE h[k]]
    OBVIOUS
  <2>4. ASSUME NEW k \in 0 .. m
        PROVE  g[k] = IF k = 0 THEN p ELSE Made(cs[k], g[k - 1])
    <3>1. CASE k = m
      <4>1. m - 1 \in 0 .. m /\ m - 1 # m /\ m # 0
        OBVIOUS
      <4>2. g[k] = v /\ g[k - 1] = h[m - 1]
        BY <2>3, <3>1, <4>1
      <4> QED BY <2>2, <3>1, <4>1, <4>2
    <3>2. CASE k # m
      <4>1. k \in 0 .. m - 1 /\ (k # 0 => k - 1 \in 0 .. m /\ k - 1 # m)
        BY <3>2
      <4>2. g[k] = h[k] /\ (k # 0 => g[k - 1] = h[k - 1])
        BY <2>3, <3>2, <4>1
      <4>3. h[k] = IF k = 0 THEN p ELSE Made(cs[k], h[k - 1])
        BY <2>1, <4>1 DEF MadeAlong
      <4> QED BY <4>2, <4>3
    <3> QED BY <3>1, <3>2
  <2>5. g = [k \in 0 .. m |-> g[k]]
    BY <2>3
  <2>6. g = [k \in 0 .. m |-> IF k = 0 THEN p ELSE Made(cs[k], g[k - 1])]
    BY <2>4, <2>5
  <2>7. MadeAlong(cs, p, m, g)
    BY <2>6 DEF MadeAlong
  <2> QED BY <1>1, <2>7
<1>4. S = 0 .. n
  BY <1>1, <1>2, <1>3, UpTo
<1> QED BY <1>1, <1>4

LEMMA OnlyAfter ==
  ASSUME NEW cs, Len(cs) \in Nat, NEW f, MadeAlong(cs, project, Len(cs), f)
  PROVE  After(cs) = f[Len(cs)]
<1> DEFINE g == CHOOSE after : after = [k \in 0 .. Len(cs) |->
                  IF k = 0 THEN project ELSE Made(cs[k], after[k - 1])]
<1>1. g = [k \in 0 .. Len(cs) |->
             IF k = 0 THEN project ELSE Made(cs[k], g[k - 1])]
  BY DEF MadeAlong
<1>2. After(cs) = g[Len(cs)]
  BY DEF After
<1> HIDE DEF g
<1>3. PICK n : n = Len(cs)
  OBVIOUS
<1>4. n \in Nat
  BY <1>3
<1>5. PICK S : S = {k \in 0 .. n : g[k] = f[k]}
  OBVIOUS
<1>6. 0 \in S
  <2>1. g[0] = project /\ f[0] = project
    <3>1. 0 \in 0 .. Len(cs)
      BY <1>3, <1>4
    <3> QED BY <1>1, <3>1 DEF MadeAlong
  <2> QED BY <1>4, <1>5, <2>1
<1>7. ASSUME NEW k \in 1 .. n, k - 1 \in S
      PROVE  k \in S
  <2>1. g[k] = Made(cs[k], g[k - 1]) /\ f[k] = Made(cs[k], f[k - 1])
    <3>1. k \in 0 .. Len(cs) /\ k # 0
      BY <1>3, <1>4
    <3> QED BY <1>1, <3>1 DEF MadeAlong
  <2>2. g[k - 1] = f[k - 1]
    BY <1>5, <1>7
  <2>3. g[k] = f[k]
    BY <2>1, <2>2
  <2> QED BY <1>4, <1>5, <2>3
<1>8. n \in S
  <2>1. S = 0 .. n
    BY <1>4, <1>5, <1>6, <1>7, UpTo
  <2> QED BY <1>4, <2>1
<1> QED BY <1>2, <1>3, <1>5, <1>8

(* Calls that submit nothing, those of the batch among them, change nothing.*)
LEMMA LaidAfter ==
  ASSUME NEW off \in {0, 1}, NEW cs \in Seq(QueuedCalls),
         NEW tail \in Seq(QueuedCalls), NEW b, Laid(b, off, cs, tail),
         \A i \in 1 .. Len(tail) : tail[i].op # "Submit",
         NEW h, MadeAlong(cs, project, Len(cs), h)
  PROVE  After(b) = h[Len(cs)]
<1>1. PICK n : n = Len(cs)
  OBVIOUS
<1>2. PICK m : m = Len(tail)
  OBVIOUS
<1>3. PICK l : l = n + 2 * off + m
  OBVIOUS
<1>4. n \in Nat /\ m \in Nat /\ l \in Nat /\ Len(b) = l /\ off \in Nat
  BY <1>1, <1>2, <1>3 DEF Laid
<1> DEFINE At0(k) == IF k <= off THEN 0 ELSE IF k <= off + n THEN k - off ELSE n
<1>5. PICK f : f = [k \in 0 .. l |-> h[At0(k)]]
  OBVIOUS
<1>6. h[0] = project /\ \A k \in 1 .. n : h[k] = Made(cs[k], h[k - 1])
  <2>1. 0 \in 0 .. n /\ \A k \in 1 .. n : k \in 0 .. n /\ k # 0
    BY <1>4
  <2>2. h = [k \in 0 .. n |-> IF k = 0 THEN project ELSE Made(cs[k], h[k - 1])]
    BY <1>1 DEF MadeAlong
  <2> QED BY <2>1, <2>2
<1>7. ASSUME NEW k \in 1 .. l PROVE f[k] = Made(b[k], f[k - 1])
  <2>1. k \in 0 .. l /\ k - 1 \in 0 .. l
    BY <1>4
  <2>2. f[k] = h[At0(k)] /\ f[k - 1] = h[At0(k - 1)]
    BY <1>5, <2>1
  <2>3. CASE k \in off + 1 .. off + n
    <3>1. PICK i : i = k - off
      OBVIOUS
    <3>2. i \in 1 .. n /\ off + i = k
      BY <1>4, <2>3, <3>1
    <3>3. b[k] = cs[i]
      BY <1>1, <3>2 DEF Laid
    <3>4. At0(k) = i /\ At0(k - 1) = i - 1
      BY <1>4, <2>3, <3>1
    <3> QED BY <1>6, <2>2, <3>2, <3>3, <3>4
  <2>4. CASE ~(k \in off + 1 .. off + n)
    <3>1. b[k].op # "Submit"
      <4>1. CASE off = 1 /\ k = 1
        BY <4>1, CallFields DEF Laid
      <4>2. CASE off = 1 /\ k = n + 2
        BY <1>1, <4>2, CallFields DEF Laid
      <4>3. CASE k > n + 2 * off
        <5>1. PICK i : i = k - (n + 2 * off)
          OBVIOUS
        <5>2. i \in 1 .. m /\ n + 2 * off + i = k
          BY <1>3, <1>4, <4>3, <5>1
        <5>3. b[k] = tail[i]
          BY <1>1, <1>2, <5>2 DEF Laid
        <5> QED BY <1>2, <5>2, <5>3
      <4>4. off = 1 \/ off = 0
        OBVIOUS
      <4>5. off = 1 => k = 1 \/ k = n + 2 \/ k > n + 2 * off
        BY <1>4, <2>4
      <4>6. off = 0 => k > n + 2 * off
        BY <1>4, <2>4
      <4> QED BY <4>1, <4>2, <4>3, <4>4, <4>5, <4>6
    <3>2. At0(k) = At0(k - 1)
      BY <1>4, <2>4
    <3> QED BY <2>2, <3>1, <3>2 DEF Made
  <2> QED BY <2>3, <2>4
<1>8. f[0] = project
  <2>1. 0 \in 0 .. l /\ At0(0) = 0
    BY <1>4
  <2> QED BY <1>5, <1>6, <2>1
<1>9. MadeAlong(b, project, Len(b), f)
  <2>1. f = [k \in 0 .. l |-> f[k]]
    BY <1>5
  <2>2. \A k \in 0 .. l : k # 0 => k \in 1 .. l
    BY <1>4
  <2>3. f = [k \in 0 .. l |-> IF k = 0 THEN project ELSE Made(b[k], f[k - 1])]
    BY <1>7, <1>8, <2>1, <2>2
  <2> QED BY <1>4, <2>3 DEF MadeAlong
<1>10. After(b) = f[l]
  BY <1>4, <1>9, OnlyAfter
<1>11. f[l] = h[n]
  <2>1. l \in 0 .. l /\ At0(l) = n
    BY <1>3, <1>4
  <2> QED BY <1>5, <2>1
<1> QED BY <1>1, <1>10, <1>11

LEMMA MadeRemoval ==
  ASSUME NEW p \in Projects, NEW r \in 1 .. Len(p.sections), NEW c,
         c = Do(Command("remove", r, None))
  PROVE  /\ Made(c, p) \in Projects
         /\ Made(c, p).sections = RemoveAt(p.sections, r)
<1>1. PICK k : k = Command("remove", r, None)
  OBVIOUS
<1>2. k.op = "remove" /\ k.index = r
  BY <1>1, CommandFields
<1>3. c.op = "Submit" /\ c.arg = k
  BY <1>1, CallFields DEF Do
<1>4. r \in DOMAIN p.sections
  BY ProjectFields
<1>5. Apply(k, p).project = Erased(p, r)
  BY <1>2, OutcomeFields DEF Apply
<1>6. Made(c, p) = Erased(p, r)
  BY <1>2, <1>3, <1>4, <1>5 DEF Made
<1>7. RemoveAt(p.sections, r) \in Seq(Section)
  BY ProjectFields, RemoveAtSeq
<1> QED BY <1>6, <1>7, SectionsReplaced DEF Erased

LEMMA MadeMove ==
  ASSUME NEW p \in Projects, NEW r \in 1 .. Len(p.sections),
         NEW q \in 1 .. Len(p.sections), NEW c, c = Do(Command("move", r, q))
  PROVE  /\ Made(c, p) \in Projects
         /\ Made(c, p).sections = InsertAt(RemoveAt(p.sections, r), q, p.sections[r])
<1>1. PICK k : k = Command("move", r, q)
  OBVIOUS
<1>2. k.op = "move" /\ k.index = r /\ k.value = q
  BY <1>1, CommandFields
<1>3. c.op = "Submit" /\ c.arg = k
  BY <1>1, CallFields DEF Do
<1>4. r \in DOMAIN p.sections
  BY ProjectFields
<1>5. Apply(k, p).project = Moved(p, r, q)
  BY <1>2, OutcomeFields DEF Apply
<1>6. Made(c, p) = Moved(p, r, q)
  BY <1>2, <1>3, <1>4, <1>5 DEF Made
<1>7. PICK u : u = RemoveAt(p.sections, r)
  OBVIOUS
<1>8. /\ u \in Seq(Section) /\ Len(u) = Len(p.sections) - 1
      /\ p.sections[r] \in Section /\ p.sections \in Seq(Section)
  <2>1. PICK s : s = p.sections
    OBVIOUS
  <2>2. s \in Seq(Section) /\ r \in 1 .. Len(s)
    BY <2>1, ProjectFields
  <2>3. RemoveAt(s, r) \in Seq(Section) /\ Len(RemoveAt(s, r)) = Len(s) - 1
    BY ONLY <2>2, RemoveAtSeq
  <2> QED BY <1>7, <2>1, <2>2, <2>3
<1>9. PICK t : t = InsertAt(u, q, p.sections[r])
  OBVIOUS
<1>10. t \in Seq(Section)
  <2>1. q \in 1 .. Len(u) + 1
    BY <1>8
  <2> QED BY ONLY <1>8, <1>9, <2>1, InsertAtSeq
<1>11. PICK g : g = Erased(p, r)
  OBVIOUS
<1>12. g \in Projects /\ g.sections = u
  BY <1>7, <1>8, <1>11, SectionsReplaced DEF Erased
<1>13. Moved(p, r, q) = WithSections(g, t)
  BY <1>9, <1>11, <1>12 DEF Moved, Inserted
<1>14. Moved(p, r, q) \in Projects /\ Moved(p, r, q).sections = t
  BY <1>10, <1>12, <1>13, SectionsReplaced
<1> QED BY <1>6, <1>7, <1>9, <1>14

-------------------------------------------------------------------------------
(* Rows that moved together.  e takes the rows R, in their order, to those of A. *)
Onto(e, R, A) ==
  /\ \A r \in R : e[r] \in A
  /\ \A q, r \in R : q < r => e[q] < e[r]
  /\ \A a \in A : \E r \in R : e[r] = a

AmongFirst(n, K) == n \in Nat /\ K \subseteq 1 .. n

LEMMA AtAlong ==
  ASSUME NEW n, NEW l, NEW R, NEW A, AmongFirst(l, R), AmongFirst(n, A),
         NEW e, Onto(e, R, A), NEW p, NEW q,
         \A r \in R : q.sections[r] = p.sections[e[r]]
  PROVE  At(q, R) = At(p, A)
<1>0. n \in Nat /\ l \in Nat /\ R \in SUBSET (1 .. l) /\ A \in SUBSET (1 .. n)
  BY DEF AmongFirst
<1>1. PICK f, m : f = Sorted(R) /\ m = Cardinality(R)
  OBVIOUS
<1>2. m \in Nat /\ InOrder(f, m, R)
  BY <1>0, <1>1, SortedInOrder
<1>3. /\ f \in [1 .. m -> R] /\ \A i, j \in 1 .. m : i < j => f[i] < f[j]
      /\ \A r \in R : \E i \in 1 .. m : f[i] = r
  BY <1>2 DEF InOrder
<1>4. PICK g : g = [i \in 1 .. m |-> e[f[i]]]
  OBVIOUS
<1>5. /\ g \in [1 .. m -> A] /\ \A i, j \in 1 .. m : i < j => g[i] < g[j]
  BY <1>3, <1>4 DEF Onto
<1>6. ASSUME NEW a \in A PROVE \E i \in 1 .. m : g[i] = a
  <2>1. PICK r \in R : e[r] = a
    BY DEF Onto
  <2>2. PICK i \in 1 .. m : f[i] = r
    BY <1>3
  <2> QED BY <1>4, <2>1, <2>2
<1>7. Sorted(A) = g
  <2>1. InOrder(g, m, A)
    BY <1>5, <1>6 DEF InOrder
  <2> QED BY <1>0, <1>2, <2>1, SortedIs
<1>8. At(q, R) = [k \in 1 .. m |-> q.sections[f[k]]]
  BY <1>1, <1>3 DEF At
<1>9. At(p, A) = [k \in 1 .. m |-> p.sections[g[k]]]
  BY <1>5, <1>7 DEF At
<1>10. \A k \in 1 .. m : q.sections[f[k]] = p.sections[g[k]]
  BY <1>3, <1>4
<1> QED BY <1>8, <1>9, <1>10

(***************************************************************************)
(* Removing from the highest row down: the rows below the last one removed *)
(* are still where they were.                                              *)
(***************************************************************************)
Below(n, A, b) == {r \in 1 .. n : r \in A => r < b}
Removed(s, A, b, t) ==
  /\ t \in Seq(Section) /\ b - 1 <= Len(t)
  /\ \E e \in [1 .. Len(t) -> 1 .. Len(s)] :
       /\ Onto(e, 1 .. Len(t), Below(Len(s), A, b))
       /\ \A j \in 1 .. b - 1 : e[j] = j
       /\ \A j \in 1 .. Len(t) : t[j] = s[e[j]]

LEMMA OneMoreRemoved ==
  ASSUME NEW s \in Seq(Section), NEW A \in SUBSET (1 .. Len(s)), NEW b \in Nat,
         NEW t, Removed(s, A, b, t), NEW r \in A, r < b,
         \A q \in A : q < b => q <= r
  PROVE  r \in 1 .. Len(t) /\ Removed(s, A, r, RemoveAt(t, r))
<1>1. PICK n, l : n = Len(s) /\ l = Len(t)
  OBVIOUS
<1>2. /\ n \in Nat /\ l \in Nat /\ b - 1 <= l /\ t \in Seq(Section)
      /\ r \in Nat /\ 1 <= r /\ r <= n
  BY <1>1 DEF Removed
<1>3. PICK e \in [1 .. l -> 1 .. n] :
        /\ Onto(e, 1 .. l, Below(n, A, b))
        /\ \A j \in 1 .. b - 1 : e[j] = j
        /\ \A j \in 1 .. l : t[j] = s[e[j]]
  BY <1>1 DEF Removed
<1>4. r \in 1 .. l /\ r \in 1 .. b - 1 /\ e[r] = r
  BY <1>2, <1>3
<1>5. PICK u : u = RemoveAt(t, r)
  OBVIOUS
<1>6. /\ u \in Seq(Section) /\ Len(u) = l - 1
      /\ \A k \in 1 .. r - 1 : u[k] = t[k]
      /\ \A k \in r .. l - 1 : u[k] = t[k + 1]
  <2>1. t \in Seq(Section) /\ r \in 1 .. Len(t)
    BY <1>1, <1>2, <1>4
  <2> QED BY ONLY <1>1, <1>5, <2>1, RemoveAtSeq
<1>7. PICK d : d = [j \in 1 .. l - 1 |-> IF j < r THEN e[j] ELSE e[j + 1]]
  OBVIOUS
<1>8. \A j \in 1 .. l : e[j] \in 1 .. n /\ (e[j] \in A => e[j] < b)
  BY <1>3 DEF Onto, Below
<1>9. \A i, j \in 1 .. l : i < j => e[i] < e[j]
  BY <1>3 DEF Onto
<1>10. ASSUME NEW j \in 1 .. l - 1
       PROVE  /\ \E i \in 1 .. l : i # r /\ d[j] = e[i] /\ u[j] = t[i]
              /\ j < r => d[j] = e[j]
              /\ r <= j => j + 1 \in 1 .. l /\ d[j] = e[j + 1]
  <2>1. CASE j < r
    <3>1. j \in 1 .. l /\ j \in 1 .. r - 1 /\ j # r /\ ~(r <= j)
      BY <1>2, <2>1
    <3> QED BY <1>6, <1>7, <2>1, <3>1
  <2>2. CASE ~(j < r)
    <3>1. j + 1 \in 1 .. l /\ j \in r .. l - 1 /\ j + 1 # r
      BY <1>2, <2>2
    <3> QED BY <1>6, <1>7, <2>2, <3>1
  <2> QED BY <2>1, <2>2
<1>11. ASSUME NEW j \in 1 .. l - 1 PROVE d[j] \in Below(n, A, r) /\ u[j] = s[d[j]]
  <2>1. PICK i \in 1 .. l : i # r /\ d[j] = e[i] /\ u[j] = t[i]
    BY <1>10
  <2>2. u[j] = s[d[j]]
    BY <1>3, <2>1
  <2>3. e[i] \in 1 .. n /\ (e[i] \in A => e[i] < b)
    BY <1>8
  <2>4. e[i] # r
    <3>1. i < r \/ r < i
      BY <2>1, <1>4
    <3>2. e[i] < e[r] \/ e[r] < e[i]
      BY <1>4, <1>9, <3>1
    <3> QED BY <1>2, <1>4, <2>3, <3>2
  <2>5. e[i] \in A => e[i] < r
    <3>1. e[i] \in A => e[i] <= r
      BY <2>3
    <3> QED BY <1>2, <2>3, <2>4, <3>1
  <2> QED BY <2>1, <2>2, <2>3, <2>5 DEF Below
<1>12. ASSUME NEW i \in 1 .. l - 1, NEW j \in 1 .. l - 1, i < j PROVE d[i] < d[j]
  <2>0. l \in Nat /\ r \in Nat
    BY <1>2
  <2>1. CASE j < r
    <3>1. i \in 1 .. l /\ j \in 1 .. l /\ i < r
      BY <1>12, <2>0, <2>1
    <3> QED BY <1>9, <1>10, <1>12, <2>1, <3>1
  <2>2. CASE r <= i
    <3>1. i + 1 \in 1 .. l /\ j + 1 \in 1 .. l /\ i + 1 < j + 1 /\ r <= j
      BY <1>12, <2>0, <2>2
    <3> QED BY <1>9, <1>10, <2>2, <3>1
  <2>3. CASE i < r /\ r <= j
    <3>1. i \in 1 .. l /\ j + 1 \in 1 .. l /\ i < j + 1
      BY <1>12, <2>0, <2>3
    <3> QED BY <1>9, <1>10, <2>3, <3>1
  <2> QED BY <2>0, <2>1, <2>2, <2>3
<1>13. ASSUME NEW a \in Below(n, A, r) PROVE \E j \in 1 .. l - 1 : d[j] = a
  <2>1. a \in 1 .. n /\ a # r /\ a \in Below(n, A, b)
    BY <1>2 DEF Below
  <2>2. PICK i \in 1 .. l : e[i] = a
    BY <1>3, <2>1 DEF Onto
  <2>3. i # r
    BY <1>4, <2>1, <2>2
  <2>4. CASE i < r
    <3>0. l \in Nat /\ r \in 1 .. l
      BY <1>2, <1>4
    <3>1. i \in 1 .. l - 1
      BY <2>4, <3>0
    <3> QED BY <1>10, <2>2, <2>4, <3>1
  <2>5. CASE r < i
    <3>0. l \in Nat /\ r \in 1 .. l
      BY <1>2, <1>4
    <3>1. i - 1 \in 1 .. l - 1 /\ r <= i - 1 /\ (i - 1) + 1 = i
      BY <2>5, <3>0
    <3>2. d[i - 1] = e[(i - 1) + 1]
      BY <1>10, <3>1
    <3> QED BY <2>2, <3>1, <3>2
  <2> QED BY <1>4, <2>3, <2>4, <2>5
<1>14. ASSUME NEW j \in 1 .. r - 1 PROVE d[j] = j
  <2>1. j \in 1 .. l - 1 /\ j < r /\ j \in 1 .. b - 1
    BY <1>2, <1>4
  <2> QED BY <1>3, <1>10, <2>1
<1>15. d \in [1 .. l - 1 -> 1 .. n]
  BY <1>7, <1>11 DEF Below
<1>16. Onto(d, 1 .. l - 1, Below(n, A, r))
  BY <1>11, <1>12, <1>13 DEF Onto
<1>17. r - 1 <= l - 1
  <2>1. l \in Nat /\ r \in 1 .. l
    BY <1>2, <1>4
  <2> QED BY <2>1
<1>18. Removed(s, A, r, u)
  BY <1>1, <1>6, <1>11, <1>14, <1>15, <1>16, <1>17 DEF Removed
<1> QED BY <1>1, <1>4, <1>5, <1>18

LEMMA RemovalsLeave ==
  ASSUME project \in Projects, NEW n, n = Len(project.sections),
         NEW A \in SUBSET (1 .. n), A # {}, NEW m, m = Cardinality(A),
         NEW a, a = Sorted(A), NEW cs, NEW h, MadeAlong(cs, project, m, h),
         \A k \in 1 .. m : cs[k] = Do(Command("remove", a[m - k + 1], None))
  PROVE  h[m].sections = At(project, (1 .. n) \ A)
<1>1. PICK s : s = project.sections
  OBVIOUS
<1>2. s \in Seq(Section) /\ n \in Nat /\ n = Len(s)
  BY <1>1, ProjectFields
<1>3. m \in Nat /\ InOrder(a, m, A)
  BY <1>2, SortedInOrder
<1>4. /\ a \in [1 .. m -> A] /\ \A i, j \in 1 .. m : i < j => a[i] < a[j]
      /\ \A r \in A : \E i \in 1 .. m : a[i] = r
  BY <1>3 DEF InOrder
<1>5. m # 0
  <2>1. PICK r : r \in A
    OBVIOUS
  <2>2. PICK i \in 1 .. m : a[i] = r
    BY <1>4, <2>1
  <2> QED BY <1>3, <2>2
<1>6. PICK b : b = [k \in 0 .. m |-> IF k = 0 THEN n + 1 ELSE a[m - k + 1]]
  OBVIOUS
<1>7. A \subseteq Nat
  BY <1>2
<1>8. PICK S : S = {k \in 0 .. m : h[k] \in Projects
                                   /\ Removed(s, A, b[k], h[k].sections)}
  OBVIOUS
<1>9. h[0] = project /\ \A k \in 1 .. m : h[k] = Made(cs[k], h[k - 1])
  <2>1. 0 \in 0 .. m /\ \A k \in 1 .. m : k \in 0 .. m /\ k # 0
    BY <1>3
  <2> QED BY <2>1 DEF MadeAlong
<1>10. 0 \in S
  <2>1. PICK e : e = [j \in 1 .. n |-> j]
    OBVIOUS
  <2>2. \A r \in A : r < n + 1
    BY <1>2
  <2>3. Below(n, A, n + 1) = 1 .. n
    BY <1>2, <2>2 DEF Below
  <2>4. Onto(e, 1 .. n, Below(n, A, n + 1))
    BY <2>1, <2>3 DEF Onto
  <2>5. (n + 1) - 1 = n /\ n <= n
    BY <1>2
  <2>6. Removed(s, A, n + 1, s)
    BY <1>2, <2>1, <2>4, <2>5 DEF Removed
  <2>7. 0 \in 0 .. m /\ b[0] = n + 1
    BY <1>3, <1>6
  <2> QED BY <1>1, <1>8, <1>9, <2>6, <2>7
<1>11. ASSUME NEW k \in 1 .. m, k - 1 \in S
       PROVE  k \in S
  <2>1. PICK q : q = h[k - 1]
    OBVIOUS
  <2>2. q \in Projects /\ Removed(s, A, b[k - 1], q.sections)
    BY <1>8, <1>11, <2>1
  <2>3. k \in 0 .. m /\ k - 1 \in 0 .. m /\ m - k + 1 \in 1 .. m
    BY <1>3
  <2>4. PICK i, r : i = m - k + 1 /\ r = a[i]
    OBVIOUS
  <2>5. i \in 1 .. m /\ r \in A /\ b[k] = r
    BY <1>4, <1>6, <2>3, <2>4
  <2>6. b[k - 1] \in Nat /\ r < b[k - 1] /\ \A x \in A : x < b[k - 1] => x <= r
    <3>1. CASE k = 1
      <4>1. k - 1 = 0 /\ i = m
        BY <1>3, <2>4, <3>1
      <4>2. b[k - 1] = n + 1
        BY <1>6, <2>3, <4>1
      <4>3. \A x \in A : x \in Nat /\ x < n + 1
        BY <1>2
      <4>4. ASSUME NEW x \in A PROVE x <= r
        <5>1. PICK j \in 1 .. m : a[j] = x
          BY <1>4
        <5>2. j = m \/ j < m
          BY <1>3
        <5>3. a[j] = r \/ a[j] < r
          BY <1>4, <2>4, <2>5, <4>1, <5>2
        <5> QED BY <1>7, <2>5, <5>1, <5>3
      <4> QED BY <1>2, <2>5, <4>2, <4>3, <4>4
    <3>2. CASE k # 1
      <4>1. k - 1 # 0 /\ m - (k - 1) + 1 = i + 1 /\ i + 1 \in 1 .. m
        BY <1>3, <2>4, <3>2
      <4>2. b[k - 1] = a[i + 1]
        BY <1>6, <2>3, <4>1
      <4>3. a[i + 1] \in A /\ r < a[i + 1]
        <5>1. i < i + 1
          BY <2>5
        <5> QED BY <1>4, <2>4, <2>5, <4>1, <5>1
      <4>4. ASSUME NEW x \in A, x < a[i + 1] PROVE x <= r
        <5>1. PICK j \in 1 .. m : a[j] = x
          BY <1>4
        <5>2. ~(i + 1 < j) /\ i + 1 # j
          <6>1. x \in Nat /\ a[i + 1] \in Nat
            BY <1>7, <4>3
          <6>2. ~(a[i + 1] < a[j]) /\ a[j] # a[i + 1]
            BY <4>4, <5>1, <6>1
          <6> QED BY <1>4, <4>1, <6>2
        <5>3. j = i \/ j < i
          BY <2>5, <5>2
        <5>4. a[j] = r \/ a[j] < r
          BY <1>4, <2>4, <2>5, <5>3
        <5> QED BY <1>7, <2>5, <5>1, <5>4
      <4> QED BY <1>7, <4>2, <4>3, <4>4
    <3> QED BY <3>1, <3>2
  <2>7. PICK t : t = q.sections
    OBVIOUS
  <2>8. r \in 1 .. Len(t) /\ Removed(s, A, r, RemoveAt(t, r))
    <3>1. s \in Seq(Section) /\ A \in SUBSET (1 .. Len(s)) /\ Removed(s, A, b[k - 1], t)
      BY <1>2, <2>2, <2>7
    <3> QED BY ONLY <2>5, <2>6, <3>1, OneMoreRemoved
  <2>9. cs[k] = Do(Command("remove", r, None))
    BY <2>4
  <2>10. Made(cs[k], q) \in Projects /\ Made(cs[k], q).sections = RemoveAt(t, r)
    BY <2>2, <2>7, <2>8, <2>9, MadeRemoval
  <2> QED BY <1>8, <1>9, <2>1, <2>3, <2>5, <2>8, <2>10
<1>12. m \in S
  <2>1. S = 0 .. m
    <3>1. S \in SUBSET (0 .. m)
      BY <1>8
    <3> QED BY <1>3, <1>10, <1>11, <3>1, UpTo
  <2> QED BY <1>3, <2>1
<1>13. PICK t : t = h[m].sections
  OBVIOUS
<1>14. Removed(s, A, a[1], t)
  <2>1. m \in 0 .. m /\ m - m + 1 = 1
    BY <1>3
  <2>2. b[m] = a[1]
    BY <1>5, <1>6, <2>1
  <2> QED BY <1>8, <1>12, <1>13, <2>2
<1>15. Below(n, A, a[1]) = (1 .. n) \ A
  <2>1. ASSUME NEW r \in A PROVE ~(r < a[1])
    <3>1. PICK i \in 1 .. m : a[i] = r
      BY <1>4
    <3>2. 1 \in 1 .. m /\ (i = 1 \/ 1 < i)
      BY <1>3, <1>5
    <3>3. a[1] = r \/ a[1] < r
      BY <1>4, <3>1, <3>2
    <3>4. a[1] \in Nat /\ r \in Nat
      BY <1>4, <1>7, <3>2
    <3> QED BY <3>3, <3>4
  <2> QED BY <2>1 DEF Below
<1>16. PICK e \in [1 .. Len(t) -> 1 .. n] :
         /\ Onto(e, 1 .. Len(t), (1 .. n) \ A)
         /\ \A j \in 1 .. Len(t) : t[j] = s[e[j]]
  BY <1>2, <1>14, <1>15 DEF Removed
<1>17. t \in Seq(Section)
  BY <1>14 DEF Removed
<1>18. At(h[m], 1 .. Len(t)) = At(project, (1 .. n) \ A)
  <2>0. PICK l : l = Len(t)
    OBVIOUS
  <2>1. PICK q, R, C : q = h[m] /\ R = 1 .. l /\ C = (1 .. n) \ A
    OBVIOUS
  <2>2. \A r \in R : q.sections[r] = project.sections[e[r]]
    BY <1>1, <1>13, <1>16, <2>0, <2>1
  <2>3. AmongFirst(l, R) /\ AmongFirst(n, C) /\ Onto(e, R, C)
    <3>1. AmongFirst(l, R) /\ AmongFirst(n, C)
      BY <1>2, <1>17, <2>0, <2>1 DEF AmongFirst
    <3>2. Onto(e, R, C)
      BY <1>16, <2>0, <2>1
    <3> QED BY <3>1, <3>2
  <2>4. At(q, R) = At(project, C)
    <3>1. PICK p : p = project
      OBVIOUS
    <3>2. \A r \in R : q.sections[r] = p.sections[e[r]]
      BY ONLY <2>2, <3>1
    <3>3. At(q, R) = At(p, C)
      BY ONLY <2>3, <3>2, AtAlong
    <3> QED BY <3>1, <3>3
  <2> QED BY <2>0, <2>1, <2>4
<1>19. At(h[m], 1 .. Len(t)) = t
  <2>1. PICK l : l = Len(t)
    OBVIOUS
  <2>2. l \in Nat /\ t = [k \in 1 .. l |-> t[k]]
    BY <1>17, <2>1
  <2>3. PICK f : f = [k \in 1 .. l |-> k]
    OBVIOUS
  <2>4. InOrder(f, l, 1 .. l)
    BY <2>3 DEF InOrder
  <2>5. Sorted(1 .. l) = f
    BY <2>2, <2>4, SortedIs
  <2>6. At(h[m], 1 .. l) = [k \in 1 .. l |-> t[k]]
    BY <1>13, <2>3, <2>5 DEF At
  <2> QED BY <2>1, <2>2, <2>6
<1> QED BY <1>13, <1>18, <1>19

-------------------------------------------------------------------------------
(***************************************************************************)
(* Moving one row past its neighbour: the two change places, and a row     *)
(* that belongs to the moved ones and one that does not keep their places  *)
(* among the rows of their kind.                                           *)
(***************************************************************************)
Neighbours(r, q) == q = r + 1 \/ r = q + 1

LEMMA NeighboursSwap ==
  ASSUME NEW s \in Seq(Section), NEW r \in 1 .. Len(s), NEW q \in 1 .. Len(s),
         Neighbours(r, q), NEW t, t = InsertAt(RemoveAt(s, r), q, s[r])
  PROVE  /\ t \in Seq(Section) /\ Len(t) = Len(s) /\ t[q] = s[r] /\ t[r] = s[q]
         /\ \A k \in 1 .. Len(s) : k \notin {r, q} => t[k] = s[k]
<1>1. PICK n, u, v : n = Len(s) /\ u = RemoveAt(s, r) /\ v = s[r]
  OBVIOUS
<1>2. n \in Nat /\ r \in 1 .. n /\ q \in 1 .. n /\ v \in Section
  BY <1>1
<1>3. /\ u \in Seq(Section) /\ Len(u) = n - 1
      /\ \A k \in 1 .. r - 1 : u[k] = s[k]
      /\ \A k \in r .. n - 1 : u[k] = s[k + 1]
  BY <1>1, RemoveAtSeq
<1>4. /\ t \in Seq(Section) /\ Len(t) = Len(u) + 1 /\ t[q] = v
      /\ \A k \in 1 .. q - 1 : t[k] = u[k]
      /\ \A k \in q .. Len(u) : t[k + 1] = u[k]
  <2>1. u \in Seq(Section) /\ q \in 1 .. Len(u) + 1 /\ v \in Section
    BY <1>2, <1>3
  <2>2. t = InsertAt(u, q, v)
    BY <1>1
  <2> QED BY ONLY <2>1, <2>2, InsertAtSeq
<1>5. t \in Seq(Section) /\ Len(t) = n /\ t[q] = s[r]
  BY <1>1, <1>2, <1>3, <1>4
<1>6. t[r] = s[q]
  <2>1. CASE q = r + 1
    <3>1. r \in 1 .. q - 1 /\ r \in r .. n - 1
      BY <1>2, <2>1
    <3> QED BY <1>3, <1>4, <2>1, <3>1
  <2>2. CASE r = q + 1
    <3>1. q \in q .. Len(u) /\ q \in 1 .. r - 1
      BY <1>2, <1>3, <2>2
    <3>2. t[q + 1] = u[q] /\ u[q] = s[q]
      BY <1>3, <1>4, <3>1
    <3> QED BY <2>2, <3>2
  <2> QED BY <2>1, <2>2 DEF Neighbours
<1>7. ASSUME NEW k \in 1 .. n, k \notin {r, q} PROVE t[k] = s[k]
  <2>1. CASE k < r /\ k < q
    <3>1. k \in 1 .. q - 1 /\ k \in 1 .. r - 1
      BY <1>2, <2>1
    <3> QED BY <1>3, <1>4, <3>1
  <2>2. CASE k > r /\ k > q
    <3>1. PICK j : j = k - 1
      OBVIOUS
    <3>2. j \in q .. Len(u) /\ j \in r .. n - 1 /\ j + 1 = k
      BY <1>2, <1>3, <2>2, <3>1
    <3>3. t[j + 1] = u[j] /\ u[j] = s[j + 1]
      BY <1>3, <1>4, <3>2
    <3> QED BY <3>2, <3>3
  <2> QED BY <1>2, <1>7, <2>1, <2>2 DEF Neighbours
<1> QED BY <1>1, <1>5, <1>6, <1>7

Swapped(e, r, q, d, R) ==
  /\ d[r] = e[q] /\ d[q] = e[r]
  /\ \A k \in R : k \notin {r, q} => d[k] = e[k]

LEMMA SwapKeepsOrder ==
  ASSUME NEW R \in SUBSET Nat, NEW r \in R, NEW q \in Nat \ R, Neighbours(r, q),
         NEW A, NEW e, Onto(e, R, A), NEW d, Swapped(e, r, q, d, R)
  PROVE  Onto(d, (R \ {r}) \cup {q}, A)
<1>1. PICK T : T = (R \ {r}) \cup {q}
  OBVIOUS
<1>2. r \in Nat /\ q \in Nat /\ r # q
  OBVIOUS
<1>3. /\ \A k \in R : e[k] \in A
      /\ \A i, j \in R : i < j => e[i] < e[j]
      /\ \A a \in A : \E k \in R : e[k] = a
  BY DEF Onto
<1>4. d[q] = e[r] /\ \A k \in T : k # q => k \in R /\ k # r /\ d[k] = e[k]
  BY <1>1 DEF Swapped
<1>5. ASSUME NEW k \in T PROVE d[k] \in A
  BY <1>3, <1>4
<1>6. ASSUME NEW i \in T, NEW j \in T, i < j PROVE d[i] < d[j]
  <2>1. i \in Nat /\ j \in Nat
    BY <1>1
  <2>2. CASE i # q /\ j # q
    BY <1>3, <1>4, <1>6, <2>2
  <2>3. CASE i = q
    <3>1. j # q /\ j # r /\ j \in R
      BY <1>4, <1>6, <2>1, <2>3
    <3>2. r < j
      BY <1>2, <1>6, <2>1, <2>3, <3>1 DEF Neighbours
    <3> QED BY <1>3, <1>4, <2>3, <3>1, <3>2
  <2>4. CASE j = q
    <3>1. i # q /\ i # r /\ i \in R
      BY <1>4, <1>6, <2>1, <2>4
    <3>2. i < r
      BY <1>2, <1>6, <2>1, <2>4, <3>1 DEF Neighbours
    <3> QED BY <1>3, <1>4, <2>4, <3>1, <3>2
  <2> QED BY <2>2, <2>3, <2>4
<1>7. ASSUME NEW a \in A PROVE \E k \in T : d[k] = a
  <2>1. PICK k \in R : e[k] = a
    BY <1>3
  <2>2. CASE k = r
    BY <1>1, <1>4, <2>1, <2>2
  <2>3. CASE k # r
    <3>1. k \in T /\ k # q
      BY <1>1, <2>3
    <3> QED BY <1>4, <2>1, <3>1
  <2> QED BY <2>2, <2>3
<1>8. Onto(d, T, A)
  BY <1>5, <1>6, <1>7 DEF Onto
<1> QED BY <1>1, <1>8

(* The sections t are those of s, moved so that the rows R are now where   *)
(* the rows A were, in the same order, and so for the other rows.          *)
Rearranged(s, A, t, R) ==
  /\ t \in Seq(Section) /\ Len(t) = Len(s) /\ R \subseteq 1 .. Len(s)
  /\ \E e \in [1 .. Len(s) -> 1 .. Len(s)] :
       /\ \A k \in 1 .. Len(s) : t[k] = s[e[k]]
       /\ Onto(e, R, A)
       /\ Onto(e, (1 .. Len(s)) \ R, (1 .. Len(s)) \ A)

LEMMA OneMoreMoved ==
  ASSUME NEW s \in Seq(Section), NEW A, NEW t, NEW R, Rearranged(s, A, t, R),
         NEW r \in R, NEW q \in (1 .. Len(s)) \ R, Neighbours(r, q),
         NEW u, u = InsertAt(RemoveAt(t, r), q, t[r])
  PROVE  Rearranged(s, A, u, (R \ {r}) \cup {q})
<1>1. PICK n : n = Len(s)
  OBVIOUS
<1>2. PICK T, C : T = (R \ {r}) \cup {q} /\ C = (1 .. n) \ R
  OBVIOUS
<1>3. /\ n \in Nat /\ t \in Seq(Section) /\ Len(t) = n /\ R \subseteq 1 .. n
      /\ r \in 1 .. n /\ q \in 1 .. n /\ r # q
  BY <1>1 DEF Rearranged
<1>4. PICK e \in [1 .. n -> 1 .. n] :
        /\ \A k \in 1 .. n : t[k] = s[e[k]]
        /\ Onto(e, R, A) /\ Onto(e, C, (1 .. n) \ A)
  BY <1>1, <1>2 DEF Rearranged
<1>5. /\ u \in Seq(Section) /\ Len(u) = n /\ u[q] = t[r] /\ u[r] = t[q]
      /\ \A k \in 1 .. n : k \notin {r, q} => u[k] = t[k]
  <2>1. /\ t \in Seq(Section) /\ r \in 1 .. Len(t) /\ q \in 1 .. Len(t)
        /\ Neighbours(r, q) /\ u = InsertAt(RemoveAt(t, r), q, t[r])
    BY <1>3
  <2>2. /\ u \in Seq(Section) /\ Len(u) = Len(t) /\ u[q] = t[r] /\ u[r] = t[q]
        /\ \A k \in 1 .. Len(t) : k \notin {r, q} => u[k] = t[k]
    BY ONLY <2>1, NeighboursSwap, SMTT(30)
  <2> QED BY <1>3, <2>2
<1>6. PICK d : d = [k \in 1 .. n |-> IF k = r THEN e[q] ELSE IF k = q THEN e[r] ELSE e[k]]
  OBVIOUS
<1>7. /\ d \in [1 .. n -> 1 .. n] /\ d[r] = e[q] /\ d[q] = e[r]
      /\ \A k \in 1 .. n : k \notin {r, q} => d[k] = e[k]
  BY <1>3, <1>6
<1>8. ASSUME NEW k \in 1 .. n PROVE u[k] = s[d[k]]
  BY <1>3, <1>4, <1>5, <1>7
<1>9. Onto(d, T, A)
  <2>1. Swapped(e, r, q, d, R)
    BY <1>3, <1>7 DEF Swapped
  <2>2. R \in SUBSET Nat /\ q \in Nat \ R
    BY <1>3
  <2> QED BY <1>2, <1>4, <2>1, <2>2, SwapKeepsOrder
<1>10. Onto(d, (1 .. n) \ T, (1 .. n) \ A)
  <2>1. Swapped(e, q, r, d, C)
    BY <1>2, <1>7 DEF Swapped
  <2>2. C \in SUBSET Nat /\ q \in C /\ r \in Nat \ C
    BY <1>1, <1>2, <1>3
  <2>3. Neighbours(q, r)
    BY DEF Neighbours
  <2>4. Onto(d, (C \ {q}) \cup {r}, (1 .. n) \ A)
    BY <1>4, <2>1, <2>2, <2>3, SwapKeepsOrder
  <2>5. (C \ {q}) \cup {r} = (1 .. n) \ T
    BY <1>2, <1>3
  <2> QED BY <2>4, <2>5
<1>11. T \subseteq 1 .. n
  BY <1>2, <1>3
<1> QED BY <1>1, <1>2, <1>5, <1>7, <1>8, <1>9, <1>10, <1>11 DEF Rearranged

(***************************************************************************)
(* A plan moves each row of A once, into a row outside A or one that a row *)
(* of A has just left.                                                     *)
(***************************************************************************)
MovesInto(n, A, by, moving) ==
  /\ n \in Nat /\ A \in SUBSET (1 .. n)
  /\ by \in {-1, 1} /\ moving \in Seq(A)
  /\ \A i \in 1 .. Len(moving) : moving[i] + by \in 1 .. n
  /\ \A i, j \in 1 .. Len(moving) : i # j => moving[i] # moving[j]
  /\ \A i \in 1 .. Len(moving) : moving[i] + by \in A =>
       \E j \in 1 .. i - 1 : moving[j] = moving[i] + by

(* The rows of A after the first k moves.                                  *)
AfterMoves(n, A, by, moving, k) ==
  {r \in 1 .. n : \/ r \in A /\ \A j \in 1 .. k : moving[j] # r
                  \/ \E j \in 1 .. k : r = moving[j] + by}

LEMMA OneMoreRow ==
  ASSUME NEW n, NEW A, NEW by, NEW moving, MovesInto(n, A, by, moving),
         NEW k \in 1 .. Len(moving), NEW r, r = moving[k]
  PROVE  \E R : /\ R = AfterMoves(n, A, by, moving, k - 1)
                /\ r \in R /\ r + by \in (1 .. n) \ R /\ Neighbours(r, r + by)
                /\ AfterMoves(n, A, by, moving, k) = (R \ {r}) \cup {r + by}
<1>0. PICK R : R = AfterMoves(n, A, by, moving, k - 1)
  OBVIOUS
<1>1. PICK m, q : m = Len(moving) /\ q = r + by
  OBVIOUS
<1>2. /\ n \in Nat /\ A \in SUBSET (1 .. n)
      /\ m \in Nat /\ k \in 1 .. m /\ by \in {-1, 1}
      /\ \A i \in 1 .. m : moving[i] \in A /\ moving[i] \in 1 .. n
      /\ \A i \in 1 .. m : moving[i] + by \in 1 .. n
      /\ \A i, j \in 1 .. m : i # j => moving[i] # moving[j]
      /\ \A i \in 1 .. m : moving[i] + by \in A =>
           \E j \in 1 .. i - 1 : moving[j] = moving[i] + by
  <2>1. moving \in Seq(A) /\ m \in Nat /\ k \in 1 .. m
    BY <1>1 DEF MovesInto
  <2>2. \A i \in 1 .. m : moving[i] \in A
    BY <1>1, <2>1, ElementOf
  <2>3. \A i \in 1 .. m : moving[i] \in 1 .. n
    BY <2>2 DEF MovesInto
  <2> QED BY <1>1, <2>1, <2>2, <2>3 DEF MovesInto
<1>3. /\ r \in A /\ r \in 1 .. n /\ q \in 1 .. n
  <2>1. k \in 1 .. m
    BY <1>2
  <2>2. /\ moving[k] \in A /\ moving[k] \in 1 .. n
        /\ moving[k] + by \in 1 .. n
    BY <1>2, <2>1
  <2> QED BY <1>1, <2>2
<1>4. \A j \in 1 .. k - 1 : j \in 1 .. m /\ j \in 1 .. k /\ j # k /\ j < k
  BY <1>2
<1>5. \A j \in 1 .. k : j = k \/ j \in 1 .. k - 1
  BY <1>2
<1>6. r \in R
  BY <1>0, <1>2, <1>3, <1>4 DEF AfterMoves
<1>7. q \notin R
  <2>1. ASSUME q \in A, \A j \in 1 .. k - 1 : moving[j] # q PROVE FALSE
    BY <1>1, <1>2, <2>1
  <2>2. ASSUME NEW j \in 1 .. k - 1, q = moving[j] + by PROVE FALSE
    <3>1. moving[j] = r
      <4>1. moving[j] \in Int /\ r \in Int
        BY <1>2, <1>3, <1>4
      <4> QED BY <1>1, <1>2, <2>2, <4>1
    <3> QED BY <1>2, <1>4, <3>1
  <2> QED BY <1>0, <2>1, <2>2 DEF AfterMoves
<1>8. \A j \in 1 .. k - 1 : moving[j] + by # r
  <2> TAKE j \in 1 .. k - 1
  <2>1. SUFFICES ASSUME moving[j] + by = r PROVE FALSE
    OBVIOUS
  <2>2. PICK i \in 1 .. j - 1 : moving[i] = r
    BY <1>2, <1>3, <1>4, <2>1
  <2>3. i \in 1 .. m /\ i # k
    BY <1>2, <1>4
  <2> QED BY <1>2, <2>2, <2>3
<1>9. k \in 1 .. k
  BY <1>2
<1>10. ASSUME NEW x \in 1 .. n
       PROVE  x \in AfterMoves(n, A, by, moving, k) <=> x \in (R \ {r}) \cup {q}
  <2>1. x \in AfterMoves(n, A, by, moving, k) <=>
          \/ x \in A /\ \A j \in 1 .. k : moving[j] # x
          \/ \E j \in 1 .. k : x = moving[j] + by
    BY DEF AfterMoves
  <2>2. (\A j \in 1 .. k : moving[j] # x) <=> x # r /\ \A j \in 1 .. k - 1 : moving[j] # x
    BY <1>4, <1>5, <1>9
  <2>3. (\E j \in 1 .. k : x = moving[j] + by) <=>
          x = q \/ \E j \in 1 .. k - 1 : x = moving[j] + by
    BY <1>1, <1>4, <1>5, <1>9
  <2>4. x \in R <=>
          \/ x \in A /\ \A j \in 1 .. k - 1 : moving[j] # x
          \/ \E j \in 1 .. k - 1 : x = moving[j] + by
    BY <1>0 DEF AfterMoves
  <2>5. (\E j \in 1 .. k - 1 : x = moving[j] + by) => x # r
    BY <1>8
  <2> QED BY <2>1, <2>2, <2>3, <2>4, <2>5
<1>11. AfterMoves(n, A, by, moving, k) = (R \ {r}) \cup {q}
  <2>1. AfterMoves(n, A, by, moving, k) \subseteq 1 .. n /\ R \subseteq 1 .. n
    BY <1>0 DEF AfterMoves
  <2> QED BY <1>3, <1>10, <2>1
<1>12. Neighbours(r, q)
  BY <1>1, <1>2, <1>3 DEF Neighbours
<1> QED BY <1>0, <1>1, <1>3, <1>6, <1>7, <1>11, <1>12

LEMMA MovesLeave ==
  ASSUME project \in Projects, NEW n, n = Len(project.sections),
         NEW A, NEW by, NEW moving,
         MovesInto(n, A, by, moving), NEW m, m = Len(moving),
         NEW cs, NEW h, MadeAlong(cs, project, m, h),
         \A k \in 1 .. m : cs[k] = Do(Command("move", moving[k], moving[k] + by))
  PROVE  Rearranged(project.sections, A, h[m].sections,
                    AfterMoves(n, A, by, moving, m))
<1>1. PICK s : s = project.sections
  OBVIOUS
<1>2. s \in Seq(Section) /\ n \in Nat /\ n = Len(s)
  BY <1>1, ProjectFields
<1>3. m \in Nat
  BY DEF MovesInto
<1>4. PICK R : R = [k \in 0 .. m |-> AfterMoves(n, A, by, moving, k)]
  OBVIOUS
<1>5. PICK S : S = {k \in 0 .. m : h[k] \in Projects
                                   /\ Rearranged(s, A, h[k].sections, R[k])}
  OBVIOUS
<1>6. h[0] = project /\ \A k \in 1 .. m : h[k] = Made(cs[k], h[k - 1])
  <2>1. 0 \in 0 .. m /\ \A k \in 1 .. m : k \in 0 .. m /\ k # 0
    BY <1>3
  <2> QED BY <2>1 DEF MadeAlong
<1>7. 0 \in S
  <2>1. PICK e : e = [j \in 1 .. n |-> j]
    OBVIOUS
  <2>0. A \subseteq 1 .. n
    BY DEF MovesInto
  <2>2. 0 \in 0 .. m /\ R[0] = A
    <3>1. AfterMoves(n, A, by, moving, 0) = A
      <4>1. 1 .. 0 = {}
        OBVIOUS
      <4> QED BY <2>0, <4>1 DEF AfterMoves
    <3> QED BY <1>3, <1>4, <3>1
  <2>3. Onto(e, A, A) /\ Onto(e, (1 .. n) \ A, (1 .. n) \ A)
    BY <2>0, <2>1 DEF Onto
  <2>4. Rearranged(s, A, s, A)
    BY <1>2, <2>0, <2>1, <2>3 DEF Rearranged
  <2> QED BY <1>1, <1>5, <1>6, <2>2, <2>4
<1>8. ASSUME NEW k \in 1 .. m, k - 1 \in S
      PROVE  k \in S
  <2>1. PICK p, r, q : p = h[k - 1] /\ r = moving[k] /\ q = r + by
    OBVIOUS
  <2>2. PICK T, t : T = R[k - 1] /\ t = p.sections
    OBVIOUS
  <2>3. p \in Projects /\ Rearranged(s, A, t, T)
    BY <1>5, <1>8, <2>1, <2>2
  <2>4. k \in 0 .. m /\ k - 1 \in 0 .. m
    BY <1>3
  <2>5. T = AfterMoves(n, A, by, moving, k - 1)
    BY <1>4, <2>2, <2>4
  <2>6. /\ r \in T /\ q \in (1 .. n) \ T /\ Neighbours(r, q)
        /\ R[k] = (T \ {r}) \cup {q}
    <3>1. R[k] = AfterMoves(n, A, by, moving, k)
      BY <1>4, <2>4
    <3> QED BY <2>1, <2>5, <3>1, OneMoreRow
  <2>7. PICK u : u = InsertAt(RemoveAt(t, r), q, t[r])
    OBVIOUS
  <2>8. Rearranged(s, A, u, R[k])
    <3>1. /\ s \in Seq(Section) /\ Rearranged(s, A, t, T) /\ r \in T
          /\ q \in (1 .. Len(s)) \ T /\ Neighbours(r, q)
          /\ u = InsertAt(RemoveAt(t, r), q, t[r])
      BY <1>2, <2>3, <2>6, <2>7
    <3>2. Rearranged(s, A, u, (T \ {r}) \cup {q})
      BY ONLY <3>1, OneMoreMoved
    <3> QED BY <2>6, <3>2
  <2>9. r \in 1 .. Len(p.sections) /\ q \in 1 .. Len(p.sections)
    BY <1>2, <2>2, <2>3, <2>6 DEF Rearranged
  <2>10. Made(cs[k], p) \in Projects /\ Made(cs[k], p).sections = u
    <3>1. cs[k] = Do(Command("move", r, q))
      BY <2>1
    <3> QED BY <2>2, <2>3, <2>7, <2>9, <3>1, MadeMove
  <2> QED BY <1>5, <1>6, <2>1, <2>4, <2>8, <2>10
<1>9. m \in S
  <2>1. S \in SUBSET (0 .. m)
    BY <1>5
  <2>2. S = 0 .. m
    BY <1>3, <1>7, <1>8, <2>1, UpTo
  <2> QED BY <1>3, <2>2
<1>10. m \in 0 .. m
  BY <1>3
<1> QED BY <1>1, <1>4, <1>5, <1>9, <1>10

-------------------------------------------------------------------------------
(* What the list's gestures leave.                                         *)
LEMMA GestureLeaves ==
  ASSUME DocumentPart, NEW many \in BOOLEAN, NEW cs \in Seq(Submissions),
         NEW first \in Int, NEW rows \in SUBSET Rows,
         Gesture(Batched(many, cs) \o Reselect(first, rows)),
         NEW h, MadeAlong(cs, project, Len(cs), h)
  PROVE  After(calls') = h[Len(cs)] /\ Reselected(calls') = {first} \cup rows
<1>1. PICK a : a = [first |-> first, rows |-> rows]
  OBVIOUS
<1>2. a.first = first /\ a.rows = rows
  BY <1>1
<1>3. PICK tail : tail = Reselect(first, rows)
  OBVIOUS
<1>4. tail \in Seq(Reselections) /\ Len(tail) = 1
  BY <1>3, ReselectSeq
<1>5. tail[1].op = "Select" /\ tail[1].arg = a
  BY <1>1, <1>3, CallFields DEF Reselect
<1>6. tail \in Seq(QueuedCalls) /\ cs \in Seq(QueuedCalls)
  <2>1. Submissions \subseteq QueuedCalls /\ Reselections \subseteq QueuedCalls
    BY PlainCalls
  <2> QED BY <1>4, <2>1, WidenedSeq
<1>7. PICK b : b = Batched(many, cs) \o tail
  OBVIOUS
<1>8. PICK off \in {0, 1} : Laid(b, off, cs, tail)
  BY <1>6, <1>7, BatchedCalls
<1>9. calls' = b
  BY <1>3, <1>7 DEF Gesture
<1>10. After(b) = h[Len(cs)]
  <2>1. \A i \in 1 .. Len(tail) : tail[i].op # "Submit"
    BY <1>4, <1>5
  <2> QED BY <1>6, <1>8, <2>1, LaidAfter
<1>11. Len(b) = Len(cs) + 2 * off + 1 /\ b[Len(cs) + 2 * off + 1] = tail[1]
  BY <1>4, <1>8 DEF Laid
<1>12. Reselected(b) = {first} \cup rows
  BY <1>2, <1>5, <1>11 DEF Reselected
<1> QED BY <1>9, <1>10, <1>12

LEMMA RemoveLeaves ==
  ASSUME DocumentInvariant, OnRemove
  PROVE  After(calls').sections = At(project, Rows \ ActedOn)
<1>1. /\ DocumentPart /\ ViewPart /\ ActedOn # {}
  BY InvariantParts DEF OnRemove
<1>2. /\ Count \in Nat /\ Rows = 1 .. Count /\ ActedOn \in SUBSET (1 .. Count)
      /\ IsFiniteSet(ActedOn)
  BY <1>1, ActedOnRows
<1>3. PICK A, a : A = ActedOn /\ a = Sorted(ActedOn)
  OBVIOUS
<1>4. PICK m, n : m = Cardinality(A) /\ n = Count
  OBVIOUS
<1>5. n \in Nat /\ A \in SUBSET (1 .. n) /\ A # {} /\ n = Len(project.sections)
  BY <1>1, <1>2, <1>3, <1>4 DEF Count
<1>6. m \in Nat /\ a \in Seq(A) /\ Len(a) = m /\ m # 0
  <2>1. a \in Seq(A) /\ Len(a) = m
    BY <1>3, <1>4, <1>5, SortedMembers
  <2>2. m \in Nat /\ m # 0
    BY <1>2, <1>3, <1>4, <1>5, FS_CardinalityType, FS_EmptySet
  <2> QED BY <2>1, <2>2
<1>7. PICK rows : rows = Reverse(a)
  OBVIOUS
<1>8. rows = [i \in 1 .. m |-> a[m - i + 1]]
  BY <1>6, <1>7 DEF Reverse
<1>9. ASSUME NEW k \in 1 .. m
      PROVE  rows[k] = a[m - k + 1] /\ rows[k] \in 1 .. n
  <2>1. m - k + 1 \in 1 .. m
    BY <1>6
  <2>2. a[m - k + 1] \in A
    BY ONLY <1>6, <2>1, ElementOf
  <2> QED BY <1>5, <1>8, <2>2
<1>10. Len(rows) = m /\ DOMAIN rows = 1 .. m
  BY <1>6, <1>8
<1>11. PICK cs : cs = [k \in 1 .. m |-> Do(Command("remove", rows[k], None))]
  OBVIOUS
<1>12. ASSUME NEW k \in 1 .. m PROVE cs[k] \in Submissions
  <2>1. rows[k] \in Nat
    BY <1>5, <1>9
  <2>2. Command("remove", rows[k], None) \in QueuedCommands
    BY <2>1, QueuedCommandKinds
  <2> QED BY <1>11, <2>2, DoSubmits
<1>13. cs \in Seq(Submissions) /\ Len(cs) = m
  BY <1>6, <1>11, <1>12, ListSeq
<1>14. PICK first : first = IF rows[m] < n - m THEN rows[m] ELSE n - m
  OBVIOUS
<1>15. first \in Int
  <2>1. rows[m] \in 1 .. n
    BY <1>6, <1>9
  <2> QED BY <1>5, <1>6, <1>14, <2>1
<1>16. PICK many : many = (m > 1)
  OBVIOUS
<1>17. many \in BOOLEAN
  BY <1>16
<1>18. Gesture(Batched(many, cs) \o Reselect(first, {}))
  BY <1>3, <1>4, <1>7, <1>10, <1>11, <1>14, <1>16 DEF OnRemove
<1>19. PICK h : MadeAlong(cs, project, m, h)
  BY <1>6, AlongCalls
<1>20. After(calls') = h[m]
  <2>1. {} \in SUBSET Rows
    OBVIOUS
  <2> QED BY <1>1, <1>13, <1>15, <1>17, <1>18, <1>19, <2>1, GestureLeaves
<1>21. h[m].sections = At(project, (1 .. n) \ A)
  <2>1. project \in Projects /\ a = Sorted(A)
    BY <1>1, <1>3, CountIsNat
  <2>2. \A k \in 1 .. m : cs[k] = Do(Command("remove", a[m - k + 1], None))
    BY <1>9, <1>11
  <2> QED BY <1>4, <1>5, <1>19, <2>1, <2>2, RemovalsLeave
<1> QED BY <1>2, <1>3, <1>4, <1>20, <1>21

LEMMA PlanLeaves ==
  ASSUME DocumentInvariant, NEW by, NEW moving,
         MovesInto(Count, ActedOn, by, moving), ApplyMovePlan(moving, by),
         current \in ActedOn
  PROVE  /\ At(After(calls'), Reselected(calls')) = At(project, ActedOn)
         /\ At(After(calls'), Rows \ Reselected(calls')) = At(project, Rows \ ActedOn)
<1> DEFINE MovedTo(r) == IF r \in ToSet(moving) THEN r + by ELSE r
           first      == IF current # None THEN current ELSE 1
<1>1. /\ DocumentPart /\ ViewPart
  BY InvariantParts
<1>2. /\ Count \in Nat /\ Rows = 1 .. Count /\ ActedOn \in SUBSET (1 .. Count)
  BY <1>1, ActedOnRows
<1>3. PICK A, n, m : A = ActedOn /\ n = Count /\ m = Len(moving)
  OBVIOUS
<1>4. /\ n \in Nat /\ A \in SUBSET (1 .. n) /\ n = Len(project.sections)
      /\ MovesInto(n, A, by, moving) /\ current \in A
  BY <1>2, <1>3 DEF Count
<1>5. /\ m \in Nat /\ DOMAIN moving = 1 .. m /\ by \in Int
      /\ \A k \in 1 .. m : moving[k] \in A /\ moving[k] + by \in 1 .. n
  <2>1. moving \in Seq(A) /\ by \in Int
    BY <1>4 DEF MovesInto
  <2>2. m \in Nat /\ DOMAIN moving = 1 .. m /\ \A k \in 1 .. m : moving[k] \in A
    BY <1>3, <2>1, ElementOf
  <2>3. \A k \in 1 .. m : moving[k] + by \in 1 .. n
    BY <1>3, <1>4 DEF MovesInto
  <2> QED BY <2>1, <2>2, <2>3
<1>6. PICK cs : cs = [k \in 1 .. m |-> Do(Command("move", moving[k], moving[k] + by))]
  OBVIOUS
<1>7. ASSUME NEW k \in 1 .. m PROVE cs[k] \in Submissions
  <2>1. moving[k] \in 1 .. n /\ moving[k] + by \in 1 .. n /\ 1 .. n \subseteq Nat
    <3>1. moving[k] \in A /\ moving[k] + by \in 1 .. n
      BY <1>5
    <3>2. A \subseteq 1 .. n /\ 1 .. n \subseteq Nat
      BY <1>4
    <3> QED BY ONLY <3>1, <3>2
  <2>2. Command("move", moving[k], moving[k] + by) \in QueuedCommands
    BY <2>1, QueuedCommandKinds
  <2> QED BY <1>6, <2>2, DoSubmits
<1>8. cs \in Seq(Submissions) /\ Len(cs) = m
  BY <1>5, <1>6, <1>7, ListSeq
<1>9. PICK R : R = AfterMoves(n, A, by, moving, m)
  OBVIOUS
<1>10. R = {MovedTo(r) : r \in A}
  <2>1. \A r : r \in ToSet(moving) <=> \E k \in 1 .. m : moving[k] = r
    BY <1>5 DEF ToSet
  <2>2. ASSUME NEW r \in A PROVE MovedTo(r) \in R
    <3>1. CASE r \in ToSet(moving)
      <4>1. PICK k \in 1 .. m : moving[k] = r
        BY <2>1, <3>1
      <4>2. r + by \in 1 .. n
        BY <1>5, <4>1
      <4> QED BY <1>9, <3>1, <4>1, <4>2 DEF AfterMoves
    <3>2. CASE r \notin ToSet(moving)
      <4>1. \A k \in 1 .. m : moving[k] # r
        BY <2>1, <3>2
      <4>2. r \in 1 .. n
        BY <1>4
      <4> QED BY <1>9, <3>2, <4>1, <4>2 DEF AfterMoves
    <3> QED BY <3>1, <3>2
  <2>3. ASSUME NEW x \in R PROVE \E r \in A : x = MovedTo(r)
    <3>1. CASE x \in A /\ \A k \in 1 .. m : moving[k] # x
      <4>1. x \notin ToSet(moving)
        BY <2>1, <3>1
      <4> QED BY <3>1, <4>1
    <3>2. ASSUME NEW k \in 1 .. m, x = moving[k] + by
          PROVE  \E r \in A : x = MovedTo(r)
      <4>1. moving[k] \in A /\ moving[k] \in ToSet(moving)
        BY <1>5, <2>1
      <4> QED BY <3>2, <4>1
    <3> QED BY <1>9, <3>1, <3>2 DEF AfterMoves
  <2> QED BY <2>2, <2>3
<1>11. current # None /\ MovedTo(current) \in R
  <2>1. None \notin 1 .. n
    BY <1>4, NoneAssumption
  <2> QED BY <1>4, <1>10, <2>1
<1>12. R \in SUBSET (1 .. n) /\ R \in SUBSET Rows
  BY <1>2, <1>3, <1>9 DEF AfterMoves
<1>13. PICK to : to = MovedTo(current)
  OBVIOUS
<1>14. to \in R /\ to \in Int
  BY <1>4, <1>11, <1>12, <1>13
<1>15. PICK many : many = (m > 1)
  OBVIOUS
<1>16. many \in BOOLEAN
  BY <1>15
<1>17. Gesture(Batched(many, cs) \o Reselect(to, R))
  BY <1>3, <1>5, <1>6, <1>10, <1>11, <1>13, <1>15 DEF ApplyMovePlan
<1>18. PICK h : MadeAlong(cs, project, m, h)
  BY <1>5, AlongCalls
<1>19. After(calls') = h[m] /\ Reselected(calls') = R
  <2>1. After(calls') = h[m] /\ Reselected(calls') = {to} \cup R
    BY <1>1, <1>8, <1>12, <1>14, <1>16, <1>17, <1>18, GestureLeaves
  <2> QED BY <1>14, <2>1
<1>20. Rearranged(project.sections, A, h[m].sections, R)
  <2>1. project \in Projects
    BY <1>1, CountIsNat
  <2>2. \A k \in 1 .. m : cs[k] = Do(Command("move", moving[k], moving[k] + by))
    BY <1>6
  <2> QED BY <1>3, <1>4, <1>9, <1>18, <2>1, <2>2, MovesLeave
<1>21. PICK q, B, C : q = h[m] /\ B = (1 .. n) \ R /\ C = (1 .. n) \ A
  OBVIOUS
<1>22. PICK e : /\ \A k \in 1 .. n : q.sections[k] = project.sections[e[k]]
                /\ Onto(e, R, A) /\ Onto(e, B, C)
  BY <1>4, <1>20, <1>21 DEF Rearranged
<1>23. AmongFirst(n, R) /\ AmongFirst(n, A) /\ AmongFirst(n, B) /\ AmongFirst(n, C)
  BY <1>4, <1>12, <1>21 DEF AmongFirst
<1>24. At(q, R) = At(project, A)
  <2>1. \A k \in R : q.sections[k] = project.sections[e[k]]
    BY <1>12, <1>22
  <2> QED BY <1>22, <1>23, <2>1, AtAlong
<1>25. At(q, B) = At(project, C)
  <2>1. \A k \in B : q.sections[k] = project.sections[e[k]]
    BY <1>21, <1>22
  <2> QED BY <1>22, <1>23, <2>1, AtAlong
<1> QED BY <1>2, <1>3, <1>19, <1>21, <1>24, <1>25

(* The rows a plan moves are listed in order; from the edge inward they    *)
(* never run into a row of the selection that is still to move.            *)
LEMMA UpwardPlan ==
  ASSUME NEW n \in Nat, NEW A \in SUBSET (1 .. n)
  PROVE  MovesInto(n, A, -1, PlanMoveSectionsUp(A))
<1>1. PICK M : M = {r \in A : ~(1 .. r \subseteq A)}
  OBVIOUS
<1>2. M \in SUBSET (1 .. n) /\ M \subseteq A /\ A \subseteq Nat
  <2>1. A \subseteq Nat
    OBVIOUS
  <2> QED BY <1>1, <2>1
<1>3. PICK moving, m : moving = Sorted(M) /\ m = Cardinality(M)
  OBVIOUS
<1>4. /\ m \in Nat /\ InOrder(moving, m, M) /\ moving \in Seq(M) /\ Len(moving) = m
  <2>1. m \in Nat /\ InOrder(moving, m, M)
    BY <1>2, <1>3, SortedInOrder
  <2>2. moving \in Seq(M) /\ Len(moving) = m
    BY <1>2, <1>3, SortedMembers
  <2> QED BY <2>1, <2>2
<1>5. /\ \A i \in 1 .. m : moving[i] \in M
      /\ \A i, j \in 1 .. m : i < j => moving[i] < moving[j]
      /\ \A r \in M : \E i \in 1 .. m : moving[i] = r
  BY <1>4 DEF InOrder
<1>6. ASSUME NEW r \in M PROVE r + (-1) \in 1 .. n
  <2>1. ASSUME r = 1 PROVE FALSE
    <3>1. 1 .. r = {r}
      BY <2>1
    <3> QED BY <1>1, <3>1
  <2>2. r \in 1 .. n
    BY <1>2
  <2> QED BY <2>1, <2>2
<1>7. ASSUME NEW i \in 1 .. m, NEW j \in 1 .. m, i # j PROVE moving[i] # moving[j]
  <2>1. i < j \/ j < i
    BY <1>7
  <2>2. moving[i] \in Nat /\ moving[j] \in Nat
    BY <1>2, <1>5
  <2> QED BY <1>5, <2>1, <2>2
<1>8. ASSUME NEW i \in 1 .. m, moving[i] + (-1) \in A
      PROVE  \E j \in 1 .. i - 1 : moving[j] = moving[i] + (-1)
  <2>1. PICK r, q : r = moving[i] /\ q = r + (-1)
    OBVIOUS
  <2>2. r \in M /\ r \in Nat /\ q \in A /\ q \in Nat /\ q < r
    <3>1. r \in M /\ q \in A
      BY <1>5, <1>8, <2>1
    <3>2. r \in Nat /\ q \in Nat
      BY <1>2, <3>1
    <3> QED BY <2>1, <3>1, <3>2
  <2>3. q \in M
    <3>1. SUFFICES ASSUME 1 .. q \subseteq A PROVE FALSE
      BY <1>1, <2>2
    <3>2. 1 .. r \subseteq A
      <4>1. \A x \in 1 .. r : x \in 1 .. q \/ x = r
        BY <2>1, <2>2
      <4> QED BY <1>2, <2>2, <3>1, <4>1
    <3> QED BY <1>1, <2>2, <3>2
  <2>4. PICK j \in 1 .. m : moving[j] = q
    BY <1>5, <2>3
  <2>5. j < i
    <3>1. ~(i < j) /\ i # j
      BY <1>5, <2>1, <2>2, <2>4
    <3> QED BY <3>1
  <2>6. j \in 1 .. i - 1
    BY <2>5
  <2> QED BY <2>1, <2>4, <2>6
<1>9. moving \in Seq(A)
  BY ONLY <1>2, <1>4, WidenedSeq
<1>10. \A i \in 1 .. m : moving[i] + (-1) \in 1 .. n
  BY <1>5, <1>6
<1>11. MovesInto(n, A, -1, moving)
  BY <1>4, <1>7, <1>8, <1>9, <1>10 DEF MovesInto
<1> QED BY <1>1, <1>3, <1>11 DEF PlanMoveSectionsUp

LEMMA DownwardPlan ==
  ASSUME Count \in Nat, NEW A \in SUBSET (1 .. Count)
  PROVE  MovesInto(Count, A, 1, PlanMoveSectionsDown(A))
<1>0. PICK n : n = Count
  OBVIOUS
<1>1. PICK M : M = {r \in A : ~(r .. n \subseteq A)}
  OBVIOUS
<1>2. n \in Nat /\ M \in SUBSET (1 .. n) /\ M \subseteq A /\ A \subseteq 1 .. n
  BY <1>0, <1>1
<1>3. PICK sorted, m : sorted = Sorted(M) /\ m = Cardinality(M)
  OBVIOUS
<1>4. /\ m \in Nat /\ InOrder(sorted, m, M) /\ sorted \in Seq(M) /\ Len(sorted) = m
  <2>1. m \in Nat /\ InOrder(sorted, m, M)
    BY <1>2, <1>3, SortedInOrder
  <2>2. sorted \in Seq(M) /\ Len(sorted) = m
    BY <1>2, <1>3, SortedMembers
  <2> QED BY <2>1, <2>2
<1>5. /\ \A i \in 1 .. m : sorted[i] \in M
      /\ \A i, j \in 1 .. m : i < j => sorted[i] < sorted[j]
      /\ \A r \in M : \E i \in 1 .. m : sorted[i] = r
  BY <1>4 DEF InOrder
<1>6. PICK moving : moving = Reverse(sorted)
  OBVIOUS
<1>7. /\ moving \in Seq(M) /\ Len(moving) = m
      /\ \A i \in 1 .. m : moving[i] = sorted[m - i + 1]
  <2>1. moving \in Seq(M) /\ Len(moving) = m
    BY <1>4, <1>6, ReverseMembers
  <2>2. moving = [i \in 1 .. m |-> sorted[m - i + 1]]
    BY <1>4, <1>6 DEF Reverse
  <2> QED BY <2>1, <2>2
<1>8. /\ \A i \in 1 .. m : moving[i] \in M
      /\ \A i, j \in 1 .. m : i < j => moving[j] < moving[i]
      /\ \A r \in M : \E i \in 1 .. m : moving[i] = r
  <2>1. \A i \in 1 .. m : m - i + 1 \in 1 .. m
    BY <1>4
  <2>2. \A i \in 1 .. m : moving[i] \in M
    BY <1>5, <1>7, <2>1
  <2>3. ASSUME NEW i \in 1 .. m, NEW j \in 1 .. m, i < j
        PROVE  moving[j] < moving[i]
    <3>1. m - j + 1 < m - i + 1
      BY <1>4, <2>3
    <3> QED BY <1>5, <1>7, <2>1, <3>1
  <2>4. ASSUME NEW r \in M PROVE \E i \in 1 .. m : moving[i] = r
    <3>1. PICK i \in 1 .. m : sorted[i] = r
      BY <1>5
    <3>2. m - i + 1 \in 1 .. m /\ m - (m - i + 1) + 1 = i
      BY <1>4
    <3> QED BY <1>7, <3>1, <3>2
  <2> QED BY <2>2, <2>3, <2>4
<1>9. ASSUME NEW r \in M PROVE r \in 1 .. n /\ r + 1 \in 1 .. n
  <2>1. r \in 1 .. n
    BY <1>2
  <2>2. ASSUME r = n PROVE FALSE
    <3>1. r .. n = {r}
      BY <1>2, <2>2
    <3> QED BY <1>1, <3>1
  <2> QED BY <1>2, <2>1, <2>2
<1>10. ASSUME NEW i \in 1 .. m, NEW j \in 1 .. m, i # j PROVE moving[i] # moving[j]
  <2>1. i < j \/ j < i
    BY <1>10
  <2>2. moving[i] \in Int /\ moving[j] \in Int
    BY <1>8, <1>9
  <2> QED BY <1>8, <2>1, <2>2
<1>11. ASSUME NEW i \in 1 .. m, moving[i] + 1 \in A
       PROVE  \E j \in 1 .. i - 1 : moving[j] = moving[i] + 1
  <2>1. PICK r, q : r = moving[i] /\ q = r + 1
    OBVIOUS
  <2>2. r \in M /\ r \in 1 .. n /\ q \in A /\ r < q /\ q \in Int
    BY <1>8, <1>9, <1>11, <2>1
  <2>3. q \in M
    <3>1. SUFFICES ASSUME q .. n \subseteq A PROVE FALSE
      BY <1>1, <2>2
    <3>2. r .. n \subseteq A
      <4>1. \A x \in r .. n : x \in q .. n \/ x = r
        BY <1>2, <2>1, <2>2
      <4> QED BY <1>2, <2>2, <3>1, <4>1
    <3> QED BY <1>1, <2>2, <3>2
  <2>4. PICK j \in 1 .. m : moving[j] = q
    BY <1>8, <2>3
  <2>5. j < i
    <3>1. ~(i < j) /\ i # j
      BY <1>8, <2>1, <2>2, <2>4
    <3> QED BY <3>1
  <2>6. j \in 1 .. i - 1
    BY <2>5
  <2> QED BY <2>1, <2>4, <2>6
<1>12. moving \in Seq(A)
  BY ONLY <1>2, <1>7, WidenedSeq
<1>13. \A i \in 1 .. m : moving[i] + 1 \in 1 .. n
  BY <1>8, <1>9
<1>14. MovesInto(n, A, 1, moving)
  BY <1>2, <1>7, <1>10, <1>11, <1>12, <1>13 DEF MovesInto
<1> QED BY <1>0, <1>1, <1>3, <1>6, <1>14 DEF PlanMoveSectionsDown

LEMMA MoveLeaves ==
  ASSUME DocumentInvariant, OnMoveUp \/ OnMoveDown, current \in ActedOn
  PROVE  /\ At(After(calls'), Reselected(calls')) = At(project, ActedOn)
         /\ At(After(calls'), Rows \ Reselected(calls')) = At(project, Rows \ ActedOn)
<1>1. Count \in Nat /\ ActedOn \in SUBSET (1 .. Count)
  BY InvariantParts, ActedOnRows
<1>2. CASE OnMoveUp
  <2>1. PICK moving : moving = PlanMoveSectionsUp(ActedOn)
    OBVIOUS
  <2>2. MovesInto(Count, ActedOn, -1, moving)
    BY <1>1, <2>1, UpwardPlan
  <2>3. ApplyMovePlan(moving, -1)
    BY <1>2, <2>1 DEF OnMoveUp
  <2> QED BY <2>2, <2>3, PlanLeaves
<1>3. CASE OnMoveDown
  <2>1. PICK moving : moving = PlanMoveSectionsDown(ActedOn)
    OBVIOUS
  <2>2. MovesInto(Count, ActedOn, 1, moving)
    BY <1>1, <2>1, DownwardPlan
  <2>3. ApplyMovePlan(moving, 1)
    BY <1>3, <2>1 DEF OnMoveDown
  <2> QED BY <2>2, <2>3, PlanLeaves
<1> QED BY <1>2, <1>3

(***************************************************************************)
(* However many rows are selected, and wherever: a move in the section     *)
(* list leaves the same sections selected and keeps the order among them   *)
(* and among the others, and a removal takes the selected sections and no  *)
(* other (gui/section_list_dock.cpp).                                      *)
(***************************************************************************)
THEOREM GesturesActOnSelection == SpecWithStates => ListActsOnSelection
<1>1. DocumentInvariant =>
        [(OnMoveUp \/ OnMoveDown) /\ current \in ActedOn =>
           LET p == After(calls') rows == Reselected(calls') IN
           /\ At(p, rows) = At(project, ActedOn)
           /\ At(p, Rows \ rows) = At(project, Rows \ ActedOn)]_vars
  BY MoveLeaves
<1>2. DocumentInvariant =>
        [OnRemove => After(calls').sections = At(project, Rows \ ActedOn)]_vars
  BY RemoveLeaves
<1>3. SpecWithStates => MoveKeepsSections
  BY <1>1, DocumentInStep, PTL DEF MoveKeepsSections
<1>4. SpecWithStates => RemoveTakesSelected
  BY <1>2, DocumentInStep, PTL DEF RemoveTakesSelected
<1> QED BY <1>3, <1>4 DEF ListActsOnSelection
===============================================================================
