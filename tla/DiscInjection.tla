----------------------------- MODULE DiscInjection -----------------------------
(* biphase_injection_manager.cpp, and the pass of BuildFrameSchedule          *)
(* (generation_stage.cpp) that resolves every frame of a project with it, in  *)
(* order: the codes on its lines, its place in the colour sequence, and what  *)
(* its overlays show.  BuildDiscFrameOffsets is the section list's own count. *)
(*                                                                            *)
(* A section's codes are a function from the code types it lists to their     *)
(* anchor: the start value, chapter or word it states, or Unset.  Its         *)
(* duration is the resolved one; it is open ended when the project says "all" *)
(* and the source's length decides (duration_frames_all).                     *)
EXTENDS DiscCodes

CONSTANTS Projects, Unset, BadHex

(* What the validator accepts of the codes and the order of the sections.     *)
MayAnchor(standard, code, anchor) ==
  \/ anchor = Unset
  \/ code = "picture_number" /\ anchor \in 0 .. MaxPictureNumber[standard]
  \/ code = "fm_picture_number" /\ anchor \in 0 .. MaxFmNumber
  \/ code = "chapter_number" /\ anchor \in 0 .. MaxChapterNumber
  \/ code \in {"programme_status", "users_code"}

MayCarry(p, section) ==
  /\ section.type \in SectionTypes \ {"unknown"}
  /\ \A code \in DOMAIN section.codes :
       /\ p.disc = "CAV" => code \in ValidCav
       /\ p.disc = "CLV" => code \in ValidClv
       /\ code \in CodeTypes /\ ValidForSection(code, section.type)
       /\ MayAnchor(p.standard, code, section.codes[code])

IsDisc(p) ==
  /\ p.standard \in Standards
  /\ p.sections \in Seq({p.sections[s] : s \in DOMAIN p.sections})
  /\ \A s \in DOMAIN p.sections :
       LET section == p.sections[s] IN
       /\ section.duration \in Nat \ {0}
       /\ section.open_ended \in BOOLEAN
       /\ section.type \in SectionTypes
       /\ section.type = "lead_in" => s = 1
       /\ section.type = "lead_out" => s = Len(p.sections)
       /\ section.laserdisc => MayCarry(p, section)

ASSUME ProjectsAssumption == \A p \in Projects : IsDisc(p)

ASSUME UnsetAssumption == Unset \notin [value : Nat, frozen : Nat]

VARIABLES project,      \* the project whose schedule is built
          current,      \* current_section_, an index; 0 before the first
          generators,   \* the 24-bit generators, by code type
          fm_number, fm_time,  \* the FM generators, Unset until first listed
          frame_count,  \* the colour frame counter
          position,     \* frames resolved so far
          status,       \* "building", "built" or "failed"
          frame         \* the enrichment of the last resolved frame

vars == <<project, current, generators, fm_number, fm_time, frame_count,
          position, status, frame>>

--------------------------------------------------------------------------------
(* The schedule's skeleton: the section of each frame.                        *)
FramesBefore(p, s) ==
  LET f[k \in 0 .. s] ==
        IF k = 0 THEN 0 ELSE f[k - 1] + p.sections[k].duration
  IN  f[s]

FirstFrame(p, s) == FramesBefore(p, s - 1)
FrameTotal(p) == FramesBefore(p, Len(p.sections))

SectionOf(p, index) ==
  CHOOSE s \in DOMAIN p.sections :
    FirstFrame(p, s) <= index /\ index < FramesBefore(p, s)

HasLaserdisc(section) == section.laserdisc
Lists(section, code) == code \in DOMAIN section.codes

(* FindSectionPictureNumberStart: 0 when the section states none.             *)
PictureNumberStart(section) ==
  IF Lists(section, "picture_number")
     /\ section.codes["picture_number"] # Unset
  THEN section.codes["picture_number"] ELSE 0

(* The first start value above one moves the whole disc's colour count.       *)
InitialFrameOffset(p) ==
  LET late == {s \in DOMAIN p.sections :
                 PictureNumberStart(p.sections[s]) > 1} IN
  IF late = {} THEN 0
  ELSE PictureNumberStart(p.sections[CHOOSE s \in late :
                                       \A t \in late : s <= t]) - 1

(* disc_frame_index: the colour phase that synthesis gives the frame.         *)
DiscFrameIndex(p, index) ==
  LET s == SectionOf(p, index)
      start == PictureNumberStart(p.sections[s])
  IN  IF start > 0 THEN start + (index - FirstFrame(p, s)) - 1
                   ELSE index + InitialFrameOffset(p)

--------------------------------------------------------------------------------
(* InitializeSection.                                                         *)
Persistent == {"programme_time_code", "clv_picture_number", "picture_number",
               "chapter_number"}
FmNumbers == {"fm_picture_number", "fm_programme_time"}

(* Mutant: the picture number starts again with every section. *)
KeptClocks == (Persistent \ {"picture_number"}) \cap DOMAIN generators

Kept == Persistent \cap DOMAIN generators

(* The listed codes that get a new generator: anchored numbers always, the    *)
(* others when none is kept; words only when stated.                          *)
Made(section) ==
  {c \in DOMAIN section.codes \ (FmNumbers \cup {"fm_white_flag"}) :
     CASE c \in {"programme_status", "users_code"} -> section.codes[c] # Unset
       [] c \in Persistent -> section.codes[c] # Unset \/ c \notin Kept
       [] OTHER -> TRUE}

DefaultAnchor(code) == IF code = "picture_number" THEN 1 ELSE 0

AnchorOf(section, code) ==
  IF section.codes[code] = Unset THEN DefaultAnchor(code)
                                 ELSE section.codes[code]

SectionGenerators(section) ==
  IF ~HasLaserdisc(section) THEN [c \in Kept |-> generators[c]]
  ELSE [c \in Kept \cup Made(section) |->
          IF c \in Made(section) THEN New(c, AnchorOf(section, c))
                                 ELSE generators[c]]

(* Created once; a later start value is not looked at.                        *)
SectionFmNumber(section) ==
  IF HasLaserdisc(section) /\ Lists(section, "fm_picture_number")
     /\ fm_number = Unset
  THEN NewFmNumber(IF section.codes["fm_picture_number"] = Unset THEN 1
                   ELSE section.codes["fm_picture_number"])
  ELSE fm_number

SectionFmTime(section) ==
  IF HasLaserdisc(section) /\ Lists(section, "fm_programme_time")
     /\ fm_time = Unset
  THEN NewFmTime ELSE fm_time

SectionFails(section) ==
  /\ HasLaserdisc(section)
  /\ \/ project.disc \notin DiscTypes
     \/ \E c \in DOMAIN section.codes : section.codes[c] = BadHex

--------------------------------------------------------------------------------
(* ResolveFrame.                                                              *)
ColourPeriod(standard) == IF standard = "NTSC" THEN 2 ELSE 4

Remainder(n, m) == IF n < 0 THEN -((-n) % m) ELSE n % m

ColourFrameIndex(gens) ==
  Remainder(IF "picture_number" \in DOMAIN gens
            THEN gens["picture_number"].value - 1 ELSE frame_count,
            ColourPeriod(project.standard))

(* The word for a line, Unset when its generator or encoder is missing: the   *)
(* FM encoder exists for NTSC only.                                           *)
LineWord(code, line, gens, number, time, type) ==
  LET first == FieldOne(project.standard, line) IN
  CASE code = "fm_white_flag" -> <<"flag">>
    [] code = "fm_picture_number" /\ number # Unset
         /\ project.standard = "NTSC" -> FmNumberWord(number, first, type)
    [] code = "fm_programme_time" /\ time # Unset
         /\ project.standard = "NTSC" -> FmTimeWord(time, first, type)
    [] code \in DOMAIN gens ->
         CurrentCode(project.standard, code, gens[code])
    [] OTHER -> Unset

VbiLines(section, gens, number, time) ==
  LET at(line) == GetAssignment(project.standard, project.disc, section.type,
                                DOMAIN section.codes, line)
      word(line) == LineWord(at(line).code, line, gens, number, time,
                             section.type)
  IN  {[line |-> line, code |-> at(line).code, at |-> at(line).at,
        word |-> word(line)] :
         line \in {l \in ReservedLines(project.standard) :
                     at(l).code # "none" /\ word(l) # Unset}}

(* The number an overlay shows; 0 in a section without codes.                *)
NumberShown(section, gens) ==
  IF HasLaserdisc(section) /\ "picture_number" \in DOMAIN gens
  THEN gens["picture_number"].value ELSE 0

(* The values the overlays show: only a section with codes captures them.     *)
Context(section, gens) ==
  [phase_id |-> ColourFrameIndex(gens),
   picture_number |-> NumberShown(section, gens),
   biphase_words |-> IF HasLaserdisc(section)
                     THEN {CurrentCode(project.standard, c, gens[c]) :
                             c \in DOMAIN gens} ELSE {},
   frame_number |-> position + 1,
   timecode |-> IF project.disc = "CLV"
                THEN ClvTimecodeForFrame(position, project.standard)
                ELSE Unset]

NoFrame == [section |-> 0]

Fail == /\ status' = "failed"
        /\ UNCHANGED <<project, current, generators, fm_number, fm_time,
                       frame_count, position, frame>>

Resolve(s) ==
  LET section == project.sections[s]
      fresh == s # current
      gens == IF fresh THEN SectionGenerators(section) ELSE generators
      number == IF fresh THEN SectionFmNumber(section) ELSE fm_number
      time == IF fresh THEN SectionFmTime(section) ELSE fm_time
      coded == HasLaserdisc(section)
  IN  /\ current' = s
      /\ frame' = [section |-> s,
                   disc_frame_index |-> DiscFrameIndex(project, position),
                   vbi_lines |-> IF coded
                       THEN VbiLines(section, gens, number, time) ELSE {},
                   context |-> Context(section, gens)]
      /\ generators' = IF ~coded THEN gens
                       ELSE [c \in DOMAIN gens |->
                               Advance(project.standard, c, gens[c])]
      /\ fm_number' = IF coded /\ number # Unset
                      THEN FmNumberAdvance(number, section.type) ELSE number
      /\ fm_time' = IF coded /\ time # Unset
                    THEN FmTimeAdvance(time, section.type) ELSE time
      /\ frame_count' = frame_count + 1
      /\ position' = position + 1
      /\ UNCHANGED <<project, status>>

ResolveFrame ==
  /\ status = "building"
  /\ position < FrameTotal(project)
  /\ LET s == SectionOf(project, position) IN
       IF s # current /\ SectionFails(project.sections[s]) THEN Fail
                                                           ELSE Resolve(s)

Finish ==
  /\ status = "building"
  /\ position = FrameTotal(project)
  /\ status' = "built"
  /\ UNCHANGED <<project, current, generators, fm_number, fm_time,
                 frame_count, position, frame>>

Init ==
  /\ project \in Projects
  /\ current = 0
  /\ generators = [c \in {} |-> Unset]
  /\ fm_number = Unset
  /\ fm_time = Unset
  /\ frame_count = InitialFrameOffset(project)
  /\ position = 0
  /\ status = "building"
  /\ frame = NoFrame

Next == ResolveFrame \/ Finish

Spec == Init /\ [][Next]_vars

--------------------------------------------------------------------------------
(* section_list_model.cpp: the disc position that the section list shows for  *)
(* a section's first frame, -1 before the programme.                          *)
(* Mutant: a stated number does not move the count. *)
NeverReanchored(p, section, counter) == counter

Reanchored(p, section, counter) ==
  IF p.disc = "CAV" /\ Lists(section, "picture_number")
     /\ section.codes["picture_number"] # Unset
  THEN section.codes["picture_number"] - 1 ELSE counter

(* The section's offset, and the counter after it.                            *)
Counted(p, section, counter) ==
  LET n == Reanchored(p, section, counter)
      at == IF section.type # "programme_area" THEN counter
            ELSE IF n < 0 THEN 0 ELSE n
  IN  <<IF section.type = "programme_area" THEN at ELSE -1,
        IF at < 0 \/ section.open_ended THEN at ELSE at + section.duration>>

BuildDiscFrameOffsets(p) ==
  LET count[s \in 0 .. Len(p.sections)] ==
        IF s = 0 THEN <<-1, -1>>
        ELSE Counted(p, p.sections[s], count[s - 1][2])
  IN  [s \in DOMAIN p.sections |->
         IF p.disc \in DiscTypes THEN count[s][1] ELSE -1]

--------------------------------------------------------------------------------
(* What the codes of a disc promise a player, and the user of the window.     *)
Min(a, b) == IF a < b THEN a ELSE b

Index == position - 1           \* the last resolved frame
Here == project.sections[frame.section]
Carried(code) == {l \in frame.vbi_lines : l.code = code}

(* The state holds what its declarations say, and fails only on a code the    *)
(* section states wrongly or a disc without a type.                           *)
TypeOK ==
  /\ current \in 0 .. Len(project.sections)
  /\ DOMAIN generators \subseteq CodeTypes
  /\ "picture_number" \in DOMAIN generators =>
       generators["picture_number"].value
         \in 0 .. MaxPictureNumber[project.standard]
  /\ "clv_picture_number" \in DOMAIN generators =>
       generators["clv_picture_number"] \in
         [total : Nat, seconds : 0 .. SecondsPerMinute - 1,
          frame : 0 .. FramesPerSecond[project.standard] - 1]
  /\ position \in 0 .. FrameTotal(project)
  /\ status \in {"building", "built", "failed"}
  /\ frame = NoFrame \/
       /\ frame.section = current
       /\ \A l \in frame.vbi_lines :
            /\ l.line \in ReservedLines(project.standard)
            /\ ValidForSection(l.code, Here.type)
  /\ status = "built" => position = FrameTotal(project)
  /\ status = "failed" =>
       \E s \in DOMAIN project.sections : SectionFails(project.sections[s])

--------------------------------------------------------------------------------
(* Reference definitions, of a frame's codes from the project alone.          *)
Coded(p, index) == HasLaserdisc(p.sections[SectionOf(p, index)])

CodedBetween(p, first, last) ==
  Cardinality({index \in first .. last : Coded(p, index)})

Listing(p, code) == {s \in DOMAIN p.sections :
                       HasLaserdisc(p.sections[s]) /\ Lists(p.sections[s], code)}

Earliest(set) == CHOOSE s \in set : \A t \in set : s <= t
Latest(set) == CHOOSE s \in set : \A t \in set : s >= t

(* The section where the code's present count began: the last that states a   *)
(* start up to s, else the first that lists it.                               *)
Anchor(p, code, s) ==
  LET stated == {t \in Listing(p, code) :
                   t <= s /\ p.sections[t].codes[code] # Unset}
  IN  IF stated = {} THEN Earliest(Listing(p, code)) ELSE Latest(stated)

StepsSince(s) == CodedBetween(project, FirstFrame(project, s), Index) - 1

(* A frame's picture number is the start that the last section states, or 1,  *)
(* and the frames with codes since then: it goes on over every boundary and   *)
(* over sections that list no picture number, stands still in one without     *)
(* codes, and stays at the standard's largest.  Its FM copy counts the same   *)
(* way from the first section that lists it, as long as no later one states   *)
(* a start of its own (InitializeSection keeps the generators of both).       *)
FmNumberFrom(s) ==
  LET start == project.sections[s].codes["fm_picture_number"] IN
  Min(MaxFmNumber, (IF start = Unset THEN 1 ELSE start) + StepsSince(s))

ShowsFmNumber(l, s) ==
  l.word = <<FieldOne(project.standard, l.line), Digits(FmNumberFrom(s))>>

NumbersContinue ==
  frame # NoFrame =>
    /\ \A l \in Carried("picture_number") :
         LET a == Anchor(project, "picture_number", frame.section) IN
         DecodePictureNumber(l.word) =
           Min(MaxPictureNumber[project.standard],
               AnchorOf(project.sections[a], "picture_number")
                 + StepsSince(a))
    /\ \A l \in Carried("fm_picture_number") :
         LET a == Anchor(project, "fm_picture_number", frame.section) IN
         a = Earliest(Listing(project, "fm_picture_number")) =>
           ShowsFmNumber(l, a)

(* The tracks of the chapter that section s begins, those with codes, and     *)
(* when its stop bit is to be set: laserdisc-codes.md gives 0 to the first    *)
(* 400 tracks of a chapter of 800 or more that is not the disc's first.       *)
ChapterTracks(s) ==
  Cardinality({index \in FirstFrame(project, s) .. FrameTotal(project) - 1 :
                 LET t == SectionOf(project, index) IN
                 /\ project.sections[t].type = "programme_area"
                 /\ HasLaserdisc(project.sections[t])
                 /\ Anchor(project, "chapter_number", t) = s})

MayStop(s) ==
  \/ s = Earliest(Listing(project, "chapter_number"))
  \/ ChapterTracks(s) < 2 * StopBitTrack
  \/ StepsSince(s) >= StopBitTrack

(* The chapter shown is the last one stated, whatever sections it spans.  Its *)
(* stop bit is set from the transition track on, and in no chapter sooner     *)
(* than the documents say: that a short or a first chapter has it set from    *)
(* its start is the part of CodesAsDocumented that the code does not keep.    *)
ChapterStopsLate ==
  frame # NoFrame =>
    \A l \in Carried("chapter_number") :
      LET a == Anchor(project, "chapter_number", frame.section) IN
      /\ DecodeChapterNumber(l.word)
           = AnchorOf(project.sections[a], "chapter_number")
      /\ StepsSince(a) >= StopBitTrack => DecodeStopBit(l.word)
      /\ DecodeStopBit(l.word) => MayStop(a)

(* What the documents say of both: an FM start value re-anchors the count of  *)
(* the section that states it ("Anchors the count for this section",          *)
(* section-line-injections.md:62), and the stop bit is set throughout a       *)
(* chapter of less than 800 tracks and the first chapter after the lead-in    *)
(* (laserdisc-codes.md:128-129).                                              *)
CodesAsDocumented ==
  frame # NoFrame =>
    /\ \A l \in Carried("fm_picture_number") :
         ShowsFmNumber(l, Anchor(project, "fm_picture_number", frame.section))
    /\ \A l \in Carried("chapter_number") :
         DecodeStopBit(l.word) <=>
           MayStop(Anchor(project, "chapter_number", frame.section))

(* The second and frame of a CLV picture are the frames counted so far; on    *)
(* NTSC every correction of a cycle but the one that closes it drops one      *)
(* frame number.  The time code's minutes never fall behind the frames, and   *)
(* its hours stay at the largest that their digit can show.                   *)
Corrected(standard, n) ==
  LET cycle == CorrectionStep * CorrectionsPerCycle + 1 IN
  IF standard # "NTSC" THEN n
  ELSE n + (CorrectionsPerCycle - 1) * (n \div cycle)
         + Min(CorrectionsPerCycle - 1, (n % cycle) \div CorrectionStep)

ClvClockRuns ==
  LET fps == FramesPerSecond[project.standard] IN
  frame # NoFrame =>
    /\ \A l \in Carried("clv_picture_number") :
         LET steps == StepsSince(Earliest(Listing(project, "clv_picture_number")))
             n == Corrected(project.standard, steps)
         IN  l.word = EncodeClvPictureNumber((n \div fps) % SecondsPerMinute, n % fps)
    /\ \A l \in Carried("programme_time_code") :
         LET n == StepsSince(Earliest(Listing(project, "programme_time_code")))
             minutes == n \div FramesPerMinute(project.standard)
         IN  l.word = EncodeTimeCode(Min(MaxHours, minutes \div 60), minutes % 60)

--------------------------------------------------------------------------------
(* The positions that the section list prints are those that the disc will    *)
(* carry, for a disc whose programme has codes and, on CAV, picture numbers   *)
(* throughout, with no number 0 and no section of another kind in between:    *)
(* the list counts from the programme's first frame regardless, takes 0 for   *)
(* 1, and counts a section without a type that the generators pass over.  It  *)
(* counts nothing for a section of duration "all", so that only the last one  *)
(* of the programme may have it: the sections after one are listed too early. *)
Programme == {s \in DOMAIN project.sections :
                project.sections[s].type = "programme_area"}

CodedThroughout ==
  \A s \in Programme :
    /\ HasLaserdisc(project.sections[s])
    /\ Lists(project.sections[s], IF project.disc = "CAV"
                                  THEN "picture_number"
                                  ELSE "clv_picture_number")
    /\ project.disc = "CAV" =>
         project.sections[s].codes["picture_number"] # 0
    /\ \A t \in DOMAIN project.sections :
         project.sections[t].type = "unknown" => t < s
    /\ \A t \in Programme : project.sections[t].open_ended => t >= s

ListedPosition(s) ==
  BuildDiscFrameOffsets(project)[s] + Index - FirstFrame(project, s)

ListShowsDiscPosition ==
  frame # NoFrame /\ CodedThroughout =>
    /\ \A l \in Carried("picture_number") :
         DecodePictureNumber(l.word) =
           Min(MaxPictureNumber[project.standard],
               ListedPosition(frame.section) + 1)
    /\ project.standard # "NTSC" =>
         \A l \in Carried("clv_picture_number") :
           LET t == ClvTimecodeForFrame(ListedPosition(frame.section),
                                        project.standard) IN
           l.word = EncodeClvPictureNumber(t.seconds, t.frames)

(* The overlay's picture number is the one on the frame's lines, its words    *)
(* are those of the frame (osd.md: they "cannot disagree").                   *)
OverlayReadsTheDisc ==
  frame # NoFrame =>
    /\ \A l \in Carried("picture_number") :
         frame.context.picture_number = DecodePictureNumber(l.word)
    /\ \A l \in frame.vbi_lines :
         l.code \notin SystemMOnly => l.word \in frame.context.biphase_words

--------------------------------------------------------------------------------
(* A player that reads a word recognises the code that was placed there.      *)
EndsInDs(word) == word[4] = 13 /\ word[5] = 13 /\ word[6] = 13
StatesCx(word) == <<word[2], word[3]>> \in {<<13, 12>>, <<11, 10>>}

Recognise(word) ==
  CASE word = LeadInWord -> "lead_in"
    [] word = LeadOutWord -> "lead_out"
    [] word = PictureStopWord -> "picture_stop"
    [] word = ClvWord -> "clv_code"
    [] word[1] = 15 /\ word[3] = 13 -> "programme_time_code"
    [] word[1] = 15 /\ word[3] # 13 -> "picture_number"
    [] word[1] = 8 /\ EndsInDs(word) -> "chapter_number"
    [] word[1] = 8 /\ ~EndsInDs(word) /\ word[2] > 9 /\ word[3] = 14 ->
         "clv_picture_number"
    [] word[1] = 8 /\ ~EndsInDs(word) /\ StatesCx(word) -> "programme_status"
    [] OTHER -> "users_code"

(* A word that the project states has the form of its kind: 8DC or 8BA, and   *)
(* 8 X1 D X3 X4 X5 with a small X1, the last digits not those of a chapter.   *)
(* The validator asks the users' code for X1 and D, and nothing of the rest.  *)
HasForm(code, word) ==
  /\ word[1] = 8 /\ ~EndsInDs(word)
  /\ code = "programme_status" => StatesCx(word)
  /\ code = "users_code" => word[2] \in 0 .. 7 /\ word[3] = 13

FormKept(section, code) ==
  code \in {"programme_status", "users_code"} =>
    HasForm(code, section.codes[code])

WordsRecognised ==
  frame # NoFrame =>
    \A l \in frame.vbi_lines :
      l.code \notin SystemMOnly /\ FormKept(Here, l.code) =>
        Recognise(l.word) = l.code

(* A code stands on a line and in a section that it may have, and whoever     *)
(* reads the frame, a player or the overlay, reads what was placed there.     *)
CodesReadBack == TypeOK /\ OverlayReadsTheDisc /\ WordsRecognised
===============================================================================
