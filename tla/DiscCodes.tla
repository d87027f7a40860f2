------------------------------- MODULE DiscCodes -------------------------------
(* cav_code_generator.cpp, clv_code_generator.cpp, fm_code_generator.cpp and *)
(* status_code_generator.cpp: the generators that make the words of a disc.  *)
(* A 24-bit word is its six hexadecimal digits, the key digit first; an FM   *)
(* word is its field and its five digits.                                    *)
EXTENDS LinePlacement, FiniteSets

CONSTANTS MaxPictureNumber,   \* [Standards -> Nat]: 79999 (NTSC), 99999
          MaxFmNumber,        \* kNtscMaxValue of fm_code_generator.h: 79999
          StopBitTrack,       \* kStopBitTransitionTrack: 400
          FramesPerSecond,    \* [Standards -> Nat]: 30 (NTSC), 25
          SecondsPerMinute,   \* 60
          CorrectionStep,     \* 899: every correction drops one frame number
          CorrectionsPerCycle \* 10 steps, then one frame more: 8991

ASSUME DiscScale ==
  /\ MaxPictureNumber \in [Standards -> Nat \ {0}]
  /\ FramesPerSecond \in [Standards -> Nat \ {0, 1}]
  /\ StopBitTrack \in Nat
  /\ MaxFmNumber \in Nat \ {0} /\ SecondsPerMinute \in Nat \ {0}
  /\ CorrectionStep \in Nat \ {0} /\ CorrectionsPerCycle \in Nat \ {0}

(* 899 frames and the number dropped after them are thirty whole seconds.    *)
ASSUME CorrectionClosesSeconds ==
  (CorrectionStep + 1) % FramesPerSecond["NTSC"] = 0

Digit(n, place) == (n \div place) % 10

(* The first digit is not reduced modulo ten.                                *)
Digits(n) ==
  <<n \div 10000, Digit(n, 1000), Digit(n, 100), Digit(n, 10), n % 10>>

--------------------------------------------------------------------------------
(* Words that do not change.                                                 *)
LeadInWord == <<8, 8, 15, 15, 15, 15>>
LeadOutWord == <<8, 0, 14, 14, 14, 14>>
PictureStopWord == <<8, 2, 12, 15, 15, 15>>
ClvWord == <<8, 7, 15, 15, 15, 15>>

XorAll(bits) == Cardinality({k \in DOMAIN bits : bits[k] = 1}) % 2

(* The check digit of the programme status: three parities and the overall.  *)
ComputeHammingCheck(x4) ==
  LET d(k) == (x4 \div (2 ^ (4 - k))) % 2 IN
    8 * XorAll(<<d(1), d(2), d(4)>>) + 4 * XorAll(<<d(1), d(3), d(4)>>)
      + 2 * XorAll(<<d(2), d(3), d(4)>>) + XorAll(<<d(1), d(2), d(3)>>)

BuildStatus(cx, copy, mode) ==
  <<8, IF cx THEN 13 ELSE 11, IF cx THEN 12 ELSE 10, IF copy THEN 1 ELSE 0,
    mode, ComputeHammingCheck(mode)>>

--------------------------------------------------------------------------------
(* Words of the numbering generators.                                        *)
EncodePictureNumber(n) ==
  LET d == Digits(n) IN <<15, d[1], d[2], d[3], d[4], d[5]>>

DecodePictureNumber(word) ==
  10000 * word[2] + 1000 * word[3] + 100 * word[4] + 10 * word[5] + word[6]

EncodeChapterCode(chapter, stop) ==
  <<8, (IF stop THEN 8 ELSE 0) + ((chapter \div 16) % 8), chapter % 16,
    13, 13, 13>>

MaxChapterNumber == 79

DecodeChapterNumber(word) == (word[2] % 8) * 16 + word[3]
DecodeStopBit(word) == word[2] >= 8

FramesPerMinute(standard) == FramesPerSecond[standard] * SecondsPerMinute

MaxHours == 15

EncodeTimeCode(hours, minutes) ==
  <<15, hours, 13, 13, minutes \div 10, minutes % 10>>

(* Hours stop at the largest digit; minutes go on.                           *)
TimeCodeOf(standard, frames) ==
  LET minutes == frames \div FramesPerMinute(standard)
      hours == minutes \div 60
  IN  EncodeTimeCode(IF hours > MaxHours THEN MaxHours ELSE hours,
                     minutes % 60)

(* Mutant: the tens of the seconds are written as a plain digit. *)
EncodeClvPlain(seconds, frame) ==
  <<8, seconds \div 10, 14, seconds % 10, frame \div 10, frame % 10>>

EncodeClvPictureNumber(seconds, frame) ==
  <<8, 10 + seconds \div 10, 14, seconds % 10, frame \div 10, frame % 10>>

(* Mutant: the step that closes a cycle is a correction too. *)
IsCorrectionPointEvery(n) == n > 0 /\ n % CorrectionStep = 0

(* N = cycle * L + step * M, with M below the corrections of a cycle.        *)
IsNtscCorrectionPoint(n) ==
  LET cycle == CorrectionStep * CorrectionsPerCycle + 1 IN
  n > 0 /\ \E L \in 0 .. n \div cycle, M \in 0 .. CorrectionsPerCycle - 1 :
             n = cycle * L + CorrectionStep * M

ClvAdvance(standard, g) ==
  LET total == g.total + 1
      jump == standard = "NTSC" /\ IsNtscCorrectionPoint(total)
      carry == jump \/ g.frame + 1 >= FramesPerSecond[standard]
  IN  [total |-> total,
       frame |-> IF carry THEN 0 ELSE g.frame + 1,
       seconds |-> IF ~carry THEN g.seconds
                   ELSE (g.seconds + 1) % SecondsPerMinute]

--------------------------------------------------------------------------------
(* A generator is its state; New, Word and Advance are its operations.       *)
Fixed(word) == [word |-> word]

New(code, anchor) ==
  CASE code = "lead_in" -> Fixed(LeadInWord)
    [] code = "lead_out" -> Fixed(LeadOutWord)
    [] code = "picture_stop" -> Fixed(PictureStopWord)
    [] code = "clv_code" -> Fixed(ClvWord)
    [] code \in {"programme_status", "users_code"} -> Fixed(anchor)
    [] code = "picture_number" -> [value |-> anchor]
    [] code = "chapter_number" -> [chapter |-> anchor, tracks |-> 0]
    [] code = "programme_time_code" -> [frames |-> 0]
    [] code = "clv_picture_number" -> [total |-> 0, seconds |-> 0, frame |-> 0]

(* Whether a chapter's stop bit is set.                                      *)
(* Mutant: one track too late. *)
StopBitLate(g) == g.tracks > StopBitTrack

StopBit(g) == g.tracks >= StopBitTrack

CurrentCode(standard, code, g) ==
  CASE code = "picture_number" -> EncodePictureNumber(g.value)
    [] code = "chapter_number" ->
         EncodeChapterCode(g.chapter, StopBit(g))
    [] code = "programme_time_code" -> TimeCodeOf(standard, g.frames)
    [] code = "clv_picture_number" ->
         EncodeClvPictureNumber(g.seconds, g.frame)
    [] OTHER -> g.word

PictureAdvance(standard, g) ==
  [value |-> IF g.value < MaxPictureNumber[standard] THEN g.value + 1
                                                     ELSE g.value]

Advance(standard, code, g) ==
  CASE code = "picture_number" -> PictureAdvance(standard, g)
    [] code = "chapter_number" -> [g EXCEPT !.tracks = @ + 1]
    [] code = "programme_time_code" -> [frames |-> g.frames + 1]
    [] code = "clv_picture_number" -> ClvAdvance(standard, g)
    [] OTHER -> g

--------------------------------------------------------------------------------
(* The 40-bit FM generators: nothing in the lead-in, running in the          *)
(* programme, frozen in the lead-out.                                        *)
NewFmNumber(start) == [value |-> start, frozen |-> 0]

FmNumberAt(g, type) ==
  CASE type = "programme_area" -> g.value
    [] type = "lead_out" -> g.frozen
    [] OTHER -> 0

FmNumberAdvance(g, type) ==
  IF type # "programme_area" THEN g
  ELSE [value |-> IF g.value < MaxFmNumber THEN g.value + 1 ELSE g.value,
        frozen |-> g.value]

FmNumberWord(g, field_one, type) == <<field_one, Digits(FmNumberAt(g, type))>>

NewFmTime == [frames |-> 0, frozen |-> 0]

(* Seconds of the programme: always counted at NTSC's rate.                  *)
FmSeconds(g) == g.frames \div FramesPerSecond["NTSC"]

(* The time is frozen after the frame is counted.                            *)
FmTimeAdvance(g, type) ==
  IF type # "programme_area" THEN g
  ELSE LET next == g.frames + 1 IN
       [frames |-> next, frozen |-> FmSeconds([g EXCEPT !.frames = next])]

FmTimeWord(g, field_one, type) ==
  LET shown == CASE type = "programme_area" -> <<FmSeconds(g), 13>>
                 [] type = "lead_out" -> <<g.frozen, 12>>
                 [] OTHER -> <<0, 10>>
      minutes == (shown[1] \div SecondsPerMinute) % 60
      seconds == shown[1] % SecondsPerMinute
  IN  <<field_one, <<minutes \div 10, minutes % 10, seconds \div 10,
                     seconds % 10, shown[2]>>>>

--------------------------------------------------------------------------------
(* ClvTimecodeForFrame: the running time of a frame position.                *)
ClvTimecodeForFrame(index, standard) ==
  LET seconds == index \div FramesPerSecond[standard] IN
  [frames |-> index % FramesPerSecond[standard],
   seconds |-> seconds % SecondsPerMinute,
   minutes |-> (seconds \div SecondsPerMinute) % 60,
   hours |-> seconds \div (60 * SecondsPerMinute)]
===============================================================================
