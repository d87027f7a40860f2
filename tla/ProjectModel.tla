----------------------------- MODULE ProjectModel -----------------------------
(* model.h: what a project is, the words its fields take, and the questions   *)
(* every part of the program asks of it.  A field with a "_specified" flag is *)
(* Unset while the flag is clear; decibels, hertz and percent are integers.   *)
EXTENDS LinePlacement, FiniteSets

CONSTANTS Unset,      \* a field that is not stated
          Bad         \* a scalar that does not convert, or a node of a wrong kind

(* A word outside the set is an unknown value, which the validator refuses.   *)
Known(words, word) == IF word \in words THEN word ELSE "unknown"

StandardFromString(word) ==
  IF word = "PAL-M" THEN "PAL_M" ELSE Known(Standards, word)
StandardToString(standard) ==
  IF standard = "unknown" THEN "UNKNOWN" ELSE standard
SystemM == {"NTSC", "PAL_M"}

Placements == {"standard", "laserdisc", "custom"}

(* The lines of a laserdisc that carry test signals.                          *)
LaserdiscVitsLines(standard) ==
  CASE standard = "PAL" -> {19, 20, 332, 333}
    [] standard \in SystemM -> {19, 20, 282, 283}
    [] OTHER -> {}

Encodings4fsc == {"U10", "U16", "TPG21", "S16"}
Encodings == Encodings4fsc \cup {"RAW28M", "RAW40M"}
SubSyncEncodings == {"S16", "RAW28M", "RAW40M"}
SetupLevels == {75, 0}          \* tenths of an IRE

FgLevels == {"white", "light_grey", "dark_grey", "black"}
BgLevels == FgLevels \cup {"transparent"}
LevelToString(level) == IF level = "unknown" THEN "" ELSE level
Waveforms == {"sine", "square", "sawtooth", "triangle"}
RampModes == {"up", "down", "bounce"}
MaxAudioChannelPairs == 8

--------------------------------------------------------------------------------
(* What a new value of each type holds.                                       *)
NewNoise == [enabled |-> FALSE, db |-> 61, spread |-> 0, seed |-> Unset]
NewDropout == [enabled |-> FALSE, scale |-> 0, seed |-> Unset]
NewOverlay == [text |-> "", x |-> 0, y |-> 0, scale |-> 1, fg |-> "white",
               bg |-> "transparent"]
NewChannel == [enabled |-> FALSE, waveform |-> "sine", waveform_text |-> "",
               frequency |-> 1000, amplitude |-> 50, ramp |-> FALSE,
               start |-> Unset, end |-> Unset, mode |-> "up",
               mode_text |-> "", period |-> 0]
NewPair == [pair |-> Unset, description |-> "", left |-> NewChannel,
            right |-> NewChannel]
NewCode == [code_type |-> "", start_value |-> Unset, chapter |-> Unset,
            programme_status |-> Unset, users_code |-> Unset]
NewPresets == [standard |-> "unknown", encoding |-> "U10",
               state |-> "STANDARD_STABLE_LOCKED", pilot_burst |-> FALSE,
               vbi_burst |-> FALSE, setup |-> Unset]

--------------------------------------------------------------------------------
(* Questions about the whole project.                                         *)
Elements(seq) == {seq[k] : k \in DOMAIN seq}
Pairs(section) == Elements(section.pairs)

(* The number of a pair that states none is that of a new one, 0.             *)
PairNumber(pair) == IF pair.pair = Unset THEN 0 ELSE pair.pair

AudioChannelPairIsActive(pair) == pair.left.enabled \/ pair.right.enabled

ProjectAudioChannelPairs(project) ==
  UNION {{PairNumber(p) : p \in Pairs(s)} : s \in Elements(project.sections)}

ProjectEnablesAudio(project) == ProjectAudioChannelPairs(project) # {}

(* -1: no EFM track.                                                          *)
ProjectEfmAudioPair(project) ==
  IF /\ project.output.efm # Unset
     /\ project.presets.standard \in {"PAL", "NTSC"}
     /\ project.output.efm \in ProjectAudioChannelPairs(project)
  THEN project.output.efm ELSE -1

(* The first description that a section gives the pair.                       *)
AudioChannelPairDescription(project, number) ==
  LET Flat[s \in 0 .. Len(project.sections)] ==
        IF s = 0 THEN << >> ELSE Flat[s - 1] \o project.sections[s].pairs
      said == SelectSeq(Flat[Len(project.sections)],
                LAMBDA p : PairNumber(p) = number /\ p.description # "")
  IN  IF said = << >> THEN "" ELSE Head(said).description
===============================================================================
