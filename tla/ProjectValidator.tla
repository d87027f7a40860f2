--------------------------- MODULE ProjectValidator ---------------------------
(* project_validator.cpp: what keeps a project from being generated.  A rule  *)
(* is a condition and the name of its error; a list of rules stops at the     *)
(* first one that applies, as the early returns of the code do.  Hex words    *)
(* are sequences of digits (Bad: not hex), decibels and times are scaled to   *)
(* integers, and the parts of a path that matter are a table.                 *)
EXTENDS ProjectFile, VitsCatalogue, DropoutScale

CONSTANTS PathParts,  \* path -> [root, extension]: "none", "unclosed" or a name
          Profiles,   \* source -> the probed profile, or Bad
          HasProbe,   \* the validator of a run probes, that of the forms not
          Tokens      \* overlay text -> the set of its tokens

Refused(rules) ==
  LET hits == SelectSeq(rules, LAMBDA r : r[1])
  IN  IF hits = << >> THEN {} ELSE {Head(hits)[2]}
FirstOf(seq) ==
  LET hits == SelectSeq(seq, LAMBDA errors : errors # {})
  IN  IF hits = << >> THEN {} ELSE Head(hits)
Error(rules) == {r[2] : r \in {s \in rules : s[1]}}
KnownTokens == {"picture_number", "biphase_hex", "phase_id", "section_name",
                "timecode", "frame_number"}
OutOf(value, range) == value # Unset /\ value \notin range

--------------------------------------------------------------------------------
(* The source of a section: its path, and the profile that its probe finds.   *)
Roots == {"none", "bundled", "user", "project", "output"}

ValidateAssetRootToken(path) == path # "" => PathParts[path].root \in Roots

ValidateProgressiveSourceFamily(section) ==
  PathParts[section.source].extension \in {".exr", ".mkv"}

(* A raster, rate or aspect that the probe could not tell (0) is accepted.    *)
FrameRateMatchesStandard(rate, standard) ==
  rate = 0 \/ rate = IF standard = "PAL" THEN 25000 ELSE 29970
RasterMatchesStandard(raster, standard) ==
  \/ 0 \in Elements(raster)
  \/ raster = <<720, IF standard = "PAL" THEN 576 ELSE 486>>
SampleAspectMatchesStandard(aspect, standard) ==
  aspect = 0 \/ aspect = IF standard = "PAL" THEN 1094 ELSE 908

ValidateExrProfile(p) == Refused(<<
  <<"exr" \notin p.container, "EXR container">>,
  <<p.codec # "openexr", "EXR codec">>,
  <<p.pixel_format # "rgbf", "EXR channels">>,
  <<p.bit_depth # 32, "EXR depth">> >>)

(* What the stream must say of its colours, by standard.                      *)
FieldOrder(standard) == IF standard = "PAL" THEN "tb" ELSE "bt"
Primaries(standard) ==
  CASE standard = "PAL" -> {"bt470bg"}
    [] standard = "NTSC" -> {"smpte170m"}
    [] OTHER -> {"bt470bg", "smpte170m"}
Transfers(standard) == {"bt709"} \cup Primaries(standard)

ValidateMkvProfile(p, standard) == Refused(<<
  <<"matroska" \notin p.container, "MKV container">>,
  <<p.codec # "ffv1", "MKV codec">>,
  <<p.pixel_format # "yuv422p10le", "MKV pixel format">>,
  <<p.bit_depth > 0 /\ p.bit_depth # 10, "MKV depth">>,
  <<p.color_space # "smpte170m", "MKV matrix">>,
  <<p.field_order # FieldOrder(standard), "MKV field order">>,
  <<p.color_primaries \notin Primaries(standard), "MKV primaries">>,
  <<p.color_transfer \notin Transfers(standard), "MKV transfer">>,
  <<p.color_range \notin {"", "tv"}, "MKV range">>,
  <<~SampleAspectMatchesStandard(p.sample_aspect, standard), "MKV aspect">>,
  <<p.cropped, "MKV crop">> >>)

ValidateProfileBySourceFamily(section, standard, profile) ==
  IF PathParts[section.source].extension = ".exr"
  THEN ValidateExrProfile(profile) ELSE ValidateMkvProfile(profile, standard)

ValidateSource(s, standard) ==
  LET profile == Profiles[s.source] IN
  IF profile = Bad THEN {"probe failed"}
  ELSE IF ~RasterMatchesStandard(profile.raster, standard) THEN {"source raster"}
  ELSE IF ~FrameRateMatchesStandard(profile.frame_rate, standard)
       THEN {"source rate"}
  ELSE ValidateProfileBySourceFamily(s, standard, profile)

--------------------------------------------------------------------------------
(* The codes of a section.                                                    *)
Codes(section) ==
  FlattenSeq([k \in DOMAIN section.injections |->
                IF section.injections[k].type = "laserdisc"
                THEN section.injections[k].codes ELSE << >>])

SectionHasLaserdiscInjection(section) ==
  \E i \in Elements(section.injections) : i.type = "laserdisc"

ValidateLaserdiscInjectionStructure(section, disc) ==
  FirstOf(Each(Codes(section), LAMBDA c : Refused(<<
    <<c.code_type \notin CodeTypes, "unknown code type">>,
    <<disc = "CAV" /\ c.code_type \notin ValidCav, "not a CAV code">>,
    <<disc = "CLV" /\ c.code_type \notin ValidClv, "not a CLV code">> >>)))

MaxPictureNumber(standard) == IF standard \in SystemM THEN 79999 ELSE 99999
MaxChapterNumber == 79

(* The digits of a user's code from the right: three free ones, D, X1 up to 7 *)
(* and the key; the number is cut to 32 bits before it is compared.           *)
DigitAt(word, k) == IF k < Len(word) THEN word[Len(word) - k] ELSE 0
ValidateUsersCode(word) ==
  IF word = Unset THEN {} ELSE IF word = Bad THEN {"users_code not hex"}
  ELSE Refused(<<
    <<\E k \in {6, 7} : DigitAt(word, k) # 0, "users_code over 24 bits">>,
    <<DigitAt(word, 4) > 7, "users_code X1">>,
    <<DigitAt(word, 3) # 13, "users_code D">> >>)

ValidateCode(c, type, standard) ==
  LET errors == Refused(<<
    <<~ValidForSection(c.code_type, type), "code not allowed in section">>,
    <<c.code_type \in SystemMOnly /\ standard \notin SystemM, "System M code">>,
    <<c.code_type = "picture_number"
        /\ OutOf(c.start_value, 0 .. MaxPictureNumber(standard)),
      "picture_number range">>,
    <<c.code_type = "fm_picture_number"
        /\ OutOf(c.start_value, 0 .. MaxPictureNumber("NTSC")),
      "fm_picture_number range">>,
    <<c.code_type = "chapter_number"
        /\ OutOf(c.chapter, 0 .. MaxChapterNumber), "chapter range">> >>)
  IN  IF errors = {} /\ c.code_type = "users_code"
      THEN ValidateUsersCode(c.users_code) ELSE errors

ValidateLaserdiscSectionTypeAndCodes(s, standard, disc) ==
  IF disc \notin DiscTypes \/ ~SectionHasLaserdiscInjection(s) THEN {}
  ELSE IF s.section_type = "unknown" THEN {"section_type not set"}
  ELSE FirstOf(Each(Codes(s),
                    LAMBDA c : ValidateCode(c, s.section_type, standard)))

(* A marker section of a CAV disc that is shorter than its band of tracks.    *)
ShortMarker(s, disc) ==
  /\ SectionHasLaserdiscInjection(s) /\ disc = "CAV" /\ ~s.all
  /\ \/ s.section_type = "lead_in" /\ s.frames < 938
     \/ s.section_type = "lead_out" /\ s.frames < 1250

--------------------------------------------------------------------------------
(* The lines of a section and of the project.                                 *)
IsValidFrameLineForStandard(line, standard) ==
  standard \in Standards /\ line \in 1 .. LinesPerFrame(standard)

IsLaserdiscReservedLine(line, standard) ==
  standard \in Standards /\ line \in ReservedLines(standard)

Repeats(seq) == Cardinality(Elements(seq)) # Len(seq)
LinesOfType(s, type) ==
  FlattenSeq([k \in DOMAIN s.injections |->
    IF s.injections[k].type = type THEN s.injections[k].lines ELSE << >>])

ValidateLineInjectionsForSection(s, standard) ==
  LET types == {i.type : i \in Elements(s.injections)} IN
  FirstOf(Each(s.injections, LAMBDA i : Refused(<<
    <<i.type = "vits", "vits in a section">>,
    <<i.type \notin {"laserdisc", "vitc"}, "unsupported injection">>,
    <<i.type = "laserdisc" /\ i.lines # << >>, "lines of laserdisc">>,
    <<i.type = "vitc" /\ i.lines = << >>, "no lines of vitc">>,
    <<\E l \in Elements(i.lines) : ~IsValidFrameLineForStandard(l, standard),
      "line out of frame">> >>))
    \o << Refused(<<
      <<Repeats(LinesOfType(s, "vitc")), "overlapping lines">>,
      <<{"laserdisc", "vitc"} \subseteq types, "vitc with laserdisc">> >>) >>)

(* The runtime has no vitc.                                                   *)
ValidateDeferredLineInjectionSupport(s) ==
  IF \E i \in Elements(s.injections) : i.type \notin {"vits", "laserdisc"}
  THEN {"injection not implemented"} ELSE {}

(* Mutant: the reserved lines are only kept free under custom placement. *)
ValidateVitsLenient(v, standard, disc, placement) ==
  IF v.lines = << >> THEN {"vits without lines"}
  ELSE IF TryGetDefinition(standard, v.vits_type) = Unset THEN {"vits type"}
  ELSE Refused(<<
    <<\E l \in Elements(v.lines) : ~IsValidFrameLineForStandard(l, standard),
      "vits line out of frame">>,
    <<placement = "custom" /\ disc \in DiscTypes
        /\ \E l \in Elements(v.lines) : IsLaserdiscReservedLine(l, standard),
      "vits on a reserved line">> >>)

(* An overlap of two signals is found after the faults of each.               *)
ValidateVits(v, standard, disc, placement) ==
  LET definition == TryGetDefinition(standard, v.vits_type)
      stray(allowed) == Elements(v.lines) \ allowed # {}
  IN  IF v.vits_type = "" \/ v.lines = << >> THEN {"vits without type or lines"}
      ELSE IF definition = Unset THEN {"vits type"}
      ELSE Refused(<<
        <<\E l \in Elements(v.lines) : ~IsValidFrameLineForStandard(l, standard),
          "vits line out of frame">>,
        <<disc \in DiscTypes
            /\ \E l \in Elements(v.lines) : IsLaserdiscReservedLine(l, standard),
          "vits on a reserved line">>,
        <<placement = "standard" /\ definition.recommended_frame_line > 0
            /\ stray({definition.recommended_frame_line}),
          "vits off its standard line">>,
        <<placement = "laserdisc" /\ stray(LaserdiscVitsLines(standard)),
          "vits off the laserdisc lines">> >>)

AllVitsLines(vits) == FlattenSeq(Each(vits, LAMBDA v : v.lines))

ValidateProjectLineInjections(p) ==
  LET li == p.line_injections
      standard == p.presets.standard
      coded == \E s \in Elements(p.sections) : SectionHasLaserdiscInjection(s)
  IN  FirstOf(
        << Refused(<<
             <<li.disc_type = "" /\ coded, "disc_type not set">>,
             <<li.disc_type \notin DiscTypes \cup {""}, "disc_type">> >>) >>
        \o Each(li.vits, LAMBDA v :
                  ValidateVits(v, standard, li.disc_type, li.placement))
        \o << Refused(<<
             <<Repeats(AllVitsLines(li.vits)), "overlapping vits lines">>,
             <<li.disc_type # "" /\ standard \in SystemM
                 /\ \A v \in Elements(li.vits) : v.vits_type # "virs",
               "no virs">> >>) >>)

--------------------------------------------------------------------------------
(* The effects of a section.                                                  *)
WhiteSnrLine(standard) == IF standard = "PAL" THEN 19 ELSE 20

ValidateNoiseParameters(s) ==
  IF ~s.noise.enabled THEN {} ELSE Refused(<<
    <<s.noise.db \notin 20 .. 61, "noise_db range">>,
    <<s.noise.spread < 0, "noise_spread_db negative">>,
    <<s.noise.db - s.noise.spread < 20, "white noise floor">> >>)

NoiseWarnings(s, standard, vits_lines) ==
  Error({<<s.noise.enabled /\ s.noise.spread > 0
             /\ WhiteSnrLine(standard) \notin vits_lines, "no white flag line">>})

DropoutActive(d) == d.enabled /\ d.scale > 0

(* A block without effect is an error, unless no scale is set at all.         *)
ValidateDropoutParameters(s) ==
  IF s.random.scale = 0 /\ s.scratch.scale = 0 THEN {} ELSE Refused(<<
    <<s.random.scale \notin 0 .. 20, "random scale">>,
    <<s.scratch.scale \notin 0 .. 20, "scratch scale">>,
    <<~DropoutActive(s.random) /\ ~DropoutActive(s.scratch),
      "dropouts without effect">> >>)

DropoutWarnings(s) ==
  Error({<<DropoutActive(s.scratch) /\ s.scratch.scale \in DOMAIN MaxDurFrames
             /\ ~s.all /\ MaxDurFrames[s.scratch.scale] > s.frames,
           "scratch outlives section">>})

ValidateOsdConfig(s) ==
  FirstOf(Each(s.overlays, LAMBDA o : Refused(<<
    <<o.scale \notin 1 .. 4, "overlay scale">>,
    <<o.fg = "unknown", "overlay foreground">>,
    <<o.bg = "unknown", "overlay background">>,
    <<~(Tokens[o.text] \subseteq KnownTokens \cup {""}), "overlay token">> >>)))

--------------------------------------------------------------------------------
(* Audio: every pair and both of its sides are looked at.  For periods of     *)
(* less than 33 whole seconds 30 frames per second decide as 29.97 do.        *)
FramesPerSecond(standard) == IF standard = "PAL" THEN 25 ELSE 30
IsAudioFrequencyInRange(hz) == hz \in 0 .. 22000

ValidateAudioChannel(a, s, standard) ==
  LET stated == a.start # Unset /\ a.end # Unset IN
  IF ~a.enabled THEN {} ELSE Refused(<<
    <<a.waveform = "unknown", "waveform">>,
    <<a.amplitude \notin 0 .. 100, "amplitude">>,
    <<~IsAudioFrequencyInRange(a.frequency), "frequency">>,
    <<a.ramp /\ ~stated, "ramp without start and end">>,
    <<a.ramp /\ a.mode = "unknown", "ramp mode">>,
    <<a.ramp /\ stated /\ ~(IsAudioFrequencyInRange(a.start)
                             /\ IsAudioFrequencyInRange(a.end)), "ramp range">>,
    <<a.ramp /\ a.period < 0, "ramp period">>,
    <<a.ramp /\ a.period > 0 /\ ~s.all
        /\ a.period * FramesPerSecond(standard) > s.frames,
      "ramp longer than section">> >>)

ValidateAudioPair(s, k, standard) ==
  LET p == s.pairs[k]
      earlier == {s.pairs[j].pair : j \in 1 .. k - 1}
      wrong == Refused(<<
        <<p.pair = Unset, "pair not stated">>,
        <<OutOf(p.pair, 0 .. MaxAudioChannelPairs - 1), "pair range">>,
        <<p.pair \in earlier, "pair twice">>,
        <<~AudioChannelPairIsActive(p), "pair without a channel">> >>)
  IN  IF wrong # {} THEN wrong
      ELSE ValidateAudioChannel(p.left, s, standard)
             \cup ValidateAudioChannel(p.right, s, standard)

ValidateAudioParameters(s, standard) ==
  UNION {ValidateAudioPair(s, k, standard) : k \in DOMAIN s.pairs}

--------------------------------------------------------------------------------
(* The EFM track: one programme section is one track.                         *)
MaxEfmTracks == 79

ProjectDeclaresChannelPair(p, number) ==
  \E s \in Elements(p.sections) : \E c \in Pairs(s) : c.pair = number

OfType(p, type) == SelectSeq(p.sections, LAMBDA s : s.section_type = type)

ValidateEfmAudioOutput(p) ==
  Error({<<p.output.efm \notin 0 .. MaxAudioChannelPairs - 1, "efm pair range">>,
         <<p.presets.standard \notin {"PAL", "NTSC"}, "efm standard">>,
         <<p.presets.standard \in {"PAL", "NTSC"}
             /\ Len(OfType(p, "programme_area")) > MaxEfmTracks, "efm tracks">>})

(* A track lasts four seconds, the first one with its pause six.              *)
EfmWarnings(p) ==
  LET tracks == OfType(p, "programme_area")
      least(k) == FramesPerSecond(p.presets.standard) * IF k = 1 THEN 6 ELSE 4
  IN  Error({<<~ProjectDeclaresChannelPair(p, p.output.efm), "efm pair unused">>,
             <<p.presets.standard \in {"PAL", "NTSC"}
                 /\ \E k \in DOMAIN tracks : ~tracks[k].all
                      /\ tracks[k].frames \in 1 .. least(k) - 1, "efm track short">>,
             <<OfType(p, "lead_in") = << >>, "no table of contents">>})

--------------------------------------------------------------------------------
(* Mutant: only the section before a lead-in and after a lead-out are looked at. *)
OrderingByNeighbours(p) ==
  LET type(k) == p.sections[k].section_type IN
  Error({<<\E k \in 1 .. Len(p.sections) - 1 :
             type(k) = "lead_out" \/ type(k + 1) = "lead_in", "order">>})

(* Sections in the order of a disc: the places of the first lead-in and of    *)
(* the last lead-out bound the programme.                                     *)
ValidateSectionOrdering(p) ==
  LET n == Len(p.sections)
      type(k) == p.sections[k].section_type
      ins == {k \in 1 .. n : type(k) = "lead_in"}
      outs == {k \in 1 .. n : type(k) = "lead_out"}
      lead_in == CHOOSE k \in ins \cup {0} : \A j \in ins : k <= j /\ k # 0
      lead_out == CHOOSE k \in outs \cup {n + 1} : \A j \in outs : k >= j /\ k <= n
  IN  IF ins \cup outs = {} THEN {} ELSE
      Error({<<Cardinality(ins) > 1, "two lead_in">>,
             <<Cardinality(outs) > 1, "two lead_out">>,
             <<ins # {} /\ lead_in > 1, "before the lead_in">>,
             <<outs # {} /\ lead_out < n, "after the lead_out">>,
             <<\E k \in lead_in + 1 .. lead_out - 1 : type(k) = "unknown",
               "not a programme area">>})

--------------------------------------------------------------------------------
(* Validate: the project's own rules first, then its sections; the loop ends  *)
(* at the first error, whichever rule it was.                                 *)
ValidatePresets(c) ==
  LET known == c.standard \in Standards IN
  Error({<<~known, "standard">>,
         <<c.encoding \notin Encodings, "encoding">>,
         <<c.state # "STANDARD_STABLE_LOCKED", "signal state">>,
         <<c.pilot_burst /\ c.standard # "PAL", "pilot burst">>,
         <<c.vbi_burst /\ ~(c.pilot_burst /\ c.standard # "PAL"), "vbi burst">>,
         <<c.setup # Unset /\ c.standard \notin SystemM, "setup of PAL">>,
         <<c.standard \in SystemM /\ OutOf(c.setup, SetupLevels), "setup level">>})

ValidateOutput(o) ==
  Error({<<o.video_path = "", "no video path">>,
         <<~ValidateAssetRootToken(o.video_path), "output root">>,
         <<o.signal_type \notin {"composite", "yc"}, "signal type">>,
         <<o.signal_type = "yc" /\ o.video_path # ""
             /\ PathParts[o.video_path].extension # ".cvbsy", "luma extension">>})

ProjectErrors(p) ==
  ValidatePresets(p.presets) \cup ValidateOutput(p.output)
    \cup (IF p.output.efm = Unset THEN {} ELSE ValidateEfmAudioOutput(p))
    \cup Error({<<p.sections = << >>, "no section">>})
    \cup ValidateSectionOrdering(p) \cup ValidateProjectLineInjections(p)

VitsLines(p) == Elements(AllVitsLines(p.line_injections.vits))

(* The rules of a section, one set of errors after another.                   *)
CodeErrors(s, p) ==
  FirstOf(<<
    ValidateLaserdiscInjectionStructure(s, p.line_injections.disc_type),
    ValidateLaserdiscSectionTypeAndCodes(s, p.presets.standard,
                                         p.line_injections.disc_type),
    ValidateLineInjectionsForSection(s, p.presets.standard),
    ValidateDeferredLineInjectionSupport(s) >>)

SourceErrors(s) ==
  IF s.source = "" THEN {"no source"} ELSE Refused(<<
    <<~ValidateAssetRootToken(s.source), "source root">>,
    <<~s.all /\ s.frames <= 0, "duration">>,
    <<s.repeat < 1, "repeat">>,
    <<~ValidateProgressiveSourceFamily(s), "source family">> >>)

EffectErrors(s, p) ==
  FirstOf(<<ValidateNoiseParameters(s), ValidateDropoutParameters(s),
            ValidateOsdConfig(s), ValidateAudioParameters(s, p.presets.standard),
            SourceErrors(s)>>)

(* before: the errors found so far, which end the loop after the code rules.  *)
SectionErrors(s, p, before) ==
  LET codes == CodeErrors(s, p)
      effects == EffectErrors(s, p)
  IN  IF s.type # "progressive" THEN {"section type"}
      ELSE IF codes # {} \/ before # {} THEN codes
      ELSE IF effects # {} THEN effects
      ELSE IF HasProbe THEN ValidateSource(s, p.presets.standard) ELSE {}

ErrorsOf(p) ==
  LET Loop[k \in 0 .. Len(p.sections)] ==
        IF k = 0 THEN [errors |-> ProjectErrors(p), going |-> TRUE]
        ELSE IF ~Loop[k - 1].going THEN Loop[k - 1]
        ELSE LET before == Loop[k - 1].errors
                 all == before \cup SectionErrors(p.sections[k], p, before)
             IN  [errors |-> all, going |-> all = {}]
  IN  Loop[Len(p.sections)].errors

(* Those of a refused project are left out.                                   *)
WarningsOf(p) ==
  Error({<<p.presets.pilot_burst /\ p.presets.encoding \notin SubSyncEncodings,
           "pilot burst clipped">>})
    \cup (IF p.output.efm = Unset THEN {} ELSE EfmWarnings(p))
    \cup UNION {
      Error({<<ShortMarker(s, p.line_injections.disc_type), "short marker">>,
             <<~s.all /\ s.repeat # 1, "repeat ignored">>})
      \cup NoiseWarnings(s, p.presets.standard, VitsLines(p))
      \cup DropoutWarnings(s) : s \in Elements(p.sections)}

Validate(p) ==
  LET errors == ErrorsOf(p) IN
  [is_valid |-> errors = {}, errors |-> errors,
   warnings |-> IF errors = {} THEN WarningsOf(p) ELSE {}]
===============================================================================
