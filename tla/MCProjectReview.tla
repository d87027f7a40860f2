--------------------------- MODULE MCProjectReview ---------------------------
(* Four projects - a CAV disc, a CLV disc, a plain PAL-M tape and an NTSC one *)
(* - and the settings that the forms or a text editor may put into them.      *)
EXTENDS ProjectReview

MCPathParts ==
  [p \in {"out.composite", "out.cvbsy", "{nowhere}/out", "clip.mkv", "still.exr",
          "clip.avi", "{broken"} |->
     [root |-> CASE p = "{nowhere}/out" -> "nowhere" [] p = "{broken" -> "unclosed"
                 [] OTHER -> "none",
      extension |-> CASE p = "clip.mkv" -> ".mkv" [] p = "still.exr" -> ".exr"
                      [] p = "out.cvbsy" -> ".cvbsy" [] OTHER -> ".other"]]

Clip == [container |-> {"matroska", "webm"}, codec |-> "ffv1",
         pixel_format |-> "yuv422p10le", bit_depth |-> 10,
         color_space |-> "smpte170m", field_order |-> "tb",
         color_primaries |-> "bt470bg", color_transfer |-> "bt709",
         color_range |-> "tv", sample_aspect |-> 1094, cropped |-> FALSE,
         raster |-> <<720, 576>>, frame_rate |-> 25000]
Still == [container |-> {"exr"}, codec |-> "openexr", pixel_format |-> "rgbf",
          bit_depth |-> 32, raster |-> <<0, 0>>, frame_rate |-> 0]
MCProfiles ==
  [s \in {"clip.mkv", "still.exr", "clip.avi", "{broken"} |->
     CASE s = "clip.mkv" -> Clip [] s = "still.exr" -> Still [] OTHER -> Bad]
MCSourceFrames == [s \in DOMAIN MCProfiles |-> 30]
MCTokens ==
  [t \in {"", "No {picture_number}", "{when}"} |->
     CASE t = "" -> {} [] t = "{when}" -> {"when"} [] OTHER -> {"picture_number"}]

Code(type) == [NewCode EXCEPT !.code_type = type]
LaserdiscWith(codes) == <<[type |-> "laserdisc", lines |-> << >>, codes |-> codes]>>

Part(name, type, injections) ==
  [name |-> name, type |-> "progressive", source |-> "still.exr",
   section_type |-> type, start_frame |-> 0, injections |-> injections,
   all |-> FALSE, frames |-> 200, repeat |-> 1, noise |-> NewNoise,
   random |-> NewDropout, scratch |-> NewDropout, overlays |-> << >>,
   pairs |-> << >>]

Tone == [NewChannel EXCEPT !.enabled = TRUE]
WithTone(s) == [s EXCEPT !.pairs = <<[NewPair EXCEPT !.pair = 0, !.left = Tone]>>]

New(standard, injections, sections) ==
  [name |-> "p", version |-> "", description |-> "",
   presets |-> [NewPresets EXCEPT !.standard = standard],
   output |-> [video_path |-> "out.composite", signal_type |-> "composite",
               efm |-> Unset],
   line_injections |-> injections, sections |-> sections]
Signals(disc, placement, vits) ==
  [disc_type |-> disc, placement |-> placement, vits |-> vits]
Signal(type, line) == [vits_type |-> type, lines |-> <<line>>]

CavDisc ==
  [New("PAL", Signals("CAV", "laserdisc", <<Signal("uk-national", 19)>>),
       <<Part("in", "lead_in", LaserdiscWith(<<Code("lead_in")>>)),
         WithTone(Part("a", "programme_area",
           LaserdiscWith(<<Code("picture_number"), Code("chapter_number")>>))),
         Part("out", "lead_out", LaserdiscWith(<<Code("lead_out")>>))>>)
   EXCEPT !.output.efm = 0]
ClvDisc ==
  New("NTSC", Signals("CLV", "custom", <<Signal("virs", 19)>>),
      <<WithTone(Part("a", "programme_area",
          LaserdiscWith(<<Code("programme_time_code"), Code("fm_white_flag")>>)))>>)
Tape == New("PAL_M", Signals("", "standard", <<Signal("ntc7-composite", 17)>>),
            <<Part("a", "unknown", << >>), WithTone(Part("b", "unknown", << >>))>>)
TestTape == New("NTSC", Signals("", "standard", <<Signal("fcc-multiburst", 18)>>),
                <<WithTone(Part("a", "unknown", << >>))>>)

(* Trees of a text editor: a key that nobody knows, a section without a       *)
(* duration, a word of hex that is none, a number that is none.               *)
Tree == EmitString(TestTape)
Broken ==
  {Tree @@ ("sectons" :> << >>),
   [Tree EXCEPT !["sections"] = << "name" :> "a" >>],
   [Tree EXCEPT !["sections"][1]["duration_frames"] = Bad],
   [Tree EXCEPT !["output"] = @ @@ ("efm_audio" :> << >>)]}

(* A repeat that the validator says is ignored.                               *)
Repeating == [Tree EXCEPT !["sections"][1] = @ @@ ("duration_repeat" :> 2)]

MCFiles == {EmitString(p) : p \in {CavDisc, ClvDisc, Tape, TestTape}} \cup Broken
             \cup {Repeating}

--------------------------------------------------------------------------------
ProjectEdits(p) ==
  {[p EXCEPT !.presets.standard = s] : s \in Standards \cup {"unknown"}}
  \cup {[p EXCEPT !.presets.setup = v] : v \in {Unset, 0, 50}}
  \cup {[p EXCEPT !.presets.pilot_burst = TRUE], [p EXCEPT !.presets.vbi_burst = TRUE],
        [p EXCEPT !.presets.encoding = "S16"], [p EXCEPT !.description = "text"]}
  \cup {[p EXCEPT !.output.efm = v] : v \in {Unset, 0, 3}}
  \cup {[p EXCEPT !.output.video_path = v] : v \in {"", "{nowhere}/out", "out.cvbsy"}}
  \cup {[p EXCEPT !.output.signal_type = "yc"]}
  \cup {[p EXCEPT !.line_injections.disc_type = d] : d \in {"", "CAV", "CLV"}}
  \cup {[p EXCEPT !.line_injections.placement = v] : v \in Placements}
  \cup {[p EXCEPT !.line_injections.vits = v] :
          v \in {<< >>, <<Signal("vits17", 17)>>, <<Signal("itu-combination", 20)>>,
                 <<Signal("virs", 19), Signal("ntc7-combination", 20)>>,
                 <<Signal("itu-composite", 20), Signal("vits20", 20)>>}}
  \cup {[p EXCEPT !.sections = v] :
          v \in {Reverse(p.sections), Append(p.sections, Part("end", "programme_area", << >>))}}

Ramp(period, mode) == [Tone EXCEPT !.ramp = TRUE, !.start = 100, !.end = 900,
                                   !.mode = mode, !.mode_text = mode, !.period = period]

SectionEdits(s) ==
  {[s EXCEPT !.section_type = t] : t \in SectionTypes}
  \cup {[s EXCEPT !.source = v] : v \in {"", "clip.mkv", "clip.avi"}}
  \cup {[s EXCEPT !.all = TRUE, !.frames = 0, !.repeat = n] : n \in {0, 1, 3}}
  \cup {[s EXCEPT !.repeat = 2], [s EXCEPT !.frames = 0]}
  \cup {[s EXCEPT !.noise = [enabled |-> e, db |-> 40, spread |-> x, seed |-> 7]] :
          e \in BOOLEAN, x \in {0, 30}}
  \cup {[s EXCEPT !.random = [enabled |-> n > 0, scale |-> n, seed |-> 5]] : n \in {-1, 0, 4, 21}}
  \cup {[s EXCEPT !.scratch = [enabled |-> TRUE, scale |-> 20, seed |-> Unset]]}
  \cup {[s EXCEPT !.overlays = <<[NewOverlay EXCEPT !.text = t, !.scale = n]>>] :
          t \in DOMAIN MCTokens, n \in {1, 5}}
  \cup {[s EXCEPT !.pairs = <<[NewPair EXCEPT !.pair = n, !.right = c]>>] :
          n \in {Unset, 0}, c \in {NewChannel, [NewChannel EXCEPT !.frequency = 5], Tone,
            [Tone EXCEPT !.waveform = "unknown"], Ramp(3, "down"), Ramp(9, "up"), [Tone EXCEPT !.ramp = TRUE,
            !.start = 0, !.end = 5]}}
  \cup {[s EXCEPT !.injections = LaserdiscWith(<<c>>)] :
          c \in {[Code("users_code") EXCEPT !.users_code = w] :
                   w \in {Bad, <<8, 0, 13, 1, 2, 3>>, <<8, 9, 13, 1, 2, 3>>}}
                \cup {[Code("picture_number") EXCEPT !.start_value = n] : n \in {Unset, -1, 90000}}
                \cup {Code("fm_picture_number"), Code("lead_out")}}
  \cup {[s EXCEPT !.injections = <<[type |-> t, lines |-> <<21>>, codes |-> << >>]>>] :
          t \in {"vitc", "laserdisc"}}

(* Sections other than the last are edited in the same way as the first.      *)
MCEdits(p) ==
  IF p.sections = << >> THEN {}
  ELSE ProjectEdits(p) \cup
    UNION {{[p EXCEPT !.sections[k] = t] : t \in SectionEdits(p.sections[k])} :
             k \in {1, Len(p.sections)}}
===============================================================================
