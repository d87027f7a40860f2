------------------------------ MODULE ProjectFile ------------------------------
(* yaml_project_emitter.cpp and yaml_project_parser.cpp: a project as a tree  *)
(* of maps.  A map is a function from the keys it states; the emitter leaves  *)
(* out what a new project holds anyway, the parser refuses a key it does not  *)
(* know, and a number that does not convert is refused by some fields and     *)
(* taken for the default by others.                                           *)
EXTENDS ProjectModel, SequencesExt

CONSTANT All                 \* the word "all" of duration_frames

Nothing == << >>             \* the map without keys
Put(stated, key, value) == IF stated THEN key :> value ELSE Nothing
Block(key, map) == Put(DOMAIN map # {}, key, map)
List(key, seq) == Put(seq # << >>, key, seq)
Each(seq, Op(_)) == [k \in DOMAIN seq |-> Op(seq[k])]

--------------------------------------------------------------------------------
(* The emitter.                                                               *)
EmitProjectBlock(p) ==
  Put(p.name # "", "name", p.name) @@ Put(p.version # "", "version", p.version)
    @@ Put(p.description # "", "description", p.description)

EmitCvbsPresets(c) ==
  [video_standard_preset |-> StandardToString(c.standard),
   sample_encoding_preset |-> c.encoding, signal_state_preset |-> c.state]
    @@ Put(c.pilot_burst, "pal_laserdisc_pilot_burst", TRUE)
    @@ Put(c.vbi_burst, "ntsc_laserdisc_vbi_burst", TRUE)
    @@ Put(c.setup # Unset, "ntsc_black_setup_ire", c.setup)

EmitOutputTargets(o) ==
  ("video_path" :> o.video_path)
    @@ Put(o.signal_type # "composite", "signal_type", o.signal_type)
    @@ Put(o.efm # Unset, "efm_audio", "pair" :> o.efm)

EmitVits(v) == ("vits_type" :> v.vits_type) @@ List("target_lines", v.lines)

EmitProjectLineInjections(l) ==
  Put(l.disc_type # "", "disc_type", l.disc_type)
    @@ Put(l.placement # "standard", "placement", l.placement)
    @@ List("vits", Each(l.vits, EmitVits))

EmitLineInjectionCode(c) ==
  ("code_type" :> c.code_type)
    @@ Put(c.start_value # Unset, "start_value", c.start_value)
    @@ Put(c.chapter # Unset, "chapter", c.chapter)
    @@ Put(c.programme_status # Unset, "programme_status", c.programme_status)
    @@ Put(c.users_code # Unset, "users_code", c.users_code)

EmitLineInjection(i) ==
  ("type" :> i.type) @@ List("target_lines", i.lines)
    @@ List("codes", Each(i.codes, EmitLineInjectionCode))

(* Mutant: the spread is written of a section without noise, too. *)
EmitNoiseSpread(n) ==
  Put(n.enabled, "noise_db", n.db)
    @@ Put(n.spread # 0, "noise_spread_db", n.spread)
    @@ Put(n.seed # Unset, "noise_seed", n.seed)

EmitNoise(n) ==
  Put(n.enabled, "noise_db", n.db)
    @@ Put(n.enabled /\ n.spread # 0, "noise_spread_db", n.spread)
    @@ Put(n.seed # Unset, "noise_seed", n.seed)

EmitDropoutBlock(d) ==
  IF d.scale <= 0 /\ d.seed = Unset THEN Nothing
  ELSE ("scale" :> d.scale) @@ Put(d.seed # Unset, "seed", d.seed)

EmitDropouts(s) == Block("random", EmitDropoutBlock(s.random))
                     @@ Block("scratch", EmitDropoutBlock(s.scratch))

EmitOverlay(o) ==
  ("text" :> o.text) @@ Put(o.x # 0, "x", o.x) @@ Put(o.y # 0, "y", o.y)
    @@ Put(o.scale # NewOverlay.scale, "scale", o.scale)
    @@ Put(o.fg # NewOverlay.fg, "fg_luma", LevelToString(o.fg))
    @@ Put(o.bg # NewOverlay.bg, "bg_luma", LevelToString(o.bg))

EmitRamp(a) ==
  Put(a.start # Unset, "start", a.start) @@ Put(a.end # Unset, "end", a.end)
    @@ Put(a.mode_text # "", "mode", a.mode_text)
    @@ Put(a.period # 0, "period", a.period)

(* Mutant: a ramp that still is at its defaults is left out. *)
EmitAudioChannelBlocks(a) ==
  Put(a.waveform_text # "", "waveform", a.waveform_text)
    @@ Put(a.frequency # NewChannel.frequency, "frequency", a.frequency)
    @@ Put(a.amplitude # NewChannel.amplitude, "amplitude", a.amplitude)
    @@ Put(a.ramp /\ a.mode_text # "", "ramp", EmitRamp(a))

EmitAudioChannel(a) ==
  Put(a.waveform_text # "", "waveform", a.waveform_text)
    @@ Put(a.frequency # NewChannel.frequency, "frequency", a.frequency)
    @@ Put(a.amplitude # NewChannel.amplitude, "amplitude", a.amplitude)
    @@ Put(a.ramp, "ramp", EmitRamp(a))

EmitPair(p) ==
  Put(p.pair # Unset, "pair", p.pair)
    @@ Put(p.description # "", "description", p.description)
    @@ Put(p.left.enabled, "left", EmitAudioChannel(p.left))
    @@ Put(p.right.enabled, "right", EmitAudioChannel(p.right))

EmitSection(s) ==
  [name |-> s.name, type |-> s.type,
   duration_frames |-> IF s.all THEN All ELSE s.frames]
    @@ Put(s.source # "", "source", s.source)
    @@ Put(s.all /\ s.repeat > 1, "duration_repeat", s.repeat)
    @@ Put(s.section_type # "unknown", "section_type", s.section_type)
    @@ Put(s.start_frame # 0, "start_frame", s.start_frame)
    @@ List("line_injections", Each(s.injections, EmitLineInjection))
    @@ Block("noise", EmitNoise(s.noise))
    @@ Block("dropouts", EmitDropouts(s))
    @@ Block("osd", List("overlays", Each(s.overlays, EmitOverlay)))
    @@ Block("audio", List("channel_pairs", Each(s.pairs, EmitPair)))

EmitString(p) ==
  Block("project", EmitProjectBlock(p))
    @@ [cvbs_presets |-> EmitCvbsPresets(p.presets),
        output |-> EmitOutputTargets(p.output),
        sections |-> Each(p.sections, EmitSection)]
    @@ Block("line_injections", EmitProjectLineInjections(p.line_injections))

--------------------------------------------------------------------------------
(* The parser.  Strict fields refuse what does not convert, lenient ones and  *)
(* texts fall back.                                                           *)
Stated(map, key) == key \in DOMAIN map
Get(map, key, default) == IF Stated(map, key) THEN map[key] ELSE default
Lenient(map, key, default) ==
  IF Stated(map, key) /\ map[key] # Bad THEN map[key] ELSE default

Converts(map, keys) == \A k \in keys \cap DOMAIN map : map[k] # Bad
Items(map, key) == Elements(Get(map, key, << >>))

(* ValidateAllowedKeys, and the fields that a map must state or convert.      *)
Fits(map, allowed, required, strict) ==
  /\ map # Bad
  /\ DOMAIN map \subseteq allowed
  /\ required \subseteq DOMAIN map
  /\ Converts(map, strict)

FitsCode(c) ==
  /\ Fits(c, {"code_type", "start_value", "chapter", "programme_status",
              "users_code"}, {"code_type"}, {"start_value", "chapter"})
  /\ c["code_type"] # ""

FitsInjection(i) ==
  /\ Fits(i, {"type", "target_lines", "codes"}, {"type"},
          {"target_lines", "codes"})
  /\ i["type"] # ""
  /\ Bad \notin Items(i, "target_lines")
  /\ \A c \in Items(i, "codes") : FitsCode(c)

FitsVits(v) ==
  /\ Fits(v, {"vits_type", "target_lines"}, {"vits_type"}, {"target_lines"})
  /\ v["vits_type"] # ""
  /\ Bad \notin Items(v, "target_lines")

FitsProjectLineInjections(l) ==
  /\ Fits(l, {"disc_type", "placement", "vits"}, {}, {"vits"})
  /\ Lenient(l, "placement", "standard") \in Placements
  /\ Converts(l, {"placement"})
  /\ \A v \in Items(l, "vits") : FitsVits(v)

(* A spread without a level is refused.                                       *)
FitsNoise(n) ==
  /\ Fits(n, {"noise_db", "noise_spread_db", "noise_seed"}, {},
          {"noise_db", "noise_seed"})
  /\ Stated(n, "noise_spread_db") => Stated(n, "noise_db")

FitsDropoutBlock(d) == Fits(d, {"scale", "seed"}, {}, {"seed"})

FitsDropouts(d) ==
  /\ Fits(d, {"random", "scratch"}, {}, {})
  /\ \A k \in DOMAIN d : FitsDropoutBlock(d[k])

FitsOsd(o) ==
  /\ Fits(o, {"overlays"}, {}, {"overlays"})
  /\ \A v \in Items(o, "overlays") :
       Fits(v, {"text", "x", "y", "scale", "fg_luma", "bg_luma"}, {}, {})

FitsAudioChannel(a) ==
  /\ Fits(a, {"waveform", "frequency", "amplitude", "ramp"}, {},
          {"frequency", "amplitude"})
  /\ Stated(a, "ramp") => Fits(a["ramp"], {"start", "end", "mode", "period"},
                               {}, {"start", "end", "period"})

FitsPair(p) ==
  /\ Fits(p, {"pair", "description", "left", "right"}, {}, {"pair"})
  /\ \A side \in {"left", "right"} \cap DOMAIN p : FitsAudioChannel(p[side])

FitsAudio(a) ==
  /\ Fits(a, {"channel_pairs"}, {"channel_pairs"}, {"channel_pairs"})
  /\ \A p \in Items(a, "channel_pairs") : FitsPair(p)

FitsSection(s) ==
  /\ Fits(s, {"name", "type", "section_type", "duration_frames",
              "duration_repeat", "line_injections", "source", "start_frame",
              "noise", "dropouts", "osd", "audio"}, {"duration_frames"},
          {"duration_frames", "duration_repeat", "line_injections"})
  /\ Stated(s, "section_type") =>
       s["section_type"] \in SectionTypes \ {"unknown"}
  /\ \A i \in Items(s, "line_injections") : FitsInjection(i)
  /\ Stated(s, "noise") => FitsNoise(s["noise"])
  /\ Stated(s, "dropouts") => FitsDropouts(s["dropouts"])
  /\ Stated(s, "osd") => FitsOsd(s["osd"])
  /\ Stated(s, "audio") => FitsAudio(s["audio"])

FitsOutput(o) ==
  /\ Fits(o, {"video_path", "signal_type", "efm_audio"}, {}, {})
  /\ Stated(o, "efm_audio") =>
       Fits(o["efm_audio"], {"pair"}, {"pair"}, {"pair"})

FitsRoot(root) ==
  /\ Fits(root, {"project", "cvbs_presets", "output", "line_injections",
                 "sections"}, {"cvbs_presets", "sections", "output"},
          {"sections"})
  /\ Stated(root, "project") =>
       LET head == {"name", "version", "description"} IN
       Fits(root["project"], head, {}, head)
  /\ Fits(root["cvbs_presets"],
          {"video_standard_preset", "sample_encoding_preset",
           "signal_state_preset", "pal_laserdisc_pilot_burst",
           "ntsc_laserdisc_vbi_burst", "ntsc_black_setup_ire"}, {},
          {"ntsc_black_setup_ire"})
  /\ FitsOutput(root["output"])
  /\ Stated(root, "line_injections") =>
       FitsProjectLineInjections(root["line_injections"])
  /\ \A s \in Items(root, "sections") : FitsSection(s)

--------------------------------------------------------------------------------
ParseCode(c) ==
  [code_type |-> c["code_type"],
   start_value |-> Get(c, "start_value", Unset),
   chapter |-> Get(c, "chapter", Unset),
   programme_status |-> Get(c, "programme_status", Unset),
   users_code |-> Get(c, "users_code", Unset)]

ParseLineInjection(i) ==
  [type |-> i["type"], lines |-> Get(i, "target_lines", << >>),
   codes |-> Each(Get(i, "codes", << >>), ParseCode)]

ParseVits(v) ==
  [vits_type |-> v["vits_type"], lines |-> Get(v, "target_lines", << >>)]

ParseProjectLineInjections(l) ==
  [disc_type |-> Lenient(l, "disc_type", ""),
   placement |-> Get(l, "placement", "standard"),
   vits |-> Each(Get(l, "vits", << >>), ParseVits)]

ParseNoise(n) ==
  [enabled |-> Stated(n, "noise_db"),
   db |-> Get(n, "noise_db", NewNoise.db),
   spread |-> Lenient(n, "noise_spread_db", NewNoise.spread),
   seed |-> Get(n, "noise_seed", Unset)]

ParseDropoutBlock(d) ==
  LET scale == Lenient(d, "scale", 0) IN
  [enabled |-> scale > 0, scale |-> scale, seed |-> Get(d, "seed", Unset)]

ParseOverlay(o) ==
  [text |-> Lenient(o, "text", ""), x |-> Lenient(o, "x", 0),
   y |-> Lenient(o, "y", 0), scale |-> Lenient(o, "scale", 1),
   fg |-> IF Stated(o, "fg_luma") THEN Known(FgLevels, o["fg_luma"])
                                  ELSE NewOverlay.fg,
   bg |-> IF Stated(o, "bg_luma") THEN Known(BgLevels, o["bg_luma"])
                                  ELSE NewOverlay.bg]

ParseAudioChannel(a) ==
  LET ramp == Get(a, "ramp", Nothing) IN
  [enabled |-> TRUE,
   waveform |-> IF Stated(a, "waveform") THEN Known(Waveforms, a["waveform"])
                                         ELSE NewChannel.waveform,
   waveform_text |-> Lenient(a, "waveform", ""),
   frequency |-> Get(a, "frequency", NewChannel.frequency),
   amplitude |-> Get(a, "amplitude", NewChannel.amplitude),
   ramp |-> Stated(a, "ramp"),
   start |-> Get(ramp, "start", Unset),
   end |-> Get(ramp, "end", Unset),
   mode |-> IF Stated(ramp, "mode") THEN Known(RampModes, ramp["mode"])
                                    ELSE NewChannel.mode,
   mode_text |-> Lenient(ramp, "mode", ""),
   period |-> Get(ramp, "period", NewChannel.period)]

ParseChannel(p, side) ==
  IF Stated(p, side) THEN ParseAudioChannel(p[side]) ELSE NewChannel

ParsePair(p) ==
  [pair |-> Get(p, "pair", Unset),
   description |-> Lenient(p, "description", ""),
   left |-> ParseChannel(p, "left"), right |-> ParseChannel(p, "right")]

(* A duration of 'all' counts no frames; without a repeat there is one.       *)
ParseSection(s) ==
  LET drops == Get(s, "dropouts", Nothing) IN
  [name |-> Lenient(s, "name", ""), type |-> Lenient(s, "type", ""),
   source |-> Lenient(s, "source", ""),
   section_type |-> Get(s, "section_type", "unknown"),
   start_frame |-> Lenient(s, "start_frame", 0),
   injections |-> Each(Get(s, "line_injections", << >>), ParseLineInjection),
   all |-> s["duration_frames"] = All,
   frames |-> IF s["duration_frames"] = All THEN 0 ELSE s["duration_frames"],
   repeat |-> Get(s, "duration_repeat", 1),
   noise |-> ParseNoise(Get(s, "noise", Nothing)),
   random |-> ParseDropoutBlock(Get(drops, "random", Nothing)),
   scratch |-> ParseDropoutBlock(Get(drops, "scratch", Nothing)),
   overlays |-> Each(Get(Get(s, "osd", Nothing), "overlays", << >>),
                     ParseOverlay),
   pairs |-> Each(Get(Get(s, "audio", Nothing), "channel_pairs", << >>),
                  ParsePair)]

ParsePresets(c) ==
  [standard |-> StandardFromString(Lenient(c, "video_standard_preset", "")),
   encoding |-> Lenient(c, "sample_encoding_preset", NewPresets.encoding),
   state |-> Lenient(c, "signal_state_preset", NewPresets.state),
   pilot_burst |-> Lenient(c, "pal_laserdisc_pilot_burst", FALSE),
   vbi_burst |-> Lenient(c, "ntsc_laserdisc_vbi_burst", FALSE),
   setup |-> Get(c, "ntsc_black_setup_ire", Unset)]

ParseOutput(o) ==
  [video_path |-> Lenient(o, "video_path", ""),
   signal_type |-> Lenient(o, "signal_type", "composite"),
   efm |-> Get(Get(o, "efm_audio", Nothing), "pair", Unset)]

(* ParseYamlNode: a project, or Bad.                                          *)
Parse(root) ==
  LET head == Get(root, "project", Nothing) IN
  IF ~FitsRoot(root) THEN Bad
  ELSE [name |-> Lenient(head, "name", ""),
        version |-> Lenient(head, "version", ""),
        description |-> Lenient(head, "description", ""),
        presets |-> ParsePresets(root["cvbs_presets"]),
        output |-> ParseOutput(root["output"]),
        line_injections |->
          ParseProjectLineInjections(Get(root, "line_injections", Nothing)),
        sections |-> Each(root["sections"], ParseSection)]
===============================================================================
