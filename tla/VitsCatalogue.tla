---------------------------- MODULE VitsCatalogue ----------------------------
(* vits_definition_provider.cpp: the test signals that may stand on lines of  *)
(* the vertical interval.  A signal is a row of primitives, each for a stretch *)
(* of the line (in nanoseconds from its start) of the luma or the chroma, the *)
(* composites that group them, and the order in which they are rendered.      *)
(* Levels and frequencies are left out.  vits_generator.cpp: the plan by      *)
(* which a signal is rendered.                                                *)
EXTENDS ProjectModel, SequencesExt

Primitive(id, type, component, mode, start, end, rise) ==
  [id |-> id, primitive_type |-> type, signal_component |-> component,
   combine_mode |-> mode, start |-> start, end |-> end, rise |-> rise,
   continuity_group |-> "", crossfade |-> 0]

Bar(id, start, end, rise) ==
  Primitive(id, "colour_bar", "Y", "replace", start, end, rise)
Boost(id, start, end, rise) ==
  Primitive(id, "colour_bar", "Y", "add", start, end, rise)
Stair(id, start, end, rise) ==
  Primitive(id, "staircase", "Y", "replace", start, end, rise)
Pulse(id, start, end) ==
  Primitive(id, "sin_squared_pulse", "Y", "replace", start, end, 200)
ChromaPulse(id, start, end) ==
  Primitive(id, "composite_pulse", "C", "add", start, end, 400)
Burst(id, start, end, rise) ==
  Primitive(id, "burst", "C", "add", start, end, rise)

In(group, primitive) == [primitive EXCEPT !.continuity_group = group]
Fading(group, primitive) ==
  [primitive EXCEPT !.continuity_group = group, !.crossfade = 1000]

Composite(id, mode, children, group) ==
  [id |-> id, mode |-> mode, children |-> children, continuity_group |-> group]
ModulatedPulse ==
  Composite("modulated_pulse", "parallel", <<"modulated_y", "modulated_c">>, "")

(* A recommended line of 0: none.                                             *)
Definition(line, primitives, composites, order) ==
  [recommended_frame_line |-> line, primitives |-> primitives,
   composites |-> composites, render_order |-> order]

Steps == <<Bar("staircase_step_1", 40000, 44000, 235),
           Bar("staircase_step_2", 44000, 48000, 235),
           Bar("staircase_step_3", 48000, 52000, 235),
           Bar("staircase_step_4", 52000, 56000, 235),
           Bar("staircase_step_5", 56000, 62000, 235)>>
StepOrder == <<"staircase_step_1", "staircase_step_2", "staircase_step_3",
               "staircase_step_4", "staircase_step_5">>
WhiteAndPulse == <<Bar("white_reference", 12000, 22000, 200),
                   Pulse("pulse_2t", 25800, 26200)>>

Vits17 == Definition(17,
  WhiteAndPulse \o <<Pulse("modulated_y", 30000, 34000),
                     ChromaPulse("modulated_c", 30000, 34000)>> \o Steps,
  {ModulatedPulse},
  <<"white_reference", "pulse_2t", "modulated_pulse">> \o StepOrder)

ItuMultiburst == Definition(18,
  <<Boost("positive_reference_boost", 12000, 16000, 350),
    Bar("grey_pedestal", 12000, 62000, 350),
    Boost("negative_reference_boost", 16000, 20000, 350),
    Burst("burst_0_5", 24000, 28000, 200), Burst("burst_1_0", 30000, 35000, 200),
    Burst("burst_2_0", 36000, 41000, 200), Burst("burst_4_0", 42000, 47000, 200),
    Burst("burst_4_8", 48000, 53000, 200), Burst("burst_5_8", 54000, 60000, 200)>>,
  {Composite("reference_bar_pair", "serial",
             <<"positive_reference_boost", "negative_reference_boost">>,
             "reference_bars"),
   Composite("burst_train", "serial",
             <<"burst_0_5", "burst_1_0", "burst_2_0", "burst_4_0", "burst_4_8",
               "burst_5_8">>, "")},
  <<"grey_pedestal", "reference_bar_pair", "burst_train">>)

UkNational == Definition(19,
  WhiteAndPulse \o
  <<ChromaPulse("modulated_c", 29000, 31000), Pulse("modulated_y", 29000, 31000),
    Burst("chroma_reference", 34000, 60000, 1000),
    Stair("staircase", 40000, 60000, 235),
    Bar("black_reference", 60000, 62000, 235)>>,
  {ModulatedPulse},
  <<"white_reference", "pulse_2t", "modulated_pulse", "chroma_reference",
    "staircase", "black_reference">>)

Vits20 == Definition(20,
  <<Bar("grey_pedestal", 12000, 32000, 235),
    Burst("chroma_reference_full", 14000, 28000, 1000),
    Burst("chroma_reference_low", 34000, 62000, 1000)>>, {},
  <<"grey_pedestal", "chroma_reference_full", "chroma_reference_low">>)

ItuComposite == Definition(330,
  WhiteAndPulse \o <<Burst("chroma_reference", 30000, 60000, 1000)>> \o Steps, {},
  <<"white_reference", "pulse_2t", "chroma_reference">> \o StepOrder)

ItuCombination == Definition(331,
  <<Bar("grey_pedestal", 12000, 62000, 235),
    Fading("chroma_staircase", Burst("chroma_step_1", 14000, 18000, 1000)),
    Fading("chroma_staircase", Burst("chroma_step_2", 18000, 22000, 1000)),
    Burst("chroma_step_3", 22000, 28000, 1000),
    Burst("sustained_reference", 34000, 60000, 1000)>>,
  {Composite("chroma_staircase_group", "serial",
             <<"chroma_step_1", "chroma_step_2", "chroma_step_3">>,
             "chroma_staircase")},
  <<"grey_pedestal", "chroma_staircase_group", "sustained_reference">>)

Ntc7Composite == Definition(17,
  <<Bar("white_reference", 12000, 30000, 250), Pulse("pulse_2t", 33750, 34250),
    Pulse("modulated_y", 35400, 38600), ChromaPulse("modulated_c", 35400, 38600),
    Burst("chrominance_reference", 42000, 60000, 250),
    In("ntc7_staircase_join", Stair("staircase", 46000, 60000, 250)),
    In("ntc7_staircase_join", Bar("staircase_terminus", 60000, 62000, 250))>>,
  {ModulatedPulse},
  <<"white_reference", "pulse_2t", "modulated_pulse", "chrominance_reference",
    "staircase", "staircase_terminus">>)

Ntc7Combination == Definition(280,
  <<Boost("grey_reference_boost", 12000, 16000, 250),
    Bar("grey_background", 12000, 62000, 250),
    Burst("mb_0_5mhz", 18000, 23000, 200), Burst("mb_1_0mhz", 24000, 27000, 200),
    Burst("mb_2_0mhz", 28000, 31000, 200), Burst("mb_3_0mhz", 32000, 35000, 200),
    Burst("mb_3_58mhz", 36000, 39000, 200), Burst("mb_4_2mhz", 40000, 43000, 200),
    Fading("chroma_stair", Burst("chroma_zone_1", 46000, 50000, 1000)),
    Fading("chroma_stair", Burst("chroma_zone_2", 50000, 54000, 1000)),
    In("chroma_stair", Burst("chroma_zone_3", 54000, 60000, 1000))>>,
  {Composite("multiburst_sweep", "serial",
             <<"mb_0_5mhz", "mb_1_0mhz", "mb_2_0mhz", "mb_3_0mhz",
               "mb_3_58mhz", "mb_4_2mhz">>, ""),
   Composite("chroma_staircase", "serial",
             <<"chroma_zone_1", "chroma_zone_2", "chroma_zone_3">>,
             "chroma_stair")},
  <<"grey_background", "grey_reference_boost", "multiburst_sweep",
    "chroma_staircase">>)

FccMultiburst == Definition(18,
  <<Boost("white_reference_boost", 9200, 15700, 250),
    Bar("grey_pedestal", 9200, 62000, 250),
    Burst("burst_0_5", 18200, 26700, 200), Burst("burst_1_25", 28200, 34200, 200),
    Burst("burst_2_0", 35200, 40200, 200), Burst("burst_3_0", 41200, 46200, 200),
    Burst("burst_3_58", 47200, 52200, 200), Burst("burst_4_1", 53200, 58200, 200)>>,
  {Composite("burst_train", "serial",
             <<"burst_0_5", "burst_1_25", "burst_2_0", "burst_3_0",
               "burst_3_58", "burst_4_1">>, "")},
  <<"grey_pedestal", "white_reference_boost", "burst_train">>)

FccComposite == Definition(281,
  <<Burst("chroma_reference_zone", 9500, 28000, 400),
    In("fcc_staircase_join", Stair("staircase", 13000, 28000, 250)),
    In("fcc_staircase_join", Bar("staircase_terminus", 28000, 30000, 250)),
    Pulse("pulse_2t", 35250, 35750), Pulse("modulated_y", 37900, 41100),
    ChromaPulse("modulated_c", 37900, 41100),
    Bar("white_reference", 43900, 62000, 200)>>,
  {ModulatedPulse},
  <<"chroma_reference_zone", "staircase", "staircase_terminus", "pulse_2t",
    "modulated_pulse", "white_reference">>)

Virs == Definition(0,
  <<In("virs_sequence", Bar("virs_first_zone", 9150, 35500, 250)),
    Burst("virs_chroma_ref", 10100, 34500, 1000),
    In("virs_sequence", Bar("virs_second_zone", 35500, 48700, 250)),
    In("virs_sequence", Bar("virs_post_blank", 48700, 62000, 250))>>,
  {Composite("virs_zone_1", "parallel",
             <<"virs_first_zone", "virs_chroma_ref">>, "")},
  <<"virs_zone_1", "virs_second_zone", "virs_post_blank">>)

--------------------------------------------------------------------------------
PalCatalog ==
  [v \in {"vits17", "itu-multiburst", "uk-national", "vits20", "itu-composite",
          "itu-combination"} |->
     CASE v = "vits17" -> Vits17
       [] v = "itu-multiburst" -> ItuMultiburst
       [] v = "uk-national" -> UkNational
       [] v = "vits20" -> Vits20
       [] v = "itu-composite" -> ItuComposite
       [] OTHER -> ItuCombination]

NtscCatalog ==
  [v \in {"ntc7-composite", "ntc7-combination", "fcc-multiburst",
          "fcc-composite", "virs"} |->
     CASE v = "ntc7-composite" -> Ntc7Composite
       [] v = "ntc7-combination" -> Ntc7Combination
       [] v = "fcc-multiburst" -> FccMultiburst
       [] v = "fcc-composite" -> FccComposite
       [] OTHER -> Virs]

(* PAL-M has the line structure of NTSC, and its signals.                     *)
ListVitsTypes(standard) ==
  CASE standard = "PAL" -> DOMAIN PalCatalog
    [] standard \in SystemM -> DOMAIN NtscCatalog
    [] OTHER -> {}

TryGetDefinition(standard, vits_type) ==
  IF vits_type \notin ListVitsTypes(standard) THEN Unset
  ELSE IF standard = "PAL" THEN PalCatalog[vits_type] ELSE NtscCatalog[vits_type]

--------------------------------------------------------------------------------
(* vits_generator.cpp: the plan of a test signal, in which neighbouring parts *)
(* are stretched over their join so that the signal does not drop between     *)
(* them, and the order in which its parts are rendered.                       *)
Later(a, b) == IF a < b THEN b ELSE a
Index(plan, id) == CHOOSE i \in DOMAIN plan : plan[i].id = id

Stretch(plan, i, j, by, floor) ==
  [plan EXCEPT ![i].end = @ + by, ![j].start = Later(floor, @ - by)]

(* ApplySerialCrossfadeTransitionPolicies: one pair of neighbours.            *)
Crossfade(plan, composite, k) ==
  LET i == Index(plan, composite.children[k])
      j == Index(plan, composite.children[k + 1])
      this == plan[i]
      next == plan[j]
  IN  IF /\ this.crossfade > 0
         /\ this.signal_component = next.signal_component
         /\ this.combine_mode = next.combine_mode
         /\ this.continuity_group # "" \/ composite.continuity_group # ""
         /\ next.start >= this.end
      THEN Stretch(plan, i, j, this.crossfade, this.start) ELSE plan

ApplySerialCrossfadeTransitionPolicies(plan, composites) ==
  LET Serial(c) ==
        {k \in 1 .. Len(c.children) - 1 : c.mode = "serial"}
      pairs == UNION {{<<c, k>> : k \in Serial(c)} : c \in composites}
      ordered == SetToSortSeq(pairs, LAMBDA p, q : p[2] < q[2])
  IN  FoldLeft(LAMBDA acc, p : Crossfade(acc, p[1], p[2]), plan, ordered)

(* ApplyGateEnvelopeOverlapCorrections: the part that follows i, the next of  *)
(* its continuity group or else the nearest within the tolerance; 0 for none. *)
AdjacencyTolerance == 100
Size(n) == IF n < 0 THEN -n ELSE n

Following(plan, i) ==
  LET group == plan[i].continuity_group
      alike == {j \in DOMAIN plan \ {i} :
                  plan[j].signal_component = plan[i].signal_component}
      chained == {j \in alike : group # "" /\ j > i
                                /\ plan[j].continuity_group = group}
      gap(j) == Size(plan[j].start - plan[i].end)
      near == {j \in alike : /\ group = "" /\ plan[j].continuity_group = ""
                             /\ gap(j) <= AdjacencyTolerance}
      first(set) == CHOOSE j \in set : \A k \in set : j <= k
  IN  CASE chained # {} -> first(chained)
        [] near # {} -> first({j \in near : \A k \in near : gap(j) <= gap(k)})
        [] OTHER -> 0

(* Mutant: only the parts of a continuity group are joined. *)
OverlapGroups(plan, i) ==
  LET j == Following(plan, i) IN
  IF j # 0 /\ plan[i].continuity_group # "" /\ plan[i].combine_mode = "replace"
  THEN Stretch(plan, i, j, plan[i].rise + plan[j].rise, 0) ELSE plan

Overlap(plan, i) ==
  LET j == Following(plan, i) IN
  IF j # 0 /\ plan[i].combine_mode = "replace" /\ plan[j].combine_mode = "replace"
  THEN Stretch(plan, i, j, plan[i].rise + plan[j].rise, 0) ELSE plan

ApplyGateEnvelopeOverlapCorrections(plan) ==
  FoldLeft(Overlap, plan, [i \in DOMAIN plan |-> i])

BuildSynthesisPlan(definition) ==
  ApplyGateEnvelopeOverlapCorrections(
    ApplySerialCrossfadeTransitionPolicies(definition.primitives,
                                           definition.composites))

(* ApplyNode, ApplyComposite: the primitives that a node of the render order  *)
(* paints, in order; an unknown node fails the line.                          *)
Node(definition, id) ==
  LET here == {c \in definition.composites : c.id = id} IN
  CASE \E p \in Elements(definition.primitives) : p.id = id -> <<id>>
    [] here # {} -> (CHOOSE c \in here : TRUE).children
    [] OTHER -> <<Unset>>

RenderOrder(definition) ==
  FlattenSeq([k \in DOMAIN definition.render_order |->
                Node(definition, definition.render_order[k])])
==============================================================================
