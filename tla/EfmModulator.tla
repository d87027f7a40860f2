----------------------------- MODULE EfmModulator -----------------------------
(***************************************************************************)
(* efm_modulator.cpp: 8 bit symbols become 14 channel bits each, joined by *)
(* three merging bits so that every run between two one bits lasts 3 to 11 *)
(* bits and the sync header, two runs of 11, occurs nowhere else; and the  *)
(* T values, the lengths of the runs, that the EFM file holds.             *)
(*                                                                         *)
(* A pattern is [ones, count]: the places of its one bits in order, and    *)
(* its length.  The digital sum value only chooses between merging bits    *)
(* that keep every rule: here any of them may be chosen.                   *)
(***************************************************************************)
EXTENDS Integers, Sequences, SequencesExt, FiniteSetsExt

CONSTANT SymbolsPerChannelFrame    \* the control symbol and the data symbols

ASSUME SymbolsAssumption == SymbolsPerChannelFrame \in Nat \ {0}

VARIABLES
  state,       \* RunState of the modulator
  symbol,      \* the next part of the frame: 0 its sync header, then symbols
  encoder,     \* TValueEncoder
  t_values     \* the T values of the part sent last

vars == <<state, symbol, encoder, t_values>>

EightToFourteenTable == <<
  4640, 8448, 9248, 8736, 4352, 272, 1056, 2304, 4672, 8256, 9280, 8768,
  4160, 64, 1088, 2112, 8224, 8320, 9344, 2080, 4224, 128, 1152, 2176,
  4624, 8208, 9232, 8720, 4112, 528, 1040, 2064, 32, 8456, 544, 2336,
  4360, 264, 4128, 2312, 4680, 8264, 9288, 8776, 4168, 72, 1096, 2120,
  256, 8328, 9352, 8464, 4232, 136, 1160, 2184, 4616, 8200, 9224, 8712,
  4104, 520, 1032, 2056, 4644, 8484, 9252, 8740, 4388, 36, 1060, 2340,
  4676, 8260, 9284, 8772, 4164, 68, 1092, 2116, 8228, 8324, 9348, 2084,
  4228, 132, 1156, 2180, 4612, 8196, 9220, 8708, 4100, 516, 1028, 2052,
  4642, 8482, 9250, 8738, 4386, 34, 4132, 2338, 4674, 8258, 9282, 8770,
  4162, 66, 1090, 2114, 8226, 8322, 9346, 2082, 4226, 130, 1154, 2178,
  4610, 584, 9218, 8706, 4098, 514, 1026, 2050, 4641, 8481, 9249, 8737,
  4385, 33, 1057, 2337, 4673, 8257, 9281, 8769, 4161, 65, 1089, 2113,
  8225, 8321, 9345, 2081, 4225, 129, 1153, 2177, 4609, 8336, 9217, 8705,
  4240, 513, 1025, 2192, 545, 8457, 4368, 289, 4361, 265, 4129, 2313,
  4681, 8265, 9289, 8777, 4169, 73, 1097, 2121, 288, 8329, 9353, 2320,
  4233, 137, 1161, 2185, 4617, 8201, 9225, 8713, 4105, 521, 1033, 2057,
  4384, 8465, 9360, 548, 4369, 273, 1168, 2321, 577, 8449, 580, 576,
  4353, 257, 144, 2305, 292, 8337, 9361, 8480, 4241, 145, 1169, 2193,
  4625, 8209, 9233, 8721, 4113, 529, 1041, 2065, 4354, 258, 8466, 2306,
  4370, 274, 4130, 2322, 8450, 8452, 585, 578, 4356, 260, 1058, 2308,
  290, 8338, 9362, 546, 4242, 146, 1170, 2194, 4626, 8210, 9234, 8722,
  4114, 530, 1042, 2066  >>

Pattern(bits, count) ==
  [ones |-> SetToSortSeq({i \in 0 .. count - 1 :
                            (bits \div 2 ^ (count - 1 - i)) % 2 = 1}, <),
   count |-> count]
DataSymbols == {Pattern(EightToFourteenTable[v], 14) : v \in 1 .. 256}
SubcodeSync == {Pattern(2049, 14), Pattern(18, 14)}          \* S0 and S1
SyncHeader == [ones |-> <<0, 11, 22>>, count |-> 24]
SyncHeaderSecondRunBit == 22
NoExemptBit == -1
MinRunLengthT == 3
MaxRunLengthT == 11

Merging == [bits \in {0, 1, 2, 4} |-> Pattern(bits, 3)]
MergingCandidates == {0, 1, 2, 4}
SyncMergingCandidates == {0, 4}
EmptyRun == [since |-> 0, previous |-> 0, started |-> FALSE]

(* The runs that the ones of a pattern end, the first begun before it.        *)
RunsEnded(since, p) ==
  [i \in DOMAIN p.ones |-> IF i = 1 THEN since + p.ones[1] + 1
                           ELSE p.ones[i] - p.ones[i - 1]]
SinceLastOne(since, p) ==
  IF p.ones = << >> THEN since + p.count ELSE p.count - 1 - Last(p.ones)

(* ApplyBits: the run state after a pattern, and whether it kept the rules.   *)
Applied(s, p) ==
  LET run == RunsEnded(s.since, p)
  IN  [since |-> SinceLastOne(s.since, p),
       previous |-> IF Len(run) > 1 \/ (s.started /\ run # << >>)
                    THEN Last(run) ELSE s.previous,
       started |-> s.started \/ run # << >>]

(* Mutant: the rule against a false sync header forgotten.                    *)
RunLengthOnly(length, before, exempt) ==
  length \in MinRunLengthT .. MaxRunLengthT

RunKeepsRules(length, before, exempt) ==
  /\ length \in MinRunLengthT .. MaxRunLengthT
  /\ length = MaxRunLengthT /\ before = MaxRunLengthT => exempt

KeepsRules(s, p, exempt_bit) ==
  LET run == RunsEnded(s.since, p)
      before(i) == IF i = 1 \/ (i = 2 /\ ~s.started) THEN s.previous
                   ELSE run[i - 1]
  IN  /\ \A i \in DOMAIN run :
           (i > 1 \/ s.started) =>
             RunKeepsRules(run[i], before(i), p.ones[i] = exempt_bit)
      /\ (s.started \/ run # << >>) =>
           SinceLastOne(s.since, p) + 1 <= MaxRunLengthT

(* Mutant: the symbol that follows is not tried.                              *)
SelectByMergingAlone(s, next, exempt_bit, candidates) ==
  {c \in candidates : KeepsRules(s, Merging[c], NoExemptBit)}

(***************************************************************************)
(* Merging bits that keep the rules up to the end of the next pattern;     *)
(* failing those the first that keep them up to its beginning, failing     *)
(* those the first.                                                        *)
(***************************************************************************)
SelectMergingBits(s, next, exempt_bit, candidates) ==
  LET relaxed == {c \in candidates : KeepsRules(s, Merging[c], NoExemptBit)}
      kept == {c \in relaxed :
                 KeepsRules(Applied(s, Merging[c]), next, exempt_bit)}
  IN  IF kept # {} THEN kept
      ELSE IF relaxed # {} THEN {Min(relaxed)} ELSE {Min(candidates)}

(* TValueEncoder::PushBits *)
PushBits(e, p) ==
  LET run == RunsEnded(e.since, p)
  IN  [since |-> SinceLastOne(e.since, p), started |-> e.started \/ run # << >>,
       values |-> IF e.started \/ run = << >> THEN run ELSE Tail(run)]

(* Sends patterns one after the other, to the modulator and to the encoder.   *)
Send(first, second) ==
  LET one == PushBits(encoder, first)
      two == PushBits(one, second)
  IN  /\ state' = Applied(Applied(state, first), second)
      /\ encoder' = [since |-> two.since, started |-> two.started]
      /\ t_values' = one.values \o two.values

Nothing == [ones |-> << >>, count |-> 0]

Init ==
  /\ state = EmptyRun /\ symbol = 0 /\ t_values = << >>
  /\ encoder = [since |-> 0, started |-> FALSE]

(* ModulateFrame, part by part: the sync header, the symbols, the merging     *)
(* bits before the next sync header.                                          *)
SendSyncHeader ==
  /\ symbol = 0
  /\ Send(SyncHeader, Nothing)
  /\ symbol' = 1

SendSymbol ==
  /\ symbol \in 1 .. SymbolsPerChannelFrame
  /\ \E p \in DataSymbols \cup (IF symbol = 1 THEN SubcodeSync ELSE {}) :
       \E m \in SelectMergingBits(state, p, NoExemptBit, MergingCandidates) :
         Send(Merging[m], p)
  /\ symbol' = symbol + 1

CloseFrame ==
  /\ symbol = SymbolsPerChannelFrame + 1
  /\ \E m \in SelectMergingBits(state, SyncHeader, SyncHeaderSecondRunBit,
                                SyncMergingCandidates) :
       Send(Merging[m], Nothing)
  /\ symbol' = 0

(* TValueEncoder::Flush and the Reset before the next stream.                 *)
EndStream ==
  /\ symbol = 0 /\ encoder.started
  /\ LET pending == encoder.since + 1
     IN  t_values' = <<IF pending < MinRunLengthT THEN MinRunLengthT
                       ELSE pending>>
  /\ state' = EmptyRun
  /\ encoder' = [since |-> 0, started |-> FALSE]
  /\ UNCHANGED symbol

Next == SendSyncHeader \/ SendSymbol \/ CloseFrame \/ EndStream

Spec == Init /\ [][Next]_vars

--------------------------------------------------------------------------------
(* What the EFM file's format and its decoder ask of the channel bits.        *)

(* Every T value that reaches the file is a legal run of 3 to 11 bits, which  *)
(* fits the file's field of four bits: for any audio and whatever the digital *)
(* sum value made of the choices before, AudioEfmWriter's guard against wider *)
(* values never fails a run, and SelectMergingBits never comes to merging     *)
(* bits that break the rules over the symbol that follows.                    *)
TValuesAreLegal == \A i \in DOMAIN t_values : t_values[i] \in 3 .. 11

(* The pattern a decoder locks on to, two runs of 11 bits, is made by the two *)
(* runs of a sync header and by no others, not even by the run before a       *)
(* header and the header's first: the branch of SelectMergingBits that gives  *)
(* this rule up at a boundary is never needed.                                *)
SyncOnlyInHeader ==
  [][LET run == IF state.started THEN <<state.previous>> \o t_values'
                ELSE t_values'
     IN  \A i \in 2 .. Len(run) : <<run[i - 1], run[i]>> = <<11, 11>> =>
           symbol = 0 /\ symbol' = 1 /\ i = Len(run)]_vars
================================================================================
