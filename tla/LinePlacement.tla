---------------------------- MODULE LinePlacement ----------------------------
(* line_placement_engine.cpp: which code of a section a line of the vertical *)
(* interval carries (IEC 60856 for PAL, IEC 60857 for System M).  A line is  *)
(* its number in the frame; the second field's lines repeat the first's.     *)
EXTENDS Integers, Sequences

Standards == {"PAL", "NTSC", "PAL_M"}
SectionTypes == {"lead_in", "programme_area", "lead_out", "unknown"}
DiscTypes == {"CAV", "CLV"}

LinesPerFrame(standard) == IF standard = "PAL" THEN 625 ELSE 525

(* What each kind of disc may carry, and where on the disc.                  *)
ValidCav == {"lead_in", "lead_out", "picture_number", "picture_stop",
             "chapter_number", "programme_status", "users_code",
             "fm_picture_number", "fm_white_flag"}
ValidClv == {"lead_in", "lead_out", "programme_time_code", "clv_code",
             "clv_picture_number", "chapter_number", "programme_status",
             "users_code", "fm_programme_time", "fm_white_flag"}
CodeTypes == ValidCav \cup ValidClv
SystemMOnly == {"fm_picture_number", "fm_programme_time", "fm_white_flag"}

ValidForSection(code, type) ==
  CASE code \in {"lead_in", "lead_out"} -> type = code
    [] code = "users_code" -> type \in {"lead_in", "lead_out"}
    [] code = "fm_white_flag" -> type # "unknown"
    [] OTHER -> type = "programme_area"

ReservedLines(standard) ==
  IF standard = "PAL" THEN 6 .. 18 \cup 319 .. 331
                      ELSE 10 .. 18 \cup 273 .. 281

FieldOne(standard, line) == line <= IF standard = "PAL" THEN 312 ELSE 262

(* The first field's line that a line of the second field repeats.           *)
Canonical(standard, line) ==
  CASE FieldOne(standard, line) -> line
    [] standard = "PAL" -> line - 313
    [] OTHER -> line - 263

(* The codes that may stand on a line, the one that wins first.              *)
CavProgramme(line) ==
  CASE line = 16 -> <<"picture_stop", "programme_status">>
    [] line = 17 -> <<"picture_number", "picture_stop", "chapter_number">>
    [] line = 18 -> <<"chapter_number", "picture_number">>
    [] OTHER -> << >>

ClvProgramme(line) ==
  CASE line = 16 -> <<"clv_picture_number", "programme_status">>
    [] line = 17 -> <<"programme_time_code", "clv_code">>
    [] line = 18 -> <<"chapter_number", "programme_time_code">>
    [] OTHER -> << >>

(* The section's own marker is put on its lines whether it is listed or not. *)
LeadInOut(line, type) ==
  CASE line = 16 -> <<"users_code">>
    [] line \in {17, 18} -> <<type>>
    [] OTHER -> << >>

(* System M: FM data on the first reserved line of each field, the white     *)
(* flag on the second one, in the second field during the lead-out only.     *)
FmLines(standard, disc, type, line) ==
  CASE standard = "PAL" -> << >>
    [] line \in {10, 273} /\ type = "programme_area" ->
         IF disc = "CAV" THEN <<"fm_picture_number">>
                         ELSE <<"fm_programme_time">>
    [] line = 11 \/ (line = 274 /\ type = "lead_out") -> <<"fm_white_flag">>
    [] OTHER -> << >>

Candidates(standard, disc, type, line) ==
  LET c == Canonical(standard, line) IN
  FmLines(standard, disc, type, line) \o
  CASE type \in {"lead_in", "lead_out"} -> LeadInOut(c, type)
    [] type = "unknown" -> << >>
    [] disc = "CAV" -> CavProgramme(c)
    [] OTHER -> ClvProgramme(c)

NoAssignment == [code |-> "none", at |-> "none"]

(* Where on the line it starts.                                              *)
StartOf(standard, code) ==
  CASE code = "fm_white_flag" -> "0.160H"
    [] code \in SystemMOnly -> "0.215H"
    [] code = "programme_status" -> "0.172H"
    [] code = "clv_code" /\ standard # "PAL" -> "0.172H"
    [] OTHER -> "active"

GetAssignment(standard, disc, type, present, line) ==
  LET candidates == Candidates(standard, disc, type, line)
      wins == {k \in DOMAIN candidates :
                 candidates[k] \in present \/ candidates[k] = type}
      first == candidates[CHOOSE k \in wins : \A j \in wins : k <= j]
  IN  IF line \notin ReservedLines(standard) \/ wins = {} THEN NoAssignment
      ELSE [code |-> first, at |-> StartOf(standard, first)]
===============================================================================
