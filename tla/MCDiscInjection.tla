---------------------------- MODULE MCDiscInjection ----------------------------
(* Discs of up to three programme sections, with and without lead-in and      *)
(* lead-out, at a reduced scale: seconds of 3 or 2 frames, minutes of 4       *)
(* seconds, a stop bit set from track 4 on.                                   *)
EXTENDS DiscInjection, TLC

MCMaxPictureNumber == [s \in Standards |-> IF s = "NTSC" THEN 7 ELSE 9]
MCFramesPerSecond == [s \in Standards |-> IF s = "NTSC" THEN 3 ELSE 2]

Stating(base, code, value) == [base EXCEPT ![code] = value]
Plain(codes) == [c \in codes |-> Unset]
Part(type, duration, codes) ==
  [type |-> type, laserdisc |-> codes # << >>, duration |-> duration,
   open_ended |-> FALSE, codes |-> codes]
OpenEnded(part) == [part EXCEPT !.open_ended = TRUE]

NoCodes == << >>
StatusWord == BuildStatus(TRUE, FALSE, 3)

CavCodes ==
  LET basic == Plain({"picture_number", "chapter_number"})
      full == Plain({"picture_number", "picture_stop", "programme_status",
                     "fm_picture_number", "fm_white_flag"})
  IN  {NoCodes, basic, Stating(basic, "picture_number", 5),
       Stating(Stating(basic, "picture_number", 0), "chapter_number", 17),
       Stating(full, "fm_picture_number", 3),
       Stating(Plain({"chapter_number", "programme_status"}),
               "programme_status", StatusWord)}

ClvCodes ==
  LET basic == Plain({"programme_time_code", "clv_picture_number",
                      "chapter_number"})
  IN
  {NoCodes, basic,
   Stating(Plain({"clv_picture_number", "clv_code", "chapter_number"}),
           "chapter_number", 2),
   Plain({"programme_time_code", "fm_programme_time", "fm_white_flag"})}

LeadIn == {<< >>, <<Part("lead_in", 2,
             Stating(Plain({"lead_in", "users_code", "fm_white_flag"}),
                     "users_code", <<8, 2, 13, 3, 4, 5>>))>>}
LeadOut == {<< >>, <<Part("lead_out", 2, Plain({"lead_out"}))>>}

Middle(codes, durations) ==
  {<<Part("programme_area", durations[1], a),
     Part("programme_area", durations[2], b),
     Part("programme_area", durations[3], c)>> : a, b, c \in codes}

Disc(standard, disc, sections) ==
  [standard |-> standard, disc |-> disc, sections |-> sections]

Discs(standard, disc, codes, durations) ==
  {Disc(standard, disc, i \o m \o o) :
     i \in LeadIn, m \in Middle(codes, durations), o \in LeadOut}

(* A stated status that is not a word, and codes on a disc without a type.    *)
Broken ==
  {Disc("PAL", "CAV", <<Part("programme_area", 2, Plain({"picture_number"})),
     Part("programme_area", 1, Stating(Plain({"programme_status"}),
                                       "programme_status", BadHex))>>),
   Disc("PAL", "none", <<Part("programme_area", 2,
                              Plain({"picture_number"}))>>)}

(* A section without a type inside a programme.                               *)
Interrupted ==
  {Disc(s, "CAV", <<Part("programme_area", 2, Plain({"picture_number"})),
                    Part("unknown", 2, NoCodes),
                    Part("programme_area", 2, Plain({"picture_number"}))>>) :
     s \in Standards}

(* A section that lasts as long as its source, in the middle of the programme *)
(* or at its end.                                                             *)
ToTheEnd ==
  LET Listed(standard, disc, code) ==
        LET part(n) == Part("programme_area", n, Plain({code})) IN
        {Disc(standard, disc, <<part(2), OpenEnded(part(3)), part(2)>>),
         Disc(standard, disc, <<part(2), part(2), OpenEnded(part(3))>>)}
  IN  UNION {Listed(s, "CAV", "picture_number")
             \cup Listed(s, "CLV", "clv_picture_number") : s \in Standards}

(* A second FM start value, in a section that also begins the first chapter.  *)
DocumentedDisc ==
  LET codes == Plain({"picture_number", "fm_picture_number"})
      chapter == Plain({"picture_number", "fm_picture_number", "chapter_number"})
  IN  {Disc("NTSC", "CAV",
         <<Part("lead_in", 2, Plain({"lead_in"})),
           Part("programme_area", 2, Stating(codes, "fm_picture_number", 1)),
           Part("programme_area", 2,
                Stating(Stating(chapter, "fm_picture_number", 5),
                        "chapter_number", 1))>>)}

MCProjects ==
  UNION {Discs(s, "CAV", CavCodes, <<3, 2, 6>>) : s \in Standards}
  \cup UNION {Discs(s, "CLV", ClvCodes, <<7, 5, 16>>) : s \in Standards}
  \cup Broken \cup Interrupted \cup ToTheEnd
===============================================================================
