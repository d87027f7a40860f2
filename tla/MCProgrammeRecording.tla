------------------------- MODULE MCProgrammeRecording -------------------------
(***************************************************************************)
(* Programmes of some seconds.  The raster has 5 lines of 40 samples, the  *)
(* picture lies in the middle; the dropouts are drawn at scales 1 and 3,   *)
(* where they are narrow enough for it.  RiffLimit, 2^32 - 1 in the code,  *)
(* is such that a PAL programme of 421 frames would exceed it by its       *)
(* header alone.                                                           *)
(***************************************************************************)
EXTENDS ProgrammeRecording

Event(line, offset, duration, width) ==
  [line |-> line, offset |-> offset, duration |-> duration, width |-> width]

(* Over the first edge of the picture twice, over another scratch, at the end *)
(* of the frame; and within the picture.                                      *)
EdgeEvents == <<Event(1, 17, 4, 9), Event(1, 14, 3, 8), Event(4, 39, 4, 5)>>
PictureEvents == <<Event(3, 10, 3, 9), Event(2, 5, 4, 6), Event(2, 8, 4, 9)>>

ASSUME \A e \in Range(EdgeEvents) \cup Range(PictureEvents) : e \in MayScratch(3)

MCDraws(scale) ==
  IF scale = 0 THEN {<< >>}
  ELSE {<<Run(a, m), Run(b, n)>> : a \in {0, 50}, m \in {5, 50},
                                   b \in {52, 110}, n \in {12, 40}}
       \cup {<< >>, <<Run(85, 40), Run(185, 50)>>}

Part(area, frames, first, scale, scratches) ==
  [area |-> area, frames |-> frames, first |-> first, scale |-> scale,
   scratches |-> scratches]
Programme(standard, parts) == [standard |-> standard, parts |-> parts]

Whole == Programme("PAL",
  <<Part("lead_in", 60, 0, 0, << >>), Part("programme", 151, 0, 1, EdgeEvents),
    Part("programme", 110, 2, 1, PictureEvents), Part("lead_out", 90, 0, 0, << >>)>>)
Ntsc == Programme("NTSC",
  <<Part("lead_in", 33, 0, 0, << >>), Part("programme", 187, 0, 1, PictureEvents),
    Part("programme", 121, 0, 0, << >>), Part("programme", 123, 0, 0, << >>),
    Part("lead_out", 100, 0, 0, << >>)>>)
TracksOnly == Programme("NTSC", <<Part("programme", 181, 0, 0, << >>)>>)
TooLong == Programme("PAL", <<Part("programme", 421, 0, 0, << >>)>>)
OutOfOrder == Programme("PAL",
  <<Part("lead_out", 50, 0, 0, << >>), Part("programme", 150, 0, 0, << >>)>>)

MCProgrammes == {Whole, Ntsc, TracksOnly, TooLong, OutOfOrder}
===============================================================================
