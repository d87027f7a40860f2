----------------------------- MODULE MCPreviewPane -----------------------------
(***************************************************************************)
(* A two-section project of three frames, a project of one frame and a     *)
(* project that does not validate.                                         *)
(***************************************************************************)
EXTENDS PreviewPaneProps

CONSTANTS Long, Short, Invalid

AllProjects     == {Long, Short, Invalid}
FrameTotals     == [p \in Projects |-> IF p = Long THEN 3
                                       ELSE IF p = Short THEN 1 ELSE 0]
SectionStarts   == [p \in Projects |-> IF p = Long THEN <<0, 2>>
                                       ELSE IF p = Short THEN <<0>> ELSE <<>>]
================================================================================
