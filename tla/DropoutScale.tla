----------------------------- MODULE DropoutScale -----------------------------
(* dropout_scale.h: what a dropout scale of 1 to 20 stands for.  The code's   *)
(* exponentials, evaluated and rounded.                                       *)
EXTENDS Integers

MinDuration == <<5, 6, 6, 7, 8, 9, 10, 12, 13, 15, 17, 19, 21, 24, 27, 31, 35,
                 39, 44, 50>>        \* samples of a random dropout
MaxDuration == <<50, 56, 62, 69, 77, 86, 96, 108, 120, 134, 149, 167, 186, 207,
                 231, 258, 288, 321, 359, 400>>
ScratchCount == <<2, 2, 3, 3, 4, 4, 5, 6, 7, 8, 10, 11, 13, 16, 18, 21, 25, 29,
                  34, 40>>
MaxDurFrames == <<2, 3, 4, 5, 6, 9, 11, 15, 20, 27, 37, 49, 65, 87, 117, 156,
                  209, 280, 374, 500>>
MaxWidthSamples == <<5, 7, 9, 13, 18, 24, 33, 45, 62, 85, 117, 160, 220, 302,
                     413, 567, 777, 1064, 1459, 2000>>
===============================================================================
