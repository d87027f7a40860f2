---------------------------- MODULE MCProjectWindow ----------------------------
(* Two projects, of three and of one section, with two settings slices.    *)
EXTENDS ProjectWindowProps

CONSTANTS Plain, Noisy, Pal, Ntsc

Named(n)   == [name |-> <<n>>, style |-> Plain]
ThreeOrOne == {[settings |-> <<Pal, Pal>>, sections |-> <<Named(1), Named(2), Named(3)>>],
               [settings |-> <<Ntsc, Pal>>, sections |-> <<Named(1)>>]}
================================================================================
