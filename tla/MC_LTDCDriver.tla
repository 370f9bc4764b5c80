--------------------------- MODULE MC_LTDCDriver ---------------------------
(* Instantiation of LTDCDriver for TLC: two layer blocks, two values a      *)
(* setter can write, and the build/hardware switches chosen per .cfg.      *)
EXTENDS LTDCDriver

CONSTANTS Bg, Fg, v1, v2, reset

MC_Layers == {Bg, Fg}
MC_Values == {v1, v2}
=============================================================================
