----------------------------- MODULE MC_ILI9341 -----------------------------
(* Instantiation of ILI9341 for TLC: three client threads.                 *)
EXTENDS ILI9341, TLC

CONSTANTS t1, t2, t3, nobody

MC_Clients == {t1, t2, t3}
MC_Symmetry == Permutations(MC_Clients)
=============================================================================
