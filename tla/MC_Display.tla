------------------------------ MODULE MC_Display ------------------------------
(* Instantiation of Display for TLC: three client threads.                 *)
EXTENDS Display, TLC

CONSTANTS t1, t2, t3, nobody

MC_Clients == {t1, t2, t3}
=============================================================================
