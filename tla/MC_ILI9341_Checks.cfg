\* Checks-on build, three threads keeping to the documented bracket.
CONSTANTS
  t1 = t1
  t2 = t2
  t3 = t3
  nobody = nobody
  Clients <- MC_Clients
  NoOne <- nobody
  USE_CHECKS = TRUE
SYMMETRY MC_Symmetry
SPECIFICATION Spec
INVARIANTS NoAssertionFails
