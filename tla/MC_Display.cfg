\* Release build (checks off), three threads sharing the panel and the LTDC
\* through the two bus locks.  No symmetry: the run checks liveness.
CONSTANTS
  t1 = t1
  t2 = t2
  t3 = t3
  nobody = nobody
  Clients <- MC_Clients
  NoOne <- nobody
  USE_CHECKS = FALSE
SPECIFICATION DisplaySpec
INVARIANTS DisplayTypeOK LtdcBracketIsolated
PROPERTIES FramedTransfers BusEventuallyGranted LtdcBusEventuallyGranted
