\* Hardware that raises RRIF on immediate reloads too: the forced reloads of
\* ltdcStart and the polled immediate reload of ltdcReloadS leave a
\* reload-done interrupt pending while the driver is READY.
CONSTANTS
  Bg = Bg
  Fg = Fg
  v1 = v1
  v2 = v2
  reset = reset
  Layers <- MC_Layers
  Values <- MC_Values
  ResetValue <- reset
  Callbacks = {"line", "rr", "fuerr", "terr"}
  USE_WAIT = TRUE
  RRIF_ON_IMMEDIATE = TRUE
  ASYNC_IMMEDIATE = FALSE
SPECIFICATION Spec
INVARIANTS NoAssertionFails
