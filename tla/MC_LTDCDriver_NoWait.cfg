\* Build without LTDC_USE_WAIT: ltdcReloadS polls only SRCR.IMR, also for a
\* deferred reload.
CONSTANTS
  Bg = Bg
  Fg = Fg
  v1 = v1
  v2 = v2
  reset = reset
  Layers <- MC_Layers
  Values <- MC_Values
  ResetValue <- reset
  Callbacks = {"line", "rr", "fuerr", "terr"}
  USE_WAIT = FALSE
  RRIF_ON_IMMEDIATE = FALSE
  ASYNC_IMMEDIATE = FALSE
SPECIFICATION Spec
PROPERTIES ReloadWaitCommits
