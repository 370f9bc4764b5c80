\* Hardware that raises RRIF only on vertical-blanking reloads, and a client
\* that calls the non-blocking ltdcStartReload(ltdcp, TRUE).
CONSTANTS
  Bg = Bg
  Fg = Fg
  v1 = v1
  v2 = v2
  reset = reset
  Layers <- MC_Layers
  Values <- MC_Values
  ResetValue <- reset
  Callbacks = {"line", "rr", "fuerr", "terr"}
  USE_WAIT = TRUE
  RRIF_ON_IMMEDIATE = FALSE
  ASYNC_IMMEDIATE = TRUE
SPECIFICATION Spec
\* The client may park for ever on a reload of a controller it switched off.
CHECK_DEADLOCK FALSE
PROPERTIES ReloadCompletes
