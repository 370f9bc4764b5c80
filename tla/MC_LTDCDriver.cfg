\* Checks-on, LTDC_USE_WAIT build; immediate reloads raise no RRIF (the
\* reference manual's reading); the client uses only blocking immediate
\* reloads and both blocking and non-blocking deferred ones.
CONSTANTS
  Bg = Bg
  Fg = Fg
  v1 = v1
  v2 = v2
  reset = reset
  Layers <- MC_Layers
  Values <- MC_Values
  ResetValue <- reset
  Callbacks = {"line", "rr", "fuerr", "terr"}
  USE_WAIT = TRUE
  RRIF_ON_IMMEDIATE = FALSE
  ASYNC_IMMEDIATE = FALSE
SPECIFICATION Spec
\* The system really stops when the client parks in ltdcReloadS(FALSE) after
\* ltdcSetEnableFlagsI switched the controller off: nothing can commit the
\* reload or wake it.  Every other stop of the client is a violation of
\* WaiterResumes, ReloadCompletes or RefinesReload.
CHECK_DEADLOCK FALSE
INVARIANTS TypeOK ReadyMeansIdle NoAssertionFails
PROPERTIES ReloadWaitCommits ReloadCompletes WaiterResumes RefinesReload
