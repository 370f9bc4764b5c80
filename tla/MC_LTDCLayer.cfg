CONSTANTS
  b1 = b1
  b2 = b2
  null = null
  NULL <- null
  Buffers <- MC_Buffers
  Frames <- MC_Frames
  Windows <- MC_Windows
  FlagSets <- MC_FlagSets
  Configs <- MC_Configs
  PaletteLengths = {16}
  Slots = {3}
  Colors <- MC_Colors
  Alphas = {7}
  Blendings = {"MOD1_FIX2"}
  PixelFormatInputs = {5, 8}
  GlobalFlagSets <- MC_GlobalFlagSets
  LinePositions = {2100}
  StartConfigs <- MC_StartConfigs
  TimingLimits <- MC_TimingLimits
  MIN_FRAME_WIDTH_BYTES = 0
  MAX_FRAME_WIDTH_BYTES = 8191
  MIN_FRAME_HEIGHT_LINES = 0
  MAX_FRAME_HEIGHT_LINES = 2047
  MAX_PALETTE_LENGTH = 256
  MAX_CALLS = 6
INIT LayerInit
NEXT LayerNext
\* A failed chDbgAssert halts the system (chSysHalt), and a behaviour ends
\* after MAX_CALLS calls; those states are final.
CHECK_DEADLOCK FALSE
INVARIANTS LayerTypeOK FrameRoundTrip WindowTranslated ActiveWindowMatchesTimings
