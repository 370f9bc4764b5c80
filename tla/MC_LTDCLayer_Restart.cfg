CONSTANTS
  b1 = b1
  b2 = b2
  null = null
  NULL <- null
  Buffers <- MC_Buffers
  Frames = {}
  Windows = {}
  FlagSets = {}
  Configs = {}
  PaletteLengths = {}
  Slots = {}
  Colors = {}
  Alphas = {}
  Blendings = {}
  PixelFormatInputs = {}
  GlobalFlagSets = {}
  LinePositions = {}
  StartConfigs <- MC_PaletteStarts
  TimingLimits <- MC_TimingLimits
  MIN_FRAME_WIDTH_BYTES = 0
  MAX_FRAME_WIDTH_BYTES = 8191
  MIN_FRAME_HEIGHT_LINES = 0
  MAX_FRAME_HEIGHT_LINES = 2047
  MAX_PALETTE_LENGTH = 256
  MAX_CALLS = 4
INIT LayerInit
NEXT LayerNext
\* A failed chDbgAssert halts the system (chSysHalt), and a behaviour ends
\* after MAX_CALLS calls; those states are final.
CHECK_DEADLOCK FALSE
INVARIANTS NoAssertionFails
