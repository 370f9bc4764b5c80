CONSTANT ChannelBytes = {0, 4, 8, 16, 128, 255}
INIT PixelInit
NEXT PixelNext
\* A colour is encoded and read back once; the run ends there.
CHECK_DEADLOCK FALSE
INVARIANTS BitsPerPixelMatchesLayout
