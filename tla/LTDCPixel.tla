------------------------------- MODULE LTDCPixel ------------------------------
(***************************************************************************)
(* ltdcFromARGB8888 and ltdcToARGB8888 checked against the channel-layout  *)
(* reference of LTDCFormats.  A colour goes through the path an            *)
(* application takes: an ARGB-8888 colour is encoded to the layer's format *)
(* (as for a pixel written to a frame) and the stored value is decoded     *)
(* back (as when it is read).                                              *)
(***************************************************************************)
EXTENDS LTDCFormats

-----------------------------------------------------------------------------
(***************************************************************************)
(* A colour's way through a layer: chosen as ARGB-8888, encoded into the   *)
(* layer format, then read back.  Colours are built from channel bytes     *)
(* that hit every field edge: zero, the lowest bit kept by a 6-, 5- and     *)
(* 4-bit field, the top bit, and all ones.                                 *)
(***************************************************************************)
CONSTANT ChannelBytes

\* The colour with bytes a, r, g, b from the top.
ARGB(a, r, g, b) ==
  [i \in Bits |-> (<<b, g, r, a>>[i \div 8 + 1] \div 2^(i % 8)) % 2]

ArgbSamples == {ARGB(a, r, g, b) : a, r, g, b \in ChannelBytes}

VARIABLES
  fmt,       \* the layer's pixel format
  argb,      \* the colour given to ltdcFromARGB8888
  stored,    \* the raw value it returned
  readback,  \* ltdcToARGB8888 of the raw value
  stage      \* how far the colour has gone

pvars == <<fmt, argb, stored, readback, stage>>

PixelInit ==
  /\ fmt \in PixelFormats
  /\ argb \in ArgbSamples
  /\ stored = Zero /\ readback = Zero
  /\ stage = "chosen"

Encode ==
  /\ stage = "chosen"
  /\ stored' = ltdcFromARGB8888(argb, fmt)
  /\ stage' = "encoded"
  /\ UNCHANGED <<fmt, argb, readback>>

Decode ==
  /\ stage = "encoded"
  /\ readback' = ltdcToARGB8888(stored, fmt)
  /\ stage' = "read"
  /\ UNCHANGED <<fmt, argb, stored>>

PixelNext == Encode \/ Decode

PixelSpec == PixelInit /\ [][PixelNext]_pvars

-----------------------------------------------------------------------------

\* A raw value of a format is left padded with zeros.
PixelTypeOK ==
  /\ fmt \in PixelFormats
  /\ argb \in Word /\ readback \in Word
  /\ stored \in Word /\ \A i \in Bits : i >= LayoutBits(fmt) => stored[i] = 0
  /\ stage \in {"chosen", "encoded", "read"}

\* ltdcFromARGB8888 keeps exactly the high bits of every channel of the
\* format, each in its own field, and nothing above the format's width.
EncodeTruncates == stage # "chosen" => stored = Truncate(argb, fmt)

\* Reading back a stored value with ltdcToARGB8888 and encoding it again
\* with ltdcFromARGB8888 gives the stored value: no field bleeds into
\* another when widened.
DecodeRoundTrip == stage = "read" => ltdcFromARGB8888(readback, fmt) = stored

\* ltdcToARGB8888 keeps a zero field zero and a saturated field saturated,
\* and makes a format without alpha opaque.
DecodeKeepsExtremes ==
  stage = "read" =>
    /\ \A ch \in Layout(fmt) :
         /\ Field(stored, ch) = 0 => ArgbByte(readback, ch) = 0
         /\ Field(stored, ch) = 2^ch.w - 1 => ArgbByte(readback, ch) = 255
    /\ ~HasAlpha(fmt) => Val(readback, 24, 8) = 255

\* The driver's description of ltdcToARGB8888: expansion replicates each
\* field's high bits into the low bits of its byte.
DecodeReplicates == stage = "read" => readback = Expand(stored, fmt)

\* ltdcBitsPerPixel accepts every format of ltdc_pixfmt_t and returns the
\* width of its channels.
BitsPerPixelMatchesLayout ==
  BitsPerPixelAccepts(fmt) /\ ltdcBitsPerPixel(fmt) = LayoutBits(fmt)

=============================================================================
