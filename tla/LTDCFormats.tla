------------------------------- MODULE LTDCFormats -----------------------------
(***************************************************************************)
(* The pixel-format helpers of stm32_ltdc.c: the bits-per-pixel table and  *)
(* ltdcBitsPerPixel, and the software colour conversions ltdcFromARGB8888  *)
(* and ltdcToARGB8888 on 32-bit ltdc_color_t values, held as bit vectors  *)
(* (TLC's integers are 32-bit signed); every mask of the code is a        *)
(* contiguous run of bits, written Ones(lo, hi).                           *)
(*                                                                         *)
(* The reference at the end describes each format by its channel layout: *)
(* encoding keeps the high bits of every channel, decoding widens every    *)
(* channel back to 8 bits.                                                 *)
(***************************************************************************)
EXTENDS Integers, FiniteSetsExt

\* ltdc_pixfmt_t: the eight formats of the LTDC, in register encoding.
LTDC_FMT_ARGB8888 == 0
LTDC_FMT_RGB888   == 1
LTDC_FMT_RGB565   == 2
LTDC_FMT_ARGB1555 == 3
LTDC_FMT_ARGB4444 == 4
LTDC_FMT_L8       == 5
LTDC_FMT_AL44     == 6
LTDC_FMT_AL88     == 7
LTDC_MAX_PIXFMT_ID == 7

PixelFormats == 0..LTDC_MAX_PIXFMT_ID

\* ltdc_color_t, a uint32_t, as its bits 0..31.
Bits == 0..31
Word == [Bits -> {0, 1}]
Zero == [i \in Bits |-> 0]
Ones(lo, hi) == [i \in Bits |-> IF lo <= i /\ i <= hi THEN 1 ELSE 0]
x & y == [i \in Bits |-> x[i] * y[i]]
x | y == [i \in Bits |-> IF x[i] + y[i] > 0 THEN 1 ELSE 0]
Shr(x, n) == [i \in Bits |-> IF i + n <= 31 THEN x[i + n] ELSE 0]
Shl(x, n) == [i \in Bits |-> IF i >= n THEN x[i - n] ELSE 0]
NonZero(x) == \E i \in Bits : x[i] = 1

\* ltdc_bpp[LTDC_MAX_PIXFMT_ID + 1], indexed by format (from 1 in TLA+).
ltdc_bpp == <<32, 24, 16, 16, 16, 8, 8, 16>>

\* The precondition chDbgAssert(fmt < LTDC_MAX_PIXFMT_ID) of ltdcBitsPerPixel.
BitsPerPixelAccepts(fmt) == fmt < LTDC_MAX_PIXFMT_ID

ltdcBitsPerPixel(fmt) == ltdc_bpp[fmt + 1]

\* Mutation: the RGB565 green field shifted as in ARGB1555.
FromARGB8888GreenShift(c, fmt) ==
  CASE fmt = LTDC_FMT_ARGB8888 -> c
    [] fmt = LTDC_FMT_RGB888   -> c & Ones(0, 23)
    [] fmt = LTDC_FMT_RGB565   ->
         Shr(c & Ones(3, 7), 3) | Shr(c & Ones(10, 15), 6) | Shr(c & Ones(19, 23), 8)
    [] fmt = LTDC_FMT_ARGB1555 ->
         Shr(c & Ones(3, 7), 3) | Shr(c & Ones(11, 15), 6) | Shr(c & Ones(19, 23), 9)
           | Shr(c & Ones(31, 31), 16)
    [] fmt = LTDC_FMT_ARGB4444 ->
         Shr(c & Ones(4, 7), 4) | Shr(c & Ones(12, 15), 8) | Shr(c & Ones(20, 23), 12)
           | Shr(c & Ones(28, 31), 16)
    [] fmt = LTDC_FMT_L8       -> c & Ones(0, 7)
    [] fmt = LTDC_FMT_AL44     -> Shr(c & Ones(4, 7), 4) | Shr(c & Ones(28, 31), 24)
    [] fmt = LTDC_FMT_AL88     -> Shr(c & Ones(0, 7), 0) | Shr(c & Ones(24, 31), 16)

\* Mutation: AL44 alpha shifted by 32 - 12.
FromARGB8888AlphaShift(c, fmt) ==
  CASE fmt = LTDC_FMT_ARGB8888 -> c
    [] fmt = LTDC_FMT_RGB888   -> c & Ones(0, 23)
    [] fmt = LTDC_FMT_RGB565   ->
         Shr(c & Ones(3, 7), 3) | Shr(c & Ones(10, 15), 5) | Shr(c & Ones(19, 23), 8)
    [] fmt = LTDC_FMT_ARGB1555 ->
         Shr(c & Ones(3, 7), 3) | Shr(c & Ones(11, 15), 6) | Shr(c & Ones(19, 23), 9)
           | Shr(c & Ones(31, 31), 16)
    [] fmt = LTDC_FMT_ARGB4444 ->
         Shr(c & Ones(4, 7), 4) | Shr(c & Ones(12, 15), 8) | Shr(c & Ones(20, 23), 12)
           | Shr(c & Ones(28, 31), 16)
    [] fmt = LTDC_FMT_L8       -> c & Ones(0, 7)
    [] fmt = LTDC_FMT_AL44     -> Shr(c & Ones(4, 7), 4) | Shr(c & Ones(28, 31), 20)
    [] fmt = LTDC_FMT_AL88     -> Shr(c & Ones(0, 7), 0) | Shr(c & Ones(24, 31), 16)

\* ltdcFromARGB8888: mask the high bits of every channel and shift them to
\* their place in the target format.
ltdcFromARGB8888(c, fmt) ==
  CASE fmt = LTDC_FMT_ARGB8888 -> c
    [] fmt = LTDC_FMT_RGB888   -> c & Ones(0, 23)
    [] fmt = LTDC_FMT_RGB565   ->
         Shr(c & Ones(3, 7), 3) | Shr(c & Ones(10, 15), 5) | Shr(c & Ones(19, 23), 8)
    [] fmt = LTDC_FMT_ARGB1555 ->
         Shr(c & Ones(3, 7), 3) | Shr(c & Ones(11, 15), 6) | Shr(c & Ones(19, 23), 9)
           | Shr(c & Ones(31, 31), 16)
    [] fmt = LTDC_FMT_ARGB4444 ->
         Shr(c & Ones(4, 7), 4) | Shr(c & Ones(12, 15), 8) | Shr(c & Ones(20, 23), 12)
           | Shr(c & Ones(28, 31), 16)
    [] fmt = LTDC_FMT_L8       -> c & Ones(0, 7)
    [] fmt = LTDC_FMT_AL44     -> Shr(c & Ones(4, 7), 4) | Shr(c & Ones(28, 31), 24)
    [] fmt = LTDC_FMT_AL88     -> Shr(c & Ones(0, 7), 0) | Shr(c & Ones(24, 31), 16)

\* One channel of ltdcToARGB8888: if the field under mask is not zero, it is
\* shifted into place and the constant fill is ORed below it.
Widen(c, mask, n, fill) == IF NonZero(c & mask) THEN Shl(c & mask, n) | fill ELSE Zero

\* Mutation: ARGB1555 green widened without its fill bits.
ToARGB8888NoGreenFill(c, fmt) ==
  CASE fmt = LTDC_FMT_ARGB8888 -> c
    [] fmt = LTDC_FMT_RGB888   -> (c & Ones(0, 23)) | Ones(24, 31)
    [] fmt = LTDC_FMT_RGB565   ->
         Ones(24, 31) | Widen(c, Ones(0, 4), 3, Ones(0, 2))
           | Widen(c, Ones(5, 10), 5, Ones(8, 9)) | Widen(c, Ones(11, 15), 8, Ones(16, 18))
    [] fmt = LTDC_FMT_ARGB1555 ->
         Widen(c, Ones(0, 4), 3, Ones(0, 2)) | Widen(c, Ones(5, 9), 6, Zero)
           | Widen(c, Ones(10, 14), 9, Ones(16, 18))
           | (IF NonZero(c & Ones(15, 15)) THEN Ones(24, 31) ELSE Zero)
    [] fmt = LTDC_FMT_ARGB4444 ->
         Widen(c, Ones(0, 3), 4, Ones(0, 3)) | Widen(c, Ones(4, 7), 8, Ones(8, 11))
           | Widen(c, Ones(8, 11), 12, Ones(16, 19)) | Widen(c, Ones(12, 15), 16, Ones(24, 27))
    [] fmt = LTDC_FMT_L8       -> (c & Ones(0, 7)) | Ones(24, 31)
    [] fmt = LTDC_FMT_AL44     ->
         Widen(c, Ones(0, 3), 4, Ones(0, 3)) | Widen(c, Ones(4, 7), 24, Ones(24, 27))
    [] fmt = LTDC_FMT_AL88     -> Shl(c & Ones(0, 7), 0) | Shl(c & Ones(8, 15), 16)

\* Mutation: the RGB565 green field shifted as in ARGB1555.
ToARGB8888GreenShift(c, fmt) ==
  CASE fmt = LTDC_FMT_ARGB8888 -> c
    [] fmt = LTDC_FMT_RGB888   -> (c & Ones(0, 23)) | Ones(24, 31)
    [] fmt = LTDC_FMT_RGB565   ->
         Ones(24, 31) | Widen(c, Ones(0, 4), 3, Ones(0, 2))
           | Widen(c, Ones(5, 10), 6, Ones(8, 9)) | Widen(c, Ones(11, 15), 8, Ones(16, 18))
    [] fmt = LTDC_FMT_ARGB1555 ->
         Widen(c, Ones(0, 4), 3, Ones(0, 2)) | Widen(c, Ones(5, 9), 6, Ones(8, 10))
           | Widen(c, Ones(10, 14), 9, Ones(16, 18))
           | (IF NonZero(c & Ones(15, 15)) THEN Ones(24, 31) ELSE Zero)
    [] fmt = LTDC_FMT_ARGB4444 ->
         Widen(c, Ones(0, 3), 4, Ones(0, 3)) | Widen(c, Ones(4, 7), 8, Ones(8, 11))
           | Widen(c, Ones(8, 11), 12, Ones(16, 19)) | Widen(c, Ones(12, 15), 16, Ones(24, 27))
    [] fmt = LTDC_FMT_L8       -> (c & Ones(0, 7)) | Ones(24, 31)
    [] fmt = LTDC_FMT_AL44     ->
         Widen(c, Ones(0, 3), 4, Ones(0, 3)) | Widen(c, Ones(4, 7), 24, Ones(24, 27))
    [] fmt = LTDC_FMT_AL88     -> Shl(c & Ones(0, 7), 0) | Shl(c & Ones(8, 15), 16)

\* ltdcToARGB8888: widen every channel to 8 bits; formats without alpha are
\* opaque.
ltdcToARGB8888(c, fmt) ==
  CASE fmt = LTDC_FMT_ARGB8888 -> c
    [] fmt = LTDC_FMT_RGB888   -> (c & Ones(0, 23)) | Ones(24, 31)
    [] fmt = LTDC_FMT_RGB565   ->
         Ones(24, 31) | Widen(c, Ones(0, 4), 3, Ones(0, 2))
           | Widen(c, Ones(5, 10), 5, Ones(8, 9)) | Widen(c, Ones(11, 15), 8, Ones(16, 18))
    [] fmt = LTDC_FMT_ARGB1555 ->
         Widen(c, Ones(0, 4), 3, Ones(0, 2)) | Widen(c, Ones(5, 9), 6, Ones(8, 10))
           | Widen(c, Ones(10, 14), 9, Ones(16, 18))
           | (IF NonZero(c & Ones(15, 15)) THEN Ones(24, 31) ELSE Zero)
    [] fmt = LTDC_FMT_ARGB4444 ->
         Widen(c, Ones(0, 3), 4, Ones(0, 3)) | Widen(c, Ones(4, 7), 8, Ones(8, 11))
           | Widen(c, Ones(8, 11), 12, Ones(16, 19)) | Widen(c, Ones(12, 15), 16, Ones(24, 27))
    [] fmt = LTDC_FMT_L8       -> (c & Ones(0, 7)) | Ones(24, 31)
    [] fmt = LTDC_FMT_AL44     ->
         Widen(c, Ones(0, 3), 4, Ones(0, 3)) | Widen(c, Ones(4, 7), 24, Ones(24, 27))
    [] fmt = LTDC_FMT_AL88     -> Shl(c & Ones(0, 7), 0) | Shl(c & Ones(8, 15), 16)

-----------------------------------------------------------------------------
(***************************************************************************)
(* Reference: each format as a set of channels, a channel being its width  *)
(* w, its lowest bit nat in the format and its lowest bit argb in an       *)
(* ARGB-8888 colour.  Luminance lives in the blue byte, as the code        *)
(* stores it there.                                                        *)
(***************************************************************************)
Ch(w, nat, argb) == [w |-> w, nat |-> nat, argb |-> argb]

Layout(fmt) ==
  CASE fmt = LTDC_FMT_ARGB8888 -> {Ch(8, 24, 24), Ch(8, 16, 16), Ch(8, 8, 8), Ch(8, 0, 0)}
    [] fmt = LTDC_FMT_RGB888   -> {Ch(8, 16, 16), Ch(8, 8, 8), Ch(8, 0, 0)}
    [] fmt = LTDC_FMT_RGB565   -> {Ch(5, 11, 16), Ch(6, 5, 8), Ch(5, 0, 0)}
    [] fmt = LTDC_FMT_ARGB1555 -> {Ch(1, 15, 24), Ch(5, 10, 16), Ch(5, 5, 8), Ch(5, 0, 0)}
    [] fmt = LTDC_FMT_ARGB4444 -> {Ch(4, 12, 24), Ch(4, 8, 16), Ch(4, 4, 8), Ch(4, 0, 0)}
    [] fmt = LTDC_FMT_L8       -> {Ch(8, 0, 0)}
    [] fmt = LTDC_FMT_AL44     -> {Ch(4, 4, 24), Ch(4, 0, 0)}
    [] fmt = LTDC_FMT_AL88     -> {Ch(8, 8, 24), Ch(8, 0, 0)}

HasAlpha(fmt) == \E ch \in Layout(fmt) : ch.argb = 24

LayoutBits(fmt) == MapThenSumSet(LAMBDA ch : ch.w, Layout(fmt))

\* The unsigned value of the w bits of x from bit lo.
Val(x, lo, w) == MapThenSumSet(LAMBDA k : x[lo + k] * 2^k, 0..(w - 1))

\* A channel's field in a raw value, and its byte in an ARGB-8888 colour.
Field(x, ch) == Val(x, ch.nat, ch.w)
ArgbByte(c, ch) == Val(c, ch.argb, 8)

\* Encoding keeps the top w bits of every channel's byte.
Truncate(c, fmt) ==
  [i \in Bits |->
     IF \E ch \in Layout(fmt) : ch.nat <= i /\ i < ch.nat + ch.w
     THEN LET ch == CHOOSE ch \in Layout(fmt) : ch.nat <= i /\ i < ch.nat + ch.w
          IN  c[i - ch.nat + ch.argb + 8 - ch.w]
     ELSE 0]

\* Decoding widens every field by repeating its bits from the top: bit j of
\* the byte is field bit w-1 - ((7-j) % w).  No alpha means opaque.
Expand(x, fmt) ==
  [i \in Bits |->
     IF \E ch \in Layout(fmt) : ch.argb <= i /\ i < ch.argb + 8
     THEN LET ch == CHOOSE ch \in Layout(fmt) : ch.argb <= i /\ i < ch.argb + 8
          IN  x[ch.nat + ch.w - 1 - ((ch.argb + 7 - i) % ch.w)]
     ELSE IF i >= 24 /\ ~HasAlpha(fmt) THEN 1 ELSE 0]

=============================================================================
