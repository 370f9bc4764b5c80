------------------------------- MODULE LTDCLayer ------------------------------
(***************************************************************************)
(* The register-level behaviour of stm32_ltdc.c's accessors and of the    *)
(* register programming of ltdcStart/ltdcStop:                             *)
(*   - ltdcStart's timing set-up: the range asserts #11..#74 on the        *)
(*     configuration and its accumulators, SSCR/BPCR/AWCR/TWCR, and the    *)
(*     active window it caches in ltdcp->active_window;                   *)
(*   - the global accessors: enable flags (GCR), dithering, clear colour, *)
(*     line-interrupt position;                                           *)
(*   - for each of the two layers (background LTDC_Layer1, foreground      *)
(*     LTDC_Layer2; the two sets of functions are the same code on         *)
(*     different register blocks): enable flags, layer, palette and        *)
(*     keying enable, palette loads with their "layer disabled"            *)
(*     precondition, pixel format, key colour, constant alpha, default     *)
(*     colour, blending factors, window (translated by the active window), *)
(*     frame (packed pitch/line-length encoding), and the whole-layer      *)
(*     ltdc*SetConfigI and ltdc*GetLayerI.                                 *)
(*                                                                         *)
(* Every call runs under the kernel lock and is one step.  A failed        *)
(* chDbgAssert halts the system: fault records the first one, and nothing  *)
(* runs after it.  The registers are the shadow registers; when they become *)
(* active is LTDCDriver's concern.                                         *)
(***************************************************************************)
EXTENDS Integers, Sequences, FiniteSetsExt, TLC, LTDCFormats

CONSTANTS
  MIN_FRAME_WIDTH_BYTES, MAX_FRAME_WIDTH_BYTES,     \* LTDC_* hardware limits
  MIN_FRAME_HEIGHT_LINES, MAX_FRAME_HEIGHT_LINES,
  MAX_PALETTE_LENGTH,
  TimingLimits, \* per stage k of ltdcStart, the bounds of asserts #k1..#k4
  NULL,         \* the null pointer (frame buffer address, configuration)
  Buffers,      \* frame buffer addresses
  Frames,       \* ltdc_frame_t values the application passes
  Windows,      \* ltdc_window_t values, relative to the active window
  FlagSets,     \* ltdc_flags_t values passed for a layer
  PaletteLengths,   \* lengths of the palettes passed
  Configs,      \* ltdc_laycfg_t values passed (NULL: the default one)
  Colors,       \* ltdc_color_t values passed, as [a |-> alpha, rgb |-> RGB-888]
  Alphas,       \* uint8_t constant alphas passed
  Blendings,    \* ltdc_blendf_t values passed
  Slots,        \* uint8_t palette slots passed to ltdc*SetPaletteColorI
  PixelFormatInputs,  \* ltdc_pixfmt_t values passed to ltdc*SetPixelFormatI
  GlobalFlagSets,     \* ltdc_flags_t values passed to ltdcSetEnableFlagsI
  LinePositions,      \* uint16_t lines passed to ltdcSetLineInterruptPosI
  StartConfigs, \* LTDCConfig values passed to ltdcStart
  MAX_CALLS     \* bound on the number of calls in a behaviour

\* The two layer register blocks, named by the functions' prefixes.
LayerIds == {"Bg", "Fg"}

\* The name of an assertion of the layer-L version of a function.
Nm(L, s) == "ltdc" \o L \o s

\* The layer enable flags of LTDC_LEF_MASK.
LayerFlags == {"LEN", "COLKEN", "CLUTEN"}

\* LTDC_EF_MASK: the GCR bits of ltdc_flags_t (controller enable,
\* dithering, the four polarities).
GlobalFlags == {"LTDCEN", "DTEN", "HSPOL", "VSPOL", "DEPOL", "PCPOL"}

\* Register fields: CFBP and CFBLL are 13 bits wide, CFBLNBR 11 bits,
\* LIPOS 11 bits; the timing registers have a 12-bit horizontal and an
\* 11-bit vertical field.
CFBP_BITS == 13
CFBLL_BITS == 13
CFBLNBR_BITS == 11
LIPOS_BITS == 11
H_BITS == 12
V_BITS == 11
Masked(x, bits) == x % 2^bits

\* ltdc_invalid_frame, ltdc_invalid_window and ltdc_default_laycfg.
InvalidFrame ==
  [bufferp |-> NULL, pitch |-> 1, width |-> 1, height |-> 1, fmt |-> LTDC_FMT_L8]
InvalidWindow == [hstart |-> 0, hstop |-> 1, vstart |-> 0, vstop |-> 1]
LTDC_COLOR_BLACK == [a |-> 255, rgb |-> 0]
DefaultLaycfg ==
  [frame |-> InvalidFrame, window |-> InvalidWindow,
   def_color |-> LTDC_COLOR_BLACK, key_color |-> LTDC_COLOR_BLACK,
   const_alpha |-> 0, blending |-> "FIX1_FIX2", pal_length |-> 0, flags |-> {}]
LaycfgOf(c) == IF c = NULL THEN DefaultLaycfg ELSE c

\* ltdcBytesPerPixel: ltdcBitsPerPixel in bytes.
BytesPerPixel(fmt) == ltdcBitsPerPixel(fmt) \div 8

\* The name of the first failing chDbgAssert of a sequence of
\* <<condition, name>> pairs, in the order the code evaluates them.
FirstFailure(checks) ==
  LET failed == {i \in 1..Len(checks) : ~checks[i][1]}
  IN  IF failed = {} THEN "none" ELSE checks[Min(failed)][2]
Passed(checks) == FirstFailure(checks) = "none"

VARIABLES
  lay,        \* LTDC_Layer1 and LTDC_Layer2 registers, by LayerIds
  glob,       \* the global registers GCR, BCCR, LIPCR, SSCR, BPCR, AWCR, TWCR
  aw,         \* ltdcp->active_window
  cfg,        \* ltdcp->config
  drv,        \* ltdcp->state as ltdcStart/ltdcStop leave it
  fault,      \* the chDbgAssert that failed, or "none"
  calls,      \* calls made so far
  setFrame,   \* per layer, the frame last set by the application ({} before any)
  setWindow   \* per layer, the window last set by the application ({} before any)

lvars == <<lay, glob, aw, cfg, drv, fault, calls, setFrame, setWindow>>

Running == fault = "none" /\ calls < MAX_CALLS

-----------------------------------------------------------------------------
(* ltdcStart's timing set-up.  Stage k asserts #k1..#k4 bound a horizontal *)
(* and a vertical value: the sync size, the back porch, the accumulated   *)
(* back porch + 1, the screen size, the accumulated active area + 1, the   *)
(* front porch, the accumulated total + 1.                                 *)

Stage(k, h, v) ==
  LET n(i) == "ltdcStart#" \o ToString(10 * k + i)
      T == TimingLimits[k]
  IN  << <<h >= T.h[1], n(1)>>, <<h <= T.h[2], n(2)>>,
         <<v >= T.v[1], n(3)>>, <<v <= T.v[2], n(4)>> >>

\* hacc/vacc after the back porch, the active area and the front porch.
AccBackPorch(sc) ==
  [h |-> sc.hsync_width - 1 + sc.hbp_width, v |-> sc.vsync_height - 1 + sc.vbp_height]
AccActive(sc) ==
  [h |-> AccBackPorch(sc).h + sc.screen_width, v |-> AccBackPorch(sc).v + sc.screen_height]
AccTotal(sc) ==
  [h |-> AccActive(sc).h + sc.hfp_width, v |-> AccActive(sc).v + sc.vfp_height]

TimingChecks(sc) ==
  Stage(1, sc.hsync_width, sc.vsync_height) \o Stage(2, sc.hbp_width, sc.vbp_height)
  \o Stage(3, AccBackPorch(sc).h + 1, AccBackPorch(sc).v + 1)
  \o Stage(4, sc.screen_width, sc.screen_height)
  \o Stage(5, AccActive(sc).h + 1, AccActive(sc).v + 1)
  \o Stage(6, sc.hfp_width, sc.vfp_height)
  \o Stage(7, AccTotal(sc).h + 1, AccTotal(sc).v + 1)

\* (hacc << 16) & FIELD_H | vacc & FIELD_V.
TimingField(acc) == [h |-> Masked(acc.h, H_BITS), v |-> Masked(acc.v, V_BITS)]
TimingRegs(g, sc) ==
  [g EXCEPT !.sscr = TimingField([h |-> sc.hsync_width - 1, v |-> sc.vsync_height - 1]),
            !.bpcr = TimingField(AccBackPorch(sc)),
            !.awcr = TimingField(AccActive(sc)),
            !.twcr = TimingField(AccTotal(sc))]

\* Mutation: the stop of the active window one past the accumulator.
ActiveWindowOfPastEnd(sc) ==
  [hstart |-> AccBackPorch(sc).h + 1, vstart |-> AccBackPorch(sc).v + 1,
   hstop |-> AccActive(sc).h + 1, vstop |-> AccActive(sc).v + 1]
\* ltdcp->active_window: from hacc + 1 after the back porch to hacc after
\* the active area.
ActiveWindowOf(sc) ==
  [hstart |-> AccBackPorch(sc).h + 1, vstart |-> AccBackPorch(sc).v + 1,
   hstop |-> AccActive(sc).h, vstop |-> AccActive(sc).v]

-----------------------------------------------------------------------------
(* Getters: pure functions of a layer's registers r.                       *)

\* The register getters: CR & LTDC_LEF_MASK, PFCR, CKCR & 0xFFFFFF (an
\* RGB-888 colour, alpha 0), CACR, DCCR, BFCR, CFBAR.
GetEnableFlagsI(r) == r.cr \cap LayerFlags
GetPixelFormatI(r) == r.pf
GetKeyingColorI(r) == [a |-> 0, rgb |-> r.ckcr]
GetConstantAlphaI(r) == r.cacr
GetDefaultColorI(r) == r.dccr
GetBlendingFactorsI(r) == r.bfcr
GetFrameAddressI(r) == r.cfba

\* ltdc*IsEnabledI: CR & ~LTDC_LxCR_LEN.
IsEnabledI(r) == r.cr \ {"LEN"} # {}

\* ltdc*IsPaletteEnabledI: CR & ~LTDC_LxCR_CLUTEN.
IsPaletteEnabledI(r) == r.cr \ {"CLUTEN"} # {}

\* ltdc*IsKeyingEnabledI: CR & ~LTDC_LxCR_COLKEN.
IsKeyingEnabledI(r) == r.cr \ {"COLKEN"} # {}

\* ltdc*GetWindowI: the window position registers as they are.
GetWindowI(r) ==
  [hstart |-> r.whst, hstop |-> r.whsp, vstart |-> r.wvst, vstop |-> r.wvsp]

\* (uint16_t)((x - 3) / d) for a uint32_t x: below 3 the difference wraps
\* to 2^32 - (3 - x), whose quotient's low 16 bits come from the long
\* division of its base-2^16 digits 65535 and 65536 - (3 - x).
LineWidth(x, d) ==
  IF x >= 3 THEN ((x - 3) \div d) % 65536
  ELSE ((65535 % d) * 65536 + 65536 - (3 - x)) \div d

\* ltdc*GetFrameI: the width is the line length minus 3 over the bytes per
\* pixel of the current pixel format (framep->fmt is not written).
GetFrameI(r) ==
  [bufferp |-> r.cfba, pitch |-> r.cfbp,
   width |-> LineWidth(r.cfbll, BytesPerPixel(GetPixelFormatI(r))),
   height |-> r.cfblnbr]

\* ltdc*GetLayerI: every field read back through its getter; the palette
\* cannot be read and is reported absent.
GetLayerI(r) ==
  [frame |-> GetFrameI(r), window |-> GetWindowI(r),
   def_color |-> GetDefaultColorI(r), key_color |-> GetKeyingColorI(r),
   const_alpha |-> GetConstantAlphaI(r), blending |-> GetBlendingFactorsI(r),
   pal_length |-> 0, flags |-> GetEnableFlagsI(r)]

\* The global getters, on the current registers.
ltdcGetEnableFlagsI == glob.gcr \cap GlobalFlags
ltdcIsDitheringEnabledI == "DTEN" \in glob.gcr
ltdcGetClearColorI == [a |-> 0, rgb |-> glob.bccr]
ltdcGetLineInterruptPosI == glob.lipcr

-----------------------------------------------------------------------------
(* Register updates of the layer setters and the asserts guarding them.   *)
(* conf is ltdcp->config, A is ltdcp->active_window.                       *)

\* Mutation: the flags written without masking them to LTDC_LEF_MASK.
EnableFlagsRegsUnmasked(r, flags) == [r EXCEPT !.cr = flags]

\* ltdc*SetEnableFlagsI: the flag bits replaced, the other CR bits (none
\* modelled) kept.
EnableFlagsRegs(r, flags) == [r EXCEPT !.cr = flags \cap LayerFlags]

\* ltdc*SetPaletteI: length bound, then the layer must be "disabled".  The
\* CLUTWR writes (here and in ltdc*SetPaletteColorI) cannot be read back
\* and leave no modelled state.
PaletteChecks(L, r, n) ==
  << <<n <= MAX_PALETTE_LENGTH, Nm(L, "SetPaletteI#1")>>,
     <<~IsEnabledI(r), Nm(L, "SetPaletteI#2")>> >>

\* The colour stores: CKCR keeps RGB-888, CACR the 8-bit alpha, DCCR the
\* whole colour, BFCR the factors.
KeyingColorRegs(r, c) == [r EXCEPT !.ckcr = c.rgb]
ConstantAlphaRegs(r, a) == [r EXCEPT !.cacr = Masked(a, 8)]
DefaultColorRegs(r, c) == [r EXCEPT !.dccr = c]
BlendingFactorsRegs(r, bf) == [r EXCEPT !.bfcr = bf]

\* ltdc*SetWindowI: bounds against the configured screen, translation by
\* the active window's origin, bounds against the active window;
\* horizontal first.
WindowChecks(L, w, conf, A) ==
  << <<w.hstop < conf.screen_width, Nm(L, "SetWindowI#11")>>,
     <<w.vstop < conf.screen_height, Nm(L, "SetWindowI#12")>>,
     <<w.hstart + A.hstart >= A.hstart, Nm(L, "SetWindowI#21")>>,
     <<w.hstop + A.hstart <= A.hstop, Nm(L, "SetWindowI#22")>>,
     <<w.vstart + A.vstart >= A.vstart, Nm(L, "SetWindowI#31")>>,
     <<w.vstop + A.vstart <= A.vstop, Nm(L, "SetWindowI#32")>> >>
\* Mutation: the vertical stop translated by the horizontal origin.
WindowRegsVstopByH(r, w, A) ==
  [r EXCEPT !.whst = w.hstart + A.hstart, !.whsp = w.hstop + A.hstart,
            !.wvst = w.vstart + A.vstart, !.wvsp = w.vstop + A.hstart]
WindowRegs(r, w, A) ==
  [r EXCEPT !.whst = w.hstart + A.hstart, !.whsp = w.hstop + A.hstart,
            !.wvst = w.vstart + A.vstart, !.wvsp = w.vstop + A.vstart]

\* ltdc*SetPixelFormatI's bounds.
PixelFormatChecks(L, fmt) ==
  << <<fmt >= 0, Nm(L, "SetPixelFormatI#2")>>,
     <<fmt <= LTDC_MAX_PIXFMT_ID, Nm(L, "SetPixelFormatI#3")>> >>

\* ltdc*SetFrameI: ltdc*SetPixelFormatI first, then the line size in
\* bytes, its bounds, and the packed CFBLR = pitch << 16 | (linesize + 3).
LineSize(f) == BytesPerPixel(f.fmt) * f.width
FrameChecks(L, f, conf) ==
  PixelFormatChecks(L, f.fmt) \o
  << <<BitsPerPixelAccepts(f.fmt), "ltdcBitsPerPixel#1">>,
     <<f.width <= conf.screen_width, Nm(L, "SetFrameI#1")>>,
     <<f.height <= conf.screen_height, Nm(L, "SetFrameI#2")>>,
     <<LineSize(f) >= MIN_FRAME_WIDTH_BYTES, Nm(L, "SetFrameI#3")>>,
     <<LineSize(f) <= MAX_FRAME_WIDTH_BYTES, Nm(L, "SetFrameI#4")>>,
     <<f.height >= MIN_FRAME_HEIGHT_LINES, Nm(L, "SetFrameI#5")>>,
     <<f.height <= MAX_FRAME_HEIGHT_LINES, Nm(L, "SetFrameI#6")>>,
     <<f.pitch >= LineSize(f), Nm(L, "SetFrameI#7")>> >>
\* Mutation: CFBLL written as the bare line size, without the + 3.
FrameRegsNoPad(r, f) ==
  [r EXCEPT !.pf = f.fmt, !.cfba = f.bufferp,
            !.cfbp = Masked(f.pitch, CFBP_BITS),
            !.cfbll = Masked(LineSize(f), CFBLL_BITS),
            !.cfblnbr = Masked(f.height, CFBLNBR_BITS)]
FrameRegs(r, f) ==
  [r EXCEPT !.pf = f.fmt, !.cfba = f.bufferp,
            !.cfbp = Masked(f.pitch, CFBP_BITS),
            !.cfbll = Masked(LineSize(f) + 3, CFBLL_BITS),
            !.cfblnbr = Masked(f.height, CFBLNBR_BITS)]

\* ltdc*SetConfigI on the layer configuration c (NULL already replaced by
\* the default): frame, window, the four colour stores, the palette if
\* there is one, and the enable flags last.  The palette check reads CR,
\* which the stores before it leave alone.
ConfigChecks(L, r, c, conf, A) ==
  FrameChecks(L, c.frame, conf) \o WindowChecks(L, c.window, conf, A)
  \o (IF c.pal_length > 0 THEN PaletteChecks(L, r, c.pal_length) ELSE <<>>)
ConfigRegs(r, c, A) ==
  LET r1 == WindowRegs(FrameRegs(r, c.frame), c.window, A)
      r2 == BlendingFactorsRegs(ConstantAlphaRegs(KeyingColorRegs(
              DefaultColorRegs(r1, c.def_color), c.key_color), c.const_alpha),
              c.blending)
  IN  EnableFlagsRegs(r2, c.flags)

-----------------------------------------------------------------------------
(* Layer actions, generic in the layer L: the background function is the   *)
(* one on L = "Bg", the foreground one on L = "Fg".                        *)

\* A call on layer L: its asserts pass and L's registers become regs and
\* the application's record of its frame and window becomes frames and
\* windows, or the first failing assert halts the system.
LayerCall(L, checks, regs, frames, windows) ==
  /\ Running
  /\ calls' = calls + 1
  /\ IF Passed(checks)
       THEN /\ lay' = [lay EXCEPT ![L] = regs]
            /\ setFrame' = [setFrame EXCEPT ![L] = frames]
            /\ setWindow' = [setWindow EXCEPT ![L] = windows]
            /\ UNCHANGED fault
       ELSE /\ fault' = FirstFailure(checks)
            /\ UNCHANGED <<lay, setFrame, setWindow>>
  /\ UNCHANGED <<glob, aw, cfg, drv>>

\* A call that sets neither a frame nor a window.
Store(L, checks, regs) == LayerCall(L, checks, regs, setFrame[L], setWindow[L])

SetEnableFlagsI(L, flags) == Store(L, <<>>, EnableFlagsRegs(lay[L], flags))
EnableI(L) == Store(L, <<>>, [lay[L] EXCEPT !.cr = @ \cup {"LEN"}])
DisableI(L) == Store(L, <<>>, [lay[L] EXCEPT !.cr = @ \ {"LEN"}])
EnablePaletteI(L) == Store(L, <<>>, [lay[L] EXCEPT !.cr = @ \cup {"CLUTEN"}])
DisablePaletteI(L) == Store(L, <<>>, [lay[L] EXCEPT !.cr = @ \ {"CLUTEN"}])
EnableKeyingI(L) == Store(L, <<>>, [lay[L] EXCEPT !.cr = @ \cup {"COLKEN"}])
DisableKeyingI(L) == Store(L, <<>>, [lay[L] EXCEPT !.cr = @ \ {"COLKEN"}])
SetPaletteColorI(L, slot, c) ==
  Store(L, << <<~IsEnabledI(lay[L]), Nm(L, "SetPaletteColorI#1")>> >>, lay[L])
SetPaletteI(L, n) == Store(L, PaletteChecks(L, lay[L], n), lay[L])
SetPixelFormatI(L, fmt) ==
  Store(L, PixelFormatChecks(L, fmt), [lay[L] EXCEPT !.pf = fmt])
SetKeyingColorI(L, c) == Store(L, <<>>, KeyingColorRegs(lay[L], c))
SetConstantAlphaI(L, a) == Store(L, <<>>, ConstantAlphaRegs(lay[L], a))
SetDefaultColorI(L, c) == Store(L, <<>>, DefaultColorRegs(lay[L], c))
SetBlendingFactorsI(L, bf) == Store(L, <<>>, BlendingFactorsRegs(lay[L], bf))

\* The window, frame and whole-layer setters read ltdcp->config, so they
\* need a configuration (ltdcStart called at least once).
SetWindowI(L, w) ==
  /\ cfg # NULL
  /\ LayerCall(L, WindowChecks(L, w, cfg, aw), WindowRegs(lay[L], w, aw),
               setFrame[L], {w})

SetInvalidWindowI(L) == SetWindowI(L, InvalidWindow)

SetFrameI(L, f) ==
  /\ cfg # NULL
  /\ LayerCall(L, FrameChecks(L, f, cfg), FrameRegs(lay[L], f), {f}, setWindow[L])

SetFrameAddressI(L, b) ==
  LayerCall(L, <<>>, [lay[L] EXCEPT !.cfba = b],
            {[f EXCEPT !.bufferp = b] : f \in setFrame[L]}, setWindow[L])

SetConfigI(L, cp) ==
  LET c == LaycfgOf(cp)
  IN  /\ cfg # NULL
      /\ LayerCall(L, ConfigChecks(L, lay[L], c, cfg, aw), ConfigRegs(lay[L], c, aw),
                   {c.frame}, {c.window})

-----------------------------------------------------------------------------
(* Global actions.                                                         *)

GlobalCall(g) ==
  /\ Running
  /\ glob' = g /\ calls' = calls + 1
  /\ UNCHANGED <<lay, aw, cfg, drv, fault, setFrame, setWindow>>

\* ltdcSetEnableFlagsI overwrites the whole of GCR, LTDCEN included.
ltdcSetEnableFlagsI(flags) == GlobalCall([glob EXCEPT !.gcr = flags \cap GlobalFlags])
ltdcEnableDitheringI == GlobalCall([glob EXCEPT !.gcr = @ \cup {"DTEN"}])
ltdcDisableDitheringI == GlobalCall([glob EXCEPT !.gcr = @ \ {"DTEN"}])
ltdcSetClearColorI(c) == GlobalCall([glob EXCEPT !.bccr = c.rgb])
ltdcSetLineInterruptPosI(line) ==
  GlobalCall([glob EXCEPT !.lipcr = Masked(line, LIPOS_BITS)])

\* ltdcStart: GCR cleared, the configuration recorded, the timing stages in
\* order with their registers and the active window, the configuration's
\* flags without LTDCEN, the clear colour, the background and then the
\* foreground configuration, and finally LTDCEN; the driver is READY.
\* (IER, the NVIC and the forced reloads are LTDCDriver's.)
ltdcStart(sc) ==
  LET A == ActiveWindowOf(sc)
      laycfg == [Bg |-> LaycfgOf(sc.bg_laycfg), Fg |-> LaycfgOf(sc.fg_laycfg)]
      checks == TimingChecks(sc)
                \o ConfigChecks("Bg", lay["Bg"], laycfg["Bg"], sc, A)
                \o ConfigChecks("Fg", lay["Fg"], laycfg["Fg"], sc, A)
  IN  /\ Running /\ drv = "STOP"
      /\ cfg' = sc /\ calls' = calls + 1
      /\ IF Passed(checks)
           THEN /\ glob' = [TimingRegs(glob, sc) EXCEPT
                              !.gcr = ((sc.flags \ {"LTDCEN"}) \cap GlobalFlags) \cup {"LTDCEN"},
                              !.bccr = sc.clear_color.rgb]
                /\ aw' = A
                /\ lay' = [L \in LayerIds |-> ConfigRegs(lay[L], laycfg[L], A)]
                /\ setFrame' = [L \in LayerIds |-> {laycfg[L].frame}]
                /\ setWindow' = [L \in LayerIds |-> {laycfg[L].window}]
                /\ drv' = "READY" /\ UNCHANGED fault
           ELSE /\ fault' = FirstFailure(checks)
                /\ UNCHANGED <<glob, aw, lay, setFrame, setWindow, drv>>

\* ltdcStop: LTDCEN cleared; the layer registers are left as they are.
ltdcStop ==
  /\ Running /\ drv = "READY"
  /\ glob' = [glob EXCEPT !.gcr = @ \ {"LTDCEN"}]
  /\ drv' = "STOP" /\ calls' = calls + 1
  /\ UNCHANGED <<lay, aw, cfg, fault, setFrame, setWindow>>

-----------------------------------------------------------------------------

\* After ltdcObjectInit (no configuration, active_window invalid) and
\* rccResetLTDC: registers at their reset values (CACR 0xFF, BFCR 0x0607).
ResetLayer ==
  [cr |-> {}, whst |-> 0, whsp |-> 0, wvst |-> 0, wvsp |-> 0,
   pf |-> 0, cfba |-> NULL, cfbp |-> 0, cfbll |-> 0, cfblnbr |-> 0,
   ckcr |-> 0, cacr |-> 255, dccr |-> [a |-> 0, rgb |-> 0], bfcr |-> "MOD1_MOD2"]
ResetGlobal ==
  [gcr |-> {}, bccr |-> 0, lipcr |-> 0, sscr |-> [h |-> 0, v |-> 0],
   bpcr |-> [h |-> 0, v |-> 0], awcr |-> [h |-> 0, v |-> 0], twcr |-> [h |-> 0, v |-> 0]]

LayerInit ==
  /\ lay = [L \in LayerIds |-> ResetLayer]
  /\ glob = ResetGlobal
  /\ aw = InvalidWindow
  /\ cfg = NULL
  /\ drv = "STOP"
  /\ fault = "none"
  /\ calls = 0
  /\ setFrame = [L \in LayerIds |-> {}]
  /\ setWindow = [L \in LayerIds |-> {}]

-----------------------------------------------------------------------------

Colour == [a : 0..255, rgb : 0..(2^24 - 1)]
Pair(hb, vb) == [h : 0..(2^hb - 1), v : 0..(2^vb - 1)]

LayerTypeOK ==
  /\ \A L \in LayerIds :
       LET r == lay[L] IN
       /\ r.cr \subseteq LayerFlags
       /\ {r.whst, r.whsp, r.wvst, r.wvsp} \subseteq Nat
       /\ r.pf \in PixelFormats \cup PixelFormatInputs
       /\ r.cfba \in Buffers \cup {NULL}
       /\ r.cfbp \in 0..(2^CFBP_BITS - 1)
       /\ r.cfbll \in 0..(2^CFBLL_BITS - 1)
       /\ r.cfblnbr \in 0..(2^CFBLNBR_BITS - 1)
       /\ r.ckcr \in 0..(2^24 - 1) /\ r.cacr \in 0..255 /\ r.dccr \in Colour
  /\ glob.gcr \subseteq GlobalFlags
  /\ glob.bccr \in 0..(2^24 - 1) /\ glob.lipcr \in 0..(2^LIPOS_BITS - 1)
  /\ {glob.sscr, glob.bpcr, glob.awcr, glob.twcr} \subseteq Pair(H_BITS, V_BITS)
  /\ drv \in {"STOP", "READY"}
  /\ cfg \in StartConfigs \cup {NULL}
  /\ fault \in STRING
  /\ calls \in 0..MAX_CALLS

\* The active window ltdcStart caches (and the window setters translate
\* by) is the one the timing registers give the hardware: it starts one
\* past BPCR's accumulated back porch, ends at AWCR's accumulated active
\* width and height, and spans exactly the configured screen.
ActiveWindowMatchesTimings ==
  (fault = "none" /\ cfg # NULL) =>
    /\ aw.hstart = glob.bpcr.h + 1 /\ aw.vstart = glob.bpcr.v + 1
    /\ aw.hstop = glob.awcr.h /\ aw.vstop = glob.awcr.v
    /\ aw.hstop - aw.hstart + 1 = cfg.screen_width
    /\ aw.vstop - aw.vstart + 1 = cfg.screen_height

NoAssertionFails == fault = "none"

=============================================================================
