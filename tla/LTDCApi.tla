-------------------------------- MODULE LTDCApi --------------------------------
(***************************************************************************)
(* The background / foreground entry points of stm32_ltdc.c over the       *)
(* generic layer operations of LTDCLayer (ltdcBg* on LTDC_Layer1, ltdcFg*  *)
(* on LTDC_Layer2), and their thread-context versions, which wrap the      *)
(* I-class function in chSysLock / chSysUnlock and so are one step here.   *)
(* The layer specification and its read-back properties use these names.  *)
(***************************************************************************)
EXTENDS LTDCLayer

\* The getters of each layer: the background functions read LTDC_Layer1,
\* the foreground ones LTDC_Layer2.
ltdcBgGetEnableFlagsI == GetEnableFlagsI(lay["Bg"])
ltdcFgGetEnableFlagsI == GetEnableFlagsI(lay["Fg"])
ltdcBgIsEnabledI == IsEnabledI(lay["Bg"])
ltdcFgIsEnabledI == IsEnabledI(lay["Fg"])
ltdcBgIsPaletteEnabledI == IsPaletteEnabledI(lay["Bg"])
ltdcFgIsPaletteEnabledI == IsPaletteEnabledI(lay["Fg"])
ltdcBgGetPixelFormatI == GetPixelFormatI(lay["Bg"])
ltdcFgGetPixelFormatI == GetPixelFormatI(lay["Fg"])
ltdcBgIsKeyingEnabledI == IsKeyingEnabledI(lay["Bg"])
ltdcFgIsKeyingEnabledI == IsKeyingEnabledI(lay["Fg"])
ltdcBgGetKeyingColorI == GetKeyingColorI(lay["Bg"])
ltdcFgGetKeyingColorI == GetKeyingColorI(lay["Fg"])
ltdcBgGetConstantAlphaI == GetConstantAlphaI(lay["Bg"])
ltdcFgGetConstantAlphaI == GetConstantAlphaI(lay["Fg"])
ltdcBgGetDefaultColorI == GetDefaultColorI(lay["Bg"])
ltdcFgGetDefaultColorI == GetDefaultColorI(lay["Fg"])
ltdcBgGetBlendingFactorsI == GetBlendingFactorsI(lay["Bg"])
ltdcFgGetBlendingFactorsI == GetBlendingFactorsI(lay["Fg"])
ltdcBgGetWindowI == GetWindowI(lay["Bg"])
ltdcFgGetWindowI == GetWindowI(lay["Fg"])
ltdcBgGetFrameI == GetFrameI(lay["Bg"])
ltdcFgGetFrameI == GetFrameI(lay["Fg"])
ltdcBgGetFrameAddressI == GetFrameAddressI(lay["Bg"])
ltdcFgGetFrameAddressI == GetFrameAddressI(lay["Fg"])
ltdcBgGetLayerI == GetLayerI(lay["Bg"])
ltdcFgGetLayerI == GetLayerI(lay["Fg"])

\* The thread-context getters: the I-class getter between chSysLock and
\* chSysUnlock, which reads the same registers.
ltdcGetEnableFlags == ltdcGetEnableFlagsI
ltdcIsDitheringEnabled == ltdcIsDitheringEnabledI
ltdcGetClearColor == ltdcGetClearColorI
ltdcGetLineInterruptPos == ltdcGetLineInterruptPosI
ltdcBgGetEnableFlags == ltdcBgGetEnableFlagsI
ltdcFgGetEnableFlags == ltdcFgGetEnableFlagsI
ltdcBgIsEnabled == ltdcBgIsEnabledI
ltdcFgIsEnabled == ltdcFgIsEnabledI
ltdcBgIsPaletteEnabled == ltdcBgIsPaletteEnabledI
ltdcFgIsPaletteEnabled == ltdcFgIsPaletteEnabledI
ltdcBgGetPixelFormat == ltdcBgGetPixelFormatI
ltdcFgGetPixelFormat == ltdcFgGetPixelFormatI
ltdcBgIsKeyingEnabled == ltdcBgIsKeyingEnabledI
ltdcFgIsKeyingEnabled == ltdcFgIsKeyingEnabledI
ltdcBgGetKeyingColor == ltdcBgGetKeyingColorI
ltdcFgGetKeyingColor == ltdcFgGetKeyingColorI
ltdcBgGetConstantAlpha == ltdcBgGetConstantAlphaI
ltdcFgGetConstantAlpha == ltdcFgGetConstantAlphaI
ltdcBgGetDefaultColor == ltdcBgGetDefaultColorI
ltdcFgGetDefaultColor == ltdcFgGetDefaultColorI
ltdcBgGetBlendingFactors == ltdcBgGetBlendingFactorsI
ltdcFgGetBlendingFactors == ltdcFgGetBlendingFactorsI
ltdcBgGetWindow == ltdcBgGetWindowI
ltdcFgGetWindow == ltdcFgGetWindowI
ltdcBgGetFrame == ltdcBgGetFrameI
ltdcFgGetFrame == ltdcFgGetFrameI
ltdcBgGetFrameAddress == ltdcBgGetFrameAddressI
ltdcFgGetFrameAddress == ltdcFgGetFrameAddressI
ltdcBgGetLayer == ltdcBgGetLayerI
ltdcFgGetLayer == ltdcFgGetLayerI

\* The background and foreground functions.
ltdcBgSetEnableFlagsI(flags) == SetEnableFlagsI("Bg", flags)
ltdcFgSetEnableFlagsI(flags) == SetEnableFlagsI("Fg", flags)
ltdcBgEnableI == EnableI("Bg")
ltdcFgEnableI == EnableI("Fg")
ltdcBgDisableI == DisableI("Bg")
ltdcFgDisableI == DisableI("Fg")
ltdcBgEnablePaletteI == EnablePaletteI("Bg")
ltdcFgEnablePaletteI == EnablePaletteI("Fg")
ltdcBgDisablePaletteI == DisablePaletteI("Bg")
ltdcFgDisablePaletteI == DisablePaletteI("Fg")
ltdcBgEnableKeyingI == EnableKeyingI("Bg")
ltdcFgEnableKeyingI == EnableKeyingI("Fg")
ltdcBgDisableKeyingI == DisableKeyingI("Bg")
ltdcFgDisableKeyingI == DisableKeyingI("Fg")
ltdcBgSetPaletteColorI(slot, c) == SetPaletteColorI("Bg", slot, c)
ltdcFgSetPaletteColorI(slot, c) == SetPaletteColorI("Fg", slot, c)
ltdcBgSetPaletteI(n) == SetPaletteI("Bg", n)
ltdcFgSetPaletteI(n) == SetPaletteI("Fg", n)
ltdcBgSetPixelFormatI(fmt) == SetPixelFormatI("Bg", fmt)
ltdcFgSetPixelFormatI(fmt) == SetPixelFormatI("Fg", fmt)
ltdcBgSetKeyingColorI(c) == SetKeyingColorI("Bg", c)
ltdcFgSetKeyingColorI(c) == SetKeyingColorI("Fg", c)
ltdcBgSetConstantAlphaI(a) == SetConstantAlphaI("Bg", a)
ltdcFgSetConstantAlphaI(a) == SetConstantAlphaI("Fg", a)
ltdcBgSetDefaultColorI(c) == SetDefaultColorI("Bg", c)
ltdcFgSetDefaultColorI(c) == SetDefaultColorI("Fg", c)
ltdcBgSetBlendingFactorsI(bf) == SetBlendingFactorsI("Bg", bf)
ltdcFgSetBlendingFactorsI(bf) == SetBlendingFactorsI("Fg", bf)
ltdcBgSetWindowI(w) == SetWindowI("Bg", w)
ltdcFgSetWindowI(w) == SetWindowI("Fg", w)
ltdcBgSetInvalidWindowI == SetInvalidWindowI("Bg")
ltdcFgSetInvalidWindowI == SetInvalidWindowI("Fg")
ltdcBgSetFrameI(f) == SetFrameI("Bg", f)
ltdcFgSetFrameI(f) == SetFrameI("Fg", f)
ltdcBgSetFrameAddressI(b) == SetFrameAddressI("Bg", b)
ltdcFgSetFrameAddressI(b) == SetFrameAddressI("Fg", b)
ltdcBgSetConfigI(c) == SetConfigI("Bg", c)
ltdcFgSetConfigI(c) == SetConfigI("Fg", c)

\* The thread-context functions: chSysLock, the I-class function,
\* chSysUnlock; one step, as nothing else runs under the kernel lock.
ltdcBgSetEnableFlags(flags) == ltdcBgSetEnableFlagsI(flags)
ltdcFgSetEnableFlags(flags) == ltdcFgSetEnableFlagsI(flags)
ltdcBgEnable == ltdcBgEnableI
ltdcFgEnable == ltdcFgEnableI
ltdcBgDisable == ltdcBgDisableI
ltdcFgDisable == ltdcFgDisableI
ltdcBgEnablePalette == ltdcBgEnablePaletteI
ltdcFgEnablePalette == ltdcFgEnablePaletteI
ltdcBgDisablePalette == ltdcBgDisablePaletteI
ltdcFgDisablePalette == ltdcFgDisablePaletteI
ltdcBgEnableKeying == ltdcBgEnableKeyingI
ltdcFgEnableKeying == ltdcFgEnableKeyingI
ltdcBgDisableKeying == ltdcBgDisableKeyingI
ltdcFgDisableKeying == ltdcFgDisableKeyingI
ltdcBgSetPaletteColor(slot, c) == ltdcBgSetPaletteColorI(slot, c)
ltdcFgSetPaletteColor(slot, c) == ltdcFgSetPaletteColorI(slot, c)
ltdcBgSetPalette(n) == ltdcBgSetPaletteI(n)
ltdcFgSetPalette(n) == ltdcFgSetPaletteI(n)
ltdcBgSetPixelFormat(fmt) == ltdcBgSetPixelFormatI(fmt)
ltdcFgSetPixelFormat(fmt) == ltdcFgSetPixelFormatI(fmt)
ltdcBgSetKeyingColor(c) == ltdcBgSetKeyingColorI(c)
ltdcFgSetKeyingColor(c) == ltdcFgSetKeyingColorI(c)
ltdcBgSetConstantAlpha(a) == ltdcBgSetConstantAlphaI(a)
ltdcFgSetConstantAlpha(a) == ltdcFgSetConstantAlphaI(a)
ltdcBgSetDefaultColor(c) == ltdcBgSetDefaultColorI(c)
ltdcFgSetDefaultColor(c) == ltdcFgSetDefaultColorI(c)
ltdcBgSetBlendingFactors(bf) == ltdcBgSetBlendingFactorsI(bf)
ltdcFgSetBlendingFactors(bf) == ltdcFgSetBlendingFactorsI(bf)
ltdcBgSetWindow(w) == ltdcBgSetWindowI(w)
ltdcFgSetWindow(w) == ltdcFgSetWindowI(w)
ltdcBgSetInvalidWindow == ltdcBgSetInvalidWindowI
ltdcFgSetInvalidWindow == ltdcFgSetInvalidWindowI
ltdcBgSetFrame(f) == ltdcBgSetFrameI(f)
ltdcFgSetFrame(f) == ltdcFgSetFrameI(f)
ltdcBgSetFrameAddress(b) == ltdcBgSetFrameAddressI(b)
ltdcFgSetFrameAddress(b) == ltdcFgSetFrameAddressI(b)
ltdcBgSetConfig(c) == ltdcBgSetConfigI(c)
ltdcFgSetConfig(c) == ltdcFgSetConfigI(c)

\* Their thread-context versions, under chSysLock.
ltdcSetEnableFlags(flags) == ltdcSetEnableFlagsI(flags)
ltdcEnableDithering == ltdcEnableDitheringI
ltdcDisableDithering == ltdcDisableDitheringI
ltdcSetClearColor(c) == ltdcSetClearColorI(c)
ltdcSetLineInterruptPos(line) == ltdcSetLineInterruptPosI(line)

-----------------------------------------------------------------------------

LayerNext ==
  \/ \E sc \in StartConfigs : ltdcStart(sc)
  \/ ltdcStop
  \/ \E flags \in GlobalFlagSets : ltdcSetEnableFlags(flags)
  \/ ltdcEnableDithering \/ ltdcDisableDithering
  \/ \E c \in Colors : ltdcSetClearColor(c)
  \/ \E line \in LinePositions : ltdcSetLineInterruptPos(line)
  \/ \E c \in Configs \cup {NULL} : ltdcBgSetConfig(c) \/ ltdcFgSetConfig(c)
  \/ \E flags \in FlagSets : ltdcBgSetEnableFlags(flags) \/ ltdcFgSetEnableFlags(flags)
  \/ ltdcBgEnable \/ ltdcFgEnable \/ ltdcBgDisable \/ ltdcFgDisable
  \/ ltdcBgEnablePalette \/ ltdcFgEnablePalette
  \/ ltdcBgDisablePalette \/ ltdcFgDisablePalette
  \/ ltdcBgEnableKeying \/ ltdcFgEnableKeying
  \/ ltdcBgDisableKeying \/ ltdcFgDisableKeying
  \/ \E slot \in Slots, c \in Colors :
       ltdcBgSetPaletteColor(slot, c) \/ ltdcFgSetPaletteColor(slot, c)
  \/ \E n \in PaletteLengths : ltdcBgSetPalette(n) \/ ltdcFgSetPalette(n)
  \/ \E fmt \in PixelFormatInputs : ltdcBgSetPixelFormat(fmt) \/ ltdcFgSetPixelFormat(fmt)
  \/ \E c \in Colors : \/ ltdcBgSetKeyingColor(c) \/ ltdcFgSetKeyingColor(c)
                       \/ ltdcBgSetDefaultColor(c) \/ ltdcFgSetDefaultColor(c)
  \/ \E a \in Alphas : ltdcBgSetConstantAlpha(a) \/ ltdcFgSetConstantAlpha(a)
  \/ \E bf \in Blendings : ltdcBgSetBlendingFactors(bf) \/ ltdcFgSetBlendingFactors(bf)
  \/ \E w \in Windows : ltdcBgSetWindow(w) \/ ltdcFgSetWindow(w)
  \/ ltdcBgSetInvalidWindow \/ ltdcFgSetInvalidWindow
  \/ \E f \in Frames : ltdcBgSetFrame(f) \/ ltdcFgSetFrame(f)
  \/ \E b \in Buffers : ltdcBgSetFrameAddress(b) \/ ltdcFgSetFrameAddress(b)

LayerSpec == LayerInit /\ [][LayerNext]_lvars

\* The layer configuration the application reads back with ltdcBgGetLayer
\* or ltdcFgGetLayer.
ReadLayer(L) == [Bg |-> ltdcBgGetLayer, Fg |-> ltdcFgGetLayer][L]

\* Once a frame is set on a layer (by ltdc*SetFrameI, ltdc*SetConfigI or
\* ltdcStart, its address possibly changed since by
\* ltdc*SetFrameAddressI), the frame ltdc*GetLayerI reads back has its
\* address, width and height as long as the layer still has the frame's
\* pixel format: the CFBLR line length (bytes per pixel times width, plus
\* 3) is inverted by ltdc*GetFrameI, for every frame the asserts accept.
\* The pitch is left out: a pitch of 2^13 or more is truncated by the
\* 13-bit CFBP field (a hazard of its own).
FrameRoundTrip ==
  \A L \in LayerIds : \A f \in setFrame[L] :
    lay[L].pf = f.fmt =>
      LET g == ReadLayer(L).frame
      IN  [bufferp |-> g.bufferp, width |-> g.width, height |-> g.height] =
          [bufferp |-> f.bufferp, width |-> f.width, height |-> f.height]

\* On both layers, the window ltdc*GetLayerI reads back is the last window
\* set, translated to absolute coordinates by the active window the last
\* ltdcStart computed from its timings, and it lies inside that active
\* area; also after a restart with other timings.
WindowTranslated ==
  \A L \in LayerIds : \A w \in setWindow[L] :
    LET g == ReadLayer(L).window
    IN  /\ g = [hstart |-> w.hstart + aw.hstart, hstop |-> w.hstop + aw.hstart,
                vstart |-> w.vstart + aw.vstart, vstop |-> w.vstop + aw.vstart]
        /\ aw.hstart <= g.hstart /\ g.hstop <= aw.hstop
        /\ aw.vstart <= g.vstart /\ g.vstop <= aw.vstop

=============================================================================
