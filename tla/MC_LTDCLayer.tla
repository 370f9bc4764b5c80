----------------------------- MODULE MC_LTDCLayer -----------------------------
(***************************************************************************)
(* Two LTDCConfig values for ltdcStart:                                     *)
(*   - the driver's reference 480x272 panel (HSW 41, VSW 10, porches of 2, *)
(*     so the active window is 43..522 x 12..283);                          *)
(*   - a 240x320 panel with other porches (active window 30..269 x 5..324). *)
(* Two frame buffers, and the frames, windows, colours and layer            *)
(* configurations an application passes, including ones the driver must    *)
(* reject.                                                                  *)
(***************************************************************************)
EXTENDS LTDCApi

CONSTANTS b1, b2, null

MC_Buffers == {b1, b2}

\* A full-screen RGB565 frame for the 480x272 panel; an ARGB8888 frame
\* showing 240 of a buffer's 2048 pixels a line, whose pitch of 8192 bytes
\* the asserts accept and the 13-bit CFBP field cannot hold; an L8
\* (palette) frame; a
\* frame wider than either screen, which ltdc*SetFrameI must reject.
FrameRGB565 == [bufferp |-> b1, pitch |-> 960, width |-> 480, height |-> 272,
                fmt |-> LTDC_FMT_RGB565]
FrameARGB8888 == [bufferp |-> b2, pitch |-> 8192, width |-> 240, height |-> 100,
                  fmt |-> LTDC_FMT_ARGB8888]
FrameL8 == [bufferp |-> b1, pitch |-> 240, width |-> 240, height |-> 272,
            fmt |-> LTDC_FMT_L8]
FrameTooWide == [bufferp |-> b2, pitch |-> 1000, width |-> 500, height |-> 100,
                 fmt |-> LTDC_FMT_RGB565]

\* The whole 480x272 screen, a 100x100 window, and one a pixel too wide.
WindowFull == [hstart |-> 0, hstop |-> 479, vstart |-> 0, vstop |-> 271]
WindowSmall == [hstart |-> 10, hstop |-> 109, vstart |-> 20, vstop |-> 119]
WindowTooWide == [hstart |-> 0, hstop |-> 480, vstart |-> 0, vstop |-> 271]

\* An opaque red, and a key colour with alpha bits the key register drops.
Red == [a |-> 255, rgb |-> 16711680]
Key == [a |-> 128, rgb |-> 65280]

\* Layer configurations: L8 with a 16-colour palette; plain ARGB8888; the
\* full-screen RGB565 layer.
ConfigPalette == [frame |-> FrameL8, window |-> WindowSmall, def_color |-> Red,
                  key_color |-> Key, const_alpha |-> 255, blending |-> "MOD1_MOD2",
                  pal_length |-> 16, flags |-> {"LEN", "CLUTEN"}]
ConfigARGB8888 == [frame |-> FrameARGB8888, window |-> WindowSmall, def_color |-> Red,
                   key_color |-> Key, const_alpha |-> 128, blending |-> "FIX1_FIX2",
                   pal_length |-> 0, flags |-> {"LEN", "COLKEN"}]
ConfigRGB565 == [frame |-> FrameRGB565, window |-> WindowFull, def_color |-> Red,
                 key_color |-> Key, const_alpha |-> 255, blending |-> "FIX1_FIX2",
                 pal_length |-> 0, flags |-> {"LEN"}]

\* The bounds of ltdcStart's stages: positive values fitting the 12-bit
\* horizontal and 11-bit vertical register fields.
MC_TimingLimits == [k \in 1..7 |-> [h |-> <<1, 4096>>, v |-> <<1, 2048>>]]

StartWide == [hsync_width |-> 41, vsync_height |-> 10, hbp_width |-> 2, vbp_height |-> 2,
              screen_width |-> 480, screen_height |-> 272, hfp_width |-> 2, vfp_height |-> 2,
              flags |-> {"LTDCEN", "DTEN"}, clear_color |-> Red,
              bg_laycfg |-> ConfigRGB565, fg_laycfg |-> null]
StartTall == [hsync_width |-> 10, vsync_height |-> 2, hbp_width |-> 20, vbp_height |-> 3,
              screen_width |-> 240, screen_height |-> 320, hfp_width |-> 10, vfp_height |-> 4,
              flags |-> {"HSPOL"}, clear_color |-> Key,
              bg_laycfg |-> null, fg_laycfg |-> ConfigARGB8888]
\* The tall panel with a palette layer in the background.
StartPalette == [StartTall EXCEPT !.bg_laycfg = ConfigPalette]

MC_Frames == {FrameRGB565, FrameARGB8888, FrameTooWide}
MC_Windows == {WindowSmall, WindowTooWide}
MC_Configs == {ConfigARGB8888}
MC_StartConfigs == {StartWide, StartTall}
MC_PaletteConfigs == {ConfigPalette}
MC_PaletteStarts == {StartPalette}
MC_Colors == {Key}
\* "DEN" (dithering) belongs to the global group and must be masked off by
\* the layer setter; "LEN" is not a global flag and must be masked off by
\* ltdcSetEnableFlagsI.
MC_FlagSets == {{"LEN", "DEN"}}
MC_GlobalFlagSets == {{"LTDCEN", "HSPOL", "LEN"}}

=============================================================================
