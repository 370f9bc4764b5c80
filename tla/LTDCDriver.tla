----------------------------- MODULE LTDCDriver -----------------------------
(***************************************************************************)
(* The LTDC driver of stm32_ltdc.c: the driver state machine                *)
(* (UNINIT/STOP/READY/ACTIVE), the shadow-register reload protocol, the     *)
(* event and error interrupt handlers, and the one client thread that       *)
(* calls the driver.  Three actors interleave:                              *)
(*   - the client thread, whose position inside a driver call is pc;        *)
(*   - the LTDC hardware, which commits shadow registers on an immediate    *)
(*     (IMR) or vertical-blanking (VBR) reload and raises interrupt flags;  *)
(*   - the interrupt handlers, which run only while the client does not     *)
(*     hold the kernel lock (chSysLock masks them).                         *)
(* Register contents written by setters are abstracted to one value per     *)
(* register block (Layers); the reload commits shadow to active.            *)
(***************************************************************************)
EXTENDS FiniteSets

CONSTANTS
  Layers,            \* register blocks written by the setters (Bg, Fg)
  Values,            \* contents a setter can write into a block
  ResetValue,        \* contents of every block after rccResetLTDC()
  Callbacks,         \* non-NULL ISR callbacks of the LTDCConfig
  USE_WAIT,          \* build option LTDC_USE_WAIT
  RRIF_ON_IMMEDIATE, \* hardware: an immediate reload also raises RRIF
  ASYNC_IMMEDIATE    \* the client calls ltdcStartReloadI(ltdcp, TRUE)

ASSUME ResetValue \notin Values
ASSUME Callbacks \subseteq {"line", "rr", "fuerr", "terr"}
ASSUME USE_WAIT \in BOOLEAN /\ RRIF_ON_IMMEDIATE \in BOOLEAN
ASSUME ASYNC_IMMEDIATE \in BOOLEAN

VARIABLES
  state,     \* ltdcp->state
  pc,        \* where the client thread is
  waiter,    \* ltdcp->thread # NULL
  srcr,      \* LTDC->SRCR reload request bits still set
  enabled,   \* LTDC->GCR LTDCEN
  ier,       \* LTDC->IER
  isr,       \* LTDC->ISR flags raised and not cleared
  shadow,    \* shadow registers, per block
  active,    \* registers in use by the raster engine, per block
  snap,      \* shadow contents when the last reload was requested
  fault      \* the chDbgAssert that failed, or "none"

vars == <<state, pc, waiter, srcr, enabled, ier, isr, shadow, active, snap,
          fault>>

States == {"UNINIT", "STOP", "READY", "ACTIVE"}
IerBits == {"LIE", "RRIE", "FUIE", "TERRIE"}
IsrBits == {"LIF", "RRIF", "FUIF", "TERRIF"}

\* The chDbgAssert points the model tracks.
Faults == {"none", "ltdcReloadS#1", "LTDC_EV_IRQHandler#1",
           "LTDC_EV_IRQHandler#2", "LTDC_ER_IRQHandler"}

\* Client positions: between calls (unlocked or inside chSysLock), and the
\* polling or sleeping points inside ltdcStart, ltdcStop and ltdcReloadS.
Points == {"Idle", "Locked", "StartFlush", "StartApply", "StartEnable",
           "StopPoll", "Poll", "Sleep"}

\* Interrupt sources, their flags, and the callback each handler invokes.
FlagOf == [LIE |-> "LIF", RRIE |-> "RRIF", FUIE |-> "FUIF",
           TERRIE |-> "TERRIF"]
CallbackOf == [LIE |-> "line", RRIE |-> "rr", FUIE |-> "fuerr",
               TERRIE |-> "terr"]

\* Interrupts are masked while the client holds the kernel lock; a thread
\* sleeping in chSchGoSleepS has released it.
Unmasked == pc \in {"Idle", "Sleep"}

\* ltdcIsReloadingI
IsReloading == srcr # {}

\* A vertical-blank reload is outstanding on a controller that is off: no
\* vertical blank comes to commit it.
Stalled == "VBR" \in srcr /\ ~enabled

\* Sources whose flag is raised and whose enable bit is set.
Pending(srcs) == {s \in srcs \cap ier : FlagOf[s] \in isr}

\* A failed chDbgAssert halts the system: nothing steps after it.
Running == fault = "none"

Transition(from, to) == pc = from /\ pc' = to

-----------------------------------------------------------------------------
(* Driver operations called by the client thread.                          *)

\* ltdcInit: reset the peripheral, ltdcObjectInit, then STOP.
ltdcInit ==
  /\ Running
  /\ state = "UNINIT" /\ pc = "Idle"
  /\ state' = "STOP"
  /\ waiter' = FALSE
  /\ UNCHANGED <<pc, srcr, enabled, ier, isr, shadow, active, snap, fault>>

\* ltdcStart up to its first ltdc_force_reload_s: controller and interrupts
\* off, immediate reload requested.
ltdcStartBegin ==
  /\ Running
  /\ state = "STOP"
  /\ Transition("Idle", "StartFlush")
  /\ enabled' = FALSE
  /\ ier' = {}
  /\ srcr' = srcr \cup {"IMR"}
  /\ UNCHANGED <<state, waiter, isr, shadow, active, snap, fault>>

\* Mutation: the interrupt mask is built from the callback names instead of
\* their enable bits.
ltdcStartApplyMaskFromCallbacks ==
  /\ Running
  /\ ~IsReloading
  /\ Transition("StartFlush", "StartApply")
  /\ \E cfg \in [Layers -> Values] : shadow' = cfg
  /\ ier' = {"RRIE"} \cup Callbacks
  /\ srcr' = {"IMR"}
  /\ UNCHANGED <<state, waiter, enabled, isr, active, snap, fault>>

\* After the flush: timings and both layer configurations written, the
\* interrupt mask programmed from the callbacks, reload forced again.
ltdcStartApply ==
  /\ Running
  /\ ~IsReloading
  /\ Transition("StartFlush", "StartApply")
  /\ \E cfg \in [Layers -> Values] : shadow' = cfg
  /\ ier' = {"RRIE"} \cup {s \in IerBits \ {"RRIE"} : CallbackOf[s] \in Callbacks}
  /\ srcr' = {"IMR"}
  /\ UNCHANGED <<state, waiter, enabled, isr, active, snap, fault>>

\* Controller turned on, reload forced a third time.
ltdcStartEnable ==
  /\ Running
  /\ ~IsReloading
  /\ Transition("StartApply", "StartEnable")
  /\ enabled' = TRUE
  /\ srcr' = {"IMR"}
  /\ UNCHANGED <<state, waiter, ier, isr, shadow, active, snap, fault>>

\* Mutation: READY set without waiting for the last forced reload.
ltdcStartEndNoWait ==
  /\ Running
  /\ Transition("StartEnable", "Idle")
  /\ state' = "READY"
  /\ snap' = shadow
  /\ UNCHANGED <<waiter, srcr, enabled, ier, isr, shadow, active, fault>>

\* Last forced reload done: READY, kernel lock released.
ltdcStartEnd ==
  /\ Running
  /\ ~IsReloading
  /\ Transition("StartEnable", "Idle")
  /\ state' = "READY"
  /\ snap' = shadow
  /\ UNCHANGED <<waiter, srcr, enabled, ier, isr, shadow, active, fault>>

\* Mutation: the two branches of "if (immediately)" swapped.
StartReloadSwapped(imm) ==
  /\ state' = "ACTIVE"
  /\ srcr' = srcr \cup {IF imm THEN "VBR" ELSE "IMR"}
  /\ snap' = shadow

\* ltdcStartReloadI: the state change and the request bit.
StartReload(imm) ==
  /\ state' = "ACTIVE"
  /\ srcr' = srcr \cup {IF imm THEN "IMR" ELSE "VBR"}
  /\ snap' = shadow

\* ltdcStop: controller and interrupts off, then an immediate reload that
\* it waits for (ltdcReloadS with USE_WAIT, a poll of ltdcIsReloadingI
\* without).
ltdcStopBegin ==
  /\ Running
  /\ state = "READY"
  /\ Transition("Idle", "StopPoll")
  /\ enabled' = FALSE
  /\ ier' = {}
  /\ StartReload(TRUE)
  /\ fault' = IF USE_WAIT /\ waiter THEN "ltdcReloadS#1" ELSE fault
  /\ UNCHANGED <<waiter, isr, shadow, active>>

ltdcStopEnd ==
  /\ Running
  /\ IF USE_WAIT THEN "IMR" \notin srcr ELSE ~IsReloading
  /\ Transition("StopPoll", "Idle")
  /\ state' = "STOP"
  /\ UNCHANGED <<waiter, srcr, enabled, ier, isr, shadow, active, snap, fault>>

\* chSysLock / chSysUnlock around a group of I- and S-class calls.
Lock ==
  /\ Running
  /\ state \in {"READY", "ACTIVE"}
  /\ Transition("Idle", "Locked")
  /\ UNCHANGED <<state, waiter, srcr, enabled, ier, isr, shadow, active, snap, fault>>

Unlock ==
  /\ Running
  /\ Transition("Locked", "Idle")
  /\ UNCHANGED <<state, waiter, srcr, enabled, ier, isr, shadow, active, snap, fault>>

\* Any layer setter (ltdcBgSetFrameI, ltdcFgSetWindowI, ...): it writes
\* shadow registers only.
SetRegisters(l, v) ==
  /\ Running
  /\ pc = "Locked"
  /\ shadow' = [shadow EXCEPT ![l] = v]
  /\ UNCHANGED <<state, pc, waiter, srcr, enabled, ier, isr, active, snap, fault>>

\* ltdcSetEnableFlagsI: GCR is not a shadow register, so the write turns the
\* controller on or off at once, whatever reload is outstanding.
ltdcSetEnableFlagsI(en) ==
  /\ Running
  /\ pc = "Locked"
  /\ enabled' = en
  /\ UNCHANGED <<state, pc, waiter, srcr, ier, isr, shadow, active, snap, fault>>

\* ltdcStartReloadI called by the client; its precondition is READY.
ltdcStartReloadI(imm) ==
  /\ Running
  /\ pc = "Locked" /\ state = "READY"
  /\ imm => ASYNC_IMMEDIATE
  /\ StartReload(imm)
  /\ UNCHANGED <<pc, waiter, enabled, ier, isr, shadow, active, fault>>

\* ltdcStartReload: the same call between chSysLock and chSysUnlock, one
\* step from Idle; the ISR may run right after it.
ltdcStartReload(imm) ==
  /\ Running
  /\ pc = "Idle" /\ state = "READY"
  /\ imm => ASYNC_IMMEDIATE
  /\ StartReload(imm)
  /\ UNCHANGED <<pc, waiter, enabled, ier, isr, shadow, active, fault>>

\* Mutation: the polling loop used for deferred reloads as well, as in the
\* build without LTDC_USE_WAIT.
ltdcReloadSPollAlways(imm) ==
  /\ Running
  /\ pc = "Locked" /\ state = "READY"
  /\ StartReload(imm)
  /\ fault' = IF USE_WAIT /\ waiter THEN "ltdcReloadS#1" ELSE fault
  /\ pc' = "Poll" /\ waiter' = waiter
  /\ UNCHANGED <<enabled, ier, isr, shadow, active>>

\* ltdcReloadS: start the reload, then poll SRCR.IMR while yielding, or
\* (USE_WAIT, deferred) park the thread until the reload-done ISR.
ltdcReloadS(imm) ==
  /\ Running
  /\ pc = "Locked" /\ state = "READY"
  /\ StartReload(imm)
  /\ fault' = IF USE_WAIT /\ waiter THEN "ltdcReloadS#1" ELSE fault
  /\ IF USE_WAIT /\ ~imm
       THEN pc' = "Sleep" /\ waiter' = TRUE
       ELSE pc' = "Poll" /\ waiter' = waiter
  /\ UNCHANGED <<enabled, ier, isr, shadow, active>>

\* Mutation: the polling loop dropped.
ltdcReloadSPollSkipped ==
  /\ Running
  /\ Transition("Poll", "Locked")
  /\ state' = "READY"
  /\ UNCHANGED <<waiter, srcr, enabled, ier, isr, shadow, active, snap, fault>>

\* The polling loop of ltdcReloadS sees SRCR.IMR clear.
ltdcReloadSPollDone ==
  /\ Running
  /\ "IMR" \notin srcr
  /\ Transition("Poll", "Locked")
  /\ state' = "READY"
  /\ UNCHANGED <<waiter, srcr, enabled, ier, isr, shadow, active, snap, fault>>

\* The parked thread, readied by the ISR, returns from chSchGoSleepS.
ltdcReloadSResume ==
  /\ Running
  /\ ~waiter
  /\ Transition("Sleep", "Locked")
  /\ UNCHANGED <<state, waiter, srcr, enabled, ier, isr, shadow, active, snap, fault>>

\* LIE set or cleared by a client at pc "at": the I-class calls run inside
\* the client's locked section, the thread-context ones (ltdcEnableLineInterrupt,
\* ltdcDisableLineInterrupt) are the same write between chSysLock and
\* chSysUnlock, one step from Idle.
SetLIE(at, on) ==
  /\ Running
  /\ pc = at
  /\ ier' = IF on THEN ier \cup {"LIE"} ELSE ier \ {"LIE"}
  /\ UNCHANGED <<state, pc, waiter, srcr, enabled, isr, shadow, active, snap, fault>>

\* The client only enables the line interrupt when its configuration has a
\* line callback.
ltdcEnableLineInterruptI == "line" \in Callbacks /\ SetLIE("Locked", TRUE)
ltdcDisableLineInterruptI == SetLIE("Locked", FALSE)
ltdcEnableLineInterrupt == "line" \in Callbacks /\ SetLIE("Idle", TRUE)
ltdcDisableLineInterrupt == SetLIE("Idle", FALSE)

\* The getters: ltdcIsLineInterruptEnabledI and, under chSysLock, its
\* thread-context version; ltdcIsReloading is ltdcIsReloadingI so wrapped.
ltdcIsLineInterruptEnabledI == "LIE" \in ier
ltdcIsLineInterruptEnabled == ltdcIsLineInterruptEnabledI
ltdcIsReloading == IsReloading

-----------------------------------------------------------------------------
(* The hardware.                                                           *)

\* Immediate reload: shadow committed, IMR cleared by the controller.
HwReloadImmediate ==
  /\ Running
  /\ "IMR" \in srcr
  /\ active' = shadow
  /\ srcr' = srcr \ {"IMR"}
  /\ isr' = IF RRIF_ON_IMMEDIATE THEN isr \cup {"RRIF"} ELSE isr
  /\ UNCHANGED <<state, pc, waiter, enabled, ier, shadow, snap, fault>>

\* Vertical-blanking reload: happens at the next vblank, which only comes
\* while the controller is enabled; raises RRIF.
HwReloadVBlank ==
  /\ Running
  /\ "VBR" \in srcr /\ enabled
  /\ active' = shadow
  /\ srcr' = srcr \ {"VBR"}
  /\ isr' = isr \cup {"RRIF"}
  /\ UNCHANGED <<state, pc, waiter, enabled, ier, shadow, snap, fault>>

\* Line reached, FIFO underrun or transfer error while scanning out.
HwEvent(f) ==
  /\ Running
  /\ enabled /\ f \in {"LIF", "FUIF", "TERRIF"} /\ f \notin isr
  /\ isr' = isr \cup {f}
  /\ UNCHANGED <<state, pc, waiter, srcr, enabled, ier, shadow, active, snap, fault>>

-----------------------------------------------------------------------------
(* The interrupt handlers.                                                 *)

\* Mutation: the reload branch does not set the state back to READY.
EvIRQNoReady ==
  LET line == Pending({"LIE"}) # {}
      rr   == Pending({"RRIE"}) # {}
  IN
  /\ Running
  /\ Unmasked /\ (line \/ rr)
  /\ fault' = CASE line /\ "line" \notin Callbacks -> "LTDC_EV_IRQHandler#1"
                [] rr /\ state # "ACTIVE"           -> "LTDC_EV_IRQHandler#2"
                [] OTHER                            -> fault
  /\ waiter' = IF rr THEN FALSE ELSE waiter
  /\ isr' = isr \ ((IF line THEN {"LIF"} ELSE {}) \cup (IF rr THEN {"RRIF"} ELSE {}))
  /\ UNCHANGED <<state, pc, srcr, enabled, ier, shadow, active, snap>>

\* Mutation: the reload branch does not wake the parked thread.
EvIRQNoWake ==
  LET line == Pending({"LIE"}) # {}
      rr   == Pending({"RRIE"}) # {}
  IN
  /\ Running
  /\ Unmasked /\ (line \/ rr)
  /\ fault' = CASE line /\ "line" \notin Callbacks -> "LTDC_EV_IRQHandler#1"
                [] rr /\ state # "ACTIVE"           -> "LTDC_EV_IRQHandler#2"
                [] OTHER                            -> fault
  /\ state' = IF rr THEN "READY" ELSE state
  /\ isr' = isr \ ((IF line THEN {"LIF"} ELSE {}) \cup (IF rr THEN {"RRIF"} ELSE {}))
  /\ UNCHANGED <<pc, waiter, srcr, enabled, ier, shadow, active, snap>>

\* LTDC_EV_IRQHandler: the line branch (callback asserted non-NULL, flag
\* cleared), then the reload branch (callback, state asserted ACTIVE,
\* waiter woken, READY, flag cleared).
LTDC_EV_IRQHandler ==
  LET line == Pending({"LIE"}) # {}
      rr   == Pending({"RRIE"}) # {}
  IN
  /\ Running
  /\ Unmasked /\ (line \/ rr)
  /\ fault' = CASE line /\ "line" \notin Callbacks -> "LTDC_EV_IRQHandler#1"
                [] rr /\ state # "ACTIVE"           -> "LTDC_EV_IRQHandler#2"
                [] OTHER                            -> fault
  /\ state' = IF rr THEN "READY" ELSE state
  /\ waiter' = IF rr THEN FALSE ELSE waiter
  /\ isr' = isr \ ((IF line THEN {"LIF"} ELSE {}) \cup (IF rr THEN {"RRIF"} ELSE {}))
  /\ UNCHANGED <<pc, srcr, enabled, ier, shadow, active, snap>>

\* LTDC_ER_IRQHandler: each enabled error source has its callback asserted
\* non-NULL, invoked, and its flag cleared.
LTDC_ER_IRQHandler ==
  LET srcs == Pending({"FUIE", "TERRIE"}) IN
  /\ Running
  /\ Unmasked /\ srcs # {}
  /\ fault' = IF \E s \in srcs : CallbackOf[s] \notin Callbacks
                THEN "LTDC_ER_IRQHandler" ELSE fault
  /\ isr' = isr \ {FlagOf[s] : s \in srcs}
  /\ UNCHANGED <<state, pc, waiter, srcr, enabled, ier, shadow, active, snap>>

-----------------------------------------------------------------------------

Init ==
  /\ state = "UNINIT"
  /\ pc = "Idle"
  /\ waiter = FALSE
  /\ srcr = {}
  /\ enabled = FALSE
  /\ ier = {}
  /\ isr = {}
  /\ shadow = [l \in Layers |-> ResetValue]
  /\ active = [l \in Layers |-> ResetValue]
  /\ snap = [l \in Layers |-> ResetValue]
  /\ fault = "none"

\* Steps the client thread takes inside a call it has already made.
ClientInternal ==
  \/ ltdcStartApply \/ ltdcStartEnable \/ ltdcStartEnd \/ ltdcStopEnd
  \/ ltdcReloadSPollDone \/ ltdcReloadSResume

Next ==
  \/ ltdcInit \/ ltdcStartBegin \/ ltdcStopBegin \/ Lock \/ Unlock
  \/ \E l \in Layers, v \in Values : SetRegisters(l, v)
  \/ \E en \in BOOLEAN : ltdcSetEnableFlagsI(en)
  \/ \E imm \in BOOLEAN : ltdcStartReloadI(imm) \/ ltdcStartReload(imm)
  \/ \E imm \in BOOLEAN : ltdcReloadS(imm)
  \/ ltdcEnableLineInterruptI \/ ltdcDisableLineInterruptI
  \/ ltdcEnableLineInterrupt \/ ltdcDisableLineInterrupt
  \/ ClientInternal
  \/ HwReloadImmediate \/ HwReloadVBlank
  \/ \E f \in IsrBits : HwEvent(f)
  \/ LTDC_EV_IRQHandler \/ LTDC_ER_IRQHandler

\* The controller always completes a requested reload; the kernel takes a
\* pending unmasked interrupt; a thread inside a driver call is scheduled;
\* critical sections are short (the client always unlocks again).
Fairness ==
  /\ WF_vars(ClientInternal)
  /\ WF_vars(Unlock)
  /\ WF_vars(HwReloadImmediate) /\ WF_vars(HwReloadVBlank)
  /\ SF_vars(LTDC_EV_IRQHandler) /\ SF_vars(LTDC_ER_IRQHandler)

Spec == Init /\ [][Next]_vars /\ Fairness

-----------------------------------------------------------------------------
(* Properties.                                                             *)

TypeOK ==
  /\ state \in States
  /\ pc \in Points
  /\ waiter \in BOOLEAN
  /\ srcr \subseteq {"IMR", "VBR"}
  /\ enabled \in BOOLEAN
  /\ ier \subseteq IerBits
  /\ isr \subseteq IsrBits
  /\ shadow \in [Layers -> Values \cup {ResetValue}]
  /\ active \in [Layers -> Values \cup {ResetValue}]
  /\ snap \in [Layers -> Values \cup {ResetValue}]
  /\ fault \in Faults

\* Whenever the client is between driver calls and the driver reports
\* READY (ltdcStart, ltdcReloadS and the reload-done ISR all set it), no
\* reload is still in flight in SRCR and no reload-done interrupt is
\* pending: otherwise a later LTDC_EV_IRQHandler finds READY, or wakes a
\* waiter for a reload that has not happened.
ReadyMeansIdle ==
  (state = "READY" /\ pc \in {"Idle", "Locked"})
    => /\ ~IsReloading
       /\ Pending({"RRIE"}) = {}

\* No chDbgAssert of the driver fails (the ISR state and callback checks,
\* the single-waiter check of ltdcReloadS) when the client respects every
\* documented precondition.
NoAssertionFails == fault = "none"

\* When ltdcReloadS returns to its caller, the registers it asked to
\* reload are the ones the raster engine uses and no reload is pending.
ReloadWaitCommits ==
  [][(pc \in {"Poll", "Sleep"} /\ pc' = "Locked")
       => (active' = snap /\ srcr' = {})]_vars

\* A started reload leaves the driver ACTIVE again, unless the application
\* has switched the controller off (ltdcSetEnableFlagsI) under a
\* vertical-blank request, which then never commits.
ReloadCompletes == (state = "ACTIVE") ~> (state # "ACTIVE" \/ Stalled)

\* A thread parked in ltdcReloadS is eventually woken and resumes, unless
\* it parked on a vertical-blank reload of a controller switched off: then
\* it sleeps for ever (nobody else can switch it back on).
WaiterResumes == (pc = "Sleep") ~> (pc = "Locked" \/ Stalled)

\* The driver implements LTDCReload: the registers in use change only by
\* committing an outstanding request, ltdcStart, ltdcReloadS, the reload
\* ISR and ltdcStop report READY or STOP only when SRCR holds no request,
\* and every request is committed that is not stuck behind a controller
\* switched off.  The abstract state is the driver state (UNINIT counts as
\* STOP), "pending" is ltdcIsReloadingI and "stuck" is Stalled.
Reload == INSTANCE LTDCReload WITH
  phase <- IF state = "UNINIT" THEN "STOP" ELSE state,
  pending <- IsReloading,
  stuck <- Stalled

RefinesReload == Reload!ASpec

=============================================================================
