------------------------------- MODULE Display -------------------------------
(***************************************************************************)
(* The two display drivers used together by the same client threads: the   *)
(* ILI9341 panel driver with its bus mutex (ILI9341) and the LTDC bus lock  *)
(* (LTDCBus).  A thread configures the panel over SPI and the LTDC layers,  *)
(* each inside its driver's bus bracket.  The threads nest the brackets in *)
(* one order: the ILI9341 bus is taken, used and released inside the LTDC  *)
(* bracket or outside any, never the other way round, so the LTDC lock is  *)
(* taken and released only by a thread holding no ILI9341 bus.  This is    *)
(* also what makes chMtxUnlockS, which releases the caller's most recently *)
(* locked mutex, release the lock the call names.  A thread blocked on one *)
(* lock, or in a blocking SPI transfer, takes no other step.               *)
(***************************************************************************)
EXTENDS ILI9341

VARIABLES lowner, lqueue, lpc, regs, mine

Bus == INSTANCE LTDCBus

busvars == <<lowner, lqueue, lpc, regs, mine>>
dvars == <<vars, busvars>>

DisplayInit == Init /\ Bus!BusInit

\* Thread c's ILI9341 step, when it is not queued on the LTDC lock.
PanelStep(c) == lpc[c] # "Blocked" /\ ClientNext(c) /\ UNCHANGED busvars

\* Thread c takes or releases the LTDC lock holding no ILI9341 bus.
LtdcLockStep(c) ==
  /\ pc[c] = "Idle"
  /\ Bus!ltdcAcquireBus(c) \/ Bus!ltdcReleaseBus(c)
  /\ UNCHANGED vars

\* Thread c calls an LTDC setter, between ILI9341 transfers.
LtdcCallStep(c) ==
  /\ pc[c] \in {"Idle", "Owner", "Selected"}
  /\ Bus!LayerWrite(c)
  /\ UNCHANGED vars

DisplayNext ==
  \E c \in Clients : PanelStep(c) \/ LtdcLockStep(c) \/ LtdcCallStep(c)

\* ILI9341's fairness, and every LTDC bracket ends: a thread holding the
\* lock releases it, which it can do each time it is out of the panel's
\* bracket (strong fairness).
DisplayFairness ==
  /\ Fairness
  /\ \A c \in Clients :
       SF_dvars(pc[c] = "Idle" /\ Bus!ltdcReleaseBus(c) /\ UNCHANGED vars)

DisplaySpec == DisplayInit /\ [][DisplayNext]_dvars /\ DisplayFairness

-----------------------------------------------------------------------------

DisplayTypeOK == TypeOK /\ Bus!BusTypeOK

\* Inside its LTDC bracket, a thread that has written the layer registers
\* finds them as it left them, also while it waits for and uses the panel.
LtdcBracketIsolated == Bus!BracketIsolated

\* A thread queued in ltdcAcquireBus eventually holds the LTDC lock, while
\* its holder may itself be queued on, or transferring over, the ILI9341 bus.
LtdcBusEventuallyGranted == Bus!LtdcBusEventuallyGranted

=============================================================================
