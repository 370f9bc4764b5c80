------------------------------- MODULE LTDCBus -------------------------------
(***************************************************************************)
(* The LTDC bus lock of stm32_ltdc.c (LTDC_USE_MUTUAL_EXCLUSION):          *)
(* ltdcAcquireBus and ltdcReleaseBus around a bracket of layer and global  *)
(* calls made by one of several client threads.  With CH_USE_MUTEXES the   *)
(* lock is a mutex (chMtxLockS / chMtxUnlockS), otherwise a semaphore      *)
(* initialised to 1 (chSemWaitS / chSemSignalI); threads of one priority   *)
(* queue in FIFO order on either, and a release hands the lock to the      *)
(* first queued thread.  Unlike ili9341AcquireBusS, ltdcAcquireBusS checks *)
(* nothing about the driver state.                                         *)
(* The calls inside a bracket are LTDCLayer's; here each is one step that  *)
(* writes the layer registers on behalf of its thread.                     *)
(***************************************************************************)
EXTENDS Sequences

CONSTANTS
  Clients,   \* client threads
  NoOne      \* no thread

VARIABLES
  lowner,    \* holder of ltdcp->lock
  lqueue,    \* threads queued on ltdcp->lock, in wake-up order
  lpc,       \* per client: Idle, Blocked (queued) or Owner
  regs,      \* the thread whose calls last wrote the layer registers
  mine       \* per client: it has written the registers in its bracket

bvars == <<lowner, lqueue, lpc, regs, mine>>

BusMove(c, from, to) == lpc[c] = from /\ lpc' = [lpc EXCEPT ![c] = to]

\* ltdcObjectInit: chMtxInit(&ltdcp->lock) or chSemInit(&ltdcp->lock, 1).
BusInit ==
  /\ lowner = NoOne
  /\ lqueue = <<>>
  /\ lpc = [c \in Clients |-> "Idle"]
  /\ regs = NoOne
  /\ mine = [c \in Clients |-> FALSE]

\* Mutation: the lock taken without chMtxLockS / chSemWaitS.
LtdcAcquireBusNoLock(c) ==
  /\ lowner' = c /\ BusMove(c, "Idle", "Owner")
  /\ UNCHANGED <<lqueue, regs, mine>>

\* ltdcAcquireBus: the free lock is taken, a held one queues the thread.
ltdcAcquireBus(c) ==
  /\ IF lowner = NoOne
       THEN /\ lowner' = c /\ BusMove(c, "Idle", "Owner")
            /\ UNCHANGED lqueue
       ELSE /\ lqueue' = Append(lqueue, c) /\ BusMove(c, "Idle", "Blocked")
            /\ UNCHANGED lowner
  /\ UNCHANGED <<regs, mine>>

\* Mutation: the lock freed and its first waiter dequeued but not readied.
LtdcReleaseBusNoWake(c) ==
  /\ lowner = c
  /\ BusMove(c, "Owner", "Idle")
  /\ mine' = [mine EXCEPT ![c] = FALSE]
  /\ lowner' = NoOne
  /\ lqueue' = IF lqueue = <<>> THEN lqueue ELSE Tail(lqueue)
  /\ UNCHANGED regs

\* ltdcReleaseBus: chMtxUnlockS (the caller's last mutex, which is this one
\* when brackets nest) or chSemSignalI hands the lock to the first queued
\* thread and readies it, or leaves it free.
ltdcReleaseBus(c) ==
  /\ lowner = c /\ lpc[c] = "Owner"
  /\ mine' = [mine EXCEPT ![c] = FALSE]
  /\ IF lqueue = <<>>
       THEN /\ lowner' = NoOne /\ lpc' = [lpc EXCEPT ![c] = "Idle"]
            /\ UNCHANGED lqueue
       ELSE /\ lowner' = Head(lqueue) /\ lqueue' = Tail(lqueue)
            /\ lpc' = [lpc EXCEPT ![c] = "Idle", ![Head(lqueue)] = "Owner"]
  /\ UNCHANGED regs

\* A layer or global setter of the bracket (ltdcBgSetFrame, ...).
LayerWrite(c) ==
  /\ lpc[c] = "Owner"
  /\ regs' = c /\ mine' = [mine EXCEPT ![c] = TRUE]
  /\ UNCHANGED <<lowner, lqueue, lpc>>

BusNext(c) == ltdcAcquireBus(c) \/ ltdcReleaseBus(c) \/ LayerWrite(c)

-----------------------------------------------------------------------------

BusTypeOK ==
  /\ lowner \in Clients \cup {NoOne}
  /\ lqueue \in Seq(Clients)
  /\ lpc \in [Clients -> {"Idle", "Blocked", "Owner"}]
  /\ regs \in Clients \cup {NoOne}
  /\ mine \in [Clients -> BOOLEAN]

\* Inside its bracket, a thread that has written the layer registers finds
\* them as it left them: no other thread's ltdc* call lands between its
\* ltdcAcquireBus and ltdcReleaseBus.
BracketIsolated ==
  \A c \in Clients : lpc[c] = "Owner" /\ mine[c] => regs = c

\* A thread queued in ltdcAcquireBus eventually holds the lock.
LtdcBusEventuallyGranted ==
  \A c \in Clients : (lpc[c] = "Blocked") ~> (lowner = c)

=============================================================================
