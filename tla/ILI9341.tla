------------------------------- MODULE ILI9341 -------------------------------
(***************************************************************************)
(* The ILI9341 panel driver of ili9341.c: the STOP/READY/ACTIVE state       *)
(* machine, the bus mutex (ILI9341_USE_MUTUAL_EXCLUSION), slave select, and *)
(* the command/data transfers that set the D/CX pad and then block in       *)
(* spiSend/spiReceive.  Several client threads share the driver; each uses  *)
(* it in the documented bracket                                            *)
(*   AcquireBus, Select, (WriteCommand | WriteByte | ...)*, Unselect,       *)
(*   ReleaseBus.                                                           *)
(* A transfer is two steps: the call stores the byte and drives D/CX, then  *)
(* the blocking SPI transfer completes; other threads run in between.       *)
(***************************************************************************)
EXTENDS Sequences, FiniteSets

CONSTANTS
  Clients,     \* client threads
  NoOne,       \* no thread
  USE_CHECKS   \* ILI9341_USE_CHECKS: chDbgAssert active

ASSUME NoOne \notin Clients /\ USE_CHECKS \in BOOLEAN

VARIABLES
  state,   \* driverp->state
  owner,   \* holder of driverp->lock
  queue,   \* threads queued on driverp->lock, in wake-up order
  pc,      \* per client: where it is in the bracket
  op,      \* per client: the transfer in progress
  dcx,     \* D/CX pad: TRUE = data, FALSE = command
  cs,      \* SPI slave select asserted
  value,   \* driverp->value, the scratch byte: the client that wrote it
  fault    \* the chDbgAssert that failed, or "none"

vars == <<state, owner, queue, pc, op, dcx, cs, value, fault>>

Points == {"Idle", "Blocked", "Owner", "Selected", "Xfer"}
Ops == {"none", "WriteCommand", "WriteByte", "ReadByte", "WriteChunk",
        "ReadChunk"}
Faults == {"none", "ili9341AcquireBusS#1", "ili9341ReleaseBusS#1"}

\* A failed chDbgAssert halts the system.
Running == fault = "none"

\* chDbgAssert(cond, name): records the first failure of a checks-on build.
Check(cond, name) == fault' = IF USE_CHECKS /\ ~cond THEN name ELSE fault

Move(c, from, to) == pc[c] = from /\ pc' = [pc EXCEPT ![c] = to]

-----------------------------------------------------------------------------

\* ili9341Start, called by a thread of the application while no thread uses
\* the bus: slave select pulsed, READY.
ili9341Start(c) ==
  /\ Running
  /\ state = "STOP" /\ owner = NoOne /\ pc[c] = "Idle"
  /\ state' = "READY"
  /\ cs' = FALSE
  /\ UNCHANGED <<owner, queue, pc, op, dcx, value, fault>>

\* ili9341Stop, under the same condition.
ili9341Stop(c) ==
  /\ Running
  /\ state = "READY" /\ owner = NoOne /\ pc[c] = "Idle"
  /\ state' = "STOP"
  /\ UNCHANGED <<owner, queue, pc, op, dcx, cs, value, fault>>

\* Mutation: the bus taken without chMtxLockS.
AcquireBusNoLock(c) ==
  /\ Running
  /\ state # "STOP"
  /\ Check(state = "READY", "ili9341AcquireBusS#1")
  /\ owner' = c /\ Move(c, "Idle", "Owner")
  /\ UNCHANGED <<state, queue, op, dcx, cs, value>>

\* ili9341AcquireBus: the READY assertion is evaluated before chMtxLockS,
\* which takes the free mutex or queues the thread (all client threads have
\* the same priority, so the queue is FIFO).
ili9341AcquireBus(c) ==
  /\ Running
  /\ state # "STOP"
  /\ Check(state = "READY", "ili9341AcquireBusS#1")
  /\ IF owner = NoOne
       THEN /\ owner' = c /\ Move(c, "Idle", "Owner")
            /\ UNCHANGED queue
       ELSE /\ queue' = Append(queue, c) /\ Move(c, "Idle", "Blocked")
            /\ UNCHANGED owner
  /\ UNCHANGED <<state, op, dcx, cs, value>>

\* Mutation: the mutex freed without waking the first queued thread.
ReleaseBusNoHandOff(c) ==
  /\ Running
  /\ owner = c /\ pc[c] = "Owner"
  /\ Check(state = "READY", "ili9341ReleaseBusS#1")
  /\ owner' = NoOne /\ Move(c, "Owner", "Idle")
  /\ UNCHANGED <<state, queue, op, dcx, cs, value>>

\* Mutation: the new owner taken as the whole queue instead of its head.
ReleaseBusQueueAsOwner(c) ==
  /\ Running
  /\ owner = c /\ pc[c] = "Owner"
  /\ Check(state = "READY", "ili9341ReleaseBusS#1")
  /\ IF queue = <<>>
       THEN /\ owner' = NoOne /\ Move(c, "Owner", "Idle")
            /\ UNCHANGED queue
       ELSE /\ owner' = queue /\ queue' = Tail(queue)
            /\ pc' = [pc EXCEPT ![c] = "Idle", ![Head(queue)] = "Owner"]
  /\ UNCHANGED <<state, op, dcx, cs, value>>

\* ili9341ReleaseBus: chMtxUnlockS hands the mutex to the first queued
\* thread and readies it, or leaves it free.
ili9341ReleaseBus(c) ==
  /\ Running
  /\ owner = c /\ pc[c] = "Owner"
  /\ Check(state = "READY", "ili9341ReleaseBusS#1")
  /\ IF queue = <<>>
       THEN /\ owner' = NoOne /\ Move(c, "Owner", "Idle")
            /\ UNCHANGED queue
       ELSE /\ owner' = Head(queue) /\ queue' = Tail(queue)
            /\ pc' = [pc EXCEPT ![c] = "Idle", ![Head(queue)] = "Owner"]
  /\ UNCHANGED <<state, op, dcx, cs, value>>

\* ili9341SelectI / ili9341UnselectI (their READY/ACTIVE preconditions are
\* guaranteed by the bracket).
ili9341Select(c) ==
  /\ Running
  /\ state = "READY"
  /\ Move(c, "Owner", "Selected")
  /\ state' = "ACTIVE"
  /\ cs' = TRUE
  /\ UNCHANGED <<owner, queue, op, dcx, value, fault>>

ili9341Unselect(c) ==
  /\ Running
  /\ state = "ACTIVE"
  /\ Move(c, "Selected", "Owner")
  /\ cs' = FALSE
  /\ state' = "READY"
  /\ UNCHANGED <<owner, queue, op, dcx, value, fault>>

\* The part of each transfer call before the SPI transfer: the byte stored in
\* driverp->value (single-byte writes), the D/CX pad cleared for a command
\* and set for data.  A zero-length chunk returns before touching anything.
\* ili9341ReadByte is only called in a build without checks, where its
\* leading chDbgAssert(FALSE) is a no-op.
StartTransfer(c, o) ==
  /\ Running
  /\ state = "ACTIVE"
  /\ o # "none" /\ (o = "ReadByte" => ~USE_CHECKS)
  /\ Move(c, "Selected", "Xfer")
  /\ op' = [op EXCEPT ![c] = o]
  /\ dcx' = (o # "WriteCommand")
  /\ value' = IF o \in {"WriteCommand", "WriteByte"} THEN c ELSE value
  /\ UNCHANGED <<state, owner, queue, cs, fault>>

\* spiSend / spiReceive return; ili9341ReadByte's receive overwrites the
\* scratch byte.
FinishTransfer(c) ==
  /\ Running
  /\ Move(c, "Xfer", "Selected")
  /\ op' = [op EXCEPT ![c] = "none"]
  /\ value' = IF op[c] = "ReadByte" THEN c ELSE value
  /\ UNCHANGED <<state, owner, queue, dcx, cs, fault>>

-----------------------------------------------------------------------------

\* ili9341ObjectInit has run: STOP, no owner.
Init ==
  /\ state = "STOP"
  /\ owner = NoOne
  /\ queue = <<>>
  /\ pc = [c \in Clients |-> "Idle"]
  /\ op = [c \in Clients |-> "none"]
  /\ dcx = FALSE
  /\ cs = FALSE
  /\ value = NoOne
  /\ fault = "none"

\* The steps of client thread c.
ClientNext(c) ==
    \/ ili9341Start(c) \/ ili9341Stop(c)
    \/ ili9341AcquireBus(c) \/ ili9341ReleaseBus(c)
    \/ ili9341Select(c) \/ ili9341Unselect(c)
    \/ \E o \in Ops : StartTransfer(c, o)
    \/ FinishTransfer(c)

Next == \E c \in Clients : ClientNext(c)

\* A blocking SPI transfer completes.  Every bracket transfers finitely many
\* bytes: a thread that can unselect, or release the bus, again and again
\* eventually does (strong fairness, as both are enabled only between its
\* own transfers).
Fairness ==
  \A c \in Clients :
    /\ WF_vars(FinishTransfer(c))
    /\ SF_vars(ili9341Unselect(c))
    /\ SF_vars(ili9341ReleaseBus(c))

Spec == Init /\ [][Next]_vars /\ Fairness

-----------------------------------------------------------------------------

TypeOK ==
  /\ state \in {"STOP", "READY", "ACTIVE"}
  /\ owner \in Clients \cup {NoOne}
  /\ queue \in Seq(Clients)
  /\ pc \in [Clients -> Points]
  /\ op \in [Clients -> Ops]
  /\ dcx \in BOOLEAN /\ cs \in BOOLEAN
  /\ value \in Clients \cup {NoOne}
  /\ fault \in Faults

\* Every SPI transfer completes while its thread owns the bus with the
\* panel selected, with D/CX low exactly for a command, and a single-byte
\* write sends the byte that thread stored in the shared scratch byte.
FramedTransfers ==
  [][\A c \in Clients :
       (pc[c] = "Xfer" /\ pc'[c] = "Selected")
         => /\ owner = c /\ cs
            /\ dcx = (op[c] # "WriteCommand")
            /\ op[c] \in {"WriteCommand", "WriteByte"} => value = c]_vars

\* A thread queued on the bus mutex eventually owns the bus.
BusEventuallyGranted ==
  \A c \in Clients : (pc[c] = "Blocked") ~> (owner = c)

\* No chDbgAssert of the driver fails while every thread keeps to the
\* acquire/select/transfer/unselect/release bracket.
NoAssertionFails == fault = "none"

=============================================================================
