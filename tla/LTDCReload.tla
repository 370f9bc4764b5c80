------------------------------ MODULE LTDCReload ------------------------------
(***************************************************************************)
(* What the LTDC driver promises about its shadow registers, without the   *)
(* hardware request bits, interrupts or the client's position in a call:  *)
(*   - writes go to the shadow registers only;                            *)
(*   - the registers in use change only when an outstanding reload request *)
(*     is committed, and then to the shadow contents of that moment;      *)
(*   - the driver reports READY (after ltdcStart, or at the end of a       *)
(*     reload) only when no request is outstanding, and stops only then;  *)
(*   - every request is committed and every reload ends, except a request *)
(*     that only a vertical blank can commit while the application has     *)
(*     switched the controller off (stuck): it waits as long as that lasts.*)
(***************************************************************************)
CONSTANTS Layers, Values, ResetValue

VARIABLES
  phase,    \* STOP, READY or ACTIVE as the driver reports it
  shadow,   \* the contents written, per register block
  active,   \* the contents in use, per register block
  pending,  \* a reload has been requested and not yet committed
  stuck     \* the request cannot be committed: the controller is off

avars == <<phase, shadow, active, pending, stuck>>

AInit ==
  /\ phase = "STOP"
  /\ shadow = [l \in Layers |-> ResetValue]
  /\ active = [l \in Layers |-> ResetValue]
  /\ pending = FALSE
  /\ stuck = FALSE

\* A setter on a started driver: a shadow register block changes.
Write ==
  /\ phase # "STOP"
  /\ \E l \in Layers, v \in Values \cup {ResetValue} :
       shadow' = [shadow EXCEPT ![l] = v]
  /\ UNCHANGED <<phase, active, pending, stuck>>

\* The controller switched on or off on a started driver: an outstanding
\* request may become stuck, or committable again.
Gate ==
  /\ phase # "STOP"
  /\ stuck' \in IF pending THEN BOOLEAN ELSE {FALSE}
  /\ UNCHANGED <<phase, shadow, active, pending>>

\* While stopped, the whole configuration may be rewritten and a reload
\* requested at once (the forced reloads of ltdcStart).
Flush ==
  /\ phase = "STOP" /\ ~pending
  /\ pending' = TRUE
  /\ shadow' \in [Layers -> Values \cup {ResetValue}]
  /\ UNCHANGED <<phase, active, stuck>>

\* A reload requested on a READY driver (ltdcStartReloadI, ltdcStop).
Request ==
  /\ phase = "READY"
  /\ phase' = "ACTIVE" /\ pending' = TRUE
  /\ stuck' \in BOOLEAN
  /\ UNCHANGED <<shadow, active>>

\* The request is committed.
Commit ==
  /\ pending /\ ~stuck
  /\ active' = shadow /\ pending' = FALSE
  /\ UNCHANGED <<phase, shadow, stuck>>

\* The start ends: READY reported with nothing outstanding.
Started ==
  /\ phase = "STOP" /\ ~pending
  /\ phase' = "READY"
  /\ UNCHANGED <<shadow, active, pending, stuck>>

\* A reload ends: READY reported again once it is committed.
Done ==
  /\ phase = "ACTIVE" /\ ~pending
  /\ phase' = "READY"
  /\ UNCHANGED <<shadow, active, pending, stuck>>

\* Stopped with nothing outstanding.
Stop ==
  /\ phase = "ACTIVE" /\ ~pending
  /\ phase' = "STOP"
  /\ UNCHANGED <<shadow, active, pending, stuck>>

ANext == Write \/ Gate \/ Flush \/ Request \/ Commit \/ Started \/ Done \/ Stop

\* A request is eventually committed unless it is stuck for ever, and a
\* committed reload eventually ends (or the driver stops); nothing forces a
\* stopped driver to start.
ASpec == AInit /\ [][ANext]_avars /\ WF_avars(Commit) /\ WF_avars(Done)

=============================================================================
