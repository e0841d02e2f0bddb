----------------------------- MODULE Commitment -----------------------------
(***************************************************************************)
(* What two-phase commitment promises about one prepared booking, whatever  *)
(* processes, retries, crashes and expiry lie behind it: one irrevocable     *)
(* decision; after it one external effect, the one that was decided; spend   *)
(* that moves once, only after the effect; a notification only for a paid    *)
(* booking.  ApprovalResolution implements it.                               *)
(***************************************************************************)

VARIABLES
  decision,   \* "open", "granted" or "refused"
  effect,     \* "none", "confirmed" or "released": what the carrier was told
  spend,      \* "reserved", "committed" or "freed": what the trace records
  notified    \* has the customer been told?

vars == <<decision, effect, spend, notified>>

Init ==
  /\ decision = "open"
  /\ effect = "none"
  /\ spend = "reserved"
  /\ notified = FALSE

\* An approver or the expiry decides, once.
DecideOnce ==
  /\ decision = "open"
  /\ decision' \in {"granted", "refused"}
  /\ UNCHANGED <<effect, spend, notified>>

\* The carrier is told the outcome that was decided, once.
TellCarrier ==
  /\ effect = "none"
  /\ \/ decision = "granted" /\ effect' = "confirmed"
     \/ decision = "refused" /\ effect' = "released"
  /\ UNCHANGED <<decision, spend, notified>>

\* The trace records the spend of an effect that happened, once.
MoveSpend ==
  /\ spend = "reserved"
  /\ \/ effect = "confirmed" /\ spend' = "committed"
     \/ effect = "released" /\ spend' = "freed"
  /\ UNCHANGED <<decision, effect, notified>>

\* The customer is told of a paid booking.
Notify ==
  /\ spend = "committed"
  /\ notified' = TRUE
  /\ UNCHANGED <<decision, effect, spend>>

Next == DecideOnce \/ TellCarrier \/ MoveSpend \/ Notify

Spec == Init /\ [][Next]_vars
=============================================================================
