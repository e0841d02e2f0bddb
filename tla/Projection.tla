----------------------------- MODULE Projection -----------------------------
(***************************************************************************)
(* The dashboard's read model of a run (packages/projections): pure        *)
(* functions of the trajectory and of its stored decisions, which the      *)
(* operator reads instead of the trace.  What they tell is checked in the  *)
(* runs that compute it.                                                   *)
(***************************************************************************)
EXTENDS GovernedRun, SequencesExt

\* A stored decision, as far as the projection reads it.
DecisionOf(c, outcome) ==
  [tool |-> c.tool, weight |-> c.args.weight, verdict |-> c.verdict, applied |-> outcome]

\* Mutant of ExactOnceStatus: a repeated confirmation still reads as one.
ExactOnceStatus_AtLeastOnce(s) ==
  IF s.confirms >= 1 THEN IF s.notices >= 1 THEN "confirmed_once" ELSE "confirmation_once"
  ELSE IF s.status = "PENDING_APPROVAL" THEN "awaiting_approval"
  ELSE IF s.status = "CANCELLED" THEN "cancelled_without_confirmation"
  ELSE "no_commitment"

\* _exact_once_status, from the effect history.
ExactOnceStatus(s) ==
  IF s.confirms > 1 \/ s.notices > 1 THEN "violation"
  ELSE IF s.confirms = 1 THEN IF s.notices = 1 THEN "confirmed_once" ELSE "confirmation_once"
  ELSE IF s.status = "PENDING_APPROVAL" THEN "awaiting_approval"
  ELSE IF s.status = "CANCELLED" THEN "cancelled_without_confirmation"
  ELSE "no_commitment"

\* The decisions about a dispatch plan, by their place in the log.
Plans(log) == {k \in DOMAIN log : log[k].tool = "create_dispatch_plan"}

\* Mutant of WeightAttempts: the outcome shown is the one applied.
WeightAttempts_Applied(log) ==
  [k \in Plans(log) |-> [value |-> log[k].weight,
                         outcome |-> IF log[k].applied = "allowed" THEN "ALLOW" ELSE log[k].applied]]

\* _build_weight_provenance: each attempted weight with the policy's outcome, which
\* for an exhausted guidance is the BLOCK that replaced it (_retry_block).
WeightAttempts(log) ==
  [k \in Plans(log) |-> [value |-> log[k].weight,
                         outcome |-> IF log[k].applied = "BLOCK" THEN "BLOCK"
                                     ELSE PolicyOutcome(log[k].verdict)]]

-----------------------------------------------------------------------------
\* The operator's exactly-once card hides no second booking and claims none that
\* did not happen, whatever a model repeats and wherever a timeout cuts: several
\* carriers told to commit read as a violation, "confirmed once" is one carrier
\* and a message, and "no commitment" or "awaiting approval" is no carrier at all.
ExactOnceTruthful ==
  LET told == Cardinality(Targets("confirm_freight_booking"))
      shown == ExactOnceStatus(st)
  IN  call.pc # "executed" =>
        /\ told > 1 => shown = "violation"
        /\ shown \in {"confirmed_once", "confirmation_once"} => told = 1
        /\ shown = "confirmed_once" => Targets("write_tracking_outbox") # {}
        /\ shown \in {"awaiting_approval", "no_commitment"} => told = 0
=============================================================================
