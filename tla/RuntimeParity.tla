--------------------------- MODULE RuntimeParity ---------------------------
(***************************************************************************)
(* The same shipment twice: a run of the deterministic agents, then the    *)
(* run of the recorded model over the same mandate and scenario in a fresh *)
(* service.  The two are separate implementations of one workflow, a       *)
(* script of calls and a function from governed state to the next call,    *)
(* and the second is promised to reproduce the first.                      *)
(***************************************************************************)
EXTENDS Projection

VARIABLES
  decisions,   \* the stored decisions of the current run
  baseline     \* the finished legacy run it is compared with, if there is one

parityVars == <<vars, decisions, baseline>>

\* What the parity test keeps of a run (_functional_summary, _decision_projection).
Functional ==
  [vehicle |-> st.vehicle, quote |-> st.quote, committed |-> st.committed,
   reserved |-> st.reserved, pending |-> st.pending, booked |-> st.booked,
   notified |-> st.notified, effects |-> effects]

NoBaseline == [status |-> "none"]

\* A decision is appended with the reason and the outcome applied.
Decided ==
  decisions' = IF call.pc = "attempted" /\ call'.pc # "attempted"
               THEN Append(decisions, DecisionOf([call EXCEPT !.verdict = call'.verdict], call'.pc))
               ELSE decisions

RunStep == Next /\ Decided /\ UNCHANGED baseline

\* The comparison run, on an engine that does not fail.
Rerun ==
  /\ main = "done" /\ Runtime = "legacy" /\ ~run.engineMayFail
  /\ baseline' = [status |-> st.status, functional |-> Functional, decisions |-> decisions]
  /\ run' = [run EXCEPT !.runtime = "recorded"]
  /\ main' = "loop" /\ role' = 0 /\ step' = "none"
  /\ ctx' = [NewInvocation EXCEPT !.working = FALSE] /\ call' = NoCall
  /\ st' = NewTrajectory(run) /\ effects' = {} /\ decisions' = <<>>

ParityInit == Init /\ decisions = <<>> /\ baseline = NoBaseline

ParityNext == RunStep \/ Rerun

ParitySpec == ParityInit /\ [][ParityNext]_parityVars

-----------------------------------------------------------------------------
TimedOut == ctx.closed /\ ctx.working

Succeeded(status) == status \in {"COMPLETED", "PENDING_APPROVAL"}

\* An agent fails on a preferred vehicle that is not listed; the recorded model
\* proposes it all the same, and may be guided to another.
Comparable == baseline # NoBaseline /\ VehicleData[run.vehicle].available

\* test_recorded_strands_matches_legacy_governed_outcomes, beyond the fixtures'
\* four journeys: unless the invocation times out, the recorded model's run has
\* the effects, selections, spend and pause of the deterministic agents' run.  A
\* run that succeeds took the same decisions in the same order; one that does not
\* took them first and may then have repeated a call that was refused or failed,
\* where the agents give up at once, and is BLOCKED where some agents turn the
\* refusal into a plain error.
RuntimesAgree ==
  Comparable /\ main = "done" /\ ~TimedOut =>
    /\ Functional = baseline.functional
    /\ IF Succeeded(baseline.status)
       THEN st.status = baseline.status /\ decisions = baseline.decisions
       ELSE ~Succeeded(st.status) /\ IsPrefix(baseline.decisions, decisions)

\* The provenance panel flags every attempted weight that is not the sourced one,
\* in a shadow run too, where the plan went through.
ProvenanceShown ==
  \A k \in DOMAIN WeightAttempts(decisions) :
    LET a == WeightAttempts(decisions)[k]
    IN  a.value # Weight => a.outcome # "ALLOW"

\* Wherever the timeout cuts it, the recorded run has had at most the effects of
\* the agents' run, a call still in progress in the worker thread included.
TimeoutOnlyShortens == Comparable => effects \subseteq baseline.functional.effects
=============================================================================
