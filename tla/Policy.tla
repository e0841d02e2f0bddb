------------------------------- MODULE Policy -------------------------------
(***************************************************************************)
(* The two policy engines as pure operators over one abstract request: the *)
(* Python reference engine, which inside a family stops at the first rule  *)
(* that applies, and the Cedar path (context builder, policy bundle, PDP   *)
(* and response mapping), in which every satisfied forbid is reported.     *)
(* A verdict is the set of policy ids an engine signals.  Both engines     *)
(* order their signals by family and, inside a family, by the metadata's   *)
(* order (PolicyOrder), so the set determines the sequence.                *)
(***************************************************************************)
EXTENDS Integers, Sequences, FiniteSets

-----------------------------------------------------------------------------
(* Tools, their owners and effect classes.                                 *)

Roles == {"inventory", "dispatch", "carrier", "customer_communications"}

InventoryTools == {"get_order", "check_inventory"}
DispatchTools == {"list_available_vehicles", "create_dispatch_plan"}
CarrierTools ==
  {"list_carrier_quotes", "select_carrier_quote", "prepare_freight_booking",
   "confirm_freight_booking", "cancel_freight_booking"}
CommunicationsTools == {"write_tracking_outbox"}

Tools == InventoryTools \cup DispatchTools \cup CarrierTools \cup CommunicationsTools

Owner(tool) ==
  IF tool \in InventoryTools THEN "inventory"
  ELSE IF tool \in DispatchTools THEN "dispatch"
  ELSE IF tool \in CarrierTools THEN "carrier"
  ELSE "customer_communications"

ReadTools ==
  {"get_order", "check_inventory", "list_available_vehicles", "list_carrier_quotes"}

EffectClasses ==
  {"READ", "REVERSIBLE_WRITE", "FINANCIAL_COMMIT", "PHYSICAL_COMMIT", "EXTERNAL_DISCLOSURE"}

EffectClass(tool) ==
  IF tool \in ReadTools THEN "READ"
  ELSE IF tool = "confirm_freight_booking" THEN "FINANCIAL_COMMIT"
  ELSE IF tool = "write_tracking_outbox" THEN "EXTERNAL_DISCLOSURE"
  ELSE "REVERSIBLE_WRITE"

QuoteTools == {"select_carrier_quote", "prepare_freight_booking"}
CommitmentTools == {"confirm_freight_booking", "cancel_freight_booking"}

-----------------------------------------------------------------------------
(* What an engine reads of PolicyRequest and TrajectoryState for a          *)
(* registered tool.  Comparisons of hashes, ids, labels and currencies are  *)
(* Booleans; weights and spend are integers.                                *)

PreparedStatus ==
  {"none", "PREPARED", "PENDING_APPROVAL", "APPROVED", "REJECTED", "EXPIRED",
   "CONFIRMED", "CANCELLED"}

Request ==
  [principal : Roles, action : Tools,
   effects   : SUBSET EffectClasses,     \* mandate.allowed_effect_classes
   version   : BOOLEAN,                  \* the trace's policy version is the engine's
   perishable : BOOLEAN,
   fact      : [known : BOOLEAN, valid : BOOLEAN, weight : Int],
   weight    : Int, unit : BOOLEAN,      \* attempted weight; unit is the fact's
   resource  : [known : BOOLEAN, available : BOOLEAN, refrigerated : BOOLEAN,
                capacity : Int, certified : BOOLEAN, lane : BOOLEAN, own : BOOLEAN],
   prepared  : PreparedStatus, hash : BOOLEAN, currency : BOOLEAN, amount : Int,
   committed : Int, reserved : Int, threshold : Int,
   approval  : [status : {"none", "PENDING_APPROVAL", "APPROVED", "REJECTED", "EXPIRED"},
                expired : BOOLEAN, action : BOOLEAN, state : BOOLEAN,
                version : BOOLEAN, byPreparer : BOOLEAN],
   approvedByPreparer : BOOLEAN,         \* state.approved_by = prepared.prepared_by
   outbox    : [forbidden : BOOLEAN, template : BOOLEAN, recipient : BOOLEAN,
                variables : BOOLEAN]]

\* Projected spend: the prepared amount is already part of the reserved spend.
Projected(r) == r.committed + r.reserved

-----------------------------------------------------------------------------
(* PythonReferencePolicyEngine: one operator per family.                   *)

PyOwnership(r) ==
  IF ~r.version THEN {"OWN-001"}
  ELSE IF Owner(r.action) # r.principal THEN {"OWN-002"}
  ELSE IF EffectClass(r.action) \notin r.effects THEN {"OWN-003"}
  ELSE IF r.action \in CommitmentTools /\ r.prepared = "none" THEN {"OWN-004"}
  ELSE {}

\* Mutant of PyProvenance: the value is compared before the unit.
PyProvenance_ValueFirst(r) ==
  IF r.action # "create_dispatch_plan" THEN {}
  ELSE IF ~r.fact.known THEN {"PROV-001"}
  ELSE IF ~r.fact.valid THEN {"PROV-002"}
  ELSE IF r.weight # r.fact.weight THEN {"PROV-004"}
  ELSE IF ~r.unit THEN {"PROV-003"}
  ELSE {}

\* fact.valid: the hash matches; every fact of a trace is a shipment weight.
PyProvenance(r) ==
  IF r.action # "create_dispatch_plan" THEN {}
  ELSE IF ~r.fact.known THEN {"PROV-001"}
  ELSE IF ~r.fact.valid THEN {"PROV-002"}
  ELSE IF ~r.unit THEN {"PROV-003"}
  ELSE IF r.weight # r.fact.weight THEN {"PROV-004"}
  ELSE {}

PyColdChain(r) ==
  IF ~r.perishable THEN {}
  ELSE IF r.action = "create_dispatch_plan" THEN
    IF ~r.resource.known THEN {"COLD-001"}
    ELSE IF \/ ~r.resource.available
            \/ ~r.resource.refrigerated
            \/ ~r.fact.known
            \/ r.resource.capacity < r.fact.weight THEN {"COLD-002"}
    ELSE {}
  ELSE IF r.action \in QuoteTools THEN
    IF ~r.resource.known THEN {"COLD-003"}
    ELSE IF ~r.resource.certified \/ ~r.resource.lane THEN {"COLD-004"}
    ELSE {}
  ELSE {}

PyApprovedSpend(r) ==
  IF r.approval.expired THEN {"SPEND-005"}
  ELSE IF ~r.approval.action THEN {"SPEND-006"}
  ELSE IF ~r.approval.state THEN {"SPEND-007"}
  ELSE IF ~r.approval.version THEN {"SPEND-008"}
  ELSE {"SPEND-009"}

\* Mutant of PyBudget: spend at the threshold needs an approval too.
PyBudget_AtThreshold(r) ==
  IF r.action # "confirm_freight_booking" \/ r.prepared = "none" THEN {}
  ELSE IF r.committed < 0 \/ r.reserved < 0 \/ r.amount < 0 THEN {"SPEND-001"}
  ELSE IF ~r.currency THEN {"SPEND-002"}
  ELSE IF Projected(r) < r.threshold THEN {"SPEND-004"}
  ELSE IF r.approval.status = "APPROVED" THEN PyApprovedSpend(r)
  ELSE IF r.approval.status = "EXPIRED" THEN {"SPEND-010"}
  ELSE IF r.approval.status = "REJECTED" THEN {"SPEND-011"}
  ELSE {"SPEND-003"}

PyBudget(r) ==
  IF r.action # "confirm_freight_booking" \/ r.prepared = "none" THEN {}
  ELSE IF r.committed < 0 \/ r.reserved < 0 \/ r.amount < 0 THEN {"SPEND-001"}
  ELSE IF ~r.currency THEN {"SPEND-002"}
  ELSE IF Projected(r) <= r.threshold THEN {"SPEND-004"}
  ELSE IF r.approval.status = "APPROVED" THEN PyApprovedSpend(r)
  ELSE IF r.approval.status = "EXPIRED" THEN {"SPEND-010"}
  ELSE IF r.approval.status = "REJECTED" THEN {"SPEND-011"}
  ELSE {"SPEND-003"}

PyConfirmDuties(r) ==
  IF r.prepared \in {"PENDING_APPROVAL", "CONFIRMED"} THEN {"SOD-001"}
  ELSE IF ~r.hash THEN {"SOD-002"}
  ELSE IF r.approvedByPreparer THEN {"SOD-003"}
  ELSE IF r.prepared = "APPROVED" /\ r.approval.byPreparer THEN {"SOD-008"}
  ELSE {}

PyCancelDuties(r) ==
  IF ~r.hash THEN {"SOD-004"}
  ELSE IF r.prepared = "CONFIRMED" THEN {"SOD-005"}
  ELSE IF r.prepared = "CANCELLED" THEN {"SOD-006"}
  ELSE {"SOD-007"}

PySeparation(r) ==
  IF r.action \in QuoteTools /\ r.resource.own THEN {"SOD-000"}
  ELSE IF r.action \notin CommitmentTools \/ r.prepared = "none" THEN {}
  ELSE IF r.action = "cancel_freight_booking" THEN PyCancelDuties(r)
  ELSE PyConfirmDuties(r)

PyPii(r) ==
  IF r.action # "write_tracking_outbox" THEN {}
  ELSE IF r.outbox.forbidden THEN {"PII-001"}
  ELSE IF ~r.outbox.template THEN {"PII-002"}
  ELSE IF ~r.outbox.recipient THEN {"PII-003"}
  ELSE IF ~r.outbox.variables THEN {"PII-004"}
  ELSE {}

\* evaluate: the signals of the six families, in their order.
PythonEvaluate(r) ==
  PyOwnership(r) \cup PyProvenance(r) \cup PyColdChain(r) \cup PyBudget(r)
    \cup PySeparation(r) \cup PyPii(r)

-----------------------------------------------------------------------------
(* Cedar: the bundle's permits and forbids over the context that            *)
(* build_cedar_request makes, the authorizer's decision, and map_response.  *)

When(id, condition) == IF condition THEN {id} ELSE {}

\* authoritativeWeight: 0 when the trace has no such fact.
AuthoritativeWeight(r) == IF r.fact.known THEN r.fact.weight ELSE 0

CedarPlanForbids(r) ==
  IF r.action # "create_dispatch_plan" THEN {}
  ELSE When("PROV-001", ~r.fact.known)
    \cup When("PROV-002", r.fact.known /\ ~r.fact.valid)
    \cup When("PROV-003", r.fact.known /\ r.fact.valid /\ ~r.unit)
    \cup When("PROV-004", r.fact.known /\ r.fact.valid /\ r.weight # AuthoritativeWeight(r))
    \cup When("COLD-001", r.perishable /\ ~r.resource.known)
    \cup When("COLD-002", /\ r.perishable /\ r.resource.known
                          /\ \/ ~r.resource.available
                             \/ ~r.resource.refrigerated
                             \/ r.resource.capacity < AuthoritativeWeight(r))

CedarQuoteForbids(r) ==
  IF r.action \notin QuoteTools THEN {}
  ELSE When("COLD-003", r.perishable /\ ~r.resource.known)
    \cup When("COLD-004", /\ r.perishable /\ r.resource.known
                          /\ (~r.resource.certified \/ ~r.resource.lane))
    \cup When("SOD-000", r.resource.own)

CedarConfirmForbids(r) ==
  LET present == r.prepared # "none"
      approved == r.approval.status = "APPROVED"
  IN  IF r.action # "confirm_freight_booking" THEN {}
      ELSE When("SPEND-001", r.committed < 0 \/ r.reserved < 0 \/ r.threshold < 0)
        \cup When("SPEND-002", present /\ ~r.currency)
        \cup When("SPEND-003", /\ present /\ Projected(r) > r.threshold
                               /\ r.approval.status \in {"none", "PENDING_APPROVAL"})
        \cup When("SPEND-005", approved /\ r.approval.expired)
        \cup When("SPEND-006", approved /\ ~(present /\ r.approval.action))
        \cup When("SPEND-007", approved /\ ~(present /\ r.approval.state))
        \cup When("SPEND-008", approved /\ ~r.approval.version)
        \cup When("SPEND-010", r.approval.status = "EXPIRED")
        \cup When("SPEND-011", r.approval.status = "REJECTED")
        \cup When("SOD-001", r.prepared \in {"PENDING_APPROVAL", "CONFIRMED", "CANCELLED",
                                             "REJECTED", "EXPIRED"})
        \cup When("SOD-002", present /\ ~r.hash)
        \cup When("SOD-003", present /\ r.approval.byPreparer)

CedarCancelForbids(r) ==
  IF r.action # "cancel_freight_booking" THEN {}
  ELSE When("SOD-004", r.prepared # "none" /\ ~r.hash)
    \cup When("SOD-005", r.prepared = "CONFIRMED")

CedarOutboxForbids(r) ==
  IF r.action # "write_tracking_outbox" THEN {}
  ELSE When("PII-001", r.outbox.forbidden)
    \cup When("PII-002", ~r.outbox.template)
    \cup When("PII-003", ~r.outbox.recipient)
    \cup When("PII-004", ~r.outbox.variables)

\* OWN-001 compares the trace's version with the mandate's: the run sets both
\* from the mandate, so it never holds.
CedarForbids(r) ==
  When("OWN-002", Owner(r.action) # r.principal)
    \cup When("OWN-003", EffectClass(r.action) \notin r.effects)
    \cup When("OWN-004", r.action \in CommitmentTools /\ r.prepared = "none")
    \cup CedarPlanForbids(r) \cup CedarQuoteForbids(r) \cup CedarConfirmForbids(r)
    \cup CedarCancelForbids(r) \cup CedarOutboxForbids(r)

CedarPermits(r) ==
  LET base == Owner(r.action) = r.principal /\ EffectClass(r.action) \in r.effects
      cancel == base /\ r.action = "cancel_freight_booking" /\ r.prepared # "none" /\ r.hash
  IN  When("BASE-PERMIT-REGISTERED", base)
        \cup When("SOD-006", cancel /\ r.prepared = "CANCELLED")
        \cup When("SOD-007", cancel /\ r.prepared \notin {"CONFIRMED", "CANCELLED"})

\* map_response on an allow: the permit's id is replaced by the spend policy that
\* a confirmation satisfies, and dropped when a more specific permit applied.
CedarAllowed(r) ==
  IF r.action = "confirm_freight_booking"
  THEN IF Projected(r) > r.threshold /\ r.approval.status = "APPROVED"
       THEN {"SPEND-009"} ELSE {"SPEND-004"}
  ELSE CedarPermits(r) \ {"BASE-PERMIT-REGISTERED"}

\* CedarPolicyEngine.evaluate: the PDP refuses a request whose policy version is
\* not its own, which the governor turns into its fail-closed signal.
CedarEvaluate(r) ==
  IF ~r.version THEN {"ENGINE-FAIL"}
  ELSE IF CedarForbids(r) # {} THEN CedarForbids(r)
  ELSE IF CedarPermits(r) = {} THEN {"CEDAR-IMPLICIT-DENY"}
  ELSE CedarAllowed(r)

-----------------------------------------------------------------------------
(* The governor's decision over a verdict.                                 *)

GuidePolicies == {"PROV-003", "PROV-004", "COLD-002", "COLD-004"}
EscalatePolicies == {"SPEND-003"}
AllowPolicies == {"SPEND-004", "SPEND-009", "SOD-006", "SOD-007"}

Outcome(id) ==
  IF id \in AllowPolicies THEN "ALLOW"
  ELSE IF id \in GuidePolicies THEN "GUIDE"
  ELSE IF id \in EscalatePolicies THEN "ESCALATE"
  ELSE "BLOCK"

\* _PRECEDENCE: the strongest outcome among the signals; none means ALLOW.
PolicyOutcome(verdict) ==
  IF \E id \in verdict : Outcome(id) = "BLOCK" THEN "BLOCK"
  ELSE IF \E id \in verdict : Outcome(id) = "ESCALATE" THEN "ESCALATE"
  ELSE IF \E id \in verdict : Outcome(id) = "GUIDE" THEN "GUIDE"
  ELSE "ALLOW"

Reason(id) ==
  CASE id \in {"OWN-001", "COLD-001", "COLD-003", "SPEND-001", "SPEND-002",
               "CEDAR-IMPLICIT-DENY"} -> "MISSING_POLICY_CONTEXT"
    [] id = "OWN-002" -> "TOOL_OWNER_MISMATCH"
    [] id = "OWN-003" -> "EFFECT_NOT_ALLOWED_BY_MANDATE"
    [] id = "OWN-004" -> "PREPARED_ACTION_REQUIRED"
    [] id \in {"PROV-001", "PROV-002"} -> "PROVENANCE_REFERENCE_MISSING"
    [] id = "PROV-003" -> "PROVENANCE_UNIT_MISMATCH"
    [] id = "PROV-004" -> "PROVENANCE_VALUE_MISMATCH"
    [] id = "COLD-002" -> "COLD_CHAIN_VEHICLE_REQUIRED"
    [] id = "COLD-004" -> "COLD_CHAIN_CARRIER_REQUIRED"
    [] id = "SPEND-003" -> "SPEND_APPROVAL_REQUIRED"
    [] id = "SPEND-004" -> "SPEND_WITHIN_CEILING"
    [] id \in {"SPEND-005", "SPEND-010"} -> "APPROVAL_EXPIRED"
    [] id = "SPEND-006" -> "APPROVAL_ACTION_MISMATCH"
    [] id = "SPEND-007" -> "APPROVAL_STATE_MISMATCH"
    [] id = "SPEND-008" -> "APPROVAL_POLICY_MISMATCH"
    [] id = "SPEND-009" -> "SPEND_EXCEPTION_APPROVED"
    [] id = "SPEND-011" -> "APPROVAL_REJECTED"
    [] id \in {"SOD-000", "SOD-003"} -> "SEPARATION_OF_DUTIES_VIOLATION"
    [] id \in {"SOD-001", "SOD-002", "SOD-004", "SOD-005"} -> "PREPARED_ACTION_MISMATCH"
    [] id = "SOD-006" -> "CANCELLATION_ALREADY_APPLIED"
    [] id = "SOD-007" -> "CANCELLATION_ALLOWED"
    [] id = "SOD-008" -> "APPROVER_CONFLICT"
    [] id \in {"PII-001", "PII-003", "PII-004"} -> "PII_FIELD_NOT_ALLOWED"
    [] id = "PII-002" -> "DISCLOSURE_TEMPLATE_NOT_ALLOWED"
    [] OTHER -> "POLICY_ENGINE_FAILURE"

\* FAMILY_ORDER and the metadata's order: the sequence of the signals.
PolicyOrder ==
  <<"ENGINE-FAIL", "CEDAR-IMPLICIT-DENY", "OWN-001", "OWN-002", "OWN-003", "OWN-004",
    "PROV-001", "PROV-002", "PROV-003", "PROV-004",
    "COLD-001", "COLD-002", "COLD-003", "COLD-004",
    "SPEND-001", "SPEND-002", "SPEND-003", "SPEND-004", "SPEND-005", "SPEND-006",
    "SPEND-007", "SPEND-008", "SPEND-009", "SPEND-010", "SPEND-011",
    "SOD-000", "SOD-001", "SOD-002", "SOD-003", "SOD-004", "SOD-005", "SOD-006",
    "SOD-007", "SOD-008", "PII-001", "PII-002", "PII-003", "PII-004">>

PolicyIds == {PolicyOrder[k] : k \in DOMAIN PolicyOrder}

\* The reason codes of a verdict in signal order.
Reasons(verdict) ==
  LET ids == SelectSeq(PolicyOrder, LAMBDA id : id \in verdict)
  IN  [k \in DOMAIN ids |-> Reason(ids[k])]

\* Where a policy's signal stands among the signals, and the first of some.
Position(id) == CHOOSE k \in DOMAIN PolicyOrder : PolicyOrder[k] = id
FirstSignal(ids) == CHOOSE id \in ids : \A other \in ids : Position(id) <= Position(other)

\* max(signals, key=precedence): the first of the signals of the strongest outcome.
PrimaryReason(verdict) ==
  IF verdict = {} THEN "ALLOW_POLICY_CHECKS_PASSED"
  ELSE Reason(FirstSignal({id \in verdict : Outcome(id) = PolicyOutcome(verdict)}))

-----------------------------------------------------------------------------
(* Parity.                                                                 *)

\* What the rest of the system guarantees of a request: spend is never negative;
\* the fixture loader and the mock tools refuse negative amounts; a resolved
\* approval belongs to an escalation, so the spend it covers is over the
\* threshold; validate_pending refuses the preparer as approver; and only a
\* cancellation, which ends the run, leaves a prepared action rejected, expired
\* or cancelled.
TraceRequest(r) ==
  /\ r.committed >= 0 /\ r.reserved >= 0 /\ r.amount >= 0 /\ r.threshold >= 0
  /\ ~r.approval.byPreparer /\ ~r.approvedByPreparer
  /\ r.approval.status \in {"APPROVED", "REJECTED", "EXPIRED"} => Projected(r) > r.threshold
  /\ r.action = "confirm_freight_booking" =>
       r.prepared \notin {"REJECTED", "EXPIRED", "CANCELLED"}

\* On every request a trace can make, both engines decide alike: whether the
\* Cedar path or its Python fallback is configured never changes an effect.
SameOutcome(r) ==
  TraceRequest(r) => PolicyOutcome(PythonEvaluate(r)) = PolicyOutcome(CedarEvaluate(r))

\* ... and give the same primary reason, when the mandate's policy version is the
\* engine's (otherwise the Cedar path fails closed with its own reason).
SamePrimaryReason(r) ==
  TraceRequest(r) /\ r.version =>
    PrimaryReason(PythonEvaluate(r)) = PrimaryReason(CedarEvaluate(r))

\* ... and record the same sequence of reason codes.
SameReasons(r) ==
  TraceRequest(r) /\ r.version => Reasons(PythonEvaluate(r)) = Reasons(CedarEvaluate(r))
=============================================================================
