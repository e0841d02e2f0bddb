---------------------------- MODULE PolicyProofs ----------------------------
(***************************************************************************)
(* Parity of the two policy engines, for every request: any weights,       *)
(* capacities, amounts and thresholds.  MCPolicy checks the same statement *)
(* on a bounded space.  The argument goes tool by tool: only a few families*)
(* say anything about a given tool, and there Python's first rule and the  *)
(* set of Cedar's forbids have the same strongest outcome.  The same       *)
(* holds of the reason code that the decision carries: in every verdict of *)
(* a tool one signal leads, and it leads in the other engine's verdict too.*)
(***************************************************************************)
EXTENDS Policy, TLAPS

-----------------------------------------------------------------------------
(* The order of the signals and the leading one.                           *)

\* No policy is listed twice: a position determines its policy and is determined by it.
LEMMA Listed ==
  /\ DOMAIN PolicyOrder = 1..38
  /\ \A n \in 1..38 : Position(PolicyOrder[n]) = n
<1>1. DOMAIN PolicyOrder = 1..38
  BY DEF PolicyOrder
<1>2. \A j, k \in 1..38 : PolicyOrder[j] = PolicyOrder[k] => j = k
  BY SMTT(60) DEF PolicyOrder
<1> QED BY <1>1, <1>2 DEF Position

LEMMA Positions ==
  /\ Position("OWN-002") = 4 /\ Position("OWN-003") = 5 /\ Position("OWN-004") = 6
  /\ Position("PROV-001") = 7 /\ Position("PROV-002") = 8
  /\ Position("PROV-003") = 9 /\ Position("PROV-004") = 10
  /\ Position("COLD-001") = 11 /\ Position("COLD-002") = 12
  /\ Position("COLD-003") = 13 /\ Position("COLD-004") = 14
  /\ Position("SPEND-001") = 15 /\ Position("SPEND-002") = 16 /\ Position("SPEND-003") = 17
  /\ Position("SPEND-004") = 18 /\ Position("SPEND-005") = 19 /\ Position("SPEND-006") = 20
  /\ Position("SPEND-007") = 21 /\ Position("SPEND-008") = 22 /\ Position("SPEND-009") = 23
  /\ Position("SPEND-010") = 24 /\ Position("SPEND-011") = 25
  /\ Position("SOD-000") = 26 /\ Position("SOD-001") = 27 /\ Position("SOD-002") = 28
  /\ Position("SOD-003") = 29 /\ Position("SOD-004") = 30 /\ Position("SOD-005") = 31
  /\ Position("SOD-006") = 32 /\ Position("SOD-007") = 33
  /\ Position("PII-001") = 35 /\ Position("PII-002") = 36
  /\ Position("PII-003") = 37 /\ Position("PII-004") = 38
<1>1. /\ PolicyOrder[4] = "OWN-002" /\ PolicyOrder[5] = "OWN-003" /\ PolicyOrder[6] = "OWN-004"
      /\ PolicyOrder[7] = "PROV-001" /\ PolicyOrder[8] = "PROV-002"
      /\ PolicyOrder[9] = "PROV-003" /\ PolicyOrder[10] = "PROV-004"
      /\ PolicyOrder[11] = "COLD-001" /\ PolicyOrder[12] = "COLD-002"
      /\ PolicyOrder[13] = "COLD-003" /\ PolicyOrder[14] = "COLD-004"
  BY DEF PolicyOrder
<1>2. /\ PolicyOrder[15] = "SPEND-001" /\ PolicyOrder[16] = "SPEND-002"
      /\ PolicyOrder[17] = "SPEND-003" /\ PolicyOrder[18] = "SPEND-004"
      /\ PolicyOrder[19] = "SPEND-005" /\ PolicyOrder[20] = "SPEND-006"
      /\ PolicyOrder[21] = "SPEND-007" /\ PolicyOrder[22] = "SPEND-008"
      /\ PolicyOrder[23] = "SPEND-009" /\ PolicyOrder[24] = "SPEND-010"
      /\ PolicyOrder[25] = "SPEND-011"
  BY DEF PolicyOrder
<1>3. /\ PolicyOrder[26] = "SOD-000" /\ PolicyOrder[27] = "SOD-001" /\ PolicyOrder[28] = "SOD-002"
      /\ PolicyOrder[29] = "SOD-003" /\ PolicyOrder[30] = "SOD-004" /\ PolicyOrder[31] = "SOD-005"
      /\ PolicyOrder[32] = "SOD-006" /\ PolicyOrder[33] = "SOD-007"
      /\ PolicyOrder[35] = "PII-001" /\ PolicyOrder[36] = "PII-002"
      /\ PolicyOrder[37] = "PII-003" /\ PolicyOrder[38] = "PII-004"
  BY DEF PolicyOrder
<1>4. \A n \in 1..38 : Position(PolicyOrder[n]) = n
  BY Listed
<1> QED BY <1>1, <1>2, <1>3, <1>4

Before(id, j) == Position(id) \in Nat /\ Position(j) \in Nat /\ Position(id) < Position(j)

\* Signal id has the verdict's outcome and stands before every other such signal.
Leads(id, V) ==
  /\ id \in V /\ Position(id) \in Nat /\ Outcome(id) = PolicyOutcome(V)
  /\ \A j \in V : Outcome(j) = PolicyOutcome(V) =>
       j = id \/ Before(id, j)

\* The primary reason is the leading signal's.
LEMMA PrimaryIs ==
  ASSUME NEW V, NEW id, Leads(id, V)
  PROVE  PrimaryReason(V) = Reason(id)
<1> DEFINE S == {j \in V : Outcome(j) = PolicyOutcome(V)}
<1>1. id \in S /\ \A j \in S : Position(id) <= Position(j)
  BY DEF Leads, Before
<1>2. \A x \in S : (\A j \in S : Position(x) <= Position(j)) => x = id
  BY <1>1 DEF Leads, Before
<1>3. FirstSignal(S) = id
  BY <1>1, <1>2 DEF FirstSignal
<1> QED BY <1>3 DEF PrimaryReason, Leads

\* Among the ids of T, id blocks and stands before whatever else blocks.
Foremost(id, T) ==
  /\ Position(id) \in Nat /\ Outcome(id) = "BLOCK"
  /\ \A j \in T : j = id \/ Outcome(j) # "BLOCK" \/ Before(id, j)

\* Two verdicts share their primary reason if they share the foremost blocking signal.
LEMMA SameBlock ==
  ASSUME NEW P, NEW C, NEW T, NEW id, id \in P, id \in C, P \subseteq T, C \subseteq T,
         Foremost(id, T)
  PROVE  PrimaryReason(P) = PrimaryReason(C)
<1>1. PolicyOutcome(P) = "BLOCK" /\ PolicyOutcome(C) = "BLOCK"
  BY DEF PolicyOutcome, Foremost
<1>2. Leads(id, P) /\ Leads(id, C)
  BY <1>1 DEF Leads, Foremost
<1> QED BY <1>2, PrimaryIs

\* Guidance leads where there is nothing but guidance.
LEMMA SameGuide ==
  ASSUME NEW P, NEW C, NEW id, id \in P, id \in C, Position(id) \in Nat,
         \A j \in P \cup C : Outcome(j) = "GUIDE" /\ (j = id \/ Before(id, j))
  PROVE  PrimaryReason(P) = PrimaryReason(C)
<1>1. PolicyOutcome(P) = "GUIDE" /\ PolicyOutcome(C) = "GUIDE"
  BY DEF PolicyOutcome
<1>2. Leads(id, P) /\ Leads(id, C)
  BY <1>1 DEF Leads
<1> QED BY <1>2, PrimaryIs

-----------------------------------------------------------------------------
(* Parity of the outcomes.                                                 *)

USE DEF Owner, EffectClass, InventoryTools, DispatchTools, CarrierTools,
        CommunicationsTools, ReadTools, QuoteTools, CommitmentTools,
        Outcome, AllowPolicies, GuidePolicies, EscalatePolicies, PolicyOutcome, When

\* Outside its own tools a family of either engine is silent.
LEMMA SilentFamilies ==
  ASSUME NEW r \in Request
  PROVE  /\ r.action # "create_dispatch_plan" => PyProvenance(r) = {} /\ CedarPlanForbids(r) = {}
         /\ r.action \notin QuoteTools \cup {"create_dispatch_plan"} => PyColdChain(r) = {}
         /\ r.action \notin QuoteTools => CedarQuoteForbids(r) = {}
         /\ r.action # "confirm_freight_booking" => PyBudget(r) = {} /\ CedarConfirmForbids(r) = {}
         /\ r.action \notin QuoteTools \cup CommitmentTools => PySeparation(r) = {}
         /\ r.action # "cancel_freight_booking" => CedarCancelForbids(r) = {}
         /\ r.action # "write_tracking_outbox" => PyPii(r) = {} /\ CedarOutboxForbids(r) = {}
  BY DEF PyProvenance, PyColdChain, PyBudget, PySeparation, PyPii, CedarPlanForbids,
         CedarQuoteForbids, CedarConfirmForbids, CedarCancelForbids, CedarOutboxForbids

\* A request the ownership family refuses is a BLOCK for both engines.
LEMMA OwnershipRefused ==
  ASSUME NEW r \in Request, PyOwnership(r) # {}
  PROVE  /\ PolicyOutcome(PythonEvaluate(r)) = "BLOCK"
         /\ PolicyOutcome(CedarEvaluate(r)) = "BLOCK"
<1>1. PolicyOutcome(PythonEvaluate(r)) = "BLOCK"
  BY DEF PythonEvaluate, PyOwnership
<1>2. CASE ~r.version
  BY <1>1, <1>2 DEF CedarEvaluate
<1>3. CASE r.version
  <2>1. \E id \in CedarForbids(r) : id \in {"OWN-002", "OWN-003", "OWN-004"}
    BY <1>3 DEF PyOwnership, CedarForbids
  <2> QED
    BY <1>1, <1>3, <2>1 DEF CedarEvaluate
<1> QED
  BY <1>2, <1>3 DEF Request

\* Otherwise ownership adds no signal, the base permit applies, and the verdicts
\* are what the other families say.
LEMMA OwnershipPassed ==
  ASSUME NEW r \in Request, PyOwnership(r) = {}
  PROVE  LET python == PyProvenance(r) \cup PyColdChain(r) \cup PyBudget(r)
                         \cup PySeparation(r) \cup PyPii(r)
             forbids == CedarPlanForbids(r) \cup CedarQuoteForbids(r)
                         \cup CedarConfirmForbids(r) \cup CedarCancelForbids(r)
                         \cup CedarOutboxForbids(r)
         IN  /\ r.action \in CommitmentTools => r.prepared # "none"
             /\ PythonEvaluate(r) = python
             /\ CedarEvaluate(r) = IF forbids # {} THEN forbids ELSE CedarAllowed(r)
<1>1. /\ r.version /\ Owner(r.action) = r.principal /\ EffectClass(r.action) \in r.effects
      /\ r.action \in CommitmentTools => r.prepared # "none"
  BY DEF PyOwnership, Request
<1>2. "BASE-PERMIT-REGISTERED" \in CedarPermits(r)
  BY <1>1 DEF CedarPermits
<1> QED
  BY <1>1, <1>2 DEF PythonEvaluate, CedarEvaluate, CedarForbids

\* On every request a trace can make, the Python engine and the Cedar path give
\* the governor the same outcome (python_engine.evaluate, CedarPolicyEngine.evaluate).
THEOREM OutcomeParityForAll == \A r \in Request : SameOutcome(r)
<1> SUFFICES ASSUME NEW r \in Request, TraceRequest(r), PyOwnership(r) = {}
             PROVE  PolicyOutcome(PythonEvaluate(r)) = PolicyOutcome(CedarEvaluate(r))
  BY OwnershipRefused DEF SameOutcome
<1>0. PolicyOutcome(CedarAllowed(r)) = "ALLOW"
  BY DEF CedarAllowed, CedarPermits
<1>1. CASE r.action = "create_dispatch_plan"
  <2>1. /\ PythonEvaluate(r) = PyProvenance(r) \cup PyColdChain(r)
        /\ CedarEvaluate(r) = IF CedarPlanForbids(r) # {} THEN CedarPlanForbids(r) ELSE CedarAllowed(r)
    BY <1>1, SilentFamilies, OwnershipPassed
  <2>2. PolicyOutcome(PyProvenance(r) \cup PyColdChain(r)) = PolicyOutcome(CedarPlanForbids(r))
    BY <1>1, SMTT(60) DEF PyProvenance, PyColdChain, CedarPlanForbids, AuthoritativeWeight, Request
  <2> QED
    BY <1>0, <1>1, <2>1, <2>2
<1>2. CASE r.action \in QuoteTools
  <2>1. /\ PythonEvaluate(r) = PyColdChain(r) \cup PySeparation(r)
        /\ CedarEvaluate(r) = IF CedarQuoteForbids(r) # {} THEN CedarQuoteForbids(r) ELSE CedarAllowed(r)
    BY <1>2, SilentFamilies, OwnershipPassed
  <2>2. PolicyOutcome(PyColdChain(r) \cup PySeparation(r)) = PolicyOutcome(CedarQuoteForbids(r))
    BY <1>2, SMTT(60) DEF PyColdChain, PySeparation, CedarQuoteForbids, Request
  <2> QED
    BY <1>0, <1>2, <2>1, <2>2
<1>3. CASE r.action = "confirm_freight_booking"
  <2>1. /\ r.prepared # "none"
        /\ PythonEvaluate(r) = PyBudget(r) \cup PySeparation(r)
        /\ CedarEvaluate(r) = IF CedarConfirmForbids(r) # {} THEN CedarConfirmForbids(r) ELSE CedarAllowed(r)
    BY <1>3, SilentFamilies, OwnershipPassed
  <2> DEFINE over == Projected(r) > r.threshold
             unbound == \/ r.approval.expired \/ ~r.approval.action
                        \/ ~r.approval.state \/ ~r.approval.version
             undutiful == r.prepared \in {"PENDING_APPROVAL", "CONFIRMED"} \/ ~r.hash
             refused == \/ ~r.currency
                        \/ r.approval.status = "APPROVED" /\ unbound
                        \/ r.approval.status \in {"EXPIRED", "REJECTED"}
  <2>2. /\ ~r.approvedByPreparer /\ ~r.approval.byPreparer
        /\ r.approval.status \in {"APPROVED", "EXPIRED", "REJECTED"} => over
        /\ ~(r.committed < 0) /\ ~(r.reserved < 0) /\ ~(r.amount < 0) /\ ~(r.threshold < 0)
        /\ r.prepared \in {"PREPARED", "PENDING_APPROVAL", "APPROVED", "CONFIRMED"}
        /\ r.approval.status \in {"none", "PENDING_APPROVAL", "APPROVED", "EXPIRED", "REJECTED"}
        /\ over <=> ~(Projected(r) <= r.threshold)
    BY <1>3, <2>1 DEF TraceRequest, Request, PreparedStatus, Projected
  <2>3. PySeparation(r) = IF r.prepared \in {"PENDING_APPROVAL", "CONFIRMED"} THEN {"SOD-001"}
                          ELSE IF ~r.hash THEN {"SOD-002"} ELSE {}
    BY <1>3, <2>1, <2>2 DEF PySeparation, PyConfirmDuties
  <2>4. PolicyOutcome(PyBudget(r) \cup PySeparation(r)) =
          IF refused \/ undutiful THEN "BLOCK"
          ELSE IF over /\ r.approval.status # "APPROVED" THEN "ESCALATE" ELSE "ALLOW"
    <3> HIDE DEF over
    <3>1. PyBudget(r) = IF ~r.currency THEN {"SPEND-002"}
                        ELSE IF ~over THEN {"SPEND-004"}
                        ELSE IF r.approval.status = "APPROVED" THEN PyApprovedSpend(r)
                        ELSE IF r.approval.status = "EXPIRED" THEN {"SPEND-010"}
                        ELSE IF r.approval.status = "REJECTED" THEN {"SPEND-011"}
                        ELSE {"SPEND-003"}
      BY <1>3, <2>1, <2>2 DEF PyBudget
    <3>2. /\ undutiful => PySeparation(r) = {"SOD-001"} \/ PySeparation(r) = {"SOD-002"}
          /\ ~undutiful => PySeparation(r) = {}
      <4>1. CASE r.prepared \in {"PENDING_APPROVAL", "CONFIRMED"}
        BY <2>3, <4>1
      <4>2. CASE r.prepared \notin {"PENDING_APPROVAL", "CONFIRMED"}
        BY <2>3, <4>2
      <4> QED
        BY <4>1, <4>2
    <3>3. CASE ~r.currency
      BY <3>1, <3>3
    <3>4. CASE r.currency /\ r.approval.status = "APPROVED"
      <4>1. PyBudget(r) = PyApprovedSpend(r)
        BY <2>2, <3>1, <3>4
      <4>2. CASE unbound
        <5>1. \E id \in PyApprovedSpend(r) : id \in {"SPEND-005", "SPEND-006", "SPEND-007", "SPEND-008"}
          BY <4>2 DEF PyApprovedSpend
        <5> QED
          BY <3>4, <4>1, <4>2, <5>1
      <4>3. CASE ~unbound
        <5>1. PyApprovedSpend(r) = {"SPEND-009"}
          BY <4>3 DEF PyApprovedSpend
        <5> QED
          BY <3>2, <3>4, <4>1, <4>3, <5>1
      <4> QED
        BY <4>2, <4>3
    <3>5. CASE r.currency /\ r.approval.status \in {"EXPIRED", "REJECTED"}
      <4>1. PyBudget(r) \in {{"SPEND-010"}, {"SPEND-011"}}
        BY <2>2, <3>1, <3>5
      <4> QED
        BY <3>2, <3>5, <4>1
    <3>6. CASE r.currency /\ r.approval.status \in {"none", "PENDING_APPROVAL"}
      <4>1. PyBudget(r) = IF over THEN {"SPEND-003"} ELSE {"SPEND-004"}
        BY <3>1, <3>6
      <4> QED
        BY <3>2, <3>6, <4>1
    <3> QED
      BY <2>2, <3>3, <3>4, <3>5, <3>6
  <2>5. PolicyOutcome(CedarConfirmForbids(r)) =
          IF refused \/ undutiful THEN "BLOCK"
          ELSE IF over /\ r.approval.status # "APPROVED" THEN "ESCALATE" ELSE "ALLOW"
    <3>1. CASE refused \/ undutiful
      <4>1. \E id \in CedarConfirmForbids(r) :
              id \in {"SPEND-002", "SPEND-005", "SPEND-006", "SPEND-007", "SPEND-008",
                      "SPEND-010", "SPEND-011", "SOD-001", "SOD-002"}
        BY <1>3, <2>1, <2>2, <3>1 DEF CedarConfirmForbids
      <4> QED
        BY <3>1, <4>1
    <3>2. CASE ~(refused \/ undutiful)
      <4>1. CedarConfirmForbids(r) = IF over /\ r.approval.status # "APPROVED" THEN {"SPEND-003"} ELSE {}
        <5>1. /\ r.currency /\ r.hash /\ r.prepared \in {"PREPARED", "APPROVED"}
              /\ r.approval.status \in {"none", "PENDING_APPROVAL", "APPROVED"}
              /\ r.approval.status = "APPROVED" => ~unbound
          BY <2>2, <3>2
        <5>2. \A id \in CedarConfirmForbids(r) : id = "SPEND-003"
          BY <1>3, <2>1, <2>2, <5>1 DEF CedarConfirmForbids
        <5>3. "SPEND-003" \in CedarConfirmForbids(r) <=> over /\ r.approval.status # "APPROVED"
          BY <1>3, <2>1, <5>1 DEF CedarConfirmForbids
        <5> QED
          BY <5>2, <5>3
      <4> QED
        BY <3>2, <4>1
    <3> QED
      BY <3>1, <3>2
  <2> QED
    BY <1>0, <1>3, <2>1, <2>4, <2>5
<1>4. CASE r.action = "cancel_freight_booking"
  <2>1. /\ r.prepared # "none"
        /\ PythonEvaluate(r) = PySeparation(r)
        /\ CedarEvaluate(r) = IF CedarCancelForbids(r) # {} THEN CedarCancelForbids(r) ELSE CedarAllowed(r)
    BY <1>4, SilentFamilies, OwnershipPassed
  <2>2. PolicyOutcome(PySeparation(r)) = PolicyOutcome(CedarCancelForbids(r))
    BY <1>4, <2>1, SMTT(60) DEF PySeparation, PyCancelDuties, CedarCancelForbids
  <2> QED
    BY <1>0, <1>4, <2>1, <2>2
<1>5. CASE r.action = "write_tracking_outbox"
  <2>1. /\ PythonEvaluate(r) = PyPii(r)
        /\ CedarEvaluate(r) = IF CedarOutboxForbids(r) # {} THEN CedarOutboxForbids(r) ELSE CedarAllowed(r)
    BY <1>5, SilentFamilies, OwnershipPassed
  <2>2. PolicyOutcome(PyPii(r)) = PolicyOutcome(CedarOutboxForbids(r))
    BY <1>5, SMTT(60) DEF PyPii, CedarOutboxForbids
  <2> QED
    BY <1>0, <1>5, <2>1, <2>2
<1>6. CASE r.action \in ReadTools
  <2>1. PythonEvaluate(r) = {} /\ CedarEvaluate(r) = CedarAllowed(r)
    BY <1>6, SilentFamilies, OwnershipPassed
  <2> QED
    BY <1>0, <2>1
<1> QED
  BY <1>1, <1>2, <1>3, <1>4, <1>5, <1>6 DEF Request, Tools

-----------------------------------------------------------------------------
(* Parity of the primary reasons.                                          *)

HIDE DEF PolicyOutcome

\* Planning: of the provenance rules Python reports the first and Cedar all.
LEMMA PlanPrimary ==
  ASSUME NEW r \in Request, r.action = "create_dispatch_plan"
  PROVE  PrimaryReason(PyProvenance(r) \cup PyColdChain(r)) = PrimaryReason(CedarPlanForbids(r))
<1> DEFINE python == PyProvenance(r) \cup PyColdChain(r)
           cedar == CedarPlanForbids(r)
<1>1. CASE ~r.fact.known
  <2> DEFINE T == {"PROV-001", "COLD-001", "COLD-002"}
  <2>1. "PROV-001" \in python /\ python \subseteq T
    BY <1>1 DEF PyProvenance, PyColdChain
  <2>2. "PROV-001" \in cedar /\ cedar \subseteq T
    BY <1>1 DEF CedarPlanForbids
  <2>3. Foremost("PROV-001", T)
    BY Positions DEF Foremost, Before
  <2> HIDE DEF python, cedar, T
  <2>4. PrimaryReason(python) = PrimaryReason(cedar)
    BY <2>1, <2>2, <2>3, SameBlock
  <2> QED BY <2>4 DEF python, cedar
<1>2. CASE r.fact.known /\ ~r.fact.valid
  <2> DEFINE T == {"PROV-002", "COLD-001", "COLD-002"}
  <2>1. "PROV-002" \in python /\ python \subseteq T
    BY <1>2 DEF PyProvenance, PyColdChain
  <2>2. "PROV-002" \in cedar /\ cedar \subseteq T
    BY <1>2 DEF CedarPlanForbids
  <2>3. Foremost("PROV-002", T)
    BY Positions DEF Foremost, Before
  <2> HIDE DEF python, cedar, T
  <2>4. PrimaryReason(python) = PrimaryReason(cedar)
    BY <2>1, <2>2, <2>3, SameBlock
  <2> QED BY <2>4 DEF python, cedar
<1>3. CASE r.fact.known /\ r.fact.valid
  <2>1. AuthoritativeWeight(r) = r.fact.weight
    BY <1>3 DEF AuthoritativeWeight
  <2>2. CASE r.perishable /\ ~r.resource.known
    <3> DEFINE T == {"PROV-003", "PROV-004", "COLD-001"}
    <3>1. "COLD-001" \in python /\ python \subseteq T
      BY <1>3, <2>2 DEF PyProvenance, PyColdChain
    <3>2. "COLD-001" \in cedar /\ cedar \subseteq T
      BY <1>3, <2>2 DEF CedarPlanForbids
    <3>3. Foremost("COLD-001", T)
      BY Positions DEF Foremost, Before
    <3> HIDE DEF python, cedar, T
    <3>4. PrimaryReason(python) = PrimaryReason(cedar)
      BY <3>1, <3>2, <3>3, SameBlock
    <3> QED BY <3>4 DEF python, cedar
  <2>3. CASE ~(r.perishable /\ ~r.resource.known) /\ ~r.unit
    <3> DEFINE T == {"PROV-003", "PROV-004", "COLD-002"}
    <3>1. "PROV-003" \in python /\ python \subseteq T
      BY <1>3, <2>3 DEF PyProvenance, PyColdChain
    <3>2. "PROV-003" \in cedar /\ cedar \subseteq T
      BY <1>3, <2>3 DEF CedarPlanForbids
    <3> HIDE DEF python, cedar
    <3>3. Position("PROV-003") \in Nat /\ \A j \in T :
            Outcome(j) = "GUIDE" /\ (j = "PROV-003" \/ Before("PROV-003", j))
      BY Positions DEF Before
    <3>4. \A j \in python \cup cedar :
            Outcome(j) = "GUIDE" /\ (j = "PROV-003" \/ Before("PROV-003", j))
      BY <3>1, <3>2, <3>3
    <3> HIDE DEF T
    <3>5. PrimaryReason(python) = PrimaryReason(cedar)
      BY <3>1, <3>2, <3>3, <3>4, SameGuide
    <3> QED BY <3>5 DEF python, cedar
  <2>4. CASE ~(r.perishable /\ ~r.resource.known) /\ r.unit
    <3>1. PyProvenance(r) \cup PyColdChain(r) = CedarPlanForbids(r)
      BY <1>3, <2>1, <2>4 DEF PyProvenance, PyColdChain, CedarPlanForbids
    <3> QED BY <3>1
  <2> QED BY <2>2, <2>3, <2>4
<1> QED BY <1>1, <1>2, <1>3

\* Disclosure: the first broken rule leads in Cedar too.
LEMMA OutboxPrimary ==
  ASSUME NEW r \in Request, r.action = "write_tracking_outbox"
  PROVE  PrimaryReason(PyPii(r)) = PrimaryReason(CedarOutboxForbids(r))
<1> DEFINE python == PyPii(r)
           cedar == CedarOutboxForbids(r)
<1>1. CASE r.outbox.forbidden
  <2> DEFINE T == {"PII-001", "PII-002", "PII-003", "PII-004"}
  <2>1. "PII-001" \in python /\ python \subseteq T
    BY <1>1 DEF PyPii
  <2>2. "PII-001" \in cedar /\ cedar \subseteq T
    BY <1>1 DEF CedarOutboxForbids
  <2>3. Foremost("PII-001", T)
    BY Positions DEF Foremost, Before
  <2> HIDE DEF python, cedar, T
  <2>4. PrimaryReason(python) = PrimaryReason(cedar)
    BY <2>1, <2>2, <2>3, SameBlock
  <2> QED BY <2>4 DEF python, cedar
<1>2. CASE ~r.outbox.forbidden /\ ~r.outbox.template
  <2> DEFINE T == {"PII-002", "PII-003", "PII-004"}
  <2>1. "PII-002" \in python /\ python \subseteq T
    BY <1>2 DEF PyPii
  <2>2. "PII-002" \in cedar /\ cedar \subseteq T
    BY <1>2 DEF CedarOutboxForbids
  <2>3. Foremost("PII-002", T)
    BY Positions DEF Foremost, Before
  <2> HIDE DEF python, cedar, T
  <2>4. PrimaryReason(python) = PrimaryReason(cedar)
    BY <2>1, <2>2, <2>3, SameBlock
  <2> QED BY <2>4 DEF python, cedar
<1>3. CASE ~r.outbox.forbidden /\ r.outbox.template /\ ~r.outbox.recipient
  <2> DEFINE T == {"PII-003", "PII-004"}
  <2>1. "PII-003" \in python /\ python \subseteq T
    BY <1>3 DEF PyPii
  <2>2. "PII-003" \in cedar /\ cedar \subseteq T
    BY <1>3 DEF CedarOutboxForbids
  <2>3. Foremost("PII-003", T)
    BY Positions DEF Foremost, Before
  <2> HIDE DEF python, cedar, T
  <2>4. PrimaryReason(python) = PrimaryReason(cedar)
    BY <2>1, <2>2, <2>3, SameBlock
  <2> QED BY <2>4 DEF python, cedar
<1>4. CASE ~r.outbox.forbidden /\ r.outbox.template /\ r.outbox.recipient
  <2>1. PyPii(r) = CedarOutboxForbids(r)
    BY <1>4 DEF PyPii, CedarOutboxForbids
  <2> QED BY <2>1
<1> QED BY <1>1, <1>2, <1>3, <1>4

\* Quotes: both engines report the same.
LEMMA QuotePrimary ==
  ASSUME NEW r \in Request, r.action \in QuoteTools
  PROVE  PyColdChain(r) \cup PySeparation(r) = CedarQuoteForbids(r)
BY DEF PyColdChain, PySeparation, CedarQuoteForbids

\* Cancellation: Python allows under the policy whose permit Cedar grants.
LEMMA CancelPrimary ==
  ASSUME NEW r \in Request, r.action = "cancel_freight_booking", r.prepared # "none",
         PyOwnership(r) = {}
  PROVE  PrimaryReason(PySeparation(r)) =
           PrimaryReason(IF CedarCancelForbids(r) # {} THEN CedarCancelForbids(r)
                         ELSE CedarAllowed(r))
<1> DEFINE python == PySeparation(r)
           cedar == CedarCancelForbids(r)
<1>0. PySeparation(r) = PyCancelDuties(r)
  BY DEF PySeparation
<1>1. CASE ~r.hash
  <2> DEFINE T == {"SOD-004", "SOD-005"}
  <2>1. "SOD-004" \in python /\ python \subseteq T
    BY <1>1, <1>0 DEF PyCancelDuties
  <2>2. "SOD-004" \in cedar /\ cedar \subseteq T
    BY <1>1 DEF CedarCancelForbids
  <2>3. Foremost("SOD-004", T)
    BY Positions DEF Foremost, Before
  <2> HIDE DEF python, cedar, T
  <2>4. PrimaryReason(python) = PrimaryReason(cedar)
    BY <2>1, <2>2, <2>3, SameBlock
  <2> QED BY <2>2, <2>4 DEF python, cedar
<1>2. CASE r.hash /\ r.prepared = "CONFIRMED"
  BY <1>0, <1>2 DEF PyCancelDuties, CedarCancelForbids
<1>3. CASE r.hash /\ r.prepared # "CONFIRMED"
  <2>1. CedarCancelForbids(r) = {}
    BY <1>3 DEF CedarCancelForbids
  <2>2. Owner(r.action) = r.principal /\ EffectClass(r.action) \in r.effects
    BY DEF PyOwnership
  <2>3. CedarAllowed(r) = IF r.prepared = "CANCELLED" THEN {"SOD-006"} ELSE {"SOD-007"}
    BY <1>3, <2>2 DEF CedarAllowed, CedarPermits
  <2>4. PySeparation(r) = IF r.prepared = "CANCELLED" THEN {"SOD-006"} ELSE {"SOD-007"}
    BY <1>0, <1>3 DEF PyCancelDuties
  <2> QED BY <2>1, <2>3, <2>4
<1> QED BY <1>1, <1>2, <1>3

\* Confirmation: what both engines report of a request that a trace can make.
LEMMA ConfirmShape ==
  ASSUME NEW r \in Request, TraceRequest(r), r.action = "confirm_freight_booking",
         r.prepared # "none"
  PROVE  LET over == Projected(r) > r.threshold
             status == r.approval.status
         IN  /\ status \in {"APPROVED", "EXPIRED", "REJECTED"} => over
             /\ PySeparation(r) = IF r.prepared \in {"PENDING_APPROVAL", "CONFIRMED"} THEN {"SOD-001"}
                                  ELSE IF ~r.hash THEN {"SOD-002"} ELSE {}
             /\ PyBudget(r) = IF ~r.currency THEN {"SPEND-002"}
                              ELSE IF ~over THEN {"SPEND-004"}
                              ELSE IF status = "APPROVED" THEN PyApprovedSpend(r)
                              ELSE IF status = "EXPIRED" THEN {"SPEND-010"}
                              ELSE IF status = "REJECTED" THEN {"SPEND-011"}
                              ELSE {"SPEND-003"}
             /\ \A x : x \in CedarConfirmForbids(r) <=>
                  \/ x = "SPEND-002" /\ ~r.currency
                  \/ x = "SPEND-003" /\ over /\ status \in {"none", "PENDING_APPROVAL"}
                  \/ x = "SPEND-005" /\ status = "APPROVED" /\ r.approval.expired
                  \/ x = "SPEND-006" /\ status = "APPROVED" /\ ~r.approval.action
                  \/ x = "SPEND-007" /\ status = "APPROVED" /\ ~r.approval.state
                  \/ x = "SPEND-008" /\ status = "APPROVED" /\ ~r.approval.version
                  \/ x = "SPEND-010" /\ status = "EXPIRED"
                  \/ x = "SPEND-011" /\ status = "REJECTED"
                  \/ x = "SOD-001" /\ r.prepared \in {"PENDING_APPROVAL", "CONFIRMED"}
                  \/ x = "SOD-002" /\ ~r.hash
<1> DEFINE over == Projected(r) > r.threshold
<1>1. /\ ~r.approvedByPreparer /\ ~r.approval.byPreparer
      /\ r.approval.status \in {"APPROVED", "EXPIRED", "REJECTED"} => over
      /\ ~(r.committed < 0) /\ ~(r.reserved < 0) /\ ~(r.amount < 0) /\ ~(r.threshold < 0)
      /\ r.prepared \notin {"CANCELLED", "REJECTED", "EXPIRED"}
      /\ over <=> ~(Projected(r) <= r.threshold)
  BY DEF TraceRequest, Request, Projected
<1>2. PySeparation(r) = IF r.prepared \in {"PENDING_APPROVAL", "CONFIRMED"} THEN {"SOD-001"}
                        ELSE IF ~r.hash THEN {"SOD-002"} ELSE {}
  BY <1>1 DEF PySeparation, PyConfirmDuties
<1> HIDE DEF over
<1>3. PyBudget(r) = IF ~r.currency THEN {"SPEND-002"}
                    ELSE IF ~over THEN {"SPEND-004"}
                    ELSE IF r.approval.status = "APPROVED" THEN PyApprovedSpend(r)
                    ELSE IF r.approval.status = "EXPIRED" THEN {"SPEND-010"}
                    ELSE IF r.approval.status = "REJECTED" THEN {"SPEND-011"}
                    ELSE {"SPEND-003"}
  BY <1>1 DEF PyBudget
<1> USE DEF over
<1>4. \A x : x \in CedarConfirmForbids(r) <=>
        \/ x = "SPEND-002" /\ ~r.currency
        \/ x = "SPEND-003" /\ over /\ r.approval.status \in {"none", "PENDING_APPROVAL"}
        \/ x = "SPEND-005" /\ r.approval.status = "APPROVED" /\ r.approval.expired
        \/ x = "SPEND-006" /\ r.approval.status = "APPROVED" /\ ~r.approval.action
        \/ x = "SPEND-007" /\ r.approval.status = "APPROVED" /\ ~r.approval.state
        \/ x = "SPEND-008" /\ r.approval.status = "APPROVED" /\ ~r.approval.version
        \/ x = "SPEND-010" /\ r.approval.status = "EXPIRED"
        \/ x = "SPEND-011" /\ r.approval.status = "REJECTED"
        \/ x = "SOD-001" /\ r.prepared \in {"PENDING_APPROVAL", "CONFIRMED"}
        \/ x = "SOD-002" /\ ~r.hash
  BY <1>1 DEF CedarConfirmForbids
<1> QED BY <1>1, <1>2, <1>3, <1>4

LEMMA ConfirmPrimary ==
  ASSUME NEW r \in Request, TraceRequest(r), r.action = "confirm_freight_booking",
         r.prepared # "none"
  PROVE  PrimaryReason(PyBudget(r) \cup PySeparation(r)) =
           PrimaryReason(IF CedarConfirmForbids(r) # {} THEN CedarConfirmForbids(r)
                         ELSE CedarAllowed(r))
<1> DEFINE python == PyBudget(r) \cup PySeparation(r)
           cedar == CedarConfirmForbids(r)
           over == Projected(r) > r.threshold
           status == r.approval.status
           unbound == \/ r.approval.expired \/ ~r.approval.action
                      \/ ~r.approval.state \/ ~r.approval.version
<1>0. /\ status \in {"APPROVED", "EXPIRED", "REJECTED"} => over
      /\ PySeparation(r) = IF r.prepared \in {"PENDING_APPROVAL", "CONFIRMED"} THEN {"SOD-001"}
                           ELSE IF ~r.hash THEN {"SOD-002"} ELSE {}
      /\ PyBudget(r) = IF ~r.currency THEN {"SPEND-002"}
                       ELSE IF ~over THEN {"SPEND-004"}
                       ELSE IF status = "APPROVED" THEN PyApprovedSpend(r)
                       ELSE IF status = "EXPIRED" THEN {"SPEND-010"}
                       ELSE IF status = "REJECTED" THEN {"SPEND-011"}
                       ELSE {"SPEND-003"}
  BY ConfirmShape
<1>f. \A x : x \in CedarConfirmForbids(r) <=>
        \/ x = "SPEND-002" /\ ~r.currency
        \/ x = "SPEND-003" /\ over /\ status \in {"none", "PENDING_APPROVAL"}
        \/ x = "SPEND-005" /\ status = "APPROVED" /\ r.approval.expired
        \/ x = "SPEND-006" /\ status = "APPROVED" /\ ~r.approval.action
        \/ x = "SPEND-007" /\ status = "APPROVED" /\ ~r.approval.state
        \/ x = "SPEND-008" /\ status = "APPROVED" /\ ~r.approval.version
        \/ x = "SPEND-010" /\ status = "EXPIRED"
        \/ x = "SPEND-011" /\ status = "REJECTED"
        \/ x = "SOD-001" /\ r.prepared \in {"PENDING_APPROVAL", "CONFIRMED"}
        \/ x = "SOD-002" /\ ~r.hash
  BY ConfirmShape
<1> HIDE DEF over
<1>1. CASE ~r.currency
  <2> DEFINE T == {"SPEND-002", "SPEND-003", "SPEND-005", "SPEND-006", "SPEND-007",
                   "SPEND-008", "SPEND-010", "SPEND-011", "SOD-001", "SOD-002"}
  <2>1. "SPEND-002" \in python /\ python \subseteq T
    BY <1>1, <1>0
  <2>2. "SPEND-002" \in cedar /\ cedar \subseteq T
    BY <1>1, <1>f
  <2>3. Foremost("SPEND-002", T)
    BY Positions DEF Foremost, Before
  <2> HIDE DEF python, cedar, T
  <2>4. PrimaryReason(python) = PrimaryReason(cedar)
    BY <2>1, <2>2, <2>3, SameBlock
  <2> QED BY <2>2, <2>4 DEF python, cedar
<1>2. CASE r.currency /\ status = "APPROVED" /\ over /\ r.approval.expired
  <2> DEFINE T == {"SPEND-005", "SPEND-006", "SPEND-007", "SPEND-008", "SPEND-010",
                   "SPEND-011", "SOD-001", "SOD-002"}
  <2>1. "SPEND-005" \in python /\ python \subseteq T
    BY <1>2, <1>0 DEF PyApprovedSpend
  <2>2. "SPEND-005" \in cedar /\ cedar \subseteq T
    BY <1>2, <1>f
  <2>3. Foremost("SPEND-005", T)
    BY Positions DEF Foremost, Before
  <2> HIDE DEF python, cedar, T
  <2>4. PrimaryReason(python) = PrimaryReason(cedar)
    BY <2>1, <2>2, <2>3, SameBlock
  <2> QED BY <2>2, <2>4 DEF python, cedar
<1>3. CASE /\ r.currency /\ status = "APPROVED" /\ over
           /\ ~r.approval.expired /\ ~r.approval.action
  <2> DEFINE T == {"SPEND-006", "SPEND-007", "SPEND-008", "SPEND-010", "SPEND-011",
                   "SOD-001", "SOD-002"}
  <2>1. "SPEND-006" \in python /\ python \subseteq T
    BY <1>3, <1>0 DEF PyApprovedSpend
  <2>2. "SPEND-006" \in cedar /\ cedar \subseteq T
    BY <1>3, <1>f
  <2>3. Foremost("SPEND-006", T)
    BY Positions DEF Foremost, Before
  <2> HIDE DEF python, cedar, T
  <2>4. PrimaryReason(python) = PrimaryReason(cedar)
    BY <2>1, <2>2, <2>3, SameBlock
  <2> QED BY <2>2, <2>4 DEF python, cedar
<1>4. CASE /\ r.currency /\ status = "APPROVED" /\ over
           /\ ~r.approval.expired /\ r.approval.action /\ ~r.approval.state
  <2> DEFINE T == {"SPEND-007", "SPEND-008", "SPEND-010", "SPEND-011", "SOD-001", "SOD-002"}
  <2>1. "SPEND-007" \in python /\ python \subseteq T
    BY <1>4, <1>0 DEF PyApprovedSpend
  <2>2. "SPEND-007" \in cedar /\ cedar \subseteq T
    BY <1>4, <1>f
  <2>3. Foremost("SPEND-007", T)
    BY Positions DEF Foremost, Before
  <2> HIDE DEF python, cedar, T
  <2>4. PrimaryReason(python) = PrimaryReason(cedar)
    BY <2>1, <2>2, <2>3, SameBlock
  <2> QED BY <2>2, <2>4 DEF python, cedar
<1>5. CASE /\ r.currency /\ status = "APPROVED" /\ over
           /\ ~r.approval.expired /\ r.approval.action /\ r.approval.state /\ ~r.approval.version
  <2> DEFINE T == {"SPEND-008", "SPEND-010", "SPEND-011", "SOD-001", "SOD-002"}
  <2>1. "SPEND-008" \in python /\ python \subseteq T
    BY <1>5, <1>0 DEF PyApprovedSpend
  <2>2. "SPEND-008" \in cedar /\ cedar \subseteq T
    BY <1>5, <1>f
  <2>3. Foremost("SPEND-008", T)
    BY Positions DEF Foremost, Before
  <2> HIDE DEF python, cedar, T
  <2>4. PrimaryReason(python) = PrimaryReason(cedar)
    BY <2>1, <2>2, <2>3, SameBlock
  <2> QED BY <2>2, <2>4 DEF python, cedar
<1>6. CASE r.currency /\ over /\ status = "EXPIRED"
  <2> DEFINE T == {"SPEND-010", "SPEND-011", "SOD-001", "SOD-002"}
  <2>1. "SPEND-010" \in python /\ python \subseteq T
    BY <1>6, <1>0
  <2>2. "SPEND-010" \in cedar /\ cedar \subseteq T
    BY <1>6, <1>f
  <2>3. Foremost("SPEND-010", T)
    BY Positions DEF Foremost, Before
  <2> HIDE DEF python, cedar, T
  <2>4. PrimaryReason(python) = PrimaryReason(cedar)
    BY <2>1, <2>2, <2>3, SameBlock
  <2> QED BY <2>2, <2>4 DEF python, cedar
<1>7. CASE r.currency /\ over /\ status = "REJECTED"
  <2> DEFINE T == {"SPEND-011", "SOD-001", "SOD-002"}
  <2>1. "SPEND-011" \in python /\ python \subseteq T
    BY <1>7, <1>0
  <2>2. "SPEND-011" \in cedar /\ cedar \subseteq T
    BY <1>7, <1>f
  <2>3. Foremost("SPEND-011", T)
    BY Positions DEF Foremost, Before
  <2> HIDE DEF python, cedar, T
  <2>4. PrimaryReason(python) = PrimaryReason(cedar)
    BY <2>1, <2>2, <2>3, SameBlock
  <2> QED BY <2>2, <2>4 DEF python, cedar
<1>8. CASE /\ r.currency /\ status \in {"none", "PENDING_APPROVAL", "APPROVED"}
           /\ status = "APPROVED" => over /\ ~unbound
  <2>1. PyBudget(r) = IF status = "APPROVED" THEN {"SPEND-009"}
                      ELSE IF over THEN {"SPEND-003"} ELSE {"SPEND-004"}
    BY <1>0, <1>8 DEF PyApprovedSpend
  <2>2. CASE r.prepared \in {"PENDING_APPROVAL", "CONFIRMED"}
    <3> DEFINE T == {"SPEND-003", "SPEND-004", "SPEND-009", "SOD-001", "SOD-002"}
    <3>1. "SOD-001" \in python /\ python \subseteq T
      BY <2>2, <1>0, <2>1
    <3>2. "SOD-001" \in cedar /\ cedar \subseteq T
      BY <2>2, <1>8, <1>f
    <3>3. Foremost("SOD-001", T)
      BY Positions DEF Foremost, Before
    <3> HIDE DEF python, cedar, T
    <3>4. PrimaryReason(python) = PrimaryReason(cedar)
      BY <3>1, <3>2, <3>3, SameBlock
    <3> QED BY <3>2, <3>4 DEF python, cedar
  <2>3. CASE r.prepared \notin {"PENDING_APPROVAL", "CONFIRMED"} /\ ~r.hash
    <3> DEFINE T == {"SPEND-003", "SPEND-004", "SPEND-009", "SOD-002"}
    <3>1. "SOD-002" \in python /\ python \subseteq T
      BY <2>3, <1>0, <2>1
    <3>2. "SOD-002" \in cedar /\ cedar \subseteq T
      BY <2>3, <1>8, <1>f
    <3>3. Foremost("SOD-002", T)
      BY Positions DEF Foremost, Before
    <3> HIDE DEF python, cedar, T
    <3>4. PrimaryReason(python) = PrimaryReason(cedar)
      BY <3>1, <3>2, <3>3, SameBlock
    <3> QED BY <3>2, <3>4 DEF python, cedar
  <2>4. CASE r.prepared \notin {"PENDING_APPROVAL", "CONFIRMED"} /\ r.hash
    <3>1. PySeparation(r) = {}
      BY <1>0, <2>4
    <3>2. CASE over /\ status # "APPROVED"
      <4>1. \A x : x \in CedarConfirmForbids(r) <=> x = "SPEND-003"
        BY <1>8, <1>f, <2>4, <3>2
      <4>2. CedarConfirmForbids(r) = {"SPEND-003"}
        BY <4>1
      <4> QED BY <2>1, <3>1, <3>2, <4>2
    <3>3. CASE ~(over /\ status # "APPROVED")
      <4>1. \A x : x \notin CedarConfirmForbids(r)
        BY <1>8, <1>f, <2>4, <3>3
      <4>2. CedarAllowed(r) = IF over /\ status = "APPROVED" THEN {"SPEND-009"} ELSE {"SPEND-004"}
        BY DEF CedarAllowed, over
      <4> QED BY <1>8, <2>1, <3>1, <3>3, <4>1, <4>2
    <3> QED BY <3>2, <3>3
  <2> QED BY <2>2, <2>3, <2>4
<1>9. status \in {"none", "PENDING_APPROVAL", "APPROVED", "EXPIRED", "REJECTED"}
  BY DEF Request
<1> QED BY <1>0, <1>1, <1>2, <1>3, <1>4, <1>5, <1>6, <1>7, <1>8, <1>9

\* The ids of the rules that are not about ownership.
OtherIds ==
  {"PROV-001", "PROV-002", "PROV-003", "PROV-004", "COLD-001", "COLD-002", "COLD-003",
   "COLD-004", "SPEND-001", "SPEND-002", "SPEND-003", "SPEND-004", "SPEND-005", "SPEND-006",
   "SPEND-007", "SPEND-008", "SPEND-009", "SPEND-010", "SPEND-011", "SOD-000", "SOD-001",
   "SOD-002", "SOD-003", "SOD-004", "SOD-005", "SOD-006", "SOD-007", "PII-001", "PII-002",
   "PII-003", "PII-004"}

LEMMA FamilyIds ==
  ASSUME NEW r \in Request, TraceRequest(r)
  PROVE  /\ PyProvenance(r) \cup PyColdChain(r) \cup PyBudget(r) \cup PySeparation(r)
              \cup PyPii(r) \subseteq OtherIds
         /\ CedarPlanForbids(r) \cup CedarQuoteForbids(r) \cup CedarConfirmForbids(r)
              \cup CedarCancelForbids(r) \cup CedarOutboxForbids(r) \subseteq OtherIds
<1>1. PyProvenance(r) \subseteq OtherIds /\ PyColdChain(r) \subseteq OtherIds
  BY DEF PyProvenance, PyColdChain, OtherIds
<1>2. PyBudget(r) \subseteq OtherIds
  BY DEF PyBudget, PyApprovedSpend, OtherIds
<1>3. PySeparation(r) \subseteq OtherIds
  BY DEF PySeparation, PyConfirmDuties, PyCancelDuties, OtherIds, TraceRequest
<1>4. PyPii(r) \subseteq OtherIds
  BY DEF PyPii, OtherIds
<1>5. CedarPlanForbids(r) \subseteq OtherIds /\ CedarQuoteForbids(r) \subseteq OtherIds
  BY DEF CedarPlanForbids, CedarQuoteForbids, OtherIds
<1>6. CedarConfirmForbids(r) \subseteq OtherIds
  BY DEF CedarConfirmForbids, OtherIds
<1>7. CedarCancelForbids(r) \subseteq OtherIds /\ CedarOutboxForbids(r) \subseteq OtherIds
  BY DEF CedarCancelForbids, CedarOutboxForbids, OtherIds
<1> QED BY <1>1, <1>2, <1>3, <1>4, <1>5, <1>6, <1>7

\* The ownership family comes first in both engines.
LEMMA OwnershipPrimary ==
  ASSUME NEW r \in Request, TraceRequest(r), r.version, PyOwnership(r) # {}
  PROVE  PrimaryReason(PythonEvaluate(r)) = PrimaryReason(CedarEvaluate(r))
<1> DEFINE python == PythonEvaluate(r)
           cedar == CedarForbids(r)
           owner == Owner(r.action) # r.principal
           effect == EffectClass(r.action) \notin r.effects
           unprepared == r.action \in CommitmentTools /\ r.prepared = "none"
<1>0. /\ PythonEvaluate(r) \subseteq PyOwnership(r) \cup OtherIds
      /\ PyOwnership(r) \subseteq PythonEvaluate(r)
      /\ PyOwnership(r) = IF owner THEN {"OWN-002"} ELSE IF effect THEN {"OWN-003"} ELSE {"OWN-004"}
  BY FamilyIds DEF PythonEvaluate, PyOwnership
<1>f. /\ cedar \subseteq When("OWN-002", owner) \cup When("OWN-003", effect)
           \cup When("OWN-004", unprepared) \cup OtherIds
      /\ When("OWN-002", owner) \cup When("OWN-003", effect) \cup When("OWN-004", unprepared)
           \subseteq cedar
  BY FamilyIds DEF CedarForbids
<1>u. owner \/ effect \/ unprepared
  BY DEF PyOwnership
<1>e. cedar # {} => CedarEvaluate(r) = cedar
  BY DEF CedarEvaluate
<1> HIDE DEF owner, effect, unprepared, python, cedar
<1>1. CASE owner
  <2> DEFINE T == {"OWN-002", "OWN-003", "OWN-004"} \cup OtherIds
  <2>1. "OWN-002" \in python /\ python \subseteq T
    BY <1>1, <1>0 DEF python
  <2>2. "OWN-002" \in cedar /\ cedar \subseteq T
    BY <1>1, <1>u, <1>f
  <2>3. Foremost("OWN-002", T)
    BY Positions DEF Foremost, Before, OtherIds
  <2> HIDE DEF T
  <2>4. PrimaryReason(python) = PrimaryReason(cedar)
    BY <2>1, <2>2, <2>3, SameBlock
  <2> QED BY <1>e, <2>2, <2>4 DEF python
<1>2. CASE ~owner /\ effect
  <2> DEFINE T == {"OWN-003", "OWN-004"} \cup OtherIds
  <2>1. "OWN-003" \in python /\ python \subseteq T
    BY <1>2, <1>0 DEF python
  <2>2. "OWN-003" \in cedar /\ cedar \subseteq T
    BY <1>2, <1>u, <1>f
  <2>3. Foremost("OWN-003", T)
    BY Positions DEF Foremost, Before, OtherIds
  <2> HIDE DEF T
  <2>4. PrimaryReason(python) = PrimaryReason(cedar)
    BY <2>1, <2>2, <2>3, SameBlock
  <2> QED BY <1>e, <2>2, <2>4 DEF python
<1>3. CASE ~owner /\ ~effect
  <2> DEFINE T == {"OWN-004"} \cup OtherIds
  <2>1. "OWN-004" \in python /\ python \subseteq T
    BY <1>3, <1>0 DEF python
  <2>2. "OWN-004" \in cedar /\ cedar \subseteq T
    BY <1>3, <1>u, <1>f
  <2>3. Foremost("OWN-004", T)
    BY Positions DEF Foremost, Before, OtherIds
  <2> HIDE DEF T
  <2>4. PrimaryReason(python) = PrimaryReason(cedar)
    BY <2>1, <2>2, <2>3, SameBlock
  <2> QED BY <1>e, <2>2, <2>4 DEF python
<1> QED BY <1>1, <1>2, <1>3

\* On every request a trace can make, under the policy version of the engines, the
\* decision carries the same primary reason code whichever engine is configured,
\* although Python stops at the first rule of a family and Cedar reports every
\* satisfied forbid (python_engine.evaluate, map_response, _make_decision).
THEOREM PrimaryReasonParityForAll == \A r \in Request : SamePrimaryReason(r)
<1> SUFFICES ASSUME NEW r \in Request, TraceRequest(r), r.version, PyOwnership(r) = {}
             PROVE  PrimaryReason(PythonEvaluate(r)) = PrimaryReason(CedarEvaluate(r))
  BY OwnershipPrimary DEF SamePrimaryReason
<1>0. r.action \notin CommitmentTools => CedarAllowed(r) = {}
  BY DEF CedarAllowed, CedarPermits
<1>1. CASE r.action = "create_dispatch_plan"
  <2>1. /\ PythonEvaluate(r) = PyProvenance(r) \cup PyColdChain(r)
        /\ CedarEvaluate(r) = IF CedarPlanForbids(r) # {} THEN CedarPlanForbids(r) ELSE CedarAllowed(r)
    BY <1>1, SilentFamilies, OwnershipPassed
  <2> QED BY <1>0, <1>1, <2>1, PlanPrimary
<1>2. CASE r.action \in QuoteTools
  <2>1. /\ PythonEvaluate(r) = PyColdChain(r) \cup PySeparation(r)
        /\ CedarEvaluate(r) = IF CedarQuoteForbids(r) # {} THEN CedarQuoteForbids(r) ELSE CedarAllowed(r)
    BY <1>2, SilentFamilies, OwnershipPassed
  <2> QED BY <1>0, <1>2, <2>1, QuotePrimary
<1>3. CASE r.action = "confirm_freight_booking"
  <2>1. /\ r.prepared # "none"
        /\ PythonEvaluate(r) = PyBudget(r) \cup PySeparation(r)
        /\ CedarEvaluate(r) = IF CedarConfirmForbids(r) # {} THEN CedarConfirmForbids(r) ELSE CedarAllowed(r)
    BY <1>3, SilentFamilies, OwnershipPassed
  <2> QED BY <1>3, <2>1, ConfirmPrimary
<1>4. CASE r.action = "cancel_freight_booking"
  <2>1. /\ r.prepared # "none"
        /\ PythonEvaluate(r) = PySeparation(r)
        /\ CedarEvaluate(r) = IF CedarCancelForbids(r) # {} THEN CedarCancelForbids(r) ELSE CedarAllowed(r)
    BY <1>4, SilentFamilies, OwnershipPassed
  <2> QED BY <1>4, <2>1, CancelPrimary
<1>5. CASE r.action = "write_tracking_outbox"
  <2>1. /\ PythonEvaluate(r) = PyPii(r)
        /\ CedarEvaluate(r) = IF CedarOutboxForbids(r) # {} THEN CedarOutboxForbids(r) ELSE CedarAllowed(r)
    BY <1>5, SilentFamilies, OwnershipPassed
  <2> QED BY <1>0, <1>5, <2>1, OutboxPrimary
<1>6. CASE r.action \in ReadTools
  <2>1. PythonEvaluate(r) = {} /\ CedarEvaluate(r) = CedarAllowed(r)
    BY <1>6, SilentFamilies, OwnershipPassed
  <2> QED BY <1>0, <1>6, <2>1
<1> QED
  BY <1>1, <1>2, <1>3, <1>4, <1>5, <1>6 DEF Request, Tools
=============================================================================
