---------------------------- MODULE ParityProofs ----------------------------
(***************************************************************************)
(* The model-checking instance of the policy engines chooses its requests  *)
(* among those Policy is about, whatever weights and amounts it is given:  *)
(* what PolicyProofs shows of every request holds of each one chosen.      *)
(***************************************************************************)
EXTENDS MCPolicy, PolicyProofs

LEMMA BenignRequest == Benign \in Request
BY DEF Benign, Request, Roles, Tools, CarrierTools, EffectClasses, PreparedStatus

Typed == req \in Request

LEMMA RegisterTyped == ASSUME Register PROVE Typed'
<1> PICK p \in Roles, a \in Tools, e \in SUBSET EffectClasses, v \in BOOLEAN,
         c \in BOOLEAN, s \in {"none", "PREPARED"} :
      req' = [Benign EXCEPT !.principal = p, !.action = a, !.effects = e, !.version = v,
                            !.perishable = c, !.prepared = s]
  BY DEF Register
<1>1. s \in PreparedStatus
  BY DEF PreparedStatus
<1> DEFINE r1 == [Benign EXCEPT !.principal = p, !.action = a, !.effects = e]
<1>2. r1 \in Request
  BY BenignRequest DEF Request
<1>3. req' = [r1 EXCEPT !.version = v, !.perishable = c, !.prepared = s]
  OBVIOUS
<1> HIDE DEF r1
<1>4. [r1 EXCEPT !.version = v, !.perishable = c, !.prepared = s] \in Request
  BY <1>1, <1>2 DEF Request
<1> QED BY <1>3, <1>4 DEF Typed

LEMMA PlanTyped == ASSUME Plan PROVE Typed'
<1> PICK f \in [known : BOOLEAN, valid : BOOLEAN, weight : Weights], w \in Weights,
         u \in BOOLEAN, c \in BOOLEAN, k \in BOOLEAN, av \in BOOLEAN, rf \in BOOLEAN,
         cap \in Weights :
      req' = [Benign EXCEPT !.principal = "dispatch", !.action = "create_dispatch_plan",
                !.fact = f, !.weight = w, !.unit = u, !.perishable = c,
                !.resource.known = k, !.resource.available = av,
                !.resource.refrigerated = rf, !.resource.capacity = cap]
  BY DEF Plan
<1>1. f \in [known : BOOLEAN, valid : BOOLEAN, weight : Int] /\ w \in Int /\ cap \in Int
  BY RequestAssumption
<1>2. "dispatch" \in Roles /\ "create_dispatch_plan" \in Tools
  BY DEF Roles, Tools, DispatchTools
<1> DEFINE r1 == [Benign EXCEPT !.principal = "dispatch", !.action = "create_dispatch_plan",
                                !.fact = f]
           r2 == [r1 EXCEPT !.weight = w, !.unit = u, !.perishable = c]
           r3 == [r2 EXCEPT !.resource.known = k, !.resource.available = av]
           r4 == [r3 EXCEPT !.resource.refrigerated = rf, !.resource.capacity = cap]
<1>3. req' = r4
  OBVIOUS
<1>4. r1 \in Request
  BY <1>1, <1>2, BenignRequest DEF Request
<1> HIDE DEF r1
<1>5. r2 \in Request
  BY <1>1, <1>4 DEF Request
<1> HIDE DEF r2
<1>6. r3 \in Request
  BY <1>5 DEF Request
<1> HIDE DEF r3
<1>7. r4 \in Request
  BY <1>1, <1>6 DEF Request
<1> QED BY <1>3, <1>7 DEF Typed

LEMMA QuoteTyped == ASSUME Quote PROVE Typed'
<1>1. QuoteTools \subseteq Tools
  BY DEF QuoteTools, Tools, CarrierTools
<1> PICK a \in QuoteTools, c \in BOOLEAN, k \in BOOLEAN, ce \in BOOLEAN, l \in BOOLEAN,
         o \in BOOLEAN :
      req' = [Benign EXCEPT !.action = a, !.perishable = c, !.resource.known = k,
                !.resource.certified = ce, !.resource.lane = l, !.resource.own = o]
  BY DEF Quote
<1> DEFINE r1 == [Benign EXCEPT !.action = a, !.perishable = c]
           r2 == [r1 EXCEPT !.resource.known = k, !.resource.certified = ce]
           r3 == [r2 EXCEPT !.resource.lane = l, !.resource.own = o]
<1>2. req' = r3
  OBVIOUS
<1>3. r1 \in Request
  BY <1>1, BenignRequest DEF Request
<1> HIDE DEF r1
<1>4. r2 \in Request
  BY <1>3 DEF Request
<1> HIDE DEF r2
<1>5. r3 \in Request
  BY <1>4 DEF Request
<1> QED BY <1>2, <1>5 DEF Typed

LEMMA CommitTyped == ASSUME Commit PROVE Typed'
<1>1. CommitmentTools \subseteq Tools
  BY DEF CommitmentTools, Tools, CarrierTools
<1> PICK a \in CommitmentTools, s \in PreparedStatus, h \in BOOLEAN, cu \in BOOLEAN,
         co \in Amounts, re \in Amounts, th \in Amounts,
         ap \in [status : {"none", "PENDING_APPROVAL", "APPROVED", "REJECTED", "EXPIRED"},
                 expired : BOOLEAN, action : BOOLEAN, state : BOOLEAN, version : BOOLEAN,
                 byPreparer : BOOLEAN] :
      req' = [Benign EXCEPT !.action = a, !.prepared = s, !.hash = h, !.currency = cu,
                !.committed = co, !.reserved = re, !.threshold = th, !.approval = ap,
                !.approvedByPreparer = ap.byPreparer /\ ap.status = "APPROVED"]
  BY DEF Commit
<1>2. co \in Int /\ re \in Int /\ th \in Int
  BY RequestAssumption
<1> DEFINE conflict == ap.byPreparer /\ ap.status = "APPROVED"
           r1 == [Benign EXCEPT !.action = a, !.prepared = s, !.hash = h, !.currency = cu]
           r2 == [r1 EXCEPT !.committed = co, !.reserved = re, !.threshold = th]
           r3 == [r2 EXCEPT !.approval = ap, !.approvedByPreparer = conflict]
<1>3. req' = r3
  OBVIOUS
<1>4. conflict \in BOOLEAN
  OBVIOUS
<1>5. r1 \in Request
  BY <1>1, BenignRequest DEF Request
<1> HIDE DEF r1, conflict
<1>6. r2 \in Request
  BY <1>2, <1>5 DEF Request
<1> HIDE DEF r2
<1>7. r3 \in Request
  BY <1>4, <1>6 DEF Request
<1> QED BY <1>3, <1>7 DEF Typed

LEMMA DiscloseTyped == ASSUME Disclose PROVE Typed'
<1>1. "customer_communications" \in Roles /\ "write_tracking_outbox" \in Tools
  BY DEF Roles, Tools, CommunicationsTools
<1> PICK o \in [forbidden : BOOLEAN, template : BOOLEAN, recipient : BOOLEAN,
                variables : BOOLEAN] :
      req' = [Benign EXCEPT !.principal = "customer_communications",
                            !.action = "write_tracking_outbox", !.outbox = o]
  BY DEF Disclose
<1> DEFINE r1 == [Benign EXCEPT !.principal = "customer_communications",
                                !.action = "write_tracking_outbox"]
           r2 == [r1 EXCEPT !.outbox = o]
<1>2. req' = r2
  OBVIOUS
<1>3. r1 \in Request
  BY <1>1, BenignRequest DEF Request
<1> HIDE DEF r1
<1>4. r2 \in Request
  BY <1>3 DEF Request
<1> QED BY <1>2, <1>4 DEF Typed

\* Every chosen request is one a policy engine may be given.
LEMMA Chosen == Spec => []Typed
<1>1. Init => Typed
  BY BenignRequest DEF Init, Typed
<1>2. Typed /\ [Next]_req => Typed'
  BY RegisterTyped, PlanTyped, QuoteTyped, CommitTyped, DiscloseTyped DEF Next, Typed
<1> QED BY <1>1, <1>2, PTL DEF Spec

\* Whatever weights and amounts the requests range over, the configured engine never
\* changes what the governor executes, guides, escalates or blocks.
THEOREM OutcomeParitySafe == Spec => []OutcomeParity
<1>1. Typed => OutcomeParity
  BY OutcomeParityForAll DEF Typed, OutcomeParity
<1> QED BY <1>1, Chosen, PTL

\* ... nor the reason code its decision carries.
THEOREM PrimaryReasonSafe == Spec => []PrimaryReasonParity
<1>1. Typed => PrimaryReasonParity
  BY PrimaryReasonParityForAll DEF Typed, PrimaryReasonParity
<1> QED BY <1>1, Chosen, PTL
=============================================================================
