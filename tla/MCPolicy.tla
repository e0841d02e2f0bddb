------------------------------ MODULE MCPolicy ------------------------------
(* Both engines on every request of a bounded space: one request is chosen   *)
(* per behaviour; for each tool the fields its rules read range over all     *)
(* their values, the others have the value a benign run gives them.          *)
EXTENDS Policy

CONSTANTS Weights, Amounts   \* attempted weights and capacities; spend values

ASSUME RequestAssumption == Weights \subseteq Int /\ Amounts \subseteq Int

VARIABLE req

Benign ==
  [principal |-> "carrier", action |-> "list_carrier_quotes", effects |-> EffectClasses,
   version |-> TRUE, perishable |-> TRUE,
   fact |-> [known |-> TRUE, valid |-> TRUE, weight |-> 1], weight |-> 1, unit |-> TRUE,
   resource |-> [known |-> TRUE, available |-> TRUE, refrigerated |-> TRUE, capacity |-> 1,
                 certified |-> TRUE, lane |-> TRUE, own |-> FALSE],
   prepared |-> "none", hash |-> TRUE, currency |-> TRUE, amount |-> 1,
   committed |-> 0, reserved |-> 0, threshold |-> 1,
   approval |-> [status |-> "none", expired |-> FALSE, action |-> TRUE, state |-> TRUE,
                 version |-> TRUE, byPreparer |-> FALSE],
   approvedByPreparer |-> FALSE,
   outbox |-> [forbidden |-> FALSE, template |-> TRUE, recipient |-> TRUE,
               variables |-> TRUE]]

\* Any tool by any role, under a mandate that allows some effects.
Register ==
  \E p \in Roles, a \in Tools, e \in SUBSET EffectClasses, v \in BOOLEAN,
     c \in BOOLEAN, s \in {"none", "PREPARED"} :
    req' = [Benign EXCEPT !.principal = p, !.action = a, !.effects = e, !.version = v,
                          !.perishable = c, !.prepared = s]

Plan ==
  \E f \in [known : BOOLEAN, valid : BOOLEAN, weight : Weights], w \in Weights,
     u \in BOOLEAN, c \in BOOLEAN, k \in BOOLEAN, av \in BOOLEAN, rf \in BOOLEAN,
     cap \in Weights :
    req' = [Benign EXCEPT !.principal = "dispatch", !.action = "create_dispatch_plan",
              !.fact = f, !.weight = w, !.unit = u, !.perishable = c,
              !.resource.known = k, !.resource.available = av,
              !.resource.refrigerated = rf, !.resource.capacity = cap]

Quote ==
  \E a \in QuoteTools, c \in BOOLEAN, k \in BOOLEAN, ce \in BOOLEAN, l \in BOOLEAN,
     o \in BOOLEAN :
    req' = [Benign EXCEPT !.action = a, !.perishable = c, !.resource.known = k,
              !.resource.certified = ce, !.resource.lane = l, !.resource.own = o]

Commit ==
  \E a \in CommitmentTools, s \in PreparedStatus, h \in BOOLEAN, cu \in BOOLEAN,
     co \in Amounts, re \in Amounts, th \in Amounts,
     ap \in [status : {"none", "PENDING_APPROVAL", "APPROVED", "REJECTED", "EXPIRED"},
             expired : BOOLEAN, action : BOOLEAN, state : BOOLEAN, version : BOOLEAN,
             byPreparer : BOOLEAN] :
    req' = [Benign EXCEPT !.action = a, !.prepared = s, !.hash = h, !.currency = cu,
              !.committed = co, !.reserved = re, !.threshold = th, !.approval = ap,
              !.approvedByPreparer = ap.byPreparer /\ ap.status = "APPROVED"]

Disclose ==
  \E o \in [forbidden : BOOLEAN, template : BOOLEAN, recipient : BOOLEAN,
            variables : BOOLEAN] :
    req' = [Benign EXCEPT !.principal = "customer_communications",
              !.action = "write_tracking_outbox", !.outbox = o]

Init == req = Benign

Next == req = Benign /\ (Register \/ Plan \/ Quote \/ Commit \/ Disclose)

Spec == Init /\ [][Next]_req

\* The Python engine and the Cedar path decide the chosen request alike, so the
\* configured engine never changes what the governor executes, guides, escalates
\* or blocks.
OutcomeParity == SameOutcome(req)

\* ... and the decision carries the same primary reason code, although Python
\* stops at the first rule of a family and Cedar reports every satisfied forbid.
PrimaryReasonParity == SamePrimaryReason(req)

\* Parity as CHECKPOINT_7_IMPLEMENTATION_PLAN.md 15.5 defines it: also the same
\* ordered reason codes of all signals.
ReasonsParity == SameReasons(req)
=============================================================================
