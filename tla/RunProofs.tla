----------------------------- MODULE RunProofs -----------------------------
(***************************************************************************)
(* One governed run keeps what it promises for any fixtures, mandates,     *)
(* limits and proposals of a model.                                        *)
(***************************************************************************)
EXTENDS GovernedRun, PolicyProofs, FiniteSetTheorems, NaturalsInduction, TLAPS

-----------------------------------------------------------------------------
(* Totals of amounts.  The library's fold takes the elements of a set in    *)
(* the order of CHOOSE; below it is shown to exist as a function on the     *)
(* subsets of Quotes and not to depend on that order.                       *)

\* A set of numbers has a least element.
LEMMA LeastOf ==
  ASSUME NEW S, S \subseteq Nat, S # {}
  PROVE  \E x \in S : \A y \in S : x <= y
<1> DEFINE R == OpToRel(<, Nat)
<1>1. IsWellFoundedOn(R, Nat)
  BY NatLessThanWellFounded
<1>2. \A x, y \in Nat : <<y, x>> \in R <=> y < x
  BY DEF OpToRel
<1> HIDE DEF R
<1>3. PICK x \in S : \A y \in S : ~(<<y, x>> \in R)
  BY <1>1, WFMin
<1>4. ASSUME NEW y \in S PROVE x <= y
  <2>1. x \in Nat /\ y \in Nat
    OBVIOUS
  <2>2. ~(y < x)
    BY <1>2, <1>3, <2>1
  <2> QED
    BY <2>1, <2>2
<1> QED
  BY <1>3, <1>4

\* The element the fold takes next.
First(s) == CHOOSE x \in s : TRUE

\* g is the fold on a family of sets of quotes.
IsFold(g, D) ==
  /\ g \in [D -> Nat]
  /\ \A s \in D : g[s] = IF s = {} THEN 0 ELSE Amount(First(s)) + g[s \ {First(s)}]

\* The sets of at most n quotes.
UpTo(n) == {s \in SUBSET Quotes : Cardinality(s) <= n}

\* An amount is a number, and taking an element out of a set makes it smaller.
LEMMA Quoted ==
  /\ \A q \in Quotes : Amount(q) \in Nat
  /\ \A s \in SUBSET Quotes : IsFiniteSet(s) /\ Cardinality(s) \in Nat
  /\ \A s \in SUBSET Quotes : \A q \in s :
       Cardinality(s \ {q}) = Cardinality(s) - 1 /\ s \ {q} \in SUBSET Quotes /\ Cardinality(s) > 0
<1>1. \A q \in Quotes : Amount(q) \in Nat
  BY RunAssumption DEF Amount
<1>2. \A s \in SUBSET Quotes : IsFiniteSet(s) /\ Cardinality(s) \in Nat
  BY RunAssumption, FS_Subset, FS_CardinalityType
<1>3. ASSUME NEW s \in SUBSET Quotes, NEW q \in s
      PROVE  Cardinality(s \ {q}) = Cardinality(s) - 1 /\ s \ {q} \in SUBSET Quotes /\ Cardinality(s) > 0
  <2>1. Cardinality(s \ {q}) = Cardinality(s) - 1 /\ Cardinality(s) # 0
    BY <1>2, FS_RemoveElement, FS_EmptySet
  <2> QED
    BY <1>2, <2>1
<1> QED
  BY <1>1, <1>2, <1>3

\* The fold exists on the sets of any size.
LEMMA FoldUpTo == \A n \in Nat : \E g : IsFold(g, UpTo(n))
<1> DEFINE Bad == {n \in Nat : ~ \E g : IsFold(g, UpTo(n))}
<1> SUFFICES ASSUME Bad # {} PROVE FALSE
  OBVIOUS
<1>1. PICK n \in Bad : \A m \in Bad : n <= m
  BY LeastOf
<1>2. CASE n = 0
  <2>1. UpTo(0) = {{}}
    <3>1. \A s \in UpTo(0) : s = {}
      BY Quoted, FS_EmptySet DEF UpTo
    <3>2. {} \in UpTo(0)
      BY FS_EmptySet DEF UpTo
    <3> QED
      BY <3>1, <3>2
  <2>2. IsFold([s \in {{}} |-> 0], {{}})
    BY DEF IsFold
  <2> QED
    BY <1>1, <1>2, <2>1, <2>2
<1>3. CASE n # 0
  <2>1. n - 1 \in Nat /\ n - 1 \notin Bad
    BY <1>1, <1>3
  <2>2. PICK g : IsFold(g, UpTo(n - 1))
    BY <2>1
  <2> DEFINE rest(s) == s \ {First(s)}
             h == [s \in UpTo(n) |-> IF s = {} THEN 0 ELSE Amount(First(s)) + g[rest(s)]]
  <2>3. ASSUME NEW s \in UpTo(n), s # {}
        PROVE  First(s) \in Quotes /\ rest(s) \in UpTo(n - 1) /\ rest(s) \in UpTo(n)
    <3>1. First(s) \in s /\ s \in SUBSET Quotes
      BY <2>3 DEF First, UpTo
    <3>2. Cardinality(rest(s)) = Cardinality(s) - 1 /\ rest(s) \in SUBSET Quotes /\ Cardinality(s) \in Nat
      BY <3>1, Quoted
    <3>3. Cardinality(s) <= n /\ n \in Nat
      BY DEF UpTo
    <3> QED
      BY <3>1, <3>2, <3>3 DEF UpTo
  <2>4. h \in [UpTo(n) -> Nat]
    <3>1. ASSUME NEW s \in UpTo(n), s # {}
          PROVE  Amount(First(s)) + g[rest(s)] \in Nat
      <4>1. g[rest(s)] \in Nat /\ Amount(First(s)) \in Nat
        BY <2>2, <2>3, <3>1, Quoted DEF IsFold
      <4> QED
        BY <4>1
    <3> QED
      BY <3>1
  <2>5. ASSUME NEW s \in UpTo(n - 1) PROVE s \in UpTo(n) /\ g[s] = h[s]
    <3>1. s \in UpTo(n)
      BY <1>1, Quoted DEF UpTo
    <3> QED
      BY <2>2, <3>1 DEF IsFold
  <2>6. \A s \in UpTo(n) : h[s] = IF s = {} THEN 0 ELSE Amount(First(s)) + h[rest(s)]
    BY <2>3, <2>5
  <2>7. IsFold(h, UpTo(n))
    BY <2>4, <2>6 DEF IsFold
  <2> QED
    BY <1>1, <2>7
<1> QED
  BY <1>2, <1>3

\* ... and does not depend on the order in which the elements are taken.
LEMMA FoldAny ==
  ASSUME NEW g, IsFold(g, SUBSET Quotes)
  PROVE  \A s \in SUBSET Quotes : \A q \in s : g[s] = g[s \ {q}] + Amount(q)
<1> DEFINE Wrong(s) == \E q \in s : g[s] # g[s \ {q}] + Amount(q)
           Bad == {n \in Nat : \E s \in SUBSET Quotes : Cardinality(s) = n /\ Wrong(s)}
<1>0. \A s \in SUBSET Quotes : Cardinality(s) \in Nat
  BY Quoted
<1> SUFFICES ASSUME Bad # {} PROVE FALSE
  BY <1>0
<1>1. PICK n \in Bad : \A m \in Bad : n <= m
  BY LeastOf
<1>2. PICK s \in SUBSET Quotes : Cardinality(s) = n /\ Wrong(s)
  OBVIOUS
<1>3. PICK q \in s : g[s] # g[s \ {q}] + Amount(q)
  BY <1>2
<1> DEFINE x == First(s)
<1>4. x \in s /\ g[s] = Amount(x) + g[s \ {x}]
  BY <1>3 DEF IsFold, First
<1>5. \A r \in SUBSET Quotes : g[r] \in Nat
  BY DEF IsFold
<1> HIDE DEF x
<1>6. Amount(x) \in Nat /\ Amount(q) \in Nat
  BY <1>3, <1>4, Quoted
<1>7. ASSUME NEW y \in s PROVE ~Wrong(s \ {y}) /\ s \ {y} \in SUBSET Quotes
  <2>1. Cardinality(s \ {y}) = n - 1 /\ s \ {y} \in SUBSET Quotes /\ n > 0
    BY <1>2, Quoted
  <2>2. n - 1 \in Nat /\ ~(n <= n - 1)
    BY <2>1
  <2> QED
    BY <1>1, <2>1, <2>2
<1>8. CASE x = q
  BY <1>3, <1>4, <1>5, <1>6, <1>8
<1>9. CASE x # q
  <2>1. /\ g[s \ {x}] = g[(s \ {x}) \ {q}] + Amount(q)
        /\ g[s \ {q}] = g[(s \ {q}) \ {x}] + Amount(x)
    BY <1>3, <1>4, <1>7, <1>9
  <2>2. (s \ {x}) \ {q} = (s \ {q}) \ {x} /\ (s \ {q}) \ {x} \in SUBSET Quotes
    OBVIOUS
  <2>3. /\ g[s] \in Nat /\ g[s \ {x}] \in Nat /\ g[s \ {q}] \in Nat
        /\ g[(s \ {q}) \ {x}] \in Nat
    BY <1>5
  <2>4. g[(s \ {x}) \ {q}] = g[(s \ {q}) \ {x}]
    BY <2>2
  <2>5. g[s] = Amount(x) + (g[(s \ {q}) \ {x}] + Amount(q))
    BY <1>4, <2>1, <2>4
  <2>6. g[s] = g[s \ {q}] + Amount(q)
    BY <1>6, <2>1, <2>3, <2>5
  <2> QED
    BY <1>3, <2>6
<1> QED
  BY <1>8, <1>9

\* What the library's recursion computes from h.
Unfolded(h, S) ==
  [s \in SUBSET S |-> IF s = {} THEN 0 ELSE Amount(First(s)) + h[s \ {First(s)}]]

\* Two folds agree where both are defined.
LEMMA FoldUnique ==
  ASSUME NEW g, IsFold(g, SUBSET Quotes), NEW S \in SUBSET Quotes,
         NEW h, h = Unfolded(h, S)
  PROVE  \A s \in SUBSET S : h[s] = g[s]
<1> DEFINE Bad == {n \in Nat : \E s \in SUBSET S : Cardinality(s) = n /\ h[s] # g[s]}
<1>0. \A s \in SUBSET S : Cardinality(s) \in Nat
  BY Quoted
<1> SUFFICES ASSUME Bad # {} PROVE FALSE
  BY <1>0
<1>1. PICK n \in Bad : \A m \in Bad : n <= m
  BY LeastOf
<1>2. PICK s \in SUBSET S : Cardinality(s) = n /\ h[s] # g[s]
  OBVIOUS
<1>3. /\ h[s] = IF s = {} THEN 0 ELSE Amount(First(s)) + h[s \ {First(s)}]
      /\ g[s] = IF s = {} THEN 0 ELSE Amount(First(s)) + g[s \ {First(s)}]
  BY DEF IsFold, Unfolded
<1>4. s # {}
  BY <1>2, <1>3
<1>5. First(s) \in s
  BY <1>4 DEF First
<1>6. Cardinality(s \ {First(s)}) = n - 1 /\ n > 0
  BY <1>2, <1>5, Quoted
<1>7. n - 1 \in Nat /\ ~(n <= n - 1)
  BY <1>6
<1>8. h[s \ {First(s)}] = g[s \ {First(s)}]
  BY <1>1, <1>6, <1>7
<1> QED
  BY <1>2, <1>3, <1>4, <1>8

\* TotalAmount is a fold.
LEMMA TotalIsFold ==
  \E g : IsFold(g, SUBSET Quotes) /\ \A S \in SUBSET Quotes : TotalAmount(S) = g[S]
<1>1. Cardinality(Quotes) \in Nat /\ UpTo(Cardinality(Quotes)) = SUBSET Quotes
  BY RunAssumption, FS_Subset, FS_CardinalityType DEF UpTo
<1>2. PICK g : IsFold(g, SUBSET Quotes)
  BY <1>1, FoldUpTo
<1>3. ASSUME NEW S \in SUBSET Quotes PROVE TotalAmount(S) = g[S]
  <2> DEFINE iter == CHOOSE h : h = Unfolded(h, S)
             k == [s \in SUBSET S |-> g[s]]
  <2>1. k = Unfolded(k, S)
    <3>1. \A s \in SUBSET S : s # {} => First(s) \in s
      BY DEF First
    <3>2. \A s \in SUBSET S : k[s] = IF s = {} THEN 0 ELSE Amount(First(s)) + k[s \ {First(s)}]
      BY <1>2, <3>1 DEF IsFold
    <3> QED
      BY <3>2 DEF Unfolded
  <2>2. iter = Unfolded(iter, S)
    BY <2>1
  <2>3. TotalAmount(S) = iter[S]
    BY DEF TotalAmount, MapThenSumSet, MapThenFoldSet, First, Unfolded
  <2> HIDE DEF iter
  <2>4. \A s \in SUBSET S : iter[s] = g[s]
    BY <1>2, <2>2, FoldUnique
  <2> QED
    BY <2>3, <2>4
<1> QED
  BY <1>2, <1>3

\* The total of no quotes is nothing, a quote adds its amount and taking it out
\* takes its amount off.
LEMMA Totals ==
  /\ TotalAmount({}) = 0
  /\ \A S \in SUBSET Quotes : TotalAmount(S) \in Nat
  /\ \A S \in SUBSET Quotes : \A q \in Quotes \ S : TotalAmount(S \cup {q}) = TotalAmount(S) + Amount(q)
  /\ \A S \in SUBSET Quotes : \A q \in S :
       TotalAmount(S) >= Amount(q) /\ TotalAmount(S \ {q}) = TotalAmount(S) - Amount(q)
<1>1. PICK g : IsFold(g, SUBSET Quotes) /\ \A S \in SUBSET Quotes : TotalAmount(S) = g[S]
  BY TotalIsFold
<1>2. TotalAmount({}) = 0
  BY <1>1 DEF IsFold
<1>3. \A S \in SUBSET Quotes : TotalAmount(S) \in Nat
  BY <1>1 DEF IsFold
<1>4. \A S \in SUBSET Quotes : \A q \in S : TotalAmount(S) = TotalAmount(S \ {q}) + Amount(q)
  BY <1>1, FoldAny
<1>5. ASSUME NEW S \in SUBSET Quotes, NEW q \in Quotes \ S
      PROVE  TotalAmount(S \cup {q}) = TotalAmount(S) + Amount(q)
  <2>1. (S \cup {q}) \ {q} = S /\ S \cup {q} \in SUBSET Quotes
    OBVIOUS
  <2> QED
    BY <1>4, <2>1
<1>6. ASSUME NEW S \in SUBSET Quotes, NEW q \in S
      PROVE  TotalAmount(S) >= Amount(q) /\ TotalAmount(S \ {q}) = TotalAmount(S) - Amount(q)
  <2>1. TotalAmount(S) \in Nat /\ TotalAmount(S \ {q}) \in Nat /\ Amount(q) \in Nat
    BY <1>3, Quoted
  <2>2. TotalAmount(S) = TotalAmount(S \ {q}) + Amount(q)
    BY <1>4
  <2> QED
    BY <2>1, <2>2
<1> QED
  BY <1>2, <1>3, <1>5, <1>6

-----------------------------------------------------------------------------
(* The inductive invariant.                                                *)

Pcs == {"idle", "bound", "attempted", "allowed", "executed", "GUIDE", "BLOCK", "ESCALATE", "raised"}

CallRecord ==
  [pc : Pcs, tool : Tools \cup {"none"}, args : Arguments, verdict : SUBSET PolicyIds]

Steps == {"none", "replan", "reselect"} \cup Tools

\* The types, of the call in progress and the script too.
Typed == TypeOK /\ call \in CallRecord /\ step \in Steps

\* A call that was bound and has no answer yet.
Busy == call.pc \in {"bound", "attempted", "allowed", "executed"}

Legacy == Runtime = "legacy"

\* The orchestrator gave up on the invocation.
Abandoned == ~Legacy /\ ctx.closed /\ (main = "failed" \/ st.status = "FAILED")

\* Where the two threads can be: a call is in progress, and a model still served,
\* only in an agent's turn or after the orchestrator gave up.
Placed ==
  /\ Legacy => ~ctx.working
  /\ ~Legacy => step = "none" /\ (call.pc = "idle" => call = NoCall)
  /\ call.pc # "idle" => /\ main = "agent" \/ Abandoned
                         /\ role > 0 /\ call.tool \in AllowedTools
  /\ ctx.working => main = "agent" \/ Abandoned
  /\ main # "loop" => role > 0
  /\ st.status = "RUNNING" <=> main # "done"

\* The call limit bounds the other counters: a call in progress has been counted.
Counted ==
  LET current == IF call.pc \in {"attempted", "allowed", "executed"} THEN 1 ELSE 0
  IN  /\ st.confirms + current <= st.calls /\ st.notices + current <= st.calls
      /\ \A t \in GuidedTools : st.attempts[t] <= st.calls

\* What a role has to leave behind.
RoleDone(r) ==
  CASE r = 1 -> st.order /\ st.fact
    [] r = 2 -> st.vehicle # None
    [] r = 3 -> st.quote # None /\ (st.booked # None \/ st.pending # None)
    [] OTHER -> st.notified

\* The roles that are over have left it behind.
Staged ==
  /\ \A r \in 1..4 : r < role => RoleDone(r)
  /\ role > 0 /\ main \in {"returned", "loop"} => RoleDone(role)
  /\ st.status = "COMPLETED" => role = 4 /\ RoleDone(4) /\ st.pending = None
  /\ st.status = "PENDING_APPROVAL" => st.pending # None

ScriptSteps ==
  <<{"get_order", "check_inventory"},
    {"list_available_vehicles", "create_dispatch_plan", "replan"},
    {"list_carrier_quotes", "select_carrier_quote", "reselect", "prepare_freight_booking",
     "confirm_freight_booking"},
    {"write_tracking_outbox"}>>

\* A deterministic agent is at a step of its script, with what the steps before it
\* left and the candidate it goes on with.
Scripted ==
  Legacy /\ main = "agent" =>
    /\ step \in ScriptSteps[role]
    /\ step = "check_inventory" => st.order
    /\ step \in {"prepare_freight_booking", "confirm_freight_booking"} =>
         st.quote # None /\ (call.pc # "idle" => call.args.quote = st.quote)
    /\ step = "confirm_freight_booking" => st.prepared[st.quote] # "none"
    /\ step = "replan" /\ call.pc = "idle" => VehicleCandidates(call.verdict) # {}
    /\ step = "reselect" => QuoteCandidates # {}
    /\ call.pc # "idle" => call.tool = ScriptTool

\* A call in progress is bound to what its tool needs, and was checked by it.
Bound ==
  /\ Busy => /\ call.tool = "confirm_freight_booking" =>
                  call.args.quote \in Quotes /\ st.prepared[call.args.quote] # "none"
             /\ call.tool = "write_tracking_outbox" => st.quote # None
  /\ call.pc = "executed" =>
       /\ ~Refuses(call) /\ EffectOf(call) \subseteq effects

\* What an enforced policy lets through.
Permitted ==
  run.enforce /\ call.pc = "allowed" =>
    LET v == call.args.vehicle
        q == call.args.quote
    IN  /\ run.perishable /\ call.tool = "create_dispatch_plan" =>
             /\ v \in Vehicles /\ call.args.weight = Weight
             /\ VehicleData[v].refrigerated /\ VehicleData[v].capacity >= Weight
        /\ run.perishable /\ call.tool \in QuoteTools =>
             q \in Quotes /\ QuoteData[q].certified /\ QuoteData[q].lane
        /\ call.tool = "confirm_freight_booking" =>
             st.prepared[q] = "PREPARED" /\ st.committed + st.reserved <= run.threshold

\* The state records what the tools did; a confirmation only of the call in progress
\* may not be recorded yet.
Recorded ==
  /\ st.vehicle # None => st.vehicle \in Targets("create_dispatch_plan")
  /\ With({"PREPARED", "PENDING_APPROVAL", "CONFIRMED"}) \subseteq Targets("prepare_freight_booking")
  /\ With({"CONFIRMED"}) \subseteq Targets("confirm_freight_booking")
  /\ \A q \in Targets("confirm_freight_booking") :
       /\ q \in Targets("prepare_freight_booking")
       /\ \/ q \in With({"CONFIRMED"})
          \/ call.pc = "executed" /\ call.tool = "confirm_freight_booking" /\ call.args.quote = q
  /\ st.booked # None => st.booked \in With({"CONFIRMED"})
  /\ st.booked = None => With({"CONFIRMED"}) = {}
  /\ st.notified => Targets("write_tracking_outbox") # {}
  /\ Targets("write_tracking_outbox") # {} => role = 4

\* A pending approval is of the one escalated action, of an enforced run over its
\* threshold, and nothing is called after it.
Escalated ==
  /\ st.pending # None =>
       /\ run.enforce /\ role = 3 /\ call.pc \in {"idle", "ESCALATE"}
       /\ st.committed + st.reserved > run.threshold
       /\ call.pc = "idle" => IF Legacy THEN main # "agent" ELSE ctx.terminal \/ ctx.closed
  /\ With({"PENDING_APPROVAL"}) = {st.pending} \ {None}
  /\ call.pc = "ESCALATE" => st.pending # None /\ call.tool = "confirm_freight_booking"

\* The spend counters are what the actions say.
Spent ==
  /\ st.committed = run.prior + TotalAmount(With({"CONFIRMED"}))
  /\ st.reserved = TotalAmount(With({"PREPARED", "PENDING_APPROVAL"}))

IInv ==
  /\ Typed /\ Placed /\ Counted /\ Staged /\ Scripted /\ Bound /\ Permitted
  /\ Recorded /\ Escalated /\ Spent
  /\ CommitWithinThreshold /\ ColdChainKept

-----------------------------------------------------------------------------
(* What a verdict tells about the call.                                     *)

\* A plan the policy allows has its fact's weight, and with perishable cargo a
\* refrigerated vehicle that carries it.
LEMMA PlanAllowed ==
  ASSUME NEW r, PolicyOutcome(PythonEvaluate(r)) = "ALLOW", r.action = "create_dispatch_plan"
  PROVE  /\ r.weight = r.fact.weight
         /\ r.perishable => /\ r.resource.known /\ r.resource.refrigerated
                            /\ ~(r.resource.capacity < r.fact.weight)
<1>1. \A id \in PyProvenance(r) \cup PyColdChain(r) : Outcome(id) = "ALLOW"
  <2>1. \A id \in PythonEvaluate(r) : Outcome(id) = "ALLOW"
    BY DEF PolicyOutcome, Outcome
  <2> QED
    BY <2>1 DEF PythonEvaluate
<1>2. r.weight = r.fact.weight
  BY <1>1 DEF PyProvenance, Outcome, AllowPolicies, GuidePolicies, EscalatePolicies
<1>3. ASSUME r.perishable
      PROVE  r.resource.known /\ r.resource.refrigerated /\ ~(r.resource.capacity < r.fact.weight)
  BY <1>1, <1>3 DEF PyColdChain, Outcome, AllowPolicies, GuidePolicies, EscalatePolicies
<1> QED
  BY <1>2, <1>3

\* A quote the policy allows for perishable cargo is of a certified carrier of the
\* lane.
LEMMA QuoteAllowed ==
  ASSUME NEW r, PolicyOutcome(PythonEvaluate(r)) = "ALLOW", r.action \in QuoteTools, r.perishable
  PROVE  r.resource.known /\ r.resource.certified /\ r.resource.lane
<1>1. \A id \in PyColdChain(r) : Outcome(id) = "ALLOW"
  <2>1. \A id \in PythonEvaluate(r) : Outcome(id) = "ALLOW"
    BY DEF PolicyOutcome, Outcome
  <2> QED
    BY <2>1 DEF PythonEvaluate
<1> QED
  BY <1>1 DEF PyColdChain, QuoteTools, Outcome, AllowPolicies, GuidePolicies, EscalatePolicies

\* A confirmation the policy allows without an approval is of a prepared action that
\* fits under the threshold.
LEMMA ConfirmAllowed ==
  ASSUME NEW r, PolicyOutcome(PythonEvaluate(r)) = "ALLOW",
         r.action = "confirm_freight_booking", r.prepared # "none",
         r.approval.status \notin {"APPROVED", "EXPIRED", "REJECTED"}
  PROVE  r.prepared \notin {"PENDING_APPROVAL", "CONFIRMED"} /\ Projected(r) <= r.threshold
<1>1. \A id \in PyBudget(r) \cup PySeparation(r) : Outcome(id) = "ALLOW"
  <2>1. \A id \in PythonEvaluate(r) : Outcome(id) = "ALLOW"
    BY DEF PolicyOutcome, Outcome
  <2> QED
    BY <2>1 DEF PythonEvaluate
<1>2. r.prepared \notin {"PENDING_APPROVAL", "CONFIRMED"}
  BY <1>1 DEF PySeparation, PyConfirmDuties, QuoteTools, CommitmentTools, Outcome, AllowPolicies,
             GuidePolicies, EscalatePolicies
<1>3. Projected(r) <= r.threshold
  BY <1>1 DEF PyBudget, Outcome, AllowPolicies, GuidePolicies, EscalatePolicies
<1> QED
  BY <1>2, <1>3

\* What the policy escalates is the confirmation of a prepared action that takes the
\* spend over the threshold.
LEMMA OnlySpendEscalates ==
  ASSUME NEW r, PolicyOutcome(PythonEvaluate(r)) = "ESCALATE"
  PROVE  /\ r.action = "confirm_freight_booking" /\ r.prepared # "none"
         /\ r.prepared \notin {"PENDING_APPROVAL", "CONFIRMED"} /\ ~(Projected(r) <= r.threshold)
<1>1. /\ \E id \in PythonEvaluate(r) : Outcome(id) = "ESCALATE"
      /\ \A id \in PythonEvaluate(r) : Outcome(id) # "BLOCK"
  BY DEF PolicyOutcome
<1>2. "SPEND-003" \in PythonEvaluate(r)
  BY <1>1 DEF Outcome, EscalatePolicies
<1>3. "SPEND-003" \in PyBudget(r)
  BY <1>2 DEF PythonEvaluate, PyOwnership, PyProvenance, PyColdChain, PySeparation, PyCancelDuties,
             PyConfirmDuties, PyPii
<1>4. r.action = "confirm_freight_booking" /\ r.prepared # "none" /\ ~(Projected(r) <= r.threshold)
  BY <1>3 DEF PyBudget, PyApprovedSpend
<1>5. \A id \in PySeparation(r) : Outcome(id) # "BLOCK"
  BY <1>1 DEF PythonEvaluate
<1>6. r.prepared \notin {"PENDING_APPROVAL", "CONFIRMED"}
  BY <1>4, <1>5 DEF PySeparation, PyConfirmDuties, QuoteTools, CommitmentTools, Outcome, AllowPolicies,
             GuidePolicies, EscalatePolicies
<1> QED
  BY <1>4, <1>6

\* A verdict is a set of policy ids.
LEMMA VerdictOfIds == {"ENGINE-FAIL"} \subseteq PolicyIds /\ \A r : PythonEvaluate(r) \subseteq PolicyIds
<1> SUFFICES ASSUME NEW r PROVE {"ENGINE-FAIL"} \subseteq PolicyIds /\ PythonEvaluate(r) \subseteq PolicyIds
  OBVIOUS
<1>1. {"ENGINE-FAIL", "OWN-001", "OWN-002", "OWN-003", "OWN-004"} \subseteq PolicyIds
  BY DEF PolicyIds, PolicyOrder
<1>2. {"PROV-001", "PROV-002", "PROV-003", "PROV-004"} \subseteq PolicyIds
  BY DEF PolicyIds, PolicyOrder
<1>3. {"COLD-001", "COLD-002", "COLD-003", "COLD-004"} \subseteq PolicyIds
  BY DEF PolicyIds, PolicyOrder
<1>4. {"SPEND-001", "SPEND-002", "SPEND-003", "SPEND-004", "SPEND-005", "SPEND-006"} \subseteq PolicyIds
  BY DEF PolicyIds, PolicyOrder
<1>5. {"SPEND-007", "SPEND-008", "SPEND-009", "SPEND-010", "SPEND-011"} \subseteq PolicyIds
  BY DEF PolicyIds, PolicyOrder
<1>6. {"SOD-000", "SOD-001", "SOD-002", "SOD-003", "SOD-004"} \subseteq PolicyIds
  BY DEF PolicyIds, PolicyOrder
<1>7. {"SOD-005", "SOD-006", "SOD-007", "SOD-008"} \subseteq PolicyIds
  BY DEF PolicyIds, PolicyOrder
<1>8. {"PII-001", "PII-002", "PII-003", "PII-004"} \subseteq PolicyIds
  BY DEF PolicyIds, PolicyOrder
<1>9. /\ PyOwnership(r) \subseteq PolicyIds /\ PyProvenance(r) \subseteq PolicyIds
      /\ PyColdChain(r) \subseteq PolicyIds
  BY <1>1, <1>2, <1>3 DEF PyOwnership, PyProvenance, PyColdChain
<1>10. PyBudget(r) \subseteq PolicyIds
  BY <1>4, <1>5 DEF PyBudget, PyApprovedSpend
<1>11. PySeparation(r) \subseteq PolicyIds
  BY <1>6, <1>7 DEF PySeparation, PyCancelDuties, PyConfirmDuties
<1>12. PyPii(r) \subseteq PolicyIds
  BY <1>8 DEF PyPii
<1> QED
  BY <1>1, <1>9, <1>10, <1>11, <1>12 DEF PythonEvaluate

-----------------------------------------------------------------------------
(* Initial states.                                                          *)

\* A run as it is started.
Fresh ==
  /\ run \in RunRecord
  /\ main = "loop" /\ role = 0 /\ step = "none"
  /\ ctx = [NewInvocation EXCEPT !.working = FALSE] /\ call = NoCall
  /\ st = NewTrajectory(run) /\ effects = {}

LEMMA InitFresh == Init => Fresh
  BY RunAssumption DEF Init, Fresh

\* Every run starts in the invariant.
LEMMA FreshInv == Fresh => IInv
<1> SUFFICES ASSUME Fresh PROVE IInv
  OBVIOUS
<1>1. /\ run \in RunRecord /\ run.prior \in Nat /\ run.threshold \in Nat
      /\ main = "loop" /\ role = 0 /\ step = "none" /\ effects = {}
      /\ ctx = [turns |-> 0, terminal |-> FALSE, blocked |-> FALSE, closed |-> FALSE,
                working |-> FALSE, history |-> <<>>]
      /\ call = NoCall /\ st = NewTrajectory(run)
  BY RunAssumption DEF Fresh, RunRecord, NewInvocation
<1>2. NoArguments \in Arguments
  BY RunAssumption DEF NoArguments, Arguments, None
<1>3. call \in CallRecord /\ call.pc = "idle"
  BY <1>1, <1>2 DEF NoCall, CallRecord, Pcs
<1>4. ctx \in Invocation
  BY <1>1, RunAssumption DEF Invocation
<1>5. st \in TrajectoryState
  BY <1>1, RunAssumption DEF NewTrajectory, TrajectoryState, None, GuidedTools, QuoteTools
<1>6. /\ st.status = "RUNNING" /\ st.vehicle = None /\ st.quote = None /\ st.pending = None
      /\ st.booked = None /\ ~st.notified /\ st.calls = 0 /\ st.confirms = 0 /\ st.notices = 0
      /\ st.committed = run.prior /\ st.reserved = 0
      /\ \A q \in Quotes : st.prepared[q] = "none"
      /\ \A t \in GuidedTools : st.attempts[t] = 0
  BY <1>1 DEF NewTrajectory
<1>7. \A t : Targets(t) = {}
  BY <1>1 DEF Targets
<1>8. /\ With({"CONFIRMED"}) = {} /\ With({"PENDING_APPROVAL"}) = {}
      /\ With({"PREPARED", "PENDING_APPROVAL"}) = {}
      /\ With({"PREPARED", "PENDING_APPROVAL", "CONFIRMED"}) = {}
  BY <1>6 DEF With
<1>9. Typed
  BY <1>1, <1>3, <1>4, <1>5 DEF Typed, TypeOK, Steps, RoleOrder, CallRecord, Pcs
<1>10. Placed
  BY <1>1, <1>3, <1>6 DEF Placed, Legacy
<1>11. Counted
  BY <1>3, <1>6 DEF Counted
<1>12. Staged /\ Scripted /\ Bound /\ Permitted
  BY <1>1, <1>3, <1>6 DEF Staged, Scripted, Bound, Permitted, Busy
<1>13. Recorded
  BY <1>6, <1>7, <1>8 DEF Recorded
<1>14. Escalated
  BY <1>3, <1>6, <1>8 DEF Escalated
<1>15. Spent
  <2>1. TotalAmount({}) = 0
    BY Totals
  <2>2. TotalAmount(With({"CONFIRMED"})) = 0 /\ TotalAmount(With({"PREPARED", "PENDING_APPROVAL"})) = 0
    BY <1>8, <2>1
  <2>3. run.prior = run.prior + 0
    BY <1>1
  <2> QED
    BY <1>6, <2>2, <2>3 DEF Spent
<1>16. CommitWithinThreshold /\ ColdChainKept
  BY <1>1, <1>7 DEF CommitWithinThreshold, ColdChainKept
<1> QED
  BY <1>9, <1>10, <1>11, <1>12, <1>13, <1>14, <1>15, <1>16 DEF IInv

LEMMA InitInv == Init => IInv
  BY InitFresh, FreshInv

-----------------------------------------------------------------------------
(* The orchestrator's steps and the end of an invocation.                   *)

\* What depends only on the state, the effects and the call is kept by a step that
\* leaves them alone, the role too.
LEMMA KeepData ==
  ASSUME IInv, UNCHANGED <<run, role, call, effects>>, st' \in TrajectoryState,
         \E status : st' = [st EXCEPT !.status = status]
  PROVE  /\ Counted' /\ Bound' /\ Permitted' /\ Recorded' /\ Spent'
         /\ CommitWithinThreshold' /\ ColdChainKept'
         /\ \A S : With(S)' = With(S)
         /\ \A r : RoleDone(r)' = RoleDone(r)
<1>1. PICK status : st' = [st EXCEPT !.status = status]
  OBVIOUS
<1>2. st \in TrajectoryState
  BY DEF IInv, Typed, TypeOK
<1>3. /\ st'.order = st.order /\ st'.fact = st.fact /\ st'.vehicle = st.vehicle /\ st'.quote = st.quote
      /\ st'.prepared = st.prepared /\ st'.committed = st.committed /\ st'.reserved = st.reserved
      /\ st'.pending = st.pending /\ st'.booked = st.booked /\ st'.notified = st.notified
      /\ st'.calls = st.calls /\ st'.attempts = st.attempts /\ st'.confirms = st.confirms
      /\ st'.notices = st.notices
  BY <1>1, <1>2 DEF TrajectoryState
<1>4. \A S : With(S)' = With(S)
  BY <1>3 DEF With
<1>5. \A t : Targets(t)' = Targets(t)
  BY DEF Targets
<1>6. \A r : RoleDone(r)' = RoleDone(r)
  BY <1>3 DEF RoleDone
<1>7. Counted'
  BY <1>3 DEF IInv, Counted
<1>8. Bound' /\ Permitted'
  BY <1>3 DEF IInv, Bound, Permitted, Busy, Refuses, EffectOf
<1>9. Recorded' /\ Spent'
  BY <1>3, <1>4, <1>5 DEF IInv, Recorded, Spent
<1>10. CommitWithinThreshold' /\ ColdChainKept'
  BY <1>5 DEF IInv, CommitWithinThreshold, ColdChainKept
<1> QED
  BY <1>4, <1>6, <1>7, <1>8, <1>9, <1>10

\* AGENT_STARTED: the roles before the new one are done.
LEMMA StartAgentInv == ASSUME IInv, StartAgent PROVE IInv'
<1>1. /\ main = "loop" /\ st.pending = None /\ role \in 0..3 /\ role' = role + 1
      /\ main' \in {"agent", "failed"} /\ UNCHANGED <<run, call, st, effects>>
      /\ call.pc = "idle" /\ ~ctx.working
  BY DEF StartAgent, IInv, Typed, TypeOK, Placed, Abandoned, RoleOrder, CallRecord
<1>2. /\ st \in TrajectoryState /\ call \in CallRecord /\ run \in RunRecord /\ effects \subseteq Effects
      /\ call.args \in Arguments /\ call.pc \in Pcs
  BY DEF IInv, Typed, TypeOK, CallRecord
<1>3. role = 0 \/ role = 1 \/ role = 2 \/ role = 3
  BY <1>1
<1>4. step' \in Steps /\ (~Legacy => step' = "none") /\ (Legacy => step' = FirstStep[role + 1])
  BY <1>3 DEF StartAgent, Steps, FirstStep, Legacy, Tools, InventoryTools, DispatchTools, CarrierTools,
             CommunicationsTools
<1>5. /\ ctx' = [turns |-> 0, terminal |-> FALSE, blocked |-> FALSE, closed |-> FALSE,
                 working |-> ~Legacy, history |-> <<>>]
      /\ Legacy' = Legacy
  BY <1>1 DEF StartAgent, NewInvocation, Legacy, Runtime
<1>6. Typed'
  <2>1. ctx' \in Invocation
    BY <1>5, RunAssumption DEF Invocation
  <2> QED
    BY <1>1, <1>2, <1>3, <1>4, <2>1 DEF Typed, TypeOK, RoleOrder, Pcs
<1>7. Legacy /\ main' = "agent" => RoleReady(role + 1)
  BY DEF StartAgent, Legacy
<1>8. Placed'
  <2>1. (main' # "loop" => role' > 0) /\ main' # "done" /\ main # "done"
    BY <1>1, <1>3
  <2>2. st'.status = "RUNNING"
    BY <1>1 DEF IInv, Placed
  <2>3. ~Legacy => call = NoCall
    BY <1>1 DEF IInv, Placed
  <2>4. ctx'.working => main' = "agent"
    BY <1>5 DEF StartAgent, Legacy
  <2> QED
    BY <1>1, <1>4, <1>5, <2>1, <2>2, <2>3, <2>4 DEF Placed
<1>9. /\ \A S : With(S)' = With(S)
      /\ \A t : Targets(t)' = Targets(t)
      /\ \A r : RoleDone(r)' = RoleDone(r)
  BY <1>1 DEF With, Targets, RoleDone
<1>10. Counted' /\ Bound' /\ Permitted' /\ Spent'
  BY <1>1, <1>9 DEF IInv, Counted, Bound, Permitted, Spent, Busy
<1>11. CommitWithinThreshold' /\ ColdChainKept'
  BY <1>1, <1>9 DEF IInv, CommitWithinThreshold, ColdChainKept
<1>12. Staged'
  <2>1. \A r \in 1..4 : r < role + 1 => r < role \/ (r = role /\ role > 0)
    BY <1>3
  <2>2. \A r \in 1..4 : r < role' => RoleDone(r)'
    BY <1>1, <1>9, <2>1 DEF IInv, Staged
  <2>3. st'.status = "RUNNING"
    BY <1>1 DEF IInv, Placed
  <2> QED
    BY <1>1, <2>2, <2>3 DEF Staged
<1>13. Recorded'
  <2>1. Targets("write_tracking_outbox") = {}
    BY <1>3 DEF IInv, Recorded
  <2> QED
    BY <1>1, <1>9, <2>1 DEF IInv, Recorded
<1>14. Escalated'
  BY <1>1, <1>9 DEF IInv, Escalated, Busy
<1>15. Scripted'
  <2> SUFFICES ASSUME Legacy', main' = "agent" PROVE Scripted'
    BY DEF Scripted
  <2>1. step' = FirstStep[role + 1]
    BY <1>4, <1>5
  <2>2. call' = call /\ call.pc = "idle" /\ role' = role + 1
    BY <1>1
  <2> QED
    BY <1>3, <2>1, <2>2 DEF Scripted, FirstStep, ScriptSteps
<1> QED
  BY <1>6, <1>8, <1>10, <1>11, <1>12, <1>13, <1>14, <1>15 DEF IInv

\* The other steps of the orchestrator's loop, and the end of an invocation: only the
\* orchestrator's place, the status and the context's flags change.
LEMMA TurnOver ==
  ASSUME IInv, UNCHANGED <<run, role, step, call, effects>>,
         main' \in {"loop", "agent", "returned", "blocked", "failed", "done"}, ctx' \in Invocation,
         NEW status \in {"RUNNING", "COMPLETED", "BLOCKED", "PENDING_APPROVAL", "FAILED"},
         st' = [st EXCEPT !.status = status],
         Placed', Staged', main' # "agent",
         ctx' = ctx \/ ctx'.closed
  PROVE  IInv'
<1>1. st \in TrajectoryState
  BY DEF IInv, Typed, TypeOK
<1>2. /\ st' \in TrajectoryState
      /\ st'.prepared = st.prepared /\ st'.committed = st.committed /\ st'.reserved = st.reserved
      /\ st'.pending = st.pending
  BY <1>1 DEF TrajectoryState
<1>3. Typed'
  BY <1>2 DEF IInv, Typed, TypeOK, CallRecord
<1>4. /\ Counted' /\ Bound' /\ Permitted' /\ Recorded' /\ Spent'
      /\ CommitWithinThreshold' /\ ColdChainKept'
      /\ \A S : With(S)' = With(S)
  BY <1>2, KeepData
<1>5. Scripted'
  BY DEF Scripted
<1>6. Escalated'
  <2>1. Legacy' = Legacy /\ Busy' = Busy
    BY DEF Legacy, Runtime, Busy
  <2>2. st'.pending # None /\ call'.pc = "idle" => IF Legacy' THEN main' # "agent" ELSE ctx'.terminal \/ ctx'.closed
    BY <1>2, <2>1 DEF IInv, Escalated
  <2> QED
    BY <1>2, <1>4, <2>1, <2>2 DEF IInv, Escalated
<1> QED
  BY <1>3, <1>4, <1>5, <1>6 DEF IInv

\* AGENT_COMPLETED or AGENT_PAUSED.
LEMMA AgentReturnedInv == ASSUME IInv, AgentReturned PROVE IInv'
<1>1. /\ main = "returned" /\ main' = "loop" /\ UNCHANGED <<run, role, step, ctx, call, st, effects>>
  BY DEF AgentReturned
<1>2. /\ ctx \in Invocation /\ st \in TrajectoryState
      /\ st.status \in {"RUNNING", "COMPLETED", "BLOCKED", "PENDING_APPROVAL", "FAILED"}
  BY DEF IInv, Typed, TypeOK, TrajectoryState
<1>3. st' = [st EXCEPT !.status = st.status]
  BY <1>1, <1>2 DEF TrajectoryState
<1>4. Placed'
  BY <1>1 DEF IInv, Placed, Legacy, Runtime, Abandoned, AllowedTools
<1>5. Staged'
  <2>1. \A r : RoleDone(r)' = RoleDone(r)
    BY <1>1 DEF RoleDone
  <2> QED
    BY <1>1, <2>1 DEF IInv, Staged
<1> QED
  BY <1>1, <1>2, <1>3, <1>4, <1>5, TurnOver

\* RUN_PAUSED or RUN_COMPLETED.
LEMMA EndRunInv == ASSUME IInv, EndRun PROVE IInv'
<1> DEFINE status == IF st.pending # None THEN "PENDING_APPROVAL" ELSE "COMPLETED"
<1>1. /\ main = "loop" /\ main' = "done" /\ UNCHANGED <<run, role, step, ctx, call, effects>>
      /\ st.pending # None \/ role = 4
      /\ st' = [st EXCEPT !.status = status]
  BY DEF EndRun, RoleOrder
<1>2. ctx \in Invocation /\ st \in TrajectoryState /\ role \in 0..4
  BY DEF IInv, Typed, TypeOK, RoleOrder
<1>3. /\ st'.status = status /\ st'.pending = st.pending /\ st'.order = st.order /\ st'.fact = st.fact
      /\ st'.vehicle = st.vehicle /\ st'.quote = st.quote /\ st'.booked = st.booked
      /\ st'.notified = st.notified
  BY <1>1, <1>2 DEF TrajectoryState
<1>4. status \in {"COMPLETED", "PENDING_APPROVAL"}
  OBVIOUS
<1>5. role > 0
  <2>1. role = 3 \/ role = 4
    BY <1>1 DEF IInv, Escalated
  <2> QED
    BY <2>1
<1>6. Placed'
  <2>1. call.pc = "idle" /\ ~ctx.working
    BY <1>1 DEF IInv, Placed, Abandoned
  <2> QED
    BY <1>1, <1>3, <1>4, <1>5, <2>1 DEF IInv, Placed, Legacy, Runtime
<1>7. Staged'
  <2>1. \A r : RoleDone(r)' = RoleDone(r)
    BY <1>3 DEF RoleDone
  <2>2. RoleDone(role)
    BY <1>1, <1>5 DEF IInv, Staged
  <2>3. status = "COMPLETED" => role = 4 /\ st.pending = None
    BY <1>1
  <2> QED
    BY <1>1, <1>3, <2>1, <2>2, <2>3 DEF IInv, Staged
<1> HIDE DEF status
<1> QED
  BY <1>1, <1>2, <1>4, <1>6, <1>7, TurnOver

\* RUN_FAILED.
LEMMA RunRaisesInv == ASSUME IInv, RunRaises PROVE IInv'
<1> DEFINE status == IF main = "blocked" THEN "BLOCKED" ELSE "FAILED"
<1>1. /\ main \in {"blocked", "failed"} /\ main' = "done"
      /\ UNCHANGED <<run, role, step, ctx, call, effects>>
      /\ st' = [st EXCEPT !.status = status]
  BY DEF RunRaises
<1>2. ctx \in Invocation /\ st \in TrajectoryState
  BY DEF IInv, Typed, TypeOK
<1>3. /\ st'.status = status /\ st'.pending = st.pending /\ st'.order = st.order /\ st'.fact = st.fact
      /\ st'.vehicle = st.vehicle /\ st'.quote = st.quote /\ st'.booked = st.booked
      /\ st'.notified = st.notified
  BY <1>1, <1>2 DEF TrajectoryState
<1>4. status \in {"BLOCKED", "FAILED"} /\ (main = "failed" => status = "FAILED")
  BY <1>1
<1>5. st.status = "RUNNING"
  BY <1>1 DEF IInv, Placed
<1> HIDE DEF status
<1>6. Placed'
  <2>1. Legacy' = Legacy /\ AllowedTools' = AllowedTools
    BY <1>1 DEF Legacy, Runtime, AllowedTools
  <2>2. Abandoned => Abandoned'
    BY <1>1, <1>3, <1>4, <1>5, <2>1 DEF Abandoned
  <2> QED
    BY <1>1, <1>3, <1>4, <2>1, <2>2 DEF IInv, Placed
<1>7. Staged'
  <2>1. \A r : RoleDone(r)' = RoleDone(r)
    BY <1>3 DEF RoleDone
  <2> QED
    BY <1>1, <1>3, <1>4, <2>1 DEF IInv, Staged
<1> QED
  BY <1>1, <1>2, <1>4, <1>6, <1>7, TurnOver

\* The timeout: the call in progress, if any, goes on behind a closed context.
LEMMA TimeoutInv == ASSUME IInv, Timeout PROVE IInv'
<1>1. /\ ~Legacy /\ main = "agent" /\ main' = "failed" /\ ctx' = [ctx EXCEPT !.closed = TRUE]
      /\ UNCHANGED <<run, role, step, call, st, effects>>
  BY DEF Timeout, Legacy
<1>2. ctx \in Invocation /\ st \in TrajectoryState /\ st.status = "RUNNING"
  BY <1>1 DEF IInv, Typed, TypeOK, Placed
<1>3. ctx' \in Invocation /\ ctx'.closed /\ ctx'.working = ctx.working
  BY <1>1, <1>2 DEF Invocation
<1>4. st' = [st EXCEPT !.status = "RUNNING"]
  BY <1>1, <1>2 DEF TrajectoryState
<1>5. Legacy' = Legacy /\ AllowedTools' = AllowedTools
  BY <1>1 DEF Legacy, Runtime, AllowedTools
<1>6. Placed'
  <2>1. Abandoned'
    BY <1>1, <1>3, <1>5 DEF Abandoned
  <2> QED
    BY <1>1, <1>2, <1>5, <2>1 DEF IInv, Placed
<1>7. Staged'
  <2>1. \A r : RoleDone(r)' = RoleDone(r)
    BY <1>1 DEF RoleDone
  <2> QED
    BY <1>1, <1>2, <2>1 DEF IInv, Staged
<1> QED
  BY <1>1, <1>3, <1>4, <1>6, <1>7, TurnOver

\* The model's turn ends or its provider fails; only a complete role returns.
LEMMA InvocationOver ==
  ASSUME IInv, ~Legacy, main = "agent", call.pc = "idle",
         main' \in {"returned", "blocked", "failed"}, main' = "returned" => RoleComplete,
         ctx' = [ctx EXCEPT !.closed = TRUE, !.working = FALSE],
         UNCHANGED <<run, role, step, call, st, effects>>
  PROVE  IInv'
<1>1. ctx \in Invocation /\ st \in TrajectoryState /\ st.status = "RUNNING" /\ role \in 0..4 /\ role > 0
  BY DEF IInv, Typed, TypeOK, Placed, RoleOrder
<1>2. ctx' \in Invocation /\ ctx'.closed /\ ~ctx'.working
  BY <1>1 DEF Invocation
<1>3. st' = [st EXCEPT !.status = "RUNNING"]
  BY <1>1 DEF TrajectoryState
<1>4. Legacy' = Legacy
  BY DEF Legacy, Runtime
<1>5. Placed'
  BY <1>1, <1>2, <1>4 DEF IInv, Placed
<1>6. Staged'
  <2>1. \A r : RoleDone(r)' = RoleDone(r)
    BY DEF RoleDone
  <2>2. role = 1 \/ role = 2 \/ role = 3 \/ role = 4
    BY <1>1
  <2>3. RoleComplete => RoleDone(role)
    BY <2>2 DEF RoleComplete, RoleDone, RoleOrder
  <2> QED
    BY <1>1, <2>1, <2>3 DEF IInv, Staged
<1> QED
  BY <1>2, <1>3, <1>5, <1>6, TurnOver

\* invoke after the model's result.
LEMMA ModelReturnsInv == ASSUME IInv, ModelReturns PROVE IInv'
<1>1. /\ ~Legacy /\ main = "agent" /\ call.pc = "idle"
      /\ main' \in {"returned", "blocked", "failed"} /\ (main' = "returned" => RoleComplete)
      /\ ctx' = [ctx EXCEPT !.closed = TRUE, !.working = FALSE]
      /\ UNCHANGED <<run, role, step, call, st, effects>>
  BY DEF ModelReturns, Legacy
<1> QED
  BY <1>1, InvocationOver

\* invoke when the provider raises.
LEMMA ProviderFailsInv == ASSUME IInv, ProviderFails PROVE IInv'
<1>1. /\ ~Legacy /\ main = "agent" /\ call.pc = "idle" /\ main' = "failed"
      /\ ctx' = [ctx EXCEPT !.closed = TRUE, !.working = FALSE]
      /\ UNCHANGED <<run, role, step, call, st, effects>>
  BY DEF ProviderFails, Legacy
<1> QED
  BY <1>1, InvocationOver

-----------------------------------------------------------------------------
(* The calls an agent or a model makes.                                     *)

\* The least id of a set is one of it.
LEMMA MinOf == ASSUME NEW S, S \subseteq Nat, S # {} PROVE Min(S) \in S
  BY LeastOf DEF Min

\* The cheapest quote exists if there is a candidate.
LEMMA CheapestIsCandidate == ASSUME QuoteCandidates # {} PROVE CheapestQuote \in QuoteCandidates
<1> DEFINE amounts == {Amount(q) : q \in QuoteCandidates}
<1>1. QuoteCandidates \subseteq Quotes /\ Quotes \subseteq Nat
  BY RunAssumption DEF QuoteCandidates
<1>2. amounts \subseteq Nat /\ amounts # {}
  <2>1. \A q \in QuoteCandidates : Amount(q) \in Nat
    BY <1>1, Quoted
  <2>2. PICK q : q \in QuoteCandidates
    OBVIOUS
  <2> QED
    BY <2>1, <2>2
<1>3. PICK a \in amounts : \A b \in amounts : a <= b
  BY <1>2, LeastOf
<1> DEFINE best == {q \in QuoteCandidates : Amount(q) = a}
<1>4. best \subseteq Nat /\ best # {}
  BY <1>1
<1>5. PICK q \in best : \A o \in best : q <= o
  BY <1>4, LeastOf
<1>6. ASSUME NEW o \in QuoteCandidates
      PROVE  Amount(q) < Amount(o) \/ (Amount(q) = Amount(o) /\ q <= o)
  <2>1. Amount(o) \in Nat /\ Amount(q) = a /\ a \in Nat /\ a <= Amount(o)
    BY <1>1, <1>2, <1>3, Quoted
  <2>2. CASE Amount(o) = a
    BY <1>5, <2>1, <2>2
  <2>3. CASE Amount(o) # a
    BY <2>1, <2>3
  <2> QED
    BY <2>2, <2>3
<1>7. \E c \in QuoteCandidates :
        \A o \in QuoteCandidates : Amount(c) < Amount(o) \/ (Amount(c) = Amount(o) /\ c <= o)
  BY <1>6
<1> QED
  BY <1>7 DEF CheapestQuote

\* A call begins: its tool is one of the role, and it is bound to what it needs.
LEMMA CallBegins ==
  ASSUME IInv, call.pc = "idle", main = "agent", st.pending = None,
         call' \in CallRecord, call'.pc = "bound", call'.tool \in AllowedTools,
         ctx' \in Invocation, ctx'.working = ctx.working, ctx'.closed = ctx.closed,
         Scripted', Bound',
         UNCHANGED <<run, main, role, step, st, effects>>
  PROVE  IInv'
<1>1. /\ \A S : With(S)' = With(S)
      /\ \A t : Targets(t)' = Targets(t)
      /\ \A r : RoleDone(r)' = RoleDone(r)
      /\ Legacy' = Legacy /\ AllowedTools' = AllowedTools
  BY DEF With, Targets, RoleDone, Legacy, Runtime, AllowedTools
<1>2. Typed'
  BY DEF IInv, Typed, TypeOK, CallRecord, Pcs
<1>3. Placed'
  <2>1. role > 0
    BY DEF IInv, Placed
  <2> QED
    BY <1>1, <2>1 DEF IInv, Placed
<1>4. Counted' /\ Permitted' /\ Spent'
  BY <1>1 DEF IInv, Counted, Permitted, Spent
<1>5. Staged' /\ CommitWithinThreshold' /\ ColdChainKept'
  BY <1>1 DEF IInv, Staged, CommitWithinThreshold, ColdChainKept
<1>6. Recorded'
  BY <1>1 DEF IInv, Recorded
<1>7. Escalated'
  BY <1>1 DEF IInv, Escalated
<1> QED
  BY <1>2, <1>3, <1>4, <1>5, <1>6, <1>7 DEF IInv

\* A deterministic agent calls the tool of its step, which is one of its role, with
\* arguments of the fixtures' ids.
LEMMA ScriptedCall ==
  ASSUME IInv, Legacy, main = "agent", call.pc = "idle"
  PROVE  /\ ScriptTool \in AllowedTools /\ ScriptArguments \in Arguments
         /\ step \in {"prepare_freight_booking", "confirm_freight_booking"} =>
              ScriptArguments.quote = st.quote
<1>1. /\ step \in ScriptSteps[role] /\ role \in 0..4 /\ role > 0
      /\ st.quote \in Quotes \cup {None} /\ run \in RunRecord
      /\ step = "replan" => VehicleCandidates(call.verdict) # {}
      /\ step = "reselect" => QuoteCandidates # {}
  BY DEF IInv, Typed, TypeOK, Placed, Scripted, RoleOrder, TrajectoryState
<1>2. role = 1 \/ role = 2 \/ role = 3 \/ role = 4
  BY <1>1
<1>3. ScriptTool \in AllowedTools
  BY <1>1, <1>2 DEF ScriptTool, AllowedTools, ScriptSteps, RoleOrder, Owner, Tools, InventoryTools,
                    DispatchTools, CarrierTools, CommunicationsTools
<1>4. run.vehicle \in Vehicles /\ run.weight \in Weights /\ run.quote \in Quotes
  BY <1>1 DEF RunRecord
<1>5. step = "replan" => Min(VehicleCandidates(call.verdict)) \in Vehicles
  <2>1. VehicleCandidates(call.verdict) \subseteq Vehicles /\ Vehicles \subseteq Nat
    BY RunAssumption DEF VehicleCandidates
  <2> QED
    BY <1>1, <2>1, MinOf
<1>6. step = "reselect" => CheapestQuote \in Quotes
  BY <1>1, CheapestIsCandidate DEF QuoteCandidates
<1>7. NoArguments \in Arguments
  BY RunAssumption DEF NoArguments, Arguments, None
<1>8. /\ \A v \in Vehicles : [NoArguments EXCEPT !.vehicle = v] \in Arguments
      /\ \A v \in Vehicles, w \in Weights : [NoArguments EXCEPT !.vehicle = v, !.weight = w] \in Arguments
      /\ \A q \in Quotes \cup {None} : /\ [NoArguments EXCEPT !.quote = q] \in Arguments
                                       /\ [NoArguments EXCEPT !.quote = q].quote = q
  BY <1>7 DEF Arguments
<1>9. ScriptArguments \in Arguments
  BY <1>1, <1>4, <1>5, <1>6, <1>7, <1>8 DEF ScriptArguments
<1>10. step \in {"prepare_freight_booking", "confirm_freight_booking"} =>
         ScriptArguments = [NoArguments EXCEPT !.quote = st.quote]
  BY DEF ScriptArguments
<1> QED
  BY <1>1, <1>3, <1>8, <1>9, <1>10

\* The agent's call.
LEMMA AgentCallsInv == ASSUME IInv, AgentCalls PROVE IInv'
<1>1. /\ Legacy /\ main = "agent" /\ call.pc = "idle"
      /\ call' = [pc |-> "bound", tool |-> ScriptTool, args |-> ScriptArguments, verdict |-> {}]
      /\ UNCHANGED <<run, main, role, step, ctx, st, effects>>
  BY DEF AgentCalls, Legacy
<1>2. /\ ScriptTool \in AllowedTools /\ ScriptArguments \in Arguments
      /\ step \in {"prepare_freight_booking", "confirm_freight_booking"} =>
           ScriptArguments.quote = st.quote
  BY <1>1, ScriptedCall
<1>3. /\ call' \in CallRecord /\ call'.pc = "bound" /\ call'.tool = ScriptTool
      /\ call'.args = ScriptArguments
  BY <1>1, <1>2 DEF CallRecord, Pcs, AllowedTools
<1>4. st.pending = None
  BY <1>1 DEF IInv, Escalated
<1>5. ctx \in Invocation /\ st.quote \in Quotes \cup {None} /\ role \in 0..4 /\ role > 0
  BY <1>1 DEF IInv, Typed, TypeOK, TrajectoryState, Placed, RoleOrder
<1>6. Scripted'
  <2>1. Legacy' = Legacy /\ ScriptTool' = ScriptTool /\ QuoteCandidates' = QuoteCandidates
    BY <1>1 DEF Legacy, Runtime, ScriptTool, QuoteCandidates
  <2> QED
    BY <1>1, <1>2, <1>3, <2>1 DEF IInv, Scripted
<1>7. Bound'
  <2>1. ScriptTool = "confirm_freight_booking" => step = "confirm_freight_booking"
    BY DEF ScriptTool
  <2>2. ScriptTool = "write_tracking_outbox" => step = "write_tracking_outbox"
    BY DEF ScriptTool
  <2>3. step = "confirm_freight_booking" => st.quote \in Quotes /\ st.prepared[st.quote] # "none"
    BY <1>1, <1>5 DEF IInv, Scripted
  <2>4. step = "write_tracking_outbox" => st.quote # None
    <3>1. role = 1 \/ role = 2 \/ role = 3 \/ role = 4
      BY <1>5
    <3>2. step = "write_tracking_outbox" => role = 4
      BY <1>1, <3>1 DEF IInv, Scripted, ScriptSteps
    <3>3. role = 4 => RoleDone(3)
      BY DEF IInv, Staged
    <3> QED
      BY <3>2, <3>3 DEF RoleDone
  <2>5. step = "confirm_freight_booking" => ScriptArguments.quote = st.quote
    BY <1>2
  <2> QED
    BY <1>1, <1>3, <2>1, <2>2, <2>3, <2>4, <2>5 DEF Bound
<1> QED
  BY <1>1, <1>2, <1>3, <1>4, <1>5, <1>6, <1>7, CallBegins

\* Whatever a model proposes, its arguments are ids of the fixtures or unknown, and
\* weights.
LEMMA ProposedArguments == ASSUME IInv, NEW p \in Proposals PROVE p.args \in Arguments
<1>1. st.quote \in Quotes \cup {None} /\ run \in RunRecord /\ NoArguments \in Arguments
  BY RunAssumption DEF IInv, Typed, TypeOK, TrajectoryState, NoArguments, Arguments, None
<1>2. run.vehicle \in Vehicles /\ run.weight \in Weights /\ run.quote \in Quotes /\ Weight \in Weights
  BY <1>1, RunAssumption DEF RunRecord
<1>3. /\ \A v \in Vehicles, w \in Weights : [NoArguments EXCEPT !.vehicle = v, !.weight = w] \in Arguments
      /\ \A q \in Quotes \cup {None} : [NoArguments EXCEPT !.quote = q] \in Arguments
  BY <1>1 DEF Arguments
<1>4. CASE Runtime # "recorded"
  <2>1. PICK tool \in AllowedTools : \E args \in ModelArguments(tool) : p = Proposes(tool, args)
    BY <1>4 DEF Proposals
  <2> QED
    BY <2>1 DEF Proposes, ModelArguments
<1>5. CASE Runtime = "recorded"
  <2>1. p = RecordedCall
    BY <1>5 DEF Proposals
  <2>2. Stops.args \in Arguments /\ Raises.args \in Arguments /\ \A t : Proposes(t, NoArguments).args \in Arguments
    BY <1>1 DEF Stops, Raises, Proposes
  <2>3. \A t, a : Proposes(t, a).args = a
    BY DEF Proposes
  <2>4. RecordedInventory.args \in Arguments /\ RecordedCommunications.args \in Arguments
    BY <2>2 DEF RecordedInventory, RecordedCommunications
  <2>5. RecordedDispatch.args \in Arguments
    <3>1. \A verdict : VehicleCandidates(verdict) # {} => Min(VehicleCandidates(verdict)) \in Vehicles
      <4> SUFFICES ASSUME NEW verdict, VehicleCandidates(verdict) # {}
                   PROVE  Min(VehicleCandidates(verdict)) \in Vehicles
        OBVIOUS
      <4>1. VehicleCandidates(verdict) \subseteq Vehicles /\ Vehicles \subseteq Nat
        BY RunAssumption DEF VehicleCandidates
      <4> QED
        BY <4>1, MinOf
    <3> DEFINE plans == Results("create_dispatch_plan")
               candidates == VehicleCandidates(plans[Len(plans)].verdict)
               first == [NoArguments EXCEPT !.vehicle = run.vehicle, !.weight = run.weight]
               next == [NoArguments EXCEPT !.vehicle = Min(candidates), !.weight = Weight]
    <3>2. \/ RecordedDispatch = Proposes("list_available_vehicles", NoArguments)
          \/ RecordedDispatch = Stops \/ RecordedDispatch = Raises
          \/ RecordedDispatch = Proposes("create_dispatch_plan", first)
          \/ candidates # {} /\ RecordedDispatch = Proposes("create_dispatch_plan", next)
      BY Zenon DEF RecordedDispatch
    <3>3. candidates # {} => Min(candidates) \in Vehicles
      BY <3>1
    <3> HIDE DEF candidates
    <3>4. first \in Arguments /\ (candidates # {} => next \in Arguments)
      BY <1>2, <1>3, <3>3, Zenon
    <3> HIDE DEF first, next
    <3> QED
      BY <2>2, <2>3, <3>2, <3>4
  <2>6. RecordedCarrier.args \in Arguments
    <3> DEFINE actions == {q \in Quotes : st.prepared[q] # "none"}
    <3>1. actions # {} => Min(actions) \in Quotes
      <4>1. actions \subseteq Quotes /\ Quotes \subseteq Nat
        BY RunAssumption
      <4> HIDE DEF actions
      <4> QED
        BY <4>1, MinOf
    <3>2. QuoteCandidates # {} => CheapestQuote \in Quotes
      BY CheapestIsCandidate DEF QuoteCandidates
    <3> DEFINE quote(q) == [NoArguments EXCEPT !.quote = q]
    <3>3. \/ RecordedCarrier = Proposes("list_carrier_quotes", NoArguments)
          \/ RecordedCarrier = Stops \/ RecordedCarrier = Raises
          \/ RecordedCarrier = Proposes("select_carrier_quote", quote(run.quote))
          \/ QuoteCandidates # {} /\ RecordedCarrier = Proposes("select_carrier_quote", quote(CheapestQuote))
          \/ RecordedCarrier = Proposes("prepare_freight_booking", quote(st.quote))
          \/ actions # {} /\ RecordedCarrier = Proposes("confirm_freight_booking", quote(Min(actions)))
      BY Zenon DEF RecordedCarrier
    <3> HIDE DEF actions
    <3>4. /\ quote(run.quote) \in Arguments /\ quote(st.quote) \in Arguments
          /\ QuoteCandidates # {} => quote(CheapestQuote) \in Arguments
          /\ actions # {} => quote(Min(actions)) \in Arguments
      BY <1>1, <1>2, <1>3, <3>1, <3>2, Zenon
    <3> HIDE DEF quote
    <3> QED
      BY <2>2, <2>3, <3>3, <3>4
  <2> QED
    BY <2>1, <2>2, <2>4, <2>5, <2>6 DEF RecordedCall
<1> QED
  BY <1>4, <1>5

\* A model's call, or one the context refuses.
LEMMA ModelCallsInv == ASSUME IInv, ModelCalls PROVE IInv'
<1>1. /\ ~Legacy /\ ctx.working /\ call.pc = "idle" /\ ctx.turns < MaxTurns
      /\ ctx' = [ctx EXCEPT !.turns = @ + 1]
      /\ UNCHANGED <<run, main, role, step, st, effects>>
  BY DEF ModelCalls, Legacy
<1>2. PICK p \in Proposals :
        /\ p.tool \in AllowedTools
        /\ call' = IF MayExecute /\ Binds(p.tool, p.args)
                   THEN [pc |-> "bound", tool |-> p.tool, args |-> p.args, verdict |-> {}]
                   ELSE NoCall
  BY DEF ModelCalls
<1>3. p.args \in Arguments
  BY ProposedArguments
<1>4. ctx \in Invocation /\ call = NoCall
  BY <1>1 DEF IInv, Typed, TypeOK, Placed
<1>5. /\ ctx' \in Invocation /\ ctx'.working = ctx.working /\ ctx'.closed = ctx.closed
      /\ ctx'.terminal = ctx.terminal
  <2>1. ctx.turns + 1 \in 0..MaxTurns
    BY <1>1, <1>4, RunAssumption DEF Invocation
  <2> QED
    BY <1>1, <1>4, <2>1 DEF Invocation
<1>6. Legacy' = Legacy
  BY <1>1 DEF Legacy, Runtime
<1>7. CASE MayExecute /\ Binds(p.tool, p.args)
  <2>1. /\ call' \in CallRecord /\ call'.pc = "bound" /\ call'.tool = p.tool /\ call'.args = p.args
    BY <1>2, <1>3, <1>7 DEF CallRecord, Pcs, AllowedTools
  <2>2. main = "agent" /\ ~ctx.closed /\ ~ctx.terminal
    BY <1>1, <1>7 DEF IInv, Placed, Abandoned, MayExecute
  <2>3. st.pending = None
    BY <1>1, <2>2 DEF IInv, Escalated
  <2>4. Scripted'
    BY <1>1, <1>6 DEF Scripted
  <2>5. Bound'
    BY <1>1, <1>7, <2>1 DEF Bound, Binds
  <2> QED
    BY <1>1, <1>2, <1>5, <2>1, <2>2, <2>3, <2>4, <2>5, CallBegins
<1>8. CASE ~(MayExecute /\ Binds(p.tool, p.args))
  <2>1. call' = call
    BY <1>2, <1>4, <1>8
  <2>2. /\ \A S : With(S)' = With(S)
        /\ \A t : Targets(t)' = Targets(t)
        /\ \A r : RoleDone(r)' = RoleDone(r)
        /\ AllowedTools' = AllowedTools
    BY <1>1 DEF With, Targets, RoleDone, AllowedTools
  <2>3. Typed'
    BY <1>1, <1>5, <2>1 DEF IInv, Typed, TypeOK
  <2>4. Placed'
    <3>1. Abandoned' = Abandoned
      BY <1>1, <1>5, <1>6 DEF Abandoned
    <3> QED
      BY <1>1, <1>5, <1>6, <2>1, <2>2, <3>1 DEF IInv, Placed
  <2>5. Counted' /\ Permitted' /\ Spent' /\ Bound' /\ Scripted'
    BY <1>1, <1>6, <2>1, <2>2 DEF IInv, Counted, Permitted, Spent, Bound, Busy, Scripted
  <2>6. Staged' /\ CommitWithinThreshold' /\ ColdChainKept'
    BY <1>1, <2>2 DEF IInv, Staged, CommitWithinThreshold, ColdChainKept
  <2>7. Recorded' /\ Escalated'
    BY <1>1, <1>5, <1>6, <2>1, <2>2 DEF IInv, Recorded, Escalated, Busy
  <2> QED
    BY <2>3, <2>4, <2>5, <2>6, <2>7 DEF IInv
<1> QED
  BY <1>7, <1>8

-----------------------------------------------------------------------------
(* The governor's steps.                                                    *)

\* A step of the governor moves the call on; what it does to the state undoes nothing
\* that the roles' progress rests on.
LEMMA CallMoves ==
  ASSUME IInv, call.pc # "idle", UNCHANGED <<run, main, role, step, ctx>>,
         NEW pc \in Pcs \ {"idle"}, NEW verdict \in SUBSET PolicyIds,
         call' = [call EXCEPT !.pc = pc, !.verdict = verdict],
         st' \in TrajectoryState, effects' \subseteq Effects,
         st'.status = st.status, st'.order = st.order, st'.fact = st.fact, st'.vehicle = st.vehicle,
         st'.quote = st.quote, st'.booked = st.booked, st'.notified = st.notified,
         st.pending # None => st'.pending # None,
         \A q \in Quotes : st.prepared[q] # "none" => st'.prepared[q] # "none"
  PROVE  /\ Typed' /\ Placed' /\ Staged' /\ Scripted'
         /\ call'.pc = pc /\ call'.tool = call.tool /\ call'.args = call.args /\ Legacy' = Legacy
         /\ call.tool \in AllowedTools /\ role > 0 /\ st.status # "COMPLETED"
<1>1. /\ call \in CallRecord /\ call.tool \in AllowedTools /\ role > 0
      /\ main = "agent" \/ Abandoned
      /\ st \in TrajectoryState
  BY DEF IInv, Typed, TypeOK, Placed
<1>2. /\ call' \in CallRecord /\ call'.pc = pc /\ call'.tool = call.tool /\ call'.args = call.args
      /\ call'.args \in Arguments
  BY <1>1 DEF CallRecord
<1>3. /\ Legacy' = Legacy /\ AllowedTools' = AllowedTools /\ Abandoned' = Abandoned
  BY DEF Legacy, Runtime, AllowedTools, Abandoned
<1>4. st.status # "COMPLETED"
  BY <1>1 DEF IInv, Placed, Abandoned
<1>5. Typed'
  BY <1>2 DEF IInv, Typed, TypeOK, Pcs
<1>6. Placed'
  BY <1>1, <1>2, <1>3 DEF IInv, Placed
<1>7. Staged'
  <2>1. \A r : RoleDone(r) => RoleDone(r)'
    BY DEF RoleDone
  <2> QED
    BY <1>4, <2>1 DEF IInv, Staged
<1>8. Scripted'
  <2>1. ScriptTool' = ScriptTool /\ QuoteCandidates' = QuoteCandidates
    BY DEF ScriptTool, QuoteCandidates
  <2>2. st.quote # None => st.quote \in Quotes
    BY <1>1 DEF TrajectoryState
  <2> QED
    BY <1>2, <1>3, <2>1, <2>2 DEF IInv, Scripted
<1> QED
  BY <1>1, <1>2, <1>3, <1>4, <1>5, <1>6, <1>7, <1>8

\* The call limit.
LEMMA AttemptInv == ASSUME IInv, Attempt PROVE IInv'
<1>1. call.pc = "bound" /\ UNCHANGED <<run, main, role, step, ctx, effects>>
  BY DEF Attempt
<1>2. /\ call \in CallRecord /\ st \in TrajectoryState /\ effects \subseteq Effects
      /\ \A S : Targets(S)' = Targets(S)
  BY <1>1 DEF IInv, Typed, TypeOK, Targets
<1>3. st.pending = None
  BY <1>1 DEF IInv, Escalated, Busy
<1>4. CASE st.calls >= MaxToolCalls
  <2>1. call' = [call EXCEPT !.pc = "raised"] /\ st' = st
    BY <1>4 DEF Attempt
  <2>2. call' = [call EXCEPT !.pc = "raised", !.verdict = call.verdict] /\ call.verdict \in SUBSET PolicyIds
    BY <1>2, <2>1 DEF CallRecord
  <2>3. /\ Typed' /\ Placed' /\ Staged' /\ Scripted'
        /\ call'.pc = "raised" /\ call'.tool = call.tool /\ call'.args = call.args /\ Legacy' = Legacy
    BY <1>1, <1>2, <2>1, <2>2, CallMoves DEF Pcs
  <2>4. \A S : With(S)' = With(S)
    BY <2>1 DEF With
  <2>5. Counted'
    BY <1>1, <2>1, <2>3 DEF IInv, Counted
  <2>6. Bound' /\ Permitted' /\ Spent'
    BY <1>1, <2>1, <2>3, <2>4 DEF IInv, Bound, Busy, Permitted, Spent
  <2>7. Recorded' /\ Escalated'
    BY <1>1, <1>2, <1>3, <2>1, <2>3, <2>4 DEF IInv, Recorded, Escalated, Busy
  <2>8. CommitWithinThreshold' /\ ColdChainKept'
    BY <1>1, <1>2 DEF IInv, CommitWithinThreshold, ColdChainKept
  <2> QED
    BY <2>3, <2>5, <2>6, <2>7, <2>8 DEF IInv
<1>5. CASE ~(st.calls >= MaxToolCalls)
  <2> DEFINE attempts == [t \in GuidedTools |-> st.attempts[t] + (IF t = call.tool THEN 1 ELSE 0)]
  <2>1. /\ call' = [call EXCEPT !.pc = "attempted"]
        /\ st' = [st EXCEPT !.calls = st.calls + 1, !.attempts = attempts]
    BY <1>5 DEF Attempt
  <2>2. call' = [call EXCEPT !.pc = "attempted", !.verdict = call.verdict] /\ call.verdict \in SUBSET PolicyIds
    BY <1>2, <2>1 DEF CallRecord
  <2>3. st.calls \in Nat /\ st.calls + 1 \in 0..MaxToolCalls
    BY <1>2, <1>5, RunAssumption DEF TrajectoryState
  <2>4. \A t \in GuidedTools : attempts[t] \in 0..MaxToolCalls /\ attempts[t] <= st.calls + 1
    <3> SUFFICES ASSUME NEW t \in GuidedTools
                 PROVE  attempts[t] \in 0..MaxToolCalls /\ attempts[t] <= st.calls + 1
      OBVIOUS
    <3>1. st.attempts[t] \in 0..MaxToolCalls /\ st.attempts[t] <= st.calls
      BY <1>2 DEF TrajectoryState, IInv, Counted
    <3>2. attempts[t] = st.attempts[t] + (IF t = call.tool THEN 1 ELSE 0)
      OBVIOUS
    <3> QED
      BY <2>3, <3>1, <3>2, RunAssumption
  <2>5. attempts \in [GuidedTools -> 0..MaxToolCalls]
    BY <2>4
  <2> HIDE DEF attempts
  <2>6. /\ st' \in TrajectoryState
        /\ st'.status = st.status /\ st'.order = st.order /\ st'.fact = st.fact /\ st'.vehicle = st.vehicle
        /\ st'.quote = st.quote /\ st'.booked = st.booked /\ st'.notified = st.notified
        /\ st'.pending = st.pending /\ st'.prepared = st.prepared /\ st'.committed = st.committed
        /\ st'.reserved = st.reserved /\ st'.confirms = st.confirms /\ st'.notices = st.notices
        /\ st'.calls = st.calls + 1 /\ st'.attempts = attempts
    BY <1>2, <2>1, <2>3, <2>5 DEF TrajectoryState
  <2>7. /\ Typed' /\ Placed' /\ Staged' /\ Scripted'
        /\ call'.pc = "attempted" /\ call'.tool = call.tool /\ call'.args = call.args /\ Legacy' = Legacy
    BY <1>1, <1>2, <2>2, <2>6, CallMoves DEF Pcs
  <2>8. \A S : With(S)' = With(S)
    BY <2>6 DEF With
  <2>9. Counted'
    <3>1. st.confirms + 0 <= st.calls /\ st.notices + 0 <= st.calls /\ st.confirms \in Nat /\ st.notices \in Nat
      BY <1>1, <1>2 DEF IInv, Counted, TrajectoryState
    <3>2. st.confirms + 1 <= st.calls + 1 /\ st.notices + 1 <= st.calls + 1
      BY <2>3, <3>1
    <3> QED
      BY <2>4, <2>6, <2>7, <3>2 DEF Counted
  <2>10. Bound' /\ Permitted' /\ Spent'
    BY <1>1, <2>6, <2>7, <2>8 DEF IInv, Bound, Busy, Permitted, Spent
  <2>11. Recorded' /\ Escalated'
    BY <1>1, <1>2, <1>3, <2>6, <2>7, <2>8 DEF IInv, Recorded, Escalated, Busy
  <2>12. CommitWithinThreshold' /\ ColdChainKept'
    BY <1>1, <1>2 DEF IInv, CommitWithinThreshold, ColdChainKept
  <2> QED
    BY <2>7, <2>9, <2>10, <2>11, <2>12 DEF IInv
<1> QED
  BY <1>4, <1>5

\* What the engine is asked about the call in progress.
LEMMA Asked ==
  ASSUME IInv
  PROVE  LET r == RequestOf(call)
             q == call.args.quote
             v == call.args.vehicle
         IN  /\ r.action = call.tool /\ r.perishable = run.perishable
             /\ r.weight = call.args.weight /\ r.fact.weight = Weight
             /\ call.tool = "create_dispatch_plan" /\ r.resource.known =>
                  /\ v \in Vehicles /\ r.resource.capacity = VehicleData[v].capacity
                  /\ r.resource.refrigerated = VehicleData[v].refrigerated
             /\ call.tool \in QuoteTools /\ r.resource.known =>
                  /\ q \in Quotes /\ r.resource.certified = QuoteData[q].certified
                  /\ r.resource.lane = QuoteData[q].lane
             /\ call.tool = "confirm_freight_booking" /\ q \in Quotes => r.prepared = st.prepared[q]
             /\ r.committed = st.committed /\ r.reserved = st.reserved /\ r.threshold = run.threshold
             /\ r.approval.status \in {"none", "PENDING_APPROVAL"}
<1> DEFINE r == RequestOf(call)
<1>1. /\ r.action = call.tool /\ r.perishable = run.perishable /\ r.weight = call.args.weight
      /\ r.committed = st.committed /\ r.reserved = st.reserved /\ r.threshold = run.threshold
  BY DEF RequestOf
<1>2. r.fact.weight = Weight /\ r.approval.status \in {"none", "PENDING_APPROVAL"}
  BY DEF RequestOf
<1>3. call.tool = "confirm_freight_booking" /\ call.args.quote \in Quotes =>
        r.prepared = st.prepared[call.args.quote]
  BY DEF RequestOf, CommitmentTools
<1>4. call.tool = "create_dispatch_plan" /\ r.resource.known =>
        /\ call.args.vehicle \in Vehicles
        /\ r.resource.capacity = VehicleData[call.args.vehicle].capacity
        /\ r.resource.refrigerated = VehicleData[call.args.vehicle].refrigerated
  BY RunAssumption DEF RequestOf, QuoteTools
<1>5. call.tool \in QuoteTools /\ r.resource.known =>
        /\ call.args.quote \in Quotes /\ r.resource.certified = QuoteData[call.args.quote].certified
        /\ r.resource.lane = QuoteData[call.args.quote].lane
  BY RunAssumption DEF RequestOf, QuoteTools
<1> HIDE DEF r
<1> QED
  BY <1>1, <1>2, <1>3, <1>4, <1>5 DEF r

\* The outcomes an enforced run applies to a call.
LEMMA Applied ==
  ASSUME IInv, NEW verdict \in Verdicts(call)
  PROVE  LET outcome == AppliedOutcome(verdict, call.tool)
         IN  /\ verdict \in SUBSET PolicyIds
             /\ outcome \in {"ALLOW", "GUIDE", "BLOCK", "ESCALATE"}
             /\ run.enforce /\ outcome = "ALLOW" => PolicyOutcome(PythonEvaluate(RequestOf(call))) = "ALLOW"
             /\ outcome = "ESCALATE" =>
                  run.enforce /\ PolicyOutcome(PythonEvaluate(RequestOf(call))) = "ESCALATE"
<1>1. verdict = PythonEvaluate(RequestOf(call)) \/ verdict = {"ENGINE-FAIL"}
  BY DEF Verdicts
<1>2. PolicyOutcome({"ENGINE-FAIL"}) = "BLOCK"
  BY DEF PolicyOutcome, Outcome, AllowPolicies, GuidePolicies, EscalatePolicies
<1>3. \A x : PolicyOutcome(x) \in {"ALLOW", "GUIDE", "BLOCK", "ESCALATE"}
  BY DEF PolicyOutcome
<1>4. AppliedOutcome(verdict, call.tool) \in {"ALLOW", "BLOCK", PolicyOutcome(verdict)}
  BY DEF AppliedOutcome
<1>5. run.enforce /\ AppliedOutcome(verdict, call.tool) = "ALLOW" => PolicyOutcome(verdict) = "ALLOW"
  BY DEF AppliedOutcome
<1>6. AppliedOutcome(verdict, call.tool) = "ESCALATE" => run.enforce /\ PolicyOutcome(verdict) = "ESCALATE"
  BY DEF AppliedOutcome
<1>7. verdict \in SUBSET PolicyIds
  BY <1>1, VerdictOfIds
<1> QED
  BY <1>1, <1>2, <1>3, <1>4, <1>5, <1>6, <1>7

\* Evaluation and the stored decision.
LEMMA DecideInv == ASSUME IInv, Decide PROVE IInv'
<1> DEFINE q == call.args.quote
<1>1. call.pc = "attempted" /\ UNCHANGED <<run, main, role, step, ctx, effects>>
  BY DEF Decide
<1>2. PICK verdict \in Verdicts(call) :
        LET outcome == AppliedOutcome(verdict, call.tool)
        IN  /\ call' = [call EXCEPT !.pc = IF outcome = "ALLOW" THEN "allowed" ELSE outcome,
                                    !.verdict = verdict]
            /\ st' = IF outcome = "ESCALATE"
                     THEN [st EXCEPT !.pending = q, !.prepared[q] = "PENDING_APPROVAL"]
                     ELSE st
  BY DEF Decide
<1> DEFINE outcome == AppliedOutcome(verdict, call.tool)
           pc == IF outcome = "ALLOW" THEN "allowed" ELSE outcome
<1>3. /\ verdict \in SUBSET PolicyIds
      /\ outcome \in {"ALLOW", "GUIDE", "BLOCK", "ESCALATE"}
      /\ run.enforce /\ outcome = "ALLOW" => PolicyOutcome(PythonEvaluate(RequestOf(call))) = "ALLOW"
      /\ outcome = "ESCALATE" =>
           run.enforce /\ PolicyOutcome(PythonEvaluate(RequestOf(call))) = "ESCALATE"
  BY Applied
<1>4. /\ call' = [call EXCEPT !.pc = pc, !.verdict = verdict]
      /\ outcome = "ESCALATE" => st' = [st EXCEPT !.pending = q, !.prepared[q] = "PENDING_APPROVAL"]
      /\ outcome # "ESCALATE" => st' = st
  BY <1>2
<1> HIDE DEF outcome
<1>5. /\ pc \in {"allowed", "GUIDE", "BLOCK", "ESCALATE"}
      /\ pc = "allowed" <=> outcome = "ALLOW"
      /\ pc = "ESCALATE" <=> outcome = "ESCALATE"
  BY <1>3
<1> HIDE DEF pc
<1>6. /\ call \in CallRecord /\ st \in TrajectoryState /\ effects \subseteq Effects
      /\ st.prepared \in [Quotes -> {"none", "PREPARED", "PENDING_APPROVAL", "CONFIRMED"}]
      /\ st.committed \in Nat /\ st.reserved \in Nat /\ run.threshold \in Nat /\ run \in RunRecord
      /\ \A t : Targets(t)' = Targets(t)
  BY <1>1 DEF IInv, Typed, TypeOK, RunRecord, Targets, TrajectoryState
<1>7. st.pending = None
  BY <1>1 DEF IInv, Escalated, Busy
<1>8. call.tool = "confirm_freight_booking" => q \in Quotes /\ st.prepared[q] # "none"
  BY <1>1 DEF IInv, Bound, Busy
<1>9. CommitWithinThreshold' /\ ColdChainKept'
  BY <1>1, <1>6 DEF IInv, CommitWithinThreshold, ColdChainKept
<1>10. CASE outcome # "ESCALATE"
  <2>1. st' = st
    BY <1>4, <1>10
  <2>2. /\ Typed' /\ Placed' /\ Staged' /\ Scripted'
        /\ call'.pc = pc /\ call'.tool = call.tool /\ call'.args = call.args /\ Legacy' = Legacy
    <3>1. pc \in Pcs \ {"idle"}
      BY <1>5 DEF Pcs
    <3> QED
      BY <1>1, <1>3, <1>4, <1>6, <2>1, <3>1, CallMoves
  <2>3. \A S : With(S)' = With(S)
    BY <2>1 DEF With
  <2>4. Counted'
    <3>1. st.confirms + 1 <= st.calls /\ st.notices + 1 <= st.calls
      BY <1>1 DEF IInv, Counted
    <3>2. st.confirms \in Nat /\ st.notices \in Nat /\ st.calls \in Nat
      BY <1>6 DEF TrajectoryState
    <3>3. st.confirms + 0 <= st.calls /\ st.notices + 0 <= st.calls
      BY <3>1, <3>2
    <3> QED
      BY <2>1, <3>1, <3>3 DEF IInv, Counted
  <2>5. Bound'
    BY <1>1, <1>5, <2>1, <2>2 DEF IInv, Bound, Busy
  <2>6. Permitted'
    <3> SUFFICES ASSUME run.enforce, pc = "allowed" PROVE Permitted'
      BY <1>1, <2>2 DEF Permitted
    <3> DEFINE r == RequestOf(call)
    <3>1. PolicyOutcome(PythonEvaluate(r)) = "ALLOW"
      BY <1>3, <1>5
    <3>2. /\ r.action = call.tool /\ r.perishable = run.perishable
          /\ r.weight = call.args.weight /\ r.fact.weight = Weight
          /\ call.tool = "create_dispatch_plan" /\ r.resource.known =>
               /\ call.args.vehicle \in Vehicles
               /\ r.resource.capacity = VehicleData[call.args.vehicle].capacity
               /\ r.resource.refrigerated = VehicleData[call.args.vehicle].refrigerated
          /\ call.tool \in QuoteTools /\ r.resource.known =>
               /\ q \in Quotes /\ r.resource.certified = QuoteData[q].certified
               /\ r.resource.lane = QuoteData[q].lane
          /\ call.tool = "confirm_freight_booking" /\ q \in Quotes => r.prepared = st.prepared[q]
          /\ r.committed = st.committed /\ r.reserved = st.reserved /\ r.threshold = run.threshold
          /\ r.approval.status \in {"none", "PENDING_APPROVAL"}
      BY Asked
    <3> HIDE DEF r
    <3>3. run.perishable /\ call.tool = "create_dispatch_plan" =>
             /\ call.args.vehicle \in Vehicles /\ call.args.weight = Weight
             /\ VehicleData[call.args.vehicle].refrigerated
             /\ VehicleData[call.args.vehicle].capacity >= Weight
      <4> SUFFICES ASSUME run.perishable, call.tool = "create_dispatch_plan"
                   PROVE  /\ call.args.vehicle \in Vehicles /\ call.args.weight = Weight
                          /\ VehicleData[call.args.vehicle].refrigerated
                          /\ VehicleData[call.args.vehicle].capacity >= Weight
        OBVIOUS
      <4>1. r.weight = r.fact.weight /\ r.resource.known /\ r.resource.refrigerated
            /\ ~(r.resource.capacity < r.fact.weight)
        BY <3>1, <3>2, PlanAllowed
      <4>2. call.args.vehicle \in Vehicles /\ call.args.weight = Weight
            /\ VehicleData[call.args.vehicle].refrigerated
            /\ ~(VehicleData[call.args.vehicle].capacity < Weight)
        BY <3>2, <4>1
      <4>3. VehicleData[call.args.vehicle].capacity \in Nat /\ Weight \in Nat
        BY <4>2, RunAssumption
      <4> QED
        BY <4>2, <4>3
    <3>4. run.perishable /\ call.tool \in QuoteTools =>
             q \in Quotes /\ QuoteData[q].certified /\ QuoteData[q].lane
      BY <3>1, <3>2, QuoteAllowed
    <3>5. call.tool = "confirm_freight_booking" =>
             st.prepared[q] = "PREPARED" /\ st.committed + st.reserved <= run.threshold
      <4> SUFFICES ASSUME call.tool = "confirm_freight_booking"
                   PROVE  st.prepared[q] = "PREPARED" /\ st.committed + st.reserved <= run.threshold
        OBVIOUS
      <4>1. r.prepared \notin {"PENDING_APPROVAL", "CONFIRMED"} /\ Projected(r) <= r.threshold
        BY <1>8, <3>1, <3>2, ConfirmAllowed
      <4>2. st.prepared[q] \in {"none", "PREPARED", "PENDING_APPROVAL", "CONFIRMED"}
        BY <1>6, <1>8
      <4> QED
        BY <1>8, <3>2, <4>1, <4>2 DEF Projected
    <3> QED
      BY <1>1, <2>1, <2>2, <3>3, <3>4, <3>5 DEF Permitted
  <2>7. Recorded' /\ Spent'
    BY <1>1, <1>6, <2>1, <2>2, <2>3 DEF IInv, Recorded, Spent
  <2>8. Escalated'
    BY <1>5, <1>7, <1>10, <2>1, <2>2, <2>3 DEF IInv, Escalated
  <2> QED
    BY <1>9, <2>2, <2>4, <2>5, <2>6, <2>7, <2>8 DEF IInv
<1>11. CASE outcome = "ESCALATE"
  <2> DEFINE r == RequestOf(call)
  <2>1. PolicyOutcome(PythonEvaluate(r)) = "ESCALATE" /\ run.enforce
    BY <1>3, <1>11
  <2>2. /\ r.action = call.tool
        /\ call.tool = "confirm_freight_booking" /\ q \in Quotes => r.prepared = st.prepared[q]
        /\ r.committed = st.committed /\ r.reserved = st.reserved /\ r.threshold = run.threshold
    BY Asked
  <2> HIDE DEF r
  <2>3. /\ r.action = "confirm_freight_booking"
        /\ r.prepared \notin {"PENDING_APPROVAL", "CONFIRMED"} /\ ~(Projected(r) <= r.threshold)
    BY <2>1, OnlySpendEscalates
  <2>4. /\ call.tool = "confirm_freight_booking" /\ q \in Quotes /\ st.prepared[q] = "PREPARED"
        /\ st.committed + st.reserved > run.threshold
    <3>1. call.tool = "confirm_freight_booking" /\ q \in Quotes /\ st.prepared[q] # "none"
      BY <1>8, <2>2, <2>3
    <3>2. st.prepared[q] \in {"none", "PREPARED", "PENDING_APPROVAL", "CONFIRMED"}
      BY <1>6, <3>1
    <3>3. ~(st.committed + st.reserved <= run.threshold)
      BY <2>2, <2>3 DEF Projected
    <3> QED
      BY <1>6, <2>2, <2>3, <3>1, <3>2, <3>3
  <2>5. q # None
    BY <2>4, RunAssumption
  <2>6. st' = [st EXCEPT !.pending = q, !.prepared = [st.prepared EXCEPT ![q] = "PENDING_APPROVAL"]]
    BY <1>4, <1>6, <1>11 DEF TrajectoryState
  <2> DEFINE prepared == [st.prepared EXCEPT ![q] = "PENDING_APPROVAL"]
  <2>7. /\ prepared \in [Quotes -> {"none", "PREPARED", "PENDING_APPROVAL", "CONFIRMED"}]
        /\ \A p \in Quotes : prepared[p] = IF p = q THEN "PENDING_APPROVAL" ELSE st.prepared[p]
    BY <1>6, <2>4
  <2> HIDE DEF prepared
  <2>8. /\ st' \in TrajectoryState /\ st'.pending = q /\ st'.prepared = prepared
        /\ st'.status = st.status /\ st'.order = st.order /\ st'.fact = st.fact /\ st'.vehicle = st.vehicle
        /\ st'.quote = st.quote /\ st'.booked = st.booked /\ st'.notified = st.notified
        /\ st'.committed = st.committed /\ st'.reserved = st.reserved /\ st'.calls = st.calls
        /\ st'.attempts = st.attempts /\ st'.confirms = st.confirms /\ st'.notices = st.notices
    BY <1>6, <2>4, <2>6, <2>7 DEF TrajectoryState, prepared
  <2>9. /\ Typed' /\ Placed' /\ Staged' /\ Scripted'
        /\ call'.pc = "ESCALATE" /\ call'.tool = call.tool /\ call'.args = call.args /\ Legacy' = Legacy
        /\ call.tool \in AllowedTools /\ role > 0
    <3>1. pc \in Pcs \ {"idle"} /\ pc = "ESCALATE"
      BY <1>5, <1>11 DEF Pcs
    <3>2. \A p \in Quotes : st.prepared[p] # "none" => st'.prepared[p] # "none"
      BY <2>7, <2>8
    <3>3. /\ st'.status = st.status /\ st'.order = st.order /\ st'.fact = st.fact
          /\ st'.vehicle = st.vehicle /\ st'.quote = st.quote /\ st'.booked = st.booked
          /\ st'.notified = st.notified /\ st' \in TrajectoryState
          /\ st.pending # None => st'.pending # None
          /\ call.pc # "idle" /\ effects' \subseteq Effects
      BY <1>1, <1>6, <1>7, <2>8
    <3> QED
      BY <1>1, <1>3, <1>4, <3>1, <3>2, <3>3, CallMoves
  <2>10. /\ With({"CONFIRMED"})' = With({"CONFIRMED"})
         /\ With({"PREPARED", "PENDING_APPROVAL"})' = With({"PREPARED", "PENDING_APPROVAL"})
         /\ With({"PREPARED", "PENDING_APPROVAL", "CONFIRMED"})' =
              With({"PREPARED", "PENDING_APPROVAL", "CONFIRMED"})
    BY <2>4, <2>7, <2>8 DEF With
  <2>11. With({"PENDING_APPROVAL"})' = {q}
    <3>1. With({"PENDING_APPROVAL"}) = {}
      BY <1>7 DEF IInv, Escalated
    <3>2. \A p \in Quotes : st.prepared[p] # "PENDING_APPROVAL"
      BY <3>1 DEF With
    <3> QED
      BY <2>4, <2>7, <2>8, <3>2 DEF With
  <2>12. role = 3
    <3>1. role \in 0..4
      BY DEF IInv, Typed, TypeOK, RoleOrder
    <3>2. role = 1 \/ role = 2 \/ role = 3 \/ role = 4
      BY <2>9, <3>1
    <3>3. RoleOrder[role] = "carrier"
      BY <2>4, <2>9 DEF AllowedTools, Owner, InventoryTools, DispatchTools, CarrierTools
    <3> QED
      BY <3>2, <3>3 DEF RoleOrder
  <2>13. Counted'
    <3>1. st.confirms + 1 <= st.calls /\ st.notices + 1 <= st.calls
      BY <1>1 DEF IInv, Counted
    <3>2. st.confirms \in Nat /\ st.notices \in Nat /\ st.calls \in Nat
      BY <1>6 DEF TrajectoryState
    <3>3. st.confirms + 0 <= st.calls /\ st.notices + 0 <= st.calls
      BY <3>1, <3>2
    <3> QED
      BY <2>8, <2>9, <3>3 DEF IInv, Counted
  <2>14. Bound' /\ Permitted'
    BY <2>9 DEF Bound, Busy, Permitted
  <2>15. Spent'
    BY <1>1, <2>8, <2>10 DEF IInv, Spent
  <2>16. Recorded'
    BY <1>1, <1>6, <2>8, <2>9, <2>10 DEF IInv, Recorded
  <2>17. Escalated'
    BY <1>1, <2>1, <2>4, <2>5, <2>8, <2>9, <2>11, <2>12 DEF Escalated, Busy
  <2> QED
    BY <1>9, <2>9, <2>13, <2>14, <2>15, <2>16, <2>17 DEF IInv
<1> QED
  BY <1>10, <1>11

\* What an executed call adds to what the tools did.
LEMMA Performed ==
  ASSUME effects' = effects \cup EffectOf(call), call.tool \in Tools
  PROVE  /\ \A t : t # call.tool => Targets(t)' = Targets(t)
         /\ \A t : t = call.tool /\ t \notin ReadTools =>
              Targets(t)' = Targets(t) \cup
                {IF call.tool = "create_dispatch_plan" THEN call.args.vehicle
                 ELSE IF call.tool = "write_tracking_outbox" THEN st.quote ELSE call.args.quote}
         /\ call.tool \in ReadTools => effects' = effects
<1> DEFINE target == IF call.tool = "create_dispatch_plan" THEN call.args.vehicle
                     ELSE IF call.tool = "write_tracking_outbox" THEN st.quote ELSE call.args.quote
           weight == IF call.tool = "create_dispatch_plan" THEN call.args.weight ELSE Weight
<1>1. EffectOf(call) = IF call.tool \in ReadTools THEN {}
                       ELSE {[tool |-> call.tool, target |-> target, weight |-> weight]}
  BY DEF EffectOf
<1> HIDE DEF target, weight
<1>2. ASSUME NEW t, t # call.tool PROVE Targets(t)' = Targets(t)
  BY <1>1, <1>2 DEF Targets
<1>3. ASSUME NEW t, t = call.tool, t \notin ReadTools PROVE Targets(t)' = Targets(t) \cup {target}
  <2>1. effects' = effects \cup {[tool |-> t, target |-> target, weight |-> weight]}
    BY <1>1, <1>3
  <2> DEFINE e == [tool |-> t, target |-> target, weight |-> weight]
  <2>2. e.tool = t /\ e.target = target
    OBVIOUS
  <2> HIDE DEF e
  <2>3. {f \in effects' : f.tool = t} = {f \in effects : f.tool = t} \cup {e}
    BY <2>1, <2>2 DEF e
  <2> QED
    BY <2>2, <2>3 DEF Targets
<1>4. call.tool \in ReadTools => effects' = effects
  BY <1>1
<1> QED
  BY <1>2, <1>3, <1>4 DEF target

\* A tool that does not refuse has an id it knows.
LEMMA Accepted ==
  ASSUME ~Refuses(call), call.args \in Arguments
  PROVE  /\ call.tool = "create_dispatch_plan" => call.args.vehicle \in Vehicles
         /\ call.tool \in QuoteTools => call.args.quote \in Quotes
  BY DEF Refuses, Arguments, QuoteTools

\* The tool's execution with its durable receipt, or its error.
LEMMA ExecuteInv == ASSUME IInv, Execute PROVE IInv'
<1> DEFINE q == call.args.quote
<1>1. call.pc = "allowed" /\ UNCHANGED <<run, main, role, step, ctx, st>>
  BY DEF Execute
<1>2. /\ call \in CallRecord /\ call.args \in Arguments /\ st \in TrajectoryState /\ effects \subseteq Effects
      /\ call.tool \in AllowedTools /\ call.tool \in Tools /\ role > 0 /\ role \in 0..4
      /\ call.verdict \in SUBSET PolicyIds
  BY <1>1 DEF IInv, Typed, TypeOK, CallRecord, Placed, AllowedTools, RoleOrder
<1>3. /\ call.tool = "confirm_freight_booking" => q \in Quotes /\ st.prepared[q] # "none"
      /\ call.tool = "write_tracking_outbox" => st.quote # None
      /\ st.pending = None
  BY <1>1 DEF IInv, Bound, Busy, Escalated
<1>4. \A S : With(S)' = With(S)
  BY <1>1 DEF With
<1>5. CASE Refuses(call)
  <2>1. call' = [call EXCEPT !.pc = "raised", !.verdict = call.verdict] /\ effects' = effects
    BY <1>2, <1>5 DEF Execute, CallRecord
  <2>2. /\ Typed' /\ Placed' /\ Staged' /\ Scripted'
        /\ call'.pc = "raised" /\ call'.tool = call.tool /\ call'.args = call.args /\ Legacy' = Legacy
    BY <1>1, <1>2, <2>1, CallMoves DEF Pcs
  <2>3. Counted'
    <3>1. st.confirms + 1 <= st.calls /\ st.notices + 1 <= st.calls
      BY <1>1 DEF IInv, Counted
    <3>2. st.confirms \in Nat /\ st.notices \in Nat /\ st.calls \in Nat
      BY <1>2 DEF TrajectoryState
    <3>3. st.confirms + 0 <= st.calls /\ st.notices + 0 <= st.calls
      BY <3>1, <3>2
    <3> QED
      BY <1>1, <2>2, <3>3 DEF IInv, Counted
  <2>4. \A t : Targets(t)' = Targets(t)
    BY <2>1 DEF Targets
  <2>5. Bound' /\ Permitted' /\ Spent'
    BY <1>1, <1>4, <2>2 DEF IInv, Bound, Busy, Permitted, Spent
  <2>6. Recorded' /\ Escalated'
    BY <1>1, <1>3, <1>4, <2>2, <2>4 DEF IInv, Recorded, Escalated
  <2>7. CommitWithinThreshold' /\ ColdChainKept'
    BY <1>1, <2>1, <2>4 DEF IInv, CommitWithinThreshold, ColdChainKept
  <2> QED
    BY <2>2, <2>3, <2>5, <2>6, <2>7 DEF IInv
<1>6. CASE ~Refuses(call)
  <2>1. /\ call' = [call EXCEPT !.pc = "executed", !.verdict = call.verdict]
        /\ effects' = effects \cup EffectOf(call)
    BY <1>2, <1>6 DEF Execute, CallRecord
  <2>2. /\ call.tool = "create_dispatch_plan" => call.args.vehicle \in Vehicles
        /\ call.tool \in QuoteTools => q \in Quotes
    BY <1>2, <1>6, Accepted
  <2>3. EffectOf(call) \subseteq Effects
    <3>1. call.tool \in ReadTools \cup {"create_dispatch_plan", "write_tracking_outbox",
                                        "confirm_freight_booking"} \cup QuoteTools
      BY <1>2 DEF AllowedTools, Tools, InventoryTools, DispatchTools, CarrierTools, CommunicationsTools,
                  ReadTools, QuoteTools
    <3>2. st.quote \in Quotes \cup {None} /\ call.args.weight \in Weights /\ Weight \in Weights
      BY <1>2, RunAssumption DEF TrajectoryState, Arguments
    <3> QED
      BY <1>2, <1>3, <2>2, <3>1, <3>2 DEF EffectOf, Effects
  <2>4. /\ Typed' /\ Placed' /\ Staged' /\ Scripted'
        /\ call'.pc = "executed" /\ call'.tool = call.tool /\ call'.args = call.args /\ Legacy' = Legacy
    <3>1. effects' \subseteq Effects /\ "executed" \in Pcs \ {"idle"} /\ st' \in TrajectoryState
      BY <1>1, <1>2, <2>1, <2>3 DEF Pcs
    <3>2. call.pc # "idle" /\ st' = st
      BY <1>1
    <3> QED
      BY <1>1, <1>2, <2>1, <3>1, <3>2, CallMoves
  <2>5. /\ \A t : t # call.tool => Targets(t)' = Targets(t)
        /\ \A t : t = call.tool /\ t \notin ReadTools =>
             Targets(t)' = Targets(t) \cup
               {IF call.tool = "create_dispatch_plan" THEN call.args.vehicle
                ELSE IF call.tool = "write_tracking_outbox" THEN st.quote ELSE q}
        /\ call.tool \in ReadTools => effects' = effects
    BY <1>2, <2>1, Performed
  <2>6. /\ \A t : Targets(t) \subseteq Targets(t)'
        /\ Targets("confirm_freight_booking")' =
             Targets("confirm_freight_booking") \cup (IF call.tool = "confirm_freight_booking" THEN {q} ELSE {})
        /\ Targets("prepare_freight_booking")' =
             Targets("prepare_freight_booking") \cup (IF call.tool = "prepare_freight_booking" THEN {q} ELSE {})
        /\ call.tool # "write_tracking_outbox" =>
             Targets("write_tracking_outbox")' = Targets("write_tracking_outbox")
    <3>1. \A t : Targets(t) \subseteq Targets(t)'
      BY <2>1 DEF Targets
    <3> QED
      BY <2>5, <3>1 DEF ReadTools
  <2>7. Counted'
    BY <1>1, <2>4 DEF IInv, Counted
  <2>8. Bound'
    <3>1. Refuses(call)' = Refuses(call) /\ EffectOf(call)' = EffectOf(call)
      BY <1>1, <2>4 DEF Refuses, EffectOf
    <3> QED
      BY <1>1, <1>3, <1>6, <2>1, <2>4, <3>1 DEF Bound, Busy
  <2>9. Permitted' /\ Spent'
    BY <1>1, <1>4, <2>4 DEF IInv, Permitted, Spent
  <2>10. Recorded'
    <3>1. ASSUME NEW p \in Targets("confirm_freight_booking")'
          PROVE  /\ p \in Targets("prepare_freight_booking")'
                 /\ \/ p \in With({"CONFIRMED"})
                    \/ call.tool = "confirm_freight_booking" /\ q = p
      <4>1. CASE p \in Targets("confirm_freight_booking")
        BY <1>1, <2>6, <4>1 DEF IInv, Recorded
      <4>2. CASE call.tool = "confirm_freight_booking" /\ q = p
        <5>1. q \in With({"PREPARED", "PENDING_APPROVAL", "CONFIRMED"})
          BY <1>2, <1>3, <4>2 DEF With, TrajectoryState
        <5> QED
          BY <2>6, <4>2, <5>1 DEF IInv, Recorded
      <4> QED
        BY <2>6, <4>1, <4>2
    <3>2. call.tool = "write_tracking_outbox" => role = 4
      <4>1. role = 1 \/ role = 2 \/ role = 3 \/ role = 4
        BY <1>2
      <4>2. call.tool = "write_tracking_outbox" => RoleOrder[role] = "customer_communications"
        BY <1>2 DEF AllowedTools, Owner, InventoryTools, DispatchTools, CarrierTools
      <4> QED
        BY <4>1, <4>2 DEF RoleOrder
    <3>3. Targets("write_tracking_outbox")' # {} => role = 4
      BY <2>6, <3>2 DEF IInv, Recorded
    <3>4. Targets("write_tracking_outbox") # {} => Targets("write_tracking_outbox")' # {}
      BY <2>6
    <3>5. /\ st.vehicle # None => st.vehicle \in Targets("create_dispatch_plan")'
          /\ With({"PREPARED", "PENDING_APPROVAL", "CONFIRMED"}) \subseteq Targets("prepare_freight_booking")'
          /\ With({"CONFIRMED"}) \subseteq Targets("confirm_freight_booking")'
      BY <2>6 DEF IInv, Recorded
    <3> QED
      BY <1>1, <1>4, <2>4, <3>1, <3>3, <3>4, <3>5 DEF IInv, Recorded
  <2>11. Escalated'
    BY <1>1, <1>3, <1>4, <2>4 DEF IInv, Escalated
  <2>12. CommitWithinThreshold'
    <3>1. CASE call.tool # "confirm_freight_booking"
      <4>1. Targets("confirm_freight_booking")' = Targets("confirm_freight_booking")
        BY <2>6, <3>1
      <4> QED
        BY <1>1, <4>1 DEF IInv, CommitWithinThreshold
    <3>2. CASE call.tool = "confirm_freight_booking" /\ run.enforce
      <4> DEFINE C == With({"CONFIRMED"})
                 P == With({"PREPARED", "PENDING_APPROVAL"})
      <4>1. q \in Quotes /\ st.prepared[q] = "PREPARED" /\ st.committed + st.reserved <= run.threshold
        BY <1>1, <1>3, <3>2 DEF IInv, Permitted
      <4>2. Targets("confirm_freight_booking") = C
        BY <1>1 DEF IInv, Recorded
      <4>3. Targets("confirm_freight_booking")' = C \cup {q}
        BY <2>6, <3>2, <4>2
      <4>4. C \in SUBSET Quotes /\ P \in SUBSET Quotes /\ q \in Quotes \ C /\ q \in P
        BY <4>1 DEF With
      <4>5. st.committed = run.prior + TotalAmount(C) /\ st.reserved = TotalAmount(P)
        BY DEF IInv, Spent
      <4> HIDE DEF C, P
      <4>6. /\ TotalAmount(C \cup {q}) = TotalAmount(C) + Amount(q)
            /\ TotalAmount(P) >= Amount(q) /\ TotalAmount(C) \in Nat /\ TotalAmount(P) \in Nat
        BY <4>4, Totals
      <4>7. Amount(q) \in Nat /\ run.prior \in Nat /\ run.threshold \in Nat
        BY <4>1, Quoted DEF IInv, Typed, TypeOK, RunRecord
      <4>8. run.prior + (TotalAmount(C) + Amount(q)) <= run.threshold
        BY <4>1, <4>5, <4>6, <4>7
      <4>9. run.prior + TotalAmount(C \cup {q}) <= run.threshold
        BY <4>6, <4>8
      <4>10. run' = run
        BY <1>1
      <4> QED
        BY <4>3, <4>9, <4>10 DEF CommitWithinThreshold
    <3>3. CASE ~run.enforce
      BY <1>1, <3>3 DEF CommitWithinThreshold
    <3> QED
      BY <3>1, <3>2, <3>3
  <2>13. ColdChainKept'
    <3> SUFFICES ASSUME run.enforce, run.perishable PROVE ColdChainKept'
      BY <1>1 DEF ColdChainKept
    <3>1. ASSUME NEW e \in effects', e.tool = "create_dispatch_plan"
          PROVE  /\ e.weight = Weight
                 /\ VehicleData[e.target].refrigerated /\ VehicleData[e.target].capacity >= Weight
      <4>1. CASE e \in effects
        BY <3>1, <4>1 DEF IInv, ColdChainKept
      <4>2. CASE e \in EffectOf(call)
        <5>1. /\ call.tool = "create_dispatch_plan" /\ e.target = call.args.vehicle
              /\ e.weight = call.args.weight
          BY <3>1, <4>2 DEF EffectOf
        <5> QED
          BY <1>1, <5>1 DEF IInv, Permitted
      <4> QED
        BY <2>1, <4>1, <4>2
    <3>2. ASSUME NEW p \in Targets("prepare_freight_booking")' PROVE QuoteData[p].certified /\ QuoteData[p].lane
      <4>1. CASE p \in Targets("prepare_freight_booking")
        BY <4>1 DEF IInv, ColdChainKept
      <4>2. CASE call.tool = "prepare_freight_booking" /\ p = q
        BY <1>1, <4>2 DEF IInv, Permitted, QuoteTools
      <4> QED
        BY <2>6, <4>1, <4>2
    <3>3. Targets("confirm_freight_booking")' \subseteq Targets("prepare_freight_booking")'
      BY <2>10 DEF Recorded
    <3> QED
      BY <3>1, <3>2, <3>3 DEF ColdChainKept
  <2> QED
    BY <2>4, <2>7, <2>8, <2>9, <2>10, <2>11, <2>12, <2>13 DEF IInv
<1> QED
  BY <1>5, <1>6

-----------------------------------------------------------------------------
(* The answers.                                                             *)

\* What a success leaves of the bookings: nothing new, one more action prepared with
\* its amount reserved, or one confirmed with its amount moved to the committed spend.
BookingMoves(s, q) ==
  \/ /\ s.prepared = st.prepared /\ s.committed = st.committed /\ s.reserved = st.reserved
     /\ s.booked = st.booked
     /\ call.tool = "prepare_freight_booking" => st.prepared[q] # "none"
     /\ call.tool = "confirm_freight_booking" => st.prepared[q] = "CONFIRMED"
  \/ /\ call.tool = "prepare_freight_booking" /\ q \in Quotes /\ st.prepared[q] = "none"
     /\ s.prepared = [st.prepared EXCEPT ![q] = "PREPARED"] /\ s.reserved = st.reserved + Amount(q)
     /\ s.committed = st.committed /\ s.booked = st.booked
  \/ /\ call.tool = "confirm_freight_booking" /\ q \in Quotes
     /\ st.prepared[q] \in {"PREPARED", "PENDING_APPROVAL"}
     /\ s.prepared = [st.prepared EXCEPT ![q] = "CONFIRMED"] /\ s.reserved = st.reserved - Amount(q)
     /\ s.committed = st.committed + Amount(q) /\ s.booked = q

\* What a success leaves of the progress.
ProgressMoves(s) ==
  /\ s.status = st.status /\ s.calls = st.calls /\ s.attempts = st.attempts
  /\ s.confirms = st.confirms /\ s.notices = st.notices /\ s.pending = st.pending
  /\ st.order \/ call.tool = "get_order" => s.order
  /\ st.fact \/ call.tool = "check_inventory" => s.fact
  /\ s.vehicle = IF call.tool = "create_dispatch_plan" THEN call.args.vehicle ELSE st.vehicle
  /\ s.quote = IF call.tool = "select_carrier_quote" THEN call.args.quote ELSE st.quote
  /\ st.notified \/ call.tool = "write_tracking_outbox" => s.notified
  /\ s.notified => st.notified \/ call.tool = "write_tracking_outbox"

\* The state after a tool's success.
LEMMA ToolApplied ==
  ASSUME IInv, call.pc = "executed", NEW s, s = AfterTool(st, call)
  PROVE  s \in TrajectoryState /\ ProgressMoves(s) /\ BookingMoves(s, call.args.quote)
<1> DEFINE q == call.args.quote
<1>1. /\ st \in TrajectoryState /\ call.args \in Arguments /\ call.tool \in Tools /\ ~Refuses(call)
      /\ st.pending = None
      /\ call.tool = "confirm_freight_booking" => q \in Quotes /\ st.prepared[q] # "none"
  BY DEF IInv, Typed, TypeOK, Placed, AllowedTools, Bound, Busy, Escalated
<1>2. /\ call.tool = "create_dispatch_plan" => call.args.vehicle \in Vehicles
      /\ call.tool \in QuoteTools => q \in Quotes
  BY <1>1, Accepted
<1>3. CASE call.tool \in {"list_available_vehicles", "list_carrier_quotes", "cancel_freight_booking"}
  <2>1. s = st
    BY <1>3 DEF AfterTool
  <2> QED
    BY <1>1, <1>3, <2>1 DEF ProgressMoves, BookingMoves
<1>4. CASE call.tool = "get_order"
  <2>1. s = [st EXCEPT !.order = TRUE]
    BY <1>4 DEF AfterTool
  <2> QED
    BY <1>1, <1>4, <2>1 DEF ProgressMoves, BookingMoves, TrajectoryState
<1>5. CASE call.tool = "check_inventory"
  <2>1. s = [st EXCEPT !.fact = TRUE]
    BY <1>5 DEF AfterTool
  <2> QED
    BY <1>1, <1>5, <2>1 DEF ProgressMoves, BookingMoves, TrajectoryState
<1>6. CASE call.tool = "create_dispatch_plan"
  <2>1. s = [st EXCEPT !.vehicle = call.args.vehicle]
    BY <1>6 DEF AfterTool
  <2> QED
    BY <1>1, <1>2, <1>6, <2>1 DEF ProgressMoves, BookingMoves, TrajectoryState
<1>7. CASE call.tool = "select_carrier_quote"
  <2>1. s = [st EXCEPT !.quote = q]
    BY <1>7 DEF AfterTool
  <2> QED
    BY <1>1, <1>2, <1>7, <2>1 DEF ProgressMoves, BookingMoves, TrajectoryState, QuoteTools
<1>8. CASE call.tool = "prepare_freight_booking"
  <2>1. s = Prepared(st, q)
    BY <1>8 DEF AfterTool
  <2>2. q \in Quotes /\ Amount(q) \in Nat
    BY <1>2, <1>8, Quoted DEF QuoteTools
  <2>3. CASE st.prepared[q] # "none"
    <3>1. s = st
      BY <2>1, <2>3 DEF Prepared
    <3> QED
      BY <1>1, <1>8, <2>3, <3>1 DEF ProgressMoves, BookingMoves
  <2>4. CASE st.prepared[q] = "none"
    <3>1. s = [st EXCEPT !.prepared[q] = "PREPARED", !.reserved = @ + Amount(q)]
      BY <2>1, <2>4 DEF Prepared
    <3> DEFINE prepared == [st.prepared EXCEPT ![q] = "PREPARED"]
               reserved == st.reserved + Amount(q)
    <3>2. prepared \in [Quotes -> {"none", "PREPARED", "PENDING_APPROVAL", "CONFIRMED"}]
      BY <1>1 DEF TrajectoryState
    <3>3. st.reserved \in Nat
      BY <1>1 DEF TrajectoryState
    <3>4. reserved \in Nat
      BY <2>2, <3>3
    <3>5. s = [st EXCEPT !.prepared = prepared, !.reserved = reserved]
      BY <1>1, <3>1 DEF TrajectoryState
    <3> HIDE DEF prepared, reserved
    <3>6. s \in TrajectoryState /\ ProgressMoves(s)
      <4>1. s \in TrajectoryState
        <5> DEFINE s1 == [st EXCEPT !.prepared = prepared]
        <5>1. s1 \in TrajectoryState
          BY <1>1, <3>2 DEF TrajectoryState
        <5>2. [s1 EXCEPT !.reserved = reserved] \in TrajectoryState
          BY <3>4, <5>1 DEF TrajectoryState
        <5> QED
          BY <1>1, <3>5, <5>2 DEF TrajectoryState
      <4>2. /\ s.status = st.status /\ s.calls = st.calls /\ s.attempts = st.attempts
            /\ s.confirms = st.confirms /\ s.notices = st.notices /\ s.pending = st.pending
            /\ s.order = st.order /\ s.fact = st.fact /\ s.vehicle = st.vehicle /\ s.quote = st.quote
            /\ s.notified = st.notified
        BY <1>1, <3>5 DEF TrajectoryState
      <4> QED
        BY <1>8, <4>1, <4>2 DEF ProgressMoves
    <3>7. /\ s.prepared = prepared /\ s.reserved = reserved /\ s.committed = st.committed
          /\ s.booked = st.booked
      BY <1>1, <3>5 DEF TrajectoryState
    <3> QED
      BY <1>8, <2>2, <2>4, <3>6, <3>7 DEF BookingMoves, prepared, reserved
  <2> QED
    BY <2>3, <2>4
<1>9. CASE call.tool = "confirm_freight_booking"
  <2>1. s = Confirmed(st, q)
    BY <1>9 DEF AfterTool
  <2>2. /\ q \in Quotes /\ Amount(q) \in Nat
        /\ st.prepared[q] \in {"PREPARED", "PENDING_APPROVAL", "CONFIRMED"}
    BY <1>1, <1>9, Quoted DEF TrajectoryState
  <2>3. CASE st.prepared[q] = "CONFIRMED"
    <3>1. s = st
      BY <2>1, <2>3 DEF Confirmed
    <3> QED
      BY <1>1, <1>9, <2>3, <3>1 DEF ProgressMoves, BookingMoves
  <2>4. CASE st.prepared[q] # "CONFIRMED"
    <3>1. s = [st EXCEPT !.prepared[q] = "CONFIRMED", !.booked = q, !.pending = None,
                 !.reserved = @ - Amount(q), !.committed = @ + Amount(q)]
      BY <2>1, <2>4 DEF Confirmed
    <3>2. With({"PREPARED", "PENDING_APPROVAL"}) \in SUBSET Quotes
          /\ q \in With({"PREPARED", "PENDING_APPROVAL"})
      BY <2>2, <2>4 DEF With
    <3>3. st.reserved >= Amount(q)
      BY <3>2, Totals DEF IInv, Spent
    <3>4. st.reserved \in Nat /\ st.committed \in Nat
      BY <1>1 DEF TrajectoryState
    <3> DEFINE prepared == [st.prepared EXCEPT ![q] = "CONFIRMED"]
               reserved == st.reserved - Amount(q)
               committed == st.committed + Amount(q)
    <3>5. reserved \in Nat /\ committed \in Nat
      BY <2>2, <3>3, <3>4
    <3>6. prepared \in [Quotes -> {"none", "PREPARED", "PENDING_APPROVAL", "CONFIRMED"}]
      BY <1>1 DEF TrajectoryState
    <3>7. s = [st EXCEPT !.prepared = prepared, !.booked = q, !.pending = None, !.reserved = reserved,
                 !.committed = committed]
      BY <1>1, <3>1 DEF TrajectoryState
    <3> HIDE DEF prepared, reserved, committed
    <3>8. s \in TrajectoryState /\ ProgressMoves(s)
      <4>1. s \in TrajectoryState
        <5> DEFINE s1 == [st EXCEPT !.prepared = prepared]
                   s2 == [s1 EXCEPT !.booked = q, !.pending = None]
        <5>1. s1 \in TrajectoryState
          BY <1>1, <3>6 DEF TrajectoryState
        <5>2. s2 \in TrajectoryState
          BY <2>2, <5>1 DEF TrajectoryState
        <5>3. [s2 EXCEPT !.reserved = reserved, !.committed = committed] \in TrajectoryState
          BY <3>5, <5>2 DEF TrajectoryState
        <5> QED
          BY <1>1, <3>7, <5>3 DEF TrajectoryState
      <4>2. /\ s.status = st.status /\ s.calls = st.calls /\ s.attempts = st.attempts
            /\ s.confirms = st.confirms /\ s.notices = st.notices /\ s.pending = st.pending
            /\ s.order = st.order /\ s.fact = st.fact /\ s.vehicle = st.vehicle /\ s.quote = st.quote
            /\ s.notified = st.notified
        BY <1>1, <3>7 DEF TrajectoryState
      <4> QED
        BY <1>9, <4>1, <4>2 DEF ProgressMoves
    <3>9. /\ s.prepared = prepared /\ s.reserved = reserved /\ s.committed = committed /\ s.booked = q
      BY <1>1, <3>7 DEF TrajectoryState
    <3> QED
      BY <1>9, <2>2, <2>4, <3>8, <3>9 DEF BookingMoves, prepared, reserved, committed
  <2> QED
    BY <2>3, <2>4
<1>10. CASE call.tool = "write_tracking_outbox"
  <2>1. s = [st EXCEPT !.notified = TRUE]
    BY <1>10 DEF AfterTool
  <2> QED
    BY <1>1, <1>10, <2>1 DEF ProgressMoves, BookingMoves, TrajectoryState
<1> QED
  BY <1>1, <1>3, <1>4, <1>5, <1>6, <1>7, <1>8, <1>9, <1>10
     DEF Tools, InventoryTools, DispatchTools, CarrierTools, CommunicationsTools

\* The governor's answer: what the tools did is recorded, the counters stay right and
\* nothing that the roles' progress rests on is undone.
LEMMA AnswerApplied ==
  ASSUME IInv, Answered, st' = StateAfterCall, UNCHANGED <<run, role, effects>>,
         call'.pc = "idle"
  PROVE  /\ st' \in TrajectoryState /\ st'.status = st.status /\ st'.pending = st.pending
         /\ Counted' /\ Recorded' /\ Spent' /\ Bound' /\ Permitted'
         /\ CommitWithinThreshold' /\ ColdChainKept'
         /\ With({"PENDING_APPROVAL"})' = With({"PENDING_APPROVAL"})
         /\ \A r : RoleDone(r) => RoleDone(r)'
         /\ call.pc # "executed" => st' = st
         /\ call.pc = "executed" =>
              /\ ProgressMoves([st' EXCEPT !.confirms = st.confirms, !.notices = st.notices])
              /\ st.pending = None
              /\ call.tool = "create_dispatch_plan" => st'.vehicle # None
              /\ st'.quote = IF call.tool = "select_carrier_quote" THEN call.args.quote ELSE st.quote
              /\ call.tool = "select_carrier_quote" => st'.quote # None
              /\ call.tool = "prepare_freight_booking" => st'.prepared[call.args.quote] # "none"
              /\ call.tool = "confirm_freight_booking" => st'.booked # None
<1> DEFINE q == call.args.quote
<1>1. st \in TrajectoryState /\ call.args \in Arguments /\ call.pc # "idle"
  BY DEF IInv, Typed, TypeOK, Answered
<1>2. /\ \A t : Targets(t)' = Targets(t)
      /\ CommitWithinThreshold' /\ ColdChainKept' /\ Bound' /\ Permitted'
  <2>1. \A t : Targets(t)' = Targets(t)
    BY DEF Targets
  <2> QED
    BY <2>1 DEF IInv, CommitWithinThreshold, ColdChainKept, Bound, Busy, Permitted
<1>3. CASE call.pc # "executed"
  <2>1. st' = st
    BY <1>3 DEF StateAfterCall
  <2>2. (\A S : With(S)' = With(S)) /\ \A r : RoleDone(r)' = RoleDone(r)
    BY <2>1 DEF With, RoleDone
  <2>3. Counted'
    <3>1. \A t \in GuidedTools : st.attempts[t] <= st.calls
      BY DEF IInv, Counted
    <3>2. st.confirms \in Nat /\ st.notices \in Nat /\ st.calls \in Nat
      BY <1>1 DEF TrajectoryState
    <3>3. st.confirms <= st.calls /\ st.notices <= st.calls
      BY <3>2 DEF IInv, Counted
    <3>4. st.confirms + 0 <= st.calls /\ st.notices + 0 <= st.calls
      BY <3>2, <3>3
    <3> QED
      BY <2>1, <3>1, <3>4 DEF Counted
  <2>4. Recorded'
    BY <1>2, <1>3, <2>1, <2>2 DEF IInv, Recorded
  <2>5. Spent'
    BY <2>1, <2>2 DEF IInv, Spent
  <2> QED
    BY <1>1, <1>2, <1>3, <2>1, <2>2, <2>3, <2>4, <2>5
<1>4. CASE call.pc = "executed"
  <2> DEFINE s == AfterTool(st, call)
             more == IF call.tool = "confirm_freight_booking" THEN 1 ELSE 0
             sent == IF call.tool = "write_tracking_outbox" THEN 1 ELSE 0
  <2>1. s \in TrajectoryState /\ ProgressMoves(s) /\ BookingMoves(s, q)
    BY <1>4, ToolApplied
  <2>2. st' = [s EXCEPT !.confirms = @ + more, !.notices = @ + sent]
    BY <1>4 DEF StateAfterCall
  <2> HIDE DEF s
  <2>3. /\ st.confirms \in Nat /\ st.notices \in Nat /\ st.calls \in 0..MaxToolCalls /\ st.calls \in Nat
        /\ s.confirms = st.confirms /\ s.notices = st.notices /\ s.calls = st.calls
        /\ MaxToolCalls \in Nat
    BY <1>1, <2>1, RunAssumption DEF TrajectoryState, ProgressMoves
  <2>4. more \in {0, 1} /\ sent \in {0, 1}
    OBVIOUS
  <2> HIDE DEF more, sent
  <2>5. st.confirms + 1 <= st.calls /\ st.notices + 1 <= st.calls
    BY <1>4 DEF IInv, Counted
  <2>6. /\ st.confirms + more \in 0..MaxToolCalls /\ st.notices + sent \in 0..MaxToolCalls
        /\ st.confirms + more <= st.calls /\ st.notices + sent <= st.calls
        /\ (st.confirms + more) + 0 <= st.calls /\ (st.notices + sent) + 0 <= st.calls
    BY <2>3, <2>4, <2>5
  <2>7. st' = [s EXCEPT !.confirms = st.confirms + more, !.notices = st.notices + sent]
    BY <2>1, <2>2, <2>3 DEF TrajectoryState
  <2> DEFINE confirms == st.confirms + more
             notices == st.notices + sent
  <2>8. confirms \in 0..MaxToolCalls /\ notices \in 0..MaxToolCalls
    BY <2>6
  <2>9. st' = [s EXCEPT !.confirms = confirms, !.notices = notices]
    BY <2>7
  <2> HIDE DEF confirms, notices
  <2>10. st' \in TrajectoryState
    BY <2>1, <2>8, <2>9 DEF TrajectoryState
  <2>11. /\ st'.status = s.status /\ st'.order = s.order /\ st'.fact = s.fact /\ st'.vehicle = s.vehicle
         /\ st'.quote = s.quote /\ st'.prepared = s.prepared /\ st'.committed = s.committed
         /\ st'.reserved = s.reserved /\ st'.pending = s.pending /\ st'.booked = s.booked
         /\ st'.notified = s.notified /\ st'.calls = s.calls /\ st'.attempts = s.attempts
         /\ st'.confirms = confirms /\ st'.notices = notices
    BY <2>1, <2>9 DEF TrajectoryState
  <2>12. ProgressMoves([st' EXCEPT !.confirms = st.confirms, !.notices = st.notices])
    <3>1. [st' EXCEPT !.confirms = st.confirms, !.notices = st.notices] = s
      BY <2>1, <2>3, <2>9 DEF TrajectoryState
    <3> QED
      BY <2>1, <3>1
  <2>13. /\ st'.status = st.status /\ st'.pending = st.pending /\ st.pending = None
         /\ st.order => st'.order
         /\ st.fact => st'.fact
         /\ st'.vehicle = IF call.tool = "create_dispatch_plan" THEN call.args.vehicle ELSE st.vehicle
         /\ st'.quote = IF call.tool = "select_carrier_quote" THEN q ELSE st.quote
         /\ st.notified => st'.notified
         /\ st'.notified => st.notified \/ call.tool = "write_tracking_outbox"
    BY <1>4, <2>1, <2>11 DEF ProgressMoves, IInv, Escalated, Busy
  <2>14. Counted'
    <3>1. \A t \in GuidedTools : st.attempts[t] <= st.calls
      BY DEF IInv, Counted
    <3>2. st'.calls = st.calls /\ st'.attempts = st.attempts
      BY <2>1, <2>11 DEF ProgressMoves
    <3>3. st'.confirms + 0 <= st'.calls /\ st'.notices + 0 <= st'.calls
      BY <2>6, <2>11, <3>2 DEF confirms, notices
    <3> QED
      BY <3>1, <3>2, <3>3 DEF Counted
  <2>15. /\ call.tool = "create_dispatch_plan" => call.args.vehicle \in Vehicles
         /\ call.tool \in QuoteTools => q \in Quotes
         /\ call.tool = "confirm_freight_booking" => q \in Quotes
    BY <1>1, <1>4, Accepted DEF IInv, Bound, Busy
  <2>16. /\ call.tool = "create_dispatch_plan" => call.args.vehicle # None
         /\ call.tool \in QuoteTools \cup {"confirm_freight_booking"} => q # None
    BY <2>15, RunAssumption
  <2>17. EffectOf(call) \subseteq effects
    BY <1>4 DEF IInv, Bound
  <2>18. BookingMoves(st', q)
    BY <2>1, <2>11 DEF BookingMoves
  <2>19. /\ call.tool = "create_dispatch_plan" => call.args.vehicle \in Targets("create_dispatch_plan")
         /\ call.tool = "prepare_freight_booking" => q \in Targets("prepare_freight_booking")
         /\ call.tool = "confirm_freight_booking" => q \in Targets("confirm_freight_booking")
         /\ call.tool = "write_tracking_outbox" => Targets("write_tracking_outbox") # {}
    <3> DEFINE target == IF call.tool = "create_dispatch_plan" THEN call.args.vehicle
                         ELSE IF call.tool = "write_tracking_outbox" THEN st.quote ELSE q
               weight == IF call.tool = "create_dispatch_plan" THEN call.args.weight ELSE Weight
               e == [tool |-> call.tool, target |-> target, weight |-> weight]
    <3>1. call.tool \notin ReadTools => EffectOf(call) = {e}
      BY DEF EffectOf
    <3>2. e.tool = call.tool /\ e.target = target
      OBVIOUS
    <3> HIDE DEF e, target
    <3>3. call.tool \notin ReadTools => target \in Targets(call.tool)
      BY <2>17, <3>1, <3>2 DEF Targets
    <3> QED
      BY <3>3 DEF target, ReadTools
  <2> DEFINE C == With({"CONFIRMED"})
             P == With({"PREPARED", "PENDING_APPROVAL"})
             A == With({"PREPARED", "PENDING_APPROVAL", "CONFIRMED"})
             E == With({"PENDING_APPROVAL"})
  <2>20. /\ A \subseteq Targets("prepare_freight_booking") /\ C \subseteq Targets("confirm_freight_booking")
         /\ \A p \in Targets("confirm_freight_booking") :
              /\ p \in Targets("prepare_freight_booking")
              /\ p \in C \/ (call.tool = "confirm_freight_booking" /\ p = q)
         /\ st.booked # None => st.booked \in C
         /\ st.booked = None => C = {}
         /\ E = {} /\ E \in SUBSET Quotes /\ C \in SUBSET Quotes /\ P \in SUBSET Quotes
    <3>1. E = {}
      BY <2>13 DEF IInv, Escalated
    <3>2. E \in SUBSET Quotes /\ C \in SUBSET Quotes /\ P \in SUBSET Quotes
      BY DEF With
    <3> QED
      BY <3>1, <3>2 DEF IInv, Recorded
  <2>21. st.prepared \in [Quotes -> {"none", "PREPARED", "PENDING_APPROVAL", "CONFIRMED"}]
    BY <1>1 DEF TrajectoryState
  <2>22. /\ st.committed = run.prior + TotalAmount(C) /\ st.reserved = TotalAmount(P)
         /\ TotalAmount(C) \in Nat /\ TotalAmount(P) \in Nat /\ run.prior \in Nat
    <3>1. TotalAmount(C) \in Nat /\ TotalAmount(P) \in Nat
      BY <2>20, Totals
    <3>2. run.prior \in Nat
      BY DEF IInv, Typed, TypeOK, RunRecord
    <3> QED
      BY <3>1, <3>2 DEF IInv, Spent
  <2>23. /\ Spent' /\ E' = E
         /\ A' \subseteq Targets("prepare_freight_booking") /\ C' \subseteq Targets("confirm_freight_booking")
         /\ Targets("confirm_freight_booking") \subseteq C'
         /\ st'.booked # None => st'.booked \in C'
         /\ st'.booked = None => C' = {}
         /\ st.booked # None => st'.booked # None
         /\ call.tool = "confirm_freight_booking" => st'.booked # None
         /\ call.tool = "prepare_freight_booking" => st'.prepared[q] # "none"
    <3>1. CASE /\ st'.prepared = st.prepared /\ st'.committed = st.committed
               /\ st'.reserved = st.reserved /\ st'.booked = st.booked
               /\ call.tool = "prepare_freight_booking" => st.prepared[q] # "none"
               /\ call.tool = "confirm_freight_booking" => st.prepared[q] = "CONFIRMED"
      <4>1. C' = C /\ P' = P /\ A' = A /\ E' = E
        BY <3>1 DEF With
      <4>2. call.tool = "confirm_freight_booking" => q \in C
        BY <2>15, <3>1 DEF With
      <4>3. Spent'
        BY <2>22, <3>1, <4>1 DEF Spent
      <4> HIDE DEF C, P, A, E
      <4> QED
        BY <2>20, <3>1, <4>1, <4>2, <4>3
    <3>2. CASE /\ call.tool = "prepare_freight_booking" /\ q \in Quotes /\ st.prepared[q] = "none"
               /\ st'.prepared = [st.prepared EXCEPT ![q] = "PREPARED"]
               /\ st'.reserved = st.reserved + Amount(q)
               /\ st'.committed = st.committed /\ st'.booked = st.booked
      <4>1. C' = C /\ P' = P \cup {q} /\ A' = A \cup {q} /\ E' = E /\ q \in Quotes \ P
        BY <2>21, <3>2 DEF With
      <4>2. Spent'
        <5>1. TotalAmount(P)' = TotalAmount(P \cup {q}) /\ TotalAmount(C)' = TotalAmount(C)
          BY <4>1
        <5>2. TotalAmount(P \cup {q}) = TotalAmount(P) + Amount(q)
          BY <2>20, <4>1, Totals
        <5> QED
          BY <2>22, <3>2, <5>1, <5>2 DEF Spent
      <4>3. st'.prepared[q] # "none"
        BY <2>21, <3>2
      <4> HIDE DEF C, P, A, E
      <4> QED
        BY <2>19, <2>20, <3>2, <4>1, <4>2, <4>3
    <3>3. CASE /\ call.tool = "confirm_freight_booking" /\ q \in Quotes
               /\ st.prepared[q] \in {"PREPARED", "PENDING_APPROVAL"}
               /\ st'.prepared = [st.prepared EXCEPT ![q] = "CONFIRMED"]
               /\ st'.reserved = st.reserved - Amount(q)
               /\ st'.committed = st.committed + Amount(q) /\ st'.booked = q
      <4>1. /\ C' = C \cup {q} /\ P' = P \ {q} /\ A' = A /\ E' = E \ {q}
            /\ q \in Quotes \ C /\ q \in P
        BY <2>21, <3>3 DEF With
      <4>2. Spent'
        <5>1. TotalAmount(P)' = TotalAmount(P \ {q}) /\ TotalAmount(C)' = TotalAmount(C \cup {q})
          BY <4>1
        <5>2. /\ TotalAmount(P \ {q}) = TotalAmount(P) - Amount(q)
              /\ TotalAmount(C \cup {q}) = TotalAmount(C) + Amount(q)
          BY <2>20, <4>1, Totals
        <5>3. Amount(q) \in Nat
          BY <3>3, Quoted
        <5>4. (run.prior + TotalAmount(C)) + Amount(q) = run.prior + (TotalAmount(C) + Amount(q))
          BY <2>22, <5>3
        <5> QED
          BY <2>22, <3>3, <5>1, <5>2, <5>4 DEF Spent
      <4> HIDE DEF C, P, A, E
      <4> QED
        BY <2>16, <2>19, <2>20, <3>3, <4>1, <4>2
    <3> QED
      BY <2>18, <3>1, <3>2, <3>3 DEF BookingMoves
  <2>24. Recorded'
    <3>1. st'.vehicle # None => st'.vehicle \in Targets("create_dispatch_plan")
      BY <2>13, <2>19 DEF IInv, Recorded
    <3>2. st'.notified => Targets("write_tracking_outbox") # {}
      BY <2>13, <2>19 DEF IInv, Recorded
    <3>3. Targets("write_tracking_outbox") # {} => role' = 4
      BY DEF IInv, Recorded
    <3> QED
      BY <1>2, <2>20, <2>23, <3>1, <3>2, <3>3 DEF Recorded
  <2>25. st.quote # None => st'.quote # None
    BY <2>13, <2>16 DEF QuoteTools
  <2>26. \A r : RoleDone(r) => RoleDone(r)'
    BY <2>13, <2>16, <2>23, <2>25 DEF RoleDone
  <2> QED
    BY <1>2, <1>4, <2>10, <2>12, <2>13, <2>14, <2>16, <2>23, <2>24, <2>26 DEF QuoteTools
<1> QED
  BY <1>3, <1>4

\* What a deterministic agent does with an answer, by its place in the script.
LEMMA ScriptGoesOn ==
  ASSUME IInv, Legacy, main = "agent", Answered
  PROVE  \/ NextStep \in {"blocked", "failed"}
         \/ NextStep = "returned" /\ call.pc = "ESCALATE"
         \/ /\ NextStep = "returned" /\ call.pc = "executed"
            /\ step \in {"check_inventory", "create_dispatch_plan", "replan", "confirm_freight_booking",
                         "write_tracking_outbox"}
         \/ /\ call.pc = "executed"
            /\ \/ step = "get_order" /\ NextStep = "check_inventory"
               \/ step = "list_available_vehicles" /\ NextStep = "create_dispatch_plan"
               \/ step = "list_carrier_quotes" /\ NextStep = "select_carrier_quote"
               \/ step \in {"select_carrier_quote", "reselect"} /\ NextStep = "prepare_freight_booking"
               \/ step = "prepare_freight_booking" /\ NextStep = "confirm_freight_booking"
         \/ /\ call.pc = "GUIDE" /\ step = "create_dispatch_plan" /\ NextStep = "replan"
            /\ VehicleCandidates(call.verdict) # {}
         \/ /\ call.pc = "GUIDE" /\ step = "select_carrier_quote" /\ NextStep = "reselect"
            /\ QuoteCandidates # {}
<1>1. step \in ScriptSteps[role] /\ role \in 0..4 /\ role > 0
  BY DEF IInv, Typed, TypeOK, Placed, Scripted, RoleOrder
<1>2. role = 1 \/ role = 2 \/ role = 3 \/ role = 4
  BY <1>1
<1>3. step \in {"get_order", "check_inventory", "list_available_vehicles", "create_dispatch_plan", "replan",
                "list_carrier_quotes", "select_carrier_quote", "reselect", "prepare_freight_booking",
                "confirm_freight_booking", "write_tracking_outbox"}
  BY <1>1, <1>2 DEF ScriptSteps
<1>4. CASE call.pc = "executed"
  <2>1. NextStep = AfterValue
    BY <1>4 DEF NextStep
  <2> QED
    BY <1>3, <1>4, <2>1 DEF AfterValue
<1>5. CASE call.pc = "GUIDE"
  <2>1. NextStep = AfterGuide
    BY <1>5 DEF NextStep
  <2> QED
    BY <1>3, <1>5, <2>1 DEF AfterGuide
<1>6. CASE call.pc = "BLOCK"
  BY <1>6 DEF NextStep, AfterBlock
<1>7. CASE call.pc = "ESCALATE"
  BY <1>7 DEF NextStep
<1>8. CASE call.pc = "raised"
  BY <1>8 DEF NextStep
<1> QED
  BY <1>4, <1>5, <1>6, <1>7, <1>8 DEF Answered

\* The call returns to the deterministic agent.
LEMMA AgentContinuesInv == ASSUME IInv, AgentContinues PROVE IInv'
<1> DEFINE q == call.args.quote
<1>1. /\ Legacy /\ Answered /\ st' = StateAfterCall
      /\ call' = [NoCall EXCEPT !.verdict = call.verdict]
      /\ IF NextStep \in {"returned", "blocked", "failed"}
         THEN main' = NextStep /\ step' = "none"
         ELSE step' = NextStep /\ main' = main
      /\ UNCHANGED <<run, role, ctx, effects>>
  BY DEF AgentContinues, Legacy
<1>2. /\ call \in CallRecord /\ call.pc # "idle" /\ main = "agent" /\ role > 0 /\ role \in 0..4
      /\ st.status = "RUNNING" /\ ~ctx.working
  BY <1>1 DEF IInv, Typed, TypeOK, Placed, Abandoned, Answered, RoleOrder
<1>3. /\ call' \in CallRecord /\ call'.pc = "idle" /\ call'.verdict = call.verdict /\ Legacy' = Legacy
      /\ call'.args \in Arguments
  <2>1. NoArguments \in Arguments
    BY RunAssumption DEF NoArguments, Arguments, None
  <2>2. call.verdict \in SUBSET PolicyIds
    BY <1>2 DEF CallRecord
  <2>3. call' = [pc |-> "idle", tool |-> "none", args |-> NoArguments, verdict |-> call.verdict]
    BY <1>1 DEF NoCall
  <2>4. Legacy' = Legacy
    BY <1>1 DEF Legacy, Runtime
  <2> QED
    BY <2>1, <2>2, <2>3, <2>4 DEF CallRecord, Pcs
<1>4. /\ st' \in TrajectoryState /\ st'.status = st.status /\ st'.pending = st.pending
      /\ Counted' /\ Recorded' /\ Spent' /\ Bound' /\ Permitted'
      /\ CommitWithinThreshold' /\ ColdChainKept'
      /\ With({"PENDING_APPROVAL"})' = With({"PENDING_APPROVAL"})
      /\ \A r : RoleDone(r) => RoleDone(r)'
      /\ call.pc # "executed" => st' = st
      /\ call.pc = "executed" =>
           /\ ProgressMoves([st' EXCEPT !.confirms = st.confirms, !.notices = st.notices])
           /\ st.pending = None
           /\ call.tool = "create_dispatch_plan" => st'.vehicle # None
           /\ st'.quote = IF call.tool = "select_carrier_quote" THEN q ELSE st.quote
           /\ call.tool = "select_carrier_quote" => st'.quote # None
           /\ call.tool = "prepare_freight_booking" => st'.prepared[q] # "none"
           /\ call.tool = "confirm_freight_booking" => st'.booked # None
  BY <1>1, <1>3, AnswerApplied
<1>5. call.pc = "executed" =>
        /\ st.order \/ call.tool = "get_order" => st'.order
        /\ st.fact \/ call.tool = "check_inventory" => st'.fact
        /\ call.tool = "write_tracking_outbox" => st'.notified
  <2>1. LET s == [st' EXCEPT !.confirms = st.confirms, !.notices = st.notices]
        IN  s.order = st'.order /\ s.fact = st'.fact /\ s.notified = st'.notified
    BY <1>4 DEF TrajectoryState
  <2> QED
    BY <1>4, <2>1 DEF ProgressMoves
<1>6. /\ step \in ScriptSteps[role] /\ call.tool = ScriptTool
      /\ step = "check_inventory" => st.order
      /\ step \in {"prepare_freight_booking", "confirm_freight_booking"} => st.quote # None /\ q = st.quote
      /\ role = 1 \/ role = 2 \/ role = 3 \/ role = 4
  BY <1>1, <1>2 DEF IInv, Scripted
<1>7. /\ step \in {"get_order", "check_inventory"} => role = 1
      /\ step \in {"list_available_vehicles", "create_dispatch_plan", "replan"} => role = 2
      /\ step \in {"list_carrier_quotes", "select_carrier_quote", "reselect", "prepare_freight_booking",
                   "confirm_freight_booking"} => role = 3
      /\ step = "write_tracking_outbox" => role = 4
  BY <1>6 DEF ScriptSteps
<1>8. CASE NextStep \in {"returned", "blocked", "failed"}
  <2>1. main' = NextStep /\ step' = "none"
    BY <1>1, <1>8
  <2>2. Typed'
    <3>1. ctx \in Invocation /\ run \in RunRecord /\ effects \subseteq Effects
      BY DEF IInv, Typed, TypeOK
    <3> QED
      BY <1>1, <1>2, <1>3, <1>4, <1>8, <2>1, <3>1 DEF Typed, TypeOK, Steps, RoleOrder
  <2>3. Placed'
    BY <1>1, <1>2, <1>3, <1>4, <1>8, <2>1 DEF Placed
  <2>4. NextStep = "returned" => RoleDone(role)'
    <3>1. CASE call.pc = "ESCALATE"
      <4>1. st.pending # None /\ ScriptTool = "confirm_freight_booking"
        BY <1>6, <3>1 DEF IInv, Escalated
      <4>2. step = "confirm_freight_booking"
        BY <4>1 DEF ScriptTool
      <4>3. role = 3 /\ st.quote # None /\ st' = st
        BY <1>4, <1>6, <1>7, <3>1, <4>2
      <4> QED
        BY <1>1, <4>1, <4>3 DEF RoleDone
    <3>2. CASE /\ call.pc = "executed"
               /\ step \in {"check_inventory", "create_dispatch_plan", "replan", "confirm_freight_booking",
                            "write_tracking_outbox"}
      <4>1. CASE step = "check_inventory"
        <5>1. call.tool = "check_inventory" /\ role' = 1
          BY <1>1, <1>6, <1>7, <4>1 DEF ScriptTool
        <5>2. st'.order /\ st'.fact
          BY <1>5, <1>6, <3>2, <4>1, <5>1
        <5> QED
          BY <5>1, <5>2 DEF RoleDone
      <4>2. CASE step \in {"create_dispatch_plan", "replan"}
        <5>1. call.tool = "create_dispatch_plan" /\ role' = 2
          BY <1>1, <1>6, <1>7, <4>2 DEF ScriptTool
        <5>2. st'.vehicle # None
          BY <1>4, <3>2, <5>1
        <5> QED
          BY <5>1, <5>2 DEF RoleDone
      <4>3. CASE step = "confirm_freight_booking"
        <5>1. call.tool = "confirm_freight_booking" /\ role' = 3
          BY <1>1, <1>6, <1>7, <4>3 DEF ScriptTool
        <5>2. st'.booked # None /\ st'.quote # None
          BY <1>4, <1>6, <3>2, <4>3, <5>1
        <5> QED
          BY <5>1, <5>2 DEF RoleDone
      <4>4. CASE step = "write_tracking_outbox"
        <5>1. call.tool = "write_tracking_outbox" /\ role' = 4
          BY <1>1, <1>6, <1>7, <4>4 DEF ScriptTool
        <5>2. st'.notified
          BY <1>5, <3>2, <5>1
        <5> QED
          BY <5>1, <5>2 DEF RoleDone
      <4> QED
        BY <3>2, <4>1, <4>2, <4>3, <4>4
    <3> QED
      BY <1>1, <1>2, <3>1, <3>2, ScriptGoesOn
  <2>5. Staged'
    BY <1>1, <1>2, <1>4, <2>1, <2>4 DEF IInv, Staged
  <2>6. Scripted'
    BY <1>8, <2>1 DEF Scripted
  <2>7. Escalated'
    BY <1>1, <1>3, <1>4, <1>8, <2>1 DEF IInv, Escalated
  <2> QED
    BY <1>4, <2>2, <2>3, <2>5, <2>6, <2>7 DEF IInv
<1>9. CASE NextStep \notin {"returned", "blocked", "failed"}
  <2>1. main' = "agent" /\ step' = NextStep
    BY <1>1, <1>2, <1>9
  <2>2. \/ /\ call.pc = "executed"
           /\ \/ step = "get_order" /\ NextStep = "check_inventory"
              \/ step = "list_available_vehicles" /\ NextStep = "create_dispatch_plan"
              \/ step = "list_carrier_quotes" /\ NextStep = "select_carrier_quote"
              \/ step \in {"select_carrier_quote", "reselect"} /\ NextStep = "prepare_freight_booking"
              \/ step = "prepare_freight_booking" /\ NextStep = "confirm_freight_booking"
        \/ /\ call.pc = "GUIDE" /\ step = "create_dispatch_plan" /\ NextStep = "replan"
           /\ VehicleCandidates(call.verdict) # {}
        \/ /\ call.pc = "GUIDE" /\ step = "select_carrier_quote" /\ NextStep = "reselect"
           /\ QuoteCandidates # {}
    BY <1>1, <1>2, <1>9, ScriptGoesOn
  <2>3. st.pending = None
    BY <1>4, <2>2 DEF IInv, Escalated
  <2>4. Typed'
    <3>1. ctx \in Invocation /\ run \in RunRecord /\ effects \subseteq Effects
      BY DEF IInv, Typed, TypeOK
    <3>2. NextStep \in Steps
      BY <2>2 DEF Steps, Tools, InventoryTools, DispatchTools, CarrierTools
    <3> QED
      BY <1>1, <1>2, <1>3, <1>4, <2>1, <3>1, <3>2 DEF Typed, TypeOK, RoleOrder
  <2>5. Placed'
    BY <1>1, <1>2, <1>3, <1>4, <2>1 DEF Placed
  <2>6. Staged'
    BY <1>1, <1>2, <1>4, <2>1 DEF IInv, Staged
  <2>7. Scripted'
    <3>1. step' \in ScriptSteps[role]
      BY <1>7, <2>1, <2>2 DEF ScriptSteps
    <3>2. step' = "check_inventory" => st'.order
      <4>1. step' = "check_inventory" => call.pc = "executed" /\ call.tool = "get_order"
        BY <1>6, <2>1, <2>2 DEF ScriptTool
      <4> QED
        BY <1>5, <4>1
    <3>3. step' = "prepare_freight_booking" => st'.quote # None
      <4>1. step' = "prepare_freight_booking" => call.pc = "executed" /\ call.tool = "select_carrier_quote"
        BY <1>6, <2>1, <2>2 DEF ScriptTool
      <4> QED
        BY <1>4, <4>1
    <3>4. step' = "confirm_freight_booking" => st'.quote # None /\ st'.prepared[st'.quote] # "none"
      <4>1. step' = "confirm_freight_booking" =>
              call.pc = "executed" /\ call.tool = "prepare_freight_booking" /\ step = "prepare_freight_booking"
        BY <1>6, <2>1, <2>2 DEF ScriptTool
      <4> QED
        BY <1>4, <1>6, <4>1
    <3>5. step' = "replan" => VehicleCandidates(call'.verdict) # {}
      BY <1>3, <2>1, <2>2
    <3>6. step' = "reselect" => QuoteCandidates # {}
      BY <2>1, <2>2
    <3>7. /\ QuoteCandidates' = QuoteCandidates
          /\ VehicleCandidates(call.verdict)' = VehicleCandidates(call'.verdict)
      BY DEF QuoteCandidates, VehicleCandidates
    <3> QED
      BY <1>1, <1>3, <3>1, <3>2, <3>3, <3>4, <3>5, <3>6, <3>7 DEF Scripted
  <2>8. Escalated'
    BY <1>1, <1>3, <1>4, <2>3 DEF IInv, Escalated
  <2> QED
    BY <1>4, <2>4, <2>5, <2>6, <2>7, <2>8 DEF IInv
<1> QED
  BY <1>8, <1>9

\* The governor's result goes back to the model.
LEMMA ModelAnsweredInv == ASSUME IInv, ModelAnswered PROVE IInv'
<1>1. /\ ~Legacy /\ Answered /\ st' = StateAfterCall /\ call' = NoCall
      /\ UNCHANGED <<run, main, role, step, effects>>
  BY DEF ModelAnswered, Legacy
<1>2. /\ call \in CallRecord /\ call.pc # "idle" /\ role > 0 /\ role \in 0..4 /\ ctx \in Invocation
      /\ main = "agent" \/ Abandoned
      /\ st.status # "COMPLETED" /\ call.tool \in Tools
  BY <1>1 DEF IInv, Typed, TypeOK, Placed, Abandoned, Answered, RoleOrder, AllowedTools
<1>3. /\ call' \in CallRecord /\ call'.pc = "idle" /\ Legacy' = Legacy /\ call'.args \in Arguments
  <2>1. NoArguments \in Arguments
    BY RunAssumption DEF NoArguments, Arguments, None
  <2>2. Legacy' = Legacy
    BY <1>1 DEF Legacy, Runtime
  <2> QED
    BY <1>1, <2>1, <2>2 DEF CallRecord, Pcs, NoCall
<1>4. /\ st' \in TrajectoryState /\ st'.status = st.status /\ st'.pending = st.pending
      /\ Counted' /\ Recorded' /\ Spent' /\ Bound' /\ Permitted'
      /\ CommitWithinThreshold' /\ ColdChainKept'
      /\ With({"PENDING_APPROVAL"})' = With({"PENDING_APPROVAL"})
      /\ \A r : RoleDone(r) => RoleDone(r)'
      /\ call.pc # "executed" => st' = st
  BY <1>1, <1>3, AnswerApplied
<1>5. /\ ctx' \in Invocation /\ ctx'.closed = ctx.closed /\ ctx'.working = ctx.working
      /\ ctx.terminal \/ call.pc = "ESCALATE" => ctx'.terminal
  <2> DEFINE terminal == ctx.terminal \/ call.pc \in {"BLOCK", "ESCALATE"}
             blocked == ctx.blocked \/ call.pc = "BLOCK"
             entry == [tool |-> call.tool, guided |-> call.pc = "GUIDE", verdict |-> call.verdict]
             history == IF Runtime = "recorded" /\ call.pc # "raised" THEN Append(ctx.history, entry)
                        ELSE ctx.history
  <2>1. ctx' = [ctx EXCEPT !.terminal = terminal, !.blocked = blocked, !.history = history]
    BY <1>2 DEF ModelAnswered, Invocation
  <2>2. entry \in [tool : Tools, guided : BOOLEAN, verdict : SUBSET PolicyIds]
    BY <1>2 DEF CallRecord
  <2>3. ctx.history \in Seq([tool : Tools, guided : BOOLEAN, verdict : SUBSET PolicyIds])
    BY <1>2 DEF Invocation
  <2> HIDE DEF entry
  <2> DEFINE Entries == [tool : Tools, guided : BOOLEAN, verdict : SUBSET PolicyIds]
  <2>4. history \in Seq(Entries)
    <3>1. entry \in Entries /\ ctx.history \in Seq(Entries)
      BY <2>2, <2>3
    <3> HIDE DEF Entries
    <3>2. Append(ctx.history, entry) \in Seq(Entries)
      BY <3>1
    <3> QED
      BY <3>1, <3>2
  <2>5. terminal \in BOOLEAN /\ blocked \in BOOLEAN
    OBVIOUS
  <2>6. ctx.terminal \/ call.pc = "ESCALATE" => terminal
    OBVIOUS
  <2> HIDE DEF terminal, blocked, history
  <2> QED
    BY <1>2, <2>1, <2>4, <2>5, <2>6 DEF Invocation
<1>6. Typed'
  <2>1. run \in RunRecord /\ effects \subseteq Effects /\ step \in Steps
        /\ main \in {"loop", "agent", "returned", "blocked", "failed", "done"}
    BY DEF IInv, Typed, TypeOK
  <2> QED
    BY <1>1, <1>2, <1>3, <1>4, <1>5, <2>1 DEF Typed, TypeOK, RoleOrder
<1>7. Placed'
  <2>1. Abandoned' = Abandoned
    BY <1>1, <1>3, <1>4, <1>5 DEF Abandoned
  <2> QED
    BY <1>1, <1>3, <1>4, <1>5, <2>1 DEF IInv, Placed
<1>8. Staged'
  BY <1>1, <1>2, <1>4 DEF IInv, Staged
<1>9. Scripted'
  BY <1>1, <1>3 DEF Scripted
<1>10. Escalated'
  <2>1. st.pending # None => call.pc = "ESCALATE" /\ st' = st
    BY <1>2, <1>4 DEF IInv, Escalated
  <2> QED
    BY <1>1, <1>3, <1>4, <1>5, <2>1 DEF IInv, Escalated, Busy
<1> QED
  BY <1>4, <1>6, <1>7, <1>8, <1>9, <1>10 DEF IInv

-----------------------------------------------------------------------------
(* Every step, and the theorems.                                            *)

\* Every step keeps the invariant.
LEMMA NextInv == IInv /\ [Next]_vars => IInv'
<1> SUFFICES ASSUME IInv, [Next]_vars PROVE IInv'
  OBVIOUS
<1>1. CASE UNCHANGED vars
  <2>1. UNCHANGED <<run, main, role, step, ctx, call, st, effects>>
    BY <1>1 DEF vars
  <2>2. /\ \A S : With(S)' = With(S)
        /\ \A t : Targets(t)' = Targets(t)
        /\ \A r : RoleDone(r)' = RoleDone(r)
        /\ Legacy' = Legacy /\ AllowedTools' = AllowedTools /\ Abandoned' = Abandoned /\ Busy' = Busy
    BY <2>1 DEF With, Targets, RoleDone, Legacy, Runtime, AllowedTools, Abandoned, Busy
  <2>3. Typed' /\ Placed' /\ Counted'
    BY <2>1, <2>2 DEF IInv, Typed, TypeOK, Placed, Counted
  <2>4. Staged' /\ Spent' /\ CommitWithinThreshold' /\ ColdChainKept'
    BY <2>1, <2>2 DEF IInv, Staged, Spent, CommitWithinThreshold, ColdChainKept
  <2>5. Scripted'
    <3>1. ScriptTool' = ScriptTool /\ QuoteCandidates' = QuoteCandidates
      BY <2>1 DEF ScriptTool, QuoteCandidates
    <3> QED
      BY <2>1, <2>2, <3>1 DEF IInv, Scripted
  <2>6. Bound' /\ Permitted'
    <3>1. Refuses(call)' = Refuses(call) /\ EffectOf(call)' = EffectOf(call)
      BY <2>1 DEF Refuses, EffectOf
    <3> QED
      BY <2>1, <2>2, <3>1 DEF IInv, Bound, Permitted
  <2>7. Recorded' /\ Escalated'
    BY <2>1, <2>2 DEF IInv, Recorded, Escalated
  <2> QED
    BY <2>3, <2>4, <2>5, <2>6, <2>7 DEF IInv
<1>2. CASE Governor
  BY <1>2, AttemptInv, DecideInv, ExecuteInv DEF Governor
<1>3. CASE Agent
  BY <1>3, AgentCallsInv, AgentContinuesInv DEF Agent
<1>4. CASE Model
  BY <1>4, ModelCallsInv, ModelAnsweredInv, ModelReturnsInv, ProviderFailsInv DEF Model
<1>5. CASE Timeout
  BY <1>5, TimeoutInv
<1>6. CASE Orchestrator
  BY <1>6, StartAgentInv, AgentReturnedInv, EndRunInv, RunRaisesInv DEF Orchestrator
<1> QED
  BY <1>1, <1>2, <1>3, <1>4, <1>5, <1>6 DEF Next

\* The invariant accounts for the spend ...
LEMMA SpendHeld == IInv => SpendConserved
<1>1. ASSUME IInv PROVE SpendConserved
  <2>1. Spent
    BY <1>1 DEF IInv
  <2>2. /\ With({"CONFIRMED"}) \subseteq Targets("confirm_freight_booking")
        /\ \A q \in Targets("confirm_freight_booking") : q \in Targets("prepare_freight_booking")
    BY <1>1 DEF IInv, Recorded
  <2> QED
    BY <2>1, <2>2 DEF Spent, SpendConserved
<1> QED
  BY <1>1

\* ... for what a COMPLETED run did ...
LEMMA CompletedHeld == IInv => CompletedTruthful
<1>1. ASSUME IInv, st.status = "COMPLETED" PROVE CompletedTruthful
  <2>1. role = 4 /\ RoleDone(4) /\ st.pending = None
    BY <1>1 DEF IInv, Staged
  <2>2. RoleDone(2) /\ RoleDone(3)
    <3>1. \A r \in 1..4 : r < role => RoleDone(r)
      BY <1>1 DEF IInv, Staged
    <3>2. 2 \in 1..4 /\ 3 \in 1..4 /\ 2 < 4 /\ 3 < 4
      OBVIOUS
    <3> QED
      BY <2>1, <3>1, <3>2
  <2>3. st.notified /\ st.vehicle # None /\ st.booked # None
    BY <2>1, <2>2 DEF RoleDone
  <2>4. /\ st.vehicle \in Targets("create_dispatch_plan") /\ Targets("write_tracking_outbox") # {}
        /\ st.booked \in With({"CONFIRMED"}) /\ With({"CONFIRMED"}) \subseteq Targets("confirm_freight_booking")
    BY <1>1, <2>3 DEF IInv, Recorded
  <2> QED
    BY <2>1, <2>4 DEF CompletedTruthful, With
<1>2. IInv => CompletedTruthful
  BY <1>1 DEF CompletedTruthful
<1> QED
  BY <1>2

\* ... and for what a paused one waits for.
LEMMA PausedHeld == IInv => PausedApprovable
<1>1. ASSUME IInv, st.status = "PENDING_APPROVAL" PROVE PausedApprovable
  <2> DEFINE P == With({"PREPARED", "PENDING_APPROVAL"})
  <2>1. st.pending # None
    BY <1>1 DEF IInv, Staged
  <2>2. /\ With({"PENDING_APPROVAL"}) = {st.pending} /\ role = 3 /\ call.pc \in {"idle", "ESCALATE"}
        /\ st.committed + st.reserved > run.threshold
    BY <1>1, <2>1 DEF IInv, Escalated
  <2>3. st.pending \in P /\ P \in SUBSET Quotes /\ st.pending \notin With({"CONFIRMED"})
    BY <2>2 DEF With
  <2>4. st.reserved >= Amount(st.pending)
    BY <1>1, <2>3, Totals DEF IInv, Spent
  <2>5. st.pending \notin Targets("confirm_freight_booking") /\ Targets("write_tracking_outbox") = {}
    BY <1>1, <2>2, <2>3 DEF IInv, Recorded
  <2> QED
    BY <2>2, <2>4, <2>5 DEF PausedApprovable
<1>2. IInv => PausedApprovable
  BY <1>1 DEF PausedApprovable
<1> QED
  BY <1>2

\* What is promised of any run.
LEMMA Promised ==
  IInv => /\ SpendConserved /\ CommitWithinThreshold /\ ColdChainKept /\ CompletedTruthful
          /\ PausedApprovable
  BY SpendHeld, CompletedHeld, PausedHeld DEF IInv

\* Every reachable state of a run satisfies the invariant: where the two threads are,
\* what the roles and the script left, and what the tools did agree.
THEOREM Invariance == Spec => []IInv
  BY InitInv, NextInv, PTL DEF Spec

\* The call limit bounds every counter and no spend counter is negative, for any
\* limits, fixtures and proposals (execute_tool).
THEOREM TypeCorrect == Spec => []TypeOK
<1>1. IInv => TypeOK
  BY DEF IInv, Typed
<1> QED
  BY <1>1, Invariance, PTL

\* The spend counters are always the sums of what the prepared actions say, for any
\* number of quotes and any amounts (_apply_confirmation, ToolResultProjector.project).
THEOREM SpendSafe == Spec => []SpendConserved
  BY SpendHeld, Invariance, PTL

\* Whatever a model proposes and whenever the orchestrator gives up on it, an enforced
\* run never tells a carrier to commit more than the threshold without an approval.
THEOREM ThresholdSafe == Spec => []CommitWithinThreshold
<1>1. IInv => CommitWithinThreshold
  BY DEF IInv
<1> QED
  BY <1>1, Invariance, PTL

\* Whatever a model proposes, an enforced run keeps perishable cargo at its sourced
\* weight, refrigerated and with certified carriers of the lane.
THEOREM ColdChainSafe == Spec => []ColdChainKept
<1>1. IInv => ColdChainKept
  BY DEF IInv
<1> QED
  BY <1>1, Invariance, PTL

\* A run that says COMPLETED planned, booked and notified, whichever runtime played the
\* roles.
THEOREM CompletedSafe == Spec => []CompletedTruthful
  BY CompletedHeld, Invariance, PTL

\* A run that says PENDING_APPROVAL is what a resolution starts from.
THEOREM PausedSafe == Spec => []PausedApprovable
  BY PausedHeld, Invariance, PTL

\* The request the governor builds meets the condition of the parity theorems: it
\* has a trace's counters and no approval that its own preparer gave.
LEMMA RequestFromTrace == ASSUME IInv PROVE TraceRequest(RequestOf(call))
<1> DEFINE r == RequestOf(call)
           q == call.args.quote
<1>1. /\ r.action = call.tool /\ r.committed = st.committed /\ r.reserved = st.reserved
      /\ r.threshold = run.threshold /\ r.approval.status \in {"none", "PENDING_APPROVAL"}
      /\ ~r.approval.byPreparer /\ ~r.approvedByPreparer
  BY DEF RequestOf
<1>2. r.prepared = IF call.tool \in CommitmentTools /\ q \in Quotes THEN st.prepared[q] ELSE "none"
  BY DEF RequestOf
<1>3. r.amount = IF r.prepared # "none" THEN Amount(q) ELSE 0
  BY DEF RequestOf
<1> HIDE DEF r
<1>4. r.prepared \in {"none", "PREPARED", "PENDING_APPROVAL", "CONFIRMED"} /\ r.amount \in Nat
  BY <1>2, <1>3, Quoted DEF IInv, Typed, TypeOK, TrajectoryState
<1>5. st.committed \in Nat /\ st.reserved \in Nat /\ run.threshold \in Nat
  BY DEF IInv, Typed, TypeOK, RunRecord, TrajectoryState
<1>6. TraceRequest(r)
  BY <1>1, <1>4, <1>5 DEF TraceRequest
<1> QED
  BY <1>6 DEF r

\* The request the governor builds is a request of the policy engines.
LEMMA RequestTyped == ASSUME IInv, call.pc = "attempted" PROVE RequestOf(call) \in Request
<1> DEFINE v == call.args.vehicle
           q == call.args.quote
           quote == call.tool \in QuoteTools /\ q \in Quotes
           vehicle == call.tool = "create_dispatch_plan" /\ v \in Vehicles
           action == IF call.tool \in CommitmentTools /\ q \in Quotes THEN st.prepared[q] ELSE "none"
           fact == [known |-> call.args.fact /\ st.fact, valid |-> TRUE, weight |-> Weight]
           resource == [known |-> vehicle \/ quote,
                        available |-> vehicle /\ VehicleData[v].available,
                        refrigerated |-> vehicle /\ VehicleData[v].refrigerated,
                        capacity |-> IF vehicle THEN VehicleData[v].capacity ELSE 0,
                        certified |-> quote /\ QuoteData[q].certified,
                        lane |-> quote /\ QuoteData[q].lane, own |-> FALSE]
           approval == [status |-> IF st.pending # None THEN "PENDING_APPROVAL" ELSE "none",
                        expired |-> FALSE, action |-> st.pending = q, state |-> st.pending = q,
                        version |-> TRUE, byPreparer |-> FALSE]
           outbox == [forbidden |-> FALSE, template |-> TRUE, recipient |-> TRUE, variables |-> TRUE]
           amount == IF action # "none" THEN Amount(q) ELSE 0
<1>1. /\ call.args \in Arguments /\ st \in TrajectoryState /\ run \in RunRecord
      /\ call.tool \in Tools /\ role > 0 /\ role \in 0..4
  BY DEF IInv, Typed, TypeOK, Placed, AllowedTools, RoleOrder
<1>2. RoleOrder[role] \in Roles
  <2>1. role = 1 \/ role = 2 \/ role = 3 \/ role = 4
    BY <1>1
  <2> QED
    BY <2>1 DEF RoleOrder, Roles
<1>3. run.effects \in SUBSET EffectClasses /\ run.perishable \in BOOLEAN /\ run.threshold \in Int
  BY <1>1 DEF RunRecord
<1>4. call.args.weight \in Int /\ call.args.unit \in BOOLEAN /\ Weight \in Int
  <2>1. call.args.weight \in Weights /\ call.args.unit \in BOOLEAN
    BY <1>1 DEF Arguments
  <2>2. Weights \subseteq Nat /\ Weight \in Weights
    BY RunAssumption
  <2>3. call.args.weight \in Nat /\ Weight \in Nat
    BY <2>1, <2>2
  <2> QED
    BY <2>1, <2>3
<1>5. st.committed \in Int /\ st.reserved \in Int
  BY <1>1 DEF TrajectoryState
<1>6. fact \in [known : BOOLEAN, valid : BOOLEAN, weight : Int]
  BY <1>4
<1>7. resource \in [known : BOOLEAN, available : BOOLEAN, refrigerated : BOOLEAN, capacity : Int,
                    certified : BOOLEAN, lane : BOOLEAN, own : BOOLEAN]
  <2>1. (IF vehicle THEN VehicleData[v].capacity ELSE 0) \in Int
    <3>1. \A w \in Vehicles : VehicleData[w].capacity \in Nat
      BY RunAssumption
    <3>2. vehicle => v \in Vehicles
      OBVIOUS
    <3> HIDE DEF v, vehicle
    <3> QED
      BY <3>1, <3>2
  <2> HIDE DEF vehicle, quote
  <2> QED
    BY <2>1
<1>8. approval \in [status : {"none", "PENDING_APPROVAL", "APPROVED", "REJECTED", "EXPIRED"},
                    expired : BOOLEAN, action : BOOLEAN, state : BOOLEAN,
                    version : BOOLEAN, byPreparer : BOOLEAN]
  OBVIOUS
<1>9. outbox \in [forbidden : BOOLEAN, template : BOOLEAN, recipient : BOOLEAN, variables : BOOLEAN]
  OBVIOUS
<1>10. action \in PreparedStatus
  BY <1>1 DEF TrajectoryState, PreparedStatus
<1>11. amount \in Int
  <2>1. action # "none" => q \in Quotes
    OBVIOUS
  <2> QED
    BY <2>1, Quoted
<1>12. RequestOf(call) =
         [principal |-> RoleOrder[role], action |-> call.tool, effects |-> run.effects,
          version |-> TRUE, perishable |-> run.perishable, fact |-> fact,
          weight |-> call.args.weight, unit |-> call.args.unit, resource |-> resource,
          prepared |-> action, hash |-> TRUE, currency |-> TRUE, amount |-> amount,
          committed |-> st.committed, reserved |-> st.reserved, threshold |-> run.threshold,
          approval |-> approval, approvedByPreparer |-> FALSE, outbox |-> outbox]
  BY DEF RequestOf
<1> HIDE DEF v, q, quote, vehicle, action, fact, resource, approval, outbox, amount
<1> QED
  BY <1>1, <1>2, <1>3, <1>4, <1>5, <1>6, <1>7, <1>8, <1>9, <1>10, <1>11, <1>12 DEF Request

\* The outcome and the primary reason of the call being decided are the same for the
\* Cedar path and for its Python fallback.
SameDecisionOfEitherEngine ==
  LET python == PythonEvaluate(RequestOf(call))
      cedar == CedarEvaluate(RequestOf(call))
  IN  call.pc = "attempted" =>
        PolicyOutcome(python) = PolicyOutcome(cedar) /\ PrimaryReason(python) = PrimaryReason(cedar)

\* Whichever engine is configured decides every call of every run alike, and for the
\* same reason: the parity of the engines, on the requests that the governor builds.
THEOREM EnginesInterchangeable == Spec => []SameDecisionOfEitherEngine
<1>1. ASSUME IInv, call.pc = "attempted" PROVE SameDecisionOfEitherEngine
  <2>1. RequestOf(call) \in Request /\ TraceRequest(RequestOf(call))
    BY <1>1, RequestTyped, RequestFromTrace
  <2>2. SameOutcome(RequestOf(call)) /\ SamePrimaryReason(RequestOf(call))
    BY <2>1, OutcomeParityForAll, PrimaryReasonParityForAll
  <2>3. RequestOf(call).version
    BY DEF RequestOf
  <2> QED
    BY <2>1, <2>2, <2>3 DEF SameOutcome, SamePrimaryReason, SameDecisionOfEitherEngine
<1>2. IInv => SameDecisionOfEitherEngine
  BY <1>1 DEF SameDecisionOfEitherEngine
<1> QED
  BY <1>2, Invariance, PTL

\* After the failure and the last answer no step touches the state, the tools or the
\* call: a model that is still served is refused (execute's closed check).
THEOREM QuietSafe == Spec => QuietAfterFailure
<1>1. ASSUME IInv, [Next]_vars, st.status = "FAILED", call.pc = "idle"
      PROVE  UNCHANGED <<st, effects, call>>
  <2>1. main = "done" /\ (ctx.working => Abandoned)
    BY <1>1 DEF IInv, Placed
  <2>2. CASE UNCHANGED vars
    BY <2>2 DEF vars
  <2>3. CASE Governor
    BY <1>1, <2>3 DEF Governor, Attempt, Decide, Execute
  <2>4. CASE Agent
    BY <1>1, <2>1, <2>4 DEF Agent, AgentCalls, AgentContinues, Answered
  <2>5. CASE Model
    <3>1. CASE ModelCalls
      <4>1. ~Legacy /\ ctx.closed /\ call = NoCall
        BY <1>1, <2>1, <3>1 DEF ModelCalls, Abandoned, IInv, Placed
      <4>2. call' = NoCall
        BY <3>1, <4>1 DEF ModelCalls, MayExecute
      <4> QED
        BY <3>1, <4>1, <4>2 DEF ModelCalls
    <3>2. CASE ModelAnswered \/ ModelReturns \/ ProviderFails
      BY <1>1, <2>1, <3>2 DEF ModelAnswered, ModelReturns, ProviderFails, Answered
    <3> QED
      BY <2>5, <3>1, <3>2 DEF Model
  <2>6. CASE Timeout \/ Orchestrator
    BY <2>1, <2>6 DEF Timeout, Orchestrator, StartAgent, AgentReturned, EndRun, RunRaises
  <2> QED
    BY <1>1, <2>2, <2>3, <2>4, <2>5, <2>6 DEF Next
<1>2. IInv /\ [Next]_vars => [st.status = "FAILED" /\ call.pc = "idle" => UNCHANGED <<st, effects, call>>]_vars
  BY <1>1
<1> QED
  BY <1>2, Invariance, PTL DEF Spec, QuietAfterFailure
=============================================================================
