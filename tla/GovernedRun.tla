---------------------------- MODULE GovernedRun ----------------------------
(***************************************************************************)
(* One shipment run up to its end or its pause: the orchestrator's loop    *)
(* over the four roles, the agents' tool calls, the governor around every  *)
(* call and the logistics tools.  The roles are played by the              *)
(* deterministic agents, which follow a script, or through the Strands     *)
(* adapter by a model, while the orchestrator's thread waits with a        *)
(* timeout: a hosted one, which may call any tool of its role with any     *)
(* arguments, or the recorded one, which replays the script from what it   *)
(* sees of the governed state and of its own invocation's history.         *)
(* The trace is the in-memory one both threads share; its chain is the     *)
(* subject of Ledger, the resolution of a pause that of ApprovalResolution.*)
(***************************************************************************)
EXTENDS Policy, FiniteSetsExt

CONSTANTS
  Runs,               \* mandate, scenario, mode and runtime a run may be started with
  Vehicles, Quotes,   \* ids, positive numbers in the order the agents sort them
  VehicleData, QuoteData,
  Weight,             \* the sourced shipment weight
  Weights,            \* weights a model may write
  MaxToolCalls, MaxGuidedAttempts,
  MaxTurns            \* turns of one model invocation

None == 0   \* no id, or one the fixtures do not know

RunRecord ==
  [enforce : BOOLEAN, perishable : BOOLEAN, effects : SUBSET EffectClasses,
   threshold : Nat, prior : Nat, weight : Weights, vehicle : Vehicles, quote : Quotes,
   runtime : {"legacy", "strands", "recorded"}, engineMayFail : BOOLEAN,
   released : SUBSET Quotes]

ASSUME RunAssumption ==
  /\ Vehicles \subseteq Nat \ {None} /\ Quotes \subseteq Nat \ {None} /\ IsFiniteSet(Quotes)
  /\ VehicleData \in [Vehicles -> [available : BOOLEAN, refrigerated : BOOLEAN, capacity : Nat]]
  /\ QuoteData \in [Quotes -> [amount : Nat, certified : BOOLEAN, lane : BOOLEAN]]
  /\ Runs \subseteq RunRecord
  /\ Weight \in Weights /\ Weights \subseteq Nat
  /\ MaxToolCalls \in Nat /\ MaxGuidedAttempts \in Nat /\ MaxTurns \in Nat

VARIABLES
  run,      \* the run's mandate, scenario and mode
  main,     \* where the orchestrator is
  role,     \* index of the current agent
  step,     \* a deterministic agent's place in its script
  ctx,      \* a model's GovernedInvocationContext, with the turns it used
  call,     \* the tool call in progress
  st,       \* the TrajectoryState
  effects   \* what the logistics tools have done, with the durable receipts

vars == <<run, main, role, step, ctx, call, st, effects>>

-----------------------------------------------------------------------------
(* State.                                                                  *)

\* "strands" stands for the Strands adapter with a hosted model.
Runtime == run.runtime

RoleOrder == <<"inventory", "dispatch", "carrier", "customer_communications">>

Amount(q) == QuoteData[q].amount

TotalAmount(qs) == MapThenSumSet(Amount, qs)

\* The arguments of a call; a tool reads the fields that concern it.
Arguments ==
  [vehicle : Vehicles \cup {None}, weight : Weights, unit : BOOLEAN, fact : BOOLEAN,
   quote : Quotes \cup {None}, exact : BOOLEAN]

NoArguments ==
  [vehicle |-> None, weight |-> Weight, unit |-> TRUE, fact |-> TRUE, quote |-> None,
   exact |-> TRUE]

NoCall == [pc |-> "idle", tool |-> "none", args |-> NoArguments, verdict |-> {}]

\* working: the worker thread still serves the model.  history: the calls the
\* governor answered, kept only for the recorded model, which reads it.
Invocation ==
  [turns : 0..MaxTurns, terminal : BOOLEAN, blocked : BOOLEAN, closed : BOOLEAN,
   working : BOOLEAN,
   history : Seq([tool : Tools, guided : BOOLEAN, verdict : SUBSET PolicyIds])]

NewInvocation ==
  [turns |-> 0, terminal |-> FALSE, blocked |-> FALSE, closed |-> FALSE,
   working |-> TRUE, history |-> <<>>]

GuidedTools == {"create_dispatch_plan"} \cup QuoteTools

\* attempts: guide_attempts of the tools a policy may guide; no other is read.
\* confirms, notices: the entries of effect_history the dashboard counts.
TrajectoryState ==
  [status : {"RUNNING", "COMPLETED", "BLOCKED", "PENDING_APPROVAL", "FAILED"},
   order : BOOLEAN, fact : BOOLEAN, vehicle : Vehicles \cup {None},
   quote : Quotes \cup {None},
   prepared : [Quotes -> {"none", "PREPARED", "PENDING_APPROVAL", "CONFIRMED"}],
   committed : Nat, reserved : Nat, pending : Quotes \cup {None},
   booked : Quotes \cup {None}, notified : BOOLEAN,
   calls : 0..MaxToolCalls, attempts : [GuidedTools -> 0..MaxToolCalls],
   confirms : 0..MaxToolCalls, notices : 0..MaxToolCalls]

NewTrajectory(r) ==
  [status |-> "RUNNING", order |-> FALSE, fact |-> FALSE, vehicle |-> None, quote |-> None,
   prepared |-> [q \in Quotes |-> "none"], committed |-> r.prior, reserved |-> 0,
   pending |-> None, booked |-> None, notified |-> FALSE, calls |-> 0,
   attempts |-> [t \in GuidedTools |-> 0], confirms |-> 0, notices |-> 0]

Effects == [tool : Tools \ ReadTools, target : Vehicles \cup Quotes, weight : Weights]

Init ==
  /\ run \in Runs
  /\ main = "loop" /\ role = 0 /\ step = "none"
  /\ ctx = [NewInvocation EXCEPT !.working = FALSE] /\ call = NoCall
  /\ st = NewTrajectory(run) /\ effects = {}

-----------------------------------------------------------------------------
(* ManifestGovernor.execute_tool, in steps another thread can come between. *)

\* _build_request: what the engine is asked about the call in progress.
RequestOf(c) ==
  LET v == c.args.vehicle
      q == c.args.quote
      quote == c.tool \in QuoteTools /\ q \in Quotes
      vehicle == c.tool = "create_dispatch_plan" /\ v \in Vehicles
      action == IF c.tool \in CommitmentTools /\ q \in Quotes THEN st.prepared[q] ELSE "none"
  IN  [principal |-> RoleOrder[role], action |-> c.tool, effects |-> run.effects,
       version |-> TRUE, perishable |-> run.perishable,
       fact |-> [known |-> c.args.fact /\ st.fact, valid |-> TRUE, weight |-> Weight],
       weight |-> c.args.weight, unit |-> c.args.unit,
       resource |-> [known |-> vehicle \/ quote,
                     available |-> vehicle /\ VehicleData[v].available,
                     refrigerated |-> vehicle /\ VehicleData[v].refrigerated,
                     capacity |-> IF vehicle THEN VehicleData[v].capacity ELSE 0,
                     certified |-> quote /\ QuoteData[q].certified,
                     lane |-> quote /\ QuoteData[q].lane, own |-> FALSE],
       prepared |-> action, hash |-> TRUE, currency |-> TRUE,
       amount |-> IF action # "none" THEN Amount(q) ELSE 0,
       committed |-> st.committed, reserved |-> st.reserved, threshold |-> run.threshold,
       approval |-> [status |-> IF st.pending # None THEN "PENDING_APPROVAL" ELSE "none",
                     expired |-> FALSE, action |-> st.pending = q, state |-> st.pending = q,
                     version |-> TRUE, byPreparer |-> FALSE],
       approvedByPreparer |-> FALSE,
       outbox |-> [forbidden |-> FALSE, template |-> TRUE, recipient |-> TRUE,
                   variables |-> TRUE]]

\* Mutant of Attempt: one call more than the limit is let through.
Attempt_OffByOne ==
  /\ call.pc = "bound"
  /\ IF st.calls > MaxToolCalls
     THEN call' = [call EXCEPT !.pc = "raised"] /\ st' = st
     ELSE call' = [call EXCEPT !.pc = "attempted"] /\ st' = [st EXCEPT !.calls = @ + 1]
  /\ UNCHANGED <<run, main, role, step, ctx, effects>>

\* The call-limit check, the counters and TOOL_ATTEMPTED.
Attempt ==
  /\ call.pc = "bound"
  /\ IF st.calls >= MaxToolCalls
     THEN call' = [call EXCEPT !.pc = "raised"] /\ st' = st
     ELSE /\ call' = [call EXCEPT !.pc = "attempted"]
          /\ st' = [st EXCEPT !.calls = @ + 1,
                      !.attempts = [t \in GuidedTools |-> @[t] + (IF t = call.tool THEN 1 ELSE 0)]]
  /\ UNCHANGED <<run, main, role, step, ctx, effects>>

\* Mutant of AppliedOutcome: guidance is advice, and the call goes on.
AppliedOutcome_GuidanceAdvisory(verdict, tool) ==
  IF run.enforce /\ PolicyOutcome(verdict) # "GUIDE" THEN PolicyOutcome(verdict) ELSE "ALLOW"

\* Mutant of AppliedOutcome: an escalation is recorded and the call goes on.
AppliedOutcome_NoEscalation(verdict, tool) ==
  IF run.enforce /\ PolicyOutcome(verdict) # "ESCALATE" THEN PolicyOutcome(verdict) ELSE "ALLOW"

\* _make_decision and _retry_block: a shadow run applies ALLOW whatever the policy
\* says, and a guidance the last permitted attempt would get becomes a BLOCK.
AppliedOutcome(verdict, tool) ==
  IF ~run.enforce THEN "ALLOW"
  ELSE IF /\ PolicyOutcome(verdict) = "GUIDE"
          /\ st.attempts[tool] >= MaxGuidedAttempts THEN "BLOCK"
  ELSE PolicyOutcome(verdict)

Verdicts(c) ==
  {PythonEvaluate(RequestOf(c))} \cup (IF run.engineMayFail THEN {{"ENGINE-FAIL"}} ELSE {})

\* Mutant of Decide: an escalated action keeps the status PREPARED.
Decide_StatusKept ==
  /\ call.pc = "attempted"
  /\ \E verdict \in Verdicts(call) :
       LET outcome == AppliedOutcome(verdict, call.tool)
       IN  /\ call' = [call EXCEPT !.pc = IF outcome = "ALLOW" THEN "allowed" ELSE outcome,
                                   !.verdict = verdict]
           /\ st' = [st EXCEPT !.pending = IF outcome = "ESCALATE" THEN call.args.quote ELSE @]
  /\ UNCHANGED <<run, main, role, step, ctx, effects>>

\* Evaluation, the stored decision and the event of a call that goes no further;
\* an escalation creates the approval (_create_approval).
Decide ==
  /\ call.pc = "attempted"
  /\ \E verdict \in Verdicts(call) :
       LET outcome == AppliedOutcome(verdict, call.tool)
           q == call.args.quote
       IN  /\ call' = [call EXCEPT !.pc = IF outcome = "ALLOW" THEN "allowed" ELSE outcome,
                                   !.verdict = verdict]
           /\ st' = IF outcome = "ESCALATE"
                    THEN [st EXCEPT !.pending = q, !.prepared[q] = "PENDING_APPROVAL"]
                    ELSE st
  /\ UNCHANGED <<run, main, role, step, ctx, effects>>

\* The tools' own checks.  The carrier adapter's caches belong to the process and
\* name a booking by order and quote, so it refuses to confirm one of the names in
\* released, which other runs of the order release until this run's first call of
\* confirm; a later call is answered from the receipt of the first, and what this
\* run prepared is in the cache.
Refuses(c) ==
  LET v == c.args.vehicle
      q == c.args.quote
  IN  \/ c.tool = "create_dispatch_plan" /\
           (\/ ~c.args.unit \/ v = None
            \/ v # None /\ (~VehicleData[v].available \/ VehicleData[v].capacity < c.args.weight))
      \/ c.tool \in QuoteTools /\ q = None
      \/ c.tool = "prepare_freight_booking" /\ ~c.args.exact
      \/ c.tool = "confirm_freight_booking" /\ q \in run.released

\* The effect a call has on the logistics side: plans and selections have a key
\* of their own per attempt; a second preparation, confirmation or message has
\* the key of the first and is answered from its receipt.
EffectOf(c) ==
  IF c.tool \in ReadTools THEN {}
  ELSE {[tool |-> c.tool,
         target |-> IF c.tool = "create_dispatch_plan" THEN c.args.vehicle
                    ELSE IF c.tool = "write_tracking_outbox" THEN st.quote ELSE c.args.quote,
         weight |-> IF c.tool = "create_dispatch_plan" THEN c.args.weight ELSE Weight]}

\* _execute_with_durable_receipt, or the tool's error with TOOL_FAILED.
Execute ==
  /\ call.pc = "allowed"
  /\ IF Refuses(call)
     THEN call' = [call EXCEPT !.pc = "raised"] /\ UNCHANGED effects
     ELSE /\ call' = [call EXCEPT !.pc = "executed"]
          /\ effects' = effects \cup EffectOf(call)
  /\ UNCHANGED <<run, main, role, step, ctx, st>>

\* _apply_confirmation; its check of the reserved spend cannot fail (SpendConserved).
Confirmed(s, q) ==
  IF s.prepared[q] = "CONFIRMED" THEN s
  ELSE [s EXCEPT !.prepared[q] = "CONFIRMED", !.booked = q, !.pending = None,
                 !.reserved = @ - Amount(q), !.committed = @ + Amount(q)]

\* Mutant of Prepared: a repeated preparation reserves again.
Prepared_Again(s, q) ==
  [s EXCEPT !.prepared[q] = "PREPARED", !.reserved = @ + Amount(q)]

\* Mutant of Prepared: the preparation reserves nothing.
Prepared_Unreserved(s, q) == [s EXCEPT !.prepared[q] = "PREPARED"]

\* ToolResultProjector.project: an action already prepared is left alone.
Prepared(s, q) ==
  IF s.prepared[q] # "none" THEN s
  ELSE [s EXCEPT !.prepared[q] = "PREPARED", !.reserved = @ + Amount(q)]

\* The state after a tool's success.
AfterTool(s, c) ==
  CASE c.tool = "get_order" -> [s EXCEPT !.order = TRUE]
    [] c.tool = "check_inventory" -> [s EXCEPT !.fact = TRUE]
    [] c.tool = "create_dispatch_plan" -> [s EXCEPT !.vehicle = c.args.vehicle]
    [] c.tool = "select_carrier_quote" -> [s EXCEPT !.quote = c.args.quote]
    [] c.tool = "prepare_freight_booking" -> Prepared(s, c.args.quote)
    [] c.tool = "confirm_freight_booking" -> Confirmed(s, c.args.quote)
    [] c.tool = "write_tracking_outbox" -> [s EXCEPT !.notified = TRUE]
    [] OTHER -> s

-----------------------------------------------------------------------------
(* The deterministic agents: a step is the next call of the script.        *)

FirstStep ==
  <<"get_order", "list_available_vehicles", "list_carrier_quotes", "write_tracking_outbox">>

\* Guided replanning: any available vehicle that can carry the sourced weight,
\* refrigerated only if the guidance said so.
VehicleCandidates(verdict) ==
  {v \in Vehicles : /\ VehicleData[v].available
                    /\ VehicleData[v].capacity >= Weight
                    /\ "COLD-002" \in verdict => VehicleData[v].refrigerated}

QuoteCandidates == {q \in Quotes : QuoteData[q].certified /\ QuoteData[q].lane}

CheapestQuote ==
  CHOOSE q \in QuoteCandidates :
    \A o \in QuoteCandidates : Amount(q) < Amount(o) \/ (Amount(q) = Amount(o) /\ q <= o)

ScriptTool ==
  CASE step = "replan" -> "create_dispatch_plan"
    [] step = "reselect" -> "select_carrier_quote"
    [] OTHER -> step

ScriptArguments ==
  CASE step = "create_dispatch_plan" ->
         [NoArguments EXCEPT !.vehicle = run.vehicle, !.weight = run.weight]
    [] step = "replan" -> [NoArguments EXCEPT !.vehicle = Min(VehicleCandidates(call.verdict))]
    [] step = "select_carrier_quote" -> [NoArguments EXCEPT !.quote = run.quote]
    [] step = "reselect" -> [NoArguments EXCEPT !.quote = CheapestQuote]
    [] step \in {"prepare_freight_booking", "confirm_freight_booking"} ->
         [NoArguments EXCEPT !.quote = st.quote]
    [] OTHER -> NoArguments

AgentCalls ==
  /\ Runtime = "legacy" /\ main = "agent" /\ call.pc = "idle"
  /\ call' = [pc |-> "bound", tool |-> ScriptTool, args |-> ScriptArguments, verdict |-> {}]
  /\ UNCHANGED <<run, main, role, step, ctx, st, effects>>

\* What an agent does with a value; "returned" ends its run.
AfterValue ==
  CASE step = "get_order" -> "check_inventory"
    [] step = "list_available_vehicles" ->
         IF VehicleData[run.vehicle].available THEN "create_dispatch_plan" ELSE "failed"
    [] step = "list_carrier_quotes" -> "select_carrier_quote"
    [] step \in {"select_carrier_quote", "reselect"} -> "prepare_freight_booking"
    [] step = "prepare_freight_booking" -> "confirm_freight_booking"
    [] OTHER -> "returned"

\* ... with guidance: one corrected proposal, if there is a candidate ...
AfterGuide ==
  CASE step = "create_dispatch_plan" ->
         IF VehicleCandidates(call.verdict) # {} THEN "replan" ELSE "failed"
    [] step = "select_carrier_quote" ->
         IF QuoteCandidates # {} THEN "reselect" ELSE "failed"
    [] OTHER -> "blocked"

\* Mutant of AfterBlock: a refusal is swallowed.
AfterBlock_Swallowed == "returned"

\* ... and with a refusal: PolicyBlockedError, except that the inventory agent
\* finds no Order or fact (TypeError) and communications raises a plain error.
AfterBlock ==
  IF step \in {"get_order", "check_inventory", "write_tracking_outbox"}
  THEN "failed" ELSE "blocked"

NextStep ==
  CASE call.pc = "executed" -> AfterValue
    [] call.pc = "GUIDE" -> AfterGuide
    [] call.pc = "BLOCK" -> AfterBlock
    [] call.pc = "ESCALATE" -> "returned"
    [] OTHER -> "failed"

Answered == call.pc \in {"executed", "GUIDE", "BLOCK", "ESCALATE", "raised"}

\* A success is also an entry of effect_history, a replayed one too.
StateAfterCall ==
  IF call.pc # "executed" THEN st
  ELSE [AfterTool(st, call) EXCEPT
          !.confirms = @ + (IF call.tool = "confirm_freight_booking" THEN 1 ELSE 0),
          !.notices = @ + (IF call.tool = "write_tracking_outbox" THEN 1 ELSE 0)]

\* The call returns to the agent, or raises through it.
AgentContinues ==
  /\ Runtime = "legacy" /\ Answered
  /\ st' = StateAfterCall
  /\ call' = [NoCall EXCEPT !.verdict = call.verdict]
  /\ IF NextStep \in {"returned", "blocked", "failed"}
     THEN main' = NextStep /\ step' = "none"
     ELSE step' = NextStep /\ main' = main
  /\ UNCHANGED <<run, role, ctx, effects>>

-----------------------------------------------------------------------------
(* A model behind GovernedInvocationContext.                               *)

AllowedTools ==
  {t \in Tools : Owner(t) = RoleOrder[role]} \ {"cancel_freight_booking"}

\* The argument binders' own errors.
Binds(tool, args) ==
  /\ tool \in {"check_inventory", "list_available_vehicles", "list_carrier_quotes"} => st.order
  /\ tool = "write_tracking_outbox" => st.quote # None /\ st.booked # None
  /\ tool = "confirm_freight_booking" => args.quote \in Quotes /\ st.prepared[args.quote] # "none"

\* Arguments a model can write for a tool; the others are bound from the state.
ModelArguments(tool) ==
  {a \in Arguments :
     /\ tool # "create_dispatch_plan" =>
          a.vehicle = None /\ a.weight = Weight /\ a.unit /\ a.fact
     /\ tool \notin QuoteTools \cup {"confirm_freight_booking"} => a.quote = None
     /\ tool # "prepare_freight_booking" => a.exact}

\* A call of the recorded model: its next turn's tool, "none" for the text that
\* ends its turn, "error" when it raises.
Proposes(tool, args) == [tool |-> tool, args |-> args]
Stops == Proposes("none", NoArguments)
Raises == Proposes("error", NoArguments)

Results(tool) == SelectSeq(ctx.history, LAMBDA h : h.tool = tool)

RecordedInventory ==
  IF ~st.order THEN Proposes("get_order", NoArguments)
  ELSE IF ~st.fact THEN Proposes("check_inventory", NoArguments)
  ELSE Stops

\* Mutant of RecordedDispatch: the guided vehicle is the last candidate.
RecordedDispatch_Last ==
  LET plans == Results("create_dispatch_plan")
      last == plans[Len(plans)]
      plan(v, w) ==
        Proposes("create_dispatch_plan", [NoArguments EXCEPT !.vehicle = v, !.weight = w])
  IN  IF Results("list_available_vehicles") = <<>>
        THEN Proposes("list_available_vehicles", NoArguments)
      ELSE IF st.vehicle # None THEN Stops
      ELSE IF plans = <<>> THEN plan(run.vehicle, run.weight)
      ELSE IF ~last.guided THEN Stops
      ELSE IF VehicleCandidates(last.verdict) = {} THEN Raises
      ELSE plan(Max(VehicleCandidates(last.verdict)), Weight)

\* The scenario's plan first; a guided one is corrected, from the last guidance.
RecordedDispatch ==
  LET plans == Results("create_dispatch_plan")
      last == plans[Len(plans)]
      plan(v, w) ==
        Proposes("create_dispatch_plan", [NoArguments EXCEPT !.vehicle = v, !.weight = w])
  IN  IF Results("list_available_vehicles") = <<>>
        THEN Proposes("list_available_vehicles", NoArguments)
      ELSE IF st.vehicle # None THEN Stops
      ELSE IF plans = <<>> THEN plan(run.vehicle, run.weight)
      ELSE IF ~last.guided THEN Stops
      ELSE IF VehicleCandidates(last.verdict) = {} THEN Raises
      ELSE plan(Min(VehicleCandidates(last.verdict)), Weight)

\* Mutant of RecordedCarrier: a guided selection is proposed again as it was.
RecordedCarrier_Stubborn ==
  LET actions == {q \in Quotes : st.prepared[q] # "none"}
      quote(q) == [NoArguments EXCEPT !.quote = q]
  IN  IF Results("list_carrier_quotes") = <<>> THEN Proposes("list_carrier_quotes", NoArguments)
      ELSE IF st.quote = None THEN Proposes("select_carrier_quote", quote(run.quote))
      ELSE IF actions = {} THEN Proposes("prepare_freight_booking", quote(st.quote))
      ELSE IF st.pending = None /\ st.booked = None
        THEN Proposes("confirm_freight_booking", quote(Min(actions)))
      ELSE Stops

\* Select, prepare and confirm, each from what the state says was done.
RecordedCarrier ==
  LET selections == Results("select_carrier_quote")
      actions == {q \in Quotes : st.prepared[q] # "none"}
      quote(q) == [NoArguments EXCEPT !.quote = q]
  IN  IF Results("list_carrier_quotes") = <<>> THEN Proposes("list_carrier_quotes", NoArguments)
      ELSE IF st.quote = None THEN
        IF selections = <<>> THEN Proposes("select_carrier_quote", quote(run.quote))
        ELSE IF ~selections[Len(selections)].guided THEN Stops
        ELSE IF QuoteCandidates = {} THEN Raises
        ELSE Proposes("select_carrier_quote", quote(CheapestQuote))
      ELSE IF actions = {} THEN Proposes("prepare_freight_booking", quote(st.quote))
      ELSE IF st.pending = None /\ st.booked = None
        THEN Proposes("confirm_freight_booking", quote(Min(actions)))
      ELSE Stops

RecordedCommunications ==
  IF st.notified THEN Stops ELSE Proposes("write_tracking_outbox", NoArguments)

\* RecordedManifestModel._next_call.
RecordedCall ==
  IF ctx.terminal THEN Stops
  ELSE CASE RoleOrder[role] = "inventory" -> RecordedInventory
         [] RoleOrder[role] = "dispatch" -> RecordedDispatch
         [] RoleOrder[role] = "carrier" -> RecordedCarrier
         [] OTHER -> RecordedCommunications

\* What the model may call next.
Proposals ==
  IF Runtime = "recorded" THEN {RecordedCall}
  ELSE UNION {{Proposes(tool, args) : args \in ModelArguments(tool)} : tool \in AllowedTools}

\* Mutant of MayExecute: a closed invocation is not refused.
MayExecute_Closed == ~ctx.terminal

\* execute's checks before the governor is called.
MayExecute == ~ctx.closed /\ ~ctx.terminal

\* The model calls a tool, perhaps after the timeout.  A refused call is an error
\* result to the model, which goes on; either way a turn is used.
ModelCalls ==
  /\ Runtime # "legacy" /\ ctx.working /\ call.pc = "idle"
  /\ ctx.turns < MaxTurns
  /\ \E p \in Proposals :
       /\ p.tool \in AllowedTools
       /\ call' = IF MayExecute /\ Binds(p.tool, p.args)
                  THEN [pc |-> "bound", tool |-> p.tool, args |-> p.args, verdict |-> {}]
                  ELSE NoCall
  /\ ctx' = [ctx EXCEPT !.turns = @ + 1]
  /\ UNCHANGED <<run, main, role, step, st, effects>>

\* The governor's result, or its error, goes back to the model.
ModelAnswered ==
  /\ Runtime # "legacy" /\ Answered
  /\ st' = StateAfterCall
  /\ ctx' = [ctx EXCEPT !.terminal = @ \/ call.pc \in {"BLOCK", "ESCALATE"},
                        !.blocked = @ \/ call.pc = "BLOCK",
                        !.history = IF Runtime = "recorded" /\ call.pc # "raised"
                                    THEN Append(@, [tool |-> call.tool, guided |-> call.pc = "GUIDE",
                                                    verdict |-> call.verdict])
                                    ELSE @]
  /\ call' = NoCall
  /\ UNCHANGED <<run, main, role, step, effects>>

\* Mutant of RoleComplete: prose is enough.
RoleComplete_Always == TRUE

\* assert_complete.
RoleComplete ==
  CASE RoleOrder[role] = "inventory" -> st.order /\ st.fact
    [] RoleOrder[role] = "dispatch" -> st.vehicle # None
    [] RoleOrder[role] = "carrier" -> st.quote # None /\ (st.booked # None \/ st.pending # None)
    [] OTHER -> st.notified

\* How the model's turn can be over now: TRUE ended with a summary, FALSE stopped
\* by a limit.
Endings ==
  IF Runtime # "recorded" THEN BOOLEAN
  ELSE IF ctx.turns = MaxTurns THEN {FALSE}
  ELSE IF RecordedCall = Stops THEN {TRUE} ELSE {}

\* invoke after the model's result.
ModelReturns ==
  /\ Runtime # "legacy" /\ main = "agent" /\ call.pc = "idle"
  /\ \E ended \in Endings :
       main' = IF ctx.blocked THEN "blocked"
               ELSE IF ended /\ RoleComplete THEN "returned" ELSE "failed"
  /\ ctx' = [ctx EXCEPT !.closed = TRUE, !.working = FALSE]
  /\ UNCHANGED <<run, role, step, call, st, effects>>

\* The provider raises, before or between calls; the recorded one when it finds
\* no candidate.
ProviderFails ==
  /\ Runtime # "legacy" /\ main = "agent" /\ call.pc = "idle"
  /\ Runtime = "recorded" => ctx.turns < MaxTurns /\ RecordedCall = Raises
  /\ main' = "failed" /\ ctx' = [ctx EXCEPT !.closed = TRUE, !.working = FALSE]
  /\ UNCHANGED <<run, role, step, call, st, effects>>

\* future.result times out, whatever the worker thread is doing: a call in
\* progress goes on.
Timeout ==
  /\ Runtime # "legacy" /\ main = "agent"
  /\ main' = "failed" /\ ctx' = [ctx EXCEPT !.closed = TRUE]
  /\ UNCHANGED <<run, role, step, call, st, effects>>

-----------------------------------------------------------------------------
(* ShipmentOrchestrator.run.                                               *)

\* What a deterministic agent asks of the state before it starts.
RoleReady(r) ==
  CASE RoleOrder[r] = "inventory" -> TRUE
    [] RoleOrder[r] = "dispatch" -> st.order /\ st.fact
    [] RoleOrder[r] = "carrier" -> st.order /\ st.vehicle # None
    [] OTHER -> st.quote # None /\ st.booked # None

\* AGENT_STARTED of the next role.
StartAgent ==
  /\ main = "loop" /\ st.pending = None /\ role < Len(RoleOrder)
  /\ main' = IF Runtime = "legacy" => RoleReady(role + 1) THEN "agent" ELSE "failed"
  /\ role' = role + 1
  /\ step' = IF Runtime = "legacy" THEN FirstStep[role + 1] ELSE "none"
  /\ ctx' = [NewInvocation EXCEPT !.working = Runtime # "legacy"]
  /\ UNCHANGED <<run, call, st, effects>>

\* AGENT_COMPLETED or AGENT_PAUSED.
AgentReturned ==
  /\ main = "returned" /\ main' = "loop"
  /\ UNCHANGED <<run, role, step, ctx, call, st, effects>>

\* RUN_PAUSED or RUN_COMPLETED.
EndRun ==
  /\ main = "loop" /\ (st.pending # None \/ role = Len(RoleOrder))
  /\ main' = "done"
  /\ st' = [st EXCEPT !.status = IF st.pending # None THEN "PENDING_APPROVAL" ELSE "COMPLETED"]
  /\ UNCHANGED <<run, role, step, ctx, call, effects>>

\* Mutant of RunRaises: only PolicyBlockedError is caught.
RunRaises_PolicyOnly ==
  /\ main = "blocked" /\ main' = "done"
  /\ st' = [st EXCEPT !.status = "BLOCKED"]
  /\ UNCHANGED <<run, role, step, ctx, call, effects>>

\* RUN_FAILED: PolicyBlockedError marks the run BLOCKED, any other error FAILED.
RunRaises ==
  /\ main \in {"blocked", "failed"} /\ main' = "done"
  /\ st' = [st EXCEPT !.status = IF main = "blocked" THEN "BLOCKED" ELSE "FAILED"]
  /\ UNCHANGED <<run, role, step, ctx, call, effects>>

-----------------------------------------------------------------------------
Governor == Attempt \/ Decide \/ Execute
Agent == AgentCalls \/ AgentContinues
Model == ModelCalls \/ ModelAnswered \/ ModelReturns \/ ProviderFails
Orchestrator == StartAgent \/ AgentReturned \/ EndRun \/ RunRaises

Next == Governor \/ Agent \/ Model \/ Timeout \/ Orchestrator

Spec == Init /\ [][Next]_vars

\* Both threads run; the wait for a model is bounded.  A model owes nothing.
FairSpec ==
  /\ Spec
  /\ WF_vars(Governor) /\ WF_vars(Agent) /\ WF_vars(ModelAnswered)
  /\ WF_vars(Orchestrator) /\ WF_vars(Timeout)

-----------------------------------------------------------------------------
(* Properties.                                                             *)

\* The variables keep their types: no counter passes the call limit
\* (execute_tool) and no spend counter is negative.
TypeOK ==
  /\ run \in RunRecord /\ role \in 0..Len(RoleOrder)
  /\ main \in {"loop", "agent", "returned", "blocked", "failed", "done"}
  /\ ctx \in Invocation
  /\ call.pc \in {"idle", "bound", "attempted", "allowed", "executed", "GUIDE", "BLOCK",
                  "ESCALATE", "raised"}
  /\ call.args \in Arguments
  /\ st \in TrajectoryState /\ effects \subseteq Effects

Targets(tool) == {e.target : e \in {f \in effects : f.tool = tool}}

With(status) == {q \in Quotes : st.prepared[q] \in status}

\* The spend counters always are what the prepared actions say, and a confirmed
\* action is one the carrier confirmed, through guided retries, repeated
\* preparations, late calls and an effect not yet applied (_apply_confirmation,
\* ToolResultProjector.project).
SpendConserved ==
  /\ st.committed = run.prior + TotalAmount(With({"CONFIRMED"}))
  /\ st.reserved = TotalAmount(With({"PREPARED", "PENDING_APPROVAL"}))
  /\ With({"CONFIRMED"}) \subseteq Targets("confirm_freight_booking")
  /\ Targets("confirm_freight_booking") \subseteq Targets("prepare_freight_booking")

\* Whatever a model proposes, an enforced run never tells a carrier to commit
\* more than the threshold on top of the prior spend without an approval.
CommitWithinThreshold ==
  run.enforce /\ Targets("confirm_freight_booking") # {} =>
    run.prior + TotalAmount(Targets("confirm_freight_booking")) <= run.threshold

\* Whatever a model proposes, an enforced run plans perishable cargo only at its
\* sourced weight into a refrigerated vehicle that carries it, and books only
\* certified carriers of the lane.
ColdChainKept ==
  run.enforce /\ run.perishable =>
    /\ \A e \in effects : e.tool = "create_dispatch_plan" =>
         /\ e.weight = Weight
         /\ VehicleData[e.target].refrigerated /\ VehicleData[e.target].capacity >= Weight
    /\ \A q \in Targets("prepare_freight_booking") \cup Targets("confirm_freight_booking") :
         QuoteData[q].certified /\ QuoteData[q].lane

\* A COMPLETED run did everything: planned, booked and notified, with nothing
\* waiting for an approval.
CompletedTruthful ==
  st.status = "COMPLETED" =>
    /\ st.pending = None /\ st.vehicle \in Targets("create_dispatch_plan")
    /\ st.booked \in Targets("confirm_freight_booking") /\ st.prepared[st.booked] = "CONFIRMED"
    /\ Targets("write_tracking_outbox") # {}

\* A paused run is what a resolution starts from: one action pending approval, its
\* amount still reserved, over the threshold, and nobody notified.
PausedApprovable ==
  st.status = "PENDING_APPROVAL" =>
    /\ With({"PENDING_APPROVAL"}) = {st.pending}
    /\ st.reserved >= Amount(st.pending) /\ st.committed + st.reserved > run.threshold
    /\ st.pending \notin Targets("confirm_freight_booking")
    /\ Targets("write_tracking_outbox") = {}

\* The deterministic agents and the recorded model, which never repeat what
\* succeeded, keep all that is promised of any run, whatever is refused or fails
\* on their way, and more: they book at most one carrier, tell the customer about
\* that one and complete with nothing reserved.
ScriptedRunSafe ==
  /\ SpendConserved /\ CommitWithinThreshold /\ ColdChainKept
  /\ CompletedTruthful /\ PausedApprovable
  /\ Cardinality(Targets("confirm_freight_booking")) <= 1
  /\ Targets("write_tracking_outbox") \subseteq Targets("confirm_freight_booking")
  /\ st.status = "COMPLETED" => st.reserved = 0

\* Once a run has failed and no call is in progress, nothing happens in it: a
\* callback that arrives after the timeout is refused (execute's closed check).
QuietAfterFailure ==
  [][st.status = "FAILED" /\ call.pc = "idle" => UNCHANGED <<st, effects, call>>]_vars

\* Every run ends: completed, paused, blocked or failed.
RunEnds == main # "done" ~> main = "done"

\* CHECKPOINT_10_IMPLEMENTATION_PLAN.md 8: no tool is executed after the run has
\* been marked failed.
NoEffectOnceFailed == [][st.status = "FAILED" => UNCHANGED effects]_vars
=============================================================================
