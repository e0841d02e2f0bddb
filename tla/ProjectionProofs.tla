-------------------------- MODULE ProjectionProofs --------------------------
(***************************************************************************)
(* What a run shows and what a run without a hosted model promises beyond  *)
(* any other, for any fixtures, mandates and limits: the operator's        *)
(* exactly-once card and provenance panel tell the truth, and the          *)
(* deterministic agents and the recorded model book one carrier at most.   *)
(* The invariant of RunProofs holds in the comparison of two runs too.     *)
(***************************************************************************)
EXTENDS RuntimeParity, RunProofs

-----------------------------------------------------------------------------
(* The exactly-once card is computed from the entries of effect_history,    *)
(* which a replayed confirmation or message adds to as well; what is needed *)
(* is how they bound the carriers booked.                                   *)

\* Every booked carrier has an entry, and no entry stands for nothing.
Entered ==
  /\ Cardinality(With({"CONFIRMED"})) <= st.confirms
  /\ st.confirms > 0 => With({"CONFIRMED"}) # {}
  /\ st.notices > 0 => Targets("write_tracking_outbox") # {}

\* A set of quotes is finite.
LEMMA Finite == \A S : IsFiniteSet(With(S)) /\ Cardinality(With(S)) \in Nat
<1> SUFFICES ASSUME NEW S PROVE IsFiniteSet(With(S)) /\ Cardinality(With(S)) \in Nat
  OBVIOUS
<1>1. With(S) \in SUBSET Quotes
  BY DEF With
<1> QED
  BY <1>1, Quoted

\* While no confirmation waits to be recorded, the confirmed actions are the carriers
\* that were told.
LEMMA ToldIsConfirmed ==
  ASSUME IInv, call.pc # "executed"
  PROVE  With({"CONFIRMED"}) = Targets("confirm_freight_booking")
  BY DEF IInv, Recorded

\* Nothing is entered before a call.
LEMMA InitEntered == ASSUME Init PROVE Entered
<1>1. st = NewTrajectory(run)
  BY DEF Init
<1>2. st.confirms = 0 /\ st.notices = 0 /\ st.prepared = [q \in Quotes |-> "none"]
  BY <1>1 DEF NewTrajectory
<1>3. With({"CONFIRMED"}) = {}
  BY <1>2 DEF With
<1> QED
  BY <1>2, <1>3, FS_EmptySet DEF Entered

\* A step that makes no entry and confirms nothing.
LEMMA NothingEntered ==
  ASSUME Entered, st'.confirms = st.confirms, st'.notices = st.notices,
         With({"CONFIRMED"})' = With({"CONFIRMED"}), effects \subseteq effects'
  PROVE  Entered'
<1>1. Targets("write_tracking_outbox") \subseteq Targets("write_tracking_outbox")'
  BY DEF Targets
<1> QED
  BY <1>1 DEF Entered

\* The governor's answer enters the success it reports.
LEMMA AnswerEntered ==
  ASSUME IInv, IInv', Entered, Answered, st' = StateAfterCall, call'.pc = "idle", effects' = effects
  PROVE  Entered'
<1>1. CASE call.pc # "executed"
  <2>1. st' = st
    BY <1>1 DEF StateAfterCall
  <2>2. With({"CONFIRMED"})' = With({"CONFIRMED"})
    BY <2>1 DEF With
  <2> QED
    BY <2>1, <2>2, NothingEntered
<1>2. CASE call.pc = "executed"
  <2> DEFINE s == AfterTool(st, call)
             more == IF call.tool = "confirm_freight_booking" THEN 1 ELSE 0
             sent == IF call.tool = "write_tracking_outbox" THEN 1 ELSE 0
             C == With({"CONFIRMED"})
             told == Targets("confirm_freight_booking")
  <2>1. s \in TrajectoryState /\ s.confirms = st.confirms /\ s.notices = st.notices
    BY <1>2, ToolApplied DEF ProgressMoves
  <2>2. st' = [s EXCEPT !.confirms = @ + more, !.notices = @ + sent]
    BY <1>2 DEF StateAfterCall
  <2> HIDE DEF s
  <2>3. st'.confirms = st.confirms + more /\ st'.notices = st.notices + sent
    BY <2>1, <2>2 DEF TrajectoryState
  <2>4. st.confirms \in Nat /\ st.notices \in Nat
    BY DEF IInv, Typed, TypeOK, TrajectoryState
  <2>5. told' = told /\ Targets("write_tracking_outbox")' = Targets("write_tracking_outbox")
    BY DEF Targets
  <2>6. C' = told
    <3>1. C' = told'
      BY DEF IInv, Recorded
    <3> QED
      BY <2>5, <3>1
  <2>7. EffectOf(call) \subseteq effects
    BY <1>2 DEF IInv, Bound
  <2>8. CASE call.tool = "confirm_freight_booking"
    <3> DEFINE q == call.args.quote
               e == [tool |-> "confirm_freight_booking", target |-> q, weight |-> Weight]
    <3>1. e \in effects
      BY <2>7, <2>8 DEF EffectOf, ReadTools
    <3>2. e.tool = "confirm_freight_booking" /\ e.target = q
      OBVIOUS
    <3> HIDE DEF e
    <3>3. q \in told
      BY <3>1, <3>2 DEF Targets
    <3>4. C' = C \cup {q}
      <4>1. C \subseteq told /\ \A p \in told : p \in C \/ p = q
        BY DEF IInv, Recorded
      <4> QED
        BY <2>6, <3>3, <4>1
    <3>5. IsFiniteSet(C) /\ Cardinality(C) \in Nat
      BY Finite
    <3> HIDE DEF C
    <3>6. Cardinality(C') = Cardinality(C) \/ Cardinality(C') = Cardinality(C) + 1
      <4>1. Cardinality(C \cup {q}) = IF q \in C THEN Cardinality(C) ELSE Cardinality(C) + 1
        BY <3>5, FS_AddElement
      <4> QED
        BY <3>4, <4>1
    <3>7. Cardinality(C') <= Cardinality(C) + 1
      BY <3>5, <3>6
    <3>8. Cardinality(C') \in Nat
      BY <3>5, <3>6
    <3>9. Cardinality(C) <= st.confirms
      BY DEF Entered, C
    <3>10. st'.confirms = st.confirms + 1 /\ st'.notices = st.notices
      BY <2>3, <2>4, <2>8
    <3>11. Cardinality(C') <= st'.confirms
      BY <2>4, <3>5, <3>7, <3>8, <3>9, <3>10
    <3>12. C' # {}
      BY <3>4
    <3> QED
      BY <2>5, <3>10, <3>11, <3>12 DEF Entered, C
  <2>9. CASE call.tool # "confirm_freight_booking"
    <3>1. C' = C
      <4>1. C = told
        BY <2>9 DEF IInv, Recorded
      <4> QED
        BY <2>6, <4>1
    <3>2. st'.confirms = st.confirms
      BY <2>3, <2>4, <2>9
    <3>3. CASE call.tool = "write_tracking_outbox"
      <4> DEFINE e == [tool |-> "write_tracking_outbox", target |-> st.quote, weight |-> Weight]
      <4>1. e \in effects
        BY <2>7, <3>3 DEF EffectOf, ReadTools
      <4>2. e.tool = "write_tracking_outbox" /\ e.target = st.quote
        OBVIOUS
      <4> HIDE DEF e
      <4>3. Targets("write_tracking_outbox") # {}
        BY <4>1, <4>2 DEF Targets
      <4> QED
        BY <2>5, <3>1, <3>2, <4>3 DEF Entered
    <3>4. CASE call.tool # "write_tracking_outbox"
      <4>1. st'.notices = st.notices
        BY <2>3, <2>4, <3>4
      <4> QED
        BY <3>1, <3>2, <4>1, NothingEntered
    <3> QED
      BY <3>3, <3>4
  <2> QED
    BY <2>8, <2>9
<1> QED
  BY <1>1, <1>2

\* Every step keeps the entries right.
LEMMA NextEntered == IInv /\ IInv' /\ Entered /\ [Next]_vars => Entered'
<1> SUFFICES ASSUME IInv, IInv', Entered, [Next]_vars PROVE Entered'
  OBVIOUS
<1>1. st \in TrajectoryState
  BY DEF IInv, Typed, TypeOK
<1>2. CASE st' = st /\ effects \subseteq effects'
  <2>1. With({"CONFIRMED"})' = With({"CONFIRMED"})
    BY <1>2 DEF With
  <2> QED
    BY <1>2, <2>1, NothingEntered
<1>3. CASE \E status : st' = [st EXCEPT !.status = status] /\ effects' = effects
  <2>1. st'.confirms = st.confirms /\ st'.notices = st.notices /\ st'.prepared = st.prepared
    BY <1>1, <1>3 DEF TrajectoryState
  <2>2. With({"CONFIRMED"})' = With({"CONFIRMED"})
    BY <2>1 DEF With
  <2> QED
    BY <1>3, <2>1, <2>2, NothingEntered
<1>4. CASE Attempt \/ Decide
  <2>1. call.pc \in {"bound", "attempted"} /\ effects' = effects
    BY <1>4 DEF Attempt, Decide
  <2>2. st'.confirms = st.confirms /\ st'.notices = st.notices /\ call'.pc # "executed"
    <3>1. CASE Attempt
      <4>1. call \in CallRecord
        BY DEF IInv, Typed
      <4> QED
        BY <1>1, <3>1, <4>1 DEF Attempt, TrajectoryState, CallRecord
    <3>2. CASE Decide
      <4>1. call \in CallRecord
        BY DEF IInv, Typed
      <4>2. PICK verdict \in Verdicts(call) :
              LET outcome == AppliedOutcome(verdict, call.tool)
                  q == call.args.quote
              IN  /\ call' = [call EXCEPT !.pc = IF outcome = "ALLOW" THEN "allowed" ELSE outcome,
                                          !.verdict = verdict]
                  /\ st' = IF outcome = "ESCALATE"
                           THEN [st EXCEPT !.pending = q, !.prepared[q] = "PENDING_APPROVAL"]
                           ELSE st
        BY <3>2 DEF Decide
      <4>3. st'.confirms = st.confirms /\ st'.notices = st.notices
        BY <1>1, <4>2 DEF TrajectoryState
      <4>4. AppliedOutcome(verdict, call.tool) # "executed"
        BY DEF AppliedOutcome, PolicyOutcome
      <4>5. call'.pc = IF AppliedOutcome(verdict, call.tool) = "ALLOW" THEN "allowed"
                       ELSE AppliedOutcome(verdict, call.tool)
        BY <4>1, <4>2 DEF CallRecord
      <4> QED
        BY <4>3, <4>4, <4>5
    <3> QED
      BY <1>4, <3>1, <3>2
  <2>3. Targets("confirm_freight_booking")' = Targets("confirm_freight_booking")
    BY <2>1 DEF Targets
  <2>4. With({"CONFIRMED"}) = Targets("confirm_freight_booking")
    BY <2>1, ToldIsConfirmed
  <2>5. With({"CONFIRMED"})' = Targets("confirm_freight_booking")'
    BY <2>2 DEF IInv, Recorded
  <2> QED
    BY <2>1, <2>2, <2>3, <2>4, <2>5, NothingEntered
<1>5. CASE AgentContinues \/ ModelAnswered
  <2>1. Answered /\ st' = StateAfterCall /\ effects' = effects /\ call'.pc = "idle"
    BY <1>5 DEF AgentContinues, ModelAnswered, NoCall
  <2> QED
    BY <2>1, AnswerEntered
<1>6. CASE UNCHANGED vars
  BY <1>2, <1>6 DEF vars
<1>7. CASE Execute
  <2>1. st' = st /\ effects \subseteq effects'
    BY <1>7 DEF Execute
  <2> QED
    BY <1>2, <2>1
<1>8. CASE AgentCalls \/ ModelCalls \/ ModelReturns \/ ProviderFails \/ Timeout \/ StartAgent \/ AgentReturned
  <2>1. st' = st /\ effects' = effects
    BY <1>8 DEF AgentCalls, ModelCalls, ModelReturns, ProviderFails, Timeout, StartAgent, AgentReturned
  <2> QED
    BY <1>2, <2>1
<1>9. CASE EndRun \/ RunRaises
  <2>1. effects' = effects
    BY <1>9 DEF EndRun, RunRaises
  <2>2. \E status : st' = [st EXCEPT !.status = status]
    BY <1>9 DEF EndRun, RunRaises
  <2> QED
    BY <1>3, <2>1, <2>2
<1> QED
  BY <1>4, <1>5, <1>6, <1>7, <1>8, <1>9 DEF Next, Governor, Agent, Model, Orchestrator

\* The exactly-once card hides no second booking and claims none that did not happen
\* (_exact_once_status).
THEOREM ExactOnceSafe == Spec => []ExactOnceTruthful
<1>1. ASSUME IInv, Entered PROVE ExactOnceTruthful
  <2> SUFFICES ASSUME call.pc # "executed" PROVE ExactOnceTruthful
    BY DEF ExactOnceTruthful
  <2> DEFINE told == Cardinality(Targets("confirm_freight_booking"))
             shown == ExactOnceStatus(st)
  <2>1. /\ told \in Nat /\ told <= st.confirms /\ st.confirms \in Nat /\ st.notices \in Nat
        /\ st.confirms > 0 => told # 0
        /\ st.notices > 0 => Targets("write_tracking_outbox") # {}
    <3>1. With({"CONFIRMED"}) = Targets("confirm_freight_booking")
      BY <1>1, ToldIsConfirmed
    <3>2. told \in Nat /\ (told = 0 <=> With({"CONFIRMED"}) = {})
      BY <3>1, Finite, FS_EmptySet
    <3>3. st.confirms \in Nat /\ st.notices \in Nat
      BY <1>1 DEF IInv, Typed, TypeOK, TrajectoryState
    <3> QED
      BY <1>1, <3>1, <3>2, <3>3 DEF Entered
  <2>2. /\ shown \in {"confirmed_once", "confirmation_once"} => st.confirms = 1
        /\ shown = "confirmed_once" => st.notices = 1
        /\ shown \in {"awaiting_approval", "no_commitment"} => ~(st.confirms > 1) /\ st.confirms # 1
        /\ st.confirms > 1 => shown = "violation"
    BY <2>1 DEF ExactOnceStatus
  <2> HIDE DEF told, shown
  <2>3. /\ told > 1 => shown = "violation"
        /\ shown \in {"confirmed_once", "confirmation_once"} => told = 1
        /\ shown = "confirmed_once" => Targets("write_tracking_outbox") # {}
        /\ shown \in {"awaiting_approval", "no_commitment"} => told = 0
    BY <2>1, <2>2
  <2> QED
    BY <2>3 DEF ExactOnceTruthful, told, shown
<1>2. IInv /\ Entered => ExactOnceTruthful
  BY <1>1
<1> QED
  BY <1>2, Invariance, InitEntered, NextEntered, PTL DEF Spec

-----------------------------------------------------------------------------
(* A run without a hosted model books one carrier.                          *)

\* Only the quote that is selected is ever prepared or told about, and it is not
\* exchanged for another once it has been: the script selects before it prepares,
\* and the recorded model selects only while nothing is selected.
OneQuote ==
  /\ Targets("prepare_freight_booking") \subseteq {st.quote}
  /\ Targets("write_tracking_outbox") \subseteq {st.quote}
  /\ role < 3 => Targets("prepare_freight_booking") = {}
  /\ Busy => /\ call.tool \in {"prepare_freight_booking", "confirm_freight_booking"} =>
                  call.args.quote = st.quote
             /\ call.tool = "select_carrier_quote" => Targets("prepare_freight_booking") = {}
  /\ Legacy /\ main = "agent" /\ step \in {"list_carrier_quotes", "select_carrier_quote", "reselect"} =>
       Targets("prepare_freight_booking") = {}

Single == Runtime # "strands" => OneQuote

\* The tools of the carrier are called in its role.
LEMMA CarrierRole ==
  ASSUME IInv, role > 0, NEW t \in AllowedTools,
         t \in {"select_carrier_quote", "prepare_freight_booking", "confirm_freight_booking"}
  PROVE  role = 3
<1>1. role = 1 \/ role = 2 \/ role = 3 \/ role = 4
  BY DEF IInv, Typed, TypeOK, RoleOrder
<1> QED
  BY <1>1 DEF AllowedTools, Owner, RoleOrder, InventoryTools, DispatchTools, CarrierTools,
              CommunicationsTools

\* A quote is prepared only where one is selected.
LEMMA PreparedIsQuote ==
  ASSUME IInv
  PROVE  None \notin Targets("prepare_freight_booking")
<1>1. \A e \in effects : e.target # None
  BY RunAssumption DEF IInv, Typed, TypeOK, Effects
<1> QED
  BY <1>1 DEF Targets

\* A step that leaves the tools, the selection and the call's arguments alone.
LEMMA QuoteKept ==
  ASSUME OneQuote, effects' = effects, st'.quote = st.quote, role' < 3 => role < 3,
         Busy' => Busy /\ call'.tool = call.tool /\ call'.args = call.args,
         (Legacy /\ main = "agent" /\ step \in {"list_carrier_quotes", "select_carrier_quote", "reselect"})'
           => Targets("prepare_freight_booking") = {}
  PROVE  OneQuote'
<1>1. \A t : Targets(t)' = Targets(t)
  BY DEF Targets
<1> QED
  BY <1>1 DEF OneQuote

\* A script's call concerns the selected quote.
LEMMA AgentCallsQuote ==
  ASSUME IInv, OneQuote, AgentCalls
  PROVE  OneQuote'
<1>1. \A t : Targets(t)' = Targets(t)
  BY DEF AgentCalls, Targets
<1>2. /\ Legacy /\ main = "agent" /\ call.pc = "idle" /\ UNCHANGED <<run, main, role, step, st>>
      /\ call'.tool = ScriptTool /\ call'.args = ScriptArguments
  BY DEF AgentCalls, Legacy
<1>3. step \in {"prepare_freight_booking", "confirm_freight_booking"} => ScriptArguments.quote = st.quote
  BY <1>2, ScriptedCall
<1>4. /\ ScriptTool \in {"prepare_freight_booking", "confirm_freight_booking"} => ScriptTool = step
      /\ ScriptTool = "select_carrier_quote" => step \in {"select_carrier_quote", "reselect"}
  BY DEF ScriptTool
<1> QED
  BY <1>1, <1>2, <1>3, <1>4 DEF OneQuote, Legacy, Runtime

\* So does a call of the recorded model: it selects while nothing is selected,
\* prepares the selection and confirms what was prepared.
LEMMA RecordedQuote ==
  ASSUME IInv, OneQuote, role > 0, RecordedCall.tool \in AllowedTools
  PROVE  /\ RecordedCall.tool \in {"prepare_freight_booking", "confirm_freight_booking"} =>
              RecordedCall.args.quote = st.quote
         /\ RecordedCall.tool = "select_carrier_quote" => Targets("prepare_freight_booking") = {}
<1> SUFFICES ASSUME RecordedCall.tool \in
                      {"select_carrier_quote", "prepare_freight_booking", "confirm_freight_booking"}
             PROVE  /\ RecordedCall.tool \in {"prepare_freight_booking", "confirm_freight_booking"} =>
                         RecordedCall.args.quote = st.quote
                    /\ RecordedCall.tool = "select_carrier_quote" => Targets("prepare_freight_booking") = {}
  OBVIOUS
<1> DEFINE actions == {q \in Quotes : st.prepared[q] # "none"}
           quote(q) == [NoArguments EXCEPT !.quote = q]
<1>1. role = 3
  BY CarrierRole
<1>2. RecordedCall = RecordedCarrier
  <2>1. ~ctx.terminal
    BY DEF RecordedCall, Stops, Proposes
  <2>2. RoleOrder[role] = "carrier"
    BY <1>1 DEF RoleOrder
  <2> QED
    BY <2>1, <2>2 DEF RecordedCall
<1>3. actions \subseteq {st.quote}
  <2>1. actions \subseteq With({"PREPARED", "PENDING_APPROVAL", "CONFIRMED"})
    BY DEF IInv, Typed, TypeOK, TrajectoryState, With
  <2> QED
    BY <2>1 DEF IInv, Recorded, OneQuote
<1>4. actions # {} => Min(actions) = st.quote
  <2>1. actions \subseteq Nat
    BY RunAssumption
  <2> QED
    BY <1>3, <2>1, MinOf
<1>5. \A q : quote(q).quote = q
  BY DEF NoArguments
<1>6. st.quote = None => Targets("prepare_freight_booking") = {}
  BY PreparedIsQuote DEF OneQuote
<1> HIDE DEF actions, quote
<1>7. \/ RecordedCarrier.tool \in {"list_carrier_quotes", "none", "error"}
      \/ RecordedCarrier.tool = "select_carrier_quote" /\ st.quote = None
      \/ RecordedCarrier = Proposes("prepare_freight_booking", quote(st.quote))
      \/ actions # {} /\ RecordedCarrier = Proposes("confirm_freight_booking", quote(Min(actions)))
  BY DEF RecordedCarrier, Proposes, Stops, Raises, actions, quote
<1>8. CASE RecordedCarrier.tool \in {"list_carrier_quotes", "none", "error"}
  BY <1>2, <1>8
<1>9. CASE RecordedCarrier.tool = "select_carrier_quote" /\ st.quote = None
  BY <1>2, <1>6, <1>9
<1>10. CASE RecordedCarrier = Proposes("prepare_freight_booking", quote(st.quote))
  BY <1>2, <1>5, <1>10 DEF Proposes
<1>11. CASE actions # {} /\ RecordedCarrier = Proposes("confirm_freight_booking", quote(Min(actions)))
  BY <1>2, <1>4, <1>5, <1>11 DEF Proposes
<1> QED
  BY <1>7, <1>8, <1>9, <1>10, <1>11

\* The recorded model calls a tool.
LEMMA ModelCallsQuote ==
  ASSUME IInv, OneQuote, Runtime # "strands", ModelCalls
  PROVE  OneQuote'
<1>1. /\ ~Legacy /\ call.pc = "idle" /\ UNCHANGED <<run, main, role, step, st, effects>> /\ ctx.working
      /\ Runtime \in {"legacy", "strands", "recorded"}
  BY DEF ModelCalls, Legacy, Runtime, IInv, Typed, TypeOK, RunRecord
<1>2. role > 0
  BY <1>1 DEF IInv, Placed, Abandoned
<1>3. \A t : Targets(t)' = Targets(t)
  BY <1>1 DEF Targets
<1>4. /\ RecordedCall.tool \in AllowedTools
      /\ call' = [pc |-> "bound", tool |-> RecordedCall.tool, args |-> RecordedCall.args, verdict |-> {}]
         \/ call' = NoCall
  BY <1>1 DEF ModelCalls, Proposals, Legacy
<1>5. CASE call' = NoCall
  BY <1>1, <1>3, <1>5 DEF OneQuote, NoCall, Busy, Legacy, Runtime
<1>6. CASE call' = [pc |-> "bound", tool |-> RecordedCall.tool, args |-> RecordedCall.args, verdict |-> {}]
  <2>1. call'.tool = RecordedCall.tool /\ call'.args = RecordedCall.args
    BY <1>6
  <2> QED
    BY <1>1, <1>2, <1>3, <1>4, <2>1, RecordedQuote DEF OneQuote, Legacy, Runtime
<1> QED
  BY <1>4, <1>5, <1>6

\* A tool acts on the selected quote.
LEMMA ExecuteQuote ==
  ASSUME IInv, OneQuote, Execute
  PROVE  OneQuote'
<1> DEFINE P == Targets("prepare_freight_booking")
           W == Targets("write_tracking_outbox")
<1>1. /\ call.pc = "allowed" /\ UNCHANGED <<run, main, role, step, ctx, st>>
      /\ call \in CallRecord /\ call.tool \in AllowedTools /\ call.tool \in Tools /\ role > 0
  BY DEF Execute, IInv, Typed, Placed, AllowedTools
<1>2. call'.tool = call.tool /\ call'.args = call.args
  BY <1>1 DEF Execute, CallRecord
<1>3. CASE effects' = effects
  BY <1>1, <1>2, <1>3, QuoteKept DEF Busy, OneQuote, Legacy, Runtime
<1>4. CASE effects' = effects \cup EffectOf(call)
  <2>1. /\ call.tool # "prepare_freight_booking" => P' = P
        /\ call.tool # "write_tracking_outbox" => W' = W
        /\ call.tool = "prepare_freight_booking" => P' = P \cup {call.args.quote}
        /\ call.tool = "write_tracking_outbox" => W' = W \cup {st.quote}
    BY <1>1, <1>4, Performed DEF ReadTools
  <2>2. call.tool = "prepare_freight_booking" => role = 3 /\ call.args.quote = st.quote
    BY <1>1, CarrierRole DEF OneQuote, Busy
  <2>3. call.tool = "prepare_freight_booking" =>
          ~(Legacy /\ main = "agent" /\ step \in {"list_carrier_quotes", "select_carrier_quote", "reselect"})
    BY <1>1 DEF IInv, Scripted, ScriptTool
  <2>4. P \subseteq {st.quote} /\ W \subseteq {st.quote}
    BY DEF OneQuote
  <2>5. P' \subseteq {st'.quote} /\ W' \subseteq {st'.quote}
    BY <1>1, <2>1, <2>2, <2>4
  <2>6. Busy /\ Legacy' = Legacy
    BY <1>1 DEF Busy, Legacy, Runtime
  <2> HIDE DEF P, W
  <2>7. (role < 3 => P = {}) /\ (call.tool = "select_carrier_quote" => P = {})
        /\ (call.tool \in {"prepare_freight_booking", "confirm_freight_booking"} => call.args.quote = st.quote)
        /\ (Legacy /\ main = "agent" /\ step \in {"list_carrier_quotes", "select_carrier_quote", "reselect"}
              => P = {})
    BY <2>6 DEF OneQuote, P
  <2>8. (role' < 3 => P' = {}) /\ (call'.tool = "select_carrier_quote" => P' = {})
        /\ (Legacy' /\ main' = "agent" /\ step' \in {"list_carrier_quotes", "select_carrier_quote", "reselect"}
              => P' = {})
    BY <1>1, <1>2, <2>1, <2>2, <2>3, <2>6, <2>7
  <2> QED
    BY <1>1, <1>2, <2>5, <2>7, <2>8 DEF OneQuote, P, W
<1> QED
  BY <1>3, <1>4 DEF Execute

\* The answer of a selection comes before anything is prepared.
LEMMA AnswerQuote ==
  ASSUME IInv, OneQuote, Answered, st' = StateAfterCall, call'.pc = "idle", UNCHANGED <<run, role, effects>>,
         (Legacy /\ main = "agent" /\ step \in {"list_carrier_quotes", "select_carrier_quote", "reselect"})'
           => Targets("prepare_freight_booking") = {}
  PROVE  OneQuote'
<1>1. CASE st'.quote = st.quote
  BY <1>1, QuoteKept DEF Busy
<1>2. CASE st'.quote # st.quote
  <2>1. call.pc = "executed"
    BY <1>2 DEF StateAfterCall
  <2> DEFINE s == AfterTool(st, call)
  <2>2. s \in TrajectoryState /\ ProgressMoves(s)
    BY <2>1, ToolApplied
  <2>3. st'.quote = s.quote
    BY <2>1, <2>2 DEF StateAfterCall, TrajectoryState
  <2> HIDE DEF s
  <2>4. call.tool = "select_carrier_quote"
    BY <1>2, <2>2, <2>3 DEF ProgressMoves
  <2>5. Targets("prepare_freight_booking") = {}
    BY <2>1, <2>4 DEF OneQuote, Busy
  <2>6. role = 3
    BY <2>1, <2>4, CarrierRole DEF IInv, Placed
  <2>7. Targets("write_tracking_outbox") = {}
    BY <2>6 DEF IInv, Recorded
  <2>8. \A t : Targets(t)' = Targets(t)
    BY DEF Targets
  <2> QED
    BY <2>5, <2>7, <2>8 DEF OneQuote, Busy
<1> QED
  BY <1>1, <1>2

\* Every step keeps to the one quote.
LEMMA NextSingle == IInv /\ IInv' /\ Single /\ [Next]_vars => Single'
<1> SUFFICES ASSUME IInv, IInv', OneQuote, Runtime # "strands", [Next]_vars PROVE OneQuote'
  <2>1. [Next]_vars => Runtime' = Runtime
    BY DEF Next, vars, Runtime, Governor, Agent, Model, Orchestrator, Attempt, Decide, Execute, AgentCalls,
           AgentContinues, ModelCalls, ModelAnswered, ModelReturns, ProviderFails, Timeout, StartAgent,
           AgentReturned, EndRun, RunRaises
  <2> QED
    BY <2>1 DEF Single
<1> DEFINE Early == Legacy /\ main = "agent" /\
                    step \in {"list_carrier_quotes", "select_carrier_quote", "reselect"}
<1>1. st \in TrajectoryState /\ call \in CallRecord /\ role \in 0..4
  BY DEF IInv, Typed, TypeOK, RoleOrder
<1>2. Early => Targets("prepare_freight_booking") = {}
  BY DEF OneQuote
<1>3. CASE UNCHANGED vars
  BY <1>2, <1>3, QuoteKept DEF vars, Busy, Legacy, Runtime
<1>4. CASE Attempt
  <2>1. /\ UNCHANGED <<run, main, role, step, effects>> /\ st'.quote = st.quote /\ Busy
        /\ call'.tool = call.tool /\ call'.args = call.args
    BY <1>1, <1>4 DEF Attempt, Busy, TrajectoryState, CallRecord
  <2> QED
    BY <1>2, <2>1, QuoteKept DEF Legacy, Runtime
<1>5. CASE Decide
  <2>1. UNCHANGED <<run, main, role, step, effects>> /\ Busy
    BY <1>5 DEF Decide, Busy
  <2>2. PICK verdict \in Verdicts(call) :
          LET outcome == AppliedOutcome(verdict, call.tool)
              q == call.args.quote
          IN  /\ call' = [call EXCEPT !.pc = IF outcome = "ALLOW" THEN "allowed" ELSE outcome,
                                      !.verdict = verdict]
              /\ st' = IF outcome = "ESCALATE"
                       THEN [st EXCEPT !.pending = q, !.prepared[q] = "PENDING_APPROVAL"]
                       ELSE st
    BY <1>5 DEF Decide
  <2>3. st'.quote = st.quote
    BY <1>1, <2>2 DEF TrajectoryState
  <2>4. call'.tool = call.tool /\ call'.args = call.args
    BY <1>1, <2>2 DEF CallRecord
  <2> QED
    BY <1>2, <2>1, <2>3, <2>4, QuoteKept DEF Legacy, Runtime
<1>6. CASE ModelReturns \/ ProviderFails \/ Timeout
  <2>1. UNCHANGED <<run, role, step, call, st, effects>> /\ ~Legacy
    BY <1>6 DEF ModelReturns, ProviderFails, Timeout, Legacy
  <2> QED
    BY <2>1, QuoteKept DEF Busy, Legacy, Runtime
<1>7. CASE AgentReturned \/ EndRun \/ RunRaises
  <2>1. UNCHANGED <<run, role, step, call, effects>> /\ st'.quote = st.quote /\ main' # "agent"
    BY <1>1, <1>7 DEF AgentReturned, EndRun, RunRaises, TrajectoryState
  <2> QED
    BY <2>1, QuoteKept DEF Busy
<1>8. CASE StartAgent
  <2>1. UNCHANGED <<run, call, st, effects>> /\ role' = role + 1 /\ role < 4
    BY <1>8 DEF StartAgent, RoleOrder
  <2>2. Early' => Targets("prepare_freight_booking") = {}
    <3>1. ASSUME Early' PROVE role < 3
      <4>1. Runtime = "legacy"
        BY <2>1, <3>1 DEF Legacy, Runtime
      <4>2. step' = FirstStep[role + 1]
        BY <1>8, <4>1 DEF StartAgent
      <4>3. role = 0 \/ role = 1 \/ role = 2 \/ role = 3
        BY <1>1, <2>1
      <4>4. CASE role = 3
        BY <3>1, <4>2, <4>4 DEF FirstStep
      <4> QED
        BY <4>3, <4>4
    <3> QED
      BY <3>1 DEF OneQuote
  <2>3. role' < 3 => role < 3
    BY <1>1, <2>1
  <2> QED
    BY <2>1, <2>2, <2>3, QuoteKept DEF Busy
<1>9. CASE AgentContinues
  <2>1. /\ Legacy /\ Answered /\ st' = StateAfterCall /\ call'.pc = "idle"
        /\ UNCHANGED <<run, role, effects>>
    BY <1>9 DEF AgentContinues, NoCall, Legacy
  <2>2. main = "agent"
    BY <2>1 DEF IInv, Placed, Abandoned, Answered
  <2>3. Early' => Early
    <3>1. ASSUME Early' PROVE step' = NextStep
      BY <1>9, <3>1 DEF AgentContinues
    <3>2. NextStep \in {"list_carrier_quotes", "select_carrier_quote", "reselect"} =>
            step \in {"list_carrier_quotes", "select_carrier_quote"}
      BY DEF NextStep, AfterValue, AfterGuide, AfterBlock
    <3> QED
      BY <2>1, <2>2, <3>1, <3>2
  <2> QED
    BY <1>2, <2>1, <2>3, AnswerQuote
<1>10. CASE ModelAnswered
  <2>1. /\ ~Legacy /\ Answered /\ st' = StateAfterCall /\ call'.pc = "idle"
        /\ UNCHANGED <<run, role, effects>>
    BY <1>10 DEF ModelAnswered, NoCall, Legacy
  <2> QED
    BY <2>1, AnswerQuote DEF Legacy, Runtime
<1> QED
  BY <1>3, <1>4, <1>5, <1>6, <1>7, <1>8, <1>9, <1>10, AgentCallsQuote, ModelCallsQuote, ExecuteQuote
  DEF Next, Governor, Agent, Model, Orchestrator

\* A run starts with no quote.
LEMMA FreshSingle == Fresh => Single
<1> SUFFICES ASSUME Fresh PROVE OneQuote
  BY DEF Single
<1>1. main = "loop" /\ role = 0 /\ call.pc = "idle" /\ effects = {}
  BY DEF Fresh, NoCall
<1>2. \A t : Targets(t) = {}
  BY <1>1 DEF Targets
<1> QED
  BY <1>1, <1>2 DEF OneQuote, Busy

-----------------------------------------------------------------------------
(* Two runs in a row.                                                       *)

\* The comparison run starts afresh.
LEMMA RerunFresh == IInv /\ Rerun => Fresh'
<1> SUFFICES ASSUME IInv, Rerun PROVE Fresh'
  OBVIOUS
<1>1. run \in RunRecord
  BY DEF IInv, Typed, TypeOK
<1>2. run' \in RunRecord /\ run'.prior = run.prior
  BY <1>1 DEF Rerun, RunRecord
<1>3. NewTrajectory(run') = NewTrajectory(run)
  BY <1>2 DEF NewTrajectory
<1> QED
  BY <1>2, <1>3 DEF Rerun, Fresh

\* What holds when a run is started holds when the second one is.
LEMMA FreshAfter == Fresh' => IInv' /\ Single'
  BY FreshInv, FreshSingle, PTL

\* Both invariants hold through the comparison of two runs.
LEMMA ParityStep == IInv /\ Single /\ [ParityNext]_parityVars => IInv' /\ Single'
<1>1. [ParityNext]_parityVars => [Next]_vars \/ Rerun
  BY DEF ParityNext, parityVars, RunStep
<1> QED
  BY <1>1, NextInv, NextSingle, RerunFresh, FreshAfter

THEOREM ParityInvariance == ParitySpec => [](IInv /\ Single)
<1>1. ParityInit => IInv /\ Single
  BY InitFresh, FreshInv, FreshSingle DEF ParityInit
<1> QED
  BY <1>1, ParityStep, PTL DEF ParitySpec

\* The deterministic agents and the recorded model, one after the other or alone, keep
\* all that is promised of any run, book one carrier at most, tell the customer about
\* that one and complete with nothing reserved.
THEOREM ScriptedSafe == ParitySpec => [](Runtime # "strands" => ScriptedRunSafe)
<1>1. ASSUME IInv, OneQuote PROVE ScriptedRunSafe
  <2> DEFINE P == Targets("prepare_freight_booking")
             T == Targets("confirm_freight_booking")
             W == Targets("write_tracking_outbox")
  <2>1. /\ SpendConserved /\ CommitWithinThreshold /\ ColdChainKept /\ CompletedTruthful
        /\ PausedApprovable
    BY <1>1, Promised
  <2>2. T \subseteq P /\ P \subseteq {st.quote} /\ W \subseteq {st.quote}
    BY <1>1, <2>1 DEF SpendConserved, OneQuote
  <2>3. Cardinality(T) <= 1
    <3>1. T = {} \/ T = {st.quote}
      BY <2>2
    <3> HIDE DEF T
    <3>2. Cardinality({st.quote}) = 1 /\ Cardinality({}) = 0
      BY FS_Singleton, FS_EmptySet
    <3> QED
      BY <3>1, <3>2
  <2>4. ASSUME role = 4 PROVE st.booked # None /\ st.booked = st.quote /\ st.booked \in With({"CONFIRMED"})
    <3>1. RoleDone(3)
      <4>1. \A r \in 1..4 : r < role => RoleDone(r)
        BY <1>1 DEF IInv, Staged
      <4>2. 3 \in 1..4 /\ 3 < 4
        OBVIOUS
      <4> QED
        BY <2>4, <4>1, <4>2
    <3>2. st.pending = None
      BY <1>1, <2>4 DEF IInv, Escalated
    <3>3. st.booked # None
      BY <3>1, <3>2 DEF RoleDone
    <3>4. st.booked \in With({"CONFIRMED"}) /\ With({"CONFIRMED"}) \subseteq T
      BY <1>1, <3>3 DEF IInv, Recorded
    <3> QED
      BY <2>2, <3>3, <3>4
  <2>5. W \subseteq T
    <3>1. W # {} => role = 4
      BY <1>1 DEF IInv, Recorded
    <3>2. With({"CONFIRMED"}) \subseteq T
      BY <1>1 DEF IInv, Recorded
    <3> QED
      BY <2>2, <2>4, <3>1, <3>2
  <2>6. ASSUME st.status = "COMPLETED" PROVE st.reserved = 0
    <3>1. role = 4
      BY <1>1, <2>6 DEF IInv, Staged
    <3>2. With({"PREPARED", "PENDING_APPROVAL"}) = {}
      <4>1. With({"PREPARED", "PENDING_APPROVAL"}) \subseteq P
        BY <1>1 DEF IInv, Recorded, With
      <4>2. st.quote \notin With({"PREPARED", "PENDING_APPROVAL"})
        BY <2>4, <3>1 DEF With
      <4> QED
        BY <2>2, <4>1, <4>2
    <3> QED
      BY <2>1, <3>2, Totals DEF SpendConserved
  <2> QED
    BY <2>1, <2>3, <2>5, <2>6 DEF ScriptedRunSafe
<1>2. IInv /\ Single => (Runtime # "strands" => ScriptedRunSafe)
  BY <1>1 DEF Single
<1> QED
  BY <1>2, ParityInvariance, PTL

-----------------------------------------------------------------------------
(* The provenance panel.                                                    *)

Decisions == [tool : Tools, weight : Weights, verdict : SUBSET PolicyIds, applied : Pcs]

\* A plan at another weight was not allowed by the policy, whatever was applied.
Flagged(d) ==
  d.tool = "create_dispatch_plan" /\ d.weight # Weight => PolicyOutcome(d.verdict) # "ALLOW"

Traced == decisions \in Seq(Decisions) /\ \A k \in 1..Len(decisions) : Flagged(decisions[k])

\* No verdict allows a plan at another weight, an engine's failure neither.
LEMMA WeightRefused ==
  ASSUME NEW verdict \in Verdicts(call), call.tool = "create_dispatch_plan", call.args.weight # Weight
  PROVE  PolicyOutcome(verdict) # "ALLOW"
<1> DEFINE r == RequestOf(call)
<1>1. r.action = call.tool /\ r.weight = call.args.weight /\ r.fact.weight = Weight
  BY DEF RequestOf
<1>2. verdict = PythonEvaluate(r) \/ verdict = {"ENGINE-FAIL"}
  BY DEF Verdicts
<1> HIDE DEF r
<1>3. CASE verdict = PythonEvaluate(r)
  BY <1>1, <1>3, PlanAllowed
<1>4. CASE verdict = {"ENGINE-FAIL"}
  BY <1>4 DEF PolicyOutcome, Outcome, AllowPolicies, GuidePolicies, EscalatePolicies
<1> QED
  BY <1>2, <1>3, <1>4

\* The decision that is stored is of the call in progress, with the verdict it got.
LEMMA DecisionFlagged ==
  ASSUME IInv, IInv', Next, call.pc = "attempted", call'.pc # "attempted",
         NEW d, d = DecisionOf([call EXCEPT !.verdict = call'.verdict], call'.pc)
  PROVE  d \in Decisions /\ Flagged(d)
<1>1. Decide
  <2>1. call' # call
    OBVIOUS
  <2> QED
    BY <2>1 DEF Next, Governor, Agent, Model, Orchestrator, Attempt, Execute, AgentCalls, AgentContinues,
              ModelCalls, ModelAnswered, ModelReturns, ProviderFails, Timeout, StartAgent, AgentReturned,
              EndRun, RunRaises, Answered
<1>2. PICK verdict \in Verdicts(call) :
        call' = [call EXCEPT !.pc = IF AppliedOutcome(verdict, call.tool) = "ALLOW" THEN "allowed"
                                    ELSE AppliedOutcome(verdict, call.tool),
                             !.verdict = verdict]
  BY <1>1 DEF Decide
<1>3. call \in CallRecord /\ call' \in CallRecord /\ call.tool \in Tools /\ call.args \in Arguments
  BY DEF IInv, Typed, TypeOK, Placed, AllowedTools
<1>4. call'.verdict = verdict /\ call'.verdict \in SUBSET PolicyIds /\ call'.pc \in Pcs
  BY <1>2, <1>3 DEF CallRecord
<1>5. d = [tool |-> call.tool, weight |-> call.args.weight, verdict |-> verdict, applied |-> call'.pc]
  BY <1>3, <1>4 DEF DecisionOf, CallRecord
<1>6. call.args.weight \in Weights
  BY <1>3 DEF Arguments
<1>7. d \in Decisions
  BY <1>3, <1>4, <1>5, <1>6 DEF Decisions
<1>8. Flagged(d)
  BY <1>5, WeightRefused DEF Flagged
<1> QED
  BY <1>7, <1>8

\* Every step of either run keeps the log so.
LEMMA ParityTraced == IInv /\ IInv' /\ Traced /\ [ParityNext]_parityVars => Traced'
<1> SUFFICES ASSUME IInv, IInv', Traced, [ParityNext]_parityVars PROVE Traced'
  OBVIOUS
<1>1. CASE decisions' = decisions
  BY <1>1 DEF Traced
<1>2. CASE decisions' = <<>>
  BY <1>2 DEF Traced
<1>3. CASE Next /\ Decided /\ decisions' # decisions
  <2> DEFINE d == DecisionOf([call EXCEPT !.verdict = call'.verdict], call'.pc)
  <2>1. call.pc = "attempted" /\ call'.pc # "attempted" /\ decisions' = Append(decisions, d)
    BY <1>3 DEF Decided
  <2>2. d \in Decisions /\ Flagged(d)
    BY <1>3, <2>1, DecisionFlagged
  <2> HIDE DEF d
  <2>3. decisions \in Seq(Decisions) /\ \A k \in 1..Len(decisions) : Flagged(decisions[k])
    BY DEF Traced
  <2>4. /\ decisions' \in Seq(Decisions) /\ Len(decisions') = Len(decisions) + 1
        /\ \A k \in 1..Len(decisions) : decisions'[k] = decisions[k]
        /\ decisions'[Len(decisions) + 1] = d
    BY <2>1, <2>2, <2>3
  <2>5. ASSUME NEW k \in 1..Len(decisions') PROVE Flagged(decisions'[k])
    <3>1. Len(decisions) \in Nat
      BY <2>3
    <3>2. k \in 1..Len(decisions) \/ k = Len(decisions) + 1
      BY <2>4, <3>1
    <3>3. CASE k \in 1..Len(decisions)
      BY <2>3, <2>4, <3>3
    <3>4. CASE k = Len(decisions) + 1
      BY <2>2, <2>4, <3>4
    <3> QED
      BY <3>2, <3>3, <3>4
  <2> QED
    BY <2>4, <2>5 DEF Traced
<1> QED
  BY <1>1, <1>2, <1>3 DEF ParityNext, parityVars, RunStep, Rerun

\* The panel flags every attempted weight that is not the sourced one, in every run of
\* every length, whatever was applied (_build_weight_provenance).
THEOREM ProvenanceSafe == ParitySpec => []ProvenanceShown
<1>1. ParityInit => Traced
  BY DEF ParityInit, Traced
<1>2. ASSUME Traced PROVE ProvenanceShown
  <2>1. DOMAIN decisions = 1..Len(decisions)
    BY <1>2 DEF Traced
  <2>2. ASSUME NEW k \in DOMAIN WeightAttempts(decisions)
        PROVE  LET a == WeightAttempts(decisions)[k] IN a.value # Weight => a.outcome # "ALLOW"
    <3>1. k \in Plans(decisions)
      BY <2>2 DEF WeightAttempts
    <3>2. k \in 1..Len(decisions) /\ decisions[k].tool = "create_dispatch_plan"
      BY <2>1, <3>1 DEF Plans
    <3>3. /\ WeightAttempts(decisions)[k].value = decisions[k].weight
          /\ WeightAttempts(decisions)[k].outcome =
               IF decisions[k].applied = "BLOCK" THEN "BLOCK" ELSE PolicyOutcome(decisions[k].verdict)
      BY <3>1 DEF WeightAttempts
    <3>4. Flagged(decisions[k])
      BY <1>2, <3>2 DEF Traced
    <3> QED
      BY <3>2, <3>3, <3>4 DEF Flagged
  <2> QED
    BY <2>2 DEF ProvenanceShown
<1>3. Traced => ProvenanceShown
  BY <1>2
<1> QED
  BY <1>1, <1>3, ParityInvariance, ParityTraced, PTL DEF ParitySpec

=============================================================================
