----------------------------- MODULE Dashboard -----------------------------
(***************************************************************************)
(* The operator's browser page against the HTTP API: asynchronous handlers *)
(* that interleave at every await, a polling timer, requests that are      *)
(* answered late or abandoned, and another browser deciding the same       *)
(* approval.  The API runs in one process whose handlers never yield, so a *)
(* request is one step there; what a run or a resolution does inside that  *)
(* step is the subject of GovernedRun and ApprovalResolution.  Contents    *)
(* that only get drawn (events, decisions, charts, verification) are left  *)
(* out: a view is the run's status and its approval's.                     *)
(***************************************************************************)
EXTENDS Naturals, FiniteSets, FiniteSetsExt

CONSTANTS
  MaxTraces,    \* runs the page or its retries may start
  Slots,        \* handlers that may be in progress at once
  MaxClicks,    \* clicks of the operator that send a request
  MaxAborts     \* requests abandoned at their timeout

ASSUME DashboardAssumption ==
  /\ MaxTraces \in Nat /\ MaxClicks \in Nat /\ MaxAborts \in Nat
  /\ Slots \subseteq Nat \ {0} /\ IsFiniteSet(Slots)

Traces == 1..MaxTraces
NoTrace == 0

Pending == "pending_approval"

\* The statuses of a run that has ended; a blocked one is handled like a failed one.
Ended == {"completed", "cancelled", "failed"}

VARIABLES
  server,     \* the status of every run the API knows, "none" for the others
  approvals,  \* every run's approval: "none", pending, "resolved", or "cleared"
              \* when it is resolved and the run names it no more
  started,    \* how many runs were started
  tasks,      \* the handlers in progress
  orphans,    \* requests the page gave up on that may still reach the API
  view,       \* what is drawn: state.run with its trace, and state.approval
  active,     \* state.activeTraceId
  url,        \* the trace_id in the page's address
  loading,    \* state.loading
  controls,   \* which buttons are enabled: "off", "run" or "all"
  timer,      \* whether the polling interval is set
  disabledBy, \* the handler that disabled the drawn approval buttons, if one did
  clicks, aborts

vars == <<server, approvals, started, tasks, orphans, view, active, url, loading, controls, timer,
          disabledBy, clicks, aborts>>

page == <<view, active, url, loading, controls, timer, disabledBy>>

-----------------------------------------------------------------------------
(* Handlers.  pc names the request awaited, served tells that the API has   *)
(* answered, run keeps a load's first answer, and names tells that the run  *)
(* it read has a pending_approval_id.                                       *)

Idle ==
  [pc |-> "idle", served |-> FALSE, trace |-> NoTrace, answer |-> "none", run |-> "none",
   names |-> FALSE]

NoView == [trace |-> NoTrace, run |-> "none", approval |-> "none"]

\* The requests that change something.
Posts == {"start", "decide", "reset"}

FreeSlots == {k \in Slots : tasks[k].pc = "idle"}
Slot == Min(FreeSlots)

Become(k, task) == tasks' = [tasks EXCEPT ![k] = task]

\* The first requests of loadTrace, with the page's changes before the await.
Loading(task, trace) ==
  [task EXCEPT !.pc = "load", !.served = FALSE, !.trace = trace, !.answer = "none",
               !.names = FALSE]

BeginLoad == loading' = TRUE /\ controls' = "off"

Init ==
  /\ server = [t \in Traces |-> "none"] /\ approvals = server /\ started = 0
  /\ tasks = [k \in Slots |-> Idle] /\ orphans = {}
  /\ view = NoView /\ active = NoTrace /\ url = NoTrace
  /\ loading = FALSE /\ controls = "run" /\ timer = FALSE /\ disabledBy = 0
  /\ clicks = 0 /\ aborts = 0

-----------------------------------------------------------------------------
(* The operator and the timer.                                             *)

Clicks == clicks < MaxClicks /\ clicks' = clicks + 1 /\ FreeSlots # {}

\* startRun up to its request.
ClickRun ==
  /\ controls # "off" /\ started + Cardinality({k \in Slots : tasks[k].pc = "start"}) < MaxTraces
  /\ Clicks
  /\ Become(Slot, [Idle EXCEPT !.pc = "start"])
  /\ BeginLoad
  /\ UNCHANGED <<server, approvals, started, orphans, view, active, url, timer, disabledBy, aborts>>

\* The refresh button.
ClickRefresh ==
  /\ controls = "all" /\ active # NoTrace /\ Clicks
  /\ Become(Slot, Loading(Idle, active)) /\ BeginLoad
  /\ UNCHANGED <<server, approvals, started, orphans, view, active, url, timer, disabledBy, aborts>>

\* renderApproval draws the form, with its buttons enabled, only for a pending
\* approval.
FormDrawn == view.approval = Pending

\* resolveApproval up to its request, with the approval shown.
ClickDecide ==
  /\ FormDrawn /\ disabledBy = 0 /\ Clicks
  /\ Become(Slot, [Idle EXCEPT !.pc = "decide", !.trace = view.trace])
  /\ disabledBy' = Slot
  /\ UNCHANGED <<server, approvals, started, orphans, view, active, url, loading, controls, timer, aborts>>

\* resetDemo up to its request.
ClickReset ==
  /\ controls # "off" /\ Clicks
  /\ Become(Slot, [Idle EXCEPT !.pc = "reset"]) /\ BeginLoad
  /\ UNCHANGED <<server, approvals, started, orphans, view, active, url, timer, disabledBy, aborts>>

\* The page is loaded anew (initialize): nothing is kept but the address and the
\* requests already sent; without the API it stays disconnected.
Reload ==
  /\ url # NoTrace /\ Clicks
  /\ orphans' = orphans \cup
       {[pc |-> tasks[k].pc, trace |-> tasks[k].trace] :
          k \in {j \in Slots : tasks[j].pc \in Posts /\ ~tasks[j].served}}
  /\ view' = NoView /\ active' = NoTrace /\ timer' = FALSE /\ disabledBy' = 0
  /\ \/ /\ tasks' = [k \in Slots |-> IF k = Min(Slots) THEN Loading(Idle, url) ELSE Idle]
        /\ BeginLoad
     \/ tasks' = [k \in Slots |-> Idle] /\ loading' = FALSE /\ controls' = "off"
  /\ UNCHANGED <<server, approvals, started, url, aborts>>

\* A timeline button, or a refreshed verification: the current view is drawn anew.
Redraw ==
  /\ view # NoView /\ disabledBy # 0 /\ disabledBy' = 0
  /\ UNCHANGED <<server, approvals, started, tasks, orphans, view, active, url, loading, controls,
                 timer, clicks, aborts>>

\* The interval fires.
Poll ==
  /\ timer /\ ~loading /\ active # NoTrace /\ FreeSlots # {}
  /\ Become(Slot, Loading(Idle, active)) /\ BeginLoad
  /\ UNCHANGED <<server, approvals, started, orphans, view, active, url, timer, disabledBy, clicks,
                 aborts>>

-----------------------------------------------------------------------------
(* The API: one request, one step.                                         *)

\* POST /v1/runs: refused, or a run up to its pause or its end.  A hosted run that
\* fails after its escalation, at the timeout or by a bad stop, leaves its approval
\* pending.
StartRun ==
  \E outcome \in {"refused", Pending, "completed", "failed"}, asked \in {"none", Pending} :
    /\ outcome # "refused" => started < MaxTraces
    /\ outcome # "failed" => asked = IF outcome = Pending THEN Pending ELSE "none"
    /\ started' = IF outcome = "refused" THEN started ELSE started + 1
    /\ server' = [t \in Traces |-> IF outcome # "refused" /\ t = started' THEN outcome
                                   ELSE server[t]]
    /\ approvals' = [t \in Traces |-> IF outcome # "refused" /\ t = started' THEN asked
                                      ELSE approvals[t]]

\* The worker thread of a run that timed out escalates all the same.
LateEscalation(trace) ==
  /\ server[trace] = "failed" /\ approvals[trace] = "none"
  /\ approvals' = [approvals EXCEPT ![trace] = Pending]
  /\ UNCHANGED server

\* How a run may leave its decided approval: a continuation that raised leaves the
\* run pending, a confirmation or a cancellation clears the pending_approval_id.
Closings ==
  {<<Pending, "resolved">>, <<"failed", "resolved">>} \cup (Ended \X {"cleared"})

\* The run goes on after its decision, up to its end or to an exception.
Continue(trace) ==
  \E closing \in Closings :
    /\ server' = [server EXCEPT ![trace] = closing[1]]
    /\ approvals' = [approvals EXCEPT ![trace] = closing[2]]

\* POST /v1/approvals/{id}: refused, or the approval's one resolution, after
\* which the answer may still be an error (an expiry, a failed run, a cancellation
\* that raised).  The approval of a run that failed can only expire.
Decide(trace) ==
  \/ UNCHANGED <<server, approvals>>
  \/ approvals[trace] = Pending /\ server[trace] = Pending /\ Continue(trace)
  \/ /\ approvals[trace] = Pending /\ server[trace] = "failed"
     /\ approvals' = [approvals EXCEPT ![trace] = "resolved"] /\ UNCHANGED server

\* The winning command retried by its client while the run is still pending.
Retry(trace) ==
  approvals[trace] = "resolved" /\ server[trace] = Pending /\ Continue(trace)

\* GET /v1/runs/{id}: what a load of no trace finds is no run.
StatusOf(trace) == IF trace = NoTrace THEN "none" ELSE server[trace]

\* The pending_approval_id of the run.
Names(trace) == trace # NoTrace /\ approvals[trace] \in {Pending, "resolved"}

\* GET /v1/approvals/{id}, of an approval some run named.
ApprovalOf(trace) ==
  IF trace = NoTrace THEN "none"
  ELSE IF approvals[trace] = "cleared" THEN "resolved" ELSE approvals[trace]

Reset == server' = [t \in Traces |-> "none"] /\ approvals' = server'

\* A request of the handler in slot k is carried out.
Serve(k) ==
  /\ tasks[k].pc # "idle" /\ ~tasks[k].served
  /\ CASE tasks[k].pc = "start" -> StartRun
       [] tasks[k].pc = "decide" -> Decide(tasks[k].trace) /\ UNCHANGED started
       [] tasks[k].pc = "reset" -> Reset /\ UNCHANGED started
       [] OTHER -> UNCHANGED <<server, approvals, started>>
  /\ Become(k, [tasks[k] EXCEPT
       !.served = TRUE,
       !.answer = CASE tasks[k].pc = "start" -> IF started' = started THEN "none" ELSE server'[started']
                    [] tasks[k].pc = "load" -> StatusOf(tasks[k].trace)
                    [] tasks[k].pc = "approval" -> ApprovalOf(tasks[k].trace)
                    [] OTHER -> "done",
       !.names = IF tasks[k].pc = "load" THEN Names(tasks[k].trace) ELSE @,
       !.trace = IF tasks[k].pc = "start" THEN started' ELSE @])
  /\ UNCHANGED <<orphans, clicks, aborts>> /\ UNCHANGED page

\* An abandoned request reaches the API all the same.
ServeOrphan ==
  /\ \E o \in orphans :
       /\ orphans' = orphans \ {o}
       /\ CASE o.pc = "start" -> StartRun
            [] o.pc = "decide" -> Decide(o.trace) /\ UNCHANGED started
            [] OTHER -> Reset /\ UNCHANGED started
  /\ UNCHANGED <<tasks, clicks, aborts>> /\ UNCHANGED page

\* Another browser decides an approval or retries its decision, or it expires, or a
\* late escalation asks for one.
OtherDecides ==
  /\ \E t \in Traces : Decide(t) \/ Retry(t) \/ LateEscalation(t)
  /\ UNCHANGED <<started, tasks, orphans, clicks, aborts>> /\ UNCHANGED page

-----------------------------------------------------------------------------
(* The page goes on after an await.                                        *)

\* Mutant of AfterPoll: polling is set up once and never again after it stopped.
AfterPoll_NoRestart(run) == (timer \/ view = NoView) /\ run = Pending

\* configurePolling.
AfterPoll(run) == run = Pending

\* The finally of resolveApproval: its buttons, if they are still the drawn ones.
ReleaseButtons(k) == disabledBy' = IF disabledBy = k THEN 0 ELSE disabledBy

\* loadTrace after its last await: the view, the timer, the controls; drawing the
\* view replaces the buttons.
LoadEnds(k, run, approval) ==
  /\ view' = [trace |-> tasks[k].trace, run |-> run, approval |-> approval]
  /\ active' = tasks[k].trace /\ url' = tasks[k].trace
  /\ timer' = AfterPoll(run)
  /\ loading' = FALSE /\ controls' = "all" /\ disabledBy' = 0
  /\ Become(k, Idle)

\* Mutant of LoadFails: the error path keeps the loading mark.
LoadFails_StillLoading(k) ==
  /\ loading' = loading /\ controls' = IF active # NoTrace THEN "all" ELSE "run"
  /\ ReleaseButtons(k)
  /\ Become(k, Idle)
  /\ UNCHANGED <<view, active, url, timer>>

\* loadTrace's catch: what was drawn stays.
LoadFails(k) ==
  /\ loading' = FALSE /\ controls' = IF active # NoTrace THEN "all" ELSE "run"
  /\ ReleaseButtons(k)
  /\ Become(k, Idle)
  /\ UNCHANGED <<view, active, url, timer>>

\* The five reads of loadTrace are in: run was answered; another of the five may
\* have found the trace deleted since.  The approval is asked for if the run that was
\* read names one, pending or failed.
Loaded(k) ==
  LET run == tasks[k].answer
  IN  /\ tasks[k].pc = "load" /\ tasks[k].served
      /\ \/ /\ run = "none" \/ StatusOf(tasks[k].trace) = "none"
            /\ LoadFails(k)
         \/ run # "none" /\ ~tasks[k].names /\ LoadEnds(k, run, "none")
         \/ /\ run # "none" /\ tasks[k].names
            /\ Become(k, [tasks[k] EXCEPT !.pc = "approval", !.served = FALSE, !.run = run])
            /\ UNCHANGED page

\* The approval is in: read after the run, it may already be resolved.
ApprovalLoaded(k) ==
  /\ tasks[k].pc = "approval" /\ tasks[k].served
  /\ IF tasks[k].answer = "none" THEN LoadFails(k)
     ELSE LoadEnds(k, tasks[k].run, tasks[k].answer)

\* startRun after its request: the new trace is loaded, a failed one too; without
\* a trace the error is shown.
RunStarted(k) ==
  /\ tasks[k].pc = "start" /\ tasks[k].served
  /\ IF tasks[k].answer # "none"
     THEN Become(k, Loading(tasks[k], tasks[k].trace)) /\ BeginLoad
     ELSE Become(k, Idle) /\ loading' = FALSE /\ controls' = "run"
  /\ UNCHANGED <<view, active, url, timer, disabledBy>>

\* resolveApproval after its request, answered or not: the trace that is active
\* now is loaded.
Decided(k) ==
  /\ tasks[k].pc = "decide" /\ tasks[k].served
  /\ Become(k, Loading(tasks[k], active)) /\ BeginLoad
  /\ UNCHANGED <<view, active, url, timer, disabledBy>>

\* Mutant of ResetDone: the interval is not cleared.
ResetDone_TimerKept(k) ==
  /\ tasks[k].pc = "reset" /\ tasks[k].served
  /\ view' = NoView /\ active' = NoTrace /\ url' = NoTrace /\ timer' = timer
  /\ loading' = FALSE /\ controls' = "run" /\ disabledBy' = 0
  /\ Become(k, Idle)

\* resetDemo after its request: the page is cleared.
ResetDone(k) ==
  /\ tasks[k].pc = "reset" /\ tasks[k].served
  /\ view' = NoView /\ active' = NoTrace /\ url' = NoTrace /\ timer' = FALSE
  /\ loading' = FALSE /\ controls' = "run" /\ disabledBy' = 0
  /\ Become(k, Idle)

Deliver(k) ==
  /\ \/ Loaded(k) \/ ApprovalLoaded(k) \/ RunStarted(k) \/ Decided(k) \/ ResetDone(k)
  /\ UNCHANGED <<server, approvals, started, orphans, clicks, aborts>>

\* request's timeout: the handler sees an error, whatever became of the request.
Abort(k) ==
  /\ tasks[k].pc # "idle" /\ aborts < MaxAborts /\ aborts' = aborts + 1
  /\ orphans' = IF tasks[k].served \/ tasks[k].pc \notin Posts THEN orphans
                ELSE orphans \cup {[pc |-> tasks[k].pc, trace |-> tasks[k].trace]}
  /\ \/ tasks[k].pc \in {"load", "approval"} /\ LoadFails(k)
     \/ /\ tasks[k].pc = "decide"
        /\ Become(k, Loading(tasks[k], active)) /\ BeginLoad
        /\ UNCHANGED <<view, active, url, timer, disabledBy>>
     \/ /\ tasks[k].pc \in {"start", "reset"}
        /\ Become(k, Idle) /\ loading' = FALSE /\ controls' = "run"
        /\ UNCHANGED <<view, active, url, timer, disabledBy>>
  /\ UNCHANGED <<server, approvals, started, clicks>>

-----------------------------------------------------------------------------
Operator == ClickRun \/ ClickRefresh \/ ClickDecide \/ ClickReset \/ Reload \/ Redraw
Api == ServeOrphan \/ OtherDecides

Next ==
  \/ Operator \/ Poll \/ Api
  \/ \E k \in Slots : Serve(k) \/ Deliver(k) \/ Abort(k)

\* The API answers, the browser runs its callbacks and the page stays visible.
Spec ==
  /\ Init /\ [][Next]_vars
  /\ WF_vars(Poll) /\ \A k \in Slots : WF_vars(Serve(k)) /\ WF_vars(Deliver(k))

-----------------------------------------------------------------------------
(* Properties.                                                             *)

\* Whatever order the handlers finish in, the page is about one trace: the active
\* one is the one drawn; polling is on exactly while the drawn run is pending; an
\* approval form stands only beside a run drawn as pending or as failed; and what is
\* drawn as final is final, an ended run and a resolved approval alike (loadTrace,
\* configurePolling, renderApproval, resetDemo).
PageConsistent ==
  /\ active = view.trace
  /\ timer <=> view.run = Pending
  /\ FormDrawn => view.run \in {Pending, "failed"}
  /\ view.run \in Ended => server[view.trace] \in {view.run, "none"}
  /\ view.approval = "resolved" =>
       approvals[view.trace] \in {"resolved", "cleared"} \/ server[view.trace] = "none"

\* CHECKPOINT_5_IMPLEMENTATION_PLAN.md 11: a decision made in another browser, or
\* by a request the page gave up on, becomes visible, also when a late answer
\* draws the run as pending again.
DecisionBecomesVisible ==
  \A t \in Traces :
    (view.trace = t /\ view.run = Pending /\ server[t] \in Ended) ~>
      (view.trace # t \/ view.run # Pending \/ server[t] = "none")

\* The page never stays busy: the loading mark, which suspends polling and
\* disables the buttons, is taken off whatever fails.
NeverStuck == loading ~> ~loading
=============================================================================
