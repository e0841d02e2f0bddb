-------------------------- MODULE DashboardProofs --------------------------
(***************************************************************************)
(* The page of Dashboard stays about one trace in whatever order its       *)
(* handlers finish, for any number of runs, slots, clicks and aborts.      *)
(*                                                                         *)
(* PageConsistent is not inductive: a handler draws what it read some      *)
(* steps ago.  What makes a late answer safe is that a run which ended     *)
(* stays as it ended until a reset forgets it, that a resolved approval    *)
(* stays resolved, and that a forgotten trace never comes back (a run      *)
(* always gets a new identifier).  So the invariant says of every answer   *)
(* still on its way that it may be drawn.                                  *)
(***************************************************************************)
EXTENDS Dashboard, TLAPS

\* A trace identifier, or none.
Ids == Traces \cup {NoTrace}

Runs == {"none", Pending} \cup Ended
Approvals == {"none", Pending, "resolved"}

Tasks ==
  [pc : {"idle", "load", "approval"} \cup Posts, served : BOOLEAN, trace : Ids,
   answer : Runs \cup Approvals \cup {"done"}, run : Runs,
   names : BOOLEAN]

\* Every variable the page's consistency depends on has its type.
TypeOK ==
  /\ server \in [Traces -> Runs]
  /\ approvals \in [Traces -> Approvals \cup {"cleared"}]
  /\ started \in 0..MaxTraces
  /\ tasks \in [Slots -> Tasks]
  /\ view \in [trace : Ids, run : Runs, approval : Approvals]
  /\ url \in Ids /\ timer \in BOOLEAN

\* Only runs that were started have a status.
StartedOnly == \A t \in Traces : server[t] # "none" => t <= started

\* Only a run has an approval, and names it only while it is pending or when it failed.
Asked ==
  \A t \in Traces :
    /\ approvals[t] # "none" => server[t] # "none"
    /\ approvals[t] \in {Pending, "resolved"} => server[t] \in {Pending, "failed"}

\* The run of trace t was started and ended as s, or was forgotten since.
Settles(t, s) == t \in 1..started /\ server[t] \in {s, "none"}

\* The approval of trace t was resolved, or its run was forgotten since.
Closed(t) ==
  t \in 1..started /\ (approvals[t] \in {"resolved", "cleared"} \/ server[t] = "none")

\* What a handler has read may be drawn whenever it comes to that.
MayBeDrawn(task) ==
  /\ task.pc = "load" /\ task.served =>
       /\ task.answer \in Runs
       /\ task.answer \in Ended => Settles(task.trace, task.answer)
       /\ task.names => task.answer \in {Pending, "failed"}
  /\ task.pc = "approval" =>
       /\ task.run \in {Pending, "failed"}
       /\ task.run = "failed" => Settles(task.trace, "failed")
       /\ task.served => /\ task.answer \in Approvals
                         /\ task.answer = "resolved" => Closed(task.trace)

\* What is drawn: PageConsistent, with what is final known to have been started.
Drawn ==
  /\ active = view.trace
  /\ timer <=> view.run = Pending
  /\ FormDrawn => view.run \in {Pending, "failed"}
  /\ view.run \in Ended => Settles(view.trace, view.run)
  /\ view.approval = "resolved" => Closed(view.trace)

IInv == TypeOK /\ StartedOnly /\ Asked /\ Drawn /\ \A k \in Slots : MayBeDrawn(tasks[k])

-----------------------------------------------------------------------------
(* What a request may do to the runs.                                      *)

\* The API only adds runs, decides approvals, ends pending runs and forgets.
ApiStep ==
  /\ server' \in [Traces -> Runs]
  /\ approvals' \in [Traces -> Approvals \cup {"cleared"}]
  /\ started' \in 0..MaxTraces /\ started <= started'
  /\ \A t \in 1..started :
       /\ server'[t] \in {server[t], "none"} \/ server[t] = Pending
       /\ Closed(t) => approvals'[t] \in {"resolved", "cleared"} \/ server'[t] = "none"
  /\ StartedOnly' /\ Asked'

LEMMA TracesStarted ==
  ASSUME started \in 0..MaxTraces
  PROVE  1..started \subseteq Traces
BY DashboardAssumption DEF Traces

\* POST /v1/runs gives a run an identifier no run had.
LEMMA StartRunStep ==
  ASSUME TypeOK, StartedOnly, Asked, StartRun
  PROVE  ApiStep
<1> PICK outcome \in {"refused", Pending, "completed", "failed"}, asked \in {"none", Pending} :
         /\ outcome # "refused" => started < MaxTraces
         /\ outcome # "failed" => asked = IF outcome = Pending THEN Pending ELSE "none"
         /\ started' = IF outcome = "refused" THEN started ELSE started + 1
         /\ server' = [t \in Traces |-> IF outcome # "refused" /\ t = started'
                                        THEN outcome ELSE server[t]]
         /\ approvals' = [t \in Traces |-> IF outcome # "refused" /\ t = started'
                                           THEN asked ELSE approvals[t]]
  BY DEF StartRun
<1>1. started' \in 0..MaxTraces /\ started <= started' /\ started \in Nat
  BY DashboardAssumption DEF TypeOK
<1>2. server' \in [Traces -> Runs] /\ approvals' \in [Traces -> Approvals \cup {"cleared"}]
  BY DEF TypeOK, Runs, Ended, Approvals
<1>3. \A t \in 1..started : server'[t] = server[t] /\ approvals'[t] = approvals[t]
  BY TracesStarted DEF TypeOK
<1>4. StartedOnly'
  <2> SUFFICES ASSUME NEW t \in Traces, server'[t] # "none" PROVE t <= started'
    BY DEF StartedOnly
  <2>1. CASE outcome # "refused" /\ t = started'
    BY <2>1, <1>1 DEF Traces
  <2>2. CASE ~(outcome # "refused" /\ t = started')
    <3>1. t \in Nat
      BY DEF Traces
    <3> QED BY <2>2, <3>1, <1>1 DEF StartedOnly
  <2> QED BY <2>1, <2>2
<1>5. Asked'
  BY DEF Asked, Pending
<1> QED BY <1>1, <1>2, <1>3, <1>4, <1>5 DEF ApiStep, Closed

\* A continued run was pending; where it ends its approval is closed.
LEMMA ContinueStep ==
  ASSUME TypeOK, StartedOnly, Asked, NEW trace, server[trace] = Pending, Continue(trace),
         UNCHANGED started
  PROVE  ApiStep
<1> PICK closing \in Closings :
         /\ server' = [server EXCEPT ![trace] = closing[1]]
         /\ approvals' = [approvals EXCEPT ![trace] = closing[2]]
  BY DEF Continue
<1>1. /\ closing[1] \in Runs \ {"none"} /\ closing[2] \in {"resolved", "cleared"}
      /\ closing[2] = "resolved" => closing[1] \in {Pending, "failed"}
  BY DEF Closings, Runs, Ended, Pending
<1>2. server' \in [Traces -> Runs] /\ approvals' \in [Traces -> Approvals \cup {"cleared"}]
  BY <1>1 DEF TypeOK, Approvals
<1>3. \A t \in Traces :
        \/ server'[t] = server[t] /\ approvals'[t] = approvals[t]
        \/ server[t] = Pending /\ server'[t] = closing[1] /\ approvals'[t] = closing[2]
  BY DEF TypeOK
<1>4. StartedOnly'
  BY <1>3 DEF StartedOnly, Pending
<1>5. Asked'
  BY <1>1, <1>3 DEF Asked, Pending
<1> QED BY <1>1, <1>2, <1>3, <1>4, <1>5, TracesStarted DEF ApiStep, TypeOK, Closed

\* The approval of a run that failed is asked for, or expires.
LEMMA FailedStep ==
  ASSUME TypeOK, StartedOnly, Asked, NEW trace, server[trace] = "failed",
         UNCHANGED <<server, started>>, NEW next \in {Pending, "resolved"},
         approvals[trace] \in {"none", Pending},
         approvals' = [approvals EXCEPT ![trace] = next]
  PROVE  ApiStep
<1>1. approvals' \in [Traces -> Approvals \cup {"cleared"}]
  BY DEF TypeOK, Approvals
<1>2. \A t \in Traces : \/ approvals'[t] = approvals[t]
                        \/ /\ approvals'[t] = next /\ server[t] = "failed"
                           /\ approvals[t] \in {"none", Pending}
  BY DEF TypeOK
<1>3. Asked'
  BY <1>2 DEF Asked
<1> QED BY <1>1, <1>2, <1>3, TracesStarted DEF ApiStep, TypeOK, StartedOnly, Closed, Pending

LEMMA NoApiStep ==
  ASSUME TypeOK, StartedOnly, Asked, UNCHANGED <<server, approvals, started>>
  PROVE  ApiStep
BY DEF ApiStep, TypeOK, StartedOnly, Asked, Closed

\* POST /v1/approvals/{id} changes a run with a pending approval only.
LEMMA DecideStep ==
  ASSUME TypeOK, StartedOnly, Asked, NEW trace, Decide(trace), UNCHANGED started
  PROVE  ApiStep
<1>1. CASE UNCHANGED <<server, approvals>>
  BY <1>1, NoApiStep
<1>2. CASE server[trace] = Pending /\ Continue(trace)
  BY <1>2, ContinueStep
<1>3. CASE /\ approvals[trace] = Pending /\ server[trace] = "failed"
           /\ approvals' = [approvals EXCEPT ![trace] = "resolved"] /\ UNCHANGED server
  BY <1>3, FailedStep
<1> QED BY <1>1, <1>2, <1>3 DEF Decide

LEMMA ResetStep ==
  ASSUME TypeOK, StartedOnly, Asked, Reset, UNCHANGED started
  PROVE  ApiStep
<1>1. /\ server' \in [Traces -> Runs] /\ approvals' \in [Traces -> Approvals \cup {"cleared"}]
      /\ \A t \in Traces : server'[t] = "none" /\ approvals'[t] = "none"
  BY DEF Reset, Runs, Approvals
<1> QED BY <1>1, TracesStarted DEF ApiStep, TypeOK, StartedOnly, Asked, Pending

\* A run that ended stays so until it is forgotten, whatever else is requested.
LEMMA SettlesKept ==
  ASSUME TypeOK, ApiStep, NEW t, NEW s \in Ended, Settles(t, s)
  PROVE  Settles(t, s)'
<1>1. t \in 1..started'
  BY DEF Settles, ApiStep, TypeOK
<1>2. server'[t] \in {server[t], "none"} \/ server[t] = Pending
  BY DEF Settles, ApiStep
<1> QED BY <1>1, <1>2 DEF Settles, Pending, Ended

\* So does a resolved approval.
LEMMA ClosedKept ==
  ASSUME TypeOK, ApiStep, NEW t, Closed(t)
  PROVE  Closed(t)'
<1>1. t \in 1..started' /\ t \in 1..started
  BY DEF Closed, ApiStep, TypeOK
<1>2. approvals'[t] \in {"resolved", "cleared"} \/ server'[t] = "none"
  BY <1>1 DEF ApiStep
<1> QED BY <1>1, <1>2 DEF Closed

\* What is drawn stays right while the API works and the page does not.
LEMMA DrawnKept ==
  ASSUME TypeOK, ApiStep, Drawn, UNCHANGED <<view, active, timer>>
  PROVE  Drawn'
<1>1. view.run \in Ended => Settles(view.trace, view.run)'
  BY SettlesKept DEF Drawn
<1>2. view.approval = "resolved" => Closed(view.trace)'
  BY ClosedKept DEF Drawn
<1> QED BY <1>1, <1>2 DEF Drawn, FormDrawn, Settles, Closed

\* So does what a handler has read.
LEMMA MayBeDrawnKept ==
  ASSUME TypeOK, ApiStep, NEW task, MayBeDrawn(task)
  PROVE  MayBeDrawn(task)'
BY SettlesKept, ClosedKept DEF MayBeDrawn, Ended

Views == [trace : Ids, run : Runs, approval : Approvals]

\* One handler moves on, the others keep what they have read.
LEMMA HandlerStep ==
  ASSUME IInv, ApiStep, NEW k, NEW task \in Tasks, Become(k, task), MayBeDrawn(task)',
         view' \in Views, url' \in Ids, timer' \in BOOLEAN, Drawn'
  PROVE  IInv'
<1>1. tasks' \in [Slots -> Tasks]
  BY DEF Become, IInv, TypeOK
<1>2. TypeOK' /\ StartedOnly' /\ Asked'
  BY <1>1 DEF TypeOK, ApiStep, Views
<1>3. ASSUME NEW j \in Slots PROVE MayBeDrawn(tasks[j])'
  <2>1. tasks'[j] = task \/ tasks'[j] = tasks[j]
    BY DEF Become, IInv, TypeOK
  <2>2. \A u : u = tasks[j] => MayBeDrawn(u)'
    BY MayBeDrawnKept DEF IInv
  <2>3. CASE tasks'[j] = task
    BY <2>3 DEF MayBeDrawn, Settles, Closed
  <2>4. CASE tasks'[j] = tasks[j]
    BY <2>4, <2>2 DEF MayBeDrawn, Settles, Closed
  <2> QED BY <2>1, <2>3, <2>4
<1> QED BY <1>2, <1>3 DEF IInv

\* A handler that has read nothing yet.
LEMMA FreshTask ==
  /\ Idle \in Tasks /\ MayBeDrawn(Idle)'
  /\ \A p \in Posts :
       [Idle EXCEPT !.pc = p] \in Tasks /\ MayBeDrawn([Idle EXCEPT !.pc = p])'
  /\ \A task \in Tasks, t \in Ids :
       Loading(task, t) \in Tasks /\ MayBeDrawn(Loading(task, t))'
<1>1. Idle \in Tasks /\ MayBeDrawn(Idle)'
  BY DEF Idle, Ids, Tasks, Runs, Approvals, MayBeDrawn
<1>2. ASSUME NEW p \in Posts
      PROVE  [Idle EXCEPT !.pc = p] \in Tasks /\ MayBeDrawn([Idle EXCEPT !.pc = p])'
  BY DEF Idle, Ids, Tasks, Runs, Approvals, Posts, MayBeDrawn
<1>3. ASSUME NEW task \in Tasks, NEW t \in Ids
      PROVE  Loading(task, t) \in Tasks /\ MayBeDrawn(Loading(task, t))'
  BY DEF Loading, Tasks, Runs, Approvals, MayBeDrawn
<1> QED BY <1>1, <1>2, <1>3

\* A handler starts, or sends its next request, and what is drawn stays.
LEMMA FreshStep ==
  ASSUME IInv, ApiStep, UNCHANGED <<view, active, url, timer>>, NEW k, NEW task,
         task \in Tasks, MayBeDrawn(task)', Become(k, task)
  PROVE  IInv'
<1>1. Drawn'
  BY DrawnKept DEF IInv
<1> QED BY <1>1, HandlerStep DEF IInv, TypeOK, Views

-----------------------------------------------------------------------------
(* The operator and the timer.                                             *)

LEMMA ClickRunInv ==
  ASSUME IInv, ClickRun PROVE IInv'
<1>1. [Idle EXCEPT !.pc = "start"] \in Tasks /\ MayBeDrawn([Idle EXCEPT !.pc = "start"])'
  BY FreshTask DEF Posts
<1>2. ApiStep
  BY NoApiStep DEF ClickRun, IInv
<1> QED BY <1>1, <1>2, FreshStep DEF ClickRun

LEMMA ClickResetInv ==
  ASSUME IInv, ClickReset PROVE IInv'
<1>1. [Idle EXCEPT !.pc = "reset"] \in Tasks /\ MayBeDrawn([Idle EXCEPT !.pc = "reset"])'
  BY FreshTask DEF Posts
<1>2. ApiStep
  BY NoApiStep DEF ClickReset, IInv
<1> QED BY <1>1, <1>2, FreshStep DEF ClickReset

\* The trace a handler loads next is the active one.
LEMMA LoadActive ==
  ASSUME IInv, NEW task \in Tasks
  PROVE  /\ Loading(task, active) \in Tasks
         /\ \A u : u = Loading(task, active) => MayBeDrawn(u)'
<1>1. active \in Ids
  BY DEF IInv, TypeOK, Drawn
<1>2. \A a : a = active => Loading(task, a) \in Tasks /\ MayBeDrawn(Loading(task, a))'
  BY <1>1, FreshTask
<1> QED BY <1>2 DEF MayBeDrawn, Settles, Closed

LEMMA ClickRefreshInv ==
  ASSUME IInv, ClickRefresh PROVE IInv'
<1>1. ApiStep
  BY NoApiStep DEF ClickRefresh, IInv
<1> QED BY <1>1, LoadActive, FreshTask, FreshStep DEF ClickRefresh

LEMMA PollInv ==
  ASSUME IInv, Poll PROVE IInv'
<1>1. ApiStep
  BY NoApiStep DEF Poll, IInv
<1> QED BY <1>1, LoadActive, FreshTask, FreshStep DEF Poll

\* The form was drawn beside the trace it belongs to.
LEMMA ClickDecideInv ==
  ASSUME IInv, ClickDecide PROVE IInv'
<1>1. ApiStep
  BY NoApiStep DEF ClickDecide, IInv
<1>2. view.trace \in Ids
  BY DEF IInv, TypeOK
<1>3. \A u : u = [Idle EXCEPT !.pc = "decide", !.trace = view.trace] =>
               u \in Tasks /\ MayBeDrawn(u)'
  BY <1>2 DEF Idle, Tasks, Runs, Approvals, Posts, MayBeDrawn
<1> QED BY <1>1, <1>3, FreshStep DEF ClickDecide

LEMMA RedrawInv ==
  ASSUME IInv, UNCHANGED <<server, approvals, started, tasks, view, active, url, timer>>
  PROVE  IInv'
BY DEF IInv, TypeOK, StartedOnly, Asked, Drawn, FormDrawn, MayBeDrawn, Settles, Closed

\* A page loaded anew draws nothing and knows nothing.
LEMMA ReloadInv ==
  ASSUME IInv, Reload PROVE IInv'
<1>1. TypeOK' /\ StartedOnly' /\ Asked'
  <2>1. Loading(Idle, url) \in Tasks /\ Idle \in Tasks
    BY FreshTask DEF IInv, TypeOK
  <2>2. tasks' \in [Slots -> Tasks]
    BY <2>1 DEF Reload
  <2>3. NoView \in Views
    BY DEF NoView, Ids, Views, Runs, Approvals
  <2> QED BY <2>2, <2>3 DEF Reload, IInv, TypeOK, StartedOnly, Asked, Views
<1>2. Drawn'
  BY DEF Reload, Drawn, FormDrawn, NoView, Pending, Ended
<1>3. ASSUME NEW k \in Slots PROVE MayBeDrawn(tasks[k])'
  <2>1. \A u : u = Loading(Idle, url) \/ u = Idle => MayBeDrawn(u)'
    <3>1. url \in Ids
      BY DEF IInv, TypeOK
    <3>2. \A a : a = url => MayBeDrawn(Loading(Idle, a))'
      BY <3>1, FreshTask
    <3>3. MayBeDrawn(Idle)'
      BY FreshTask
    <3> QED BY <3>2, <3>3 DEF MayBeDrawn, Settles, Closed
  <2>2. tasks'[k] = Loading(Idle, url) \/ tasks'[k] = Idle
    BY DEF Reload
  <2> QED BY <2>1, <2>2 DEF MayBeDrawn, Settles, Closed
<1> QED BY <1>1, <1>2, <1>3 DEF IInv

-----------------------------------------------------------------------------
(* The API.                                                                *)

\* The runs change and the page does not.
LEMMA ApiInv ==
  ASSUME IInv, ApiStep, UNCHANGED <<tasks, view, active, url, timer>>
  PROVE  IInv'
<1>1. TypeOK' /\ StartedOnly' /\ Asked'
  BY DEF IInv, TypeOK, ApiStep
<1>2. Drawn'
  BY DrawnKept DEF IInv
<1>3. ASSUME NEW k \in Slots PROVE MayBeDrawn(tasks[k])'
  <2>1. \A u : u = tasks[k] => MayBeDrawn(u)'
    BY MayBeDrawnKept DEF IInv
  <2> QED BY <2>1 DEF MayBeDrawn, Settles, Closed
<1> QED BY <1>1, <1>2, <1>3 DEF IInv

LEMMA ServeOrphanInv ==
  ASSUME IInv, ServeOrphan PROVE IInv'
<1> PICK o \in orphans :
      CASE o.pc = "start" -> StartRun
        [] o.pc = "decide" -> Decide(o.trace) /\ UNCHANGED started
        [] OTHER -> Reset /\ UNCHANGED started
  BY DEF ServeOrphan
<1>1. CASE o.pc = "start"
  BY <1>1, StartRunStep, ApiInv DEF ServeOrphan, page, IInv
<1>2. CASE o.pc = "decide"
  <2>1. Decide(o.trace) /\ UNCHANGED started
    BY <1>2
  <2>2. ApiStep
    BY <2>1, DecideStep DEF IInv
  <2> QED BY <2>2, ApiInv DEF ServeOrphan, page
<1>3. CASE o.pc # "start" /\ o.pc # "decide"
  <2>1. Reset /\ UNCHANGED started
    BY <1>3
  <2>2. ApiStep
    BY <2>1, ResetStep DEF IInv
  <2> QED BY <2>2, ApiInv DEF ServeOrphan, page
<1> QED BY <1>1, <1>2, <1>3

LEMMA OtherDecidesInv ==
  ASSUME IInv, OtherDecides PROVE IInv'
<1> PICK t \in Traces : Decide(t) \/ Retry(t) \/ LateEscalation(t)
  BY DEF OtherDecides
<1>1. Decide(t) => ApiStep
  BY DecideStep DEF OtherDecides, IInv
<1>2. Retry(t) => ApiStep
  BY ContinueStep DEF OtherDecides, IInv, Retry
<1>3. LateEscalation(t) => ApiStep
  BY FailedStep DEF OtherDecides, IInv, LateEscalation
<1> QED BY <1>1, <1>2, <1>3, ApiInv DEF OtherDecides, page

\* What the request of a handler in slot k brings back.
AnswerOf(k) ==
  CASE tasks[k].pc = "start" -> IF started' = started THEN "none" ELSE server'[started']
    [] tasks[k].pc = "load" -> StatusOf(tasks[k].trace)
    [] tasks[k].pc = "approval" -> ApprovalOf(tasks[k].trace)
    [] OTHER -> "done"

NamesOf(k) == IF tasks[k].pc = "load" THEN Names(tasks[k].trace) ELSE tasks[k].names

\* A served request has changed the runs as the API may, and a run it started has
\* a status a page can draw.
LEMMA ServeStep ==
  ASSUME IInv, NEW k \in Slots, Serve(k)
  PROVE  ApiStep /\ (tasks[k].pc = "start" /\ started' # started => server'[started'] \in Runs)
<1>1. CASE tasks[k].pc = "start"
  <2>1. StartRun
    BY <1>1 DEF Serve
  <2>2. ApiStep
    BY <2>1, StartRunStep DEF IInv
  <2>3. ASSUME started' # started PROVE server'[started'] \in Runs
    <3>1. started + 1 \in Traces \/ started >= MaxTraces
      BY DashboardAssumption DEF IInv, TypeOK, Traces
    <3>2. started \in Nat /\ MaxTraces \in Nat
      BY DashboardAssumption DEF IInv, TypeOK
    <3> QED BY <2>1, <2>3, <3>1, <3>2 DEF StartRun, Runs, Ended
  <2> QED BY <2>2, <2>3
<1>2. CASE tasks[k].pc = "decide"
  BY <1>2, DecideStep DEF Serve, IInv
<1>3. CASE tasks[k].pc = "reset"
  BY <1>3, ResetStep DEF Serve, IInv
<1>4. CASE tasks[k].pc \notin Posts
  BY <1>4, NoApiStep DEF Serve, IInv, Posts
<1> QED BY <1>1, <1>2, <1>3, <1>4 DEF Posts

\* The status of a trace the API knows is one a page can draw.
LEMMA StatusOfType ==
  ASSUME IInv, NEW trace
  PROVE  /\ trace \in Ids => ApprovalOf(trace) \in Approvals
         /\ trace \in Ids => StatusOf(trace) \in Runs
BY DEF IInv, TypeOK, StatusOf, ApprovalOf, Approvals, Runs, Ids

\* The answer a handler keeps is typed, and a load's or an approval's may be drawn.
LEMMA ServedTask ==
  ASSUME IInv, NEW k \in Slots, Serve(k), ApiStep,
         tasks[k].pc = "start" /\ started' # started => server'[started'] \in Runs,
         NEW task,
         task = [tasks[k] EXCEPT !.served = TRUE, !.answer = AnswerOf(k),
                                 !.names = NamesOf(k),
                                 !.trace = IF tasks[k].pc = "start" THEN started' ELSE @]
  PROVE  task \in Tasks /\ MayBeDrawn(task)'
<1>1. tasks[k] \in Tasks /\ MayBeDrawn(tasks[k])
  BY DEF IInv, TypeOK
<1>2. started' \in Ids
  BY DEF ApiStep, Ids, Traces, NoTrace
<1>3. AnswerOf(k) \in Runs \cup Approvals \cup {"done"}
  <2>1. StatusOf(tasks[k].trace) \in Runs /\ ApprovalOf(tasks[k].trace) \in Approvals
    BY <1>1, StatusOfType DEF Tasks
  <2> QED BY <2>1 DEF AnswerOf, Runs
<1>4. task \in Tasks
  BY <1>1, <1>2, <1>3 DEF Tasks, NamesOf, Names
<1>5. task.pc = tasks[k].pc /\ task.run = tasks[k].run /\ task.answer = AnswerOf(k)
      /\ task.names = NamesOf(k)
      /\ (task.pc # "start" => task.trace = tasks[k].trace)
  BY <1>1 DEF Tasks
<1>6. ASSUME task.pc = "load", task.answer \in Ended
      PROVE  Settles(task.trace, task.answer)'
  <2>1. task.answer = StatusOf(task.trace)
    BY <1>5, <1>6 DEF AnswerOf
  <2>2. task.trace \in Traces /\ task.answer = server[task.trace]
    BY <2>1, <1>6, <1>4 DEF StatusOf, Tasks, Ids, Ended, Pending
  <2>3. task.trace \in 1..started
    BY <2>2, <1>6 DEF IInv, TypeOK, StartedOnly, Ended, Traces
  <2>4. Settles(task.trace, task.answer)
    BY <2>2, <2>3 DEF Settles
  <2> QED BY <1>6, <2>4, SettlesKept DEF IInv
<1>7. ASSUME task.pc = "load", task.names
      PROVE  task.answer \in {Pending, "failed"}
  <2>1. task.answer = StatusOf(task.trace) /\ Names(task.trace)
    BY <1>5, <1>7 DEF AnswerOf, NamesOf
  <2>2. task.trace \in Traces
    BY <2>1, <1>4 DEF Names, Tasks, Ids
  <2> QED BY <2>1, <2>2 DEF Names, StatusOf, IInv, Asked
<1>8. ASSUME task.pc = "load" PROVE task.answer \in Runs
  <2>1. task.answer = StatusOf(task.trace) /\ task.trace \in Ids
    BY <1>4, <1>5, <1>8 DEF AnswerOf, Tasks
  <2> QED BY <2>1, StatusOfType
<1>9. ASSUME task.pc = "approval"
      PROVE  /\ task.run \in {Pending, "failed"}
             /\ (task.run = "failed" => Settles(task.trace, "failed")')
             /\ task.answer \in Approvals
             /\ (task.answer = "resolved" => Closed(task.trace)')
  <2>1. task.run \in {Pending, "failed"} /\ (task.run = "failed" => Settles(task.trace, "failed"))
    BY <1>1, <1>5, <1>9 DEF MayBeDrawn
  <2>2. task.run = "failed" => Settles(task.trace, "failed")'
    BY <2>1, SettlesKept DEF IInv, Ended
  <2>3. task.answer = ApprovalOf(task.trace) /\ task.trace \in Ids
    BY <1>4, <1>5, <1>9 DEF AnswerOf, Tasks
  <2>4. task.answer = "resolved" => Closed(task.trace)
    <3> SUFFICES ASSUME task.answer = "resolved" PROVE Closed(task.trace)
      OBVIOUS
    <3>1. task.trace \in Traces /\ approvals[task.trace] \in {"resolved", "cleared"}
      BY <2>3 DEF ApprovalOf, Ids
    <3>2. task.trace \in 1..started
      BY <3>1 DEF IInv, TypeOK, StartedOnly, Asked, Traces
    <3> QED BY <3>1, <3>2 DEF Closed
  <2>5. task.answer = "resolved" => Closed(task.trace)'
    BY <2>4, ClosedKept DEF IInv
  <2> QED BY <2>1, <2>2, <2>3, <2>5, StatusOfType
<1> QED BY <1>4, <1>6, <1>7, <1>8, <1>9 DEF MayBeDrawn

LEMMA ServeInv ==
  ASSUME IInv, NEW k \in Slots, Serve(k) PROVE IInv'
<1>1. ApiStep /\ (tasks[k].pc = "start" /\ started' # started => server'[started'] \in Runs)
  BY ServeStep
<1>2. \E task : Become(k, task) /\
        task = [tasks[k] EXCEPT !.served = TRUE, !.answer = AnswerOf(k),
                                !.names = NamesOf(k),
                                !.trace = IF tasks[k].pc = "start" THEN started' ELSE @]
  BY DEF Serve, AnswerOf, NamesOf
<1> PICK task : Become(k, task) /\
        task = [tasks[k] EXCEPT !.served = TRUE, !.answer = AnswerOf(k),
                                !.names = NamesOf(k),
                                !.trace = IF tasks[k].pc = "start" THEN started' ELSE @]
  BY <1>2
<1>3. task \in Tasks /\ MayBeDrawn(task)'
  BY <1>1, ServedTask
<1>4. UNCHANGED <<view, active, url, timer>>
  BY DEF Serve, page
<1> QED BY <1>1, <1>3, <1>4, FreshStep

-----------------------------------------------------------------------------
(* The page goes on after an await.                                        *)

LEMMA LoadFailsInv ==
  ASSUME IInv, NEW k \in Slots, UNCHANGED <<server, approvals, started>>, LoadFails(k)
  PROVE  IInv'
<1>1. ApiStep
  BY NoApiStep DEF IInv
<1> QED BY <1>1, FreshTask, FreshStep DEF LoadFails

\* A load may draw what it read, however late.
LEMMA LoadEndsInv ==
  ASSUME IInv, NEW k \in Slots, UNCHANGED <<server, approvals, started>>,
         NEW run \in Runs, NEW approval \in Approvals, LoadEnds(k, run, approval),
         run \in Ended => Settles(tasks[k].trace, run),
         approval = Pending => run \in {Pending, "failed"},
         approval = "resolved" => Closed(tasks[k].trace)
  PROVE  IInv'
<1>1. ApiStep
  BY NoApiStep DEF IInv
<1>2. tasks[k].trace \in Ids
  BY DEF IInv, TypeOK, Tasks
<1>3. view' \in Views /\ url' \in Ids /\ timer' \in BOOLEAN
  BY <1>2 DEF LoadEnds, AfterPoll, Views
<1>4. view'.trace = tasks[k].trace /\ view'.run = run /\ view'.approval = approval
  BY DEF LoadEnds
<1>5. Drawn'
  BY <1>4 DEF LoadEnds, AfterPoll, Drawn, FormDrawn, Settles, Closed
<1> QED BY <1>1, <1>3, <1>5, FreshTask, HandlerStep DEF LoadEnds

LEMMA LoadedInv ==
  ASSUME IInv, NEW k \in Slots, Loaded(k), UNCHANGED <<server, approvals, started>>
  PROVE  IInv'
<1> DEFINE run == tasks[k].answer
<1>1. tasks[k] \in Tasks /\ MayBeDrawn(tasks[k])
  BY DEF IInv, TypeOK
<1>2. run \in Ended => Settles(tasks[k].trace, run)
  BY <1>1 DEF MayBeDrawn, Loaded
<1>3. CASE LoadFails(k)
  BY <1>3, LoadFailsInv
<1>4. CASE run # "none" /\ ~tasks[k].names /\ LoadEnds(k, run, "none")
  <2>1. run \in Runs
    BY <1>1, <1>4 DEF Loaded, MayBeDrawn
  <2>2. "none" \in Approvals /\ "none" # Pending
    BY DEF Approvals, Pending
  <2> QED BY <1>2, <1>4, <2>1, <2>2, LoadEndsInv
<1>5. CASE /\ run # "none" /\ tasks[k].names
           /\ Become(k, [tasks[k] EXCEPT !.pc = "approval", !.served = FALSE, !.run = run])
           /\ UNCHANGED page
  <2>0. run \in {Pending, "failed"}
    BY <1>1, <1>5 DEF MayBeDrawn, Loaded
  <2>1. \A u : u = [tasks[k] EXCEPT !.pc = "approval", !.served = FALSE, !.run = run] =>
                 u \in Tasks /\ MayBeDrawn(u)'
    <3> SUFFICES ASSUME NEW u,
                        u = [tasks[k] EXCEPT !.pc = "approval", !.served = FALSE, !.run = run]
                 PROVE  u \in Tasks /\ MayBeDrawn(u)'
      OBVIOUS
    <3>1. u \in Tasks
      BY <1>1, <2>0 DEF Tasks, Runs, Ended
    <3>2. u.pc = "approval" /\ u.served = FALSE /\ u.run = run /\ u.trace = tasks[k].trace
      BY <1>1 DEF Tasks
    <3>3. run = "failed" => Settles(u.trace, "failed")
      BY <1>2, <3>2 DEF Ended
    <3>4. run = "failed" => Settles(u.trace, "failed")'
      BY <3>3 DEF Settles
    <3> QED BY <2>0, <3>1, <3>2, <3>4 DEF MayBeDrawn
  <2>2. ApiStep
    BY NoApiStep DEF IInv
  <2> QED BY <1>5, <2>1, <2>2, FreshStep DEF page
<1> QED BY <1>3, <1>4, <1>5 DEF Loaded

LEMMA ApprovalLoadedInv ==
  ASSUME IInv, NEW k \in Slots, ApprovalLoaded(k), UNCHANGED <<server, approvals, started>>
  PROVE  IInv'
<1>1. tasks[k] \in Tasks /\ MayBeDrawn(tasks[k])
  BY DEF IInv, TypeOK
<1>2. CASE tasks[k].answer = "none"
  BY <1>2, LoadFailsInv DEF ApprovalLoaded
<1>3. CASE tasks[k].answer # "none"
  <2>1. /\ tasks[k].run \in Runs /\ tasks[k].answer \in Approvals
        /\ tasks[k].run \in Ended => Settles(tasks[k].trace, tasks[k].run)
        /\ tasks[k].run \in {Pending, "failed"}
        /\ tasks[k].answer = "resolved" => Closed(tasks[k].trace)
    BY <1>1 DEF ApprovalLoaded, MayBeDrawn, Tasks, Ended, Pending
  <2> QED BY <1>3, <2>1, LoadEndsInv DEF ApprovalLoaded
<1> QED BY <1>2, <1>3

LEMMA RunStartedInv ==
  ASSUME IInv, NEW k \in Slots, RunStarted(k), UNCHANGED <<server, approvals, started>>
  PROVE  IInv'
<1>1. tasks[k] \in Tasks /\ tasks[k].trace \in Ids
  BY DEF IInv, TypeOK, Tasks
<1>2. ApiStep
  BY NoApiStep DEF IInv
<1>3. \A u : u = Loading(tasks[k], tasks[k].trace) \/ u = Idle => u \in Tasks /\ MayBeDrawn(u)'
  <2>1. \A v, t : v = tasks[k] /\ t = tasks[k].trace =>
                    Loading(v, t) \in Tasks /\ MayBeDrawn(Loading(v, t))'
    BY <1>1, FreshTask
  <2> QED BY <2>1, FreshTask DEF MayBeDrawn, Settles, Closed
<1> QED BY <1>2, <1>3, FreshStep DEF RunStarted

\* The decision is followed by a load of whatever trace is active by then.
LEMMA LoadActiveInv ==
  ASSUME IInv, NEW k \in Slots, Become(k, Loading(tasks[k], active)),
         UNCHANGED <<server, approvals, started, view, active, url, timer>>
  PROVE  IInv'
<1>1. tasks[k] \in Tasks
  BY DEF IInv, TypeOK
<1>2. ApiStep
  BY NoApiStep DEF IInv
<1>3. \A u : u = Loading(tasks[k], active) => u \in Tasks /\ MayBeDrawn(u)'
  BY <1>1, LoadActive DEF MayBeDrawn, Settles, Closed
<1> QED BY <1>2, <1>3, FreshStep

LEMMA ResetDoneInv ==
  ASSUME IInv, NEW k \in Slots, ResetDone(k), UNCHANGED <<server, approvals, started>>
  PROVE  IInv'
<1>1. ApiStep
  BY NoApiStep DEF IInv
<1>2. view' \in Views /\ url' \in Ids /\ timer' \in BOOLEAN
  BY DEF ResetDone, NoView, Ids, Views, Runs, Approvals
<1>3. Drawn'
  BY DEF ResetDone, Drawn, FormDrawn, NoView, Pending, Ended
<1> QED BY <1>1, <1>2, <1>3, FreshTask, HandlerStep DEF ResetDone

LEMMA AbortInv ==
  ASSUME IInv, NEW k \in Slots, Abort(k) PROVE IInv'
<1>1. UNCHANGED <<server, approvals, started>>
  BY DEF Abort
<1>2. CASE LoadFails(k)
  BY <1>1, <1>2, LoadFailsInv
<1>3. CASE Become(k, Loading(tasks[k], active)) /\ UNCHANGED <<view, active, url, timer, disabledBy>>
  BY <1>1, <1>3, LoadActiveInv
<1>4. CASE Become(k, Idle) /\ UNCHANGED <<view, active, url, timer, disabledBy>>
  BY <1>1, <1>4, NoApiStep, FreshTask, FreshStep DEF IInv
<1> QED BY <1>2, <1>3, <1>4 DEF Abort

-----------------------------------------------------------------------------
LEMMA InitInv == ASSUME Init PROVE IInv
<1>1. TypeOK
  <2>1. tasks \in [Slots -> Tasks]
    BY FreshTask DEF Init
  <2>2. view \in Views /\ url \in Ids /\ timer \in BOOLEAN
    BY DEF Init, NoView, Ids, Views, Runs, Approvals
  <2>3. /\ server \in [Traces -> Runs] /\ started \in 0..MaxTraces
        /\ approvals \in [Traces -> Approvals \cup {"cleared"}]
    BY DashboardAssumption DEF Init, Runs, Approvals
  <2> QED BY <2>1, <2>2, <2>3 DEF TypeOK, Views
<1>2. StartedOnly /\ Asked /\ Drawn
  BY DEF Init, StartedOnly, Asked, Drawn, FormDrawn, NoView, Pending, Ended
<1>3. \A k \in Slots : MayBeDrawn(tasks[k])
  BY DEF Init, MayBeDrawn, Idle
<1> QED BY <1>1, <1>2, <1>3 DEF IInv

LEMMA NextInv == ASSUME IInv, [Next]_vars PROVE IInv'
<1>1. CASE Operator
  BY <1>1, ClickRunInv, ClickRefreshInv, ClickDecideInv, ClickResetInv, ReloadInv, RedrawInv
     DEF Operator, Redraw
<1>2. CASE Poll
  BY <1>2, PollInv
<1>3. CASE Api
  BY <1>3, ServeOrphanInv, OtherDecidesInv DEF Api
<1>4. ASSUME NEW k \in Slots, Serve(k) PROVE IInv'
  BY <1>4, ServeInv
<1>5. ASSUME NEW k \in Slots, Deliver(k) PROVE IInv'
  <2>1. UNCHANGED <<server, approvals, started>>
    BY <1>5 DEF Deliver
  <2>2. CASE Decided(k)
    BY <2>1, <2>2, LoadActiveInv DEF Decided
  <2> QED BY <1>5, <2>1, <2>2, LoadedInv, ApprovalLoadedInv, RunStartedInv, ResetDoneInv
             DEF Deliver
<1>6. ASSUME NEW k \in Slots, Abort(k) PROVE IInv'
  BY <1>6, AbortInv
<1>7. CASE UNCHANGED vars
  BY <1>7, RedrawInv DEF vars
<1> QED BY <1>1, <1>2, <1>3, <1>4, <1>5, <1>6, <1>7 DEF Next

\* The invariant implies the property: an ended run that is drawn was started.
LEMMA InvConsistent == ASSUME IInv PROVE PageConsistent
BY DEF IInv, Drawn, PageConsistent, Settles, Closed

LEMMA Invariant == Spec => []IInv
<1>1. Init => IInv
  BY InitInv
<1>2. IInv /\ [Next]_vars => IInv'
  BY NextInv
<1> QED BY <1>1, <1>2, PTL DEF Spec

\* In whatever order the page's handlers, the timer, abandoned requests and another
\* browser finish, the page is about one trace: polled exactly while the drawn run is
\* pending, with a form only beside a pending or failed run, and never showing an end
\* the run did not have or a resolution its approval did not get (loadTrace,
\* configurePolling, renderApproval, resolveApproval, resetDemo).
THEOREM PageConsistentAlways == Spec => []PageConsistent
<1>1. IInv => PageConsistent
  BY InvConsistent
<1> QED BY <1>1, Invariant, PTL
=============================================================================
