------------------------- MODULE ApprovalResolution -------------------------
(***************************************************************************)
(* Resolution of one pending approval by several service instances over the *)
(* durable DynamoDB repository: RunService.resolve_approval and             *)
(* expire_due_approvals, the orchestrator's resume_approved and             *)
(* cancel_pending, the carrier's and communications agent's continuation,   *)
(* the governor's execute_tool with durable effect receipts, and the mock   *)
(* tools' process-local caches.                                             *)
(*                                                                         *)
(* A step is one access to the store, with the in-memory work that precedes *)
(* it.  A process works on its own snapshot of the trace document: in-memory *)
(* changes reach the store only with the next committed append, and are     *)
(* lost when the process dies or the append is refused.  The optimistic     *)
(* conditions of the repository (META revision, HEAD sequence) are modelled *)
(* by proc[i].fresh: i's snapshot is the latest committed one; every commit *)
(* makes the snapshots of all other processes stale.                        *)
(***************************************************************************)
EXTENDS Naturals, FiniteSets

CONSTANTS
  Instances,       \* service processes sharing the table
  Home,            \* the process that ran the trace up to its pause
  Keys,            \* idempotency keys of client commands
  NoKey,           \* decision_idempotency_key=None
  Decisions,       \* decisions clients send: subset of {"APPROVE", "REJECT"}
  Amount,          \* amount_minor of the prepared booking
  Base,            \* spend committed before it
  Threshold,       \* the mandate's approval threshold
  UsedCalls,       \* tool_call_count when the run paused
  MaxToolCalls,    \* the governor's max_tool_calls
  EngineMayFail,   \* TRUE: a policy evaluation may fail (and fail closed)
  StorageMayFail,  \* TRUE: a request to the store may fail, or its answer be lost
  OtherRuns,       \* what else the processes serve: "otherOrder", "sameOrder"
  MaxDisturbances  \* bound on crashes, storage errors and other runs together

ASSUME ApprovalAssumption ==
  /\ Home \in Instances
  /\ NoKey \notin Keys
  /\ Decisions \subseteq {"APPROVE", "REJECT"}
  /\ Amount \in Nat \ {0} /\ Base \in Nat /\ Threshold \in Nat
  /\ Base + Amount > Threshold
  /\ UsedCalls \in Nat /\ MaxToolCalls \in Nat
  /\ EngineMayFail \in BOOLEAN
  /\ StorageMayFail \in BOOLEAN
  /\ OtherRuns \subseteq {"otherOrder", "sameOrder"}
  /\ MaxDisturbances \in Nat

VARIABLES
  approval,   \* the durable ApprovalRecord
  replays,    \* durable approval replay records: the commands answered
  doc,        \* the durable trace document (META item)
  log,        \* idempotency keys of the events in the durable chain
  receipts,   \* durable effect receipts: the tools whose effect happened
  told,       \* per tool, the calls that reached it: what the world was told (history)
  expired,    \* has approval.expires_at passed?
  proc,       \* per process: control point and local variables
  mock,       \* per process: MockLogisticsTools' dictionaries
  disturbances  \* number of crashes, storage errors and other runs so far

vars == <<approval, replays, doc, log, receipts, told, expired, proc, mock, disturbances>>

-----------------------------------------------------------------------------
(* State.                                                                  *)

ApprovalStatus == {"PENDING_APPROVAL", "APPROVED", "REJECTED", "EXPIRED"}

\* A client command (fingerprint: decision, label, comment, version and key;
\* label, comment and the expected version 1 are fixed per key).  EXPIRE is not
\* a client decision: it marks an expiry, by the sweep or found by a command.
Command == [decision : {"APPROVE", "REJECT", "EXPIRE"}, key : Keys \cup {NoKey}]

ClientCommands == [decision : Decisions, key : Keys]

Sweep == [decision |-> "EXPIRE", key |-> NoKey]

ApprovalRecord == [status : ApprovalStatus, version : {1, 2}, by : Command]

PendingRecord == [status |-> "PENDING_APPROVAL", version |-> 1, by |-> Sweep]

RunStatus == {"PENDING_APPROVAL", "RUNNING", "COMPLETED", "CANCELLED", "BLOCKED", "FAILED"}

Terminal == {"COMPLETED", "CANCELLED", "BLOCKED", "FAILED"}

CommitmentStatus ==
  {"PENDING_APPROVAL", "APPROVED", "REJECTED", "EXPIRED", "CONFIRMED", "CANCELLED"}

\* The fields of TrajectoryState that the continuation reads or writes.
\* (workflow_stage is AWAITING_APPROVAL exactly while the status is
\* PENDING_APPROVAL, so the guards that test both test the status here.)
Document ==
  [status : RunStatus, prep : CommitmentStatus, reserved : Nat, committed : Nat,
   bound : BOOLEAN, booked : BOOLEAN, notified : BOOLEAN, calls : Nat]

\* A paused run: status PENDING_APPROVAL at stage AWAITING_APPROVAL, the
\* booking's amount reserved and the approval bound to the trace.
PausedDocument ==
  [status |-> "PENDING_APPROVAL", prep |-> "PENDING_APPROVAL", reserved |-> Amount,
   committed |-> Base, bound |-> TRUE, booked |-> FALSE, notified |-> FALSE,
   calls |-> UsedCalls]

Tools == {"confirm", "cancel", "outbox"}

ControlPoints ==
  {"idle", "readApproval", "load", "claim", "decisionEvent", "resumeRun",
   "resumeAgent", "attempt", "decide", "recordAllow", "recordBlock", "blocked",
   "effect", "receipt", "succeed", "toolFailed", "agentDone", "commsStart",
   "finish", "failRun", "recordReplay"}

\* Local variables of a request: the command, the approval record it read or
\* resolved, its snapshot, whether that is current, and the tool in progress.
Process == [pc : ControlPoints, cmd : Command, appr : ApprovalRecord,
            snap : Document, fresh : BOOLEAN, tool : Tools]

IdleProcess == [pc |-> "idle", cmd |-> Sweep, appr |-> PendingRecord,
                snap |-> PausedDocument, fresh |-> FALSE, tool |-> "confirm"]

\* prepared: does this process's preparation cache hold this booking, others?
\* Booking ids are PREP-<order>-<quote>, so a run of the same order shares it.
MockStore == [prepared : SUBSET {"this", "other"}, confirmed : BOOLEAN, cancelled : BOOLEAN]

ColdStore == [prepared |-> {}, confirmed |-> FALSE, cancelled |-> FALSE]

Init ==
  /\ approval = PendingRecord
  /\ replays = {}
  /\ doc = PausedDocument
  /\ log = {}
  /\ receipts = {}
  /\ told = [t \in Tools |-> 0]
  /\ expired = FALSE
  /\ proc = [i \in Instances |-> IdleProcess]
  /\ mock = [i \in Instances |->
               IF i = Home THEN [ColdStore EXCEPT !.prepared = {"this"}] ELSE ColdStore]
  /\ disturbances = 0

-----------------------------------------------------------------------------
(* Store access and control flow of a process.                             *)

At(i, pc) == proc[i].pc = pc

\* Process i goes on with local state q; no other process is affected.
Continue(i, q) == proc' = [proc EXCEPT ![i] = q]

\* The request ends: an answer, or an error that nobody handles.
Return(i) == Continue(i, IdleProcess)

Unkeyed == "unkeyed"

\* Mutant of AppendEvent: the revision and sequence conditions are dropped.
AppendEvent_NoCondition(i, key, d, q) ==
  \/ /\ key \in log
     /\ Continue(i, q)
     /\ UNCHANGED <<doc, log>>
  \/ /\ key \notin log
     /\ doc' = d
     /\ log' = log \cup ({key} \ {Unkeyed})
     /\ Continue(i, q)

\* append_event of an event with idempotency key `key`, persisting document d;
\* q is the local state that follows.  A recorded key is answered from the
\* replay record before any condition is checked, and persists nothing.  A
\* stale snapshot raises TraceRevisionConflictError: outside the orchestrator's
\* try block that ends the request, inside it the handler's own RUN_FAILED
\* append is refused for the same reason, which ends it too.  Any other storage
\* error raises the same exception: that is the action StorageError, below.
AppendEvent(i, key, d, q) ==
  \/ /\ key \in log
     /\ Continue(i, q)
     /\ UNCHANGED <<doc, log>>
  \/ /\ key \notin log
     /\ ~proc[i].fresh
     /\ Return(i)
     /\ UNCHANGED <<doc, log>>
  \/ /\ key \notin log
     /\ proc[i].fresh
     /\ doc' = d
     /\ log' = log \cup ({key} \ {Unkeyed})
     /\ proc' = [j \in Instances |-> IF j = i THEN q ELSE [proc[j] EXCEPT !.fresh = FALSE]]

\* An exception raised by the carrier or communications step, the snapshot
\* being s: resume_approved records RUN_FAILED, cancel_pending lets it escape.
Thrown(i, s, status) ==
  IF proc[i].appr.status = "APPROVED"
  THEN [proc[i] EXCEPT !.pc = "failRun", !.snap = [s EXCEPT !.status = status]]
  ELSE IdleProcess

-----------------------------------------------------------------------------
(* resolve_approval and expire_due_approvals up to the claim.              *)

\* A command arrives.  One whose key has a replay record is answered from it
\* (or refused, when the fields differ) without any change.
ReceiveCommand(i, c) ==
  /\ At(i, "idle")
  /\ \A r \in replays : r.key # c.key
  /\ Continue(i, [proc[i] EXCEPT !.pc = "readApproval", !.cmd = c])
  /\ UNCHANGED <<approval, replays, doc, log, receipts, told, expired, mock, disturbances>>

StatusOf(decision) ==
  CASE decision = "APPROVE" -> "APPROVED"
    [] decision = "REJECT" -> "REJECTED"
    [] decision = "EXPIRE" -> "EXPIRED"

\* Mutant of Matches: the idempotency key is not compared.
Matches_AnyKey(a, c) == a.status = StatusOf(c.decision) /\ a.version = 2

\* _matches_claimed_command.
Matches(a, c) == a.status = StatusOf(c.decision) /\ a.version = 2 /\ a.by = c

\* get_approval: an expired or otherwise decided approval refuses the command,
\* unless it is the very command that decided it.
ReadApproval(i) ==
  /\ At(i, "readApproval")
  /\ IF \/ approval.status = "PENDING_APPROVAL"
        \/ approval.status # "EXPIRED" /\ Matches(approval, proc[i].cmd)
     THEN Continue(i, [proc[i] EXCEPT !.pc = "load", !.appr = approval])
     ELSE Return(i)
  /\ UNCHANGED <<approval, replays, doc, log, receipts, told, expired, mock, disturbances>>

\* expire_due_approvals: list the pending approvals that are due.
SweepDue(i) ==
  /\ At(i, "idle")
  /\ approval.status = "PENDING_APPROVAL"
  /\ expired
  /\ Continue(i, [proc[i] EXCEPT !.pc = "load", !.cmd = Sweep, !.appr = approval])
  /\ UNCHANGED <<approval, replays, doc, log, receipts, told, expired, mock, disturbances>>

\* validate_pending, after the expiry check: the run still waits for this
\* approval and its spend is what it was at preparation.
StillBound(d) ==
  /\ d.status = "PENDING_APPROVAL"
  /\ d.bound
  /\ d.prep = "PENDING_APPROVAL"
  /\ d.committed = Base
  /\ d.reserved = Amount

\* Mutant of ContinueAt: a run that another process left running is taken up again.
ContinueAt_Running(d) ==
  CASE d.status = "PENDING_APPROVAL" -> "decisionEvent"
    [] d.status = "RUNNING" -> "resumeAgent"
    [] OTHER -> "recordReplay"

\* A command whose approval is already decided by it continues a run that still
\* waits; any other run is answered as it stands.
ContinueAt(d) == IF d.status = "PENDING_APPROVAL" THEN "decisionEvent" ELSE "recordReplay"

\* load_trace, then what the loaded document and the clock call for.
LoadTrace(i) ==
  /\ At(i, "load")
  /\ LET p == [proc[i] EXCEPT !.snap = doc, !.fresh = TRUE]
     IN IF p.appr.status = "PENDING_APPROVAL"
        THEN \/ /\ expired
                /\ Continue(i, [p EXCEPT !.pc = "claim", !.cmd = Sweep])
             \/ /\ ~expired
                /\ StillBound(doc)
                /\ Continue(i, [p EXCEPT !.pc = "claim"])
             \/ /\ ~expired
                /\ ~StillBound(doc)
                /\ Return(i)
        ELSE Continue(i, [p EXCEPT !.pc = ContinueAt(doc)])
  /\ UNCHANGED <<approval, replays, doc, log, receipts, told, expired, mock, disturbances>>

\* Mutant of Claim: replace_approval without the version condition.
Claim_NoVersionCheck(i) ==
  /\ At(i, "claim")
  /\ LET resolved == [status |-> StatusOf(proc[i].cmd.decision),
                      version |-> proc[i].appr.version + 1, by |-> proc[i].cmd]
     IN /\ approval' = resolved
        /\ Continue(i, [proc[i] EXCEPT !.pc = "decisionEvent", !.appr = resolved])
  /\ UNCHANGED <<replays, doc, log, receipts, told, expired, mock, disturbances>>

\* resolve or expire, then replace_approval's compare-and-set on the version.
Claim(i) ==
  /\ At(i, "claim")
  /\ LET resolved == [status |-> StatusOf(proc[i].cmd.decision),
                      version |-> proc[i].appr.version + 1, by |-> proc[i].cmd]
     IN \/ /\ approval.version = proc[i].appr.version
           /\ approval' = resolved
           /\ Continue(i, [proc[i] EXCEPT !.pc = "decisionEvent", !.appr = resolved])
        \/ /\ approval.version # proc[i].appr.version
           /\ Return(i)
           /\ UNCHANGED approval
  /\ UNCHANGED <<replays, doc, log, receipts, told, expired, mock, disturbances>>

-----------------------------------------------------------------------------
(* _continue_resolved_approval, _expire_locked, resume_approved and         *)
(* cancel_pending.                                                          *)

\* APPROVAL_APPROVED, APPROVAL_REJECTED or APPROVAL_EXPIRED.
DecisionEvent(i) ==
  /\ At(i, "decisionEvent")
  /\ LET p == proc[i]
         approved == p.appr.status = "APPROVED"
         d == IF approved THEN [p.snap EXCEPT !.prep = "APPROVED"] ELSE p.snap
         next == IF approved THEN "resumeRun" ELSE "resumeAgent"
     IN AppendEvent(i, p.appr.status, d, [p EXCEPT !.pc = next, !.snap = d])
  /\ UNCHANGED <<approval, replays, receipts, told, expired, mock, disturbances>>

\* resume_approved's guard, then RUN_RESUMED.
ResumeRun(i) ==
  /\ At(i, "resumeRun")
  /\ LET p == proc[i]
         d == [p.snap EXCEPT !.status = "RUNNING"]
     IN IF p.snap.status = "PENDING_APPROVAL"
        THEN AppendEvent(i, "RUN_RESUMED", d, [p EXCEPT !.pc = "resumeAgent", !.snap = d])
        ELSE Return(i) /\ UNCHANGED <<doc, log>>
  /\ UNCHANGED <<approval, replays, receipts, told, expired, mock, disturbances>>

\* AGENT_RESUMED, on cancellation after cancel_pending's guard.
ResumeAgent(i) ==
  /\ At(i, "resumeAgent")
  /\ LET p == proc[i]
         approved == p.appr.status = "APPROVED"
     IN IF approved \/ p.snap.status = "PENDING_APPROVAL"
        THEN AppendEvent(i, Unkeyed, p.snap,
               [p EXCEPT !.pc = "attempt", !.tool = IF approved THEN "confirm" ELSE "cancel"])
        ELSE Return(i) /\ UNCHANGED <<doc, log>>
  /\ UNCHANGED <<approval, replays, receipts, told, expired, mock, disturbances>>

\* AGENT_COMPLETED of the carrier or of customer communications.
AgentDone(i) ==
  /\ At(i, "agentDone")
  /\ LET p == proc[i]
         next == IF p.tool = "confirm" THEN "commsStart" ELSE "finish"
     IN AppendEvent(i, Unkeyed, p.snap, [p EXCEPT !.pc = next])
  /\ UNCHANGED <<approval, replays, receipts, told, expired, mock, disturbances>>

\* AGENT_STARTED of customer communications.
CommsStart(i) ==
  /\ At(i, "commsStart")
  /\ AppendEvent(i, Unkeyed, proc[i].snap, [proc[i] EXCEPT !.pc = "attempt", !.tool = "outbox"])
  /\ UNCHANGED <<approval, replays, receipts, told, expired, mock, disturbances>>

\* What follows a finished continuation: a client command records its replay;
\* the sweep returns, and a command that found the approval expired raises.
AfterRun(p) == IF p.cmd = Sweep THEN IdleProcess ELSE [p EXCEPT !.pc = "recordReplay"]

\* Mutant of Finish: the event is appended before the status is set.
Finish_StatusAfterwards(i) ==
  /\ At(i, "finish")
  /\ LET p == proc[i]
         status == IF p.tool = "cancel" THEN "CANCELLED" ELSE "COMPLETED"
     IN AppendEvent(i, status, p.snap, AfterRun(p))
  /\ UNCHANGED <<approval, replays, receipts, told, expired, mock, disturbances>>

\* RUN_COMPLETED or RUN_CANCELLED, with the status it announces.
Finish(i) ==
  /\ At(i, "finish")
  /\ LET p == proc[i]
         status == IF p.tool = "cancel" THEN "CANCELLED" ELSE "COMPLETED"
     IN AppendEvent(i, status, [p.snap EXCEPT !.status = status], AfterRun(p))
  /\ UNCHANGED <<approval, replays, receipts, told, expired, mock, disturbances>>

\* resume_approved's handlers: RUN_FAILED with status BLOCKED or FAILED.
FailRun(i) ==
  /\ At(i, "failRun")
  /\ AppendEvent(i, Unkeyed, proc[i].snap, AfterRun(proc[i]))
  /\ UNCHANGED <<approval, replays, receipts, told, expired, mock, disturbances>>

\* record_approval_replay: a conditional put; a different record under the same
\* key makes the request fail.
RecordReplay(i) ==
  /\ At(i, "recordReplay")
  /\ replays' = IF \E r \in replays : r.key = proc[i].cmd.key
                THEN replays ELSE replays \cup {proc[i].cmd}
  /\ Return(i)
  /\ UNCHANGED <<approval, doc, log, receipts, told, expired, mock, disturbances>>

-----------------------------------------------------------------------------
(* The governor's execute_tool for the tool in progress.                   *)

\* The agent's own checks and in-memory marks before it calls the governor.
\* cancel_booking sets the commitment status from the approval's, whatever the
\* snapshot held.
Prepared(p) ==
  IF p.tool = "cancel" THEN [p.snap EXCEPT !.prep = p.appr.status] ELSE p.snap

AgentReady(p) ==
  CASE p.tool = "confirm" -> p.snap.prep = "APPROVED"
    [] p.tool = "cancel" -> p.appr.status \in {"REJECTED", "EXPIRED"}
    [] p.tool = "outbox" -> p.snap.booked

\* The tool-call limit, then TOOL_ATTEMPTED (keyed by a fresh proposal id).
Attempt(i) ==
  /\ At(i, "attempt")
  /\ LET p == proc[i]
         d == [Prepared(p) EXCEPT !.calls = @ + 1]
     IN IF AgentReady(p) /\ p.snap.calls < MaxToolCalls
        THEN AppendEvent(i, Unkeyed, d, [p EXCEPT !.pc = "decide", !.snap = d])
        ELSE Continue(i, Thrown(i, Prepared(p), "FAILED")) /\ UNCHANGED <<doc, log>>
  /\ UNCHANGED <<approval, replays, receipts, told, expired, mock, disturbances>>

\* Mutant of ConfirmOutcome: the approval record is not consulted.
ConfirmOutcome_NoApproval(s) ==
  CASE s.prep \in {"PENDING_APPROVAL", "CONFIRMED"} -> "BLOCK"
    [] s.committed + s.reserved <= Threshold -> "ALLOW"
    [] OTHER -> "ESCALATE"

\* The Python engine on a confirmation: separation of duties, then the budget
\* with the durable approval record read for the request.
ConfirmOutcome(s) ==
  CASE s.prep \in {"PENDING_APPROVAL", "CONFIRMED"} -> "BLOCK"
    [] /\ s.prep \notin {"PENDING_APPROVAL", "CONFIRMED"}
       /\ s.committed + s.reserved <= Threshold -> "ALLOW"
    [] /\ s.prep \notin {"PENDING_APPROVAL", "CONFIRMED"}
       /\ s.committed + s.reserved > Threshold
       /\ s.bound /\ approval.status # "PENDING_APPROVAL" ->
            IF approval.status = "APPROVED" /\ ~expired THEN "ALLOW" ELSE "BLOCK"
    [] OTHER -> "ESCALATE"

PolicyOutcome(p) ==
  CASE p.tool = "confirm" -> ConfirmOutcome(p.snap)
    [] p.tool = "cancel" -> IF p.snap.prep = "CONFIRMED" THEN "BLOCK" ELSE "ALLOW"
    [] p.tool = "outbox" -> "ALLOW"

\* Policy evaluation and append_decision.  An engine that raises is a BLOCK.
Decide(i) ==
  /\ At(i, "decide")
  /\ LET p == proc[i]
     IN \E outcome \in {PolicyOutcome(p)} \cup (IF EngineMayFail THEN {"BLOCK"} ELSE {}) :
          /\ outcome # "ESCALATE"
          /\ AppendEvent(i, Unkeyed, p.snap,
               [p EXCEPT !.pc = IF outcome = "ALLOW" THEN "recordAllow" ELSE "recordBlock"])
  /\ UNCHANGED <<approval, replays, receipts, told, expired, mock, disturbances>>

\* POLICY_DECIDED.
RecordDecision(i) ==
  /\ At(i, "recordAllow") \/ At(i, "recordBlock")
  /\ LET p == proc[i]
         next == IF p.pc = "recordAllow" THEN "effect" ELSE "blocked"
     IN AppendEvent(i, Unkeyed, p.snap, [p EXCEPT !.pc = next])
  /\ UNCHANGED <<approval, replays, receipts, told, expired, mock, disturbances>>

\* TOOL_BLOCKED, and the agent raises: PolicyBlockedError from the carrier,
\* ManifestError from customer communications.
Blocked(i) ==
  /\ At(i, "blocked")
  /\ LET p == proc[i]
         status == IF p.tool = "outbox" THEN "FAILED" ELSE "BLOCKED"
     IN AppendEvent(i, Unkeyed, p.snap, Thrown(i, p.snap, status))
  /\ UNCHANGED <<approval, replays, receipts, told, expired, mock, disturbances>>

\* Mutant of Refuses: a cold preparation cache refuses too.
Refuses_Cold(m, tool) ==
  \/ tool # "outbox" /\ "this" \notin m.prepared
  \/ tool = "confirm" /\ m.cancelled
  \/ tool = "cancel" /\ m.confirmed

\* Would MockLogisticsTools raise?  A populated preparation cache that lacks
\* the booking refuses it; so does the opposite outcome under the same id.
Refuses(m, tool) ==
  \/ tool # "outbox" /\ m.prepared # {} /\ "this" \notin m.prepared
  \/ tool = "confirm" /\ m.cancelled
  \/ tool = "cancel" /\ m.confirmed

\* get_effect_receipt, and without a receipt the tool itself.
ExecuteEffect(i) ==
  /\ At(i, "effect")
  /\ LET p == proc[i]
     IN \/ /\ p.tool \in receipts
           /\ Continue(i, [p EXCEPT !.pc = "succeed"])
           /\ UNCHANGED <<told, mock>>
        \/ /\ p.tool \notin receipts
           /\ Refuses(mock[i], p.tool)
           /\ Continue(i, [p EXCEPT !.pc = "toolFailed"])
           /\ UNCHANGED <<told, mock>>
        \/ /\ p.tool \notin receipts
           /\ ~Refuses(mock[i], p.tool)
           /\ told' = [told EXCEPT ![p.tool] = @ + 1]
           /\ mock' = [mock EXCEPT ![i].confirmed = @ \/ p.tool = "confirm",
                                   ![i].cancelled = @ \/ p.tool = "cancel"]
           /\ Continue(i, [p EXCEPT !.pc = "receipt"])
  /\ UNCHANGED <<approval, replays, doc, log, receipts, expired, disturbances>>

\* Mutant of PutReceipt: the effect is not recorded.
PutReceipt_Skipped(i) ==
  /\ At(i, "receipt")
  /\ Continue(i, [proc[i] EXCEPT !.pc = "succeed"])
  /\ UNCHANGED <<approval, replays, doc, log, receipts, told, expired, mock, disturbances>>

\* put_effect_receipt: put if absent; an existing receipt has the same
\* fingerprint (trace, tool and arguments are fixed by the approval).
PutReceipt(i) ==
  /\ At(i, "receipt")
  /\ receipts' = receipts \cup {proc[i].tool}
  /\ Continue(i, [proc[i] EXCEPT !.pc = "succeed"])
  /\ UNCHANGED <<approval, replays, doc, log, told, expired, mock, disturbances>>

\* Mutant of ApplyRaises: the reserved amount is not checked.
ApplyRaises_NoReserveCheck(s, tool) == tool = "cancel" /\ s.prep = "CONFIRMED"

\* Would _apply_confirmation or _apply_cancellation raise?
ApplyRaises(s, tool) ==
  \/ tool = "confirm" /\ s.prep # "CONFIRMED" /\ s.reserved < Amount
  \/ tool = "cancel" /\ s.prep # "CANCELLED" /\ (s.prep = "CONFIRMED" \/ s.reserved < Amount)

\* _apply_confirmation, _apply_cancellation, or the projection of the outbox.
Applied(s, tool) ==
  CASE tool = "confirm" ->
         IF s.prep = "CONFIRMED" THEN s
         ELSE [s EXCEPT !.prep = "CONFIRMED", !.booked = TRUE, !.reserved = @ - Amount,
                        !.committed = @ + Amount, !.bound = FALSE]
    [] tool = "cancel" ->
         IF s.prep = "CANCELLED" THEN s
         ELSE [s EXCEPT !.prep = "CANCELLED", !.reserved = @ - Amount, !.bound = FALSE]
    [] tool = "outbox" -> [s EXCEPT !.notified = TRUE]

\* TOOL_SUCCEEDED persists the snapshot as it was; the effect is applied to it
\* in memory afterwards.
Succeed(i) ==
  /\ At(i, "succeed")
  /\ LET p == proc[i]
         after == IF ApplyRaises(p.snap, p.tool)
                  THEN Thrown(i, p.snap, "FAILED")
                  ELSE [p EXCEPT !.pc = "agentDone", !.snap = Applied(p.snap, p.tool)]
     IN AppendEvent(i, Unkeyed, p.snap, after)
  /\ UNCHANGED <<approval, replays, receipts, told, expired, mock, disturbances>>

\* TOOL_FAILED, and the error is raised again.
ToolFailed(i) ==
  /\ At(i, "toolFailed")
  /\ AppendEvent(i, Unkeyed, proc[i].snap, Thrown(i, proc[i].snap, "FAILED"))
  /\ UNCHANGED <<approval, replays, receipts, told, expired, mock, disturbances>>

-----------------------------------------------------------------------------
(* The environment.                                                        *)

\* approval.expires_at passes.
Tick ==
  /\ ~expired
  /\ expired' = TRUE
  /\ UNCHANGED <<approval, replays, doc, log, receipts, told, proc, mock, disturbances>>

\* A process dies, with everything that was only in its memory, and restarts.
Crash(i) ==
  /\ disturbances < MaxDisturbances
  /\ disturbances' = disturbances + 1
  /\ Return(i)
  /\ mock' = [mock EXCEPT ![i] = ColdStore]
  /\ UNCHANGED <<approval, replays, doc, log, receipts, told, expired>>

\* Where an append that fails is caught by resume_approved, if the approval
\* was granted.
InTry ==
  {"attempt", "decide", "recordAllow", "recordBlock", "blocked", "effect", "succeed",
   "toolFailed", "agentDone", "commsStart", "finish"}

\* The state of the handler's RUN_FAILED: the in-memory changes made for the
\* append that failed stay, of which only the counted call is left to make.
FailedAppend(p) ==
  [p EXCEPT !.pc = "failRun", !.snap.status = "FAILED",
            !.snap.calls = @ + (IF p.pc = "attempt" THEN 1 ELSE 0)]

\* A request to the store fails although i's snapshot may be current, or is
\* carried out and its answer lost.  The second is this action after the step
\* that made the request: the append is durable, the snapshot, rolled back, is
\* stale, and so is the RUN_FAILED that would follow.
\*   - get_effect_receipt and put_effect_receipt fail the tool in progress;
\*   - an append of resume_approved that was not carried out ends in RUN_FAILED,
\*     which the store may well accept;
\*   - anything else ends the request, as does an append whose answer is lost.
StorageError(i) ==
  /\ StorageMayFail
  /\ disturbances < MaxDisturbances
  /\ disturbances' = disturbances + 1
  /\ LET p == proc[i]
         caught == p.appr.status = "APPROVED"
     IN \/ /\ p.pc \in {"effect", "receipt", "succeed"}
           /\ Continue(i, [p EXCEPT !.pc = "toolFailed"])
        \/ /\ caught
           /\ p.pc \in InTry \ {"effect"}
           /\ p.pc = "attempt" => AgentReady(p) /\ p.snap.calls < MaxToolCalls
           /\ Continue(i, FailedAppend(p))
        \/ /\ p.pc \notin {"idle", "receipt"}
           /\ caught => p.pc \notin {"succeed", "toolFailed"}
           /\ Return(i)
  /\ UNCHANGED <<approval, replays, doc, log, receipts, told, expired, mock>>

\* The process runs another trace: of another order, or of the same order and
\* quote (which has the same booking id), leaving it prepared, confirmed or
\* cancelled.
ServeOtherRun(i) ==
  /\ disturbances < MaxDisturbances
  /\ disturbances' = disturbances + 1
  /\ \/ /\ "otherOrder" \in OtherRuns
        /\ mock' = [mock EXCEPT ![i].prepared = @ \cup {"other"}]
     \/ /\ "sameOrder" \in OtherRuns
        /\ \E outcome \in {"prepared", "confirmed", "cancelled"} :
             mock' = [mock EXCEPT ![i].prepared = @ \cup {"this"},
                                  ![i].confirmed = @ \/ outcome = "confirmed",
                                  ![i].cancelled = @ \/ outcome = "cancelled"]
  /\ UNCHANGED <<approval, replays, doc, log, receipts, told, expired, proc>>

\* The next step of a request in progress.
Step(i) ==
  \/ ReadApproval(i) \/ LoadTrace(i) \/ Claim(i) \/ RecordReplay(i)
  \/ DecisionEvent(i) \/ ResumeRun(i) \/ ResumeAgent(i) \/ AgentDone(i)
  \/ CommsStart(i) \/ Finish(i) \/ FailRun(i)
  \/ Attempt(i) \/ Decide(i) \/ RecordDecision(i) \/ Blocked(i)
  \/ ExecuteEffect(i) \/ PutReceipt(i) \/ Succeed(i) \/ ToolFailed(i)

Next ==
  \/ \E i \in Instances : Step(i) \/ SweepDue(i) \/ Crash(i) \/ StorageError(i) \/ ServeOtherRun(i)
  \/ \E i \in Instances, c \in ClientCommands : ReceiveCommand(i, c)
  \/ Tick

Spec == Init /\ [][Next]_vars
-----------------------------------------------------------------------------
(* Fairness.  A request in progress goes on: the service runs it to its end  *)
(* unless its process dies.  A client whose command decided the approval     *)
(* resends it until it is answered from a replay record.  No fairness is     *)
(* assumed for new commands, the sweep, the clock, crashes or other runs.    *)

Resubmit(i) == \E c \in ClientCommands : Matches(approval, c) /\ ReceiveCommand(i, c)

FairSpec ==
  /\ Spec
  /\ \A i \in Instances : WF_vars(Step(i))
  /\ WF_vars(\E i \in Instances : Resubmit(i))

-----------------------------------------------------------------------------
(* Properties.                                                             *)

\* Every variable keeps its type; in particular reserved spend never becomes
\* negative, whatever cancellation or confirmation is retried.
TypeOK ==
  /\ approval \in ApprovalRecord
  /\ replays \subseteq Command
  /\ doc \in Document
  /\ log \subseteq (ApprovalStatus \cup {"RUN_RESUMED", "COMPLETED", "CANCELLED"})
  /\ receipts \subseteq Tools
  /\ told \in [Tools -> Nat]
  /\ expired \in BOOLEAN
  /\ proc \in [Instances -> Process]
  /\ mock \in [Instances -> MockStore]
  /\ disturbances \in Nat

\* Spend moves exactly once and only for an effect that happened: committed
\* spend includes the amount if and only if the booking is confirmed, and the
\* reservation is gone only after a confirmation or a cancellation.
SpendFollowsEffects ==
  /\ doc.committed = Base + (IF doc.prep = "CONFIRMED" THEN Amount ELSE 0)
  /\ doc.reserved \in {0, Amount}
  /\ doc.prep = "CONFIRMED" => "confirm" \in receipts /\ doc.reserved = 0
  /\ (doc.reserved = 0 /\ doc.prep # "CONFIRMED") => "cancel" \in receipts

\* A terminal status tells the truth about effects and spend: COMPLETED runs
\* are booked, paid and notified, CANCELLED runs have released everything, and
\* BLOCKED runs have booked nothing.
TerminalTruthful ==
  /\ doc.status = "COMPLETED" =>
       /\ {"confirm", "outbox"} \subseteq receipts
       /\ doc.prep = "CONFIRMED" /\ doc.notified
  /\ doc.status = "CANCELLED" =>
       /\ "cancel" \in receipts
       /\ doc.prep = "CANCELLED" /\ doc.reserved = 0
  /\ doc.status = "BLOCKED" =>
       /\ approval.status = "APPROVED"
       /\ receipts = {}

\* What the carrier and the customer are told, counted at the call itself and not
\* at its receipt, so a crash, a storage error or a second process between the two
\* is seen: a booking is confirmed and the customer notified at most once, only
\* for an approved run and in that order; a release is sent only for a refused
\* one; and no receipt stands for a call that was never made.
ToldOnce ==
  /\ told["confirm"] <= 1 /\ told["outbox"] <= 1
  /\ told["confirm"] > 0 => approval.status = "APPROVED" /\ told["cancel"] = 0
  /\ told["cancel"] > 0 => approval.status \in {"REJECTED", "EXPIRED"}
  /\ told["outbox"] > 0 => doc.prep = "CONFIRMED"
  /\ \A t \in receipts : told[t] > 0

\* A replay record - what later retries are answered from - exists only for
\* the command that decided the approval.
ReplayOfWinner ==
  \A r \in replays : approval.by = r /\ approval.status = StatusOf(r.decision)

\* The fresh authorization after an approval never escalates a second time:
\* the approval stays bound to the trace until the booking is applied.
NoSecondEscalation ==
  \A i \in Instances : At(i, "decide") => PolicyOutcome(proc[i]) # "ESCALATE"

\* The refinement mapping: the decision is the durable approval record, the
\* effect the durable receipt, the spend what the durable document records.
DecisionTaken ==
  CASE approval.status = "PENDING_APPROVAL" -> "open"
    [] approval.status = "APPROVED" -> "granted"
    [] OTHER -> "refused"

EffectMade ==
  CASE "confirm" \in receipts -> "confirmed"
    [] "confirm" \notin receipts /\ "cancel" \in receipts -> "released"
    [] OTHER -> "none"

SpendRecorded ==
  CASE doc.reserved = Amount /\ doc.committed = Base -> "reserved"
    [] doc.reserved = 0 /\ doc.committed = Base + Amount -> "committed"
    [] OTHER -> "freed"

CustomerTold == "outbox" \in receipts

Promise == INSTANCE Commitment WITH
  decision <- DecisionTaken, effect <- EffectMade, spend <- SpendRecorded,
  notified <- CustomerTold

\* Resolution by racing, crashing and retrying processes implements the
\* abstract two-phase commitment.
ImplementsCommitment == Promise!Spec

\* A finished run never changes again: no late or stale process rewrites the
\* document of a terminal run.
TerminalFinal == [][doc.status \in Terminal => doc' = doc]_vars

\* An approved run never fails for a reason of the process that resumes it:
\* docs/CHECKPOINT_8_IMPLEMENTATION_PLAN.md, "A new service instance resumes and
\* completes the original approved trace."
ApprovedRunNeverFails == doc.status # "FAILED"

\* Recovery after an approval claim, as docs/CHECKPOINT_8_IMPLEMENTATION_PLAN.md
\* 7.5 states it: an approved but incomplete run is resumed by a replay.
ApprovedRunResumes == (approval.status = "APPROVED") ~> (doc.status \in Terminal)

\* The same for a rejected approval: cancellation is finished by a replay.
RejectedRunCancels == (approval.status = "REJECTED") ~> (doc.status \in Terminal)

\* The same for an expired approval.
ExpiredRunCancels == (approval.status = "EXPIRED") ~> (doc.status \in Terminal)
=============================================================================
